----------------------------- MODULE ScopeGate -----------------------------
(***************************************************************************)
(* A scope on its way from the operator to the tools: validate_scope stores *)
(* it, create_scan parses the stored networks again, the worker loads them  *)
(* and each runner filters its targets with them.  The settings             *)
(* (ENABLE_IPV6, SCANNER_MAX_HOSTS) may change between any two of the steps, *)
(* because the containers may be started again with another environment.    *)
(***************************************************************************)
EXTENDS ScopeManager, Sequences

CONSTANTS
    Tokens,         \* what an operator may type on a line
    Settings,       \* the environments: [ipv6 : BOOLEAN, maxHosts : Nat]
    CandidateSets,  \* targets a stage may hand to a runner
    Repairs,        \* {"stored_scope"} once the worker can read a scope row
    MaxTokens,      \* bound: lines of a scope
    MaxScopes,      \* bound: validated scopes
    MaxScans        \* bound: created scans

ASSUME GateAssumption ==
    /\ Settings \subseteq [ipv6 : BOOLEAN, maxHosts : Nat]
    /\ MaxTokens \in Nat /\ MaxScopes \in Nat /\ MaxScans \in Nat

\* What ipaddress reads: a network has a prefix length of its version, and an
\* address is one of its version.
ASSUME TokensAssumption ==
    \A t \in Tokens :
        /\ t.kind = "net" => /\ t.v \in Versions /\ t.a \in 0 .. Space[t.v] - 1
                              /\ t.size \in Sizes /\ Space[t.v] % t.size = 0
        /\ t.kind = "range" => /\ t.v \in Versions /\ t.a \in 0 .. Space[t.v] - 1
                                /\ t.w \in Versions /\ t.b \in 0 .. Space[t.w] - 1

VARIABLES
    settings,   \* environment of the running containers
    scopes,     \* table scopes; `typed' and `settings' are history
    scans,      \* the scope of every created scan; `settings' is history
    refused,    \* history: scopes create_scan answered 400 for
    tool        \* the last call of a runner: its scan and targets

vars == <<settings, scopes, scans, refused, tool>>

NoTool == [scan |-> 0, targets |-> {}]

TypeOK ==
    /\ settings \in Settings
    /\ \A k \in DOMAIN scopes : scopes[k].networks \subseteq Network
    /\ \A s \in DOMAIN scans : scans[s].scope \in DOMAIN scopes
    /\ refused \subseteq [scope : DOMAIN scopes, settings : Settings]
    /\ tool.scan \in {0} \cup DOMAIN scans
    /\ tool.targets \subseteq Address

Init ==
    /\ settings \in Settings
    /\ scopes = <<>> /\ scans = <<>> /\ refused = {}
    /\ tool = NoTool

Inputs == {S \in SUBSET Tokens : Cardinality(S) \in 1 .. MaxTokens}

\* POST /api/scans/validate-scope; a ScopeError stores nothing.
ValidateScope ==
    /\ Len(scopes) < MaxScopes
    /\ \E tokens \in Inputs :
          /\ Accepts(tokens, settings)
          /\ scopes' = Append(scopes, [networks |-> Networks(tokens),
                                       typed |-> tokens, settings |-> settings])
    /\ UNCHANGED <<settings, scans, refused, tool>>

StillAccepted(k) == Accepts(CidrList(scopes[k].networks), settings)

\* Mutant: the stored scope is trusted.
CreateScanTrusts ==
    /\ Len(scans) < MaxScans
    /\ \E k \in DOMAIN scopes : scans' = Append(scans, [scope |-> k, settings |-> settings])
    /\ UNCHANGED <<settings, scopes, refused, tool>>

\* POST /api/scans: the stored networks go through parse once more.
CreateScan ==
    /\ Len(scans) < MaxScans
    /\ \E k \in DOMAIN scopes :
          /\ StillAccepted(k)
          /\ scans' = Append(scans, [scope |-> k, settings |-> settings])
    /\ UNCHANGED <<settings, scopes, refused, tool>>

CreateScanRefused ==
    /\ \E k \in DOMAIN scopes :
          /\ ~ StillAccepted(k)
          /\ refused' = refused \cup {[scope |-> k, settings |-> settings]}
    /\ UNCHANGED <<settings, scopes, scans, tool>>

Reconfigure ==
    /\ settings' \in Settings
    /\ UNCHANGED <<scopes, scans, refused, tool>>

\* Scope.from_json of the stored row; nothing is validated here.
ScopeOf(s) == scopes[scans[s].scope].networks

\* A runner keeps what is in scope and starts its tool with that.
RunTool(s, targets) ==
    /\ "stored_scope" \in Repairs
    /\ tool' = [scan |-> s, targets |-> FilterTargets(ScopeOf(s), targets)]
    /\ UNCHANGED <<settings, scopes, scans, refused>>

\* discover_hosts is given the CIDR strings of the scope, and the filter keeps
\* none of them: they are no literal addresses.
DiscoverHosts ==
    \E s \in DOMAIN scans : RunTool(s, CidrList(ScopeOf(s)))

\* The other runners are given what earlier tools reported, which may be
\* anything: addresses in and out of scope, and host names.
ProbeTargets ==
    \E s \in DOMAIN scans, targets \in CandidateSets : RunTool(s, targets)

Next ==
    \/ ValidateScope \/ CreateScan \/ CreateScanRefused \/ Reconfigure
    \/ DiscoverHosts \/ ProbeTargets

Spec == Init /\ [][Next]_vars

-----------------------------------------------------------------------------
(* Properties *)

\* The addresses a line stands for, read off the text and not off parse.
Meaning(token) ==
    IF token.kind = "net"
    THEN {x \in Address : x.v = token.v /\ x.a \div token.size = token.a \div token.size}
    ELSE Span(token.v, token.a, token.b)

TypedAddresses(k) == UNION {Meaning(t) : t \in scopes[k].typed}

\* No tool is ever given an address its scan's operator did not type, an
\* address of a blocked range, or an IPv6 address typed while IPv6 was off.
OnlyAuthorisedTouched ==
    tool.scan # 0 =>
        LET k == scans[tool.scan].scope
        IN  /\ tool.targets \subseteq TypedAddresses(k)
            /\ tool.targets \cap Cover(Blocked) = {}
            /\ \A t \in tool.targets : t.v = 6 => scopes[k].settings.ipv6

\* What is stored (and shown for confirmation) is what was typed, every
\* address once: the count shown to the operator is the number of addresses.
StoredScopeIsTyped ==
    \A k \in DOMAIN scopes :
        /\ Cover(scopes[k].networks) = TypedAddresses(k)
        /\ SumOfSizes(scopes[k].networks) = Cardinality(TypedAddresses(k))

\* A created scan keeps to the settings in force when it was created, however
\* they changed since the scope was validated.
ScansMeetSettings ==
    \A s \in DOMAIN scans :
        LET nets == scopes[scans[s].scope].networks
        IN  /\ \A n \in nets : ValidateNetwork(n, scans[s].settings)
            /\ Cardinality(Cover(OfVersion(nets, 4))) <= scans[s].settings.maxHosts

-----------------------------------------------------------------------------
(* What the documentation says and the code does not do *)

\* docs/scanning.md: validate the scope, then create the scan with the
\* scope_id of that step.  Under the same settings the second step accepts
\* what the first one did.
AcceptedScopeCreatable ==
    \A x \in refused : scopes[x.scope].settings # x.settings
=============================================================================
