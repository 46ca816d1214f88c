---------------------------- MODULE FindingsProofs ----------------------------
(***************************************************************************)
(* Theorems about Findings: whatever the scans report, in whatever order,    *)
(* and whoever changes statuses meanwhile, an issue has one row with the     *)
(* highest severity ever reported for it and the status its audit trail ends *)
(* with, the trail tells no untruth, and counters count issues.              *)
(***************************************************************************)
EXTENDS Findings, SequenceTheorems, FiniteSetTheorems, TLAPS

(* Sequences and least elements *)

LEMMA Least ==
    ASSUME NEW T, T \subseteq Nat, T # {}
    PROVE  \E m \in T : \A n \in T : m <= n
<1>1. PICK m \in T : \A n \in T : ~ (<<n, m>> \in OpToRel(<, Nat))
  BY WFMin, NatLessThanWellFounded
<1>2. \A n \in T : ~ (n < m)
  BY <1>1 DEF OpToRel
<1> QED  BY <1>2

LEMMA FunctionIsSeq ==
    ASSUME NEW S, NEW n \in Nat, NEW f \in [1 .. n -> S]
    PROVE  f \in Seq(S) /\ Len(f) = n /\ DOMAIN f = 1 .. n
BY SeqDef

\* Where the elements of a concatenation come from.
LEMMA Joined ==
    ASSUME NEW S, NEW p \in Seq(S), NEW q \in Seq(S), NEW r, r = p \o q
    PROVE  /\ r \in Seq(S) /\ DOMAIN p \subseteq DOMAIN r
           /\ \A i \in DOMAIN p : r[i] = p[i]
           /\ \A i \in DOMAIN r \ DOMAIN p : i - Len(p) \in DOMAIN q /\ r[i] = q[i - Len(p)]
           /\ \A i \in DOMAIN q : Len(p) + i \in DOMAIN r /\ r[Len(p) + i] = q[i]
           /\ DOMAIN r \subseteq Int /\ Len(p) \in Int
<1>1. /\ Len(p) \in Nat /\ DOMAIN p = 1 .. Len(p)
      /\ Len(q) \in Nat /\ DOMAIN q = 1 .. Len(q)
  BY LenProperties
<1>2. /\ r \in Seq(S) /\ Len(r) = Len(p) + Len(q)
      /\ \A i \in 1 .. Len(p) + Len(q) :
            r[i] = IF i <= Len(p) THEN p[i] ELSE q[i - Len(p)]
  BY ConcatProperties
<1>3. DOMAIN r = 1 .. Len(p) + Len(q)
  BY <1>2, LenProperties
<1>4. \A i \in DOMAIN q : Len(p) + i \in DOMAIN r /\ (Len(p) + i) - Len(p) = i
                          /\ ~ (Len(p) + i <= Len(p))
  BY <1>1, <1>3
<1>5. \A i \in DOMAIN q : r[Len(p) + i] = q[i]
  BY <1>2, <1>3, <1>4
<1> QED  BY <1>1, <1>2, <1>3, <1>4, <1>5

\* SetToSeq lists every element of a finite set once.
LEMMA SetToSeqLists ==
    ASSUME NEW S, IsFiniteSet(S)
    PROVE  LET q == SetToSeq(S)
           IN  /\ q \in Seq(S) /\ Len(q) \in Nat /\ DOMAIN q = 1 .. Len(q)
               /\ \A i, j \in DOMAIN q : q[i] = q[j] => i = j
               /\ \A x \in S : \E i \in DOMAIN q : q[i] = x
<1> DEFINE n == Cardinality(S)
           q == SetToSeq(S)
<1>1. n \in Nat /\ ExistsBijection(1 .. n, S)
  BY FS_CardinalityType
<1>2. q \in [1 .. n -> S] /\ IsInjective(q)
  BY <1>1 DEF SetToSeq, ExistsBijection, Bijection, Injection
<1>3. q \in Injection(1 .. n, S)
  BY <1>2 DEF Injection
<1>4. IsFiniteSet(1 .. n) /\ Cardinality(1 .. n) = n
  BY <1>1, FS_Interval
<1>5. q \in Surjection(1 .. n, S)
  BY <1>3, <1>4, FS_Injection
<1>6. q \in Seq(S) /\ Len(q) = n /\ DOMAIN q = 1 .. n
  BY <1>1, <1>2, FunctionIsSeq
<1> QED  BY <1>1, <1>2, <1>5, <1>6 DEF IsInjective, Surjection

-----------------------------------------------------------------------------
(* deduplicate_findings *)

LEMMA ReportTypes ==
    ASSUME NEW f \in Report
    PROVE  f.key \in Keys /\ f.severity \in Severities
BY DEF Report, Rank, Severities

\* One finding is left for each key.
LEMMA DeduplicateIsUnique ==
    ASSUME NEW fs \in Seq(Report), NEW f \in Deduplicate(fs), NEW g \in Deduplicate(fs),
           f.key = g.key
    PROVE  f = g
<1>1. DOMAIN fs = 1 .. Len(fs) /\ Len(fs) \in Nat /\ \A n \in DOMAIN fs : fs[n] \in Report
  BY LenProperties, ElementOfSeq
<1>2. PICK n \in DOMAIN fs :
          /\ f = fs[n]
          /\ \A m \in DOMAIN fs \ {n} : fs[m].key = fs[n].key =>
                \/ fs[m].severity < fs[n].severity
                \/ fs[m].severity = fs[n].severity /\ n < m
  BY DEF Deduplicate
<1>3. PICK k \in DOMAIN fs :
          /\ g = fs[k]
          /\ \A m \in DOMAIN fs \ {k} : fs[m].key = fs[k].key =>
                \/ fs[m].severity < fs[k].severity
                \/ fs[m].severity = fs[k].severity /\ k < m
  BY DEF Deduplicate
<1>4. fs[n].severity \in Int /\ fs[k].severity \in Int /\ n \in Int /\ k \in Int
  BY <1>1, ReportTypes DEF Severities
<1> QED  BY <1>2, <1>3, <1>4

\* Every report is represented, by one at least as severe.
LEMMA DeduplicateCovers ==
    ASSUME NEW fs \in Seq(Report), NEW n \in DOMAIN fs
    PROVE  \E f \in Deduplicate(fs) : f.key = fs[n].key /\ fs[n].severity <= f.severity
<1>1. DOMAIN fs = 1 .. Len(fs) /\ Len(fs) \in Nat /\ \A m \in DOMAIN fs : fs[m] \in Report
  BY LenProperties, ElementOfSeq
<1> DEFINE Same == {m \in DOMAIN fs : fs[m].key = fs[n].key}
           Below == {5 - fs[m].severity : m \in Same}
<1>2. \A m \in Same : fs[m].severity \in 1 .. 5
  BY <1>1, ReportTypes DEF Severities
<1>3. PICK b \in Below : \A c \in Below : b <= c
  <2>1. Below \subseteq Nat /\ Below # {}
    BY <1>2
  <2> QED  BY <2>1, Least
<1>4. PICK top \in Same : b = 5 - fs[top].severity
  BY <1>3
<1>5. ASSUME NEW m \in Same
      PROVE  fs[m].severity <= fs[top].severity
  <2>1. 5 - fs[top].severity <= 5 - fs[m].severity
    BY <1>3, <1>4
  <2>2. fs[m].severity \in Int /\ fs[top].severity \in Int
    BY <1>2, <1>4
  <2> QED  BY <2>1, <2>2
<1> DEFINE Top == {m \in Same : fs[m].severity = fs[top].severity}
<1>6. PICK first \in Top : \A m \in Top : first <= m
  <2>1. Top \subseteq Nat /\ Top # {}
    BY <1>1, <1>4
  <2> QED  BY <2>1, Least
<1>7. ASSUME NEW m \in DOMAIN fs \ {first}, fs[m].key = fs[first].key
      PROVE  \/ fs[m].severity < fs[first].severity
             \/ fs[m].severity = fs[first].severity /\ first < m
  <2>1. m \in Same /\ first \in Same /\ m \in Int /\ first \in Int /\ m # first
    BY <1>1, <1>6, <1>7
  <2>2. fs[m].severity <= fs[first].severity /\ fs[m].severity \in Int
        /\ fs[first].severity \in Int /\ fs[first].severity = fs[top].severity
    BY <1>2, <1>5, <1>6, <2>1
  <2>3. fs[m].severity = fs[first].severity => first <= m
    BY <1>6, <2>1, <2>2
  <2> QED  BY <2>1, <2>2, <2>3
<1>8. fs[first] \in Deduplicate(fs)
  BY <1>6, <1>7 DEF Deduplicate
<1> QED  BY <1>5, <1>6, <1>8

LEMMA DeduplicateTypes ==
    ASSUME NEW fs \in Seq(Report)
    PROVE  /\ IsFiniteSet(Deduplicate(fs)) /\ Deduplicate(fs) \subseteq Report
           /\ \A f \in Deduplicate(fs) : \E n \in DOMAIN fs : fs[n] = f
<1>1. DOMAIN fs = 1 .. Len(fs) /\ Len(fs) \in Nat /\ \A n \in DOMAIN fs : fs[n] \in Report
  BY LenProperties, ElementOfSeq
<1>2. \A f \in Deduplicate(fs) : \E n \in DOMAIN fs : fs[n] = f
  BY DEF Deduplicate
<1> DEFINE D == {n \in DOMAIN fs : fs[n] \in Deduplicate(fs)}
           g == [n \in D |-> fs[n]]
<1>3. IsFiniteSet(D)
  <2>1. D \subseteq 1 .. Len(fs) /\ IsFiniteSet(1 .. Len(fs))
    BY <1>1, FS_Interval
  <2> QED  BY <2>1, FS_Subset
<1>4. g \in Surjection(D, Deduplicate(fs))
  BY <1>2 DEF Surjection
<1> QED  BY <1>1, <1>2, <1>3, <1>4, FS_Surjection

-----------------------------------------------------------------------------
(* _store_findings *)

\* As long as an issue has one row, the row that is looked up is that one.
LEMMA ExistingIsTheRow ==
    ASSUME findings \in Seq(Row), OneRowPerKey, NEW key, NEW i
    PROVE  i \in Existing(key) <=> i \in DOMAIN findings /\ findings[i].key = key
<1>1. DOMAIN findings = 1 .. Len(findings) /\ Len(findings) \in Nat
  BY LenProperties
<1>2. ASSUME i \in DOMAIN findings, findings[i].key = key, NEW j \in 1 .. i - 1
      PROVE  findings[j].key # key
  <2>1. j \in DOMAIN findings /\ j # i
    BY <1>1, <1>2
  <2> QED  BY <1>2, <2>1 DEF OneRowPerKey
<1> QED  BY <1>2 DEF Existing

\* The rows that were there keep their key and status; one that is reported
\* again takes the higher severity, and only such a one changes it.
MergedRow(old, new, fs) ==
    /\ new.key = old.key /\ new.status = old.status
    /\ \/ /\ new.severity = old.severity
          /\ \A f \in Deduplicate(fs) : f.key # old.key
       \/ \E f \in Deduplicate(fs) :
             /\ f.key = old.key
             /\ new.severity = IF f.severity > old.severity THEN f.severity
                                                            ELSE old.severity

AddedRow(new, fs) ==
    \E f \in Deduplicate(fs) :
        /\ new.key = f.key /\ new.severity = f.severity /\ new.status = "OPEN"
        /\ \A i \in DOMAIN findings : findings[i].key # f.key

LEMMA StoreFacts ==
    ASSUME findings \in Seq(Row), OneRowPerKey, NEW s \in Scans, NEW fs \in Seq(Report),
           StoreFindings(s, fs)
    PROVE  /\ findings' \in Seq(Row)
           /\ DOMAIN findings \subseteq DOMAIN findings'
           /\ \A i \in DOMAIN findings : MergedRow(findings[i], findings'[i], fs)
           /\ \A i \in DOMAIN findings' \ DOMAIN findings : AddedRow(findings'[i], fs)
           /\ \A i, j \in DOMAIN findings' \ DOMAIN findings :
                 findings'[i].key = findings'[j].key => i = j
           /\ \A f \in Deduplicate(fs) : \E i \in DOMAIN findings' : findings'[i].key = f.key
<1> DEFINE unique == Deduplicate(fs)
           fresh == {f \in unique : Existing(f.key) = {}}
           MatchOf(i) == {f \in unique : i \in Existing(f.key)}
           old == [i \in DOMAIN findings |->
                      IF MatchOf(i) = {} THEN findings[i]
                      ELSE SeenAgain(findings[i], CHOOSE f \in MatchOf(i) : TRUE, s)]
           Rows == {NewFinding(f, s) : f \in fresh}
           added == SetToSeq(Rows)
<1>1. findings' = old \o added
  BY DEF StoreFindings
<1>2. /\ Len(findings) \in Nat /\ DOMAIN findings = 1 .. Len(findings)
      /\ \A i \in DOMAIN findings : findings[i] \in Row
  BY LenProperties, ElementOfSeq
<1>3. unique \subseteq Report /\ IsFiniteSet(unique)
  BY DeduplicateTypes
<1>4. \A i \in DOMAIN findings : MatchOf(i) = {f \in unique : f.key = findings[i].key}
  BY ExistingIsTheRow
<1>5. ASSUME NEW i \in DOMAIN findings
      PROVE  old[i] \in Row /\ MergedRow(findings[i], old[i], fs)
  <2>1. CASE MatchOf(i) = {}
    BY <1>2, <1>4, <2>1 DEF MergedRow
  <2>2. CASE MatchOf(i) # {}
    <3>1. PICK f \in MatchOf(i) : old[i] = SeenAgain(findings[i], f, s)
      BY <2>2
    <3>2. f \in unique /\ f.key = findings[i].key
      BY <1>4, <3>1
    <3>3. f.severity \in Severities
      BY <1>3, <3>2, ReportTypes
    <3>4. old[i] = [findings[i] EXCEPT !.scan = s,
                       !.severity = IF f.severity > @ THEN f.severity ELSE @]
      BY <3>1 DEF SeenAgain
    <3>5. old[i] \in Row /\ old[i].key = findings[i].key
          /\ old[i].status = findings[i].status
          /\ old[i].severity = IF f.severity > findings[i].severity THEN f.severity
                                                                    ELSE findings[i].severity
      BY <1>2, <3>3, <3>4 DEF Row
    <3> QED  BY <3>2, <3>5 DEF MergedRow
  <2> QED  BY <2>1, <2>2
<1>6. old \in Seq(Row) /\ Len(old) = Len(findings) /\ DOMAIN old = DOMAIN findings
  <2>1. old \in [1 .. Len(findings) -> Row]
    BY <1>2, <1>5
  <2> QED  BY <1>2, <2>1, FunctionIsSeq
<1>7. \A f \in fresh : NewFinding(f, s) \in Row
  BY <1>3, ReportTypes DEF NewFinding, Row, Statuses
<1>8. IsFiniteSet(Rows)
  <2>1. IsFiniteSet(fresh)
    BY <1>3, FS_Subset
  <2>2. [f \in fresh |-> NewFinding(f, s)] \in Surjection(fresh, Rows)
    BY DEF Surjection
  <2> QED  BY <2>1, <2>2, FS_Surjection
<1>9. /\ added \in Seq(Rows) /\ Len(added) \in Nat /\ DOMAIN added = 1 .. Len(added)
      /\ \A i, j \in DOMAIN added : added[i] = added[j] => i = j
      /\ \A x \in Rows : \E i \in DOMAIN added : added[i] = x
  BY <1>8, SetToSeqLists
<1>10. Rows \subseteq Row
  BY <1>7
<1> HIDE DEF old, added, Rows
<1>11. /\ findings' \in Seq(Row) /\ DOMAIN findings \subseteq DOMAIN findings'
       /\ \A i \in DOMAIN findings : findings'[i] = old[i]
       /\ \A i \in DOMAIN findings' \ DOMAIN findings :
             /\ i - Len(findings) \in DOMAIN added
             /\ findings'[i] = added[i - Len(findings)]
             /\ findings'[i] \in Rows
       /\ \A i \in DOMAIN added :
             Len(findings) + i \in DOMAIN findings' /\ findings'[Len(findings) + i] = added[i]
       /\ DOMAIN findings' \subseteq Int
  <2>1. added \in Seq(Row) /\ \A i \in DOMAIN added : added[i] \in Rows
    BY <1>9, <1>10, SeqMonotonic, ElementOfSeq
  <2> QED  BY <1>1, <1>6, <2>1, Joined
<1>12. \A f \in fresh : \A i \in DOMAIN findings : findings[i].key # f.key
  BY ExistingIsTheRow
<1>13. ASSUME NEW i \in DOMAIN findings' \ DOMAIN findings
       PROVE  AddedRow(findings'[i], fs)
  <2>1. PICK f \in fresh : findings'[i] = NewFinding(f, s)
    BY <1>11 DEF Rows
  <2> QED  BY <1>12, <2>1 DEF AddedRow, NewFinding
<1>14. ASSUME NEW i \in DOMAIN findings' \ DOMAIN findings,
              NEW j \in DOMAIN findings' \ DOMAIN findings,
              findings'[i].key = findings'[j].key
       PROVE  i = j
  <2>1. PICK f \in fresh : findings'[i] = NewFinding(f, s)
    BY <1>11 DEF Rows
  <2>2. PICK g \in fresh : findings'[j] = NewFinding(g, s)
    BY <1>11 DEF Rows
  <2>3. f = g
    BY <1>14, <2>1, <2>2, DeduplicateIsUnique DEF NewFinding
  <2>4. added[i - Len(findings)] = added[j - Len(findings)]
    BY <1>11, <2>1, <2>2, <2>3
  <2>5. i - Len(findings) = j - Len(findings)
    BY <1>9, <1>11, <2>4
  <2> QED  BY <1>2, <1>11, <2>5
<1>15. ASSUME NEW f \in unique
       PROVE  \E i \in DOMAIN findings' : findings'[i].key = f.key
  <2>1. CASE f \in fresh
    <3>1. PICK i \in DOMAIN added : added[i] = NewFinding(f, s)
      BY <1>9, <2>1 DEF Rows
    <3> QED  BY <1>11, <3>1 DEF NewFinding
  <2>2. CASE f \notin fresh
    <3>1. PICK i \in DOMAIN findings : findings[i].key = f.key
      BY <2>2, ExistingIsTheRow
    <3>2. i \in DOMAIN findings' /\ findings'[i].key = f.key
      BY <1>5, <1>11, <3>1 DEF MergedRow
    <3> QED  BY <3>2
  <2> QED  BY <2>1, <2>2
<1> QED  BY <1>5, <1>11, <1>13, <1>14, <1>15

-----------------------------------------------------------------------------
(* The invariant *)

\* A status request commits to a finding that is there.
PendingExists ==
    \A u \in Updates : update[u].pc = "commit" => update[u].finding \in DOMAIN findings

\* What a finished scan reported has a row.
ReportedHaveRows ==
    \A s \in finished : \A n \in DOMAIN reports[s] :
        \E i \in DOMAIN findings : findings[i].key = reports[s][n].key

FindingsInv ==
    TypeOK /\ PendingExists /\ OneRowPerKey /\ SeverityIsHighest /\ ReportedHaveRows

LEMMA CountedTypes ==
    ASSUME NEW fs \in Seq(Report)
    PROVE  Counted(fs) \in [Severities -> Nat]
<1>1. ASSUME NEW v
      PROVE  Cardinality({f \in Deduplicate(fs) : f.severity = v}) \in Nat
  <2>1. IsFiniteSet({f \in Deduplicate(fs) : f.severity = v})
    BY DeduplicateTypes, FS_Subset
  <2> QED  BY <2>1, FS_CardinalityType
<1> QED  BY <1>1 DEF Counted

LEMMA FindingsInit == Init => FindingsInv
<1> SUFFICES ASSUME Init PROVE FindingsInv
  OBVIOUS
<1>1. findings \in Seq(Row) /\ DOMAIN findings = {}
  BY EmptySeq DEF Init
<1>2. changes \in Seq([finding : DOMAIN findings, old : Statuses, new : Statuses])
  BY EmptySeq DEF Init
<1>3. reports \in [Scans -> Seq(Report)]
  BY EmptySeq DEF Init
<1>4. TypeOK
  BY <1>1, <1>2, <1>3 DEF Init, TypeOK, Statuses
<1> QED  BY <1>1, <1>4 DEF Init, FindingsInv, PendingExists, OneRowPerKey,
           SeverityIsHighest, ReportedHaveRows

\* The severities with which an issue was reported are those before the scan
\* and those the scan reports.
LEMMA ReportedGrows ==
    ASSUME TypeOK, NEW s \in Scans \ finished, NEW fs \in Seq(Report),
           reports' = [reports EXCEPT ![s] = fs], finished' = finished \cup {s},
           NEW key, NEW v
    PROVE  v \in ReportedAs(key)' <=>
              \/ v \in ReportedAs(key)
              \/ \E n \in DOMAIN fs : fs[n].key = key /\ v = fs[n].severity
<1>1. reports'[s] = fs /\ \A t \in finished : reports'[t] = reports[t]
  BY DEF TypeOK
<1>2. v \in ReportedAs(key) <=>
          \E t \in finished : \E n \in DOMAIN reports[t] :
              reports[t][n].key = key /\ v = reports[t][n].severity
  BY DEF ReportedAs
<1>3. v \in ReportedAs(key)' <=>
          \E t \in finished' : \E n \in DOMAIN reports'[t] :
              reports'[t][n].key = key /\ v = reports'[t][n].severity
  BY DEF ReportedAs
<1> QED  BY <1>1, <1>2, <1>3

LEMMA ReportedTypes ==
    ASSUME TypeOK, NEW key, NEW v \in ReportedAs(key)
    PROVE  v \in Severities /\ v \in Int
<1>1. PICK t \in finished : \E n \in DOMAIN reports[t] : v = reports[t][n].severity
  BY DEF ReportedAs
<1>2. reports[t] \in Seq(Report)
  BY DEF TypeOK
<1> QED  BY <1>1, <1>2, LenProperties, ElementOfSeq, ReportTypes DEF Severities

LEMMA RowTypes ==
    ASSUME TypeOK, NEW i \in DOMAIN findings
    PROVE  /\ i \in Nat /\ findings[i].status \in Statuses
           /\ findings[i].severity \in Int
<1>1. findings \in Seq(Row)
  BY DEF TypeOK
<1>2. DOMAIN findings = 1 .. Len(findings) /\ Len(findings) \in Nat /\ findings[i] \in Row
  BY <1>1, LenProperties, ElementOfSeq
<1> QED  BY <1>2 DEF Row, Severities

LEMMA FinishScanStep ==
    ASSUME FindingsInv, NEW s \in Scans, FinishScan(s)
    PROVE  FindingsInv'
<1> USE DEF FindingsInv
<1>0. PICK n \in 0 .. MaxReports : \E fs \in [1 .. n -> Report] :
          /\ StoreFindings(s, fs)
          /\ counters' = [counters EXCEPT ![s] = Counted(fs)]
          /\ reports' = [reports EXCEPT ![s] = fs]
  BY DEF FinishScan
<1>1. PICK fs \in [1 .. n -> Report] :
          /\ StoreFindings(s, fs)
          /\ counters' = [counters EXCEPT ![s] = Counted(fs)]
          /\ reports' = [reports EXCEPT ![s] = fs]
  BY <1>0
<1>2. /\ s \notin finished \cup broken /\ finished' = finished \cup {s}
      /\ changes' = changes /\ update' = update /\ broken' = broken
  BY DEF FinishScan
<1>3. fs \in Seq(Report)
  <2>1. n \in Nat
    BY <1>0, ReportsAssumption
  <2> QED  BY <1>1, <2>1, FunctionIsSeq
<1>4. /\ findings' \in Seq(Row)
      /\ DOMAIN findings \subseteq DOMAIN findings'
      /\ \A i \in DOMAIN findings : MergedRow(findings[i], findings'[i], fs)
      /\ \A i \in DOMAIN findings' \ DOMAIN findings : AddedRow(findings'[i], fs)
      /\ \A i, j \in DOMAIN findings' \ DOMAIN findings :
            findings'[i].key = findings'[j].key => i = j
      /\ \A f \in Deduplicate(fs) : \E i \in DOMAIN findings' : findings'[i].key = f.key
  BY <1>1, <1>3, StoreFacts DEF TypeOK
<1>5. \A key, v : v \in ReportedAs(key)' <=>
              \/ v \in ReportedAs(key)
              \/ \E m \in DOMAIN fs : fs[m].key = key /\ v = fs[m].severity
  BY <1>1, <1>2, <1>3, ReportedGrows
<1>6. TypeOK'
  <2>1. changes' \in Seq([finding : DOMAIN findings', old : Statuses, new : Statuses])
    BY <1>2, <1>4, SeqMonotonic DEF TypeOK
  <2>2. counters' \in [Scans -> [Severities -> Nat]] /\ reports' \in [Scans -> Seq(Report)]
    BY <1>1, <1>3, CountedTypes DEF TypeOK
  <2>3. finished' \subseteq Scans /\ broken' \subseteq Scans \ finished'
    BY <1>2 DEF TypeOK
  <2> QED  BY <1>2, <1>4, <2>1, <2>2, <2>3 DEF TypeOK
<1>7. PendingExists'
  BY <1>2, <1>4 DEF PendingExists
<1>8. OneRowPerKey'
  <2> SUFFICES ASSUME NEW i \in DOMAIN findings', NEW j \in DOMAIN findings',
                      findings'[i].key = findings'[j].key
               PROVE  i = j
    BY DEF OneRowPerKey
  <2>1. CASE i \in DOMAIN findings /\ j \in DOMAIN findings
    BY <1>4, <2>1 DEF OneRowPerKey, MergedRow
  <2>2. CASE i \in DOMAIN findings /\ j \notin DOMAIN findings
    BY <1>4, <2>2 DEF MergedRow, AddedRow
  <2>3. CASE i \notin DOMAIN findings /\ j \in DOMAIN findings
    BY <1>4, <2>3 DEF MergedRow, AddedRow
  <2>4. CASE i \notin DOMAIN findings /\ j \notin DOMAIN findings
    BY <1>4, <2>4
  <2> QED  BY <2>1, <2>2, <2>3, <2>4
<1>9. ASSUME NEW key, NEW f \in Deduplicate(fs), f.key = key
      PROVE  /\ f.severity \in ReportedAs(key)' /\ f.severity \in Severities
             /\ \A m \in DOMAIN fs : fs[m].key = key => fs[m].severity <= f.severity
  BY <1>3, <1>5, <1>9, DeduplicateTypes, DeduplicateCovers, DeduplicateIsUnique,
     ReportTypes
<1>10. SeverityIsHighest'
  <2> SUFFICES ASSUME NEW i \in DOMAIN findings', NEW key, key = findings'[i].key
               PROVE  /\ findings'[i].severity \in ReportedAs(key)'
                      /\ \A v \in ReportedAs(key)' : v <= findings'[i].severity
    BY DEF SeverityIsHighest, ReportedAs
  <2>1. CASE i \in DOMAIN findings
    <3>1. MergedRow(findings[i], findings'[i], fs) /\ findings[i].key = key
      BY <1>4, <2>1 DEF MergedRow
    <3>2. /\ findings[i].severity \in ReportedAs(key)
          /\ \A v \in ReportedAs(key) : v <= findings[i].severity
      BY <2>1, <3>1 DEF SeverityIsHighest
    <3>3. CASE findings'[i].severity = findings[i].severity
               /\ \A f \in Deduplicate(fs) : f.key # key
      <4>1. \A m \in DOMAIN fs : fs[m].key # key
        BY <1>3, <3>3, DeduplicateCovers
      <4> QED  BY <1>5, <3>2, <3>3, <4>1
    <3>4. ASSUME NEW f \in Deduplicate(fs), f.key = key,
                 findings'[i].severity = IF f.severity > findings[i].severity
                                         THEN f.severity ELSE findings[i].severity
          PROVE  /\ findings'[i].severity \in ReportedAs(key)'
                 /\ \A v \in ReportedAs(key)' : v <= findings'[i].severity
      <4>1. findings[i].severity \in Int
        BY <2>1, RowTypes
      <4>2. /\ f.severity \in ReportedAs(key)' /\ f.severity \in Int
            /\ \A m \in DOMAIN fs : fs[m].key = key => fs[m].severity <= f.severity
        BY <1>9, <3>4 DEF Severities
      <4>3. findings'[i].severity \in ReportedAs(key)'
        BY <1>5, <3>2, <3>4, <4>2
      <4>4. ASSUME NEW v \in ReportedAs(key)'
            PROVE  v <= findings'[i].severity
        <5>1. CASE v \in ReportedAs(key)
          <6>1. v <= findings[i].severity /\ v \in Int
            BY <3>2, <5>1, ReportedTypes
          <6> QED  BY <3>4, <4>1, <4>2, <6>1
        <5>2. CASE v \notin ReportedAs(key)
          <6>1. PICK m \in DOMAIN fs : fs[m].key = key /\ v = fs[m].severity
            BY <1>5, <4>4, <5>2
          <6>2. v <= f.severity /\ v \in Int
            BY <1>3, <4>2, <6>1, LenProperties, ElementOfSeq, ReportTypes DEF Severities
          <6> QED  BY <3>4, <4>1, <4>2, <6>2
        <5> QED  BY <5>1, <5>2
      <4> QED  BY <4>3, <4>4
    <3> QED  BY <3>1, <3>3, <3>4 DEF MergedRow
  <2>2. CASE i \notin DOMAIN findings
    <3>1. PICK f \in Deduplicate(fs) :
              /\ f.key = key /\ findings'[i].severity = f.severity
              /\ \A j \in DOMAIN findings : findings[j].key # f.key
      BY <1>4, <2>2 DEF AddedRow
    <3>2. \A v : v \notin ReportedAs(key)
      BY <3>1 DEF ReportedHaveRows, ReportedAs
    <3>3. /\ f.severity \in ReportedAs(key)'
          /\ \A m \in DOMAIN fs : fs[m].key = key => fs[m].severity <= f.severity
      BY <1>9, <3>1
    <3> QED  BY <1>5, <3>1, <3>2, <3>3
  <2> QED  BY <2>1, <2>2
<1>11. ReportedHaveRows'
  <2> SUFFICES ASSUME NEW t \in finished', NEW m \in DOMAIN reports'[t]
               PROVE  \E i \in DOMAIN findings' : findings'[i].key = reports'[t][m].key
    BY DEF ReportedHaveRows
  <2>1. CASE t = s
    <3>1. reports'[t] = fs
      BY <1>1, <2>1 DEF TypeOK
    <3>2. \E f \in Deduplicate(fs) : f.key = fs[m].key
      BY <1>3, <3>1, DeduplicateCovers
    <3> QED  BY <1>4, <3>1, <3>2
  <2>2. CASE t # s
    <3>1. t \in finished /\ reports'[t] = reports[t]
      BY <1>1, <1>2, <2>2 DEF TypeOK
    <3>2. PICK i \in DOMAIN findings : findings[i].key = reports[t][m].key
      BY <3>1 DEF ReportedHaveRows
    <3> QED  BY <1>4, <3>1, <3>2 DEF MergedRow
  <2> QED  BY <2>1, <2>2
<1> QED  BY <1>6, <1>7, <1>8, <1>10, <1>11

LEMMA ReadFindingStep ==
    ASSUME FindingsInv, NEW u \in Updates, ReadFinding(u)
    PROVE  FindingsInv'
<1> USE DEF FindingsInv
<1>1. PICK i \in DOMAIN findings, want \in Statuses :
          update' = [update EXCEPT ![u] = [pc |-> "commit", finding |-> i,
                                           old |-> findings[i].status, new |-> want]]
  BY DEF ReadFinding
<1>2. UNCHANGED <<findings, changes, counters, reports, finished, broken>>
  BY DEF ReadFinding
<1>3. i \in Nat /\ findings[i].status \in Statuses
  BY RowTypes
<1>4. TypeOK'
  BY <1>1, <1>2, <1>3 DEF TypeOK
<1>5. PendingExists'
  BY <1>1, <1>2 DEF PendingExists, TypeOK
<1> QED
  BY <1>2, <1>4, <1>5 DEF OneRowPerKey, SeverityIsHighest, ReportedAs, ReportedHaveRows

LEMMA CommitStatusStep ==
    ASSUME FindingsInv, NEW u \in Updates, CommitStatus(u)
    PROVE  FindingsInv'
<1> USE DEF FindingsInv
<1> DEFINE i == update[u].finding
<1>1. /\ i \in DOMAIN findings /\ update[u].old \in Statuses /\ update[u].new \in Statuses
  BY DEF CommitStatus, PendingExists, TypeOK
<1>2. /\ findings' = [findings EXCEPT ![i].status = update[u].new]
      /\ changes' = Append(changes, [finding |-> i, old |-> update[u].old,
                                     new |-> update[u].new])
      /\ update' = [update EXCEPT ![u].pc = "done"]
      /\ UNCHANGED <<counters, reports, finished, broken>>
  BY DEF CommitStatus
<1>3. /\ DOMAIN findings = 1 .. Len(findings) /\ Len(findings) \in Nat
      /\ \A j \in DOMAIN findings : findings[j] \in Row
  BY LenProperties, ElementOfSeq DEF TypeOK
<1>4. /\ DOMAIN findings' = DOMAIN findings
      /\ \A j \in DOMAIN findings :
            /\ findings'[j] \in Row
            /\ findings'[j].key = findings[j].key
            /\ findings'[j].severity = findings[j].severity
  BY <1>1, <1>2, <1>3 DEF Row
<1>5. findings' \in Seq(Row)
  <2>1. findings' \in [1 .. Len(findings) -> Row]
    BY <1>2, <1>3, <1>4
  <2> QED  BY <1>3, <2>1, FunctionIsSeq
<1>6. changes' \in Seq([finding : DOMAIN findings', old : Statuses, new : Statuses])
  BY <1>1, <1>2, <1>4, AppendProperties DEF TypeOK
<1>7. TypeOK'
  BY <1>2, <1>5, <1>6 DEF TypeOK
<1>8. PendingExists'
  BY <1>2, <1>4 DEF PendingExists, TypeOK
<1> QED
  BY <1>2, <1>4, <1>7, <1>8 DEF OneRowPerKey, SeverityIsHighest, ReportedAs,
     ReportedHaveRows

LEMMA FindingsStep == FindingsInv /\ [Next]_vars => FindingsInv'
<1> SUFFICES ASSUME FindingsInv, [Next]_vars PROVE FindingsInv'
  OBVIOUS
<1>1. ASSUME NEW u \in Updates, CommitLocked(u)
      PROVE  FindingsInv'
  <2>1. UNCHANGED <<findings, changes, counters, reports, finished, broken>>
    BY <1>1 DEF CommitLocked
  <2>2. update' = [update EXCEPT ![u].pc = "done"]
    BY <1>1 DEF CommitLocked
  <2>3. TypeOK' /\ PendingExists'
    BY <2>1, <2>2 DEF FindingsInv, TypeOK, PendingExists
  <2> QED
    BY <2>1, <2>3 DEF FindingsInv, OneRowPerKey, SeverityIsHighest, ReportedAs,
       ReportedHaveRows
<1>2. ASSUME NEW s \in Scans, FinishScanBreaks(s)
      PROVE  FindingsInv'
  <2>1. UNCHANGED <<findings, changes, counters, reports, finished, update>>
    BY <1>2 DEF FinishScanBreaks
  <2>2. broken' \subseteq Scans \ finished
    BY <1>2 DEF FinishScanBreaks, FindingsInv, TypeOK
  <2> QED
    BY <2>1, <2>2 DEF FindingsInv, TypeOK, PendingExists, OneRowPerKey,
       SeverityIsHighest, ReportedAs, ReportedHaveRows
<1>3. CASE UNCHANGED vars
  BY <1>3 DEF vars, FindingsInv, TypeOK, PendingExists, OneRowPerKey,
     SeverityIsHighest, ReportedAs, ReportedHaveRows
<1> QED  BY <1>1, <1>2, <1>3, FinishScanStep, ReadFindingStep, CommitStatusStep DEF Next

LEMMA FindingsCorrect == Spec => []FindingsInv
BY FindingsInit, FindingsStep, PTL DEF Spec

\* The tables keep their shape: audit records and pending requests are for
\* rows that exist, and the counters are counters, whatever the scans report.
THEOREM TypeCorrect == Spec => []TypeOK
<1>1. FindingsInv => TypeOK
  BY DEF FindingsInv
<1> QED  BY <1>1, FindingsCorrect, PTL

\* _store_findings keeps one row per issue, for any scans in any order and
\* whatever became of the issue in between.
THEOREM OneRowCorrect == Spec => []OneRowPerKey
<1>1. FindingsInv => OneRowPerKey
  BY DEF FindingsInv
<1> QED  BY <1>1, FindingsCorrect, PTL

\* Merging never loses severity: an issue's row has the highest severity any
\* finished scan reported for it, and no other.
THEOREM SeverityCorrect == Spec => []SeverityIsHighest
<1>1. FindingsInv => SeverityIsHighest
  BY DEF FindingsInv
<1> QED  BY <1>1, FindingsCorrect, PTL

-----------------------------------------------------------------------------
(* The audit trail *)

\* What a status request has read is a status the finding has had by now.
PendingReadThePast ==
    \A u \in Updates : update[u].pc = "commit" =>
        /\ update[u].old # update[u].new
        /\ update[u].old \in HadBefore(update[u].finding, Len(changes) + 1)

AuditInv == StatusIsAudited /\ AuditRecordsThePast /\ PendingReadThePast

LEMMA ChangeTypes ==
    ASSUME TypeOK
    PROVE  /\ Len(changes) \in Nat /\ DOMAIN changes = 1 .. Len(changes)
           /\ \A n \in DOMAIN changes :
                 changes[n] \in [finding : DOMAIN findings, old : Statuses, new : Statuses]
<1>1. changes \in Seq([finding : DOMAIN findings, old : Statuses, new : Statuses])
  BY DEF TypeOK
<1> QED  BY <1>1, LenProperties, ElementOfSeq

LEMMA AuditInit == Init => AuditInv
BY DEF Init, AuditInv, StatusIsAudited, AuditRecordsThePast, PendingReadThePast

\* The status a finding has is one it has had by now.
LEMMA StatusIsPast ==
    ASSUME TypeOK, StatusIsAudited, NEW i \in DOMAIN findings
    PROVE  findings[i].status \in HadBefore(i, Len(changes) + 1)
<1>1. CASE ChangesOf(i) = {}
  BY <1>1 DEF StatusIsAudited, HadBefore
<1>2. CASE ChangesOf(i) # {}
  <2>1. PICK n \in ChangesOf(i) : findings[i].status = changes[n].new
    BY <1>2 DEF StatusIsAudited
  <2>2. n < Len(changes) + 1
    BY <2>1, ChangeTypes DEF ChangesOf
  <2> QED  BY <2>1, <2>2 DEF HadBefore
<1> QED  BY <1>1, <1>2

LEMMA AuditFinishScan ==
    ASSUME FindingsInv, AuditInv, NEW s \in Scans, FinishScan(s)
    PROVE  AuditInv'
<1>1. PICK n \in 0 .. MaxReports : \E fs \in [1 .. n -> Report] : StoreFindings(s, fs)
  BY DEF FinishScan
<1>2. PICK fs \in [1 .. n -> Report] : StoreFindings(s, fs)
  BY <1>1
<1>3. fs \in Seq(Report)
  <2>1. n \in Nat
    BY <1>1, ReportsAssumption
  <2> QED  BY <1>2, <2>1, FunctionIsSeq
<1>4. /\ \A i \in DOMAIN findings : MergedRow(findings[i], findings'[i], fs)
      /\ \A i \in DOMAIN findings' \ DOMAIN findings : AddedRow(findings'[i], fs)
  BY <1>2, <1>3, StoreFacts DEF FindingsInv, TypeOK
<1>5. changes' = changes /\ update' = update
  BY DEF FinishScan
<1>6. \A i : ChangesOf(i)' = ChangesOf(i)
  BY <1>5 DEF ChangesOf
<1>7. ASSUME NEW i \in DOMAIN findings'
      PROVE  IF ChangesOf(i) = {} THEN findings'[i].status = "OPEN"
             ELSE \E m \in ChangesOf(i) :
                     /\ findings'[i].status = changes[m].new
                     /\ \A k \in ChangesOf(i) : k <= m
  <2>1. CASE i \in DOMAIN findings
    BY <1>4, <2>1 DEF MergedRow, AuditInv, StatusIsAudited
  <2>2. CASE i \notin DOMAIN findings
    <3>1. ChangesOf(i) = {}
      BY <2>2, ChangeTypes DEF ChangesOf, FindingsInv
    <3> QED  BY <1>4, <2>2, <3>1 DEF AddedRow
  <2> QED  BY <2>1, <2>2
<1>8. StatusIsAudited'
  BY <1>5, <1>6, <1>7 DEF StatusIsAudited
<1>9. AuditRecordsThePast' /\ PendingReadThePast'
  BY <1>5 DEF AuditInv, AuditRecordsThePast, PendingReadThePast, HadBefore, ChangesOf
<1> QED  BY <1>8, <1>9 DEF AuditInv

LEMMA AuditReadFinding ==
    ASSUME FindingsInv, AuditInv, NEW u \in Updates, ReadFinding(u)
    PROVE  AuditInv'
<1>1. PICK i \in DOMAIN findings, want \in Statuses :
          /\ findings[i].status # want
          /\ update' = [update EXCEPT ![u] = [pc |-> "commit", finding |-> i,
                                              old |-> findings[i].status, new |-> want]]
  BY DEF ReadFinding
<1>2. findings' = findings /\ changes' = changes
  BY DEF ReadFinding
<1>3. findings[i].status \in HadBefore(i, Len(changes) + 1)
  BY StatusIsPast DEF FindingsInv, AuditInv
<1>4. PendingReadThePast'
  BY <1>1, <1>2, <1>3 DEF FindingsInv, TypeOK, AuditInv, PendingReadThePast, HadBefore,
     ChangesOf
<1> QED  BY <1>2, <1>4 DEF AuditInv, StatusIsAudited, AuditRecordsThePast, HadBefore, ChangesOf

LEMMA AuditCommitStatus ==
    ASSUME FindingsInv, AuditInv, NEW u \in Updates, CommitStatus(u)
    PROVE  AuditInv'
<1>0. PICK i, last, c :
          /\ i = update[u].finding /\ last = Len(changes) + 1
          /\ c = [finding |-> i, old |-> update[u].old, new |-> update[u].new]
  OBVIOUS
<1>1. /\ update[u].pc = "commit"
      /\ findings' = [findings EXCEPT ![i].status = update[u].new]
      /\ changes' = Append(changes, c)
      /\ update' = [update EXCEPT ![u].pc = "done"]
  BY <1>0 DEF CommitStatus
<1>2. /\ Len(changes) \in Nat /\ DOMAIN changes = 1 .. Len(changes)
      /\ changes \in Seq([finding : DOMAIN findings, old : Statuses, new : Statuses])
      /\ last \in Nat /\ Len(changes) < last
  BY <1>0, ChangeTypes DEF FindingsInv, TypeOK
<1>3. i \in DOMAIN findings /\ update[u].old \in Statuses /\ update[u].new \in Statuses
  BY <1>0, <1>1 DEF FindingsInv, PendingExists, TypeOK
<1>4. /\ Len(changes') = last /\ DOMAIN changes' = 1 .. last
      /\ \A n \in DOMAIN changes : changes'[n] = changes[n]
      /\ changes'[last] = c
  <2>1. c \in [finding : DOMAIN findings, old : Statuses, new : Statuses]
    BY <1>0, <1>3
  <2> QED  BY <1>0, <1>1, <1>2, <2>1, AppendProperties, LenProperties
<1>5. /\ \A j : j # i => ChangesOf(j)' = ChangesOf(j)
      /\ ChangesOf(i)' = ChangesOf(i) \cup {last}
  <2>1. c.finding = i
    BY <1>0
  <2> QED  BY <1>0, <1>2, <1>4, <2>1 DEF ChangesOf
<1>6. ASSUME NEW j, NEW n \in 1 .. last
      PROVE  HadBefore(j, n)' = HadBefore(j, n)
  <2>1. \A m : m \in ChangesOf(j) => m \in DOMAIN changes
    BY DEF ChangesOf
  <2>2. ~ (last < n)
    BY <1>2
  <2>3. {m \in ChangesOf(j)' : m < n} = {m \in ChangesOf(j) : m < n}
    BY <1>5, <2>2
  <2> QED  BY <1>4, <2>1, <2>3 DEF HadBefore
<1>7. \A j : HadBefore(j, last) \subseteq HadBefore(j, last + 1)'
  BY <1>0, <1>2, <1>4, <1>5 DEF HadBefore, ChangesOf
<1>8. update[u].old # update[u].new /\ update[u].old \in HadBefore(i, last)
  BY <1>0, <1>1 DEF AuditInv, PendingReadThePast
<1>9. StatusIsAudited'
  <2> SUFFICES ASSUME NEW j \in DOMAIN findings'
               PROVE  IF ChangesOf(j)' = {} THEN findings'[j].status = "OPEN"
                      ELSE \E n \in ChangesOf(j)' :
                              /\ findings'[j].status = changes'[n].new
                              /\ \A m \in ChangesOf(j)' : m <= n
    BY DEF StatusIsAudited
  <2>0. j \in DOMAIN findings
    BY <1>1
  <2>1. CASE j = i
    <3>0. findings[i] \in Row
      BY <1>3, LenProperties, ElementOfSeq DEF FindingsInv, TypeOK
    <3>1. findings'[j].status = update[u].new /\ changes'[last].new = update[u].new
      BY <1>0, <1>1, <1>3, <1>4, <2>1, <3>0 DEF Row
    <3>2. last \in ChangesOf(j)' /\ \A m \in ChangesOf(j)' : m <= last
      <4>1. \A m \in ChangesOf(i) : m \in Int /\ m <= Len(changes)
        BY <1>2 DEF ChangesOf
      <4> QED  BY <1>2, <1>5, <2>1, <4>1
    <3> QED  BY <3>1, <3>2
  <2>2. CASE j # i
    <3>1. findings'[j] = findings[j] /\ ChangesOf(j)' = ChangesOf(j)
      BY <1>1, <1>5, <2>0, <2>2
    <3>2. \A n \in ChangesOf(j) : changes'[n] = changes[n]
      BY <1>4 DEF ChangesOf
    <3> QED  BY <2>0, <3>1, <3>2 DEF AuditInv, StatusIsAudited
  <2> QED  BY <2>1, <2>2
<1>10. AuditRecordsThePast'
  <2> SUFFICES ASSUME NEW n \in DOMAIN changes', NEW j, j = changes'[n].finding
               PROVE  changes'[n].old # changes'[n].new /\ changes'[n].old \in HadBefore(j, n)'
    BY DEF AuditRecordsThePast, HadBefore, ChangesOf
  <2>0. n \in 1 .. last /\ HadBefore(j, n)' = HadBefore(j, n)
    BY <1>4, <1>6
  <2>1. CASE n = last
    BY <1>0, <1>4, <1>8, <2>0, <2>1
  <2>2. CASE n # last
    <3>1. n \in DOMAIN changes /\ changes'[n] = changes[n]
      BY <1>0, <1>2, <1>4, <2>0, <2>2
    <3> QED  BY <2>0, <3>1 DEF AuditInv, AuditRecordsThePast
  <2> QED  BY <2>1, <2>2
<1>11. PendingReadThePast'
  <2> SUFFICES ASSUME NEW v \in Updates, update'[v].pc = "commit",
                      NEW j, j = update'[v].finding
               PROVE  /\ update'[v].old # update'[v].new
                      /\ update'[v].old \in HadBefore(j, last + 1)'
    BY <1>4 DEF PendingReadThePast, HadBefore, ChangesOf
  <2>1. update'[v] = update[v]
    BY <1>1 DEF FindingsInv, TypeOK
  <2>2. update[v].old # update[v].new /\ update[v].old \in HadBefore(j, last)
    BY <1>0, <2>1 DEF AuditInv, PendingReadThePast
  <2> QED  BY <1>7, <2>1, <2>2
<1> QED  BY <1>9, <1>10, <1>11 DEF AuditInv

LEMMA AuditStep == FindingsInv /\ AuditInv /\ [Next]_vars => AuditInv'
<1> SUFFICES ASSUME FindingsInv, AuditInv, [Next]_vars PROVE AuditInv'
  OBVIOUS
<1>1. ASSUME NEW u \in Updates, CommitLocked(u)
      PROVE  AuditInv'
  <2>1. UNCHANGED <<findings, changes>> /\ update' = [update EXCEPT ![u].pc = "done"]
    BY <1>1 DEF CommitLocked
  <2>2. PendingReadThePast'
    BY <2>1 DEF FindingsInv, TypeOK, AuditInv, PendingReadThePast, HadBefore, ChangesOf
  <2> QED  BY <2>1, <2>2 DEF AuditInv, StatusIsAudited, AuditRecordsThePast, HadBefore, ChangesOf
<1>2. CASE UNCHANGED <<findings, changes, update>>
  BY <1>2 DEF AuditInv, StatusIsAudited, AuditRecordsThePast, PendingReadThePast,
     HadBefore, ChangesOf
<1> QED
  BY <1>1, <1>2, AuditFinishScan, AuditReadFinding, AuditCommitStatus
     DEF Next, FinishScanBreaks, vars

LEMMA AuditCorrect == Spec => []AuditInv
BY AuditInit, AuditStep, FindingsCorrect, PTL DEF Spec

\* No scan undoes a decision: a finding has the status its last audit record
\* ends with, and is open as long as it has none.
THEOREM StatusCorrect == Spec => []StatusIsAudited
<1>1. AuditInv => StatusIsAudited
  BY DEF AuditInv
<1> QED  BY <1>1, AuditCorrect, PTL

\* update_finding_status records a change away from a status the finding has
\* had before, however many requests read it before the first of them commits.
THEOREM AuditRecordsCorrect == Spec => []AuditRecordsThePast
<1>1. AuditInv => AuditRecordsThePast
  BY DEF AuditInv
<1> QED  BY <1>1, AuditCorrect, PTL

-----------------------------------------------------------------------------
(* The counters of a scan *)

\* As many findings are left as there are keys.
LEMMA DeduplicateCounts ==
    ASSUME NEW fs \in Seq(Report)
    PROVE  Cardinality(Deduplicate(fs)) = Cardinality({fs[n].key : n \in DOMAIN fs})
<1> DEFINE D == Deduplicate(fs)
           K == {fs[n].key : n \in DOMAIN fs}
           KeyOf == [f \in D |-> f.key]
<1>1. KeyOf \in [D -> K]
  BY DeduplicateTypes
<1>2. \A f, g \in D : KeyOf[f] = KeyOf[g] => f = g
  BY DeduplicateIsUnique
<1>3. \A k \in K : \E f \in D : KeyOf[f] = k
  BY DeduplicateCovers
<1>4. KeyOf \in Bijection(D, K)
  BY <1>1, <1>2, <1>3 DEF Bijection, Injection, Surjection, IsInjective
<1>5. ExistsBijection(D, K)
  BY <1>4 DEF ExistsBijection
<1> QED  BY <1>5, DeduplicateTypes, FS_Bijection

\* A finite set in two parts.
Splits(S, A, B) == IsFiniteSet(S) /\ S = A \cup B /\ A \cap B = {}

LEMMA PartsAddUp ==
    ASSUME NEW S, NEW A, NEW B, Splits(S, A, B)
    PROVE  /\ Cardinality(S) = Cardinality(A) + Cardinality(B)
           /\ Cardinality(A) \in Nat /\ Cardinality(B) \in Nat
<1> USE DEF Splits
<1>1. IsFiniteSet(A) /\ IsFiniteSet(B)
  BY FS_Subset
<1>2. Cardinality(A) \in Nat /\ Cardinality(B) \in Nat
  BY <1>1, FS_CardinalityType
<1>3. Cardinality(A \cup B) = Cardinality(A) + Cardinality(B) - Cardinality(A \cap B)
  BY <1>1, FS_Union
<1>4. Cardinality(A \cap B) = 0
  BY FS_EmptySet
<1> QED  BY <1>1, <1>2, <1>3, <1>4

\* The counters together count what deduplicate_findings leaves.
LEMMA CountersAddUp ==
    ASSUME NEW fs \in Seq(Report)
    PROVE  LET c == Counted(fs)
           IN  c[1] + c[2] + c[3] + c[4] + c[5] = Cardinality(Deduplicate(fs))
<1> DEFINE D == Deduplicate(fs)
           Of(v) == {f \in D : f.severity = v}
           UpTo(v) == {f \in D : f.severity <= v}
<1>1. IsFiniteSet(D) /\ \A f \in D : f.severity \in 1 .. 5
  BY DeduplicateTypes, ReportTypes DEF Severities
<1>2. \A v : IsFiniteSet(UpTo(v)) /\ IsFiniteSet(Of(v))
  BY <1>1, FS_Subset
<1>3. ASSUME NEW v \in 2 .. 5
      PROVE  /\ Cardinality(UpTo(v)) = Cardinality(UpTo(v - 1)) + Cardinality(Of(v))
             /\ Cardinality(UpTo(v - 1)) \in Nat /\ Cardinality(Of(v)) \in Nat
  <2>1. \A f \in D : f.severity <= v <=> f.severity <= v - 1 \/ f.severity = v
    BY <1>1
  <2>2. \A f \in D : ~ (f.severity <= v - 1 /\ f.severity = v)
    BY <1>1
  <2>3. UpTo(v) = UpTo(v - 1) \cup Of(v)
    BY <2>1, Zenon
  <2>4. UpTo(v - 1) \cap Of(v) = {}
    BY <2>2, Zenon
  <2>5. PICK S, A, B : S = UpTo(v) /\ A = UpTo(v - 1) /\ B = Of(v)
    OBVIOUS
  <2>6. Splits(S, A, B)
    BY <1>2, <2>3, <2>4, <2>5 DEF Splits
  <2>7. /\ Cardinality(S) = Cardinality(A) + Cardinality(B)
        /\ Cardinality(A) \in Nat /\ Cardinality(B) \in Nat
    BY <2>6, PartsAddUp
  <2> QED  BY <2>5, <2>7
<1>4. UpTo(5) = D /\ UpTo(1) = Of(1)
  BY <1>1
<1>5. Cardinality(Of(1)) \in Nat
  BY <1>2, FS_CardinalityType
<1>6. \A v \in 1 .. 5 : Counted(fs)[v] = Cardinality(Of(v))
  BY DEF Counted, Severities
<1> HIDE DEF UpTo, Of, D
<1>7. /\ Cardinality(UpTo(2)) = Cardinality(Of(1)) + Cardinality(Of(2))
      /\ Cardinality(UpTo(3)) = Cardinality(UpTo(2)) + Cardinality(Of(3))
      /\ Cardinality(UpTo(4)) = Cardinality(UpTo(3)) + Cardinality(Of(4))
      /\ Cardinality(D) = Cardinality(UpTo(4)) + Cardinality(Of(5))
      /\ \A v \in 1 .. 5 : Cardinality(Of(v)) \in Nat
  <2>1. 2 - 1 = 1 /\ 3 - 1 = 2 /\ 4 - 1 = 3 /\ 5 - 1 = 4
    OBVIOUS
  <2>2. \A v \in 1 .. 5 : v = 1 \/ v \in 2 .. 5
    OBVIOUS
  <2> QED  BY <1>3, <1>4, <1>5, <2>1, <2>2
<1> QED  BY <1>6, <1>7 DEF D

LEMMA CountersStep == FindingsInv /\ CountersCountIssues /\ [Next]_vars => CountersCountIssues'
<1> SUFFICES ASSUME FindingsInv, CountersCountIssues, [Next]_vars PROVE CountersCountIssues'
  OBVIOUS
<1>1. ASSUME NEW s \in Scans, FinishScan(s)
      PROVE  CountersCountIssues'
  <2>1. PICK n \in 0 .. MaxReports : \E fs \in [1 .. n -> Report] :
            /\ counters' = [counters EXCEPT ![s] = Counted(fs)]
            /\ reports' = [reports EXCEPT ![s] = fs]
    BY <1>1 DEF FinishScan
  <2>2. PICK fs \in [1 .. n -> Report] :
            /\ counters' = [counters EXCEPT ![s] = Counted(fs)]
            /\ reports' = [reports EXCEPT ![s] = fs]
    BY <2>1
  <2>3. fs \in Seq(Report)
    <3>1. n \in Nat
      BY <2>1, ReportsAssumption
    <3> QED  BY <2>2, <3>1, FunctionIsSeq
  <2>4. counters'[s] = Counted(fs) /\ reports'[s] = fs /\ finished' = finished \cup {s}
    BY <1>1, <2>2 DEF FinishScan, FindingsInv, TypeOK
  <2>5. \A t \in finished \ {s} : counters'[t] = counters[t] /\ reports'[t] = reports[t]
    BY <2>2 DEF FindingsInv, TypeOK
  <2>6. Counted(fs)[1] + Counted(fs)[2] + Counted(fs)[3] + Counted(fs)[4] + Counted(fs)[5]
            = Cardinality({fs[m].key : m \in DOMAIN fs})
    BY <2>3, CountersAddUp, DeduplicateCounts
  <2> SUFFICES ASSUME NEW t \in finished'
               PROVE  counters'[t][1] + counters'[t][2] + counters'[t][3] + counters'[t][4]
                          + counters'[t][5] =
                        Cardinality({reports'[t][m].key : m \in DOMAIN reports'[t]})
    BY DEF CountersCountIssues
  <2>7. CASE t = s
    BY <2>4, <2>6, <2>7
  <2>8. CASE t # s
    BY <2>4, <2>5, <2>8 DEF CountersCountIssues
  <2> QED  BY <2>7, <2>8
<1>2. CASE UNCHANGED <<counters, reports, finished>>
  BY <1>2 DEF CountersCountIssues
<1> QED  BY <1>1, <1>2 DEF Next, vars, FinishScanBreaks, ReadFinding, CommitStatus,
     CommitLocked

\* A finished scan's five counters add up to the number of issues its tools
\* reported: nothing is counted twice and nothing is left out.
THEOREM CountersCorrect == Spec => []CountersCountIssues
<1>1. Init => CountersCountIssues
  BY DEF Init, CountersCountIssues
<1> QED  BY <1>1, CountersStep, FindingsCorrect, PTL DEF Spec
=============================================================================
