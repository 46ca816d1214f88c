------------------------------ MODULE MCPanel ------------------------------
(* Panel with its own container, a managed one and an unmanaged successor. *)
EXTENDS Panel

CONSTANTS c1, c2, p, n1, n2

MCIds     == {c1, c2, p}
MCManaged == {c1, p}
MCNameOf  == [c \in MCIds |-> IF c = p THEN n2 ELSE n1]
=============================================================================
