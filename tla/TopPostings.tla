---------------------------- MODULE TopPostings ----------------------------
(***************************************************************************)
(* What the index promises: for each word the MaxSize highest frequencies  *)
(* seen so far, each with one document.  Posting an entry is one step, and *)
(* the first document posted with a frequency keeps it.                    *)
(***************************************************************************)
EXTENDS Integers, FiniteSets, Functions

CONSTANTS Word, Path, Freq, MaxSize

VARIABLE top     \* [Word -> [frequencies -> paths]]

\* The MaxSize largest members of S.
Largest(S) == {f \in S : Cardinality({g \in S : g > f}) < MaxSize}

\* The list with one more entry, the smallest dropped when it is too long.
With(list, f, p) ==
    LET S == DOMAIN list \cup {f}
    IN  [g \in Largest(S) |-> IF g \in DOMAIN list THEN list[g] ELSE p]

Init == top = [w \in Word |-> [f \in {} |-> {}]]

Post(w, f, p) == top' = [top EXCEPT ![w] = With(@, f, p)]

Next == \E w \in Word, f \in Freq, p \in Path : Post(w, f, p)

Spec == Init /\ [][Next]_top
============================================================================
