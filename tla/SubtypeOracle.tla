--------------------------- MODULE SubtypeOracle ----------------------------
(***************************************************************************)
(* What a proof context promises: it remembers results of subproof         *)
(* questions, each of them right, and never changes its mind about one.    *)
(* How it reaches them is left to SubproofEngine, which implements this    *)
(* specification with its cache.                                           *)
(***************************************************************************)
EXTENDS ProofTerms

VARIABLE answers    \* the questions answered so far, with their results

Init == answers = [g \in {} |-> Unsupported]

Decide(g) ==
    /\ DOMAIN answers' = DOMAIN answers \cup {g}
    /\ answers'[g] \in Results
    /\ Sound(g, answers'[g])
    /\ \A h \in DOMAIN answers : answers'[h] = answers[h]

Next == \E g \in Goals \ DOMAIN answers : Decide(g)

Spec == Init /\ [][Next]_answers
=============================================================================
