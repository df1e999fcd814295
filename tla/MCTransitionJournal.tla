------------------------- MODULE MCTransitionJournal -------------------------
(* Instance of TransitionJournal for TLC: two states, one transition. *)
EXTENDS TransitionJournal, TLC

CONSTANTS t1, p1, p2

MCStateId == {1, 2}
MCTransitionId == {t1}
MCReceiptPair == {p1, p2}
MCSymmetry == Permutations(MCReceiptPair)

\* No path through the phase graph is as long as this.
MCMaxGeneration == 40
=============================================================================
