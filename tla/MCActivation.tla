----------------------------- MODULE MCActivation -----------------------------
(* Instance of Activation for TLC: a live, an archived and a fresh state. *)
EXTENDS Activation

CONSTANTS t1, t2

MCStateId == {1, 2, 3}
MCOneTransition == {t1}
MCTwoTransitions == {t1, t2}
MCReceiptPair == [committed : TransitionId \cup {None}, pending : TransitionId]
MCMaxGeneration == 40
=============================================================================
