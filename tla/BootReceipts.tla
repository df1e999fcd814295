----------------------------- MODULE BootReceipts -----------------------------
(***************************************************************************)
(* The boot-publication receipts of the state database: immutable receipt  *)
(* bodies, and one head row that names the committed receipt and the one   *)
(* pending publication.  Every operation is one exclusive SQLite           *)
(* transaction, so it is a function of the stored state: the set of states *)
(* it can leave, {} for an error that leaves the state as it was.          *)
(*                                                                         *)
(* A receipt's fingerprint covers the id of the transition that made it,   *)
(* and a transition makes one receipt: the transition id stands for both.  *)
(***************************************************************************)
EXTENDS TransitionRecord

ASSUME ReceiptPairAssumption ==
  ReceiptPair = [committed : TransitionId \cup {None}, pending : TransitionId]

ReceiptBody == [transition_id : TransitionId, committed_predecessor : TransitionId \cup {None}]

BootPublicationReceiptState ==
  [committed : TransitionId \cup {None},
   pending : TransitionId \cup {None},
   bodies : SUBSET ReceiptBody]

EmptyReceiptState == [committed |-> None, pending |-> None, bodies |-> {}]

\* The pair a new receipt of this transition would carry.
PairAfter(s, transition_id) == [committed |-> s.committed, pending |-> transition_id]

receipt_pair_for(s, transition_id) ==
  IF s.pending = transition_id THEN PairAfter(s, transition_id) ELSE None

HasBody(s, transition_id) == \E b \in s.bodies : b.transition_id = transition_id

\* A retry of the exact pending receipt changes nothing; any other pending
\* receipt, and any stored body of this transition, is a conflict.
stage_receipt(s, transition_id) ==
  IF s.pending = transition_id THEN {s}
  ELSE IF s.pending # None \/ HasBody(s, transition_id) THEN {}
  ELSE {[s EXCEPT !.pending = transition_id,
                  !.bodies = @ \cup {[transition_id |-> transition_id, committed_predecessor |-> s.committed]}]}

is_exact_pending(s, transition_id, pair) == receipt_pair_for(s, transition_id) = pair

\* The head has moved to pair.pending and its body names pair.committed.
is_exact_promoted(s, transition_id, pair) ==
  /\ s.pending = None
  /\ s.committed = pair.pending
  /\ [transition_id |-> transition_id, committed_predecessor |-> pair.committed] \in s.bodies
  /\ pair.pending = transition_id

promote_receipt(s, transition_id, pair) ==
  IF is_exact_promoted(s, transition_id, pair) THEN {s}
  ELSE IF is_exact_pending(s, transition_id, pair)
  THEN {[s EXCEPT !.committed = transition_id, !.pending = None]}
  ELSE {}

\* The chain a publication starts from and a transition without one leaves alone.
load_current_chain_is_exact(s) ==
  /\ s.pending = None
  /\ s.committed = None => s.bodies = {}
=============================================================================
