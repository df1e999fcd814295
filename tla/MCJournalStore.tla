---------------------------- MODULE MCJournalStore ----------------------------
(* Instance of JournalStore for TLC: two processes and two transitions, one  *)
(* that advances and is then aborted and one that is aborted at once.        *)
EXTENDS JournalStore

CONSTANTS t1, t2, a, b, c, p1

MCStateId == {1}
MCTransitionId == {t1, t2}
MCReceiptPair == {p1}
MCMaxGeneration == 8
MCProc == {a, b}
MCReader == {c}

Preparing == UNION {preparing(id, "ActiveReblit", 1, 1, "ActiveReblitCorrupt", FALSE, FALSE) : id \in MCTransitionId}

Started == UNION {forward_successor(r, None) : r \in {q \in Preparing : q.transition_id = t1}}

Observed ==
  [allocated_candidate_id |-> None, previous_archive |-> None, usr_exchange |-> None,
   candidate |-> "AlreadySatisfied", fresh_db |-> None]

Aborted == UNION {rollback_decision(r, Observed) : r \in Started \cup {q \in Preparing : q.transition_id = t2}}

Finished == UNION {rollback_successor(r, None) : r \in Aborted}

MCRecord == Preparing \cup Started \cup Aborted \cup Finished
=============================================================================
