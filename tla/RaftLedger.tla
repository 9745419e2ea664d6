----------------------------- MODULE RaftLedger -----------------------------
(* Raft as an implementation of Ledger. *)
EXTENDS Raft

(* The longest committed log on any disk. *)
History == LET logs == {Committed(Disk(i)) : i \in Node}
           IN  CHOOSE h \in logs : \A l \in logs : Len(l) <= Len(h)

Abstract == INSTANCE Ledger WITH history <- History, answers <- Answers

(* Elections, repair, crashes and restarts never rewrite what any member ever *)
(* committed, and applyLocked answers a client once, for its own committed    *)
(* entry, in real-time order: the cluster implements the ledger.              *)
LedgerSpec == Abstract!Spec
=============================================================================
