----------------------------- MODULE Inspection -----------------------------
(* Inspect of internal/raft/runtime.go: the log entries the dashboard shows. *)
EXTENDS MCRaft

CONSTANT InspectLimit   \* the number of entries shown (100)

(* The first of the entries up to the last that Inspect reads. *)
InspectStart(d) ==
  Larger(1, LastIndex(d) + 1 - Smaller(LastIndex(d), InspectLimit))

(* Inspect works on every node at any time: it reads no entry that a          *)
(* checkpoint has removed (an index below the base is out of range).          *)
InspectStaysInLog ==
  \A i \in Node : nodes[i].mode # "down" /\ LastIndex(Disk(i)) >= 1 =>
    InspectStart(Disk(i)) >= Disk(i).base
=============================================================================
