------------------------------- MODULE Ledger -------------------------------
(***************************************************************************)
(* What the cluster promises its clients, whatever happens to its members: *)
(* one history of committed entries that only grows at its end; a client   *)
(* is answered once, for its own entry in the history.  `before` holds the *)
(* indices answered before an operation was called: its own entry comes    *)
(* after them, so operations take effect in real-time order.               *)
(***************************************************************************)
EXTENDS Integers, Sequences, SequencesExt

VARIABLES history,  \* the committed entries, [term, cmd]
          answers   \* the answered operations, [index, cmd, before, entry]

Init == history = <<>> /\ answers = {}

(* A step commits entries, answers clients, or both. *)
Next ==
  /\ IsPrefix(history, history')
  /\ answers \subseteq answers'
  /\ \A a \in answers' \ answers :
       /\ 0 < a.index /\ a.index <= Len(history')
       /\ history'[a.index] = a.entry /\ a.entry.cmd = a.cmd
       /\ \A k \in a.before : k < a.index
       /\ \A b \in answers : b.index # a.index

Spec == Init /\ [][Next]_<<history, answers>>
=============================================================================
