------------------------------ MODULE EventRing ------------------------------
(***************************************************************************)
(* The bounded event stream: Buffer of internal/events/events.go.          *)
(*                                                                         *)
(* An event is represented by its ID; what it says is for display only.    *)
(***************************************************************************)
EXTENDS Integers, Sequences, SequencesExt

CONSTANT Capacity   \* events a buffer keeps (512 in a node)

ASSUME CapacityAssumption == Capacity \in Nat \ {0}

Buffer == [next : Nat, items : Seq(Nat)]

NewBuffer == [next |-> 0, items |-> <<>>]

(* The oldest event makes room for the new one. *)
Publish(b) ==
  [next |-> b.next + 1,
   items |-> Append(IF Len(b.items) = Capacity THEN Tail(b.items) ELSE b.items,
                    b.next + 1)]

(* The loop of After, and of poll: the events after id, in their order. *)
Newer(items, id) ==
  LET out[k \in 0 .. Len(items)] ==
        IF k = 0 THEN <<>>
        ELSE IF items[k] > id THEN Append(out[k - 1], items[k]) ELSE out[k - 1]
  IN  out[Len(items)]

After(b, id) == Newer(b.items, id)
=============================================================================
