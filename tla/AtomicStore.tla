----------------------------- MODULE AtomicStore -----------------------------
(***************************************************************************)
(* What Raft relies on: a store that changes by one valid record at a time *)
(* and never otherwise, whatever crashes in between.                       *)
(***************************************************************************)
EXTENDS DiskStore

VARIABLE store   \* the store as the node that owns it last knew it

(* One record is saved.  It is found from the store it makes: its entries    *)
(* are the new log from the index where it replaces the old one.             *)
Save ==
  \E from \in 0 .. LastIndex(store) + 1 :
    LET new == IF from = 0 THEN <<>>
               ELSE EntriesBetween(store', from, LastIndex(store'))
        r == Record(store'.term, store'.vote, store'.commit, from, new)
    IN  Validate(store, r) /\ store' = Accept(store, r)

(* The committed prefix is compacted. *)
Checkpoint ==
  /\ ValidateCheckpoint(store, store.commit)
  /\ store' = AcceptCheckpoint(store, Committed(store), store.commit)

AtomicSpec == store = EmptyStore /\ [][Save \/ Checkpoint]_store
=============================================================================
