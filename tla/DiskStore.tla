------------------------------ MODULE DiskStore ------------------------------
(***************************************************************************)
(* The durable Raft state of one node: internal/raft/store.go.             *)
(*                                                                         *)
(* A store is what replaying the journal yields, i.e. the `durableState`   *)
(* together with the machine snapshot of the last checkpoint record.  The  *)
(* journal itself (framing, checksums, fsync) is below this module: one    *)
(* record is written atomically or not at all.                             *)
(*                                                                         *)
(* An entry's Index field is its position: position 1 of `log` is the      *)
(* sentinel, the entry at index `base`.  A machine state is represented by *)
(* the history of entries applied to it, so `snap` is that history at      *)
(* `base`.                                                                 *)
(***************************************************************************)
EXTENDS Integers, Sequences, FiniteSets, SequencesExt

CONSTANTS Node,     \* the members of the cluster
          Cmd,      \* state-machine commands that pass statemachine.Validate
          Nil,      \* "" (no vote, no leader) and nil pointers
          Barrier   \* the nil Command of a no-op entry or a GET barrier

ASSUME NodeAssumption == IsFiniteSet(Node) /\ Node # {} /\ Nil \notin Node
ASSUME CmdAssumption == Barrier \notin Cmd /\ Nil \notin Cmd

Operation == Cmd \cup {Barrier}
Entry == [term : Nat, cmd : Operation]

Store == [term : Nat, vote : Node \cup {Nil}, commit : Nat, base : Nat,
          log : Seq(Entry), snap : Seq(Entry)]

Sentinel == [term |-> 0, cmd |-> Barrier]

EmptyStore == [term |-> 0, vote |-> Nil, commit |-> 0, base |-> 0,
               log |-> <<Sentinel>>, snap |-> <<>>]

LastIndex(s) == s.base + Len(s.log) - 1
EntryAt(s, k) == s.log[k - s.base + 1]

(* Entries k .. l of the store, for base <= k. *)
EntriesBetween(s, k, l) == SubSeq(s.log, k - s.base + 1, l - s.base + 1)

(* Terms are positive, at most `bound`, and never decrease from `floor` on. *)
OrderedTerms(entries, floor, bound) ==
  \A k \in 1 .. Len(entries) :
    /\ 0 < entries[k].term /\ entries[k].term <= bound
    /\ (IF k = 1 THEN floor ELSE entries[k - 1].term) <= entries[k].term

Record(term, vote, commit, from, entries) ==
  [term |-> term, vote |-> vote, commit |-> commit, from |-> from,
   entries |-> entries]

(* validate(r) of a hard-state record: from = 0 means "no suffix replaced". *)
Validate(s, r) ==
  /\ s.term <= r.term /\ s.commit <= r.commit
  /\ r.term = s.term /\ s.vote # Nil => r.vote = s.vote
  /\ IF r.from = 0
       THEN r.entries = <<>> /\ r.commit <= LastIndex(s)
       ELSE /\ s.commit < r.from /\ r.from <= LastIndex(s) + 1
            /\ OrderedTerms(r.entries, EntryAt(s, r.from - 1).term, r.term)
            /\ r.commit < r.from + Len(r.entries)

Accept(s, r) ==
  [s EXCEPT !.term = r.term, !.vote = r.vote, !.commit = r.commit,
            !.log = IF r.from = 0 THEN @
                    ELSE SubSeq(@, 1, r.from - s.base) \o r.entries]

(* validate(r) of a checkpoint record, for the log the checkpoint keeps, and *)
(* the index test of diskStore.checkpoint.                                   *)
ValidateCheckpoint(s, index) ==
  /\ s.base < index /\ index <= s.commit /\ s.commit <= LastIndex(s)
  /\ OrderedTerms(EntriesBetween(s, index + 1, LastIndex(s)),
                  EntryAt(s, index).term, s.term)

(* Mutant: the snapshot of the checkpoint before stays in place. *)
AcceptCheckpointOldSnapshot(s, history, index) ==
  [s EXCEPT !.base = index, !.log = EntriesBetween(s, index, LastIndex(s))]

AcceptCheckpoint(s, history, index) ==
  [s EXCEPT !.base = index, !.snap = history,
            !.log = EntriesBetween(s, index, LastIndex(s))]

(* The whole log, compacted prefix included, and its committed part. *)
FullLog(s) == s.snap \o Tail(s.log)
Committed(s) == SubSeq(FullLog(s), 1, s.commit)
=============================================================================
