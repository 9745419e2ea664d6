------------------------------ MODULE RaftStore ------------------------------
(***************************************************************************)
(* The diskStore of internal/raft/store.go over the journal of             *)
(* internal/storage/wal.go: how one node keeps the store that Raft takes   *)
(* for atomic.                                                             *)
(*                                                                         *)
(* The node holds its mutex during save and checkpoint, so their steps are *)
(* those of the journal's Append and Replace.  An error of either makes    *)
(* the node fail: it saves nothing more until it is started again.         *)
(***************************************************************************)
EXTENDS DiskStore, Journal

CONSTANT Limit   \* entries a record has room for (16 MiB)

ASSUME LimitAssumption == Limit \in Nat

VARIABLES state,    \* diskStore.state and snapshot; kept while the node is down
          poisoned  \* Node.failed: an error of the store

storeVars == <<data, safe, path, safePath, pc, file, failed, tmp, believed,
               intents, state, poisoned>>

(* A journal record: a hard-state record, or a checkpoint with all of the    *)
(* store.  The unused part is empty.                                         *)
NoRecord == Record(0, Nil, 0, 0, <<>>)
HardState(r) == [checkpoint |-> FALSE, hard |-> r, kept |-> EmptyStore]
CheckpointOf(s) == [checkpoint |-> TRUE, hard |-> NoRecord, kept |-> s]
StoreRecord ==
  [checkpoint : BOOLEAN, kept : Store,
   hard : [term : Nat, vote : Node \cup {Nil}, commit : Nat, from : Nat,
           entries : Seq(Entry)]]

Size(p) == IF p.checkpoint THEN Len(p.kept.snap) + Len(p.kept.log) - 1
                           ELSE Len(p.hard.entries)

(* validate of any record, against the store s replayed so far. *)
ValidRecord(s, p) ==
  LET c == p.kept
  IN  IF ~p.checkpoint THEN Validate(s, p.hard)
      ELSE /\ s.base <= c.base /\ c.base <= c.commit /\ c.commit <= LastIndex(c)
           /\ s.term <= c.term /\ s.commit <= c.commit
           /\ OrderedTerms(Tail(c.log), c.log[1].term, c.term)

(* accept *)
After(s, p) == IF p.checkpoint THEN p.kept ELSE Accept(s, p.hard)

Replay(records) ==
  LET after[k \in 0 .. Len(records)] ==
        IF k = 0 THEN EmptyStore ELSE After(after[k - 1], records[k])
  IN  after[Len(records)]

(* openStoreUsing finds no record that validate refuses. *)
Replayable(records) ==
  \A k \in 1 .. Len(records) :
    ValidRecord(Replay(SubSeq(records, 1, k - 1)), records[k])

-----------------------------------------------------------------------------
(* The node may call: the store is open, and its first record is written. *)
Open == pc = "ready" /\ ~poisoned
Ready == Open /\ believed # <<>>

(* Mutant: what the node asks for goes to the journal unchecked. *)
MaySaveUnchecked(r) == TRUE

MaySave(r) == Validate(state, r) /\ Size(HardState(r)) <= Limit

(* save up to the write of its record. *)
SaveWrite(r) ==
  /\ MaySave(r)
  /\ \/ AppendWrite(HardState(r)) /\ UNCHANGED <<state, poisoned>>
     \/ AppendWriteFails(HardState(r)) /\ poisoned' = TRUE /\ UNCHANGED state

Save(r) == Ready /\ SaveWrite(r)

(* The first record of a new journal. *)
SaveFirst == Open /\ believed = <<>> /\ SaveWrite(NoRecord)

(* Append returns nil, and save accepts the record. *)
SaveDone ==
  /\ AppendSync
  /\ state' = After(state, Last(data[file]).payload)
  /\ UNCHANGED poisoned

SaveFails == AppendSyncFails /\ poisoned' = TRUE /\ UNCHANGED state

(* validate or the journal's size limit refuses the record. *)
Refused ==
  /\ Ready
  /\ poisoned' = TRUE
  /\ UNCHANGED <<journalVars, state>>

SaveRefused(r) == ~MaySave(r) /\ Refused

-----------------------------------------------------------------------------
(* Mutant: the checkpoint has no vote in it. *)
CompactedWithoutVote(s) ==
  [AcceptCheckpoint(s, Committed(s), s.commit) EXCEPT !.vote = Nil]

(* The store after a checkpoint at the commit index. *)
Compacted(s) == AcceptCheckpoint(s, Committed(s), s.commit)

MayCheckpoint ==
  /\ ValidateCheckpoint(state, state.commit)
  /\ Size(CheckpointOf(Compacted(state))) <= Limit

Checkpoint ==
  /\ Ready /\ MayCheckpoint
  /\ ReplaceCreate(<<CheckpointOf(Compacted(state))>>)
  /\ UNCHANGED <<state, poisoned>>

(* Replace goes on, and the record is accepted when it returns nil. *)
CheckpointGoesOn ==
  \/ (ReplaceSync \/ ReplaceClose \/ ReplaceRename \/ ReplaceSyncDirectory)
       /\ UNCHANGED <<state, poisoned>>
  \/ /\ ReplaceReopen
     /\ state' = After(state, Last(data[path]).payload)
     /\ UNCHANGED poisoned
  \/ ReplaceFails /\ poisoned' = TRUE /\ UNCHANGED state

(* The record with the machine is too large: the temporary file is removed,  *)
(* the journal stays as it is, and the node fails.                           *)
CheckpointRefused ==
  /\ ValidateCheckpoint(state, state.commit) /\ ~MayCheckpoint
  /\ Refused

-----------------------------------------------------------------------------
(* openStore: the records are validated and accepted one by one. *)
OpenStore ==
  \/ /\ Replayable(Recovered(data[path]))
     /\ OpenReplay
     /\ UNCHANGED <<state, poisoned>>
  \/ OpenSync /\ UNCHANGED <<state, poisoned>>
  \/ /\ OpenDone
     /\ state' = Replay(Recovered(data[path]))
     /\ poisoned' = FALSE

(* Close, a crash, or a power loss. *)
Leave == (Kill \/ PowerLoss) /\ UNCHANGED <<state, poisoned>>

StoreInit == JournalInit /\ state = EmptyStore /\ poisoned = FALSE

(* The node saves one of rs. *)
StoreNext(rs) ==
  \/ \E r \in rs : Save(r) \/ SaveRefused(r)
  \/ SaveFirst \/ SaveDone \/ SaveFails
  \/ Checkpoint \/ CheckpointGoesOn \/ CheckpointRefused
  \/ OpenStore \/ Leave

-----------------------------------------------------------------------------
Atomic == INSTANCE AtomicStore WITH store <- state

(* save, checkpoint and openStore, with whatever I/O error, crash or power   *)
(* loss in between: from one state it knows to the next, over restarts too,  *)
(* a node's store moves by one whole, valid record or not at all.            *)
StoreIsAtomic == Atomic!AtomicSpec

(* save and checkpoint validate against what is in the journal: whatever a   *)
(* crash leaves, openStore accepts every record of it, so a node that can    *)
(* read its disk starts.                                                     *)
StoreOpens == \A l \in Recoverable : Replayable(l)
=============================================================================
