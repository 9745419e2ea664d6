------------------------------- MODULE Replica -------------------------------
(***************************************************************************)
(* The machine of one replica: what applyLocked, maybeSnapshotLocked and   *)
(* OpenWithRuntime of internal/raft/node.go do with it.                    *)
(*                                                                         *)
(* Every write, repeated ones too, goes through the log, so the log holds  *)
(* a command as often as a client sent it to some leader, in any order     *)
(* the network made of its retries.                                        *)
(***************************************************************************)
EXTENDS StateMachine

VARIABLES log,      \* the commands applied so far
          machine,
          snapshot, \* of the last checkpoint
          base,     \* the number of commands it covers
          answers   \* history: [cmd, result] of the calls that were answered

replicaVars == <<log, machine, snapshot, base, answers>>

(* applyLocked: the result is the session's, kept by Apply; for a stale,     *)
(* reused or invalid request the client is told the error.                   *)
Commit(c) ==
  /\ log' = Append(log, c)
  /\ machine' = Apply(machine, c)
  /\ answers' = IF Check(machine, c) \in {"new", "duplicate"}
                  THEN answers \cup {[cmd |-> c,
                                      result |-> machine'.sessions[c.client].result]}
                  ELSE answers
  /\ UNCHANGED <<snapshot, base>>

(* maybeSnapshotLocked. *)
Checkpoint ==
  /\ snapshot' = Snapshot(machine) /\ base' = Len(log)
  /\ UNCHANGED <<log, machine, answers>>

(* OpenWithRuntime: Restore, then the committed suffix. *)
Restart ==
  /\ Restorable(snapshot)
  /\ machine' = ReplayFrom(snapshot, SubSeq(log, base + 1, Len(log)))
  /\ UNCHANGED <<log, snapshot, base, answers>>

ReplicaInit == /\ log = <<>> /\ machine = New
               /\ snapshot = New /\ base = 0
               /\ answers = {}

ReplicaNext(commands) ==
  (\E c \in commands : Commit(c)) \/ Checkpoint \/ Restart

-----------------------------------------------------------------------------
(* The command at position k is the first of its client with so high a       *)
(* request ID.                                                               *)
FirstAt(k) ==
  /\ Validate(log[k])
  /\ \A j \in 1 .. k - 1 :
       Validate(log[j]) /\ log[j].client = log[k].client =>
         log[j].request < log[k].request

(* Apply's sessions, Snapshot and Restore: whatever was repeated, overtaken,  *)
(* compacted or replayed, the values are those of the commands that were the  *)
(* first with their request ID or a higher one, applied once each in order.   *)
EffectOnce ==
  LET after[k \in 0 .. Len(log)] ==
        IF k = 0 THEN New.values
        ELSE IF FirstAt(k)
          THEN [after[k - 1] EXCEPT ![log[k].key] = Effect(@, log[k]).value]
          ELSE after[k - 1]
  IN  machine.values = after[Len(log)]

(* check: a client that repeats a command is told what it was told before,    *)
(* however often it asks and whatever other clients did in between.           *)
AnswersRepeat ==
  \A a, b \in answers :
    a.cmd.client = b.cmd.client /\ a.cmd.request = b.cmd.request => a = b
=============================================================================
