------------------------------ MODULE Database ------------------------------
(***************************************************************************)
(* The standalone store: internal/database/database.go, a machine over a   *)
(* journal of its commands.                                                *)
(*                                                                         *)
(* Execute holds the lock from Check to Apply, so its steps are those of   *)
(* the journal's Append; Get is shut out until it returns.  The database   *)
(* never replaces its journal.  Its `failed` is the journal's: the only    *)
(* error of Append that leaves the journal healthy, a record of more than  *)
(* 16 MiB, cannot be made of a valid command.                              *)
(***************************************************************************)
EXTENDS Journal, StateMachine

VARIABLES machine,
          answers  \* history: [cmd, result] of the calls that were answered

(* A journal record is a command. *)
Command == Payload

databaseVars == <<data, safe, path, safePath, pc, file, failed, tmp, believed,
                  intents, machine, answers>>

Answer(c, m) == answers' = answers \cup {[cmd |-> c,
                                          result |-> m.sessions[c.client].result]}

(* Execute answers from the session, without the journal. *)
ExecuteDuplicate(c) ==
  /\ Healthy /\ Check(machine, c) = "duplicate"
  /\ Answer(c, machine)
  /\ UNCHANGED <<journalVars, machine>>

(* Mutant: Execute leaves it to Apply to refuse a command. *)
MayLogUnchecked(c) == TRUE

(* Execute goes on to the journal. *)
MayLog(c) == Check(machine, c) = "new"

ExecuteWrite(c) ==
  /\ MayLog(c)
  /\ AppendWrite(c) \/ AppendWriteFails(c)
  /\ UNCHANGED <<machine, answers>>

(* Mutant: the command is applied and answered even if the journal failed. *)
ExecuteApplyAnyway ==
  LET c == Last(data[file]).payload
  IN  /\ AppendSync \/ AppendSyncFails
      /\ machine' = Apply(machine, c)
      /\ Answer(c, machine')

(* Append returned nil: Execute applies the command and answers. *)
ExecuteApply ==
  LET c == Last(data[file]).payload
  IN  /\ AppendSync
      /\ machine' = Apply(machine, c)
      /\ Answer(c, machine')

ExecuteFails == AppendSyncFails /\ UNCHANGED <<machine, answers>>

(* No command of the journal makes Apply fail during the replay. *)
Replayable(commands) ==
  \A k \in 1 .. Len(commands) :
    Check(Replay(SubSeq(commands, 1, k - 1)), commands[k]) \in {"new", "duplicate"}

(* Open, up to a journal that is ready: the machine is made of its records. *)
OpenDatabase ==
  \/ /\ Replayable(Recovered(data[path]))
     /\ OpenReplay
     /\ machine' = Replay(Recovered(data[path]))
     /\ UNCHANGED answers
  \/ (OpenSync \/ OpenDone) /\ UNCHANGED <<machine, answers>>

(* Close, a crash, or a power loss, in the middle of Execute or Open too. *)
Leave == (Kill \/ PowerLoss) /\ UNCHANGED <<machine, answers>>

DatabaseInit == JournalInit /\ machine = New /\ answers = {}

DatabaseNext ==
  \/ \E c \in Command : ExecuteDuplicate(c) \/ ExecuteWrite(c)
  \/ ExecuteApply \/ ExecuteFails
  \/ OpenDatabase \/ Leave

DatabaseSpec == DatabaseInit /\ [][DatabaseNext]_databaseVars

-----------------------------------------------------------------------------
(* Execute syncs before it applies: what Get may return while the database    *)
(* is up is what any crash, even of the power, would bring back.              *)
ReadsAreDurable ==
  Healthy => \A l \in Recoverable : machine = Replay(l)

(* A command that was answered is in the journal, once, whatever happens      *)
(* later, and its result is what a replay computes for it.                    *)
AnsweredOnce ==
  \A a \in answers : \A l \in Recoverable :
    \E k \in 1 .. Len(l) :
      /\ l[k] = a.cmd /\ \A j \in 1 .. Len(l) : l[j] = a.cmd => j = k
      /\ Replay(SubSeq(l, 1, k)).sessions[a.cmd.client].result = a.result

(* Check before Append: whatever Open finds, it can replay.                   *)
AlwaysOpens == \A l \in Recoverable : Replayable(l)
=============================================================================
