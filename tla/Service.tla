------------------------------- MODULE Service -------------------------------
(***************************************************************************)
(* Clients that retry, over a replicated machine.                          *)
(*                                                                         *)
(* The cluster appears as what it promises (modules Raft and Ledger): one  *)
(* log of commands, committed now or later, and answers by whoever is      *)
(* leader.  A request without an answer of the leader may still have been  *)
(* appended to a log: the node was deposed, lost its quorum, was paused or *)
(* died while the client waited, and a 307 or 503 or nothing came back.    *)
(* Such a command stays in sent and may be committed at any later time, as *)
(* often as it was sent.                                                   *)
(***************************************************************************)
EXTENDS Replica, ClusterClient

VARIABLES leader,   \* the server that answers requests now, or Null
          sent,     \* commands that may be in the log of some node
          returned, \* history: commands for which Do returned an answer
          missed    \* history: attempts of a call since the leader took
                    \* office or the client's tables changed, none at the leader

serviceVars == <<replicaVars, clientVars, leader, sent, returned, missed>>

Unreplicated == {"leader unknown", "leader known", "no quorum", "unavailable"}

NoneMissed == [k \in Caller |-> 0]

(* k has now missed the leader n times, unless its call is over or the       *)
(* tables it takes its targets from have changed.                            *)
Miss(k, n) ==
  missed' = IF servers' # servers \/ preferred' # preferred THEN NoneMissed
            ELSE [missed EXCEPT ![k] = IF do'[k] = Idle THEN 0 ELSE n]

Call(k, c) ==
  /\ Begin(k, c)
  /\ UNCHANGED <<replicaVars, leader, sent, returned, missed>>

(* node.Execute refuses an invalid command whoever is asked; the leader      *)
(* commits a valid one and answers from the session.                         *)
Answer(k) ==
  LET c == do[k].cmd
      verdict == Check(machine, c)
      outcome == IF verdict \notin {"new", "duplicate"} THEN verdict
                 ELSE IF machine'.sessions[c.client].result.conflict
                   THEN "conflict" ELSE "done"
  IN  /\ do[k].phase = "ask"
      /\ IF Validate(c) THEN do[k].target = leader /\ Commit(c)
                        ELSE UNCHANGED replicaVars
      /\ Ask(k, StatusOf(outcome), Null)
      /\ returned' = returned \cup {c}
      /\ Miss(k, 0)
      /\ UNCHANGED <<leader, sent>>

(* Anything but an answer of the leader: an error of a node, which may have  *)
(* appended the command, or no answer at all.                                *)
Fail(k) ==
  LET c == do[k].cmd
  IN  /\ do[k].phase = "ask"
      /\ \/ \E outcome \in Unreplicated, s \in Server :
              /\ Validate(c)
              /\ outcome # "leader known" => s = do[k].target
              /\ Ask(k, StatusOf(outcome), s)
              /\ returned' = IF Terminal(StatusOf(outcome))
                               THEN returned \cup {c} ELSE returned
         \/ Ask(k, 0, Null) /\ UNCHANGED returned
      /\ sent' \in {sent, sent \cup {a \in {c} : Validate(a)}}
      /\ Miss(k, IF leader \in ToSet(servers) \ {do[k].target}
                   THEN missed[k] + 1 ELSE 0)
      /\ UNCHANGED <<replicaVars, leader>>

Discover(k) ==
  /\ (\E reached \in BOOLEAN : Learn(k, reached)) \/ AddPeer(k)
  /\ Miss(k, missed[k])
  /\ UNCHANGED <<replicaVars, leader, sent, returned>>

Rotate(k) ==
  /\ Retarget(k) \/ GiveUp(k)
  /\ Miss(k, missed[k])
  /\ UNCHANGED <<replicaVars, leader, sent, returned>>

(* Another member, or none, can now commit. *)
Elect(s) ==
  /\ s # leader
  /\ leader' = s /\ missed' = NoneMissed
  /\ UNCHANGED <<replicaVars, clientVars, sent, returned>>

(* What the replica does while nobody waits. *)
Background ==
  /\ ReplicaNext(sent)
  /\ UNCHANGED <<clientVars, leader, sent, returned, missed>>

(* Clients elsewhere may have sent commands before the modelled ones start. *)
ServiceInit == /\ ReplicaInit /\ ClientInit
               /\ leader = Null /\ sent \subseteq CommandType /\ returned = {}
               /\ missed = NoneMissed

ServiceNext ==
  \/ \E k \in Caller :
       \/ \E c \in CommandType : Call(k, c)
       \/ Answer(k) \/ Fail(k) \/ Discover(k) \/ Rotate(k)
  \/ \E s \in Server \cup {Null} : Elect(s)
  \/ Background

ServiceSpec == ServiceInit /\ [][ServiceNext]_serviceVars

-----------------------------------------------------------------------------
(* Do, handleRequestError: an answer without an error settles the command;   *)
(* no copy of it that is still in some log, or that the caller sends again,  *)
(* changes a value.  What may yet take effect is answered 307 or 503, or not *)
(* at all, and the caller is told that the outcome may be unknown.           *)
Settled ==
  [][\A c \in returned : log' = Append(log, c) =>
       machine'.values = machine.values]_serviceVars

(* Do: the rotation and the redirects take turns, so a call that goes on     *)
(* has asked the leader when it has made two rounds of the known servers,    *)
(* whatever the others answer: stale redirects, errors, nothing.  (Two full  *)
(* rounds it takes if the order of the servers changed under its first       *)
(* request.)                                                                 *)
ReachesLeader == \A k \in Caller : missed[k] <= 2 * Len(servers)
=============================================================================
