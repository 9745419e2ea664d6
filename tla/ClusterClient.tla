---------------------------- MODULE ClusterClient ----------------------------
(***************************************************************************)
(* The client of a cluster: internal/cluster/client.go, with the status    *)
(* codes of internal/api/http.go it decides by.                            *)
(*                                                                         *)
(* Goroutines (Caller) share one Client.  Its lock is held for every       *)
(* access to servers, preferred and discovered, but not while a request is *)
(* under way: Do is the steps Begin, Ask, Learn, AddPeer, Retarget of its  *)
(* loop, and the steps of several callers interleave.  URLs are members of *)
(* Server; those in answers come from the membership and are valid.        *)
(***************************************************************************)
EXTENDS Integers, Sequences, SequencesExt

CONSTANTS Peers,       \* the client URLs of the membership, in its order
          Seeds,       \* the URLs given to New
          Caller,
          Null,
          MaxAttempts  \* 40 in the code

Server == ToSet(Peers)

ASSUME ClientAssumption ==
  /\ Peers \in Seq(Server) /\ Seeds \in Seq(Server) /\ Seeds # <<>>
  /\ Null \notin Server /\ MaxAttempts \in Nat \ {0}

VARIABLES servers,    \* URLs known, in the order they were learned
          preferred,  \* the URL that answered last
          discovered, \* URLs whose /v1/status was read
          do          \* do[k]: the call of Do that k is in

clientVars == <<servers, preferred, discovered, do>>

Idle == [phase |-> "idle", cmd |-> Null, target |-> Null, cursor |-> 0,
         attempt |-> 0, status |-> 0, redirect |-> Null]

add(list, s) == IF s \in ToSet(list) THEN list ELSE Append(list, s)

(* add for each of the URLs in turn. *)
addAll(list, urls) ==
  LET after[i \in 0 .. Len(urls)] ==
        IF i = 0 THEN list ELSE add(after[i - 1], urls[i])
  IN  after[Len(urls)]

ClientInit == /\ servers = addAll(<<>>, Seeds)
              /\ preferred = Null /\ discovered = {}
              /\ do = [k \in Caller |-> Idle]

(* The known servers, the preferred one swapped with the first. *)
addresses ==
  [i \in DOMAIN servers |->
     IF preferred = Null THEN servers[i]
     ELSE IF i = 1 THEN preferred
     ELSE IF servers[i] = preferred THEN servers[1] ELSE servers[i]]

(* Mutant: a request without quorum is answered as a gateway timeout. *)
StatusOfNoQuorumTerminal(outcome) ==
  CASE outcome = "done" -> 200
    [] outcome \in {"conflict", "stale", "reused"} -> 409
    [] outcome = "invalid" -> 400
    [] outcome = "leader known" -> 307
    [] outcome = "no quorum" -> 504
    [] outcome \in {"leader unknown", "unavailable"} -> 503

(* The handlers of the API and handleRequestError: the status code for what  *)
(* Execute returned.                                                         *)
StatusOf(outcome) ==
  CASE outcome = "done" -> 200
    [] outcome \in {"conflict", "stale", "reused"} -> 409
    [] outcome = "invalid" -> 400
    [] outcome = "leader known" -> 307
    [] outcome \in {"leader unknown", "no quorum", "unavailable"} -> 503

(* The answer ends the call; 0 stands for no answer at all. *)
Terminal(status) == status \notin {0, 307, 503}

Begin(k, c) ==
  /\ do[k].phase = "idle"
  /\ do' = [do EXCEPT ![k] = [Idle EXCEPT !.phase = "ask", !.cmd = c,
                                          !.target = addresses[1]]]
  /\ UNCHANGED <<servers, preferred, discovered>>

(* The request and its answer: a status (0: none) and, for a redirect, the   *)
(* server it names.  What ends the call but a success ends it here.          *)
Ask(k, status, location) ==
  LET redirect == IF status = 307 THEN location ELSE Null
  IN  /\ do[k].phase = "ask"
      /\ servers' = IF redirect = Null THEN servers ELSE add(servers, redirect)
      /\ preferred' = IF Terminal(status) THEN do[k].target ELSE preferred
      /\ do' = [do EXCEPT ![k] =
                  IF Terminal(status) /\ status >= 300 THEN Idle
                  ELSE [@ EXCEPT !.phase = "learn", !.status = status,
                                 !.redirect = redirect]]
      /\ UNCHANGED discovered

(* discover has returned.  After a success, so does Do. *)
Learned(d) == IF Terminal(d.status) THEN Idle ELSE [d EXCEPT !.phase = "next"]

(* discover: the target's status, unless it was read before or there is no   *)
(* answer.                                                                   *)
Learn(k, answers) ==
  LET d == do[k]
  IN  /\ d.phase = "learn"
      /\ do' = [do EXCEPT ![k] = IF answers /\ d.target \notin discovered
                                   THEN [d EXCEPT !.phase = "add"] ELSE Learned(d)]
      /\ UNCHANGED <<servers, preferred, discovered>>

(* The peers in the status, in their order and under the lock for one at a   *)
(* time; the known ones change nothing.                                      *)
AddPeer(k) ==
  LET d == do[k]
      unknown == {i \in DOMAIN Peers : Peers[i] \notin ToSet(servers)}
  IN  /\ d.phase = "add"
      /\ \/ \E i \in unknown : /\ \A j \in unknown : i <= j
                               /\ servers' = add(servers, Peers[i])
                               /\ UNCHANGED <<discovered, do>>
         \/ /\ unknown = {}
            /\ discovered' = discovered \cup {d.target}
            /\ do' = [do EXCEPT ![k] = Learned(d)]
            /\ UNCHANGED servers
      /\ UNCHANGED preferred

(* Mutant: a redirect is followed whenever there is one. *)
FollowsAlways(d) == d.redirect \notin {Null, d.target}

Follows(d) == d.redirect \notin {Null, d.target} /\ d.attempt % 2 = 0

(* The end of the loop's body: the next target, unless this was the last     *)
(* attempt.                                                                  *)
Retarget(k) ==
  LET d == do[k]
      cursor == IF Follows(d) THEN d.cursor ELSE d.cursor + 1
      target == IF Follows(d) THEN d.redirect
                ELSE addresses[(cursor % Len(addresses)) + 1]
  IN  /\ d.phase = "next"
      /\ do' = [do EXCEPT ![k] =
                  IF d.attempt + 1 = MaxAttempts THEN Idle
                  ELSE [d EXCEPT !.phase = "ask", !.target = target,
                                 !.cursor = cursor, !.attempt = d.attempt + 1,
                                 !.status = 0, !.redirect = Null]]
      /\ UNCHANGED <<servers, preferred, discovered>>

(* The deadline of the call or of its context passes. *)
GiveUp(k) ==
  /\ do[k].phase = "ask"
  /\ do' = [do EXCEPT ![k] = Idle]
  /\ UNCHANGED <<servers, preferred, discovered>>
=============================================================================
