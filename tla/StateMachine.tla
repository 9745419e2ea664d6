---------------------------- MODULE StateMachine ----------------------------
(***************************************************************************)
(* The key-value machine: internal/statemachine/machine.go.                *)
(*                                                                         *)
(* The methods run under the machine's lock, so each is an operator on a   *)
(* machine.  Texts are members of Text; Empty is "".  The limits on their  *)
(* lengths and their UTF-8 encoding are left out of Validate.              *)
(***************************************************************************)
EXTENDS Integers, Sequences, SequencesExt

CONSTANTS Client,  \* client IDs
          Key,
          Text,    \* values and expected values, "" included
          Empty,   \* ""
          Missing  \* the value of a key, or session of a client, not in the map

ASSUME TextAssumption == Empty \in Text /\ Missing \notin Text

CommandType == [client : Client, request : Nat,
                op : {"SET", "DELETE", "CAS"}, key : Key, value : Text,
                expected : Text]
ResultType == [value : Text, found : BOOLEAN, applied : BOOLEAN,
               conflict : BOOLEAN]
Session == [cmd : CommandType, result : ResultType]
Machine == [values : [Key -> Text \cup {Missing}],
            sessions : [Client -> Session \cup {Missing}], count : Nat]

ASSUME SessionAssumption == Missing \notin Session

New == [values |-> [k \in Key |-> Missing],
        sessions |-> [c \in Client |-> Missing], count |-> 0]

Validate(c) ==
  /\ c.request # 0
  /\ c.op = "SET" => c.expected = Empty
  /\ c.op = "DELETE" => c.value = Empty /\ c.expected = Empty

(* Mutant: only the request before is refused as a repetition. *)
CheckNotStale(m, c) ==
  LET s == m.sessions[c.client]
  IN  IF ~Validate(c) THEN "invalid"
      ELSE IF s = Missing \/ c.request # s.cmd.request THEN "new"
      ELSE IF c # s.cmd THEN "reused"
      ELSE "duplicate"

(* check: what the session of the client says of command c. *)
Check(m, c) ==
  LET s == m.sessions[c.client]
  IN  IF ~Validate(c) THEN "invalid"
      ELSE IF s = Missing \/ c.request > s.cmd.request THEN "new"
      ELSE IF c.request < s.cmd.request THEN "stale"
      ELSE IF c # s.cmd THEN "reused"
      ELSE "duplicate"

(* The switch of Apply: the value of c's key afterwards, and the result. *)
Effect(old, c) ==
  LET found == old # Missing
      write == c.op = "SET" \/ (c.op = "CAS" /\ old = c.expected)
  IN  [value |-> IF write THEN c.value
                 ELSE IF c.op = "DELETE" THEN Missing ELSE old,
       result |-> IF write
                    THEN [value |-> c.value, found |-> TRUE, applied |-> TRUE,
                          conflict |-> FALSE]
                    ELSE [value |-> IF found THEN old ELSE Empty,
                          found |-> found,
                          applied |-> c.op = "DELETE" /\ found,
                          conflict |-> c.op = "CAS"]]

Apply(m, c) ==
  IF Check(m, c) # "new" THEN m
  ELSE LET e == Effect(m.values[c.key], c)
       IN  [m EXCEPT !.values[c.key] = e.value, !.count = @ + 1,
                     !.sessions[c.client] = [cmd |-> c, result |-> e.result]]

(* Mutant: a snapshot holds the values only. *)
SnapshotOfValues(m) ==
  [values |-> m.values, sessions |-> New.sessions, count |-> m.count]

Snapshot(m) == [values |-> m.values, sessions |-> m.sessions, count |-> m.count]

(* Restore accepts a snapshot: sessions are filed under their client and     *)
(* hold valid commands.                                                      *)
Restorable(s) ==
  \A id \in Client : s.sessions[id] # Missing =>
    s.sessions[id].cmd.client = id /\ Validate(s.sessions[id].cmd)

(* Commands one after the other, as a replay of a journal or log applies them. *)
ReplayFrom(m, commands) ==
  LET after[k \in 0 .. Len(commands)] ==
        IF k = 0 THEN m ELSE Apply(after[k - 1], commands[k])
  IN  after[Len(commands)]
Replay(commands) == ReplayFrom(New, commands)
=============================================================================
