------------------------------ MODULE MCService ------------------------------
(***************************************************************************)
(* Bounds for model checking Service.  Either the modelled callers send a  *)
(* few commands, or they are silent and clients elsewhere have sent        *)
(* everything there is, so that the log may be any sequence of commands.   *)
(***************************************************************************)
EXTENDS Service, TLC

CONSTANTS MaxRequest,  \* request IDs run from 0 (invalid) to MaxRequest
          MaxCommands, \* commands in the log, if they come from elsewhere
          MaxCalled,   \* commands in the log, if they are the callers'
          MaxPatience, \* attempts of the calls under way together
          MaxRefused,  \* those of one refused while the others wait
          MaxRetries,  \* attempts together once a log may hold a command
          MaxKnown     \* servers known, once a log may hold a command

MCPeers == <<"s1", "s2", "s3">>
MCSeeds == <<"s1">>

Commands ==
  {c \in [client : Client, request : 0 .. MaxRequest,
          op : {"SET", "DELETE", "CAS"}, key : Key, value : Text,
          expected : Text] :
     Validate(c) \/ (c.request = 0 /\ c.op = "SET")}

(* One client: an invalid request, and a write it may later undo. *)
CallerCommands ==
  LET id == CHOOSE c \in Client : TRUE
  IN  {c \in Commands :
         /\ c.client = id /\ c.expected = Empty
         /\ \/ c.op = "SET" /\ c.request < 2 /\ c.value # Empty
            \/ c.op = "DELETE" /\ c.request = 2 /\ c.value = Empty}

MCInit == sent \in {{}, Commands} /\ ServiceInit

(* Only clients elsewhere send that much. *)
Elsewhere == Cardinality(sent) > Cardinality(CallerCommands)

MCNext ==
  \/ /\ ~Elsewhere
     /\ \/ \E k \in Caller :
             \/ \E c \in CallerCommands :
                  Call(k, c) /\ (c.request = 2 => log # <<>> \/ sent # {})
             \/ Answer(k) \/ Fail(k) \/ Discover(k) \/ Rotate(k)
        \/ \E s \in Server \cup {Null} : Elect(s)
  \/ Background

Attempts == MapThenSumSet(LAMBDA k : do[k].attempt, Caller)
Alone == \E k \in Caller : \A other \in Caller \ {k} : do[other] = Idle
OneIsRefused ==
  \E k \in Caller :
    /\ do[k] # Idle /\ ~Validate(do[k].cmd) /\ do[k].attempt < MaxRefused
    /\ \A other \in Caller \ {k} : do[other].phase = "ask" /\ do[other].attempt = 0

(* Long calls are followed while no log holds a command, alone or while the  *)
(* other callers wait for their first answer and the command is one that     *)
(* every server refuses; after that, calls are short and know few servers.   *)
(* Then, callers also interleave in their first attempts.  Checkpoints are   *)
(* left to the logs from elsewhere.                                          *)
Bounded ==
  \/ Elsewhere /\ Len(log) <= MaxCommands
  \/ /\ ~Elsewhere
     /\ \/ Alone
        \/ sent = {} /\ log = <<>> /\ OneIsRefused
        \/ Attempts = 0 /\ Len(log) < MaxCalled /\ (log # <<>> \/ sent # {})
     /\ \/ sent = {} /\ log = <<>> /\ Attempts < MaxPatience
        \/ /\ Len(log) <= MaxCalled /\ base = 0
           /\ Attempts < MaxRetries /\ Len(servers) <= MaxKnown

MCSpec == MCInit /\ [][MCNext /\ Bounded']_serviceVars

Symmetry == Permutations(Caller)
=============================================================================
