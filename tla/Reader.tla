------------------------------- MODULE Reader -------------------------------
(***************************************************************************)
(* The native reader (Reader in src/src/maxwell/mod.rs): a session per     *)
(* dongle that sysfs lists, kept over the passes, closed when its node is  *)
(* gone, and what a closed session believed of the link, for the next one  *)
(* on a dongle of the model.                                               *)
(*                                                                         *)
(* One pass (reconcile) is Poll, then for each dongle listed, in any       *)
(* order, either a failure or Fetch, one Hear... per message of the report *)
(* fetched, and one of DontAsk, GiveUp, Ask and AskFails.  The pass has a  *)
(* single instant; time passes in Elapse, between passes.                  *)
(***************************************************************************)
EXTENDS Watches

CONSTANTS
  Node,         \* the hidraw nodes a dongle may have
  Product,      \* the models of dongles
  ProductOf,    \* the model of the dongle behind a node
  Listing,      \* the sets of nodes that sysfs may list at a time
  MaxReadings   \* bound: battery messages in a behaviour

Error == {"gone", "other"}

ASSUME NodeAssumption ==
  /\ None \notin Node /\ None \notin Error
  /\ ProductOf \in [Node -> Product]
  /\ Listing \subseteq SUBSET Node
  /\ Message = Node \X Error
  /\ MaxReadings \in Nat

VARIABLES
  sessions,  \* the session of each node, None without one
  lastLink,  \* what the last session closed on a model knew of the link
  readings,  \* battery messages received
  wedge,     \* the wedge watch, None before the first dongle
  access,    \* the access watch, None without an error
  todo,      \* the nodes of this pass not listened to yet
  at,        \* the node whose report is being taken in, if any
  heard      \* whether that report said anything

vars == <<sessions, lastLink, readings, wedge, access, todo, at, heard>>

Init ==
  /\ sessions = [n \in Node |-> None]
  /\ lastLink = [p \in Product |-> "Unknown"]
  /\ readings = 0
  /\ wedge = None
  /\ access = None
  /\ todo = {}
  /\ at = None
  /\ heard = FALSE

Open == {n \in Node : sessions[n] # None}

BetweenPasses == todo = {} /\ at = None

-----------------------------------------------------------------------------
Elapse ==
  /\ BetweenPasses
  /\ sessions' = [n \in Node |-> IF n \in Open THEN Older(sessions[n]) ELSE None]
  /\ wedge' = OlderWedge(wedge)
  /\ access' = OlderAccess(access)
  /\ UNCHANGED <<lastLink, readings, todo, at, heard>>

\* What is handed to the next session on a model when some are closed: the link
\* of one of them.
Handed(p, closed) ==
  LET ofModel == {n \in closed : ProductOf[n] = p} IN
  IF ofModel = {} THEN {lastLink[p]} ELSE {sessions[n].link : n \in ofModel}

\* A pass begins: the sessions of nodes that are gone are closed.
Poll(listed) ==
  /\ BetweenPasses
  /\ todo' = listed
  /\ sessions' = [n \in Node |-> IF n \in listed THEN sessions[n] ELSE None]
  /\ lastLink' \in {l \in [Product -> Link] :
                      \A p \in Product : l[p] \in Handed(p, Open \ listed)}
  /\ UNCHANGED <<readings, wedge, access, at, heard>>

\* listen_to opens a session where there is none.
Opened(n) == IF n \in Open THEN sessions[n] ELSE open(lastLink[ProductOf[n]])

OpenFails(n, err) ==
  /\ at = None /\ n \in todo /\ n \notin Open
  /\ todo' = todo \ {n}
  /\ access' = failing(access, <<n, err>>)
  /\ UNCHANGED <<sessions, lastLink, readings, wedge, at, heard>>

\* Not the code: the session is closed and what it knew is forgotten.
FailForgetting(n, s, err) ==
  /\ access' = failing(access, <<n, err>>)
  /\ sessions' = [sessions EXCEPT ![n] = IF err = "gone" THEN None ELSE s]
  /\ UNCHANGED lastLink

\* The exchange with a dongle fails: only one that is gone loses its session.
Fail(n, s, err) ==
  /\ access' = failing(access, <<n, err>>)
  /\ IF err = "gone"
     THEN /\ sessions' = [sessions EXCEPT ![n] = None]
          /\ lastLink' = [lastLink EXCEPT ![ProductOf[n]] = s.link]
     ELSE /\ sessions' = [sessions EXCEPT ![n] = s]
          /\ UNCHANGED lastLink

FetchFails(n, err) ==
  /\ at = None /\ n \in todo
  /\ todo' = todo \ {n}
  /\ Fail(n, Opened(n), err)
  /\ UNCHANGED <<readings, wedge, at, heard>>

\* Not the code: a session is only opened on the next pass.
FetchUnopened(n) ==
  /\ at = None /\ n \in todo
  /\ todo' = todo \ {n}
  /\ at' = n
  /\ UNCHANGED <<sessions, lastLink, readings, wedge, access, heard>>

Fetch(n) ==
  /\ at = None /\ n \in todo
  /\ todo' = todo \ {n}
  /\ at' = n
  /\ sessions' = [sessions EXCEPT ![n] = Opened(n)]
  /\ UNCHANGED <<lastLink, readings, wedge, access, heard>>

-----------------------------------------------------------------------------
(* The messages of a report. *)

Hear(s) ==
  /\ heard' = TRUE
  /\ sessions' = [sessions EXCEPT ![at] = s]
  /\ UNCHANGED <<lastLink, wedge, access, todo, at>>

HearLink(up) ==
  /\ at # None
  /\ Hear(IF up THEN TakeUp(sessions[at]) ELSE TakeDown(sessions[at]))
  /\ UNCHANGED readings

\* Not the code: each session counts its own battery messages.
HearLevelOwnCount(level) ==
  /\ at # None /\ readings < MaxReadings
  /\ readings' = readings + 1
  /\ Hear(TakeLevel(sessions[at], level, sessions[at].sample + 1))

HearLevel(level) ==
  /\ at # None /\ readings < MaxReadings
  /\ readings' = readings + 1
  /\ Hear(TakeLevel(sessions[at], level, readings + 1))

-----------------------------------------------------------------------------
(* The rest of listen_to, and what reconcile makes of its outcome. *)

Watched ==
  IF wedge = None THEN NewWatch ELSE IF heard THEN Spoken(wedge) ELSE wedge

\* All went well, and s is the session now.
Conclude(s, running) ==
  /\ sessions' = [sessions EXCEPT ![at] = s]
  /\ wedge' = IF s.link = "Up" THEN Watched ELSE check(Watched, running)
  /\ access' = None
  /\ at' = None
  /\ heard' = FALSE
  /\ UNCHANGED <<lastLink, readings, todo>>

DontAsk(running) ==
  /\ at # None
  /\ ~should_ask(sessions[at])
  /\ Conclude(sessions[at], running)

GiveUp(running) ==
  /\ at # None
  /\ should_ask(sessions[at]) /\ GivesUp(sessions[at])
  /\ Conclude(GivenUp(sessions[at]), running)

Ask(running) ==
  /\ at # None
  /\ should_ask(sessions[at]) /\ ~GivesUp(sessions[at])
  /\ Conclude(Asked(sessions[at]), running)

\* Writing the request fails; the request before it counts as lost all the same.
AskFails(err) ==
  /\ at # None
  /\ should_ask(sessions[at]) /\ ~GivesUp(sessions[at])
  /\ Fail(at, Counted(sessions[at]), err)
  /\ wedge' = Watched
  /\ at' = None
  /\ heard' = FALSE
  /\ UNCHANGED <<readings, todo>>

-----------------------------------------------------------------------------
Next ==
  \/ Elapse
  \/ \E listed \in Listing : Poll(listed)
  \/ \E n \in Node, err \in Error : OpenFails(n, err) \/ FetchFails(n, err)
  \/ \E n \in Node : Fetch(n)
  \/ \E up \in BOOLEAN : HearLink(up)
  \/ \E level \in Percent : HearLevel(level)
  \/ \E running \in Playback : DontAsk(running) \/ GiveUp(running) \/ Ask(running)
  \/ \E err \in Error : AskFails(err)

Spec == Init /\ [][Next]_vars

-----------------------------------------------------------------------------
TypeOK ==
  /\ sessions \in [Node -> Session \cup {None}]
  /\ lastLink \in [Product -> Link]
  /\ readings \in 0..MaxReadings
  /\ wedge \in Wedge \cup {None}
  /\ access \in Access \cup {None}
  /\ todo \subseteq Node
  /\ at \in Open \cup {None}
  /\ heard \in BOOLEAN

\* A level is only kept for a headset believed to be linked, with the number of
\* the message it came in: what a session shows never outlives the link, the
\* session or the patience with a headset that does not answer.
LevelsAreCurrent ==
  \A n \in Open : sessions[n].level # None =>
    sessions[n].link = "Up" /\ sessions[n].sample \in 1..readings

\* src/src/maxwell/session.rs:284: once a linked headset is given up on, the
\* quick questions are spent and only the slow cadence is left.
GivingUpLeavesTheSlowCadence ==
  [][\A n \in Open : sessions[n].link = "Up" /\ sessions'[n] # None
                       /\ sessions'[n].link = "Unknown"
                     => AskDelay(sessions'[n].asks) = AskIdleRetry
    ]_vars
=============================================================================
