---------------------------- MODULE ReaderHistory ----------------------------
(***************************************************************************)
(* The reader together with what an observer of the dongles would          *)
(* remember: what each model's dongle was last found to say of the link,   *)
(* how many requests each session sent in quick succession to a dongle     *)
(* that said nothing, since when each pass found sound being streamed, and *)
(* since when each pass over a node failed the same way.  The history only *)
(* records: it never keeps a step of the reader from happening.            *)
(***************************************************************************)
EXTENDS Reader

VARIABLES
  said,       \* per model, the link its dongle was last found to have
  quick,      \* per node, quick requests of its session since it last spoke
  streaming,  \* age of the first pass that found sound, None unless the last did
  trouble,    \* per node, the error of each pass over it, and since when
  newest      \* the number the last level was given

history == <<said, quick, streaming, trouble, newest>>

allVars == <<vars, history>>

NoTrouble == [err |-> None, since |-> 0]

RememberedInit ==
  /\ Init
  /\ said = [p \in Product |-> "Unknown"]
  /\ quick = [n \in Node |-> 0]
  /\ streaming = None
  /\ trouble = [n \in Node |-> NoTrouble]
  /\ newest = 0

Says(link) == said' = [said EXCEPT ![ProductOf[at]] = link]

\* A session that is closed takes its count with it.
CountsOfOpen == quick' = [n \in Node |-> IF sessions'[n] = None THEN 0 ELSE quick[n]]

\* The question follows another within less than the slow cadence, or is the
\* first of the session.
IsQuick(s) == s.askedAt = None \/ s.askedAt < AskIdleRetry

Finds(running) ==
  streaming' = IF running # "Running" THEN None
               ELSE IF streaming = None THEN 0 ELSE streaming

Troubled(n, err) ==
  trouble' = [trouble EXCEPT ![n] =
                IF @.err = err THEN @ ELSE [err |-> err, since |-> 0]]

Untroubled == trouble' = [trouble EXCEPT ![at] = NoTrouble]

-----------------------------------------------------------------------------
RememberedElapse ==
  /\ Elapse
  /\ streaming' = OlderBy1(streaming, ProbeEvery)
  /\ trouble' = [n \in Node |->
                   IF trouble[n].err = None THEN NoTrouble
                   ELSE [trouble[n] EXCEPT !.since = UpTo(@ + 1, ErrorSettle)]]
  /\ UNCHANGED <<said, quick, newest>>

RememberedPoll(listed) ==
  /\ Poll(listed)
  /\ CountsOfOpen
  /\ trouble' = [n \in Node |-> IF n \in listed THEN trouble[n] ELSE NoTrouble]
  /\ UNCHANGED <<said, streaming, newest>>

RememberedFailure(n, err) ==
  /\ OpenFails(n, err) \/ FetchFails(n, err)
  /\ CountsOfOpen
  /\ Troubled(n, err)
  /\ UNCHANGED <<said, streaming, newest>>

RememberedLink(up) ==
  /\ HearLink(up)
  /\ Says(IF up THEN "Up" ELSE "Down")
  /\ quick' = [quick EXCEPT ![at] = 0]
  /\ UNCHANGED <<streaming, trouble, newest>>

RememberedLevel(level) ==
  /\ HearLevel(level)
  /\ Says("Up")
  /\ quick' = [quick EXCEPT ![at] = 0]
  /\ newest' = sessions'[at].sample
  /\ UNCHANGED <<streaming, trouble>>

RememberedConclusion(running) ==
  /\ \/ DontAsk(running) /\ UNCHANGED <<said, quick>>
     \/ GiveUp(running) /\ Says("Unknown") /\ UNCHANGED quick
     \/ /\ Ask(running)
        /\ quick' = [quick EXCEPT ![at] = IF IsQuick(sessions[at]) THEN @ + 1 ELSE @]
        /\ UNCHANGED said
  /\ Finds(running)
  /\ Untroubled
  /\ UNCHANGED newest

RememberedAskFails(err) ==
  /\ AskFails(err)
  /\ CountsOfOpen
  /\ Troubled(at, err)
  /\ UNCHANGED <<said, streaming, newest>>

RememberedNext ==
  \/ RememberedElapse
  \/ \E listed \in Listing : RememberedPoll(listed)
  \/ \E n \in Node, err \in Error : RememberedFailure(n, err)
  \/ \E n \in Node : Fetch(n) /\ UNCHANGED history
  \/ \E up \in BOOLEAN : RememberedLink(up)
  \/ \E level \in Percent : RememberedLevel(level)
  \/ \E running \in Playback : RememberedConclusion(running)
  \/ \E err \in Error : RememberedAskFails(err)

RememberedSpec == RememberedInit /\ [][RememberedNext]_allVars

-----------------------------------------------------------------------------
\* A session never sends more than MaxUnanswered quick requests to a dongle that
\* says nothing, whatever it believes of the link, whichever requests fail to be
\* written and however the two ways of pacing them follow each other: requests
\* that pile up are what wedges the dongle.
SilentDonglesAreSpared == \A n \in Open : quick[n] <= MaxUnanswered

\* While no two dongles of a model are plugged in, the link a session believes
\* is what the dongle last said to any session, or that it was given up on:
\* neither its re-enumerations nor the failures that close a session lose it.
BeliefOutlivesSessions ==
  \A n \in Open : sessions[n].link = said[ProductOf[n]]

\* A dongle that has been silent for WedgeSilence and streaming for ProbeEvery is
\* told of on the very pass that finds it so, unless it was within
\* WedgeReminder: neither a look taken earlier nor the sessions its
\* re-enumerations open put the warning off.
WedgesAreToldOf ==
  [][\A running \in Playback :
       /\ DontAsk(running) \/ Ask(running)
       /\ running = "Running"
       /\ sessions[at].link # "Up"
       /\ ~heard /\ wedge # None
       /\ wedge.heardAt >= WedgeSilence
       /\ streaming # None /\ streaming >= ProbeEvery
       => /\ wedge'.warnedAt # None
          /\ wedge'.warnedAt < WedgeReminder
    ]_allVars

\* A level has a number no level before it had, whichever sessions were closed
\* and opened since: it is by this number that the bridge tells a cached reading
\* from a second opinion.
SamplesAreNew ==
  [][\A level \in Percent : HearLevel(level) => sessions'[at].sample > newest]_allVars

\* src/src/maxwell/session.rs:93: a failure to reach a dongle that is listed is
\* reported once it has lasted ErrorSettle.
LastingErrorsAreReported ==
  [][\A n \in Node, err \in Error :
       /\ OpenFails(n, err) \/ FetchFails(n, err) \/ (n = at /\ AskFails(err))
       /\ trouble[n].err = err /\ trouble[n].since >= ErrorSettle
       => access'.message = <<n, err>> /\ access'.reported
    ]_allVars
=============================================================================
