------------------------------- MODULE Dongle -------------------------------
(***************************************************************************)
(* One dongle, its headset and the session that listens to it, put         *)
(* together: what the dongle writes to its report, what is lost on the     *)
(* way, and what the session comes to believe (Session, with the report    *)
(* of Frames).  The dongle is not the repository's: it does here what the  *)
(* comments of src/src/maxwell say of it.  It announces that the headset   *)
(* comes or goes, re-enumerates some time after, and answers a request, or *)
(* loses it.                                                               *)
(*                                                                         *)
(* One poll, a second after the last, is a step of FetchFails, or one of   *)
(* Listen and then one of Ask, with the dongle going its way in between:   *)
(* a headset may leave after the report was fetched and before the request *)
(* that it led to is written.                                              *)
(***************************************************************************)
EXTENDS Session, Frames

CONSTANT MostAbsentAsks  \* bound of the model: requests to nobody counted

ASSUME AskBoundAssumption == MostAbsentAsks \in Nat \ {0}

\* main keeps the interval at a second or more (main.rs:177); a dongle that says
\* nothing has been asked before its headset would be waited for.
ASSUME PaceAssumption ==
  NativeInterval > 0 /\ ListenFirst < NativeInterval + LongestDelay

VARIABLES
  linked,      \* whether the headset is on and linked
  changed,     \* whether the dongle has yet to re-enumerate for that
  frame,       \* the report, as the next fetch would get it
  request,     \* whether a request is on its way to the headset
  fetched,     \* whether the report of this poll was fetched, and it may yet ask
  session,     \* the session on the dongle's node, None without one
  last_link,   \* what the last session closed knew of the link
  said,        \* history: the messages written to the report since it was fetched
  absentAsks,  \* history: requests that were sent while the headset was gone, or
               \* on their way as it left
  calm         \* history: polls since anything changed or was lost

dongleVars == <<linked, changed, request>>
vars == <<dongleVars, frame, fetched, session, last_link, said, absentAsks, calm>>

-----------------------------------------------------------------------------
(* The dongle. *)

\* The session may yet give up on the headset, and then waits for its slow
\* cadence; the answer is there at the poll after the question.  Polls are
\* counted as far as that.
LongestCalm == NativeInterval + LongestDelay + 1

EmptyFrame == [i \in 1..MSG_SIZE |-> 0]

Nothing == [at \in {} |-> None]

Count == frame[FRESH_LEN_OFFSET + 1]

\* What is written past the end of the report is lost, but counted: a message is
\* whole if the byte that follows its header still fits.
Write(event) ==
  /\ frame' = [i \in 1..MSG_SIZE |->
                 LET k == i - PAYLOAD_OFFSET - Count IN
                 IF i = FRESH_LEN_OFFSET + 1 THEN UpTo(Count + Len(event.bytes), 255)
                 ELSE IF i > PAYLOAD_OFFSET /\ k \in 1..Len(event.bytes)
                 THEN event.bytes[k] ELSE frame[i]]
  /\ said' = LET heard == {at \in DOMAIN event.says :
                            Count + at + Len(LINK_EVENT) <= Capacity}
             IN  [at \in DOMAIN said \cup {Count + h : h \in heard} |->
                    IF at \in DOMAIN said THEN said[at] ELSE event.says[at - Count]]

\* The headset comes or goes; a request that is on its way finds it gone.
Switch ==
  /\ linked' = ~linked
  /\ changed' = TRUE
  /\ \E level \in Percent : Write(IF linked' THEN PowerOn(level) ELSE PowerOff)
  /\ absentAsks' = IF request /\ linked THEN 1 ELSE 0
  /\ calm' = 0
  /\ UNCHANGED <<request, fetched, session, last_link>>

\* The node is gone, and with it what was not fetched; the reader closes the
\* session when it sees that (reconcile), at the latest when it writes the request
\* of the poll it is at, and finds the new node.
Reenumerate ==
  /\ changed
  /\ changed' = FALSE
  /\ frame' = EmptyFrame /\ said' = Nothing
  /\ session' = None /\ fetched' = FALSE
  /\ last_link' = IF session = None THEN last_link ELSE session.link
  /\ calm' = 0
  /\ UNCHANGED <<linked, request, absentAsks>>

Respond ==
  /\ request /\ linked
  /\ request' = FALSE
  /\ \E level \in Percent : Write(Answer(level))
  /\ UNCHANGED <<linked, changed, fetched, session, last_link, absentAsks, calm>>

LoseRequest ==
  /\ request
  /\ request' = FALSE /\ calm' = 0
  /\ UNCHANGED <<linked, changed, frame, fetched, session, last_link, said, absentAsks>>

-----------------------------------------------------------------------------
(* The session, once a second. *)

Opened == IF session = None THEN open(last_link) ELSE Older(session)

\* take_in, for one message.  The number of a reading is Reader's business.
Take(s, message) ==
  IF "battery" \in DOMAIN message THEN TakeLevel(s, message.battery, 1)
  ELSE IF message.link = "Up" THEN TakeUp(s) ELSE TakeDown(s)

\* The session after the messages up to each place of the report, oldest first.
TakenIn(heard) ==
  LET after[n \in 0..Capacity] ==
        IF n = 0 THEN Opened
        ELSE IF n \in DOMAIN heard THEN Take(after[n - 1], heard[n])
        ELSE after[n - 1]
  IN  after

\* A fetch leaves the bytes, and sets the count to nothing.
Emptied == frame' = [frame EXCEPT ![FRESH_LEN_OFFSET + 1] = 0] /\ said' = Nothing

\* A transfer fails, before or after the dongle counted it, and the poll is over.
FetchFails ==
  /\ ~fetched
  /\ session' = Opened
  /\ Emptied \/ UNCHANGED <<frame, said>>
  /\ calm' = 0
  /\ UNCHANGED <<dongleVars, fetched, last_link, absentAsks>>

\* The report is fetched and taken in.
Listen ==
  /\ ~fetched /\ fetched' = TRUE
  /\ session' = TakenIn(messages(frame))[Capacity]
  /\ Emptied
  /\ calm' = IF request THEN 0 ELSE UpTo(calm + 1, LongestCalm)
  /\ UNCHANGED <<dongleVars, last_link, absentAsks>>

\* The headset is asked if it is time to, and the poll is over.
Ask(written) ==
  LET goes == should_ask(session) /\ ~GivesUp(session) /\ written IN
  /\ fetched /\ fetched' = FALSE
  /\ session' = IF ~should_ask(session) THEN session
                ELSE IF GivesUp(session) THEN GivenUp(session)
                ELSE IF written THEN Asked(session) ELSE Counted(session)
  /\ request' = (goes \/ request)
  /\ absentAsks' = IF goes /\ ~linked THEN UpTo(absentAsks + 1, MostAbsentAsks)
                   ELSE absentAsks
  /\ calm' = IF should_ask(session) /\ ~written THEN 0 ELSE calm
  /\ UNCHANGED <<linked, changed, frame, said, last_link>>

-----------------------------------------------------------------------------
Init ==
  /\ linked \in BOOLEAN /\ changed = FALSE /\ request = FALSE
  /\ frame = EmptyFrame /\ said = Nothing
  /\ fetched = FALSE /\ session = None /\ last_link = "Unknown"
  /\ absentAsks = 0 /\ calm = 0

Next ==
  \/ Switch \/ Reenumerate \/ Respond \/ LoseRequest
  \/ FetchFails \/ Listen \/ \E written \in BOOLEAN : Ask(written)

Spec == Init /\ [][Next]_vars

-----------------------------------------------------------------------------
(* Properties. *)

TypeOK ==
  /\ linked \in BOOLEAN /\ changed \in BOOLEAN /\ request \in BOOLEAN
  /\ frame \in [1..MSG_SIZE -> 0..255] /\ fetched \in BOOLEAN
  /\ fetched => session # None
  /\ session \in Session \cup {None} /\ last_link \in Link
  /\ absentAsks \in 0..MostAbsentAsks /\ calm \in 0..LongestCalm

\* The messages found in a report are those written to it since it was last
\* fetched, each at its place, whatever else lies in it: no leftover, no
\* acknowledgement and no message cut short is among them (frame.rs:45-75).
HeardIsWhatWasSaid == messages(frame) = said

\* A headset that is gone, as the session was told, has been left no more than three
\* requests: one that was on its way as it left; one of the session that is told,
\* about to be written when it left or sent later in case its return is missed, but
\* not both; and one of the session that the re-enumeration opens
\* (maxwell/mod.rs:40-62, 324-331, session.rs:269-274).
GoneIsLeftAlone ==
  session # None /\ session.link = "Down" /\ ~linked => absentAsks <= 3

\* Once nothing has been lost for as long as the slow cadence takes, a linked
\* headset is handed out with its level, on the cable or off it, however its
\* announcement or its answers were missed before: the session does not settle for
\* an answer it never got, nor for a headset it gave up on.  One that it believes
\* gone is not covered: it asks that one once (maxwell/mod.rs:55-59,
\* session.rs:255-275).
MissedHeadsetsAreFound ==
  linked /\ calm = LongestCalm =>
    \A wired \in BOOLEAN : battery(session, wired).state # "Unavailable"
=============================================================================
