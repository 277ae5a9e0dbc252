------------------------------- MODULE Daemon -------------------------------
(***************************************************************************)
(* What the daemon's loop owes to others (src/src/bridge/mod.rs): to the   *)
(* service manager, a ping often enough and a prompt end; to whoever reads *)
(* the journal, the state that lasts and no other.  Bridge models what a   *)
(* poll does to the batteries; here a poll is how long it takes, what it   *)
(* announces, and how soon the next one comes.                             *)
(*                                                                         *)
(* Time passes in Pass alone, one REAP_INTERVAL at a time, and only while  *)
(* the loop is blocked: everything else is quick beside it.                *)
(***************************************************************************)
EXTENDS Source

CONSTANTS
  MaxWait,       \* the longest one wait
  Registration,  \* REGISTRATION_TIMEOUT, how long a registration may take
  MostHeadsets,  \* bound on the headsets with a level of one report
  SummarySettle  \* how long a new state has to last before it is announced

ASSUME LoopAssumption ==
  /\ MaxWait \in Nat \ {0}
  /\ Registration \in Nat
  /\ MostHeadsets \in Nat
  /\ SummarySettle \in Nat

VARIABLES
  phase,        \* "loop", "probe", "register", "armed", "wait", "ended", "died"
  stop,         \* the stop flag
  due,          \* time left before the next tick
  left,         \* time left of a wait, or of the registrations of a tick
  last_summary,
  unsettled,    \* [summary, age], or None
  sincePing,    \* time since the service manager last heard of the daemon
  stopFor,      \* time since the flag was raised
  heard,        \* history: what the last successful poll found
  heardFor      \* history: for how long the successful polls have found that

loopVars == <<phase, stop, due, left, last_summary, unsettled>>
historyVars == <<sincePing, stopFor, heard, heardFor>>
vars == <<runVars, sourceVars, loopVars, historyVars>>

Summaries == {"NoDevice", "NoBattery", "Offline", "Online"}

Ages == 0..(SummarySettle + Timeout)

Silent(headset) == headset.battery.state \in {"Unavailable", "Disconnected"}

\* Summary::of
SummaryOf(headsets) ==
  LET withBattery == {h \in headsets : h.supports_battery}
  IN  CASE headsets = {}                      -> "NoDevice"
        [] headsets # {} /\ withBattery = {}  -> "NoBattery"
        [] withBattery # {} /\ \A h \in withBattery : Silent(h) -> "Offline"
        [] OTHER                              -> "Online"

\* The headsets apply may have to attach: those with a level.
Attachable(headsets) ==
  {h \in headsets : h.supports_battery /\ h.battery.percent # None}

ASSUME ReportAssumption ==
  \A headsets \in {parse(report) : report \in Reports} \cup NativeReports \cup {{}} :
    Cardinality(Attachable(headsets)) \in 0..MostHeadsets

ASSUME SummaryAssumption ==
  None \notin Summaries /\ None \notin [summary : Summaries, age : Nat]

-----------------------------------------------------------------------------
(* announce, for a poll that started `elapsed` ago. *)

Pending(summary) == unsettled # None /\ unsettled.summary = summary

\* Not the code: a state that was already announced settles nothing.
BackToNormalUnnoticed(summary) ==
  IF last_summary = summary THEN unsettled
  ELSE IF ~Pending(summary) THEN [summary |-> summary, age |-> elapsed]
  ELSE IF unsettled.age - elapsed < SummarySettle THEN unsettled ELSE None

Unsettled(summary) ==
  IF last_summary = summary THEN None
  ELSE IF ~Pending(summary) THEN [summary |-> summary, age |-> elapsed]
  ELSE IF unsettled.age - elapsed < SummarySettle THEN unsettled ELSE None

announce(summary) ==
  /\ unsettled' = Unsettled(summary)
  /\ last_summary' = IF Pending(summary) /\ Unsettled(summary) = None
                     THEN summary ELSE last_summary
  /\ heard' = summary
  /\ heardFor' = IF heard = summary THEN heardFor ELSE elapsed

-----------------------------------------------------------------------------
(* run and tick. *)

Ping == sincePing' = 0

Loop ==
  /\ phase = "loop"
  /\ IF stop THEN phase' = "ended" /\ UNCHANGED sincePing
     ELSE IF due > 0 THEN phase' = "armed" /\ UNCHANGED sincePing
     ELSE phase' = "probe" /\ Ping
  /\ UNCHANGED <<runVars, sourceVars, stop, due, left, last_summary, unsettled,
                 stopFor, heard, heardFor>>

\* The poll is over but for its registrations, which may take n times their
\* timeout in all.
PollEnds(n) ==
  /\ phase' = "register"
  /\ left' = n * Registration
  /\ UNCHANGED <<stop, due, sincePing, stopFor>>

PollAnswers(headsets) ==
  /\ announce(SummaryOf(headsets))
  /\ \E n \in 0..Cardinality(Attachable(headsets)) : PollEnds(n)

\* A poll that failed or was cut short announces nothing.
PollFails ==
  /\ PollEnds(0)
  /\ UNCHANGED <<last_summary, unsettled, heard, heardFor>>

\* The native pass of a probe, and all of it when it answers.
NativePass(found) ==
  /\ phase = "probe" /\ runner = "idle"
  /\ ProbeNative(found)
  /\ IF AnswersNative(found)
     THEN PollAnswers(found) /\ UNCHANGED runVars
     ELSE (Spawn \/ SpawnFails) /\ UNCHANGED <<loopVars, historyVars>>

Running ==
  /\ phase = "probe"
  /\ \/ \E p \in Pipe : Write(p) \/ Drain(p)
     \/ \E process \in procs : Exit(process)
     \/ Reap
     \/ Cut(stop)
     \/ Sleep(stop)
     \/ LoseTheChild
  /\ UNCHANGED <<sourceVars, loopVars, historyVars>>

ControlAnswers ==
  /\ phase = "probe" /\ Joined
  /\ \E report \in Reports : PollAnswers(parse(report))
  /\ RunOver /\ UNCHANGED sourceVars

\* The run failed, or printed what cannot be parsed.
ControlFails ==
  /\ phase = "probe" /\ (runner = "failed" \/ Joined)
  /\ PollFails
  /\ RunOver /\ UNCHANGED sourceVars

\* The registrations are over, in whatever time the kernel took.  Whether a
\* battery is silent is Bridge's to say.
TickEnds ==
  /\ phase = "register"
  /\ phase' = "loop" /\ left' = 0
  /\ \E unanswered \in BOOLEAN : due' = next_delay(unanswered, native)
  /\ UNCHANGED <<runVars, sourceVars, stop, last_summary, unsettled, historyVars>>

\* Not the code: one wait lasts until the next tick.
WaitItOut == due

WaitLength == Least(due, MaxWait)

\* The wait itself starts after the flag was looked at.
EnterWait ==
  /\ phase = "armed"
  /\ phase' = "wait" /\ left' = WaitLength
  /\ UNCHANGED <<runVars, sourceVars, stop, due, last_summary, unsettled, historyVars>>

WaitEnds ==
  /\ phase = "wait" /\ left = 0
  /\ phase' = "loop" /\ Ping
  /\ UNCHANGED <<runVars, sourceVars, stop, due, left, last_summary, unsettled,
                 stopFor, heard, heardFor>>

\* The wait failed, and no battery is to blame: run returns the error.
WaitFails ==
  /\ phase = "wait"
  /\ phase' = "died"
  /\ UNCHANGED <<runVars, sourceVars, stop, due, left, last_summary, unsettled, historyVars>>

\* A signal raises the flag, and ends a wait that it finds going on.
Signal ==
  /\ phase \notin {"ended", "died"} /\ ~stop
  /\ stop' = TRUE
  /\ left' = IF phase = "wait" THEN 0 ELSE left
  /\ UNCHANGED <<runVars, sourceVars, phase, due, last_summary, unsettled, historyVars>>

Older(age) == Least(age + 1, SummarySettle + Timeout)

Pass ==
  /\ \/ phase = "probe" /\ RunPass /\ UNCHANGED <<due, left>>
     \/ /\ phase \in {"register", "wait"} /\ left > 0
        /\ left' = left - 1
        /\ due' = IF phase = "wait" THEN due - 1 ELSE due
        /\ UNCHANGED runVars
  /\ SourcePass
  /\ unsettled' = IF unsettled = None THEN None
                  ELSE [unsettled EXCEPT !.age = Older(@)]
  /\ sincePing' = sincePing + 1
  /\ stopFor' = IF stop THEN stopFor + 1 ELSE 0
  /\ heardFor' = Older(heardFor)
  /\ UNCHANGED <<phase, stop, last_summary, heard>>

Stay == phase \in {"ended", "died"} /\ UNCHANGED vars

Init ==
  /\ RunInit /\ SourceInit
  /\ phase = "loop" /\ stop = FALSE /\ due = 0 /\ left = 0
  /\ last_summary = None /\ unsettled = None
  /\ sincePing = 0 /\ stopFor = 0 /\ heard = None /\ heardFor = 0

Next ==
  \/ Loop
  \/ \E found \in NativeReports \cup {{}} : NativePass(found)
  \/ Running \/ ControlAnswers \/ ControlFails
  \/ TickEnds \/ EnterWait \/ WaitEnds \/ WaitFails
  \/ Signal \/ Pass \/ Stay

Spec == Init /\ [][Next]_vars

-----------------------------------------------------------------------------
(* Properties. *)

\* The type invariant of the loop, its source and the run of headsetcontrol.
TypeOK ==
  /\ RunTypeOK /\ SourceTypeOK
  /\ phase \in {"loop", "probe", "register", "armed", "wait", "ended", "died"}
  /\ stop \in BOOLEAN
  /\ due \in Nat /\ left \in Nat
  /\ last_summary \in Summaries \cup {None}
  /\ unsettled \in [summary : Summaries, age : Ages] \cup {None}
  /\ sincePing \in Nat /\ stopFor \in Nat
  /\ heard \in Summaries \cup {None} /\ heardFor \in Ages

\* A probe is cut off at --timeout, even when a wrapper was killed whose helper
\* never lets go of the pipes (headsetcontrol.rs:96-118, 150-159).
ReadingsAreShort == elapsed <= Timeout

\* The service manager hears of the daemon at least this often.  The bound is
\* weaker than the one of bridge/mod.rs:71-83, which counts one registration a
\* tick: tick attaches every headset that appears (438-446), and each registration
\* may time out.
PingsAreClose ==
  sincePing <= MaxWait + Timeout + MostHeadsets * Registration

StopBound == LET r == 1 + MostHeadsets * Registration
             IN  IF MaxWait >= r THEN MaxWait ELSE r

\* A stop request waits for one look at the child and the registrations of one
\* tick, or for the one wait it slipped into (bridge/mod.rs:66-69, 386-393).
StopIsPrompt == stopFor <= StopBound

\* While a dongle that vanished may be re-enumerating, the next poll is never
\* further off than a native one (source.rs:105-117).
ComingBackIsNoticed ==
  phase = "wait" /\ backend = "Auto" /\ dongle_is_coming_back => due <= NativeTick

\* A state is announced only when every successful poll for SummarySettle has
\* found it (bridge/mod.rs:464-479).
AnnouncedHasLasted ==
  [][last_summary' # last_summary =>
       heard = last_summary' /\ heardFor - elapsed >= SummarySettle]_vars

\* What the last successful poll found is announced, or is waiting for it since
\* the successful polls first agreed on it (bridge/mod.rs:459-481).
PendingIsWhatIsHeard ==
  unsettled = IF last_summary = heard THEN None
              ELSE [summary |-> heard, age |-> heardFor]
=============================================================================
