---------------------------- MODULE DaemonProofs ----------------------------
(***************************************************************************)
(* Proofs about Daemon: the shape of a run of headsetcontrol, the type     *)
(* invariant, then one inductive invariant for each of the clocks its      *)
(* properties bound.  Each is proved from those before it, so that a step  *)
(* is looked at for one purpose at a time.                                 *)
(***************************************************************************)
EXTENDS Daemon, TLAPS

ReportsOf == {parse(report) : report \in Reports} \cup NativeReports \cup {{}}

\* The time the registrations of one tick may take.
AllRegistrations == MostHeadsets * Registration

LEMMA Sums ==
  ASSUME NEW a \in Nat, NEW b \in Nat, NEW c \in Nat, NEW d \in Nat, a <= c, b <= d
  PROVE  a + b <= c + d
  OBVIOUS

LEMMA AllRegistrationsNat == AllRegistrations \in Nat
  BY LoopAssumption, SMT DEF AllRegistrations

\* What the end of a poll does to the clocks, whether it answered or not.
PollDone ==
  /\ phase' = "register"
  /\ left' \in Nat /\ left' <= AllRegistrations
  /\ UNCHANGED <<stop, due, sincePing, stopFor>>

LEMMA PollIsDone ==
  ASSUME NEW headsets \in ReportsOf, PollAnswers(headsets) \/ PollFails
  PROVE  PollDone
<1>1. ASSUME NEW n \in 0..MostHeadsets, PollEnds(n)
      PROVE  PollDone
  <2>1. n * Registration \in Nat /\ n * Registration <= MostHeadsets * Registration
    BY LoopAssumption, SMT
  <2>2. QED
    BY <1>1, <2>1 DEF PollEnds, PollDone, AllRegistrations
<1>2. CASE PollAnswers(headsets)
  <2>1. PICK n \in 0..Cardinality(Attachable(headsets)) : PollEnds(n)
    BY <1>2 DEF PollAnswers
  <2>2. Cardinality(Attachable(headsets)) \in 0..MostHeadsets
    BY ReportAssumption DEF ReportsOf
  <2>3. n \in 0..MostHeadsets
    BY <2>2, LoopAssumption
  <2>4. QED
    BY <1>1, <2>1, <2>3
<1>3. CASE PollFails
  BY <1>1, <1>3, LoopAssumption DEF PollFails
<1>4. QED
  BY <1>2, <1>3

\* A delay is a number, and short after a native poll.
LEMMA DelayBound ==
  ASSUME NEW unanswered \in BOOLEAN, NEW isNative \in BOOLEAN
  PROVE  /\ next_delay(unanswered, isNative) \in Nat
         /\ isNative => next_delay(unanswered, isNative) <= NativeTick
  BY PacingAssumption DEF next_delay, Regular, Least

LEMMA SummaryIsOne == ASSUME NEW headsets PROVE SummaryOf(headsets) \in Summaries
  BY DEF SummaryOf, Summaries

-----------------------------------------------------------------------------
(* The run of headsetcontrol. *)

\* The steps a run takes that leave its outcome to be taken.
RunStep ==
  \/ \E p \in Pipe : Write(p) \/ Drain(p)
  \/ \E process \in procs : Exit(process)
  \/ Reap \/ Cut(stop) \/ Sleep(stop) \/ LoseTheChild

Phases == {"loop", "probe", "register", "armed", "wait", "ended", "died"}

\* A run lives within a probe; what a process of it started is waited for by
\* its child, so a run that is joined has none left; and it is never asleep at
\* its deadline.
RunShape ==
  /\ phase \in Phases
  /\ phase # "probe" => runner = "idle"
  /\ runner = "idle" => elapsed = 0
  /\ "helper" \in procs => "child" \in procs
  /\ runner \in {"idle", "join", "failed"} => procs = {}
  /\ runner = "asleep" => elapsed < Timeout
  /\ elapsed <= Timeout

RunInv == RunTypeOK /\ RunShape

LEMMA RunStepKeeps ==
  ASSUME RunInv, phase = "probe", phase' = "probe", RunStep
  PROVE  RunInv' /\ UNCHANGED elapsed /\ (runner = "idle" => runner' = "idle")
<1> USE DEF RunInv, RunTypeOK, RunShape, Phases
<1>1. CASE \E p \in Pipe : Write(p) \/ Drain(p)
  <2>1. PICK p \in Pipe : Write(p) \/ Drain(p)
    BY <1>1
  <2>2. CASE Write(p)
    <3>1. written' \in [Pipe -> Nat]
      BY <2>2 DEF Write
    <3>2. QED
      BY <2>2, <3>1 DEF Write
  <2>3. CASE Drain(p)
    <3>1. read' \in [Pipe -> Nat]
      BY <2>3 DEF Drain
    <3>2. QED
      BY <2>3, <3>1 DEF Drain
  <2>4. QED
    BY <2>1, <2>2, <2>3
<1>2. CASE \E process \in procs : Exit(process)
  BY <1>2 DEF Exit
<1>3. CASE Reap
  BY <1>3 DEF Reap
<1>4. CASE Cut(stop)
  BY <1>4 DEF Cut, kill, Forget
<1>5. CASE Sleep(stop)
  BY <1>5, RunAssumption DEF Sleep
<1>6. CASE LoseTheChild
  BY <1>6 DEF LoseTheChild, Forget
<1>7. QED
  BY <1>1, <1>2, <1>3, <1>4, <1>5, <1>6 DEF RunStep

\* Time passes for a run only while it sleeps.
LEMMA RunPassSleeps ==
  ASSUME RunInv, RunPass
  PROVE  runner = "asleep"
  BY DEF RunInv, RunShape, RunPass, Blocked, Joined

LEMMA RunInvInductive == RunInv /\ [Next]_vars => RunInv'
<1> SUFFICES ASSUME RunInv, [Next]_vars
             PROVE  RunInv'
  OBVIOUS
<1> USE DEF RunInv, RunTypeOK, RunShape, Phases
<1>1. CASE Loop
  BY <1>1 DEF Loop, runVars
<1>2. ASSUME NEW found \in NativeReports \cup {{}}, NativePass(found)
      PROVE  RunInv'
  <2>1. CASE AnswersNative(found)
    <3>1. PollAnswers(found) /\ UNCHANGED runVars /\ phase = "probe" /\ runner = "idle"
      BY <1>2, <2>1 DEF NativePass
    <3>2. phase' = "register"
      BY <3>1 DEF PollAnswers, PollEnds
    <3>3. QED
      BY <3>1, <3>2 DEF runVars
  <2>2. CASE ~AnswersNative(found)
    BY <1>2, <2>2, RunAssumption DEF NativePass, Spawn, SpawnFails, loopVars
  <2>3. QED
    BY <2>1, <2>2
<1>3. CASE Running
  <2>1. phase = "probe" /\ phase' = "probe" /\ RunStep
    BY <1>3 DEF Running, RunStep, loopVars
  <2>2. QED
    BY <2>1, RunStepKeeps
<1>4. CASE ControlAnswers \/ ControlFails
  <2>1. phase' = "register"
    BY <1>4 DEF ControlAnswers, ControlFails, PollAnswers, PollFails, PollEnds
  <2>2. RunOver
    BY <1>4 DEF ControlAnswers, ControlFails
  <2>3. QED
    BY <2>1, <2>2, RunAssumption DEF RunOver, Forget
<1>5. CASE TickEnds \/ EnterWait \/ WaitEnds \/ WaitFails \/ Signal
  BY <1>5 DEF TickEnds, EnterWait, WaitEnds, WaitFails, Signal, runVars
<1>6. CASE Pass
  <2>1. CASE phase = "probe" /\ RunPass
    BY <1>6, <2>1, RunPassSleeps, RunAssumption DEF Pass, RunPass
  <2>2. CASE UNCHANGED runVars
    BY <1>6, <2>2 DEF Pass, runVars
  <2>3. QED
    BY <1>6, <2>1, <2>2 DEF Pass
<1>7. CASE Stay \/ UNCHANGED vars
  BY <1>7 DEF Stay, vars, runVars, loopVars
<1>8. QED
  BY <1>1, <1>2, <1>3, <1>4, <1>5, <1>6, <1>7 DEF Next

LEMMA RunInvHolds == Spec => []RunInv
<1>1. Init => RunInv
  BY RunAssumption DEF Init, RunInit, RunInv, RunTypeOK, RunShape, Phases
<1>2. QED
  BY <1>1, RunInvInductive, PTL DEF Spec

\* A probe is cut off at its timeout: the daemon sleeps through its deadline in
\* no state, and joins the threads of a run only when its processes are gone.
THEOREM ReadingsAreShortHolds == Spec => []ReadingsAreShort
<1>1. RunInv => ReadingsAreShort
  BY DEF RunInv, RunShape, ReadingsAreShort
<1>2. QED
  BY <1>1, RunInvHolds, PTL

-----------------------------------------------------------------------------
(* The type invariant. *)

\* The ages of a poll's announcement are bounded.
LEMMA AnnounceTyped ==
  ASSUME TypeOK, elapsed <= Timeout, NEW summary \in Summaries, announce(summary)
  PROVE  /\ unsettled' \in [summary : Summaries, age : Ages] \cup {None}
         /\ last_summary' \in Summaries \cup {None}
         /\ heard' \in Summaries /\ heardFor' \in Ages
<1>1. elapsed \in Ages
  BY RunAssumption, LoopAssumption DEF TypeOK, RunTypeOK, Ages
<1>2. unsettled' \in [summary : Summaries, age : Ages] \cup {None}
  BY <1>1 DEF announce, Unsettled, TypeOK
<1>3. QED
  BY <1>1, <1>2 DEF announce, TypeOK

LEMMA OlderTyped == ASSUME NEW age \in Ages PROVE Older(age) \in Ages
  BY RunAssumption, LoopAssumption DEF Ages, Older, Least

\* What a poll that answered does to the types.
LEMMA PollTyped ==
  ASSUME TypeOK, RunInv, RunTypeOK', SourceTypeOK', NEW headsets \in ReportsOf,
         PollAnswers(headsets) \/ PollFails
  PROVE  TypeOK'
<1>1. PollDone
  BY PollIsDone
<1>2. elapsed <= Timeout
  BY DEF RunInv, RunShape
<1>3. CASE PollAnswers(headsets)
  <2>1. announce(SummaryOf(headsets))
    BY <1>3 DEF PollAnswers
  <2>2. /\ unsettled' \in [summary : Summaries, age : Ages] \cup {None}
        /\ last_summary' \in Summaries \cup {None}
        /\ heard' \in Summaries /\ heardFor' \in Ages
    BY <2>1, <1>2, SummaryIsOne, AnnounceTyped
  <2>3. QED
    BY <1>1, <2>2 DEF PollDone, TypeOK
<1>4. CASE PollFails
  BY <1>1, <1>4 DEF PollDone, PollFails, TypeOK
<1>5. QED
  BY <1>3, <1>4

LEMMA SourceStep ==
  ASSUME SourceTypeOK, NEW found, ProbeNative(found)
  PROVE  SourceTypeOK'
<1>1. PacedNative(found) \in BOOLEAN
  BY DEF PacedNative, AnswersNative
<1>2. QED
  BY <1>1, SourceAssumption DEF SourceTypeOK, ProbeNative

\* A wait does not outlast the time left before the next tick.
WaitShape == phase = "wait" => left <= due

LEMMA TypeInductive ==
  TypeOK /\ WaitShape /\ RunInv /\ RunInv' /\ [Next]_vars => TypeOK'
<1> SUFFICES ASSUME TypeOK, WaitShape, RunInv, RunInv', [Next]_vars
             PROVE  TypeOK'
  OBVIOUS
<1>r. RunTypeOK'
  BY DEF RunInv
<1>1. CASE Loop
  BY <1>1, <1>r DEF Loop, Ping, TypeOK, SourceTypeOK, sourceVars
<1>2. ASSUME NEW found \in NativeReports \cup {{}}, NativePass(found)
      PROVE  TypeOK'
  <2>1. SourceTypeOK'
    BY <1>2, SourceStep DEF NativePass, TypeOK
  <2>2. CASE PollAnswers(found)
    BY <1>r, <2>1, <2>2, PollTyped DEF ReportsOf
  <2>3. CASE UNCHANGED <<loopVars, historyVars>>
    BY <1>r, <2>1, <2>3 DEF TypeOK, loopVars, historyVars
  <2>4. QED
    BY <1>2, <2>2, <2>3 DEF NativePass
<1>3. CASE Running
  BY <1>3, <1>r DEF Running, TypeOK, SourceTypeOK, sourceVars, loopVars, historyVars
<1>4. CASE ControlAnswers
  <2>1. PICK report \in Reports : PollAnswers(parse(report))
    BY <1>4 DEF ControlAnswers
  <2>2. SourceTypeOK'
    BY <1>4 DEF ControlAnswers, TypeOK, SourceTypeOK, sourceVars
  <2>3. parse(report) \in ReportsOf
    BY DEF ReportsOf
  <2>4. QED
    BY <1>r, <2>1, <2>2, <2>3, PollTyped
<1>5. CASE ControlFails
  <2>1. SourceTypeOK' /\ PollFails /\ {} \in ReportsOf
    BY <1>5 DEF ControlFails, TypeOK, SourceTypeOK, sourceVars, ReportsOf
  <2>2. QED
    BY <1>r, <2>1, PollTyped
<1>6. CASE TickEnds
  <2>1. due' \in Nat
    BY <1>6, DelayBound DEF TickEnds, TypeOK, SourceTypeOK
  <2>2. QED
    BY <1>6, <1>r, <2>1 DEF TickEnds, TypeOK, SourceTypeOK, sourceVars, historyVars
<1>7. CASE EnterWait
  <2>1. left' \in Nat
    BY <1>7, LoopAssumption DEF EnterWait, WaitLength, Least, TypeOK
  <2>2. QED
    BY <1>7, <1>r, <2>1 DEF EnterWait, TypeOK, SourceTypeOK, sourceVars, historyVars
<1>8. CASE WaitEnds \/ WaitFails \/ Signal
  <2>1. CASE WaitEnds
    BY <1>r, <2>1 DEF WaitEnds, Ping, TypeOK, SourceTypeOK, sourceVars
  <2>2. CASE WaitFails
    BY <1>r, <2>2 DEF WaitFails, TypeOK, SourceTypeOK, sourceVars, historyVars
  <2>3. CASE Signal
    BY <1>r, <2>3 DEF Signal, TypeOK, SourceTypeOK, sourceVars, historyVars
  <2>4. QED
    BY <1>8, <2>1, <2>2, <2>3
<1>9. CASE Pass
  <2>1. SourceTypeOK'
    BY <1>9, SourceAssumption, NoneAssumption DEF Pass, SourcePass, TypeOK, SourceTypeOK, Least
  <2>2. unsettled' \in [summary : Summaries, age : Ages] \cup {None}
    BY <1>9, OlderTyped DEF Pass, TypeOK
  <2>3. heardFor' \in Ages
    BY <1>9, OlderTyped DEF Pass, TypeOK
  <2>4. left' \in Nat /\ due' \in Nat
    BY <1>9 DEF Pass, TypeOK, WaitShape
  <2>q. QED
    BY <1>9, <1>r, <2>1, <2>2, <2>3, <2>4 DEF Pass, TypeOK
<1>10. CASE Stay \/ UNCHANGED vars
  BY <1>10, <1>r DEF Stay, vars, TypeOK, SourceTypeOK, sourceVars, loopVars, historyVars
<1>11. QED
  BY <1>1, <1>2, <1>3, <1>4, <1>5, <1>6, <1>7, <1>8, <1>9, <1>10 DEF Next

LEMMA WaitShapeInductive == TypeOK /\ WaitShape /\ [Next]_vars => WaitShape'
<1> SUFFICES ASSUME TypeOK, WaitShape, [Next]_vars
             PROVE  WaitShape'
  OBVIOUS
<1> USE DEF WaitShape
<1>1. CASE EnterWait
  BY <1>1, LoopAssumption DEF EnterWait, WaitLength, Least, TypeOK
<1>2. CASE Signal
  BY <1>2 DEF Signal, TypeOK
<1>3. CASE Pass
  BY <1>3 DEF Pass, TypeOK
<1>4. CASE Loop \/ TickEnds \/ WaitEnds \/ WaitFails
  BY <1>4 DEF Loop, TickEnds, WaitEnds, WaitFails
<1>5. CASE ControlAnswers \/ ControlFails
  BY <1>5 DEF ControlAnswers, ControlFails, PollAnswers, PollFails, PollEnds
<1>6. ASSUME NEW found \in NativeReports \cup {{}}, NativePass(found)
      PROVE  WaitShape'
  BY <1>6 DEF NativePass, PollAnswers, PollEnds, loopVars
<1>7. CASE Running \/ Stay \/ UNCHANGED vars
  BY <1>7 DEF Running, Stay, vars, loopVars
<1>8. QED
  BY <1>1, <1>2, <1>3, <1>4, <1>5, <1>6, <1>7 DEF Next

\* Every variable of the daemon keeps its type, the ages of what is not
\* announced yet included.
THEOREM TypeCorrect == Spec => []TypeOK
<1>1. Init => TypeOK /\ WaitShape
  <2> SUFFICES ASSUME Init PROVE TypeOK /\ WaitShape
    OBVIOUS
  <2>1. RunTypeOK
    BY DEF Init, RunInit, RunTypeOK
  <2>2. SourceTypeOK
    BY DEF Init, SourceInit, SourceTypeOK
  <2>3. 0 \in Ages
    BY RunAssumption, LoopAssumption DEF Ages
  <2>4. QED
    BY <2>1, <2>2, <2>3 DEF Init, TypeOK, WaitShape
<1>2. TypeOK /\ WaitShape /\ RunInv /\ RunInv' /\ [Next]_vars => (TypeOK /\ WaitShape)'
  BY TypeInductive, WaitShapeInductive
<1>3. QED
  BY <1>1, <1>2, RunInvHolds, PTL DEF Spec

LEMMA WaitShapeHolds == Spec => []WaitShape
<1>1. Init => WaitShape
  BY DEF Init, WaitShape
<1>2. QED
  BY <1>1, WaitShapeInductive, TypeCorrect, PTL DEF Spec

-----------------------------------------------------------------------------
(* The clocks of the service manager and of a stop request. *)

StateInv == TypeOK /\ RunInv

LEMMA StateInvHolds == Spec => []StateInv
  BY TypeCorrect, RunInvHolds, PTL DEF StateInv

\* The end of a poll, wherever it comes from.
LEMMA PollStep ==
  ASSUME (\E found \in NativeReports \cup {{}} : NativePass(found)) \/ ControlAnswers
         \/ ControlFails,
         ~UNCHANGED loopVars
  PROVE  PollDone /\ phase = "probe"
<1>1. CASE ControlFails
  <2>1. PollFails /\ {} \in ReportsOf
    BY <1>1 DEF ControlFails, ReportsOf
  <2>2. QED
    BY <1>1, <2>1, PollIsDone DEF ControlFails
<1>2. CASE ControlAnswers
  BY <1>2, PollIsDone DEF ControlAnswers, ReportsOf
<1>3. ASSUME NEW found \in NativeReports \cup {{}}, NativePass(found)
      PROVE  PollDone /\ phase = "probe"
  BY <1>3, PollIsDone DEF NativePass, ReportsOf
<1>4. QED
  BY <1>1, <1>2, <1>3

\* How long the service manager has not heard of the daemon, by what the loop
\* is at: a probe starts with a ping, and a wait ends with one.
PingClock ==
  /\ phase = "probe" => sincePing = elapsed
  /\ phase \in {"loop", "armed"} => sincePing <= Timeout + AllRegistrations
  /\ phase = "register" => sincePing + left <= Timeout + AllRegistrations
  /\ phase = "wait" => sincePing + left <= MaxWait + Timeout + AllRegistrations
  /\ sincePing <= MaxWait + Timeout + AllRegistrations

LEMMA PingClockInductive == PingClock /\ StateInv /\ [Next]_vars => PingClock'
<1> SUFFICES ASSUME PingClock, StateInv, [Next]_vars
             PROVE  PingClock'
  OBVIOUS
<1>t. /\ sincePing \in Nat /\ left \in Nat /\ due \in Nat /\ elapsed \in 0..Timeout
      /\ phase \in Phases /\ (phase # "probe" => elapsed = 0)
  BY RunAssumption DEF StateInv, TypeOK, RunInv, RunTypeOK, RunShape
<1>c. /\ MaxWait \in Nat /\ Timeout \in Nat /\ AllRegistrations \in Nat
  BY RunAssumption, LoopAssumption, AllRegistrationsNat
<1> USE DEF PingClock
<1>1. CASE Loop
  BY <1>1, <1>t, <1>c DEF Loop, Ping, runVars
<1>2. CASE PollDone /\ phase = "probe"
  <2>1. /\ phase' = "register" /\ sincePing' = sincePing
        /\ left' \in Nat /\ left' <= AllRegistrations
    BY <1>2 DEF PollDone
  <2>2. sincePing <= Timeout
    BY <1>2, <1>t, <1>c
  <2>3. sincePing' + left' <= Timeout + AllRegistrations
    BY <2>1, <2>2, <1>t, <1>c, Sums
  <2>4. sincePing' <= Timeout + AllRegistrations
    BY <2>1, <2>2, <1>t, <1>c
  <2>5. QED
    BY <2>1, <2>3, <2>4, <1>t, <1>c
<1>3. ASSUME NEW found \in NativeReports \cup {{}}, NativePass(found), UNCHANGED loopVars
      PROVE  PingClock'
  BY <1>3, <1>t, <1>c DEF NativePass, PollAnswers, PollEnds, Spawn, SpawnFails,
     loopVars, historyVars
<1>4. CASE Running
  <2>1. UNCHANGED elapsed
    BY <1>4 DEF Running, Write, Drain, Exit, Reap, Cut, Sleep, LoseTheChild
  <2>2. QED
    BY <1>4, <2>1, <1>t, <1>c DEF Running, loopVars, historyVars
<1>5. CASE (ControlAnswers \/ ControlFails) /\ UNCHANGED loopVars
  BY <1>5, <1>t DEF ControlAnswers, ControlFails, PollAnswers, PollFails, PollEnds, loopVars
<1>6. CASE TickEnds \/ WaitEnds \/ WaitFails
  BY <1>6, <1>t, <1>c DEF TickEnds, WaitEnds, WaitFails, Ping, historyVars
<1>7. CASE EnterWait
  BY <1>7, <1>t, <1>c DEF EnterWait, WaitLength, Least, historyVars
<1>8. CASE Signal
  BY <1>8, <1>t, <1>c DEF Signal, runVars, historyVars
<1>9. CASE Pass
  BY <1>9, <1>t, <1>c, RunInvInductive DEF Pass, RunPass, StateInv, RunInv, RunShape, Next
<1>10. CASE Stay \/ UNCHANGED vars
  BY <1>10, <1>t DEF Stay, vars, runVars, loopVars, historyVars
<1>11. QED
  BY <1>1, <1>2, <1>3, <1>4, <1>5, <1>6, <1>7, <1>8, <1>9, <1>10, PollStep DEF Next

\* The pings of the loop are never further apart than a wait, a reading, and
\* the registrations of all headsets of a report.
THEOREM PingsAreCloseHolds == Spec => []PingsAreClose
<1>1. Init => PingClock
  BY RunAssumption, LoopAssumption, AllRegistrationsNat DEF Init, RunInit, PingClock
<1>2. PingClock => PingsAreClose
  BY DEF PingClock, PingsAreClose, AllRegistrations
<1>3. QED
  BY <1>1, <1>2, PingClockInductive, StateInvHolds, PTL DEF Spec

\* How long a stop request has waited, by what the loop is at: what is left of
\* a wait or of the registrations counts as waited for.
StopClock ==
  /\ ~stop \/ phase = "armed" => stopFor = 0
  /\ phase = "probe" => stopFor <= 1
  /\ phase = "probe" /\ runner \in {"idle", "asleep"} => stopFor = 0
  /\ phase = "register" => stopFor + left <= 1 + AllRegistrations
  /\ phase = "wait" => stopFor + left <= MaxWait
  /\ stopFor <= StopBound

LEMMA StopBoundIs ==
  StopBound \in Nat /\ MaxWait <= StopBound /\ 1 + AllRegistrations <= StopBound
  BY LoopAssumption, AllRegistrationsNat DEF StopBound, AllRegistrations

LEMMA StopClockInductive == StopClock /\ StateInv /\ [Next]_vars => StopClock'
<1> SUFFICES ASSUME StopClock, StateInv, [Next]_vars
             PROVE  StopClock'
  OBVIOUS
<1>t. /\ stopFor \in Nat /\ left \in Nat /\ due \in Nat /\ stop \in BOOLEAN
      /\ phase \in Phases /\ (phase # "probe" => runner = "idle")
  BY DEF StateInv, TypeOK, RunInv, RunTypeOK, RunShape
<1>c. /\ MaxWait \in Nat \ {0} /\ AllRegistrations \in Nat
      /\ StopBound \in Nat /\ MaxWait <= StopBound /\ 1 + AllRegistrations <= StopBound
  BY LoopAssumption, AllRegistrationsNat, StopBoundIs
<1>b. StopBound' = StopBound
  BY DEF StopBound
<1> USE <1>b DEF StopClock
<1>1. CASE Loop
  BY <1>1, <1>t, <1>c DEF Loop, Ping, runVars
<1>2. CASE PollDone /\ phase = "probe"
  <2>1. /\ phase' = "register" /\ stopFor' = stopFor /\ stop' = stop
        /\ left' \in Nat /\ left' <= AllRegistrations
    BY <1>2 DEF PollDone
  <2>2. stopFor' + left' <= 1 + AllRegistrations
    BY <1>2, <2>1, <1>t, <1>c, Sums
  <2>3. QED
    BY <1>2, <2>1, <2>2, <1>t, <1>c
<1>3. ASSUME NEW found \in NativeReports \cup {{}}, NativePass(found), UNCHANGED loopVars
      PROVE  StopClock'
  BY <1>3, <1>t, <1>c DEF NativePass, PollAnswers, PollEnds, Spawn, SpawnFails,
     loopVars, historyVars
<1>4. CASE Running
  <2>1. CASE Sleep(stop)
    BY <1>4, <2>1, <1>t, <1>c DEF Running, Sleep, loopVars, historyVars
  <2>2. CASE ~Sleep(stop)
    <3>1. runner' \in {"idle", "asleep"} => runner' = runner
      BY <1>4, <2>2 DEF Running, Write, Drain, Exit, Reap, Cut, kill, LoseTheChild
    <3>2. QED
      BY <1>4, <3>1, <1>t, <1>c DEF Running, loopVars, historyVars
  <2>3. QED
    BY <2>1, <2>2
<1>5. CASE (ControlAnswers \/ ControlFails) /\ UNCHANGED loopVars
  BY <1>5, <1>t DEF ControlAnswers, ControlFails, PollAnswers, PollFails, PollEnds, loopVars
<1>6. CASE TickEnds \/ WaitEnds \/ WaitFails
  BY <1>6, <1>t, <1>c DEF TickEnds, WaitEnds, WaitFails, Ping, historyVars
<1>7. CASE EnterWait
  BY <1>7, <1>t, <1>c DEF EnterWait, WaitLength, Least, historyVars
<1>8. CASE Signal
  BY <1>8, <1>t, <1>c DEF Signal, runVars, historyVars
<1>9. CASE Pass
  <2>1. CASE phase = "probe" /\ RunPass
    <3>1. runner = "asleep" /\ runner' = "check"
      BY <2>1, RunPassSleeps DEF StateInv, RunPass
    <3>2. QED
      BY <1>9, <2>1, <3>1, <1>t, <1>c DEF Pass
  <2>2. CASE phase \in {"register", "wait"} /\ left > 0 /\ left' = left - 1
    BY <1>9, <2>2, <1>t, <1>c DEF Pass
  <2>3. QED
    BY <1>9, <2>1, <2>2 DEF Pass
<1>10. CASE Stay \/ UNCHANGED vars
  BY <1>10, <1>t DEF Stay, vars, runVars, loopVars, historyVars
<1>11. QED
  BY <1>1, <1>2, <1>3, <1>4, <1>5, <1>6, <1>7, <1>8, <1>9, <1>10, PollStep DEF Next

\* A stop request never waits longer than for one wait, or for one look at the
\* child and the registrations of one tick.
THEOREM StopIsPromptHolds == Spec => []StopIsPrompt
<1>1. Init => StopClock
  BY StopBoundIs DEF Init, RunInit, StopClock
<1>2. StopClock => StopIsPrompt
  BY DEF StopClock, StopIsPrompt
<1>3. QED
  BY <1>1, <1>2, StopClockInductive, StateInvHolds, PTL DEF Spec

-----------------------------------------------------------------------------
(* The pace of the polls while a dongle may be coming back. *)

\* headsetcontrol runs only while no dongle is coming back, and a poll that
\* found one coming back is followed by another at the native pace.
NativePace ==
  backend = "Auto" /\ dongle_is_coming_back =>
    /\ phase = "probe" => runner = "idle"
    /\ phase = "register" => native
    /\ phase \in {"loop", "armed", "wait"} => due <= NativeTick

LEMMA NativePaceInductive == NativePace /\ StateInv /\ [Next]_vars => NativePace'
<1> SUFFICES ASSUME NativePace, StateInv, [Next]_vars,
                    backend' = "Auto", dongle_is_coming_back'
             PROVE  NativePace'
  BY DEF NativePace
<1>t. /\ due \in Nat /\ left \in Nat /\ native \in BOOLEAN
      /\ phase \in Phases /\ (phase # "probe" => runner = "idle")
      /\ NativeTick \in Nat
  BY PacingAssumption DEF StateInv, TypeOK, SourceTypeOK, RunInv, RunShape
<1> USE DEF NativePace
<1>1. CASE Loop
  BY <1>1, <1>t DEF Loop, runVars, sourceVars, dongle_is_coming_back
<1>2. ASSUME NEW found \in NativeReports \cup {{}}, NativePass(found)
      PROVE  NativePace'
  <2>1. AnswersNative(found) => native'
    BY <1>2 DEF NativePass, ProbeNative, PacedNative
  <2>2. ~AnswersNative(found) => ~dongle_is_coming_back'
    BY <1>2 DEF NativePass, ProbeNative, AnswersNative, dongle_is_coming_back
  <2>3. phase' = "register"
    BY <1>2, <2>2 DEF NativePass, PollAnswers, PollEnds
  <2>4. QED
    BY <2>1, <2>2, <2>3
<1>3. CASE Running
  BY <1>3, <1>t DEF Running, Write, Drain, Exit, Reap, Cut, Sleep, LoseTheChild,
     sourceVars, loopVars, dongle_is_coming_back
<1>4. CASE ControlAnswers \/ ControlFails
  <2>1. runner # "idle" /\ phase = "probe"
    BY <1>4 DEF ControlAnswers, ControlFails, Joined
  <2>2. UNCHANGED sourceVars
    BY <1>4 DEF ControlAnswers, ControlFails
  <2>3. QED
    BY <2>1, <2>2 DEF sourceVars, dongle_is_coming_back
<1>5. CASE TickEnds
  BY <1>5, <1>t, DelayBound DEF TickEnds, sourceVars, dongle_is_coming_back
<1>6. CASE EnterWait \/ WaitEnds \/ WaitFails \/ Signal
  BY <1>6, <1>t DEF EnterWait, WaitEnds, WaitFails, Signal, runVars, sourceVars,
     dongle_is_coming_back
<1>7. CASE Pass
  <2>1. backend = "Auto" /\ dongle_is_coming_back
    BY <1>7, SourceAssumption, NoneAssumption DEF Pass, SourcePass, Least,
       dongle_is_coming_back, StateInv, TypeOK, SourceTypeOK
  <2>2. ~(phase = "probe" /\ RunPass)
    BY <2>1, RunPassSleeps DEF StateInv
  <2>3. QED
    BY <1>7, <1>t, <2>1, <2>2 DEF Pass, SourcePass
<1>8. CASE Stay \/ UNCHANGED vars
  BY <1>8 DEF Stay, vars, runVars, sourceVars, loopVars, dongle_is_coming_back
<1>9. QED
  BY <1>1, <1>2, <1>3, <1>4, <1>5, <1>6, <1>7, <1>8 DEF Next

\* While a dongle may be re-enumerating, the next poll is at most a native tick
\* away.
THEOREM ComingBackIsNoticedHolds == Spec => []ComingBackIsNoticed
<1>1. Init => NativePace
  BY DEF Init, SourceInit, NativePace, dongle_is_coming_back
<1>2. NativePace => ComingBackIsNoticed
  BY DEF NativePace, ComingBackIsNoticed
<1>3. QED
  BY <1>1, <1>2, NativePaceInductive, StateInvHolds, PTL DEF Spec

-----------------------------------------------------------------------------
(* The announcements. *)

\* The invariant: nothing was announced before something was heard.
Announcements ==
  PendingIsWhatIsHeard /\ (heard = None => last_summary = None)

\* A poll that answers leaves what it found announced or pending, and announces
\* nothing that has not lasted.
LEMMA AnnounceKeeps ==
  ASSUME TypeOK, Announcements, NEW summary \in Summaries, announce(summary)
  PROVE  /\ Announcements'
         /\ last_summary' # last_summary =>
              heard = last_summary' /\ heardFor - elapsed >= SummarySettle
<1>1. unsettled # None => unsettled = [summary |-> heard, age |-> heardFor]
  BY DEF Announcements, PendingIsWhatIsHeard
<1>2. [summary |-> summary, age |-> elapsed] # None
  BY SummaryAssumption DEF TypeOK, RunTypeOK
<1>3. heardFor \in Nat /\ elapsed \in Nat /\ SummarySettle \in Nat
  BY LoopAssumption, RunAssumption DEF TypeOK, RunTypeOK, Ages
<1>4. CASE last_summary = summary
  BY <1>1, <1>4, SummaryAssumption DEF announce, Unsettled, Pending, Announcements, PendingIsWhatIsHeard
<1>5. CASE last_summary # summary /\ ~Pending(summary)
  <2>1. unsettled' = [summary |-> summary, age |-> elapsed] /\ last_summary' = last_summary
    BY <1>5 DEF announce, Unsettled
  <2>2. heard # summary
    <3>1. [summary |-> summary, age |-> heardFor] # None
      BY <1>3, SummaryAssumption
    <3>2. QED
      BY <1>5, <3>1 DEF Pending, Announcements, PendingIsWhatIsHeard
  <2>3. QED
    BY <1>5, <2>1, <2>2, SummaryAssumption DEF announce, Announcements, PendingIsWhatIsHeard
<1>6. CASE last_summary # summary /\ Pending(summary)
  <2>1. heard = summary /\ unsettled # None /\ unsettled.age = heardFor
    BY <1>1, <1>6 DEF Pending
  <2>2. CASE heardFor - elapsed < SummarySettle
    BY <1>1, <1>6, <2>1, <2>2, SummaryAssumption DEF announce, Unsettled, Announcements, PendingIsWhatIsHeard
  <2>3. CASE ~(heardFor - elapsed < SummarySettle)
    BY <1>3, <1>6, <2>1, <2>3, SummaryAssumption DEF announce, Unsettled, Announcements, PendingIsWhatIsHeard
  <2>4. QED
    BY <2>2, <2>3
<1>7. QED
  BY <1>4, <1>5, <1>6

\* The same for any step.
LEMMA AnnouncementStep ==
  Announcements /\ StateInv /\ [Next]_vars =>
    /\ Announcements'
    /\ last_summary' # last_summary =>
         heard = last_summary' /\ heardFor - elapsed >= SummarySettle
<1> SUFFICES ASSUME Announcements, StateInv, [Next]_vars
             PROVE  /\ Announcements'
                    /\ last_summary' # last_summary =>
                         heard = last_summary' /\ heardFor - elapsed >= SummarySettle
  OBVIOUS
<1>t. TypeOK
  BY DEF StateInv
<1>1. ASSUME NEW headsets, announce(SummaryOf(headsets))
      PROVE  /\ Announcements'
             /\ last_summary' # last_summary =>
                  heard = last_summary' /\ heardFor - elapsed >= SummarySettle
  BY <1>1, <1>t, SummaryIsOne, AnnounceKeeps
<1>2. CASE UNCHANGED <<last_summary, unsettled, heard, heardFor>>
  BY <1>2 DEF Announcements, PendingIsWhatIsHeard
<1>3. CASE Pass
  <2>1. unsettled # None => unsettled.age = heardFor
    BY DEF Announcements, PendingIsWhatIsHeard
  <2>2. last_summary # heard => unsettled # None
    <3> SUFFICES ASSUME last_summary # heard
                 PROVE  unsettled # None
      OBVIOUS
    <3>1. heard \in Summaries /\ heardFor \in Nat
      BY <1>t DEF Announcements, TypeOK, Ages
    <3>2. QED
      BY <3>1, SummaryAssumption DEF Announcements, PendingIsWhatIsHeard
  <2>3. last_summary' = last_summary /\ heard' = heard /\ heardFor' = Older(heardFor)
    BY <1>3 DEF Pass
  <2>4. CASE last_summary = heard
    BY <1>3, <2>3, <2>4 DEF Pass, Announcements, PendingIsWhatIsHeard
  <2>5. CASE last_summary # heard
    <3>1. unsettled = [summary |-> heard, age |-> heardFor]
      BY <2>5 DEF Announcements, PendingIsWhatIsHeard
    <3>2. unsettled' = [summary |-> heard, age |-> Older(heardFor)]
      BY <1>3, <2>2, <2>5, <3>1 DEF Pass
    <3>3. QED
      BY <2>3, <2>5, <3>2 DEF Announcements, PendingIsWhatIsHeard
  <2>6. QED
    BY <2>4, <2>5
<1>4. ASSUME NEW found \in NativeReports \cup {{}}, NativePass(found)
      PROVE  \/ announce(SummaryOf(found))
             \/ UNCHANGED <<last_summary, unsettled, heard, heardFor>>
  BY <1>4 DEF NativePass, PollAnswers, loopVars, historyVars
<1>5. CASE ControlAnswers
  BY <1>1, <1>5 DEF ControlAnswers, PollAnswers
<1>6. CASE ControlFails \/ Running \/ Stay \/ UNCHANGED vars
  BY <1>2, <1>6 DEF ControlFails, PollFails, Running, Stay, vars, loopVars, historyVars
<1>7. CASE Loop \/ TickEnds \/ EnterWait \/ WaitEnds \/ WaitFails \/ Signal
  BY <1>2, <1>7 DEF Loop, TickEnds, EnterWait, WaitEnds, WaitFails, Signal, historyVars
<1>8. QED
  BY <1>1, <1>2, <1>3, <1>4, <1>5, <1>6, <1>7 DEF Next

LEMMA AnnouncementsHold == Spec => []Announcements
<1>1. Init => Announcements
  BY DEF Init, Announcements, PendingIsWhatIsHeard
<1>2. Announcements /\ StateInv /\ [Next]_vars => Announcements'
  BY AnnouncementStep
<1>3. QED
  BY <1>1, <1>2, StateInvHolds, PTL DEF Spec

\* What is not announced yet is pending since the successful polls first agreed
\* on it, so a state that lasts is announced by the first poll that sees it has.
THEOREM PendingIsWhatIsHeardHolds == Spec => []PendingIsWhatIsHeard
<1>1. Announcements => PendingIsWhatIsHeard
  BY DEF Announcements
<1>2. QED
  BY <1>1, AnnouncementsHold, PTL

\* Nothing is announced that the successful polls have not agreed on for long
\* enough.
THEOREM AnnouncedHasLastedHolds == Spec => AnnouncedHasLasted
<1>1. Announcements /\ StateInv /\ [Next]_vars =>
        [last_summary' # last_summary =>
           heard = last_summary' /\ heardFor - elapsed >= SummarySettle]_vars
  BY AnnouncementStep
<1>2. QED
  BY <1>1, AnnouncementsHold, StateInvHolds, PTL DEF Spec, AnnouncedHasLasted
=============================================================================
