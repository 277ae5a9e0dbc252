------------------------------- MODULE Bridge -------------------------------
(***************************************************************************)
(* The daemon's loop (src/src/bridge/mod.rs): it polls the headsets, keeps *)
(* one virtual battery in the kernel for each headset that answers, serves *)
(* those batteries until the next poll is due, and withdraws the batteries *)
(* of headsets that went quiet.                                            *)
(*                                                                         *)
(* One poll is: Poll, then one Apply... action per headset listed, in any  *)
(* order, then Sweep.  One tick of the code carries a single instant, so   *)
(* no time passes before Sweep; Sweep adds what the tick took.  After it,  *)
(* time passes one unit at a time in Elapse until the next poll is due.    *)
(* Time is kept as the age of each clock of a battery, so that a behaviour *)
(* of any length has finitely many states.                                 *)
(***************************************************************************)
EXTENDS Policy, DevicePool, FiniteSets

CONSTANTS
  Headset,             \* the entries a poll may list
  Key,                 \* what identifies a headset from poll to poll
  KeyOf,               \* the key of each entry; two dongles of a model share one
  Unacceptable,        \* keys whose identity the kernel can never accept
  MaxTick,             \* how long the readings and registrations of a poll take, at most
  AttachRetry,         \* how long after a failure a device is created again
  DeviceFailureLimit,  \* failures in a row that cost a device its place
  DisconnectSettle,    \* how long "the headset is gone" is not yet believed
  RepublishEvery       \* how often an unchanged level is pushed again

ASSUME KeyAssumption == /\ KeyOf \in [Headset -> Key]
                        /\ IsFiniteSet(Key)
                        /\ Unacceptable \subseteq Key

ASSUME DurationAssumption == /\ MaxTick \in Nat
                             /\ AttachRetry \in Nat \ {0}
                             /\ DeviceFailureLimit \in Nat \ {0}
                             /\ DisconnectSettle \in Nat
                             /\ RepublishEvery \in Nat \ {0}

VARIABLES
  pc,         \* "wait", "apply" (within a poll), "stopped" or "dead"
  native,     \* whether the native reader answered the last poll
  todo,       \* the entries of this poll not taken in yet
  battery,    \* the virtual battery of each key, None without one
  retry,      \* time left before a key's device may be created again
  abandoned,  \* keys never to be attached again
  remaining,  \* time left before the next poll
  stop        \* whether the service was asked to stop

vars == <<pc, native, todo, battery, retry, abandoned, remaining, stop, spare>>

-----------------------------------------------------------------------------
(* VirtualBattery.  device is the reading last given to the kernel; a      *)
(* clock's age is counted from the poll that set it; publishedAt stops     *)
(* counting at RepublishEvery, past which its value no longer matters.     *)

VirtualBattery ==
  [device : Reading, lastReading : Nat, lastSeen : Nat,
   silentSince : Clock, missingSince : Clock, goneSince : Clock,
   deferred : Percent \cup {None}, deferredSample : Sample \cup {None},
   publishedAt : 0..RepublishEvery, failures : 0..(DeviceFailureLimit - 1)]

ASSUME BatteryAssumption == None \notin VirtualBattery

Fresh(reading) ==
  [device |-> reading, lastReading |-> 0, lastSeen |-> 0,
   silentSince |-> None, missingSince |-> None, goneSince |-> None,
   deferred |-> None, deferredSample |-> None,
   publishedAt |-> 0, failures |-> 0]

Attached == {k \in Key : battery[k] # None}

Later(since, d) == IF since = None THEN None ELSE since + d

Aged(b, d) ==
  [b EXCEPT !.lastReading = @ + d, !.lastSeen = @ + d,
            !.silentSince = Later(@, d), !.missingSince = Later(@, d),
            !.goneSince = Later(@, d),
            !.publishedAt = Least(@ + d, RepublishEvery)]

\* Time passes for every clock but the one of the next poll.
PassTime(batteries, d) ==
  /\ battery' = [k \in Key |->
                   IF batteries[k] = None THEN None ELSE Aged(batteries[k], d)]
  /\ retry' = [k \in Key |-> IF retry[k] > d THEN retry[k] - d ELSE 0]

-----------------------------------------------------------------------------
Init ==
  /\ pc = "wait"
  /\ native = FALSE
  /\ todo = {}
  /\ battery = [k \in Key |-> None]
  /\ retry = [k \in Key |-> 0]
  /\ abandoned = {}
  /\ remaining = 0
  /\ stop = FALSE
  /\ PoolInit

\* A poll: some reader answered, or none could, and listed some entries that
\* have a battery to report.  A failed poll lists nothing.
Poll ==
  /\ pc = "wait" /\ remaining = 0 /\ ~stop
  /\ pc' = "apply"
  /\ native' \in BOOLEAN
  /\ todo' \in SUBSET Headset
  /\ UNCHANGED <<battery, retry, abandoned, remaining, stop, spare>>

\* The next entry of the poll.
Take(h) ==
  /\ pc = "apply" /\ h \in todo
  /\ todo' = todo \ {h}
  /\ UNCHANGED <<pc, native, remaining, stop>>

\* Not the code: the handle goes with the device.
ReleaseLosingHandle(k) ==
  /\ battery' = [battery EXCEPT ![k] = None]
  /\ UNCHANGED spare

\* Batteries.remove, then Uhid.release: the device is destroyed and its handle
\* is kept.
release(k) ==
  /\ battery' = [battery EXCEPT ![k] = None]
  /\ put_back(1)

-----------------------------------------------------------------------------
(* apply, up to the point where the headset gave a usable reading. *)

Seen(k) == IF battery[k] = None THEN None
           ELSE [battery[k] EXCEPT !.lastSeen = 0]

\* The headset is listed but does not answer.
ApplyUnavailable(h) ==
  LET k == KeyOf[h] IN
  /\ Take(h)
  /\ battery' = [battery EXCEPT ![k] = Seen(k)]
  /\ UNCHANGED <<retry, abandoned, spare>>

GoneFor(b) == For(b.goneSince)

\* Not the code: a headset that is gone is one that does not answer.
ApplyDisconnectedAsSilent(h) ==
  LET k == KeyOf[h] IN
  /\ native
  /\ Take(h)
  /\ battery' = [battery EXCEPT ![k] = Seen(k)]
  /\ UNCHANGED <<retry, abandoned, spare>>

\* The dongle says the headset is gone; only the native reader can tell.
ApplyDisconnected(h) ==
  LET k == KeyOf[h] IN
  /\ native
  /\ Take(h)
  /\ IF k \notin Attached
     THEN UNCHANGED <<battery, spare>>
     ELSE IF GoneFor(battery[k]) >= DisconnectSettle
     THEN release(k)
     ELSE /\ battery' = [battery EXCEPT ![k] =
                           [Seen(k) EXCEPT !.goneSince = note(@, FALSE)]]
          /\ UNCHANGED spare
  /\ UNCHANGED <<retry, abandoned>>

\* HeadsetControl says a headset without an entry is charging, but no level.
ApplyNoLevelYet(h) ==
  /\ ~native
  /\ KeyOf[h] \notin Attached
  /\ Take(h)
  /\ UNCHANGED <<battery, retry, abandoned, spare>>

-----------------------------------------------------------------------------
(* apply for a headset without an entry that gave a reading: attach, unless *)
(* an earlier failure stands in the way.                                    *)

\* Not the code: nothing but giving up stands in the way.
MayAttachAnyTime(k) == k \notin abandoned

MayAttach(k) == retry[k] = 0 /\ k \notin abandoned

ApplyNotNow(h) ==
  LET k == KeyOf[h] IN
  /\ k \notin Attached /\ ~MayAttach(k)
  /\ Take(h)
  /\ UNCHANGED <<battery, retry, abandoned, spare>>

AttachSucceeds(h, reading) ==
  LET k == KeyOf[h] IN
  /\ k \notin Attached /\ MayAttach(k)
  /\ k \notin Unacceptable
  /\ Take(h)
  /\ Acquire
  /\ battery' = [battery EXCEPT ![k] = Fresh(reading)]
  /\ UNCHANGED <<retry, abandoned>>

\* No handle is to be had, or the kernel refuses the device, or it builds no
\* power supply for it in time: try again in AttachRetry.
AttachFails(h) ==
  LET k == KeyOf[h] IN
  /\ k \notin Attached /\ MayAttach(k)
  /\ Take(h)
  /\ \/ MayBeRefused /\ UNCHANGED spare
     \/ k \notin Unacceptable /\ Borrow
  /\ retry' = [retry EXCEPT ![k] = AttachRetry]
  /\ UNCHANGED <<battery, abandoned>>

\* The identity is one the kernel can never accept: never try again.
AttachGivesUp(h) ==
  LET k == KeyOf[h] IN
  /\ k \notin Attached /\ MayAttach(k)
  /\ k \in Unacceptable
  /\ Take(h)
  /\ Borrow
  /\ abandoned' = abandoned \cup {k}
  /\ UNCHANGED <<battery, retry>>

-----------------------------------------------------------------------------
(* apply for a headset with an entry that gave a reading. *)

Answered(k) == [battery[k] EXCEPT !.lastSeen = 0, !.lastReading = 0,
                                  !.goneSince = None]

\* The readings a headset with an entry may give.  HeadsetControl runs anew
\* for each poll (no sample) and may report charging without a level, which
\* keeps the level last known.  The native reader caches the level: a reading
\* that is the deferred one again gives the deferred level again, while
\* whether the headset is on the cable is looked up on every poll.
Report(k) ==
  IF native
  THEN {[percent |-> p, charging |-> c, sample |-> s] :
          p \in Percent, c \in BOOLEAN, s \in Sample}
  ELSE {[percent |-> p, charging |-> c, sample |-> None] :
          p \in Percent, c \in BOOLEAN}

Genuine(k, report) ==
  report.sample # None /\ report.sample = battery[k].deferredSample
    => report.percent = battery[k].deferred

Opinion(k, report) ==
  second_opinion(battery[k].deferred, battery[k].deferredSample, report.sample)

Verdict(k, report) ==
  vet(battery[k].device, [percent |-> report.percent, charging |-> report.charging],
      Opinion(k, report))

ApplyDeferred(h, report) ==
  LET k == KeyOf[h] IN
  /\ k \in Attached /\ report \in Report(k) /\ Genuine(k, report)
  /\ Verdict(k, report) = "Defer"
  /\ Take(h)
  /\ battery' = [battery EXCEPT ![k] =
                   [Answered(k) EXCEPT !.deferred = report.percent,
                                       !.deferredSample = report.sample]]
  /\ UNCHANGED <<retry, abandoned, spare>>

\* vetted: the level to show, the published one again when the reading is held.
Level(k, report) ==
  IF Verdict(k, report) = "Hold" THEN battery[k].device
  ELSE [percent |-> report.percent, charging |-> report.charging]

\* Not the code: a reading that is believed leaves the deferred one in place.
SettledLeavingDoubt(k) == Answered(k)

Settled(k) == [Answered(k) EXCEPT !.deferred = None, !.deferredSample = None]

PushDue(k, level) ==
  level # battery[k].device \/ battery[k].publishedAt >= RepublishEvery

ApplyUnchanged(h, report) ==
  LET k == KeyOf[h] IN
  /\ k \in Attached /\ report \in Report(k) /\ Genuine(k, report)
  /\ Verdict(k, report) # "Defer"
  /\ ~PushDue(k, Level(k, report))
  /\ Take(h)
  /\ battery' = [battery EXCEPT ![k] = Settled(k)]
  /\ UNCHANGED <<retry, abandoned, spare>>

\* A push succeeds as far as the daemon can tell.
ApplyPushed(h, report) ==
  LET k == KeyOf[h] IN
  /\ k \in Attached /\ report \in Report(k) /\ Genuine(k, report)
  /\ Verdict(k, report) # "Defer"
  /\ PushDue(k, Level(k, report))
  /\ Take(h)
  /\ battery' = [battery EXCEPT ![k] =
                   [Settled(k) EXCEPT !.device = Level(k, report),
                                      !.publishedAt = 0, !.failures = 0]]
  /\ UNCHANGED <<retry, abandoned, spare>>

\* outcome of a failure: a strike, and the device is destroyed at the limit.
Struck(b) == [b EXCEPT !.failures = @ + 1]

\* Not the code: the headset may be attached again at once.
StrikeWithoutRetry(k, b) ==
  IF b.failures + 1 < DeviceFailureLimit
  THEN battery' = [battery EXCEPT ![k] = Struck(b)] /\ UNCHANGED <<retry, spare>>
  ELSE release(k) /\ UNCHANGED retry

\* Not the code: one failure more is put up with.
StrikeLate(k, b) ==
  IF b.failures < DeviceFailureLimit
  THEN battery' = [battery EXCEPT ![k] = Struck(b)] /\ UNCHANGED <<retry, spare>>
  ELSE release(k) /\ retry' = [retry EXCEPT ![k] = AttachRetry]

Strike(k, b) ==
  IF b.failures + 1 < DeviceFailureLimit
  THEN battery' = [battery EXCEPT ![k] = Struck(b)] /\ UNCHANGED <<retry, spare>>
  ELSE release(k) /\ retry' = [retry EXCEPT ![k] = AttachRetry]

\* A push fails; the device may have taken the level in or not.
ApplyPushFails(h, report) ==
  LET k == KeyOf[h] IN
  /\ k \in Attached /\ report \in Report(k) /\ Genuine(k, report)
  /\ Verdict(k, report) # "Defer"
  /\ PushDue(k, Level(k, report))
  /\ Take(h)
  /\ \E kept \in {battery[k].device, Level(k, report)} :
       Strike(k, [Settled(k) EXCEPT !.device = kept, !.publishedAt = 0])
  /\ UNCHANGED abandoned

-----------------------------------------------------------------------------
(* The end of a poll: note which batteries went unanswered, withdraw the   *)
(* ones past their grace, and choose when to poll again.                   *)

Noted(b) ==
  [b EXCEPT !.silentSince = note(@, b.lastReading = 0),
            !.missingSince = note(@, b.lastSeen = 0)]

Verdicted(b) == withdrawal(For(Noted(b).silentSince), For(Noted(b).missingSince))

Expired == {k \in Attached : Verdicted(battery[k]) # "Keep"}

Swept == [k \in Key |-> IF k \in Attached \ Expired THEN Noted(battery[k]) ELSE None]

Unanswered == \E k \in Attached \ Expired : Swept[k].silentSince # None

SweepAfter(spent) ==
  /\ pc = "apply" /\ todo = {}
  /\ PassTime(Swept, spent)
  /\ put_back(Cardinality(Expired))
  /\ pc' = "wait"
  /\ remaining' = next_delay(Unanswered, native)
  /\ UNCHANGED <<native, todo, abandoned, stop>>

Sweep == \E spent \in 0..MaxTick : SweepAfter(spent)

-----------------------------------------------------------------------------
(* Between polls. *)

Elapse ==
  /\ pc = "wait" /\ remaining > 0
  /\ remaining' = remaining - 1
  /\ PassTime(battery, 1)
  /\ UNCHANGED <<pc, native, todo, abandoned, stop, spare>>

\* Servicing a device fails.
ServeFails(k) ==
  /\ pc = "wait" /\ remaining > 0
  /\ k \in Attached
  /\ Strike(k, battery[k])
  /\ UNCHANGED <<pc, native, todo, abandoned, remaining, stop>>

RaiseStop ==
  /\ pc \in {"wait", "apply"} /\ ~stop
  /\ stop' = TRUE
  /\ UNCHANGED <<pc, native, todo, battery, retry, abandoned, remaining, spare>>

\* Not the code: the loop ends and leaves its devices to the process's end.
ShutdownKeepsEntries ==
  /\ pc = "wait" /\ stop
  /\ pc' = "stopped"
  /\ UNCHANGED <<native, todo, battery, retry, abandoned, remaining, stop, spare>>

\* The loop ends: every device is destroyed, and its handle with it.
Shutdown ==
  /\ pc = "wait" /\ stop
  /\ pc' = "stopped"
  /\ battery' = [k \in Key |-> None]
  /\ UNCHANGED <<native, todo, retry, abandoned, remaining, stop, spare>>

\* The wait itself fails, and the error ends the process; the kernel takes the
\* devices down as it closes their handles.
WaitFails ==
  /\ pc = "wait" /\ remaining > 0
  /\ pc' = "dead"
  /\ battery' = [k \in Key |-> None]
  /\ UNCHANGED <<native, todo, retry, abandoned, remaining, stop, spare>>

\* The service manager starts the daemon again, with handles opened afresh.
Restart ==
  /\ pc = "dead" /\ ~stop
  /\ pc' = "wait"
  /\ native' = FALSE
  /\ retry' = [k \in Key |-> 0]
  /\ abandoned' = {}
  /\ remaining' = 0
  /\ spare' = Inherited
  /\ UNCHANGED <<todo, battery, stop>>

Terminated ==
  /\ pc = "stopped" \/ (pc = "dead" /\ stop)
  /\ UNCHANGED vars

-----------------------------------------------------------------------------
Apply(h) ==
  \/ ApplyUnavailable(h)
  \/ ApplyDisconnected(h)
  \/ ApplyNoLevelYet(h)
  \/ ApplyNotNow(h)
  \/ \E reading \in Reading : AttachSucceeds(h, reading)
  \/ AttachFails(h)
  \/ AttachGivesUp(h)
  \/ \E report \in Report(KeyOf[h]) : \/ ApplyDeferred(h, report)
                                    \/ ApplyUnchanged(h, report)
                                    \/ ApplyPushed(h, report)
                                    \/ ApplyPushFails(h, report)

Next ==
  \/ Poll
  \/ \E h \in Headset : Apply(h)
  \/ Sweep
  \/ Elapse
  \/ \E k \in Key : ServeFails(k)
  \/ RaiseStop
  \/ Shutdown
  \/ WaitFails
  \/ Restart
  \/ Terminated

Spec == Init /\ [][Next]_vars

\* The code's loop is one thread that never blocks for good: each step it has
\* to take, it takes.  Nothing is assumed of the headsets, of the kernel, or of
\* a request to stop; the service manager restarts a daemon that died.
Fairness ==
  /\ WF_vars(Poll)
  /\ WF_vars(\E h \in Headset : Apply(h))
  /\ WF_vars(Sweep)
  /\ WF_vars(Elapse)
  /\ WF_vars(Shutdown)
  /\ WF_vars(Restart)

FairSpec == Spec /\ Fairness

-----------------------------------------------------------------------------
(* What must hold. *)

\* Every variable of the loop has its type; in particular no device survives
\* with DeviceFailureLimit strikes, and no retry is put off past AttachRetry.
TypeOK ==
  /\ pc \in {"wait", "apply", "stopped", "dead"}
  /\ native \in BOOLEAN
  /\ todo \subseteq Headset
  /\ battery \in [Key -> VirtualBattery \cup {None}]
  /\ retry \in [Key -> 0..AttachRetry]
  /\ abandoned \subseteq Key
  /\ remaining \in Nat
  /\ stop \in BOOLEAN
  /\ spare \in Nat

\* No handle is ever lost or invented: one passed by the service manager cannot
\* be opened again, so through every failure of attach, every withdrawal and
\* every destroyed device, each is either spare or under a device.  A daemon
\* that opens its own never holds more of them than there are headsets.
HandlesAccountedFor ==
  pc \in {"wait", "apply"} =>
    IF MayOpen THEN spare + Cardinality(Attached) <= Cardinality(Key)
               ELSE spare + Cardinality(Attached) = Inherited

\* A headset with an entry is not waiting to be attached again, and not one the
\* bridge has given up on: retry deadlines and entries exclude each other
\* across every path that sets or clears one.
AttachedIsUnencumbered ==
  \A k \in Attached : retry[k] = 0 /\ k \notin abandoned

\* A level in doubt is one that contradicts the level shown: whatever changes
\* the level shown, or finds it plausible, ends the doubt.
DoubtContradictsTheLevelShown ==
  \A k \in Attached :
    battery[k].deferred # None =>
      AbsDiff(battery[k].deferred, battery[k].device.percent) > MaxPlausibleStep

MaxRegular == IF NativeTick <= Interval THEN Interval ELSE NativeTick

\* An entry whose headset went quiet goes in seconds, whatever the regular pace
\* of the polls: the graces, the prompt retry and the order of note, expire and
\* next_delay leave at most one retry and one tick past the grace that applies.
QuietEntriesGo ==
  \A k \in Attached :
    /\ battery[k].missingSince # None =>
         battery[k].missingSince + remaining
           <= MissingGrace + MaxTick + UnansweredRetry
    /\ battery[k].missingSince = None /\ battery[k].silentSince # None =>
         battery[k].silentSince + remaining
           <= OfflineGrace + MaxTick + UnansweredRetry

\* What the desktop shows is never older than both graces, one regular gap
\* between polls and one prompt one: no pattern of missing and silent polls
\* keeps a level on show for longer.
ShownLevelIsRecent ==
  \A k \in Attached :
    battery[k].lastReading + remaining
      <= OfflineGrace + MissingGrace + MaxRegular + UnansweredRetry + 2 * MaxTick

\* While both readings are off the cable, the level shown never creeps up, and
\* a move of more than MaxPlausibleStep is only made when the reading before
\* disagreed with the level shown in the same way.
LevelMovesAreBelievable ==
  [][\A k \in Attached : battery'[k] # None =>
       LET old == battery[k].device
           new == battery'[k].device
       IN \/ /\ AbsDiff(old.percent, new.percent) <= MaxPlausibleStep
             /\ new.percent > old.percent => old.charging \/ new.charging
          \/ /\ battery[k].deferred # None
             /\ AbsDiff(battery[k].deferred, new.percent) <= ConfirmTolerance
    ]_vars

\* An entry only goes when the daemon ends, the dongle has been saying long
\* enough that the headset is gone, its device keeps failing, or no level came
\* for longer than the shorter of the graces: a lost reading does not make it
\* blink.
EntriesGoForCause ==
  [][\A k \in Attached : battery'[k] = None =>
       \/ pc' \in {"stopped", "dead"}
       \/ battery[k].failures + 1 = DeviceFailureLimit
       \/ GoneFor(battery[k]) >= DisconnectSettle
       \/ battery[k].lastReading > Least(OfflineGrace, MissingGrace)
    ]_vars

\* src/src/bridge/policy.rs:80: a headset that is missing is judged by the
\* missing grace alone; the offline grace only applies to one still listed.
MissingGraceHasItsSay ==
  [][\A k \in Attached : Sweep /\ k \in Expired /\ battery[k].lastSeen > 0
                        => For(battery[k].missingSince) > MissingGrace
    ]_vars

\* A request to stop ends the daemon, with no entry left behind.
StopEndsTheDaemon ==
  stop ~> pc \in {"stopped", "dead"} /\ Attached = {}

\* Again and again, each headset either has no entry or has just answered: none
\* keeps an entry for ever without answering.
QuietEntriesDoNotLast ==
  \A k \in Key : []<>(k \notin Attached \/ battery[k].lastReading = 0)
=============================================================================
