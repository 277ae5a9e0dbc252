-------------------------- MODULE BridgeClockProofs --------------------------
(***************************************************************************)
(* How long an entry outlives its headset's last answer, for every grace,  *)
(* pace and length of a poll.                                              *)
(*                                                                         *)
(* QuietEntriesGo and ShownLevelIsRecent bound clocks that start at        *)
(* different polls, so neither is inductive: Timely relates the clocks of  *)
(* one entry to each other and to the time left before the next poll.      *)
(***************************************************************************)
EXTENDS BridgeHistory, BridgeProofs

\* The clocks of an entry, with r left before the next poll.  A headset whose
\* silence is not being counted answered the last poll; its silence started at
\* the first poll it missed; a headset that is missing is silent too, and was
\* not silent past the offline grace when it went missing.
Timely(b, r) ==
  /\ b.lastSeen <= b.lastReading
  /\ b.silentSince = None =>
       /\ b.missingSince = None
       /\ b.lastReading + r <= MaxTick + MaxRegular
  /\ b.silentSince # None =>
       b.lastReading <= b.silentSince + MaxTick + MaxRegular
  /\ b.silentSince # None /\ b.missingSince = None =>
       b.silentSince + r <= OfflineGrace + MaxTick + UnansweredRetry
  /\ b.missingSince # None =>
       /\ b.missingSince <= b.silentSince
       /\ b.silentSince <= b.missingSince + OfflineGrace
       /\ b.missingSince + r <= MissingGrace + MaxTick + UnansweredRetry

\* A silence that is counted is not longer than the time without a reading; a
\* reading of the poll in progress has not ended it yet.
Counted(b, inPoll) ==
  b.silentSince # None => \/ inPoll /\ b.lastReading = 0
                          \/ b.silentSince <= b.lastReading

ClockInv ==
  /\ pc = "apply" => remaining = 0
  /\ \A k \in Attached : /\ Timely(battery[k], remaining)
                         /\ Counted(battery[k], pc = "apply")

\* What apply may do to the clocks of an entry: none of the conditions judged at
\* the end of the poll changes, and what was seen or read now is new.
KeepsClocks(b, c) ==
  /\ c.silentSince = b.silentSince
  /\ c.missingSince = b.missingSince
  /\ c.lastReading = b.lastReading \/ c.lastReading = 0
  /\ c.lastSeen = 0 \/ (c.lastSeen = b.lastSeen /\ c.lastReading = b.lastReading)

(* ----------------------------------------------------------------------- *)
(* One entry.                                                              *)

\* The clocks of a battery are durations, or do not run.
LEMMA ClockTypes ==
  ASSUME NEW b \in VirtualBattery
  PROVE  /\ b.lastReading \in Nat /\ b.lastSeen \in Nat
         /\ b.silentSince \in Nat \cup {None}
         /\ b.missingSince \in Nat \cup {None}
         /\ b.goneSince \in Nat \cup {None}
  BY DEF VirtualBattery, Clock

\* next_delay is at most the slower of the two paces, and at most the prompt
\* retry after an unanswered poll.
LEMMA RegularBounds ==
  ASSUME NEW unanswered \in BOOLEAN, NEW isNative \in BOOLEAN
  PROVE  /\ MaxRegular \in Nat
         /\ next_delay(unanswered, isNative) \in Nat
         /\ next_delay(unanswered, isNative) <= MaxRegular
         /\ unanswered => next_delay(unanswered, isNative) <= UnansweredRetry
  BY PacingAssumption DEF MaxRegular, next_delay, Least, Regular

\* Time passes between two polls.
LEMMA TimelyElapses ==
  ASSUME NEW b \in VirtualBattery, NEW r \in Nat, r > 0,
         Timely(b, r), Counted(b, FALSE)
  PROVE  Timely(Aged(b, 1), r - 1) /\ Counted(Aged(b, 1), FALSE)
<1> DEFINE c == Aged(b, 1)
<1>1. /\ c.lastReading = b.lastReading + 1
      /\ c.lastSeen = b.lastSeen + 1
      /\ c.silentSince = Later(b.silentSince, 1)
      /\ c.missingSince = Later(b.missingSince, 1)
  BY DEF Aged, VirtualBattery
<1>2. MaxRegular \in Nat
  BY RegularBounds
<1> HIDE DEF c
<1>3. Timely(c, r - 1)
  BY <1>1, <1>2, ClockTypes, NoneAssumption, GraceAssumption, DurationAssumption,
     PacingAssumption DEF Timely, Later
<1>4. Counted(c, FALSE)
  BY <1>1, ClockTypes, NoneAssumption DEF Counted, Later
<1>5. QED
  BY <1>3, <1>4 DEF c

\* A headset is taken in, whatever it said.
LEMMA TimelyKept ==
  ASSUME NEW b \in VirtualBattery, NEW c \in VirtualBattery,
         Timely(b, 0), Counted(b, TRUE), KeepsClocks(b, c)
  PROVE  Timely(c, 0) /\ Counted(c, TRUE)
<1>1. MaxRegular \in Nat
  BY RegularBounds
<1>2. c.lastReading <= b.lastReading
  BY ClockTypes DEF KeepsClocks
<1>3. c.lastSeen <= c.lastReading
  BY ClockTypes DEF KeepsClocks, Timely
<1>4. Timely(c, 0)
  BY <1>1, <1>2, <1>3, ClockTypes, NoneAssumption, GraceAssumption, DurationAssumption,
     PacingAssumption DEF Timely, KeepsClocks
<1>5. Counted(c, TRUE)
  BY ClockTypes DEF Counted, KeepsClocks
<1>6. QED
  BY <1>4, <1>5

\* A new entry was seen and read now.
LEMMA TimelyFresh ==
  ASSUME NEW reading \in Reading
  PROVE  Timely(Fresh(reading), 0) /\ Counted(Fresh(reading), TRUE)
<1>1. MaxRegular \in Nat
  BY RegularBounds
<1>2. QED
  BY <1>1, DurationAssumption DEF Timely, Counted, Fresh

\* A battery that keeps its entry at the end of a poll, which took spent and is
\* followed by another after r.
LEMMA TimelySwept ==
  ASSUME NEW b \in VirtualBattery, Timely(b, 0), Counted(b, TRUE),
         Verdicted(b) = "Keep",
         NEW spent \in 0..MaxTick, NEW r \in Nat, r <= MaxRegular,
         Noted(b).silentSince # None => r <= UnansweredRetry
  PROVE  /\ Timely(Aged(Noted(b), spent), r)
         /\ Counted(Aged(Noted(b), spent), FALSE)
<1> DEFINE n == Noted(b)
           c == Aged(n, spent)
<1>n. /\ n \in VirtualBattery
      /\ n.lastReading = b.lastReading
      /\ n.lastSeen = b.lastSeen
      /\ n.silentSince = note(b.silentSince, b.lastReading = 0)
      /\ n.missingSince = note(b.missingSince, b.lastSeen = 0)
  BY NotedType DEF Noted, VirtualBattery
<1>c. /\ c.lastReading = n.lastReading + spent
      /\ c.lastSeen = n.lastSeen + spent
      /\ c.silentSince = Later(n.silentSince, spent)
      /\ c.missingSince = Later(n.missingSince, spent)
  BY <1>n DEF Aged, VirtualBattery
<1>v. withdrawal(For(n.silentSince), For(n.missingSince)) = "Keep"
  BY DEF Verdicted
<1>m. MaxRegular \in Nat /\ spent \in Nat /\ spent <= MaxTick
  <2>1. MaxRegular \in Nat
    BY RegularBounds
  <2>2. QED
    BY <2>1, DurationAssumption
<1> HIDE DEF n, c
\* What note established, and what the verdict adds to it.
<1>1. /\ n.lastSeen <= n.lastReading
      /\ n.silentSince = None => n.lastReading = 0 /\ n.missingSince = None
      /\ n.silentSince # None =>
           /\ n.silentSince <= n.lastReading
           /\ n.lastReading <= n.silentSince + MaxTick + MaxRegular
  BY <1>n, <1>m, ClockTypes, NoneAssumption, DurationAssumption DEF note, Timely, Counted
<1>2. n.missingSince # None =>
        /\ n.silentSince # None
        /\ n.missingSince <= MissingGrace
        /\ n.missingSince <= n.silentSince
        /\ n.silentSince <= n.missingSince + OfflineGrace
  <2> SUFFICES ASSUME n.missingSince # None
               PROVE  /\ n.silentSince # None
                      /\ n.missingSince <= MissingGrace
                      /\ n.missingSince <= n.silentSince
                      /\ n.silentSince <= n.missingSince + OfflineGrace
    OBVIOUS
  <2>1. n.silentSince # None /\ n.silentSince \in Nat /\ n.missingSince \in Nat
    BY <1>1, <1>n, ClockTypes
  <2>2. n.missingSince <= MissingGrace
    BY <2>1, <1>v, GraceAssumption DEF withdrawal, For
  <2>3. CASE n.missingSince = 0
    BY <2>1, <2>2, <2>3, <1>v, GraceAssumption DEF withdrawal, For
  <2>4. CASE n.missingSince # 0
    <3>1. b.missingSince # None /\ n.missingSince = b.missingSince
      BY <2>4, <1>n DEF note
    <3>2. b.silentSince # None /\ n.silentSince = b.silentSince
      BY <3>1, <2>1, <1>n DEF note, Timely
    <3>3. QED
      BY <3>1, <3>2, <2>1, <2>2 DEF Timely
  <2>5. QED
    BY <2>3, <2>4
<1>3. n.missingSince = None /\ n.silentSince # None => n.silentSince <= OfflineGrace
  BY <1>v, <1>n, ClockTypes, GraceAssumption DEF withdrawal, For
<1>4. Timely(c, r)
  <2>1. c.silentSince = None <=> n.silentSince = None
    BY <1>c, <1>n, <1>m, ClockTypes, NoneAssumption DEF Later
  <2>2. c.missingSince = None <=> n.missingSince = None
    BY <1>c, <1>n, <1>m, ClockTypes, NoneAssumption DEF Later
  <2>3. c.lastSeen <= c.lastReading
    BY <1>c, <1>1, <1>n, <1>m, ClockTypes
  <2>4. CASE n.silentSince = None
    BY <2>1, <2>2, <2>3, <2>4, <1>c, <1>1, <1>m, DurationAssumption DEF Timely
  <2>5. CASE n.silentSince # None /\ n.missingSince = None
    <3>1. n.silentSince \in Nat /\ n.lastReading \in Nat /\ c.silentSince = n.silentSince + spent
      BY <2>5, <1>c, <1>n, ClockTypes DEF Later
    <3>2. r <= UnansweredRetry
      BY <2>5 DEF n
    <3>3. QED
      BY <2>1, <2>2, <2>3, <2>5, <3>1, <3>2, <1>c, <1>1, <1>3, <1>m, DurationAssumption,
         GraceAssumption, PacingAssumption DEF Timely
  <2>6. CASE n.missingSince # None
    <3>1. /\ n.silentSince \in Nat /\ n.missingSince \in Nat /\ n.lastReading \in Nat
          /\ c.silentSince = n.silentSince + spent
          /\ c.missingSince = n.missingSince + spent
      BY <2>6, <1>2, <1>c, <1>n, ClockTypes DEF Later
    <3>2. r <= UnansweredRetry
      BY <2>6, <1>2 DEF n
    <3>3. QED
      BY <2>1, <2>2, <2>3, <2>6, <3>1, <3>2, <1>c, <1>1, <1>2, <1>m, DurationAssumption,
         GraceAssumption, PacingAssumption DEF Timely
  <2>7. QED
    BY <2>4, <2>5, <2>6
<1>5. Counted(c, FALSE)
  BY <1>1, <1>c, <1>n, <1>m, ClockTypes, NoneAssumption DEF Counted, Later
<1>6. QED
  BY <1>4, <1>5 DEF n, c

(* ----------------------------------------------------------------------- *)
(* Every entry.                                                            *)

\* Within a poll an entry appears afresh, or keeps its clocks.
LEMMA ApplyEffect ==
  ASSUME TypeOK, NEW h \in Headset, Apply(h),
         NEW j \in Key, battery'[j] # None
  PROVE  \/ j \notin Attached /\ \E reading \in Reading : battery'[j] = Fresh(reading)
         \/ j \in Attached /\ KeepsClocks(battery[j], battery'[j])
<1> DEFINE k == KeyOf[h]
<1>k. k \in Key
  BY KeyAssumption
<1>j. j \in Attached => battery[j] \in VirtualBattery
  BY AnsweredType
<1>u. battery'[j] = battery[j] => j \in Attached /\ KeepsClocks(battery[j], battery'[j])
  BY DEF KeepsClocks, Attached
<1>1. CASE ApplyUnavailable(h)
  BY <1>1, <1>k, <1>j, <1>u, ClockTypes
     DEF ApplyUnavailable, Seen, KeepsClocks, TypeOK, VirtualBattery, Attached
<1>2. CASE ApplyDisconnected(h)
  <2>1. CASE j # k
    BY <1>2, <2>1, <1>u DEF ApplyDisconnected, release, TypeOK
  <2>2. CASE j = k
    <3>1. k \in Attached
      BY <1>2, <2>2, <1>u DEF ApplyDisconnected, release, Attached
    <3>2. battery'[k] = [Seen(k) EXCEPT !.goneSince = note(@, FALSE)]
      BY <1>2, <2>2, <3>1, <1>k DEF ApplyDisconnected, release, TypeOK
    <3>3. Seen(k) = [battery[k] EXCEPT !.lastSeen = 0]
      BY <3>1 DEF Seen, Attached
    <3>4. QED
      BY <2>2, <3>1, <3>2, <3>3, <1>j DEF KeepsClocks, VirtualBattery
  <2>3. QED
    BY <2>1, <2>2
<1>3. CASE ApplyNoLevelYet(h) \/ ApplyNotNow(h) \/ AttachFails(h) \/ AttachGivesUp(h)
  BY <1>3, <1>u DEF ApplyNoLevelYet, ApplyNotNow, AttachFails, AttachGivesUp
<1>4. ASSUME NEW reading \in Reading, AttachSucceeds(h, reading)
      PROVE  \/ j \notin Attached /\ \E r \in Reading : battery'[j] = Fresh(r)
             \/ j \in Attached /\ KeepsClocks(battery[j], battery'[j])
  BY <1>4, <1>u, <1>k DEF AttachSucceeds, TypeOK
\* A headset with an entry answered.
<1>5. ASSUME k \in Attached,
             NEW c, c = Answered(k) \/ c = Settled(k),
             NEW d, d.silentSince = c.silentSince, d.missingSince = c.missingSince,
             d.lastReading = c.lastReading, d.lastSeen = c.lastSeen
      PROVE  KeepsClocks(battery[k], d)
  <2>1. battery[k] \in VirtualBattery
    BY <1>5, AnsweredType
  <2>2. /\ Answered(k).silentSince = battery[k].silentSince
        /\ Answered(k).missingSince = battery[k].missingSince
        /\ Answered(k).lastReading = 0 /\ Answered(k).lastSeen = 0
    BY <2>1 DEF Answered, VirtualBattery
  <2>3. /\ Settled(k).silentSince = Answered(k).silentSince
        /\ Settled(k).missingSince = Answered(k).missingSince
        /\ Settled(k).lastReading = Answered(k).lastReading
        /\ Settled(k).lastSeen = Answered(k).lastSeen
    BY <1>5, AnsweredType DEF Settled, VirtualBattery
  <2>4. QED
    BY <1>5, <2>2, <2>3 DEF KeepsClocks
<1>6. ASSUME NEW report \in Report(k), ApplyDeferred(h, report)
      PROVE  j \in Attached /\ KeepsClocks(battery[j], battery'[j])
  <2> DEFINE d == [Answered(k) EXCEPT !.deferred = report.percent,
                                      !.deferredSample = report.sample]
  <2>1. k \in Attached /\ battery' = [battery EXCEPT ![k] = d]
    BY <1>6 DEF ApplyDeferred
  <2>2. /\ d.silentSince = Answered(k).silentSince
        /\ d.missingSince = Answered(k).missingSince
        /\ d.lastReading = Answered(k).lastReading
        /\ d.lastSeen = Answered(k).lastSeen
    BY <2>1, AnsweredType DEF VirtualBattery
  <2>3. KeepsClocks(battery[k], d)
    BY <1>5, <2>1, <2>2
  <2> HIDE DEF d
  <2>4. QED
    BY <2>1, <2>3, <1>k, <1>u DEF TypeOK
<1>7. ASSUME NEW report \in Report(k), ApplyUnchanged(h, report)
      PROVE  j \in Attached /\ KeepsClocks(battery[j], battery'[j])
  <2>1. k \in Attached /\ battery' = [battery EXCEPT ![k] = Settled(k)]
    BY <1>7 DEF ApplyUnchanged
  <2>2. KeepsClocks(battery[k], Settled(k))
    BY <1>5, <2>1
  <2>3. QED
    BY <2>1, <2>2, <1>k, <1>u DEF TypeOK
<1>8. ASSUME NEW report \in Report(k), ApplyPushed(h, report)
      PROVE  j \in Attached /\ KeepsClocks(battery[j], battery'[j])
  <2> DEFINE d == [Settled(k) EXCEPT !.device = Level(k, report),
                                     !.publishedAt = 0, !.failures = 0]
  <2>1. k \in Attached /\ battery' = [battery EXCEPT ![k] = d]
    BY <1>8 DEF ApplyPushed
  <2>2. /\ d.silentSince = Settled(k).silentSince
        /\ d.missingSince = Settled(k).missingSince
        /\ d.lastReading = Settled(k).lastReading
        /\ d.lastSeen = Settled(k).lastSeen
    BY <2>1, AnsweredType DEF VirtualBattery
  <2>3. KeepsClocks(battery[k], d)
    BY <1>5, <2>1, <2>2
  <2> HIDE DEF d
  <2>4. QED
    BY <2>1, <2>3, <1>k, <1>u DEF TypeOK
<1>9. ASSUME NEW report \in Report(k), ApplyPushFails(h, report)
      PROVE  j \in Attached /\ KeepsClocks(battery[j], battery'[j])
  <2>1. k \in Attached
    BY <1>9 DEF ApplyPushFails
  <2>2. PICK kept \in {battery[k].device, Level(k, report)} :
          Strike(k, [Settled(k) EXCEPT !.device = kept, !.publishedAt = 0])
    BY <1>9 DEF ApplyPushFails
  <2> DEFINE b == [Settled(k) EXCEPT !.device = kept, !.publishedAt = 0]
             d == Struck(b)
  <2>3. b \in VirtualBattery
    BY <1>9, <2>1, FailedPushType
  <2>4. IF j = k THEN battery'[j] = d ELSE battery'[j] = battery[j]
    BY <2>2, <2>3, <1>k, StrikeEffect
  <2>5. /\ d.silentSince = Settled(k).silentSince
        /\ d.missingSince = Settled(k).missingSince
        /\ d.lastReading = Settled(k).lastReading
        /\ d.lastSeen = Settled(k).lastSeen
    <3>1. Settled(k) \in VirtualBattery
      BY <2>1, AnsweredType
    <3>2. QED
      BY <3>1 DEF VirtualBattery, Struck
  <2>6. KeepsClocks(battery[k], d)
    BY <1>5, <2>1, <2>5
  <2> HIDE DEF b, d
  <2>7. QED
    BY <2>1, <2>4, <2>6, <1>u
<1>10. QED
  BY <1>1, <1>2, <1>3, <1>4, <1>6, <1>7, <1>8, <1>9 DEF Apply

\* Taking a headset in keeps the clocks of every entry related.
LEMMA ApplyClocks ==
  ASSUME TypeOK, ClockInv, NEW h \in Headset, Apply(h)
  PROVE  ClockInv'
<1>1. /\ pc = "apply" /\ remaining = 0
      /\ pc' = pc /\ remaining' = remaining
  <2>1. Take(h)
    BY DEF Apply, ApplyUnavailable, ApplyDisconnected, ApplyNoLevelYet, ApplyNotNow,
           AttachSucceeds, AttachFails, AttachGivesUp, ApplyDeferred, ApplyUnchanged,
           ApplyPushed, ApplyPushFails
  <2>2. QED
    BY <2>1 DEF Take, ClockInv
<1>2. TypeOK'
  BY ApplyType
<1>3. ASSUME NEW j \in Key, battery'[j] # None
      PROVE  Timely(battery'[j], 0) /\ Counted(battery'[j], TRUE)
  <2>1. CASE \E reading \in Reading : battery'[j] = Fresh(reading)
    BY <2>1, TimelyFresh
  <2>2. CASE j \in Attached /\ KeepsClocks(battery[j], battery'[j])
    <3>1. battery[j] \in VirtualBattery /\ battery'[j] \in VirtualBattery
      BY <1>2, <1>3, <2>2, AnsweredType DEF TypeOK
    <3>2. Timely(battery[j], 0) /\ Counted(battery[j], TRUE)
      BY <1>1, <2>2 DEF ClockInv
    <3>3. QED
      BY <2>2, <3>1, <3>2, TimelyKept
  <2>3. QED
    BY <1>3, <2>1, <2>2, ApplyEffect
<1>4. QED
  BY <1>1, <1>3 DEF ClockInv, Attached

\* note, expire and next_delay together establish the relation for the wait to
\* come.
LEMMA SweepClocks ==
  ASSUME TypeOK, ClockInv, NEW spent \in 0..MaxTick, SweepAfter(spent)
  PROVE  ClockInv'
<1>1. /\ pc = "apply" /\ remaining = 0 /\ pc' = "wait"
      /\ native \in BOOLEAN
      /\ remaining' = next_delay(Unanswered, native)
  BY DEF SweepAfter, ClockInv, TypeOK
<1>2. Unanswered \in BOOLEAN
  BY DEF Unanswered
<1>3. /\ remaining' \in Nat /\ remaining' <= MaxRegular
      /\ Unanswered => remaining' <= UnansweredRetry
  BY <1>1, <1>2, RegularBounds
<1>4. ASSUME NEW j \in Key, battery'[j] # None
      PROVE  Timely(battery'[j], remaining') /\ Counted(battery'[j], FALSE)
  <2>1. battery'[j] = Aged(Swept[j], spent) /\ Swept[j] # None
    BY <1>4 DEF SweepAfter, PassTime
  <2>2. j \in Attached \ Expired /\ Swept[j] = Noted(battery[j])
    BY <2>1 DEF Swept
  <2>3. battery[j] \in VirtualBattery
    BY <2>2, AnsweredType
  <2>4. Verdicted(battery[j]) = "Keep"
    BY <2>2 DEF Expired
  <2>5. Timely(battery[j], 0) /\ Counted(battery[j], TRUE)
    BY <1>1, <2>2 DEF ClockInv
  <2>6. Noted(battery[j]).silentSince # None => remaining' <= UnansweredRetry
    BY <1>3, <2>2 DEF Unanswered
  <2>7. QED
    BY <1>3, <2>1, <2>2, <2>3, <2>4, <2>5, <2>6, TimelySwept
<1>5. QED
  BY <1>1, <1>4 DEF ClockInv, Attached

\* The wait keeps it: what a clock gains, the next poll is closer by.
LEMMA ElapseClocks ==
  ASSUME TypeOK, ClockInv, Elapse
  PROVE  ClockInv'
<1>1. /\ pc = "wait" /\ pc' = "wait" /\ remaining \in Nat /\ remaining > 0
      /\ remaining' = remaining - 1
  BY DEF Elapse, TypeOK
<1>2. ASSUME NEW j \in Key, battery'[j] # None
      PROVE  Timely(battery'[j], remaining') /\ Counted(battery'[j], FALSE)
  <2>1. battery'[j] = Aged(battery[j], 1) /\ battery[j] # None
    BY <1>2 DEF Elapse, PassTime
  <2>2. j \in Attached /\ battery[j] \in VirtualBattery
    BY <2>1, AnsweredType DEF Attached
  <2>3. Timely(battery[j], remaining) /\ Counted(battery[j], FALSE)
    BY <1>1, <2>2 DEF ClockInv
  <2>4. QED
    BY <1>1, <2>1, <2>2, <2>3, TimelyElapses
<1>3. QED
  BY <1>1, <1>2 DEF ClockInv, Attached

\* Every step of the loop keeps the clocks related.
LEMMA ClockInvariant ==
  TypeOK /\ ClockInv /\ [Next]_vars => ClockInv'
<1> SUFFICES ASSUME TypeOK, ClockInv, [Next]_vars
             PROVE  ClockInv'
  OBVIOUS
<1>1. CASE Poll
  BY <1>1 DEF Poll, ClockInv, Attached, Counted
<1>2. ASSUME NEW h \in Headset, Apply(h)
      PROVE  ClockInv'
  BY <1>2, ApplyClocks
<1>3. CASE Sweep
  BY <1>3, SweepClocks DEF Sweep
<1>4. CASE Elapse
  BY <1>4, ElapseClocks
<1>5. ASSUME NEW k \in Key, ServeFails(k)
      PROVE  ClockInv'
  <2>1. /\ pc = "wait" /\ pc' = pc /\ remaining' = remaining
        /\ k \in Attached /\ Strike(k, battery[k])
        /\ battery[k] \in VirtualBattery
    BY <1>5, AnsweredType DEF ServeFails
  <2>2. /\ Struck(battery[k]).silentSince = battery[k].silentSince
        /\ Struck(battery[k]).missingSince = battery[k].missingSince
        /\ Struck(battery[k]).lastReading = battery[k].lastReading
        /\ Struck(battery[k]).lastSeen = battery[k].lastSeen
    BY <2>1 DEF Struck, VirtualBattery
  <2>3. ASSUME NEW j \in Key, battery'[j] # None
        PROVE  Timely(battery'[j], remaining) /\ Counted(battery'[j], FALSE)
    <3>1. CASE j = k
      <4>1. battery'[j] = Struck(battery[k])
        BY <2>1, <2>3, <3>1, StrikeEffect
      <4>2. Timely(battery[k], remaining) /\ Counted(battery[k], FALSE)
        BY <2>1 DEF ClockInv
      <4>3. QED
        BY <2>2, <4>1, <4>2 DEF Timely, Counted
    <3>2. CASE j # k
      <4>1. battery'[j] = battery[j]
        BY <2>1, <2>3, <3>2, StrikeEffect
      <4>2. QED
        BY <2>1, <2>3, <4>1 DEF ClockInv, Attached
    <3>3. QED
      BY <3>1, <3>2
  <2>4. QED
    BY <2>1, <2>3 DEF ClockInv, Attached
<1>6. CASE RaiseStop
  BY <1>6 DEF RaiseStop, ClockInv, Attached
<1>7. CASE Shutdown \/ WaitFails
  BY <1>7 DEF Shutdown, WaitFails, ClockInv, Attached
<1>8. CASE Restart
  <2>1. ASSUME NEW j \in Attached
        PROVE  Timely(battery[j], 0) /\ Counted(battery[j], FALSE)
    <3>1. battery[j] \in VirtualBattery /\ remaining \in Nat
      BY AnsweredType DEF TypeOK
    <3>2. Timely(battery[j], remaining) /\ Counted(battery[j], FALSE)
      BY <1>8 DEF Restart, ClockInv
    <3>3. MaxRegular \in Nat
      BY RegularBounds
    <3>4. Timely(battery[j], 0)
      BY <3>1, <3>2, <3>3, ClockTypes, NoneAssumption, GraceAssumption,
         DurationAssumption, PacingAssumption DEF Timely
    <3>5. QED
      BY <3>2, <3>4
  <2>2. QED
    BY <1>8, <2>1 DEF Restart, ClockInv, Attached
<1>9. CASE Terminated \/ UNCHANGED vars
  BY <1>9 DEF Terminated, vars, ClockInv, Attached
<1>10. QED
  BY <1>1, <1>2, <1>3, <1>4, <1>5, <1>6, <1>7, <1>8, <1>9 DEF Next

\* The clocks of every entry are related to each other and to the next poll, in
\* every state the loop of run and tick can reach.
THEOREM ClocksAgree == Spec => [](TypeOK /\ ClockInv)
<1>1. Init => ClockInv
  BY DEF Init, ClockInv, Attached
<1>2. TypeOK /\ ClockInv /\ [Next]_vars => ClockInv'
  BY ClockInvariant
<1>3. QED
  BY <1>1, <1>2, TypeCorrect, PTL DEF Spec

\* An entry whose headset went quiet is gone one prompt retry and one poll after
\* the grace that applies, whatever --interval is.
THEOREM QuietGoes == Spec => []QuietEntriesGo
<1>1. TypeOK /\ ClockInv => QuietEntriesGo
  BY DEF ClockInv, QuietEntriesGo, Timely
<1>2. QED
  BY <1>1, ClocksAgree, PTL

\* No pattern of missing and silent polls keeps a level on show for longer than
\* both graces, a regular gap, a prompt one and two polls.
THEOREM RecentLevels == Spec => []ShownLevelIsRecent
<1>1. TypeOK /\ ClockInv => ShownLevelIsRecent
  <2> SUFFICES ASSUME TypeOK, ClockInv, NEW k \in Attached
               PROVE  battery[k].lastReading + remaining
                        <= OfflineGrace + MissingGrace + MaxRegular + UnansweredRetry
                             + 2 * MaxTick
    BY DEF ShownLevelIsRecent
  <2> DEFINE b == battery[k]
  <2>1. b \in VirtualBattery /\ remaining \in Nat /\ Timely(b, remaining)
    BY AnsweredType DEF ClockInv, TypeOK
  <2>2. MaxRegular \in Nat
    BY RegularBounds
  <2>3. /\ b.lastReading \in Nat
        /\ b.silentSince \in Nat \cup {None}
        /\ b.missingSince \in Nat \cup {None}
    BY <2>1, ClockTypes
  <2> HIDE DEF b
  <2>4. b.lastReading + remaining
          <= OfflineGrace + MissingGrace + MaxRegular + UnansweredRetry + 2 * MaxTick
    <3>1. CASE b.silentSince = None
      BY <2>1, <2>2, <2>3, <3>1, GraceAssumption, PacingAssumption, DurationAssumption
         DEF Timely
    <3>2. CASE b.silentSince # None /\ b.missingSince = None
      BY <2>1, <2>2, <2>3, <3>2, GraceAssumption, PacingAssumption, DurationAssumption
         DEF Timely
    <3>3. CASE b.silentSince # None /\ b.missingSince # None
      BY <2>1, <2>2, <2>3, <3>3, GraceAssumption, PacingAssumption, DurationAssumption
         DEF Timely
    <3>4. QED
      BY <3>1, <3>2, <3>3
  <2>5. QED
    BY <2>4 DEF b
<1>2. QED
  BY <1>1, ClocksAgree, PTL

(* ----------------------------------------------------------------------- *)
(* Why an entry goes.                                                      *)

\* The causes of EntriesGoForCause, for the entry of k.
Cause(k) ==
  \/ pc' \in {"stopped", "dead"}
  \/ battery[k].failures + 1 = DeviceFailureLimit
  \/ GoneFor(battery[k]) >= DisconnectSettle
  \/ battery[k].lastReading > Least(OfflineGrace, MissingGrace)

\* A strike only destroys a device with all the others behind it.
LEMMA StrikeCause ==
  ASSUME TypeOK, NEW k \in Attached, NEW b \in VirtualBattery,
         b.failures = battery[k].failures, Strike(k, b),
         NEW j \in Attached, battery'[j] = None
  PROVE  j = k /\ battery[k].failures + 1 = DeviceFailureLimit
<1>1. j \in Key /\ k \in Key /\ battery[j] # None
  BY DEF Attached
<1>2. Struck(b) \in VirtualBattery => Struck(b) # None
  BY BatteryAssumption
<1>3. CASE b.failures + 1 < DeviceFailureLimit
  <2>1. Struck(b) \in VirtualBattery
    BY <1>3, DurationAssumption DEF Struck, VirtualBattery
  <2>2. QED
    BY <1>1, <1>2, <1>3, <2>1 DEF Strike, TypeOK
<1>4. CASE ~(b.failures + 1 < DeviceFailureLimit)
  <2>1. b.failures \in 0..(DeviceFailureLimit - 1)
    BY DEF VirtualBattery
  <2>2. b.failures + 1 = DeviceFailureLimit
    BY <1>4, <2>1, DurationAssumption
  <2>3. QED
    BY <1>1, <1>4, <2>2 DEF Strike, release, TypeOK
<1>5. QED
  BY <1>3, <1>4

\* Within a poll an entry only goes because its headset is gone, or its device
\* fails.
LEMMA ApplyCause ==
  ASSUME TypeOK, NEW h \in Headset, Apply(h), NEW j \in Attached, battery'[j] = None
  PROVE  Cause(j)
<1> DEFINE k == KeyOf[h]
<1>k. k \in Key /\ j \in Key /\ battery[j] # None
  BY KeyAssumption DEF Attached
<1>t. TypeOK'
  BY ApplyType
\* A battery in the place of k keeps every entry.
<1>b. ASSUME NEW c \in VirtualBattery, battery' = [battery EXCEPT ![k] = c]
      PROVE  FALSE
  BY <1>b, <1>k, BatteryAssumption DEF TypeOK
<1>1. CASE ApplyUnavailable(h)
  <2>1. j = k
    BY <1>1, <1>k DEF ApplyUnavailable, TypeOK
  <2>2. Seen(k) \in VirtualBattery
    BY <2>1, <1>k, SeenType, AnsweredType DEF Seen, VirtualBattery
  <2>3. QED
    BY <1>1, <1>b, <2>2 DEF ApplyUnavailable
<1>2. CASE ApplyDisconnected(h)
  <2>1. CASE GoneFor(battery[k]) >= DisconnectSettle /\ k \in Attached
    BY <1>2, <1>k, <2>1 DEF ApplyDisconnected, release, TypeOK, Cause
  <2>2. CASE k \notin Attached
    BY <1>2, <1>k, <2>2 DEF ApplyDisconnected
  <2>3. CASE ~(GoneFor(battery[k]) >= DisconnectSettle) /\ k \in Attached
    <3>1. Seen(k) = [battery[k] EXCEPT !.lastSeen = 0] /\ battery[k] \in VirtualBattery
      BY <2>3, AnsweredType DEF Seen, Attached
    <3>2. Seen(k) \in VirtualBattery
      BY <3>1 DEF VirtualBattery
    <3>3. note(Seen(k).goneSince, FALSE) \in Clock
      BY <3>2 DEF VirtualBattery, Clock, note
    <3>4. [Seen(k) EXCEPT !.goneSince = note(@, FALSE)] \in VirtualBattery
      BY <3>2, <3>3 DEF VirtualBattery
    <3>5. QED
      BY <1>2, <1>b, <2>3, <3>4 DEF ApplyDisconnected
  <2>4. QED
    BY <2>1, <2>2, <2>3
<1>3. CASE ApplyNoLevelYet(h) \/ ApplyNotNow(h) \/ AttachFails(h) \/ AttachGivesUp(h)
  BY <1>3, <1>k DEF ApplyNoLevelYet, ApplyNotNow, AttachFails, AttachGivesUp
<1>4. ASSUME NEW reading \in Reading, AttachSucceeds(h, reading)
      PROVE  FALSE
  BY <1>4, <1>b, FreshType DEF AttachSucceeds
<1>5. ASSUME NEW report \in Report(k),
             ApplyDeferred(h, report) \/ ApplyUnchanged(h, report) \/ ApplyPushed(h, report)
      PROVE  FALSE
  <2>1. k \in Attached
    BY <1>5 DEF ApplyDeferred, ApplyUnchanged, ApplyPushed
  <2>2. CASE j # k
    BY <1>5, <1>k, <2>2 DEF ApplyDeferred, ApplyUnchanged, ApplyPushed, TypeOK
  <2>3. CASE j = k
    <3>1. Answered(k) \in VirtualBattery /\ Settled(k) \in VirtualBattery
      BY <2>1, AnsweredType
    <3>2. report.percent \in Percent /\ report.sample \in Sample \cup {None}
          /\ Level(k, report) \in Reading
      BY <1>5, <2>1, LevelType
    <3>3. 0 \in 0..RepublishEvery /\ 0 \in 0..(DeviceFailureLimit - 1)
      BY DurationAssumption
    <3>4. CASE ApplyDeferred(h, report)
      <4>1. [Answered(k) EXCEPT !.deferred = report.percent,
                                !.deferredSample = report.sample] \in VirtualBattery
        BY <3>1, <3>2 DEF VirtualBattery
      <4>2. QED
        BY <1>b, <3>4, <4>1 DEF ApplyDeferred
    <3>5. CASE ApplyUnchanged(h, report)
      BY <1>b, <3>1, <3>5 DEF ApplyUnchanged
    <3>6. CASE ApplyPushed(h, report)
      <4>1. [Settled(k) EXCEPT !.device = Level(k, report),
                               !.publishedAt = 0, !.failures = 0] \in VirtualBattery
        BY <3>1, <3>2, <3>3 DEF VirtualBattery
      <4>2. QED
        BY <1>b, <3>6, <4>1 DEF ApplyPushed
    <3>7. QED
      BY <1>5, <3>4, <3>5, <3>6
  <2>4. QED
    BY <2>2, <2>3
<1>6. ASSUME NEW report \in Report(k), ApplyPushFails(h, report)
      PROVE  Cause(j)
  <2>1. k \in Attached
    BY <1>6 DEF ApplyPushFails
  <2>2. PICK kept \in {battery[k].device, Level(k, report)} :
          Strike(k, [Settled(k) EXCEPT !.device = kept, !.publishedAt = 0])
    BY <1>6 DEF ApplyPushFails
  <2> DEFINE b == [Settled(k) EXCEPT !.device = kept, !.publishedAt = 0]
  <2>3. b \in VirtualBattery
    BY <1>6, <2>1, FailedPushType
  <2>4. b.failures = battery[k].failures
    <3>1. battery[k] \in VirtualBattery /\ Answered(k) \in VirtualBattery
      BY <2>1, AnsweredType
    <3>2. Answered(k).failures = battery[k].failures
      BY <3>1 DEF Answered, VirtualBattery
    <3>3. Settled(k) \in VirtualBattery /\ Settled(k).failures = Answered(k).failures
      BY <2>1, <3>1, AnsweredType DEF Settled, VirtualBattery
    <3>4. QED
      BY <3>2, <3>3 DEF VirtualBattery
  <2>5. Strike(k, b)
    BY <2>2
  <2> HIDE DEF b
  <2>6. QED
    BY <2>1, <2>3, <2>4, <2>5, StrikeCause DEF Cause
<1>7. QED
  BY <1>1, <1>2, <1>3, <1>4, <1>5, <1>6 DEF Apply

\* What the end of a poll withdraws had no reading for longer than a grace.
LEMMA SweepSilence ==
  ASSUME TypeOK, ClockInv, NEW spent \in 0..MaxTick, SweepAfter(spent),
         NEW j \in Attached, battery'[j] = None
  PROVE  battery[j].lastReading > Least(OfflineGrace, MissingGrace)
<1> DEFINE b == battery[j]
           n == Noted(b)
<1>1. j \in Key /\ b # None /\ b \in VirtualBattery /\ n \in VirtualBattery
  BY AnsweredType, NotedType DEF Attached
<1>2. spent \in Nat
  BY DurationAssumption
<1>3. j \in Expired
  <2>1. SUFFICES ASSUME j \notin Expired
                 PROVE  FALSE
    OBVIOUS
  <2>2. Swept[j] = n /\ battery'[j] = Aged(n, spent)
    BY <2>1, <1>1, BatteryAssumption DEF Swept, SweepAfter, PassTime
  <2>3. QED
    BY <2>2, <1>1, <1>2, AgedType, BatteryAssumption
<1>4. withdrawal(For(n.silentSince), For(n.missingSince)) # "Keep"
  BY <1>3 DEF Expired, Verdicted
<1>5. /\ n.silentSince = note(b.silentSince, b.lastReading = 0)
      /\ n.missingSince = note(b.missingSince, b.lastSeen = 0)
  BY <1>1 DEF Noted, VirtualBattery
<1>6. Timely(b, 0) /\ Counted(b, TRUE)
  BY DEF ClockInv, SweepAfter
<1>7. /\ b.lastReading \in Nat /\ b.lastSeen \in Nat
      /\ b.silentSince \in Nat \cup {None} /\ b.missingSince \in Nat \cup {None}
  BY <1>1, ClockTypes
<1> HIDE DEF b, n
<1>8. /\ For(n.silentSince) \in Nat /\ For(n.silentSince) <= b.lastReading
      /\ For(n.missingSince) \in Nat /\ For(n.missingSince) <= b.lastReading
  BY <1>5, <1>6, <1>7, NoneAssumption DEF note, For, Timely, Counted
<1>9. b.lastReading > Least(OfflineGrace, MissingGrace)
  BY <1>4, <1>7, <1>8, GraceAssumption DEF withdrawal, Least
<1>10. QED
  BY <1>9 DEF b

\* A lost reading never makes an entry blink, whatever the graces: every entry
\* that goes has one of the four reasons.
THEOREM GoForCause == Spec => EntriesGoForCause
<1> DEFINE Caused == \A k \in Attached : battery'[k] = None => Cause(k)
<1>1. TypeOK /\ ClockInv /\ [Next]_vars => Caused
  <2> SUFFICES ASSUME TypeOK, ClockInv, [Next]_vars,
                      NEW k \in Attached, battery'[k] = None
               PROVE  Cause(k)
    OBVIOUS
  <2>0. k \in Key /\ battery[k] # None /\ battery[k] \in VirtualBattery
    BY AnsweredType DEF Attached
  <2>1. CASE Poll \/ RaiseStop \/ Restart \/ Terminated \/ UNCHANGED vars
    BY <2>0, <2>1 DEF Poll, RaiseStop, Restart, Terminated, vars
  <2>2. ASSUME NEW h \in Headset, Apply(h)
        PROVE  Cause(k)
    BY <2>2, ApplyCause
  <2>3. CASE Sweep
    BY <2>3, SweepSilence DEF Sweep, Cause
  <2>4. CASE Elapse
    <3>1. battery'[k] = Aged(battery[k], 1)
      BY <2>0, <2>4 DEF Elapse, PassTime
    <3>2. QED
      BY <2>0, <3>1, AgedType, BatteryAssumption
  <2>5. ASSUME NEW j \in Key, ServeFails(j)
        PROVE  Cause(k)
    <3>1. j \in Attached /\ battery[j] \in VirtualBattery /\ Strike(j, battery[j])
      BY <2>5, AnsweredType DEF ServeFails
    <3>2. QED
      BY <3>1, StrikeCause DEF Cause
  <2>6. CASE Shutdown \/ WaitFails
    BY <2>6 DEF Shutdown, WaitFails, Cause
  <2>7. QED
    BY <2>1, <2>2, <2>3, <2>4, <2>5, <2>6 DEF Next
<1>2. QED
  BY <1>1, ClocksAgree, PTL DEF Spec, EntriesGoForCause, Cause

-----------------------------------------------------------------------------
(* The bridge as its history remembers it: failures are spaced, and a      *)
(* dongle that keeps saying "gone" is believed.                            *)

\* The history only records: each step is one of the bridge.
LEMMA HistoryProjects ==
  ASSUME [RememberedNext]_allVars
  PROVE  [Next]_vars
<1>1. ASSUME NEW h \in Headset, RememberedApply(h)
      PROVE  Apply(h)
  BY <1>1 DEF RememberedApply, Apply
<1>2. CASE RememberedSweep
  BY <1>2 DEF RememberedSweep, Sweep, Next
<1>3. CASE RememberedElapse \/ RememberedRestart
  BY <1>3 DEF RememberedElapse, RememberedRestart, Next
<1>4. ASSUME NEW k \in Key, RememberedServeFails(k) \/ ServeSucceeds(k)
      PROVE  [Next]_vars
  BY <1>4 DEF RememberedServeFails, ServeSucceeds, Next
<1>5. QED
  BY <1>1, <1>2, <1>3, <1>4 DEF RememberedNext, Next, allVars

\* The types of the bridge hold with its history.
LEMMA RememberedType ==
  RememberedSpec => []TypeOK
<1>1. Init => TypeOK
  <2> SUFFICES ASSUME Init
               PROVE  TypeOK
    OBVIOUS
  <2>1. 0 \in 0..AttachRetry
    BY DurationAssumption
  <2>2. retry \in [Key -> 0..AttachRetry] /\ battery \in [Key -> VirtualBattery \cup {None}]
    BY <2>1 DEF Init
  <2>3. QED
    BY <2>2, InheritedAssumption DEF Init, PoolInit, TypeOK
<1>2. TypeOK /\ [RememberedNext]_allVars => TypeOK'
  BY HistoryProjects, TypeInvariant
<1>3. QED
  BY <1>1, <1>2, PTL DEF RememberedSpec

\* A strike takes an entry away only with a retry set.
LEMMA StrikeRetry ==
  ASSUME TypeOK, NEW k \in Key, NEW b \in VirtualBattery, Strike(k, b)
  PROVE  /\ \A j \in Key : j # k => retry'[j] = retry[j]
         /\ battery'[k] = None => retry'[k] = AttachRetry
         /\ battery'[k] # None => retry'[k] = retry[k]
<1>1. CASE b.failures + 1 < DeviceFailureLimit
  <2>1. Struck(b) \in VirtualBattery
    BY <1>1, DurationAssumption DEF Struck, VirtualBattery
  <2>2. battery'[k] = Struck(b) /\ retry' = retry
    BY <1>1 DEF Strike, TypeOK
  <2>3. QED
    BY <2>1, <2>2, BatteryAssumption
<1>2. CASE ~(b.failures + 1 < DeviceFailureLimit)
  BY <1>2 DEF Strike, release, TypeOK
<1>3. QED
  BY <1>1, <1>2

(* ----------------------------------------------------------------------- *)
(* Failures.                                                               *)

\* What is left of the retry and what has passed since the failure make up
\* AttachRetry.
Spaced == \A k \in Key : retry[k] + sinceTrouble[k] >= AttachRetry

SpacedInv == sinceTrouble \in [Key -> 0..AttachRetry] /\ Spaced

\* A failure that costs the device starts the count when it sets the retry.
LEMMA FailedSpaced ==
  ASSUME TypeOK, SpacedInv, NEW k \in Key, NEW b \in VirtualBattery,
         Strike(k, b), Failed(k)
  PROVE  SpacedInv'
<1>1. CASE battery'[k] = None
  <2>1. sinceTrouble' = [sinceTrouble EXCEPT ![k] = 0]
    BY <1>1 DEF Failed, Troubled
  <2>2. retry'[k] = AttachRetry /\ \A j \in Key : j # k => retry'[j] = retry[j]
    BY <1>1, StrikeRetry
  <2>3. QED
    BY <2>1, <2>2, DurationAssumption DEF SpacedInv, Spaced, TypeOK
<1>2. CASE battery'[k] # None
  <2>1. sinceTrouble' = sinceTrouble
    BY <1>2 DEF Failed
  <2>2. \A j \in Key : retry'[j] = retry[j]
    BY <1>2, StrikeRetry
  <2>3. QED
    BY <2>1, <2>2 DEF SpacedInv, Spaced
<1>3. QED
  BY <1>1, <1>2

\* Time moves from the one to the other.
LEMMA TimeSpaced ==
  ASSUME TypeOK, SpacedInv, NEW d \in Nat, NEW batteries,
         PassTime(batteries, d), RememberTime(d)
  PROVE  SpacedInv'
<1>1. ASSUME NEW k \in Key
      PROVE  /\ sinceTrouble'[k] \in 0..AttachRetry
             /\ retry'[k] + sinceTrouble'[k] >= AttachRetry
  <2>1. /\ retry'[k] = IF retry[k] > d THEN retry[k] - d ELSE 0
        /\ sinceTrouble'[k] = Least(sinceTrouble[k] + d, AttachRetry)
    BY DEF PassTime, RememberTime
  <2>2. retry[k] \in 0..AttachRetry /\ sinceTrouble[k] \in 0..AttachRetry
    BY DEF TypeOK, SpacedInv
  <2>3. retry[k] + sinceTrouble[k] >= AttachRetry
    BY DEF SpacedInv, Spaced
  <2>4. QED
    BY <2>1, <2>2, <2>3, DurationAssumption DEF Least
<1>2. sinceTrouble' \in [Key -> 0..AttachRetry]
  BY <1>1 DEF RememberTime
<1>3. QED
  BY <1>1, <1>2 DEF SpacedInv, Spaced

\* Taking a headset in sets a retry exactly when something failed.
LEMMA ApplySpaced ==
  ASSUME TypeOK, SpacedInv, NEW h \in Headset, RememberedApply(h)
  PROVE  SpacedInv'
<1> DEFINE k == KeyOf[h]
<1>k. k \in Key
  BY KeyAssumption
<1>1. CASE AttachFails(h) /\ Troubled(k)
  BY <1>1, <1>k, DurationAssumption DEF AttachFails, Troubled, SpacedInv, Spaced, TypeOK
<1>2. ASSUME NEW report \in Report(k), ApplyPushFails(h, report), Failed(k)
      PROVE  SpacedInv'
  <2>1. k \in Attached
    BY <1>2 DEF ApplyPushFails
  <2>2. PICK kept \in {battery[k].device, Level(k, report)} :
          Strike(k, [Settled(k) EXCEPT !.device = kept, !.publishedAt = 0])
    BY <1>2 DEF ApplyPushFails
  <2>3. [Settled(k) EXCEPT !.device = kept, !.publishedAt = 0] \in VirtualBattery
    BY <1>2, <2>1, FailedPushType
  <2>4. QED
    BY <1>k, <1>2, <2>2, <2>3, FailedSpaced
<1>3. CASE retry' = retry /\ sinceTrouble' = sinceTrouble
  BY <1>3 DEF SpacedInv, Spaced
<1>4. QED
  BY <1>1, <1>2, <1>3 DEF RememberedApply, ApplyDisconnected, ApplyUnavailable,
     ApplyNoLevelYet, ApplyNotNow, AttachGivesUp, AttachSucceeds, ApplyDeferred,
     ApplyUnchanged, ApplyPushed

\* Every step keeps the count.
LEMMA SpacedStep ==
  ASSUME TypeOK, SpacedInv, [RememberedNext]_allVars
  PROVE  SpacedInv'
<1>1. ASSUME NEW h \in Headset, RememberedApply(h)
      PROVE  SpacedInv'
  BY <1>1, ApplySpaced
<1>2. CASE RememberedSweep
  <2>1. PICK spent \in 0..MaxTick : SweepAfter(spent) /\ RememberTime(spent)
    BY <1>2 DEF RememberedSweep
  <2>2. spent \in Nat
    BY DurationAssumption
  <2>3. QED
    BY <2>1, <2>2, TimeSpaced DEF SweepAfter
<1>3. CASE RememberedElapse
  BY <1>3, TimeSpaced DEF RememberedElapse, Elapse
<1>4. ASSUME NEW k \in Key, RememberedServeFails(k)
      PROVE  SpacedInv'
  BY <1>4, AnsweredType, FailedSpaced DEF RememberedServeFails, ServeFails
<1>5. CASE RememberedRestart
  BY <1>5, DurationAssumption DEF RememberedRestart, Restart, SpacedInv, Spaced
<1>6. CASE retry' = retry /\ sinceTrouble' = sinceTrouble
  BY <1>6 DEF SpacedInv, Spaced
<1>7. ASSUME NEW k \in Key, ServeSucceeds(k)
      PROVE  SpacedInv'
  BY <1>6, <1>7 DEF ServeSucceeds, vars
<1>8. CASE (Poll \/ RaiseStop \/ Shutdown \/ WaitFails \/ Terminated) /\ UNCHANGED history
  BY <1>6, <1>8 DEF Poll, RaiseStop, Shutdown, WaitFails, Terminated, history, vars
<1>9. CASE UNCHANGED allVars
  BY <1>6, <1>9 DEF allVars, vars, history
<1>10. QED
  BY <1>1, <1>2, <1>3, <1>4, <1>5, <1>7, <1>8, <1>9 DEF RememberedNext

\* An attempt to create a device comes AttachRetry after the last failure, on
\* whichever path of apply, outcome and wait that failure was met, for every
\* number of headsets and every duration (src/src/bridge/mod.rs:32-38).
THEOREM FailuresSpaced == RememberedSpec => FailuresAreSpaced
<1>1. Init /\ HistoryInit => SpacedInv
  BY DurationAssumption DEF Init, HistoryInit, SpacedInv, Spaced
<1>2. TypeOK /\ SpacedInv /\ [RememberedNext]_allVars => SpacedInv'
  BY SpacedStep
<1>3. SpacedInv /\ TypeOK =>
        \A h \in Headset :
          AttachFails(h) \/ (\E reading \in Reading : AttachSucceeds(h, reading))
            => sinceTrouble[KeyOf[h]] >= AttachRetry
  <2> SUFFICES ASSUME SpacedInv, TypeOK, NEW h \in Headset,
                      AttachFails(h) \/ (\E reading \in Reading : AttachSucceeds(h, reading))
               PROVE  sinceTrouble[KeyOf[h]] >= AttachRetry
    OBVIOUS
  <2>1. retry[KeyOf[h]] = 0 /\ KeyOf[h] \in Key
    BY KeyAssumption DEF AttachFails, AttachSucceeds, MayAttach
  <2>2. sinceTrouble[KeyOf[h]] \in 0..AttachRetry
    BY <2>1 DEF SpacedInv
  <2>3. QED
    BY <2>1, <2>2, DurationAssumption DEF SpacedInv, Spaced
<1>4. QED
  BY <1>1, <1>2, <1>3, RememberedType, PTL DEF RememberedSpec, FailuresAreSpaced

(* ----------------------------------------------------------------------- *)
(* A dongle that says that its headset is gone.                            *)

GoneBound == DisconnectSettle + NativeTick + MaxTick

\* What an entry's clocks remember of the announcement that stands.
Remembers(k) ==
  /\ battery[k].goneSince # None /\ saidGone[k] <= battery[k].goneSince
  /\ battery[k].missingSince = None => saidGone[k] + remaining <= GoneBound
  /\ pc = "apply" /\ battery[k].lastSeen = 0 => native /\ saidGone[k] <= DisconnectSettle

\* Between two polls every entry grows older, so that one seen "just now" within
\* a poll was listed by it.
GoneInv ==
  /\ saidGone \in [Key -> Clock]
  /\ pc = "apply" => remaining = 0
  /\ pc = "wait" /\ remaining = 0 => \A k \in Attached : battery[k].lastSeen > 0
  /\ pc \in {"stopped", "dead"} => Attached = {}
  /\ \A k \in Attached : saidGone[k] # None => Remembers(k)

\* Nothing changes for the other keys when a headset is taken in.
LEMMA OthersRemember ==
  ASSUME GoneInv, NEW k \in Key, pc = "apply",
         UNCHANGED <<pc, native, remaining>>,
         saidGone' \in [Key -> Clock],
         \A j \in Key : j # k => battery'[j] = battery[j] /\ saidGone'[j] = saidGone[j],
         battery'[k] # None /\ saidGone'[k] # None => Remembers(k)'
  PROVE  GoneInv'
<1>1. ASSUME NEW j \in Attached', saidGone'[j] # None
      PROVE  Remembers(j)'
  <2>1. CASE j = k
    BY <1>1, <2>1 DEF Attached
  <2>2. CASE j # k
    <3>1. j \in Attached /\ battery'[j] = battery[j] /\ saidGone'[j] = saidGone[j]
      BY <1>1, <2>2 DEF Attached
    <3>2. Remembers(j)
      BY <1>1, <3>1 DEF GoneInv
    <3>3. QED
      BY <3>1, <3>2 DEF Remembers
  <2>3. QED
    BY <2>1, <2>2
<1>2. QED
  BY <1>1 DEF GoneInv

\* An announcement starts the entry's clock, or finds it younger than
\* DisconnectSettle; otherwise the entry goes.
LEMMA DisconnectedRemembers ==
  ASSUME TypeOK, GoneInv, NEW h \in Headset, ApplyDisconnected(h), SaidGone(KeyOf[h])
  PROVE  GoneInv'
<1> DEFINE k == KeyOf[h]
<1>k. k \in Key
  BY KeyAssumption
<1>1. pc = "apply" /\ native /\ UNCHANGED <<pc, native, remaining>>
  BY DEF ApplyDisconnected, Take
<1>2. /\ saidGone' \in [Key -> Clock]
      /\ \A j \in Key : j # k => saidGone'[j] = saidGone[j]
      /\ saidGone'[k] = IF saidGone[k] = None THEN 0 ELSE saidGone[k]
  BY <1>k DEF SaidGone, note, GoneInv, Clock
<1>3. \A j \in Key : j # k => battery'[j] = battery[j]
  BY DEF ApplyDisconnected, release, TypeOK
<1>4. ASSUME battery'[k] # None
      PROVE  Remembers(k)'
  <2>1. k \in Attached
    BY <1>k, <1>4 DEF ApplyDisconnected, Attached
  <2>2. battery[k] \in VirtualBattery
    BY <2>1, AnsweredType
  <2>3. ~(GoneFor(battery[k]) >= DisconnectSettle)
    BY <1>k, <1>4, <2>1 DEF ApplyDisconnected, release, TypeOK
  <2>4. battery'[k] = [[battery[k] EXCEPT !.lastSeen = 0]
                         EXCEPT !.goneSince = note(@, FALSE)]
    BY <1>k, <2>1, <2>3 DEF ApplyDisconnected, Seen, Attached, TypeOK
  <2>5. /\ battery'[k].goneSince = note(battery[k].goneSince, FALSE)
        /\ battery'[k].missingSince = battery[k].missingSince
    BY <2>2, <2>4 DEF VirtualBattery
  <2>6. CASE saidGone[k] = None
    <3>1. saidGone'[k] = 0 /\ battery'[k].goneSince \in Nat
      BY <1>2, <2>2, <2>5, <2>6 DEF note, VirtualBattery, Clock
    <3>2. remaining = 0
      BY <1>1 DEF GoneInv
    <3>3. 0 <= DisconnectSettle /\ 0 <= GoneBound
      BY DurationAssumption, PacingAssumption DEF GoneBound
    <3>4. QED
      BY <1>1, <3>1, <3>2, <3>3, NoneAssumption DEF Remembers
  <2>7. CASE saidGone[k] # None
    <3>1. Remembers(k) /\ saidGone'[k] = saidGone[k]
      BY <1>2, <2>1, <2>7 DEF GoneInv
    <3>2. battery[k].goneSince \in Nat /\ battery'[k].goneSince = battery[k].goneSince
      BY <2>2, <2>5, <3>1 DEF Remembers, note, VirtualBattery, Clock
    <3>3. battery[k].goneSince < DisconnectSettle
      BY <2>3, <3>1, <3>2, DurationAssumption DEF GoneFor, For, Remembers
    <3>4. saidGone[k] \in Nat
      BY <1>k, <2>7 DEF GoneInv, Clock
    <3>5. saidGone[k] <= DisconnectSettle
      BY <3>1, <3>2, <3>3, <3>4, DurationAssumption DEF Remembers
    <3>6. QED
      BY <1>1, <2>5, <3>1, <3>2, <3>5 DEF Remembers
  <2>8. QED
    BY <2>6, <2>7
<1>5. QED
  BY <1>k, <1>1, <1>2, <1>3, <1>4, OthersRemember

\* Whatever else is said of a headset ends the announcement.
LEMMA ElseRemembers ==
  ASSUME TypeOK, GoneInv, NEW h \in Headset, Apply(h), SaidElse(KeyOf[h])
  PROVE  GoneInv'
<1> DEFINE k == KeyOf[h]
<1>k. k \in Key
  BY KeyAssumption
<1>1. Take(h)
  BY DEF Apply, ApplyUnavailable, ApplyDisconnected, ApplyNoLevelYet, ApplyNotNow,
         AttachSucceeds, AttachFails, AttachGivesUp, ApplyDeferred, ApplyUnchanged,
         ApplyPushed, ApplyPushFails
<1>2. \A j \in Key : j # k => battery'[j] = battery[j]
  BY DEF Apply, ApplyUnavailable, ApplyDisconnected, ApplyNoLevelYet, ApplyNotNow,
         AttachSucceeds, AttachFails, AttachGivesUp, ApplyDeferred, ApplyUnchanged,
         ApplyPushed, ApplyPushFails, Strike, release, TypeOK
<1>3. /\ saidGone' \in [Key -> Clock]
      /\ saidGone'[k] = None
      /\ \A j \in Key : j # k => saidGone'[j] = saidGone[j]
  BY <1>k DEF SaidElse, GoneInv, Clock
<1>4. QED
  BY <1>k, <1>1, <1>2, <1>3, OthersRemember DEF Take

\* The end of a poll: an entry it listed has had at most DisconnectSettle and the
\* poll itself, and the next one is at the native pace.
LEMMA SweepRemembers ==
  ASSUME TypeOK, GoneInv, NEW spent \in 0..MaxTick, SweepAfter(spent),
         saidGone' = [k \in Key |-> IF battery'[k] = None THEN None
                                    ELSE Later(saidGone[k], spent)]
  PROVE  GoneInv'
<1>0. spent \in Nat /\ spent <= MaxTick /\ MaxTick \in Nat /\ NativeTick \in Nat
  BY DurationAssumption, PacingAssumption
<1>1. pc = "apply" /\ pc' = "wait" /\ remaining = 0
  BY DEF SweepAfter, GoneInv
<1>2. /\ remaining' \in Nat /\ remaining' > 0
      /\ native => remaining' <= NativeTick
  BY SweptType, PacingAssumption DEF SweepAfter, next_delay, Regular, Least, TypeOK
<1>3. saidGone' \in [Key -> Clock]
  BY <1>0, NoneAssumption DEF GoneInv, Later, Clock
<1>4. ASSUME NEW k \in Attached', saidGone'[k] # None
      PROVE  Remembers(k)'
  <2>1. k \in Key /\ battery'[k] # None
    BY <1>4 DEF Attached
  <2>2. k \in Attached /\ battery'[k] = Aged(Noted(battery[k]), spent)
    BY <2>1 DEF SweepAfter, PassTime, Swept
  <2>3. battery[k] \in VirtualBattery
    BY <2>2, AnsweredType
  <2>4. saidGone[k] \in Nat /\ saidGone'[k] = saidGone[k] + spent
    BY <1>4, <2>1 DEF GoneInv, Later, Clock
  <2>5. Remembers(k) /\ battery[k].goneSince \in Nat
    BY <2>2, <2>3, <2>4, NoneAssumption DEF GoneInv, Remembers, VirtualBattery, Clock
  <2>6. /\ battery'[k].goneSince = battery[k].goneSince + spent
        /\ battery'[k].missingSince =
             Later(note(battery[k].missingSince, battery[k].lastSeen = 0), spent)
    BY <2>2, <2>3, <2>5 DEF Aged, Noted, Later, Remembers, VirtualBattery
  <2>7. battery'[k].goneSince # None /\ saidGone'[k] <= battery'[k].goneSince
    BY <1>0, <2>4, <2>5, <2>6, NoneAssumption DEF Remembers
  <2>8. ASSUME battery'[k].missingSince = None
        PROVE  saidGone'[k] + remaining' <= GoneBound
    <3>1. battery[k].lastSeen = 0
      BY <1>0, <2>3, <2>6, <2>8, NoneAssumption DEF note, Later, VirtualBattery, Clock
    <3>2. native /\ saidGone[k] <= DisconnectSettle
      BY <1>1, <2>5, <3>1 DEF Remembers
    <3>3. QED
      BY <1>0, <1>2, <2>4, <3>2, DurationAssumption DEF GoneBound
  <2>9. QED
    BY <1>1, <2>7, <2>8 DEF Remembers
<1>5. QED
  BY <1>1, <1>2, <1>3, <1>4 DEF GoneInv

\* Between polls, what the clocks gain the wait for the next poll loses.
LEMMA ElapseRemembers ==
  ASSUME TypeOK, GoneInv, RememberedElapse
  PROVE  GoneInv'
<1>1. /\ pc = "wait" /\ pc' = "wait" /\ remaining > 0 /\ remaining \in Nat
      /\ remaining' = remaining - 1
      /\ PassTime(battery, 1)
      /\ saidGone' = [k \in Key |-> Later(saidGone[k], 1)]
  BY DEF RememberedElapse, Elapse, TypeOK
<1>2. saidGone' \in [Key -> Clock]
  BY <1>1, NoneAssumption DEF GoneInv, Later, Clock
<1>3. ASSUME NEW k \in Attached'
      PROVE  /\ k \in Attached /\ battery'[k] = Aged(battery[k], 1)
             /\ battery[k] \in VirtualBattery
  <2>1. k \in Attached /\ battery'[k] = Aged(battery[k], 1)
    BY <1>1, <1>3 DEF PassTime, Attached
  <2>2. QED
    BY <2>1, AnsweredType
<1>4. ASSUME NEW k \in Attached'
      PROVE  battery'[k].lastSeen > 0
  <2>1. battery[k] \in VirtualBattery /\ battery'[k] = Aged(battery[k], 1)
    BY <1>3
  <2>2. battery[k].lastSeen \in Nat /\ battery'[k].lastSeen = battery[k].lastSeen + 1
    BY <2>1 DEF Aged, VirtualBattery
  <2>3. QED
    BY <2>2
<1>5. ASSUME NEW k \in Attached', saidGone'[k] # None
      PROVE  Remembers(k)'
  <2>1. k \in Key
    BY <1>5 DEF Attached
  <2>2. saidGone[k] \in Nat /\ saidGone'[k] = saidGone[k] + 1
    BY <1>1, <1>5, <2>1 DEF GoneInv, Later, Clock
  <2>3. Remembers(k) /\ battery[k].goneSince \in Nat
    BY <1>3, <2>2, NoneAssumption DEF GoneInv, Remembers, VirtualBattery, Clock
  <2>4. /\ battery'[k].goneSince = battery[k].goneSince + 1
        /\ battery'[k].missingSince = Later(battery[k].missingSince, 1)
    BY <1>3, <2>3 DEF Aged, Later, Remembers, VirtualBattery
  <2>5. battery'[k].missingSince = None => battery[k].missingSince = None
    BY <1>3, <2>4, NoneAssumption DEF Later, VirtualBattery, Clock
  <2>6. QED
    BY <1>1, <2>2, <2>3, <2>4, <2>5, NoneAssumption DEF Remembers, GoneBound
<1>6. QED
  BY <1>1, <1>2, <1>4, <1>5 DEF GoneInv

\* A failure of service leaves the clocks of an entry that stays.
LEMMA ServeFailsRemembers ==
  ASSUME TypeOK, GoneInv, NEW k \in Key, ServeFails(k), saidGone' = saidGone
  PROVE  GoneInv'
<1>1. battery[k] \in VirtualBattery
  BY AnsweredType DEF ServeFails
<1>2. ASSUME NEW j \in Key, battery'[j] # None
      PROVE  /\ j \in Attached
             /\ battery'[j].goneSince = battery[j].goneSince
             /\ battery'[j].missingSince = battery[j].missingSince
             /\ battery'[j].lastSeen = battery[j].lastSeen
  <2>1. IF j = k THEN battery'[j] = Struck(battery[k]) ELSE battery'[j] = battery[j]
    BY <1>1, <1>2, StrikeEffect DEF ServeFails
  <2>2. j \in Attached
    BY <1>2, <2>1 DEF ServeFails, Attached
  <2>3. QED
    BY <1>1, <2>1, <2>2 DEF Struck, VirtualBattery
<1>3. ASSUME NEW j \in Attached', saidGone'[j] # None
      PROVE  Remembers(j)'
  <2>1. j \in Key /\ battery'[j] # None
    BY <1>3 DEF Attached
  <2>2. Remembers(j)
    BY <1>2, <1>3, <2>1 DEF GoneInv
  <2>3. QED
    BY <1>2, <2>1, <2>2 DEF Remembers, ServeFails
<1>4. QED
  BY <1>3 DEF GoneInv, ServeFails

\* Every step keeps what the entries remember.
LEMMA GoneStep ==
  ASSUME TypeOK, GoneInv, [RememberedNext]_allVars
  PROVE  GoneInv'
<1>1. ASSUME NEW h \in Headset, RememberedApply(h)
      PROVE  GoneInv'
  <2>1. Apply(h)
    BY <1>1 DEF RememberedApply, Apply
  <2>2. (ApplyDisconnected(h) /\ SaidGone(KeyOf[h])) \/ SaidElse(KeyOf[h])
    BY <1>1 DEF RememberedApply
  <2>3. QED
    BY <2>1, <2>2, DisconnectedRemembers, ElseRemembers
<1>2. CASE RememberedSweep
  BY <1>2, SweepRemembers DEF RememberedSweep
<1>3. CASE RememberedElapse
  BY <1>3, ElapseRemembers
<1>4. ASSUME NEW k \in Key, RememberedServeFails(k)
      PROVE  GoneInv'
  BY <1>4, ServeFailsRemembers DEF RememberedServeFails
<1>5. CASE RememberedRestart
  BY <1>5 DEF RememberedRestart, Restart, GoneInv, Attached, Clock
<1>6. CASE Poll /\ UNCHANGED history
  <2>1. \A k \in Attached' : /\ k \in Attached /\ battery[k].lastSeen > 0
                             /\ battery[k].lastSeen \in Nat
    BY <1>6, AnsweredType DEF Poll, GoneInv, Attached, VirtualBattery
  <2>2. QED
    BY <1>6, <2>1 DEF Poll, GoneInv, Remembers, Attached, history
<1>7. CASE (Shutdown \/ WaitFails) /\ UNCHANGED history
  BY <1>7 DEF Shutdown, WaitFails, GoneInv, Attached, history
<1>8. CASE UNCHANGED <<pc, native, battery, remaining, saidGone>>
  BY <1>8 DEF GoneInv, Remembers, Attached
<1>9. ASSUME NEW k \in Key, ServeSucceeds(k)
      PROVE  GoneInv'
  BY <1>8, <1>9 DEF ServeSucceeds, vars
<1>10. CASE (RaiseStop \/ Terminated) /\ UNCHANGED history
  BY <1>8, <1>10 DEF RaiseStop, Terminated, history, vars
<1>11. CASE UNCHANGED allVars
  BY <1>8, <1>11 DEF allVars, vars, history
<1>12. QED
  BY <1>1, <1>2, <1>3, <1>4, <1>5, <1>6, <1>7, <1>9, <1>10, <1>11 DEF RememberedNext

\* While the dongle says that the headset is gone the entry goes within
\* DisconnectSettle, a native poll and its own length, whatever the entry's
\* clocks held before (src/src/bridge/mod.rs:541-552, 50-53).
THEOREM GoneBelieved == RememberedSpec => []GoneIsBelieved
<1>1. Init /\ HistoryInit => GoneInv
  BY DEF Init, HistoryInit, GoneInv, Attached, Clock
<1>2. TypeOK /\ GoneInv /\ [RememberedNext]_allVars => GoneInv'
  BY GoneStep
<1>3. GoneInv => GoneIsBelieved
  BY DEF GoneInv, Remembers, GoneIsBelieved, GoneBound
<1>4. QED
  BY <1>1, <1>2, <1>3, RememberedType, PTL DEF RememberedSpec
=============================================================================
