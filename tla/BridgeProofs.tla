---------------------------- MODULE BridgeProofs ----------------------------
(***************************************************************************)
(* What holds of the bridge for every set of headsets, every duration and  *)
(* every set of levels.                                                    *)
(***************************************************************************)
EXTENDS Bridge, FiniteSetTheorems, TLAPS

(* ----------------------------------------------------------------------- *)
(* Type correctness.                                                       *)

\* Ageing leaves a battery a battery.
LEMMA AgedType ==
  ASSUME NEW b \in VirtualBattery, NEW d \in Nat
  PROVE  Aged(b, d) \in VirtualBattery
<1>1. /\ b.lastReading + d \in Nat
      /\ b.lastSeen + d \in Nat
      /\ Least(b.publishedAt + d, RepublishEvery) \in 0..RepublishEvery
  BY DurationAssumption DEF VirtualBattery, Least
<1>2. \A since \in Clock : Later(since, d) \in Clock
  BY NoneAssumption DEF Clock, Later
<1>3. /\ Later(b.silentSince, d) \in Clock
      /\ Later(b.missingSince, d) \in Clock
      /\ Later(b.goneSince, d) \in Clock
  BY <1>2 DEF VirtualBattery
<1>4. QED
  BY <1>1, <1>3 DEF Aged, VirtualBattery

\* Noting which conditions held on a poll leaves a battery one.
LEMMA NotedType ==
  ASSUME NEW b \in VirtualBattery
  PROVE  Noted(b) \in VirtualBattery
<1>1. \A since \in Clock, fine \in BOOLEAN : note(since, fine) \in Clock
  BY DEF Clock, note
<1>2. /\ note(b.silentSince, b.lastReading = 0) \in Clock
      /\ note(b.missingSince, b.lastSeen = 0) \in Clock
  BY <1>1 DEF VirtualBattery
<1>3. QED
  BY <1>2 DEF Noted, VirtualBattery

\* A new entry is a battery.
LEMMA FreshType ==
  ASSUME NEW reading \in Reading
  PROVE  Fresh(reading) \in VirtualBattery
  BY DurationAssumption DEF Fresh, VirtualBattery, Clock

\* Time passes for every battery and every retry.
LEMMA PassTimeType ==
  ASSUME TypeOK, NEW d \in Nat,
         NEW batteries \in [Key -> VirtualBattery \cup {None}],
         PassTime(batteries, d)
  PROVE  /\ battery' \in [Key -> VirtualBattery \cup {None}]
         /\ retry' \in [Key -> 0..AttachRetry]
<1>1. \A k \in Key : batteries[k] # None => Aged(batteries[k], d) \in VirtualBattery
  BY AgedType
<1>2. battery' \in [Key -> VirtualBattery \cup {None}]
  BY <1>1 DEF PassTime
<1>3. \A k \in Key : (IF retry[k] > d THEN retry[k] - d ELSE 0) \in 0..AttachRetry
  BY DurationAssumption DEF TypeOK
<1>4. QED
  BY <1>2, <1>3 DEF PassTime

\* The time to the next poll is a duration.
LEMMA DelayType ==
  ASSUME NEW unanswered \in BOOLEAN, NEW isNative \in BOOLEAN
  PROVE  next_delay(unanswered, isNative) \in Nat
  BY PacingAssumption DEF next_delay, Least, Regular

\* An entry is a battery, also after its headset answered.
LEMMA AnsweredType ==
  ASSUME TypeOK, NEW k \in Attached
  PROVE  /\ k \in Key
         /\ battery[k] \in VirtualBattery
         /\ Answered(k) \in VirtualBattery
         /\ Settled(k) \in VirtualBattery
<1>1. k \in Key /\ battery[k] \in VirtualBattery
  BY DEF Attached, TypeOK
<1>2. Answered(k) \in VirtualBattery
  BY <1>1 DEF Answered, VirtualBattery, Clock
<1>3. Settled(k) \in VirtualBattery
  BY <1>2 DEF Settled, VirtualBattery
<1>4. QED
  BY <1>1, <1>2, <1>3

\* A battery that was seen is a battery, and none is none.
LEMMA SeenType ==
  ASSUME TypeOK, NEW k \in Key
  PROVE  Seen(k) \in VirtualBattery \cup {None}
<1>1. CASE battery[k] = None
  BY <1>1 DEF Seen
<1>2. CASE battery[k] # None
  <2>1. battery[k] \in VirtualBattery
    BY <1>2 DEF TypeOK
  <2>2. QED
    BY <1>2, <2>1 DEF Seen, VirtualBattery
<1>3. QED
  BY <1>1, <1>2

\* A report, and what is shown of it, are levels.
LEMMA LevelType ==
  ASSUME TypeOK, NEW k \in Attached, NEW report \in Report(k)
  PROVE  /\ report.percent \in Percent
         /\ report.charging \in BOOLEAN
         /\ report.sample \in Sample \cup {None}
         /\ Level(k, report) \in Reading
<1>1. /\ report.percent \in Percent
      /\ report.charging \in BOOLEAN
      /\ report.sample \in Sample \cup {None}
  BY DEF Report
<1>2. battery[k].device \in Reading
  BY AnsweredType DEF VirtualBattery
<1>3. QED
  BY <1>1, <1>2 DEF Level, Reading

\* What a failed push leaves of a battery, before the strike.
LEMMA FailedPushType ==
  ASSUME TypeOK, NEW k \in Attached, NEW report \in Report(k),
         NEW kept \in {battery[k].device, Level(k, report)}
  PROVE  [Settled(k) EXCEPT !.device = kept, !.publishedAt = 0] \in VirtualBattery
<1>1. Settled(k) \in VirtualBattery
  BY AnsweredType
<1>2. kept \in Reading
  BY AnsweredType, LevelType DEF VirtualBattery
<1>3. 0 \in 0..RepublishEvery
  BY DurationAssumption
<1>4. QED
  BY <1>1, <1>2, <1>3 DEF VirtualBattery

\* outcome of a failure leaves batteries, retries and handles.
LEMMA StrikeType ==
  ASSUME TypeOK, NEW k \in Key, NEW b \in VirtualBattery, Strike(k, b)
  PROVE  /\ battery' \in [Key -> VirtualBattery \cup {None}]
         /\ retry' \in [Key -> 0..AttachRetry]
         /\ spare' \in Nat
<1>1. CASE b.failures + 1 < DeviceFailureLimit
  <2>1. Struck(b) \in VirtualBattery
    BY <1>1, DurationAssumption DEF Struck, VirtualBattery
  <2>2. QED
    BY <1>1, <2>1 DEF Strike, TypeOK
<1>2. CASE ~(b.failures + 1 < DeviceFailureLimit)
  BY <1>2, DurationAssumption DEF Strike, release, put_back, TypeOK
<1>3. QED
  BY <1>1, <1>2

\* A strike only changes the strikes.
LEMMA StrikeEffect ==
  ASSUME TypeOK, NEW k \in Key, NEW b \in VirtualBattery, Strike(k, b),
         NEW j \in Key, battery'[j] # None
  PROVE  IF j = k THEN battery'[j] = Struck(b) ELSE battery'[j] = battery[j]
  BY DEF Strike, release, TypeOK

\* A handle taken, or taken and put back, leaves a number of handles.
LEMMA AcquireType ==
  ASSUME TypeOK
  PROVE  /\ Acquire => spare' \in Nat
         /\ Borrow => spare' \in Nat
  BY DEF TypeOK, Acquire, Borrow, Taken

\* What the end of a poll leaves, and withdraws.
LEMMA SweptType ==
  ASSUME TypeOK
  PROVE  /\ Swept \in [Key -> VirtualBattery \cup {None}]
         /\ Unanswered \in BOOLEAN
         /\ IsFiniteSet(Expired)
         /\ Cardinality(Expired) \in Nat
<1>1. \A k \in Attached : Noted(battery[k]) \in VirtualBattery
  BY NotedType, AnsweredType
<1>2. Swept \in [Key -> VirtualBattery \cup {None}]
  BY <1>1 DEF Swept
<1>3. Expired \subseteq Key
  BY DEF Expired, Attached
<1>4. IsFiniteSet(Expired)
  BY <1>3, KeyAssumption, FS_Subset
<1>5. Cardinality(Expired) \in Nat
  BY <1>4, FS_CardinalityType
<1>6. QED
  BY <1>2, <1>4, <1>5 DEF Unanswered

\* Taking a headset in keeps every type.
LEMMA ApplyType ==
  ASSUME TypeOK, NEW h \in Headset, Apply(h)
  PROVE  TypeOK'
<1> DEFINE k == KeyOf[h]
<1>k. k \in Key
  BY KeyAssumption
<1>s. Seen(k) \in VirtualBattery \cup {None}
  BY <1>k, SeenType
<1>t. SUFFICES ASSUME Take(h)
               PROVE  /\ battery' \in [Key -> VirtualBattery \cup {None}]
                      /\ retry' \in [Key -> 0..AttachRetry]
                      /\ abandoned' \subseteq Key
                      /\ spare' \in Nat
  <2>1. Take(h)
    BY DEF Apply, ApplyUnavailable, ApplyDisconnected, ApplyNoLevelYet, ApplyNotNow,
           AttachSucceeds, AttachFails, AttachGivesUp, ApplyDeferred, ApplyUnchanged,
           ApplyPushed, ApplyPushFails
  <2>2. QED
    BY <1>t, <2>1 DEF TypeOK, Take
<1>1. CASE ApplyUnavailable(h)
  BY <1>1, <1>s DEF ApplyUnavailable, TypeOK
<1>2. CASE ApplyDisconnected(h)
  <2>1. CASE k \notin Attached
    BY <1>2, <2>1 DEF ApplyDisconnected, TypeOK
  <2>2. CASE k \in Attached /\ GoneFor(battery[k]) >= DisconnectSettle
    BY <1>2, <2>2 DEF ApplyDisconnected, TypeOK, release, put_back
  <2>3. CASE k \in Attached /\ ~(GoneFor(battery[k]) >= DisconnectSettle)
    <3>1. Seen(k) \in VirtualBattery
      BY <2>3, <1>s, AnsweredType DEF Seen, VirtualBattery
    <3>2. note(Seen(k).goneSince, FALSE) \in Clock
      BY <3>1 DEF VirtualBattery, Clock, note
    <3>3. [Seen(k) EXCEPT !.goneSince = note(@, FALSE)] \in VirtualBattery
      BY <3>1, <3>2 DEF VirtualBattery
    <3>4. QED
      BY <1>2, <2>3, <3>3 DEF ApplyDisconnected, TypeOK
  <2>4. QED
    BY <2>1, <2>2, <2>3
<1>3. CASE ApplyNoLevelYet(h) \/ ApplyNotNow(h)
  BY <1>3 DEF ApplyNoLevelYet, ApplyNotNow, TypeOK
<1>4. ASSUME NEW reading \in Reading, AttachSucceeds(h, reading)
      PROVE  /\ battery' \in [Key -> VirtualBattery \cup {None}]
             /\ retry' \in [Key -> 0..AttachRetry]
             /\ abandoned' \subseteq Key
             /\ spare' \in Nat
  BY <1>4, FreshType, AcquireType DEF AttachSucceeds, TypeOK
<1>5. CASE AttachFails(h)
  <2>1. AttachRetry \in 0..AttachRetry
    BY DurationAssumption
  <2>2. retry' \in [Key -> 0..AttachRetry]
    BY <1>5, <2>1 DEF AttachFails, TypeOK
  <2>3. spare' \in Nat
    BY <1>5, AcquireType DEF AttachFails, TypeOK
  <2>4. QED
    BY <1>5, <2>2, <2>3 DEF AttachFails, TypeOK
<1>6. CASE AttachGivesUp(h)
  BY <1>6, <1>k, AcquireType DEF AttachGivesUp, TypeOK
<1>7. ASSUME NEW report \in Report(k), ApplyDeferred(h, report)
      PROVE  /\ battery' \in [Key -> VirtualBattery \cup {None}]
             /\ retry' \in [Key -> 0..AttachRetry]
             /\ abandoned' \subseteq Key
             /\ spare' \in Nat
  <2>1. k \in Attached
    BY <1>7 DEF ApplyDeferred
  <2>2. [Answered(k) EXCEPT !.deferred = report.percent,
                            !.deferredSample = report.sample] \in VirtualBattery
    <3>1. Answered(k) \in VirtualBattery
      BY <2>1, AnsweredType
    <3>2. report.percent \in Percent /\ report.sample \in Sample \cup {None}
      BY <2>1, LevelType
    <3>3. QED
      BY <3>1, <3>2 DEF VirtualBattery
  <2>3. QED
    BY <1>7, <2>2 DEF ApplyDeferred, TypeOK
<1>8. ASSUME NEW report \in Report(k), ApplyUnchanged(h, report)
      PROVE  /\ battery' \in [Key -> VirtualBattery \cup {None}]
             /\ retry' \in [Key -> 0..AttachRetry]
             /\ abandoned' \subseteq Key
             /\ spare' \in Nat
  BY <1>8, AnsweredType DEF ApplyUnchanged, TypeOK
<1>9. ASSUME NEW report \in Report(k), ApplyPushed(h, report)
      PROVE  /\ battery' \in [Key -> VirtualBattery \cup {None}]
             /\ retry' \in [Key -> 0..AttachRetry]
             /\ abandoned' \subseteq Key
             /\ spare' \in Nat
  <2>1. k \in Attached
    BY <1>9 DEF ApplyPushed
  <2>2. [Settled(k) EXCEPT !.device = Level(k, report),
                           !.publishedAt = 0, !.failures = 0] \in VirtualBattery
    <3>1. Settled(k) \in VirtualBattery /\ Level(k, report) \in Reading
      BY <2>1, AnsweredType, LevelType
    <3>2. 0 \in 0..RepublishEvery /\ 0 \in 0..(DeviceFailureLimit - 1)
      BY DurationAssumption
    <3>3. QED
      BY <3>1, <3>2 DEF VirtualBattery
  <2>3. QED
    BY <1>9, <2>2 DEF ApplyPushed, TypeOK
<1>10. ASSUME NEW report \in Report(k), ApplyPushFails(h, report)
       PROVE  /\ battery' \in [Key -> VirtualBattery \cup {None}]
              /\ retry' \in [Key -> 0..AttachRetry]
              /\ abandoned' \subseteq Key
              /\ spare' \in Nat
  <2>1. k \in Attached /\ abandoned' = abandoned
    BY <1>10 DEF ApplyPushFails
  <2>2. PICK kept \in {battery[k].device, Level(k, report)} :
          Strike(k, [Settled(k) EXCEPT !.device = kept, !.publishedAt = 0])
    BY <1>10 DEF ApplyPushFails
  <2>3. [Settled(k) EXCEPT !.device = kept, !.publishedAt = 0] \in VirtualBattery
    BY <1>10, <2>1, FailedPushType
  <2>4. QED
    BY <1>k, <2>1, <2>2, <2>3, StrikeType DEF TypeOK
<1>11. QED
  BY <1>1, <1>2, <1>3, <1>4, <1>5, <1>6, <1>7, <1>8, <1>9, <1>10 DEF Apply

\* Every step of the loop keeps every type.
LEMMA TypeInvariant ==
  TypeOK /\ [Next]_vars => TypeOK'
<1> SUFFICES ASSUME TypeOK, [Next]_vars
             PROVE  TypeOK'
  OBVIOUS
<1>1. CASE Poll
  BY <1>1 DEF Poll, TypeOK
<1>2. ASSUME NEW h \in Headset, Apply(h)
      PROVE  TypeOK'
  BY <1>2, ApplyType
<1>3. CASE Sweep
  <2>1. PICK spent \in 0..MaxTick : SweepAfter(spent)
    BY <1>3 DEF Sweep
  <2>2. spent \in Nat
    BY DurationAssumption
  <2>3. /\ battery' \in [Key -> VirtualBattery \cup {None}]
        /\ retry' \in [Key -> 0..AttachRetry]
    BY <2>1, <2>2, SweptType, PassTimeType DEF SweepAfter
  <2>4. remaining' \in Nat
    BY <2>1, SweptType, DelayType DEF SweepAfter, TypeOK
  <2>5. spare' \in Nat
    BY <2>1, SweptType DEF SweepAfter, put_back, TypeOK
  <2>6. QED
    BY <2>1, <2>3, <2>4, <2>5 DEF SweepAfter, TypeOK
<1>4. CASE Elapse
  <2>1. /\ battery' \in [Key -> VirtualBattery \cup {None}]
        /\ retry' \in [Key -> 0..AttachRetry]
    BY <1>4, PassTimeType DEF Elapse, TypeOK
  <2>2. QED
    BY <1>4, <2>1 DEF Elapse, TypeOK
<1>5. ASSUME NEW k \in Key, ServeFails(k)
      PROVE  TypeOK'
  <2>1. battery[k] \in VirtualBattery
    BY <1>5, AnsweredType DEF ServeFails
  <2>2. QED
    BY <1>5, <2>1, StrikeType DEF ServeFails, TypeOK
<1>6. CASE RaiseStop
  BY <1>6 DEF RaiseStop, TypeOK
<1>7. CASE Shutdown
  BY <1>7 DEF Shutdown, TypeOK
<1>8. CASE WaitFails
  BY <1>8 DEF WaitFails, TypeOK
<1>9. CASE Restart
  <2>1. 0 \in 0..AttachRetry
    BY DurationAssumption
  <2>2. retry' \in [Key -> 0..AttachRetry]
    BY <1>9, <2>1 DEF Restart
  <2>3. QED
    BY <1>9, <2>2, InheritedAssumption DEF Restart, TypeOK
<1>10. CASE Terminated \/ UNCHANGED vars
  BY <1>10 DEF Terminated, vars, TypeOK
<1>11. QED
  BY <1>1, <1>2, <1>3, <1>4, <1>5, <1>6, <1>7, <1>8, <1>9, <1>10 DEF Next

\* Every variable of the loop keeps its type, through every poll, failure,
\* withdrawal and restart of the code: no device survives its last strike, and
\* no retry is put off past AttachRetry.
THEOREM TypeCorrect == Spec => []TypeOK
<1>1. Init => TypeOK
  <2> SUFFICES ASSUME Init
               PROVE  TypeOK
    OBVIOUS
  <2>1. 0 \in 0..AttachRetry
    BY DurationAssumption
  <2>2. retry \in [Key -> 0..AttachRetry]
    BY <2>1 DEF Init
  <2>3. battery \in [Key -> VirtualBattery \cup {None}]
    BY DEF Init
  <2>4. QED
    BY <2>2, <2>3, InheritedAssumption DEF Init, PoolInit, TypeOK
<1>2. TypeOK /\ [Next]_vars => TypeOK'
  BY TypeInvariant
<1>3. QED
  BY <1>1, <1>2, PTL DEF Spec

(* ----------------------------------------------------------------------- *)
(* Entries, retries and headsets given up on.                              *)

\* A strike sets a retry only as it destroys the device.
LEMMA StrikeUnencumbered ==
  ASSUME TypeOK, AttachedIsUnencumbered, NEW k \in Attached, NEW b \in VirtualBattery,
         Strike(k, b), abandoned' = abandoned
  PROVE  AttachedIsUnencumbered'
<1>1. k \in Key
  BY DEF Attached
<1>2. CASE b.failures + 1 < DeviceFailureLimit
  BY <1>1, <1>2 DEF Strike, AttachedIsUnencumbered, Attached, TypeOK
<1>3. CASE ~(b.failures + 1 < DeviceFailureLimit)
  BY <1>1, <1>3 DEF Strike, release, AttachedIsUnencumbered, Attached, TypeOK
<1>4. QED
  BY <1>2, <1>3

\* Taking a headset in keeps entries and reasons not to attach apart.
LEMMA ApplyUnencumbered ==
  ASSUME TypeOK, AttachedIsUnencumbered, NEW h \in Headset, Apply(h)
  PROVE  AttachedIsUnencumbered'
<1> DEFINE k == KeyOf[h]
<1>k. k \in Key
  BY KeyAssumption
\* An entry that stays one, with no retry set and no key given up on.
<1>e. ASSUME NEW c, battery' = [battery EXCEPT ![k] = c], k \in Attached,
             retry' = retry, abandoned' = abandoned
      PROVE  AttachedIsUnencumbered'
  BY <1>e DEF AttachedIsUnencumbered, Attached, TypeOK
<1>1. CASE ApplyUnavailable(h)
  <2>1. CASE k \in Attached
    BY <1>1, <1>e, <2>1 DEF ApplyUnavailable
  <2>2. CASE k \notin Attached
    BY <1>1, <1>k, <2>2 DEF ApplyUnavailable, AttachedIsUnencumbered, Attached, Seen, TypeOK
  <2>3. QED
    BY <2>1, <2>2
<1>2. CASE ApplyDisconnected(h)
  <2>1. CASE k \in Attached
    BY <1>2, <1>e, <2>1 DEF ApplyDisconnected, release
  <2>2. CASE k \notin Attached
    BY <1>2, <2>2 DEF ApplyDisconnected, AttachedIsUnencumbered, Attached
  <2>3. QED
    BY <2>1, <2>2
<1>3. CASE ApplyNoLevelYet(h) \/ ApplyNotNow(h)
  BY <1>3 DEF ApplyNoLevelYet, ApplyNotNow, AttachedIsUnencumbered, Attached
<1>4. ASSUME NEW reading \in Reading, AttachSucceeds(h, reading)
      PROVE  AttachedIsUnencumbered'
  BY <1>4, <1>k DEF AttachSucceeds, MayAttach, AttachedIsUnencumbered, Attached, TypeOK
<1>5. CASE AttachFails(h)
  BY <1>5 DEF AttachFails, AttachedIsUnencumbered, Attached, TypeOK
<1>6. CASE AttachGivesUp(h)
  BY <1>6 DEF AttachGivesUp, AttachedIsUnencumbered, Attached
<1>7. ASSUME NEW report \in Report(k),
             ApplyDeferred(h, report) \/ ApplyUnchanged(h, report) \/ ApplyPushed(h, report)
      PROVE  AttachedIsUnencumbered'
  BY <1>7, <1>e DEF ApplyDeferred, ApplyUnchanged, ApplyPushed
<1>8. ASSUME NEW report \in Report(k), ApplyPushFails(h, report)
      PROVE  AttachedIsUnencumbered'
  <2>1. k \in Attached /\ abandoned' = abandoned
    BY <1>8 DEF ApplyPushFails
  <2>2. PICK kept \in {battery[k].device, Level(k, report)} :
          Strike(k, [Settled(k) EXCEPT !.device = kept, !.publishedAt = 0])
    BY <1>8 DEF ApplyPushFails
  <2>3. [Settled(k) EXCEPT !.device = kept, !.publishedAt = 0] \in VirtualBattery
    BY <1>8, <2>1, FailedPushType
  <2>4. QED
    BY <2>1, <2>2, <2>3, StrikeUnencumbered
<1>9. QED
  BY <1>1, <1>2, <1>3, <1>4, <1>5, <1>6, <1>7, <1>8 DEF Apply

\* Time never sets a retry, and creates no entry.
LEMMA PassTimeUnencumbered ==
  ASSUME TypeOK, AttachedIsUnencumbered, NEW d \in Nat,
         NEW batteries, \A k \in Key : batteries[k] # None => k \in Attached,
         PassTime(batteries, d), abandoned' = abandoned
  PROVE  AttachedIsUnencumbered'
<1>1. \A k \in Key : retry[k] = 0 => retry'[k] = 0
  BY DEF PassTime
<1>2. \A k \in Key : battery'[k] # None => k \in Attached
  BY DEF PassTime
<1>3. QED
  BY <1>1, <1>2 DEF AttachedIsUnencumbered, Attached

\* An entry and a reason not to attach its headset never coexist, for any number
\* of headsets: the waiting time of a failed attach is over before the next, and
\* a device destroyed for its failures is gone before its waiting time starts.
THEOREM Unencumbered == Spec => []AttachedIsUnencumbered
<1>1. Init => AttachedIsUnencumbered
  BY DEF Init, AttachedIsUnencumbered, Attached
<1>2. TypeOK /\ AttachedIsUnencumbered /\ [Next]_vars => AttachedIsUnencumbered'
  <2> SUFFICES ASSUME TypeOK, AttachedIsUnencumbered, [Next]_vars
               PROVE  AttachedIsUnencumbered'
    OBVIOUS
  <2>1. CASE Poll \/ RaiseStop
    BY <2>1 DEF Poll, RaiseStop, AttachedIsUnencumbered, Attached
  <2>2. ASSUME NEW h \in Headset, Apply(h)
        PROVE  AttachedIsUnencumbered'
    BY <2>2, ApplyUnencumbered
  <2>3. CASE Sweep
    <3>1. PICK spent \in 0..MaxTick : SweepAfter(spent)
      BY <2>3 DEF Sweep
    <3>2. \A k \in Key : Swept[k] # None => k \in Attached
      BY DEF Swept
    <3>3. spent \in Nat
      BY DurationAssumption
    <3>4. QED
      BY <3>1, <3>2, <3>3, PassTimeUnencumbered DEF SweepAfter
  <2>4. CASE Elapse
    <3>1. \A k \in Key : battery[k] # None => k \in Attached
      BY DEF Attached
    <3>2. QED
      BY <2>4, <3>1, PassTimeUnencumbered DEF Elapse
  <2>5. ASSUME NEW k \in Key, ServeFails(k)
        PROVE  AttachedIsUnencumbered'
    BY <2>5, AnsweredType, StrikeUnencumbered DEF ServeFails
  <2>6. CASE Shutdown \/ WaitFails
    BY <2>6 DEF Shutdown, WaitFails, AttachedIsUnencumbered, Attached
  <2>7. CASE Restart
    BY <2>7 DEF Restart, AttachedIsUnencumbered, Attached
  <2>8. CASE Terminated \/ UNCHANGED vars
    BY <2>8 DEF Terminated, vars, AttachedIsUnencumbered, Attached
  <2>9. QED
    BY <2>1, <2>2, <2>3, <2>4, <2>5, <2>6, <2>7, <2>8 DEF Next
<1>3. QED
  BY <1>1, <1>2, TypeCorrect, PTL DEF Spec

(* ----------------------------------------------------------------------- *)
(* No handle is lost or invented, for any number of headsets and of handles *)
(* passed by the service manager.                                          *)

\* The handles are accounted for, and a loop that ended has no device.
HandleInv ==
  /\ pc \in {"stopped", "dead"} => Attached = {}
  /\ HandlesAccountedFor

\* There are no more entries than keys, and one less while some key has none.
LEMMA EntryCount ==
  ASSUME TypeOK
  PROVE  /\ IsFiniteSet(Attached)
         /\ Cardinality(Attached) \in Nat /\ Cardinality(Key) \in Nat
         /\ Cardinality(Attached) <= Cardinality(Key)
         /\ \A k \in Key : k \notin Attached =>
              /\ Cardinality(Attached \cup {k}) = Cardinality(Attached) + 1
              /\ Cardinality(Attached) + 1 <= Cardinality(Key)
         /\ \A k \in Attached : Cardinality(Attached \ {k}) = Cardinality(Attached) - 1
<1>1. IsFiniteSet(Key) /\ Attached \subseteq Key
  BY KeyAssumption DEF Attached
<1>2. /\ IsFiniteSet(Attached)
      /\ Cardinality(Attached) <= Cardinality(Key)
  BY <1>1, FS_Subset
<1>3. Cardinality(Attached) \in Nat /\ Cardinality(Key) \in Nat
  BY <1>1, <1>2, FS_CardinalityType
<1>4. ASSUME NEW k \in Key, k \notin Attached
      PROVE  /\ Cardinality(Attached \cup {k}) = Cardinality(Attached) + 1
             /\ Cardinality(Attached) + 1 <= Cardinality(Key)
  <2>1. Cardinality(Attached \cup {k}) = Cardinality(Attached) + 1
    BY <1>2, <1>4, FS_AddElement
  <2>2. Attached \cup {k} \in SUBSET Key
    BY <1>1, <1>4
  <2>3. Cardinality(Attached \cup {k}) <= Cardinality(Key)
    BY <1>1, <2>2, FS_Subset
  <2>4. QED
    BY <2>1, <2>3
<1>5. ASSUME NEW k \in Attached
      PROVE  Cardinality(Attached \ {k}) = Cardinality(Attached) - 1
  BY <1>2, <1>5, FS_RemoveElement
<1>6. QED
  BY <1>2, <1>3, <1>4, <1>5

\* The entries stay the same ones.
LEMMA SameEntries ==
  ASSUME HandleInv, Attached' = Attached, spare' = spare,
         pc' \in {"wait", "apply"}, pc \in {"wait", "apply"}
  PROVE  HandleInv'
  BY DEF HandleInv, HandlesAccountedFor, MayOpen

\* An entry that is replaced stays an entry; one that is removed is none.
LEMMA EntryChange ==
  ASSUME TypeOK, NEW k \in Key, NEW c, battery' = [battery EXCEPT ![k] = c]
  PROVE  Attached' = IF c = None THEN Attached \ {k} ELSE Attached \cup {k}
  BY DEF Attached, TypeOK

\* A device that is destroyed gives its handle back.
LEMMA ReleaseHandles ==
  ASSUME TypeOK, HandleInv, NEW k \in Attached, release(k),
         pc \in {"wait", "apply"}, pc' = pc
  PROVE  HandleInv'
<1>1. Attached' = Attached \ {k}
  BY EntryChange DEF release, Attached
<1>2. Cardinality(Attached') = Cardinality(Attached) - 1
  BY <1>1, EntryCount
<1>3. spare' = spare + 1 /\ spare \in Nat
  BY DEF release, put_back, TypeOK
<1>4. QED
  BY <1>2, <1>3, EntryCount DEF HandleInv, HandlesAccountedFor, MayOpen

\* A strike keeps the device, or gives its handle back.
LEMMA StrikeHandles ==
  ASSUME TypeOK, HandleInv, NEW k \in Attached, NEW b \in VirtualBattery, Strike(k, b),
         pc \in {"wait", "apply"}, pc' = pc
  PROVE  HandleInv'
<1>1. CASE b.failures + 1 < DeviceFailureLimit
  <2>1. Struck(b) \in VirtualBattery
    BY <1>1, DurationAssumption DEF Struck, VirtualBattery
  <2>2. Attached' = Attached
    BY <1>1, <2>1, EntryChange, BatteryAssumption DEF Strike, Attached
  <2>3. QED
    BY <1>1, <2>2, SameEntries DEF Strike
<1>2. CASE ~(b.failures + 1 < DeviceFailureLimit)
  BY <1>2, ReleaseHandles DEF Strike
<1>3. QED
  BY <1>1, <1>2

\* Taking a headset in loses no handle, through every outcome of attach.
LEMMA ApplyHandles ==
  ASSUME TypeOK, HandleInv, NEW h \in Headset, Apply(h)
  PROVE  HandleInv'
<1> DEFINE k == KeyOf[h]
<1>k. k \in Key
  BY KeyAssumption
<1>p. pc = "apply" /\ pc' = pc
  BY DEF Apply, ApplyUnavailable, ApplyDisconnected, ApplyNoLevelYet, ApplyNotNow,
         AttachSucceeds, AttachFails, AttachGivesUp, ApplyDeferred, ApplyUnchanged,
         ApplyPushed, ApplyPushFails, Take
<1>t. TypeOK'
  BY ApplyType
<1>c. /\ Cardinality(Attached) \in Nat /\ Cardinality(Key) \in Nat
      /\ spare \in Nat /\ Inherited \in Nat
      /\ k \notin Attached =>
           /\ Cardinality(Attached \cup {k}) = Cardinality(Attached) + 1
           /\ Cardinality(Attached) + 1 <= Cardinality(Key)
  BY <1>k, EntryCount, InheritedAssumption DEF TypeOK
\* The entry of k is changed and stays an entry.
<1>e. ASSUME k \in Attached, NEW c \in VirtualBattery,
             battery' = [battery EXCEPT ![k] = c], spare' = spare
      PROVE  HandleInv'
  BY <1>e, <1>k, <1>p, EntryChange, SameEntries, BatteryAssumption
\* A handle that was tried comes back, and the entries stay the same ones.
<1>b. ASSUME k \notin Attached, Borrow, battery' = battery
      PROVE  HandleInv'
  <2>1. Attached' = Attached
    BY <1>b DEF Attached
  <2>2. QED
    BY <1>b, <1>c, <1>p, <2>1
       DEF HandleInv, HandlesAccountedFor, Borrow, CanAcquire, Taken, MayOpen
<1>1. CASE ApplyUnavailable(h)
  <2>1. CASE k \in Attached
    <3>1. Seen(k) \in VirtualBattery
      BY <2>1, AnsweredType DEF Seen, VirtualBattery
    <3>2. QED
      BY <1>1, <1>e, <2>1, <3>1 DEF ApplyUnavailable
  <2>2. CASE k \notin Attached
    <3>1. Attached' = Attached
      BY <1>1, <1>k, <2>2, EntryChange DEF ApplyUnavailable, Seen, Attached
    <3>2. QED
      BY <1>1, <1>p, <3>1, SameEntries DEF ApplyUnavailable
  <2>3. QED
    BY <2>1, <2>2
<1>2. CASE ApplyDisconnected(h)
  <2>1. CASE k \notin Attached
    <3>1. Attached' = Attached
      BY <1>2, <2>1 DEF ApplyDisconnected, Attached
    <3>2. QED
      BY <1>2, <1>p, <2>1, <3>1, SameEntries DEF ApplyDisconnected
  <2>2. CASE k \in Attached /\ GoneFor(battery[k]) >= DisconnectSettle
    BY <1>2, <1>p, <2>2, ReleaseHandles DEF ApplyDisconnected
  <2>3. CASE k \in Attached /\ ~(GoneFor(battery[k]) >= DisconnectSettle)
    <3>1. Seen(k) \in VirtualBattery
      BY <2>3, AnsweredType DEF Seen, VirtualBattery
    <3>2. note(Seen(k).goneSince, FALSE) \in Clock
      BY <3>1 DEF VirtualBattery, Clock, note
    <3>3. [Seen(k) EXCEPT !.goneSince = note(@, FALSE)] \in VirtualBattery
      BY <3>1, <3>2 DEF VirtualBattery
    <3>4. QED
      BY <1>2, <1>e, <2>3, <3>3 DEF ApplyDisconnected
  <2>4. QED
    BY <2>1, <2>2, <2>3
<1>3. CASE ApplyNoLevelYet(h) \/ ApplyNotNow(h)
  <2>1. Attached' = Attached /\ spare' = spare
    BY <1>3 DEF ApplyNoLevelYet, ApplyNotNow, Attached
  <2>2. QED
    BY <1>p, <2>1, SameEntries
<1>4. ASSUME NEW reading \in Reading, AttachSucceeds(h, reading)
      PROVE  HandleInv'
  <2>1. Attached' = Attached \cup {k} /\ k \notin Attached
    BY <1>4, <1>k, FreshType, EntryChange, BatteryAssumption DEF AttachSucceeds
  <2>2. CanAcquire /\ spare' = Taken
    BY <1>4 DEF AttachSucceeds, Acquire
  <2>3. QED
    BY <1>c, <1>p, <2>1, <2>2
       DEF HandleInv, HandlesAccountedFor, CanAcquire, Taken, MayOpen
<1>5. CASE AttachFails(h)
  <2>1. CASE spare' = spare
    BY <1>5, <1>p, <2>1, SameEntries DEF AttachFails, Attached
  <2>2. CASE Borrow
    BY <1>5, <1>b, <2>2 DEF AttachFails
  <2>3. QED
    BY <1>5, <2>1, <2>2 DEF AttachFails
<1>6. CASE AttachGivesUp(h)
  BY <1>6, <1>b DEF AttachGivesUp
<1>7. ASSUME NEW report \in Report(k), ApplyDeferred(h, report)
      PROVE  HandleInv'
  <2>1. k \in Attached
    BY <1>7 DEF ApplyDeferred
  <2>2. Answered(k) \in VirtualBattery
    BY <2>1, AnsweredType
  <2>3. report.percent \in Percent /\ report.sample \in Sample \cup {None}
    BY <2>1, LevelType
  <2>4. [Answered(k) EXCEPT !.deferred = report.percent,
                            !.deferredSample = report.sample] \in VirtualBattery
    BY <2>2, <2>3 DEF VirtualBattery
  <2>5. QED
    BY <1>7, <1>e, <2>1, <2>4 DEF ApplyDeferred
<1>8. ASSUME NEW report \in Report(k), ApplyUnchanged(h, report)
      PROVE  HandleInv'
  BY <1>8, <1>e, AnsweredType DEF ApplyUnchanged
<1>9. ASSUME NEW report \in Report(k), ApplyPushed(h, report)
      PROVE  HandleInv'
  <2>1. k \in Attached
    BY <1>9 DEF ApplyPushed
  <2>2. Settled(k) \in VirtualBattery /\ Level(k, report) \in Reading
    BY <2>1, AnsweredType, LevelType
  <2>3. 0 \in 0..RepublishEvery /\ 0 \in 0..(DeviceFailureLimit - 1)
    BY DurationAssumption
  <2>4. [Settled(k) EXCEPT !.device = Level(k, report),
                           !.publishedAt = 0, !.failures = 0] \in VirtualBattery
    BY <2>2, <2>3 DEF VirtualBattery
  <2>5. QED
    BY <1>9, <1>e, <2>1, <2>4 DEF ApplyPushed
<1>10. ASSUME NEW report \in Report(k), ApplyPushFails(h, report)
       PROVE  HandleInv'
  <2>1. k \in Attached
    BY <1>10 DEF ApplyPushFails
  <2>2. PICK kept \in {battery[k].device, Level(k, report)} :
          Strike(k, [Settled(k) EXCEPT !.device = kept, !.publishedAt = 0])
    BY <1>10 DEF ApplyPushFails
  <2>3. [Settled(k) EXCEPT !.device = kept, !.publishedAt = 0] \in VirtualBattery
    BY <1>10, <2>1, FailedPushType
  <2>4. QED
    BY <1>p, <2>1, <2>2, <2>3, StrikeHandles
<1>11. QED
  BY <1>1, <1>2, <1>3, <1>4, <1>5, <1>6, <1>7, <1>8, <1>9, <1>10 DEF Apply

\* The handles of the withdrawn devices come back, each once.
LEMMA SweepHandles ==
  ASSUME TypeOK, HandleInv, NEW spent \in 0..MaxTick, SweepAfter(spent)
  PROVE  HandleInv'
<1>1. spent \in Nat /\ Expired \subseteq Attached
  BY DurationAssumption DEF Expired
<1>2. Attached' = Attached \ Expired
  <2>1. ASSUME NEW j \in Key
        PROVE  battery'[j] # None <=> j \in Attached \ Expired
    <3>1. CASE j \in Attached \ Expired
      <4>1. Noted(battery[j]) \in VirtualBattery
        BY <3>1, AnsweredType, NotedType
      <4>2. Aged(Noted(battery[j]), spent) \in VirtualBattery
        BY <1>1, <4>1, AgedType
      <4>3. battery'[j] = Aged(Noted(battery[j]), spent)
        BY <3>1, <4>1, BatteryAssumption DEF SweepAfter, PassTime, Swept
      <4>4. QED
        BY <3>1, <4>2, <4>3, BatteryAssumption
    <3>2. CASE j \notin Attached \ Expired
      BY <3>2 DEF SweepAfter, PassTime, Swept
    <3>3. QED
      BY <3>1, <3>2
  <2>2. QED
    BY <2>1, <1>1 DEF Attached
<1>3. Cardinality(Attached \ Expired) = Cardinality(Attached) - Cardinality(Expired)
  <2>1. Attached \cap Expired = Expired
    BY <1>1
  <2>2. IsFiniteSet(Attached)
    BY EntryCount
  <2>3. Cardinality(Attached \ Expired)
          = Cardinality(Attached) - Cardinality(Attached \cap Expired)
    BY <2>2, FS_Difference
  <2>4. QED
    BY <2>1, <2>3
<1>4. /\ pc = "apply" /\ pc' = "wait" /\ spare' = spare + Cardinality(Expired)
      /\ spare \in Nat /\ Cardinality(Expired) \in Nat /\ Cardinality(Attached) \in Nat
      /\ Cardinality(Key) \in Nat
  BY EntryCount, SweptType DEF SweepAfter, put_back, TypeOK
<1>5. QED
  BY <1>2, <1>3, <1>4 DEF HandleInv, HandlesAccountedFor, MayOpen

\* Each handle the service manager passed is spare or under a device for as long
\* as the loop runs, whatever fails; a daemon passed none holds no more handles
\* than there are headsets.
THEOREM HandlesKept == Spec => []HandlesAccountedFor
<1>1. Init => HandleInv
  <2> SUFFICES ASSUME Init
               PROVE  HandleInv
    OBVIOUS
  <2>1. Attached = {}
    BY DEF Init, Attached
  <2>2. Cardinality(Attached) = 0
    BY <2>1, FS_EmptySet
  <2>3. Cardinality(Key) \in Nat
    BY KeyAssumption, FS_CardinalityType
  <2>4. QED
    BY <2>1, <2>2, <2>3, InheritedAssumption
       DEF Init, PoolInit, HandleInv, HandlesAccountedFor, MayOpen
<1>2. TypeOK /\ HandleInv /\ [Next]_vars => HandleInv'
  <2> SUFFICES ASSUME TypeOK, HandleInv, [Next]_vars
               PROVE  HandleInv'
    OBVIOUS
  <2>1. CASE Poll \/ RaiseStop
    <3>1. /\ Attached' = Attached /\ spare' = spare
          /\ pc \in {"wait", "apply"} /\ pc' \in {"wait", "apply"}
      BY <2>1 DEF Poll, RaiseStop, Attached
    <3>2. QED
      BY <3>1, SameEntries
  <2>2. ASSUME NEW h \in Headset, Apply(h)
        PROVE  HandleInv'
    BY <2>2, ApplyHandles
  <2>3. CASE Sweep
    BY <2>3, SweepHandles DEF Sweep
  <2>4. CASE Elapse
    <3>1. \A j \in Attached : Aged(battery[j], 1) # None
      BY AnsweredType, AgedType, BatteryAssumption
    <3>2. Attached' = Attached
      BY <2>4, <3>1 DEF Elapse, PassTime, Attached
    <3>3. QED
      BY <2>4, <3>2, SameEntries DEF Elapse
  <2>5. ASSUME NEW k \in Key, ServeFails(k)
        PROVE  HandleInv'
    BY <2>5, AnsweredType, StrikeHandles DEF ServeFails
  <2>6. CASE Shutdown \/ WaitFails
    BY <2>6 DEF Shutdown, WaitFails, HandleInv, HandlesAccountedFor, Attached
  <2>7. CASE Restart
    <3>1. Attached' = {} /\ pc' = "wait" /\ spare' = Inherited
      BY <2>7 DEF Restart, HandleInv, Attached
    <3>2. Cardinality(Attached') = 0
      BY <3>1, FS_EmptySet
    <3>3. QED
      BY <3>1, <3>2, EntryCount, InheritedAssumption
         DEF HandleInv, HandlesAccountedFor, MayOpen
  <2>8. CASE Terminated \/ UNCHANGED vars
    BY <2>8 DEF Terminated, vars, HandleInv, HandlesAccountedFor, Attached, MayOpen
  <2>9. QED
    BY <2>1, <2>2, <2>3, <2>4, <2>5, <2>6, <2>7, <2>8 DEF Next
<1>3. HandleInv => HandlesAccountedFor
  BY DEF HandleInv
<1>4. QED
  BY <1>1, <1>2, <1>3, TypeCorrect, PTL DEF Spec
=============================================================================
