--------------------------- MODULE DesktopProofs ----------------------------
(***************************************************************************)
(* What the desktop is shown of the bridge, for every set of headsets and  *)
(* levels and every bound: which levels are shown, and that the bridge     *)
(* implements Desktop, each of its steps being a step of the entries the   *)
(* user sees, or none.                                                     *)
(***************************************************************************)
EXTENDS BridgeDesktop, BridgeReadings, BridgeClockProofs

(* ----------------------------------------------------------------------- *)
(* Which levels are shown: what a poll may do to the level of an entry,    *)
(* and to the level it has deferred.                                       *)

\* A move from the level b shows to new is a plausible one, or was announced by
\* the level b has deferred.
Believable(b, new) ==
  \/ /\ AbsDiff(b.device.percent, new.percent) <= MaxPlausibleStep
     /\ new.percent > b.device.percent => b.device.charging \/ new.charging
  \/ /\ b.deferred # None
     /\ AbsDiff(b.deferred, new.percent) <= ConfirmTolerance

\* A battery in doubt contradicts the level it shows.
Doubtful(b) ==
  b.deferred # None => AbsDiff(b.deferred, b.device.percent) > MaxPlausibleStep

\* What a step may do to an entry that stays one.
LevelStep(b, c) ==
  /\ Believable(b, c.device)
  /\ Doubtful(b) => Doubtful(c)

(* ----------------------------------------------------------------------- *)
(* The policy.                                                             *)

\* A level is a number.
LEMMA PercentInt ==
  ASSUME NEW p \in Percent
  PROVE  p \in Int
<1>1. p \in 0..100
  BY PercentAssumption
<1>2. QED
  BY <1>1

\* AbsDiff is a distance.
LEMMA AbsDiffType ==
  ASSUME NEW m \in Int, NEW n \in Int
  PROVE  /\ AbsDiff(m, n) \in Nat
         /\ AbsDiff(m, n) = AbsDiff(n, m)
         /\ AbsDiff(m, m) = 0
  BY DEF AbsDiff

\* vet accepts a jump only next to the level deferred before, and any other
\* move only within the bound, and upwards only on the cable.
LEMMA VetAccepts ==
  ASSUME NEW published \in Reading, NEW candidate \in Reading,
         NEW deferred, vet(published, candidate, deferred) = "Accept"
  PROVE  \/ /\ AbsDiff(published.percent, candidate.percent) <= MaxPlausibleStep
            /\ candidate.percent > published.percent =>
                 published.charging \/ candidate.charging
         \/ /\ deferred # None
            /\ AbsDiff(deferred, candidate.percent) <= ConfirmTolerance
<1>1. published.percent \in Int /\ candidate.percent \in Int
  <2>1. published.percent \in Percent /\ candidate.percent \in Percent
    BY DEF Reading
  <2>2. QED
    BY <2>1, PercentInt
<1>2. AbsDiff(published.percent, candidate.percent) \in Nat
  BY <1>1, AbsDiffType
<1>3. CASE Implausible(published, candidate)
  BY <1>3 DEF vet, Confirms
<1>4. CASE ~Implausible(published, candidate)
  BY <1>2, <1>4, BoundAssumption DEF vet, Implausible, RisesUncharged
<1>5. QED
  BY <1>3, <1>4

\* vet has three verdicts.
LEMMA VetAnswers ==
  ASSUME NEW published, NEW candidate, NEW deferred
  PROVE  vet(published, candidate, deferred) \in {"Accept", "Hold", "Defer"}
  BY DEF vet

\* A deferred level contradicts the one shown.
LEMMA VetDefers ==
  ASSUME NEW published, NEW candidate, NEW deferred,
         vet(published, candidate, deferred) = "Defer"
  PROVE  AbsDiff(published.percent, candidate.percent) > MaxPlausibleStep
  BY DEF vet, Implausible

(* ----------------------------------------------------------------------- *)
(* One entry.                                                              *)

\* The level shown and the deferred one are numbers.
LEMMA DeviceType ==
  ASSUME NEW b \in VirtualBattery
  PROVE  /\ b.device \in Reading
         /\ b.device.percent \in Int
         /\ b.deferred = None \/ b.deferred \in Int
<1>1. b.device \in Reading /\ b.deferred \in Percent \cup {None}
  BY DEF VirtualBattery
<1>2. b.device.percent \in Percent
  BY <1>1 DEF Reading
<1>3. QED
  BY <1>1, <1>2, PercentInt

\* The level already shown is believable.
LEMMA SameLevelStep ==
  ASSUME NEW b \in VirtualBattery, NEW c, c.device = b.device,
         c.deferred = b.deferred \/ c.deferred = None
  PROVE  LevelStep(b, c)
<1>1. AbsDiff(b.device.percent, b.device.percent) = 0
  BY DeviceType, AbsDiffType
<1>2. Believable(b, b.device)
  BY <1>1, DeviceType, BoundAssumption DEF Believable
<1>3. QED
  BY <1>2 DEF LevelStep, Doubtful

\* What vetted lets through is believable.
LEMMA VettedStep ==
  ASSUME TypeOK, NEW k \in Attached, NEW report \in Report(k),
         Verdict(k, report) # "Defer",
         NEW kept \in {battery[k].device, Level(k, report)},
         NEW c, c.device = kept, c.deferred = None
  PROVE  LevelStep(battery[k], c)
<1> DEFINE candidate == [percent |-> report.percent, charging |-> report.charging]
<1>1. battery[k] \in VirtualBattery /\ battery[k].device \in Reading
  BY AnsweredType, DeviceType
<1>2. candidate \in Reading
  BY LevelType DEF Reading
<1>3. CASE kept = battery[k].device
  BY <1>1, <1>3, SameLevelStep
<1>4. CASE Verdict(k, report) = "Hold"
  BY <1>1, <1>4, SameLevelStep DEF Level
<1>5. CASE Verdict(k, report) = "Accept" /\ kept = Level(k, report)
  <2>1. kept = candidate
    BY <1>5 DEF Level
  <2>2. \/ /\ AbsDiff(battery[k].device.percent, candidate.percent) <= MaxPlausibleStep
           /\ candidate.percent > battery[k].device.percent =>
                battery[k].device.charging \/ candidate.charging
        \/ /\ Opinion(k, report) # None
           /\ AbsDiff(Opinion(k, report), candidate.percent) <= ConfirmTolerance
    BY <1>1, <1>2, <1>5, VetAccepts DEF Verdict
  <2>3. Opinion(k, report) \in {None, battery[k].deferred}
    BY DEF Opinion, second_opinion
  <2>4. Believable(battery[k], candidate)
    BY <2>2, <2>3 DEF Believable
  <2>5. QED
    BY <2>1, <2>4 DEF LevelStep, Doubtful
<1>6. QED
  BY <1>3, <1>4, <1>5, VetAnswers DEF Verdict

\* A reading that is deferred leaves a doubt, and the level shown.
LEMMA DeferredStep ==
  ASSUME TypeOK, NEW k \in Attached, NEW report \in Report(k),
         Verdict(k, report) = "Defer",
         NEW c, c.device = battery[k].device, c.deferred = report.percent
  PROVE  LevelStep(battery[k], c)
<1> DEFINE b == battery[k]
<1>1. b \in VirtualBattery /\ b.device.percent \in Int
  BY AnsweredType, DeviceType
<1>2. report.percent \in Int
  BY LevelType, PercentInt
<1>3. AbsDiff(b.device.percent, report.percent) > MaxPlausibleStep
  BY VetDefers DEF Verdict
<1>4. Doubtful(c)
  BY <1>1, <1>2, <1>3, AbsDiffType DEF Doubtful
<1>5. Believable(b, c.device)
  BY <1>1, SameLevelStep DEF LevelStep
<1>6. QED
  BY <1>4, <1>5 DEF LevelStep

\* The level shown and the doubt of a headset that was seen, or answered.
LEMMA AnsweredLevel ==
  ASSUME TypeOK, NEW k \in Attached
  PROVE  /\ Answered(k).device = battery[k].device
         /\ Settled(k).device = battery[k].device
         /\ Settled(k).deferred = None
<1>1. battery[k] \in VirtualBattery
  BY AnsweredType
<1>2. Answered(k).device = battery[k].device
  BY <1>1 DEF Answered, VirtualBattery
<1>3. Settled(k).device = Answered(k).device /\ Settled(k).deferred = None
  BY AnsweredType DEF Settled, VirtualBattery
<1>4. QED
  BY <1>2, <1>3

(* ----------------------------------------------------------------------- *)
(* Every entry.                                                            *)

\* A new entry shows a level that is not in doubt; an entry that stays one makes
\* a step of its level.
LevelsStep ==
  \A j \in Key : battery'[j] # None =>
    \/ j \notin Attached /\ battery'[j].deferred = None
    \/ j \in Attached /\ LevelStep(battery[j], battery'[j])

\* At most the entry of k changes.
LEMMA OneLevelStep ==
  ASSUME TypeOK, NEW k \in Key, NEW c, battery' = [battery EXCEPT ![k] = c],
         c # None => \/ k \notin Attached /\ c.deferred = None
                     \/ k \in Attached /\ LevelStep(battery[k], c)
  PROVE  LevelsStep
<1>1. ASSUME NEW j \in Key, j # k, battery[j] # None
      PROVE  j \in Attached /\ LevelStep(battery[j], battery[j])
  BY <1>1, AnsweredType, SameLevelStep DEF Attached
<1>2. QED
  BY <1>1 DEF LevelsStep, TypeOK

\* Nothing changes.
LEMMA NoLevelStep ==
  ASSUME TypeOK, battery' = battery
  PROVE  LevelsStep
<1>1. ASSUME NEW j \in Key, battery[j] # None
      PROVE  j \in Attached /\ LevelStep(battery[j], battery[j])
  BY <1>1, AnsweredType, SameLevelStep DEF Attached
<1>2. QED
  BY <1>1 DEF LevelsStep

\* A strike makes the same step as what it strikes.
LEMMA StrikeLevels ==
  ASSUME TypeOK, NEW k \in Attached, NEW b \in VirtualBattery, Strike(k, b),
         \A c : c.device = b.device /\ c.deferred = b.deferred
               => LevelStep(battery[k], c)
  PROVE  LevelsStep
<1>1. k \in Key
  BY DEF Attached
<1>2. Struck(b).device = b.device /\ Struck(b).deferred = b.deferred
  BY DEF Struck, VirtualBattery
<1>3. LevelStep(battery[k], Struck(b))
  BY <1>2
<1>4. CASE b.failures + 1 < DeviceFailureLimit
  BY <1>1, <1>3, <1>4, OneLevelStep DEF Strike
<1>5. CASE ~(b.failures + 1 < DeviceFailureLimit)
  BY <1>1, <1>5, OneLevelStep DEF Strike, release
<1>6. QED
  BY <1>4, <1>5

\* Taking a headset in makes a step of its level.
LEMMA ApplyLevels ==
  ASSUME TypeOK, NEW h \in Headset, Apply(h)
  PROVE  LevelsStep
<1> DEFINE k == KeyOf[h]
<1>k. k \in Key
  BY KeyAssumption
<1>1. CASE ApplyUnavailable(h)
  <2>1. CASE k \in Attached
    <3>1. battery[k] \in VirtualBattery /\ Seen(k) = [battery[k] EXCEPT !.lastSeen = 0]
      BY <2>1, AnsweredType DEF Seen, Attached
    <3>2. Seen(k).device = battery[k].device /\ Seen(k).deferred = battery[k].deferred
      BY <3>1 DEF VirtualBattery
    <3>3. QED
      BY <1>1, <1>k, <2>1, <3>1, <3>2, SameLevelStep, OneLevelStep DEF ApplyUnavailable
  <2>2. CASE k \notin Attached
    BY <1>1, <1>k, <2>2, OneLevelStep DEF ApplyUnavailable, Seen, Attached
  <2>3. QED
    BY <2>1, <2>2
<1>2. CASE ApplyDisconnected(h)
  <2>1. CASE k \notin Attached
    BY <1>2, <2>1, NoLevelStep DEF ApplyDisconnected
  <2>2. CASE k \in Attached /\ GoneFor(battery[k]) >= DisconnectSettle
    BY <1>2, <1>k, <2>2, OneLevelStep DEF ApplyDisconnected, release
  <2>3. CASE k \in Attached /\ ~(GoneFor(battery[k]) >= DisconnectSettle)
    <3> DEFINE c == [Seen(k) EXCEPT !.goneSince = note(@, FALSE)]
    <3>1. battery[k] \in VirtualBattery /\ Seen(k) = [battery[k] EXCEPT !.lastSeen = 0]
      BY <2>3, AnsweredType DEF Seen, Attached
    <3>2. c.device = battery[k].device /\ c.deferred = battery[k].deferred
      BY <3>1 DEF VirtualBattery
    <3>3. battery' = [battery EXCEPT ![k] = c]
      BY <1>2, <2>3 DEF ApplyDisconnected
    <3> HIDE DEF c
    <3>4. QED
      BY <1>k, <2>3, <3>1, <3>2, <3>3, SameLevelStep, OneLevelStep
  <2>4. QED
    BY <2>1, <2>2, <2>3
<1>3. CASE ApplyNoLevelYet(h) \/ ApplyNotNow(h) \/ AttachFails(h) \/ AttachGivesUp(h)
  BY <1>3, NoLevelStep DEF ApplyNoLevelYet, ApplyNotNow, AttachFails, AttachGivesUp
<1>4. ASSUME NEW reading \in Reading, AttachSucceeds(h, reading)
      PROVE  LevelsStep
  <2>1. Fresh(reading).deferred = None
    BY DEF Fresh
  <2>2. QED
    BY <1>4, <1>k, <2>1, OneLevelStep DEF AttachSucceeds
<1>5. ASSUME NEW report \in Report(k), ApplyDeferred(h, report)
      PROVE  LevelsStep
  <2> DEFINE c == [Answered(k) EXCEPT !.deferred = report.percent,
                                      !.deferredSample = report.sample]
  <2>1. /\ k \in Attached /\ Verdict(k, report) = "Defer"
        /\ battery' = [battery EXCEPT ![k] = c]
    BY <1>5 DEF ApplyDeferred
  <2>2. c.device = battery[k].device /\ c.deferred = report.percent
    BY <2>1, AnsweredType, AnsweredLevel DEF VirtualBattery
  <2> HIDE DEF c
  <2>3. LevelStep(battery[k], c)
    BY <2>1, <2>2, DeferredStep
  <2>4. QED
    BY <1>k, <2>1, <2>3, OneLevelStep
<1>6. ASSUME NEW report \in Report(k), ApplyUnchanged(h, report)
      PROVE  LevelsStep
  <2>1. /\ k \in Attached /\ Verdict(k, report) # "Defer"
        /\ battery' = [battery EXCEPT ![k] = Settled(k)]
    BY <1>6 DEF ApplyUnchanged
  <2>2. LevelStep(battery[k], Settled(k))
    BY <2>1, AnsweredLevel, VettedStep
  <2>3. QED
    BY <1>k, <2>1, <2>2, OneLevelStep
<1>7. ASSUME NEW report \in Report(k), ApplyPushed(h, report)
      PROVE  LevelsStep
  <2> DEFINE c == [Settled(k) EXCEPT !.device = Level(k, report),
                                     !.publishedAt = 0, !.failures = 0]
  <2>1. /\ k \in Attached /\ Verdict(k, report) # "Defer"
        /\ battery' = [battery EXCEPT ![k] = c]
    BY <1>7 DEF ApplyPushed
  <2>2. c.device = Level(k, report) /\ c.deferred = None
    <3>1. Settled(k) \in VirtualBattery /\ Settled(k).deferred = None
      BY <2>1, AnsweredType, AnsweredLevel
    <3>2. QED
      BY <3>1 DEF VirtualBattery
  <2> HIDE DEF c
  <2>3. LevelStep(battery[k], c)
    BY <2>1, <2>2, VettedStep
  <2>4. QED
    BY <1>k, <2>1, <2>3, OneLevelStep
<1>8. ASSUME NEW report \in Report(k), ApplyPushFails(h, report)
      PROVE  LevelsStep
  <2>1. k \in Attached /\ Verdict(k, report) # "Defer"
    BY <1>8 DEF ApplyPushFails
  <2>2. PICK kept \in {battery[k].device, Level(k, report)} :
          Strike(k, [Settled(k) EXCEPT !.device = kept, !.publishedAt = 0])
    BY <1>8 DEF ApplyPushFails
  <2> DEFINE b == [Settled(k) EXCEPT !.device = kept, !.publishedAt = 0]
  <2>3. b \in VirtualBattery
    BY <1>8, <2>1, FailedPushType
  <2>4. b.device = kept /\ b.deferred = None
    <3>1. Settled(k) \in VirtualBattery /\ Settled(k).deferred = None
      BY <2>1, AnsweredType, AnsweredLevel
    <3>2. QED
      BY <3>1 DEF VirtualBattery
  <2> HIDE DEF b
  <2>5. \A c : c.device = b.device /\ c.deferred = b.deferred => LevelStep(battery[k], c)
    BY <1>8, <2>1, <2>4, VettedStep
  <2>6. Strike(k, b)
    BY <2>2 DEF b
  <2>7. QED
    BY <2>1, <2>3, <2>5, <2>6, StrikeLevels
<1>9. QED
  BY <1>1, <1>2, <1>3, <1>4, <1>5, <1>6, <1>7, <1>8 DEF Apply

\* Time alone, and what is noted at the end of a poll, leave the levels be.
LEMMA AgedLevel ==
  ASSUME NEW b \in VirtualBattery, NEW d \in Nat
  PROVE  /\ Aged(b, d).device = b.device /\ Aged(b, d).deferred = b.deferred
         /\ Noted(b).device = b.device /\ Noted(b).deferred = b.deferred
  BY DEF Aged, Noted, VirtualBattery

\* Every step of the loop makes a step of each level.
LEMMA NextLevels ==
  ASSUME TypeOK, [Next]_vars
  PROVE  LevelsStep
<1>1. CASE Poll \/ RaiseStop
  BY <1>1, NoLevelStep DEF Poll, RaiseStop
<1>2. ASSUME NEW h \in Headset, Apply(h)
      PROVE  LevelsStep
  BY <1>2, ApplyLevels
<1>3. CASE Sweep
  <2>1. PICK spent \in 0..MaxTick : SweepAfter(spent)
    BY <1>3 DEF Sweep
  <2>2. spent \in Nat
    BY DurationAssumption
  <2>3. ASSUME NEW j \in Key, battery'[j] # None
        PROVE  j \in Attached /\ LevelStep(battery[j], battery'[j])
    <3>1. battery'[j] = Aged(Swept[j], spent) /\ Swept[j] # None
      BY <2>1, <2>3 DEF SweepAfter, PassTime
    <3>2. j \in Attached /\ Swept[j] = Noted(battery[j])
      BY <3>1 DEF Swept
    <3>3. battery[j] \in VirtualBattery /\ Noted(battery[j]) \in VirtualBattery
      BY <3>2, AnsweredType, NotedType
    <3>4. /\ battery'[j].device = battery[j].device
          /\ battery'[j].deferred = battery[j].deferred
      BY <2>2, <3>1, <3>2, <3>3, AgedLevel
    <3>5. QED
      BY <3>2, <3>3, <3>4, SameLevelStep
  <2>4. QED
    BY <2>3 DEF LevelsStep
<1>4. CASE Elapse
  <2>1. ASSUME NEW j \in Key, battery'[j] # None
        PROVE  j \in Attached /\ LevelStep(battery[j], battery'[j])
    <3>1. battery'[j] = Aged(battery[j], 1) /\ j \in Attached
      BY <1>4, <2>1 DEF Elapse, PassTime, Attached
    <3>2. battery[j] \in VirtualBattery
      BY <3>1, AnsweredType
    <3>3. /\ battery'[j].device = battery[j].device
          /\ battery'[j].deferred = battery[j].deferred
      BY <3>1, <3>2, AgedLevel
    <3>4. QED
      BY <3>1, <3>2, <3>3, SameLevelStep
  <2>2. QED
    BY <2>1 DEF LevelsStep
<1>5. ASSUME NEW k \in Key, ServeFails(k)
      PROVE  LevelsStep
  <2>1. k \in Attached /\ battery[k] \in VirtualBattery /\ Strike(k, battery[k])
    BY <1>5, AnsweredType DEF ServeFails
  <2>2. \A c : c.device = battery[k].device /\ c.deferred = battery[k].deferred
               => LevelStep(battery[k], c)
    BY <2>1, SameLevelStep
  <2>3. QED
    BY <2>1, <2>2, StrikeLevels
<1>6. CASE Shutdown \/ WaitFails
  BY <1>6 DEF Shutdown, WaitFails, LevelsStep
<1>7. CASE Restart \/ Terminated \/ UNCHANGED vars
  BY <1>7, NoLevelStep DEF Restart, Terminated, vars
<1>8. QED
  BY <1>1, <1>2, <1>3, <1>4, <1>5, <1>6, <1>7 DEF Next

\* For every set of levels and every pair of bounds, the level shown never
\* creeps up off the cable, and only jumps to where a reading before it pointed.
THEOREM BelievableMoves == Spec => LevelMovesAreBelievable
<1> DEFINE Moves == \A k \in Attached : battery'[k] # None =>
                      Believable(battery[k], battery'[k].device)
<1>1. TypeOK /\ [Next]_vars => Moves
  <2>1. TypeOK /\ [Next]_vars => LevelsStep
    BY NextLevels
  <2>2. LevelsStep => Moves
    BY DEF LevelsStep, LevelStep, Attached
  <2>3. QED
    BY <2>1, <2>2
<1>2. Moves <=> \A k \in Attached : battery'[k] # None =>
                  LET old == battery[k].device
                      new == battery'[k].device
                  IN \/ /\ AbsDiff(old.percent, new.percent) <= MaxPlausibleStep
                        /\ new.percent > old.percent => old.charging \/ new.charging
                     \/ /\ battery[k].deferred # None
                        /\ AbsDiff(battery[k].deferred, new.percent) <= ConfirmTolerance
  BY DEF Believable
<1>3. QED
  BY <1>1, <1>2, TypeCorrect, PTL DEF Spec, LevelMovesAreBelievable

\* A doubt never outlives its contradiction: no sequence of readings, pushes and
\* failures leaves a deferred level next to a shown one it agrees with.
THEOREM Doubts == Spec => []DoubtContradictsTheLevelShown
<1> DEFINE Inv == \A k \in Attached : Doubtful(battery[k])
<1>1. Init => Inv
  BY DEF Init, Attached
<1>2. TypeOK /\ TypeOK' /\ Inv /\ [Next]_vars => Inv'
  <2> SUFFICES ASSUME TypeOK, Inv, [Next]_vars, NEW k \in Key, battery'[k] # None
               PROVE  Doubtful(battery'[k])
    BY DEF Attached, Doubtful
  <2>1. LevelsStep
    BY NextLevels
  <2>2. CASE battery'[k].deferred = None
    BY <2>2 DEF Doubtful
  <2>3. CASE k \in Attached /\ LevelStep(battery[k], battery'[k])
    BY <2>3 DEF LevelStep
  <2>4. QED
    BY <2>1, <2>2, <2>3 DEF LevelsStep
<1>3. Inv => DoubtContradictsTheLevelShown
  BY DEF Doubtful, DoubtContradictsTheLevelShown
<1>4. QED
  BY <1>1, <1>2, <1>3, TypeCorrect, PTL DEF Spec

(* ----------------------------------------------------------------------- *)
(* Jumps, and the readings they take.                                      *)

\* The readings only record: each step is one of the bridge.
LEMMA ReadingIsBridge == [ReadingNext]_readingVars => [Next]_vars
<1>1. ASSUME NEW h \in Headset, ReadingApply(h)
      PROVE  Apply(h)
  BY <1>1 DEF ReadingApply, Apply
<1>2. QED
  BY <1>1 DEF ReadingNext, Next, readingVars

LEMMA ReadingType == ReadingSpec => []TypeOK
<1>1. ReadingSpec => Spec
  BY ReadingIsBridge, PTL DEF ReadingSpec, Spec
<1>2. QED
  BY <1>1, TypeCorrect, PTL

\* An entry no reading was taken in for keeps its level and its doubt.
Undisturbed(b, c) ==
  /\ c.device = b.device
  /\ c.deferred = b.deferred
  /\ c.deferredSample = b.deferredSample

QuietStep ==
  \A j \in Key : battery'[j] # None =>
    \/ j \notin Attached /\ battery'[j].deferred = None
    \/ j \in Attached /\ Undisturbed(battery[j], battery'[j])

\* At most the entry of k changes.
LEMMA OneQuietStep ==
  ASSUME TypeOK, NEW k \in Key, NEW c, battery' = [battery EXCEPT ![k] = c],
         c # None => \/ k \notin Attached /\ c.deferred = None
                     \/ k \in Attached /\ Undisturbed(battery[k], c)
  PROVE  QuietStep
  BY DEF QuietStep, Undisturbed, Attached, TypeOK

LEMMA NoQuietStep ==
  ASSUME battery' = battery
  PROVE  QuietStep
  BY DEF QuietStep, Undisturbed, Attached

\* A poll that brings no reading of a headset with an entry is quiet.
LEMMA QuietApply ==
  ASSUME TypeOK, NEW h \in Headset,
         \/ ApplyUnavailable(h) \/ ApplyDisconnected(h) \/ ApplyNoLevelYet(h)
         \/ ApplyNotNow(h) \/ AttachFails(h) \/ AttachGivesUp(h)
         \/ \E reading \in Reading : AttachSucceeds(h, reading)
  PROVE  QuietStep
<1> DEFINE k == KeyOf[h]
<1>k. k \in Key
  BY KeyAssumption
<1>1. CASE ApplyUnavailable(h)
  <2>1. CASE k \in Attached
    <3>1. battery[k] \in VirtualBattery /\ Seen(k) = [battery[k] EXCEPT !.lastSeen = 0]
      BY <2>1, AnsweredType DEF Seen, Attached
    <3>2. Undisturbed(battery[k], Seen(k))
      BY <3>1 DEF Undisturbed, VirtualBattery
    <3>3. QED
      BY <1>1, <1>k, <2>1, <3>2, OneQuietStep DEF ApplyUnavailable
  <2>2. CASE k \notin Attached
    BY <1>1, <1>k, <2>2, OneQuietStep DEF ApplyUnavailable, Seen, Attached
  <2>3. QED
    BY <2>1, <2>2
<1>2. CASE ApplyDisconnected(h)
  <2>1. CASE k \notin Attached
    BY <1>2, <2>1, NoQuietStep DEF ApplyDisconnected
  <2>2. CASE k \in Attached /\ GoneFor(battery[k]) >= DisconnectSettle
    BY <1>2, <1>k, <2>2, OneQuietStep DEF ApplyDisconnected, release
  <2>3. CASE k \in Attached /\ ~(GoneFor(battery[k]) >= DisconnectSettle)
    <3> DEFINE c == [Seen(k) EXCEPT !.goneSince = note(@, FALSE)]
    <3>1. battery[k] \in VirtualBattery /\ Seen(k) = [battery[k] EXCEPT !.lastSeen = 0]
      BY <2>3, AnsweredType DEF Seen, Attached
    <3>2. Undisturbed(battery[k], c)
      BY <3>1 DEF Undisturbed, VirtualBattery
    <3>3. battery' = [battery EXCEPT ![k] = c]
      BY <1>2, <2>3 DEF ApplyDisconnected
    <3> HIDE DEF c
    <3>4. QED
      BY <1>k, <2>3, <3>2, <3>3, OneQuietStep
  <2>4. QED
    BY <2>1, <2>2, <2>3
<1>3. CASE ApplyNoLevelYet(h) \/ ApplyNotNow(h) \/ AttachFails(h) \/ AttachGivesUp(h)
  BY <1>3, NoQuietStep DEF ApplyNoLevelYet, ApplyNotNow, AttachFails, AttachGivesUp
<1>4. ASSUME NEW reading \in Reading, AttachSucceeds(h, reading)
      PROVE  QuietStep
  <2>1. Fresh(reading).deferred = None
    BY DEF Fresh
  <2>2. QED
    BY <1>4, <1>k, <2>1, OneQuietStep DEF AttachSucceeds
<1>5. QED
  BY <1>1, <1>2, <1>3, <1>4

\* So is every step of the loop outside of apply.
LEMMA QuietLoop ==
  ASSUME TypeOK,
         \/ Poll \/ Sweep \/ Elapse \/ (\E k \in Key : ServeFails(k)) \/ RaiseStop
         \/ Shutdown \/ WaitFails \/ Restart \/ Terminated \/ UNCHANGED vars
  PROVE  QuietStep
<1>1. CASE Sweep
  <2>1. PICK spent \in 0..MaxTick : SweepAfter(spent)
    BY <1>1 DEF Sweep
  <2>2. ASSUME NEW j \in Key, battery'[j] # None
        PROVE  j \in Attached /\ Undisturbed(battery[j], battery'[j])
    <3>1. battery'[j] = Aged(Swept[j], spent) /\ Swept[j] # None
      BY <2>1, <2>2 DEF SweepAfter, PassTime
    <3>2. j \in Attached /\ Swept[j] = Noted(battery[j])
      BY <3>1 DEF Swept
    <3>3. battery[j] \in VirtualBattery /\ Noted(battery[j]) \in VirtualBattery
      BY <3>2, AnsweredType, NotedType
    <3>4. Undisturbed(battery[j], Noted(battery[j]))
      BY <3>3 DEF Undisturbed, Noted, VirtualBattery
    <3>5. Undisturbed(Noted(battery[j]), battery'[j])
      BY <3>1, <3>2, <3>3 DEF Undisturbed, Aged, VirtualBattery
    <3>6. QED
      BY <3>2, <3>4, <3>5 DEF Undisturbed
  <2>3. QED
    BY <2>2 DEF QuietStep
<1>2. CASE Elapse
  <2>1. ASSUME NEW j \in Key, battery'[j] # None
        PROVE  j \in Attached /\ Undisturbed(battery[j], battery'[j])
    <3>1. battery'[j] = Aged(battery[j], 1) /\ j \in Attached
      BY <1>2, <2>1 DEF Elapse, PassTime, Attached
    <3>2. battery[j] \in VirtualBattery
      BY <3>1, AnsweredType
    <3>3. QED
      BY <3>1, <3>2 DEF Undisturbed, Aged, VirtualBattery
  <2>2. QED
    BY <2>1 DEF QuietStep
<1>3. ASSUME NEW k \in Key, ServeFails(k)
      PROVE  QuietStep
  <2>1. k \in Attached /\ battery[k] \in VirtualBattery /\ Strike(k, battery[k])
    BY <1>3, AnsweredType DEF ServeFails
  <2>2. Undisturbed(battery[k], Struck(battery[k]))
    BY <2>1 DEF Undisturbed, Struck, VirtualBattery
  <2>3. battery' = [battery EXCEPT ![k] = Struck(battery[k])]
        \/ battery' = [battery EXCEPT ![k] = None]
    BY <2>1 DEF Strike, release
  <2>4. QED
    BY <2>1, <2>2, <2>3, OneQuietStep
<1>4. CASE Shutdown \/ WaitFails
  BY <1>4 DEF Shutdown, WaitFails, QuietStep
<1>5. CASE Poll \/ RaiseStop \/ Restart \/ Terminated \/ UNCHANGED vars
  BY <1>5, NoQuietStep DEF Poll, RaiseStop, Restart, Terminated, vars
<1>6. QED
  BY <1>1, <1>2, <1>3, <1>4, <1>5

\* What a reading makes of the entry b: it is deferred, or it ends the doubt; and
\* the level only moves to one that was accepted.
TakesIn(b, c, report) ==
  \/ /\ c.device = b.device
     /\ c.deferred = report.percent /\ c.deferredSample = report.sample
  \/ /\ c.deferred = None
     /\ \/ c.device = b.device
        \/ /\ c.device = [percent |-> report.percent, charging |-> report.charging]
           /\ vet(b.device, c.device,
                  second_opinion(b.deferred, b.deferredSample, report.sample)) = "Accept"

\* The level shown for a reading that is not deferred.
LEMMA LevelTaken ==
  ASSUME TypeOK, NEW k \in Attached, NEW report \in Report(k),
         Verdict(k, report) # "Defer",
         NEW c, c.deferred = None, c.device \in {battery[k].device, Level(k, report)}
  PROVE  TakesIn(battery[k], c, report)
<1>1. CASE Verdict(k, report) = "Hold"
  BY <1>1 DEF Level, TakesIn
<1>2. CASE Verdict(k, report) = "Accept"
  BY <1>2 DEF Level, TakesIn, Verdict, Opinion
<1>3. QED
  BY <1>1, <1>2, VetAnswers DEF Verdict

\* Taking in a reading of a headset with an entry touches that entry alone.
LEMMA ReportTaken ==
  ASSUME TypeOK, NEW h \in Headset, NEW report \in Report(KeyOf[h]),
         \/ ApplyDeferred(h, report) \/ ApplyUnchanged(h, report)
         \/ ApplyPushed(h, report) \/ ApplyPushFails(h, report)
  PROVE  /\ KeyOf[h] \in Attached
         /\ \E c : /\ battery' = [battery EXCEPT ![KeyOf[h]] = c]
                   /\ c # None => TakesIn(battery[KeyOf[h]], c, report)
<1> DEFINE k == KeyOf[h]
<1>k. k \in Attached
  BY DEF ApplyDeferred, ApplyUnchanged, ApplyPushed, ApplyPushFails
<1>1. CASE ApplyDeferred(h, report)
  <2> DEFINE c == [Answered(k) EXCEPT !.deferred = report.percent,
                                      !.deferredSample = report.sample]
  <2>1. battery' = [battery EXCEPT ![k] = c]
    BY <1>1 DEF ApplyDeferred
  <2>2. /\ c.device = battery[k].device
        /\ c.deferred = report.percent /\ c.deferredSample = report.sample
    BY <1>k, AnsweredType, AnsweredLevel DEF VirtualBattery
  <2> HIDE DEF c
  <2>3. QED
    BY <1>k, <2>1, <2>2 DEF TakesIn
<1>2. CASE ApplyUnchanged(h, report)
  <2>1. battery' = [battery EXCEPT ![k] = Settled(k)] /\ Verdict(k, report) # "Defer"
    BY <1>2 DEF ApplyUnchanged
  <2>2. TakesIn(battery[k], Settled(k), report)
    BY <1>k, <2>1, AnsweredLevel, LevelTaken
  <2>3. QED
    BY <1>k, <2>1, <2>2
<1>3. CASE ApplyPushed(h, report)
  <2> DEFINE c == [Settled(k) EXCEPT !.device = Level(k, report),
                                     !.publishedAt = 0, !.failures = 0]
  <2>1. battery' = [battery EXCEPT ![k] = c] /\ Verdict(k, report) # "Defer"
    BY <1>3 DEF ApplyPushed
  <2>2. Settled(k) \in VirtualBattery /\ Settled(k).deferred = None
    BY <1>k, AnsweredType, AnsweredLevel
  <2>3. c.device = Level(k, report) /\ c.deferred = None
    BY <2>2 DEF VirtualBattery
  <2> HIDE DEF c
  <2>4. TakesIn(battery[k], c, report)
    BY <1>k, <2>1, <2>3, LevelTaken
  <2>5. QED
    BY <1>k, <2>1, <2>4
<1>4. CASE ApplyPushFails(h, report)
  <2>1. Verdict(k, report) # "Defer"
    BY <1>4 DEF ApplyPushFails
  <2>2. PICK kept \in {battery[k].device, Level(k, report)} :
          Strike(k, [Settled(k) EXCEPT !.device = kept, !.publishedAt = 0])
    BY <1>4 DEF ApplyPushFails
  <2> DEFINE b == [Settled(k) EXCEPT !.device = kept, !.publishedAt = 0]
  <2>3. b \in VirtualBattery
    BY <1>k, <2>1, FailedPushType
  <2>4. b.device = kept /\ b.deferred = None
    <3>1. Settled(k) \in VirtualBattery /\ Settled(k).deferred = None
      BY <1>k, AnsweredType, AnsweredLevel
    <3>2. QED
      BY <3>1 DEF VirtualBattery
  <2>5. Strike(k, b)
    BY <2>2
  <2> HIDE DEF b
  <2>6. Struck(b).device = kept /\ Struck(b).deferred = None
    BY <2>3, <2>4 DEF Struck, VirtualBattery
  <2>7. TakesIn(battery[k], Struck(b), report)
    BY <1>k, <2>1, <2>6, LevelTaken
  <2>8. battery' = [battery EXCEPT ![k] = Struck(b)] \/ battery' = [battery EXCEPT ![k] = None]
    BY <2>5 DEF Strike, release
  <2>9. QED
    BY <1>k, <2>7, <2>8
<1>5. QED
  BY <1>1, <1>2, <1>3, <1>4

\* What is deferred is what was heard last, and a daemon that ended shows nothing.
HeardInv ==
  /\ DOMAIN heard = Key
  /\ pc \in {"stopped", "dead"} => Attached = {}
  /\ \A k \in Attached : battery[k].deferred # None =>
       /\ heard[k].percent = battery[k].deferred
       /\ heard[k].sample = battery[k].deferredSample

Jumps(k) ==
  /\ k \in Attached /\ battery'[k] # None
  /\ AbsDiff(battery[k].device.percent, battery'[k].device.percent) > MaxPlausibleStep

TwoReadings(k) ==
  /\ heard'[k].sample = None \/ heard'[k].sample # heard[k].sample
  /\ heard[k].percent # None
  /\ AbsDiff(heard[k].percent, battery'[k].device.percent) <= ConfirmTolerance

\* A level shown anew is no jump from itself.
LEMMA StayingIsNoJump ==
  ASSUME TypeOK, NEW k \in Attached, battery'[k].device = battery[k].device
  PROVE  ~Jumps(k)
<1>1. AbsDiff(battery[k].device.percent, battery[k].device.percent) = 0
  BY AnsweredType, DeviceType, AbsDiffType
<1>2. QED
  BY <1>1, BoundAssumption DEF Jumps

\* A quiet step, with what was heard unchanged or forgotten with a fresh entry.
LEMMA QuietHears ==
  ASSUME TypeOK, HeardInv, QuietStep, DOMAIN heard' = Key,
         pc' \in {"stopped", "dead"} => Attached' = {},
         \A k \in Attached : battery'[k] # None => heard'[k] = heard[k]
  PROVE  HeardInv' /\ \A k \in Key : Jumps(k) => TwoReadings(k)
<1>1. ASSUME NEW k \in Key, battery'[k] # None, battery'[k].deferred # None
      PROVE  /\ heard'[k].percent = battery'[k].deferred
             /\ heard'[k].sample = battery'[k].deferredSample
  BY <1>1 DEF QuietStep, Undisturbed, HeardInv
<1>2. HeardInv'
  BY <1>1 DEF HeardInv, Attached
<1>3. ASSUME NEW k \in Key, Jumps(k)
      PROVE  FALSE
  BY <1>3, StayingIsNoJump DEF QuietStep, Undisturbed, Jumps
<1>4. QED
  BY <1>2, <1>3

\* A reading taken in: a jump takes one that agrees with another before it.
LEMMA ReportHears ==
  ASSUME TypeOK, HeardInv, NEW h \in Headset, NEW report \in Report(KeyOf[h]),
         \/ ApplyDeferred(h, report) \/ ApplyUnchanged(h, report)
         \/ ApplyPushed(h, report) \/ ApplyPushFails(h, report),
         Hears(KeyOf[h], report)
  PROVE  HeardInv' /\ \A k \in Key : Jumps(k) => TwoReadings(k)
<1> DEFINE k == KeyOf[h]
<1>1. k \in Attached /\ k \in Key
  BY ReportTaken DEF Attached
<1>2. PICK c : /\ battery' = [battery EXCEPT ![k] = c]
               /\ c # None => TakesIn(battery[k], c, report)
  BY ReportTaken
<1>3. /\ battery'[k] = c
      /\ \A j \in Key : j # k => battery'[j] = battery[j]
  BY <1>1, <1>2 DEF TypeOK
<1>4. /\ DOMAIN heard' = Key
      /\ heard'[k] = [percent |-> report.percent, sample |-> report.sample]
      /\ \A j \in Key : j # k => heard'[j] = heard[j]
  BY <1>1 DEF Hears, HeardInv
<1>p. pc' = "apply"
  BY DEF ApplyDeferred, ApplyUnchanged, ApplyPushed, ApplyPushFails, Take
<1>5. HeardInv'
  <2>1. ASSUME NEW j \in Key, battery'[j] # None, battery'[j].deferred # None
        PROVE  /\ heard'[j].percent = battery'[j].deferred
               /\ heard'[j].sample = battery'[j].deferredSample
    <3>1. CASE j = k
      BY <1>2, <1>3, <1>4, <2>1, <3>1 DEF TakesIn
    <3>2. CASE j # k
      BY <1>3, <1>4, <2>1, <3>2 DEF HeardInv, Attached
    <3>3. QED
      BY <3>1, <3>2
  <2>2. QED
    BY <1>4, <1>p, <2>1 DEF HeardInv, Attached
<1>6. ASSUME NEW j \in Key, Jumps(j)
      PROVE  TwoReadings(j)
  <2>1. j = k /\ c # None /\ c.device # battery[k].device
    BY <1>3, <1>6, StayingIsNoJump DEF Jumps
  <2> DEFINE second == second_opinion(battery[k].deferred, battery[k].deferredSample,
                                      report.sample)
  <2>2. vet(battery[k].device, c.device, second) = "Accept"
    BY <1>2, <2>1 DEF TakesIn
  <2>3. Implausible(battery[k].device, c.device)
    BY <1>3, <1>6, <2>1 DEF Jumps, Implausible
  <2>4. second # None /\ AbsDiff(second, c.device.percent) <= ConfirmTolerance
    BY <2>2, <2>3 DEF vet, Confirms
  <2>5. /\ second = battery[k].deferred
        /\ report.sample = None \/ report.sample # battery[k].deferredSample
    BY <2>4 DEF second_opinion
  <2> HIDE DEF second
  <2>6. heard[k].percent = second /\ heard[k].sample = battery[k].deferredSample
    BY <1>1, <2>4, <2>5 DEF HeardInv
  <2>7. QED
    BY <1>3, <1>4, <2>1, <2>4, <2>5, <2>6 DEF TwoReadings
<1>7. QED
  BY <1>5, <1>6

\* A jump of the level shown takes two readings that agree, the one at hand and the
\* last one before it, for every set of levels and samples and both bounds: a
\* cached glitch never confirms itself (src/src/bridge/policy.rs:144-200).
THEOREM TwoReadingsPerJump == ReadingSpec => JumpsTakeTwoReadings
<1>1. Init /\ heard = [k \in Key |-> HeardNothing] => HeardInv
  BY DEF Init, HeardInv, Attached
<1>2. TypeOK /\ HeardInv /\ [ReadingNext]_readingVars
        => HeardInv' /\ \A k \in Key : Jumps(k) => TwoReadings(k)
  <2> SUFFICES ASSUME TypeOK, HeardInv, [ReadingNext]_readingVars
               PROVE  HeardInv' /\ \A k \in Key : Jumps(k) => TwoReadings(k)
    OBVIOUS
  <2>1. ASSUME NEW h \in Headset,
               \/ ApplyUnavailable(h) \/ ApplyDisconnected(h) \/ ApplyNoLevelYet(h)
               \/ ApplyNotNow(h) \/ AttachFails(h) \/ AttachGivesUp(h),
               UNCHANGED heard
        PROVE  HeardInv' /\ \A k \in Key : Jumps(k) => TwoReadings(k)
    <3>1. QuietStep
      BY <2>1, QuietApply
    <3>2. pc' = "apply"
      BY <2>1 DEF ApplyUnavailable, ApplyDisconnected, ApplyNoLevelYet, ApplyNotNow,
                  AttachFails, AttachGivesUp, Take
    <3>3. QED
      BY <2>1, <3>1, <3>2, QuietHears DEF HeardInv
  <2>2. ASSUME NEW h \in Headset, NEW reading \in Reading,
               AttachSucceeds(h, reading), HearsFirst(KeyOf[h])
        PROVE  HeardInv' /\ \A k \in Key : Jumps(k) => TwoReadings(k)
    <3>1. QuietStep
      BY <2>2, QuietApply
    <3>2. KeyOf[h] \notin Attached
      BY <2>2 DEF AttachSucceeds
    <3>3. DOMAIN heard' = Key /\ \A k \in Attached : heard'[k] = heard[k]
      BY <2>2, <3>2 DEF HearsFirst, HeardInv, Attached
    <3>4. pc' = "apply"
      BY <2>2 DEF AttachSucceeds, Take
    <3>5. QED
      BY <3>1, <3>3, <3>4, QuietHears
  <2>3. ASSUME NEW h \in Headset, NEW report \in Report(KeyOf[h]),
               \/ ApplyDeferred(h, report) \/ ApplyUnchanged(h, report)
               \/ ApplyPushed(h, report) \/ ApplyPushFails(h, report),
               Hears(KeyOf[h], report)
        PROVE  HeardInv' /\ \A k \in Key : Jumps(k) => TwoReadings(k)
    BY <2>3, ReportHears
  <2>4. ASSUME \/ Poll \/ Sweep \/ Elapse \/ (\E k \in Key : ServeFails(k))
               \/ RaiseStop \/ Shutdown \/ WaitFails \/ Terminated
               \/ UNCHANGED vars,
               UNCHANGED heard
        PROVE  HeardInv' /\ \A k \in Key : Jumps(k) => TwoReadings(k)
    <3>1. QuietStep
      BY <2>4, QuietLoop
    <3>2. pc' \in {"stopped", "dead"} => Attached' = {}
      <4>1. CASE Poll \/ Sweep \/ Elapse \/ (\E k \in Key : ServeFails(k)) \/ RaiseStop
        BY <4>1 DEF Poll, Sweep, SweepAfter, Elapse, ServeFails, RaiseStop
      <4>2. CASE Shutdown \/ WaitFails
        BY <4>2 DEF Shutdown, WaitFails, Attached
      <4>3. CASE Terminated \/ UNCHANGED vars
        BY <4>3 DEF Terminated, vars, HeardInv, Attached
      <4>4. QED
        BY <2>4, <4>1, <4>2, <4>3
    <3>3. QED
      BY <2>4, <3>1, <3>2, QuietHears DEF HeardInv
  <2>5. ASSUME Restart, heard' = [k \in Key |-> HeardNothing]
        PROVE  HeardInv' /\ \A k \in Key : Jumps(k) => TwoReadings(k)
    <3>1. Attached = {}
      BY <2>5 DEF Restart, HeardInv
    <3>2. QuietStep
      BY <2>5, <3>1, NoQuietStep DEF Restart
    <3>3. QED
      BY <2>5, <3>1, <3>2, QuietHears DEF Restart
  <2>6. QED
    BY <2>1, <2>2, <2>3, <2>4, <2>5 DEF ReadingNext, ReadingApply, readingVars
<1>3. TypeOK /\ HeardInv /\ [ReadingNext]_readingVars
        => [\A k \in Attached :
              /\ battery'[k] # None
              /\ AbsDiff(battery[k].device.percent, battery'[k].device.percent)
                   > MaxPlausibleStep
              => /\ heard'[k].sample = None \/ heard'[k].sample # heard[k].sample
                 /\ heard[k].percent # None
                 /\ AbsDiff(heard[k].percent, battery'[k].device.percent)
                      <= ConfirmTolerance]_readingVars
  BY <1>2 DEF Jumps, TwoReadings, Attached
<1>4. QED
  BY <1>1, <1>2, <1>3, ReadingType, PTL DEF ReadingSpec, JumpsTakeTwoReadings

-----------------------------------------------------------------------------
(* The bridge implements Desktop.  The invariants proved of the bridge     *)
(* supply what a step of Desktop requires: TypeOK, ClockInv for the ages,  *)
(* LevelsStep and its lemmas for the levels.                               *)

(* ----------------------------------------------------------------------- *)
(* What a step does to one entry.                                          *)

SameView(b, c) ==
  /\ c.device = b.device
  /\ c.lastReading = b.lastReading
  /\ c.deferred = b.deferred

Answers(b, c) ==
  /\ Believable(b, c.device)
  /\ c.device \in Reading
  /\ c.lastReading = 0
  /\ c.deferred = None

Puzzles(b, c) ==
  /\ c.device = b.device
  /\ c.lastReading = 0
  /\ c.deferred \in Percent
  /\ AbsDiff(b.device.percent, c.deferred) > MaxPlausibleStep

Appears(c) ==
  /\ c.device \in Reading
  /\ c.lastReading = 0
  /\ c.deferred = None

EntryStep(b, c) ==
  \/ b = None /\ c = None
  \/ b = None /\ c # None /\ Appears(c)
  \/ b # None /\ c = None
  \/ b # None /\ c # None /\ (SameView(b, c) \/ Answers(b, c) \/ Puzzles(b, c))

\* An entry that is shown is one the bridge has.
LEMMA PresentAttached ==
  ASSUME TypeOK
  PROVE  D!Present = Attached
<1>1. ASSUME NEW k \in Attached
      PROVE  battery[k].device # None
  BY <1>1, AnsweredType, DeviceType, ReadingAssumption
<1>2. QED
  BY <1>1 DEF D!Present, Shown, Attached

\* Two ways to write one distance.
LEMMA SameDistance ==
  ASSUME NEW m, NEW n
  PROVE  D!Distance(m, n) = AbsDiff(m, n)
  BY DEF D!Distance, AbsDiff

\* A step of the entry of one key, the others as they were, is a step of the
\* desktop.
LEMMA EntryImplements ==
  ASSUME TypeOK, NEW k \in Key, NEW c,
         battery' = [battery EXCEPT ![k] = c], EntryStep(battery[k], c)
  PROVE  [D!Next]_(D!desktop)
<1>1. battery'[k] = c /\ \A j \in Key \ {k} : battery'[j] = battery[j]
  BY DEF TypeOK
<1>2. D!Present = Attached
  BY PresentAttached
<1>3. /\ Shown' = [Shown EXCEPT ![k] = IF c # None THEN c.device ELSE None]
      /\ Age' = [Age EXCEPT ![k] = IF c # None THEN c.lastReading ELSE 0]
      /\ Doubt' = [Doubt EXCEPT ![k] = IF c # None THEN c.deferred ELSE None]
  <2>1. \A j \in Key \ {k} :
          Shown'[j] = Shown[j] /\ Age'[j] = Age[j] /\ Doubt'[j] = Doubt[j]
    BY <1>1 DEF Shown, Age, Doubt, Attached
  <2>2. /\ Shown'[k] = IF c # None THEN c.device ELSE None
        /\ Age'[k] = IF c # None THEN c.lastReading ELSE 0
        /\ Doubt'[k] = IF c # None THEN c.deferred ELSE None
    BY <1>1 DEF Shown, Age, Doubt, Attached
  <2>3. /\ Shown = [j \in Key |-> Shown[j]] /\ Shown' = [j \in Key |-> Shown'[j]]
        /\ Age = [j \in Key |-> Age[j]] /\ Age' = [j \in Key |-> Age'[j]]
        /\ Doubt = [j \in Key |-> Doubt[j]] /\ Doubt' = [j \in Key |-> Doubt'[j]]
    BY DEF Shown, Age, Doubt
  <2>4. QED
    BY <2>1, <2>2, <2>3
<1>4. CASE battery[k] = None /\ c = None
  BY <1>1, <1>4 DEF D!desktop, Shown, Age, Doubt, Attached
<1>5. CASE battery[k] = None /\ c # None /\ Appears(c)
  <2>1. D!Appear(k, c.device)
    BY <1>2, <1>3, <1>5 DEF D!Appear, Appears, Attached
  <2>2. QED
    BY <1>5, <2>1 DEF D!Next, Appears, Reading
<1>6. CASE battery[k] # None /\ c = None
  <2>1. D!Withdraw(k)
    BY <1>2, <1>3, <1>6 DEF D!Withdraw, Attached
  <2>2. QED
    BY <2>1 DEF D!Next
<1>7. CASE battery[k] # None /\ c # None /\ SameView(battery[k], c)
  <2>1. /\ Shown[k] = battery[k].device
        /\ Age[k] = battery[k].lastReading
        /\ Doubt[k] = battery[k].deferred
    BY <1>7 DEF Shown, Age, Doubt, Attached
  <2>2. /\ Shown \in [Key -> {Shown[j] : j \in Key}]
        /\ Age \in [Key -> {Age[j] : j \in Key}]
        /\ Doubt \in [Key -> {Doubt[j] : j \in Key}]
    BY DEF Shown, Age, Doubt
  <2>3. Shown' = Shown /\ Age' = Age /\ Doubt' = Doubt
    BY <1>3, <1>7, <2>1, <2>2 DEF SameView
  <2>4. QED
    BY <2>3 DEF D!desktop
<1>8. CASE battery[k] # None /\ c # None /\ Answers(battery[k], c)
  <2>1. k \in Attached /\ Shown[k] = battery[k].device /\ Doubt[k] = battery[k].deferred
    BY <1>8 DEF Shown, Doubt, Attached
  <2>2. D!Plausible(Shown[k], c.device) \/ D!Confirmed(k, c.device)
    BY <1>8, <2>1, SameDistance DEF Answers, Believable, D!Plausible, D!Confirmed
  <2>3. D!Answer(k, c.device)
    BY <1>2, <1>3, <1>8, <2>1, <2>2 DEF D!Answer, Answers
  <2>4. QED
    BY <1>8, <2>3 DEF D!Next, Answers, Reading
<1>9. CASE battery[k] # None /\ c # None /\ Puzzles(battery[k], c)
  <2>1. k \in Attached /\ Shown[k] = battery[k].device
    BY <1>9 DEF Shown, Attached
  <2>2. /\ Shown \in [Key -> {Shown[j] : j \in Key}]
        /\ Shown' = Shown
    BY <1>3, <1>9, <2>1 DEF Puzzles, Shown
  <2>3. D!Puzzle(k, c.deferred)
    BY <1>2, <1>3, <1>9, <2>1, <2>2, SameDistance DEF D!Puzzle, Puzzles
  <2>4. QED
    BY <1>9, <2>3 DEF D!Next, Puzzles
<1>10. QED
  BY <1>4, <1>5, <1>6, <1>7, <1>8, <1>9 DEF EntryStep

\* Nothing the desktop shows changes.
LEMMA StutterImplements ==
  ASSUME battery' = battery
  PROVE  [D!Next]_(D!desktop)
  BY DEF D!desktop, Shown, Age, Doubt, Attached

(* ----------------------------------------------------------------------- *)
(* The steps of the bridge.                                                *)

\* A strike leaves the entry's view what its push made of it, or ends it.
LEMMA StrikeImplements ==
  ASSUME TypeOK, NEW k \in Attached, NEW b \in VirtualBattery, Strike(k, b),
         SameView(battery[k], b) \/ Answers(battery[k], b)
  PROVE  [D!Next]_(D!desktop)
<1>1. k \in Key /\ battery[k] # None
  BY DEF Attached
<1>2. CASE b.failures + 1 < DeviceFailureLimit
  <2>1. /\ Struck(b).device = b.device
        /\ Struck(b).lastReading = b.lastReading
        /\ Struck(b).deferred = b.deferred
    BY DEF Struck, VirtualBattery
  <2>2. SameView(battery[k], Struck(b)) \/ Answers(battery[k], Struck(b))
    BY <2>1 DEF SameView, Answers
  <2>3. Struck(b) # None
    BY <1>2, BatteryAssumption, StrikeType, DurationAssumption DEF Struck, VirtualBattery
  <2>4. battery' = [battery EXCEPT ![k] = Struck(b)]
    BY <1>2 DEF Strike
  <2>5. QED
    BY <1>1, <2>2, <2>3, <2>4, EntryImplements DEF EntryStep
<1>3. CASE ~(b.failures + 1 < DeviceFailureLimit)
  <2>1. battery' = [battery EXCEPT ![k] = None]
    BY <1>3 DEF Strike, release
  <2>2. QED
    BY <1>1, <2>1, EntryImplements DEF EntryStep
<1>4. QED
  BY <1>2, <1>3

\* What vetted lets through answers.
LEMMA VettedAnswers ==
  ASSUME TypeOK, NEW k \in Attached, NEW report \in Report(k),
         Verdict(k, report) # "Defer",
         NEW kept \in {battery[k].device, Level(k, report)},
         NEW c, c.device = kept, c.deferred = None, c.lastReading = 0
  PROVE  Answers(battery[k], c)
<1>1. LevelStep(battery[k], c)
  BY VettedStep
<1>2. kept \in Reading
  BY AnsweredType, DeviceType, LevelType
<1>3. QED
  BY <1>1, <1>2 DEF LevelStep, Answers

\* A headset that answered was answered just now.
LEMMA AnsweredNow ==
  ASSUME TypeOK, NEW k \in Attached
  PROVE  /\ Answered(k) \in VirtualBattery /\ Answered(k).lastReading = 0
         /\ Settled(k) \in VirtualBattery /\ Settled(k).lastReading = 0
<1>1. Answered(k) \in VirtualBattery /\ Settled(k) \in VirtualBattery
  BY AnsweredType
<1>2. Answered(k).lastReading = 0
  BY AnsweredType DEF Answered, VirtualBattery
<1>3. QED
  BY <1>1, <1>2 DEF Settled, VirtualBattery

\* Taking a headset in is a step of its entry.
LEMMA ApplyImplements ==
  ASSUME TypeOK, NEW h \in Headset, Apply(h)
  PROVE  [D!Next]_(D!desktop)
<1> DEFINE k == KeyOf[h]
<1>k. k \in Key
  BY KeyAssumption
<1>a. k \in Attached => battery[k] # None /\ battery[k] \in VirtualBattery
  BY AnsweredType DEF Attached
<1>1. CASE ApplyUnavailable(h)
  <2>1. CASE k \in Attached
    <3>1. /\ Seen(k).device = battery[k].device
          /\ Seen(k).lastReading = battery[k].lastReading
          /\ Seen(k).deferred = battery[k].deferred
          /\ Seen(k) # None
      BY <2>1, <1>a, SeenType, BatteryAssumption DEF Seen, VirtualBattery
    <3>2. EntryStep(battery[k], Seen(k))
      BY <2>1, <1>a, <3>1 DEF EntryStep, SameView
    <3>3. QED
      BY <1>1, <1>k, <3>2, EntryImplements DEF ApplyUnavailable
  <2>2. CASE k \notin Attached
    <3>1. EntryStep(battery[k], Seen(k))
      BY <1>k, <2>2 DEF EntryStep, Seen, Attached
    <3>2. QED
      BY <1>1, <1>k, <3>1, EntryImplements DEF ApplyUnavailable
  <2>3. QED
    BY <2>1, <2>2
<1>2. CASE ApplyDisconnected(h)
  <2>1. CASE k \notin Attached
    BY <1>2, <2>1, StutterImplements DEF ApplyDisconnected
  <2>2. CASE k \in Attached /\ GoneFor(battery[k]) >= DisconnectSettle
    <3>1. battery' = [battery EXCEPT ![k] = None]
      BY <1>2, <2>2 DEF ApplyDisconnected, release
    <3>2. QED
      BY <1>k, <1>a, <2>2, <3>1, EntryImplements DEF EntryStep
  <2>3. CASE k \in Attached /\ ~(GoneFor(battery[k]) >= DisconnectSettle)
    <3> DEFINE c == [Seen(k) EXCEPT !.goneSince = note(@, FALSE)]
    <3>1. Seen(k) = [battery[k] EXCEPT !.lastSeen = 0] /\ battery[k] \in VirtualBattery
      BY <2>3, <1>a DEF Seen
    <3>2. /\ c.device = battery[k].device
          /\ c.lastReading = battery[k].lastReading
          /\ c.deferred = battery[k].deferred
      BY <3>1 DEF VirtualBattery
    <3>3. c # None
      <4>1. Seen(k) \in VirtualBattery
        BY <3>1 DEF VirtualBattery
      <4>2. note(Seen(k).goneSince, FALSE) \in Clock
        BY <4>1 DEF VirtualBattery, Clock, note
      <4>3. c \in VirtualBattery
        BY <4>1, <4>2 DEF VirtualBattery
      <4>4. QED
        BY <4>3, BatteryAssumption
    <3>4. battery' = [battery EXCEPT ![k] = c]
      BY <1>2, <2>3 DEF ApplyDisconnected
    <3> HIDE DEF c
    <3>5. EntryStep(battery[k], c)
      BY <2>3, <1>a, <3>2, <3>3 DEF EntryStep, SameView
    <3>6. QED
      BY <1>k, <3>4, <3>5, EntryImplements
  <2>4. QED
    BY <2>1, <2>2, <2>3
<1>3. CASE ApplyNoLevelYet(h) \/ ApplyNotNow(h) \/ AttachFails(h) \/ AttachGivesUp(h)
  BY <1>3, StutterImplements DEF ApplyNoLevelYet, ApplyNotNow, AttachFails, AttachGivesUp
<1>4. ASSUME NEW reading \in Reading, AttachSucceeds(h, reading)
      PROVE  [D!Next]_(D!desktop)
  <2>1. Appears(Fresh(reading)) /\ Fresh(reading) # None
    BY FreshType, BatteryAssumption DEF Appears, Fresh
  <2>2. battery[k] = None /\ battery' = [battery EXCEPT ![k] = Fresh(reading)]
    BY <1>4, <1>k DEF AttachSucceeds, Attached
  <2>3. QED
    BY <1>k, <2>1, <2>2, EntryImplements DEF EntryStep
<1>5. ASSUME NEW report \in Report(k), ApplyDeferred(h, report)
      PROVE  [D!Next]_(D!desktop)
  <2> DEFINE c == [Answered(k) EXCEPT !.deferred = report.percent,
                                      !.deferredSample = report.sample]
  <2>1. /\ k \in Attached /\ Verdict(k, report) = "Defer"
        /\ battery' = [battery EXCEPT ![k] = c]
    BY <1>5 DEF ApplyDeferred
  <2>2. report.percent \in Percent /\ report.sample \in Sample \cup {None}
    BY <1>5, <2>1, LevelType
  <2>3. /\ c.device = battery[k].device /\ c.deferred = report.percent
        /\ c.lastReading = 0 /\ c \in VirtualBattery
    BY <2>1, <2>2, AnsweredNow, AnsweredLevel DEF VirtualBattery
  <2> HIDE DEF c
  <2>4. AbsDiff(battery[k].device.percent, report.percent) > MaxPlausibleStep
    BY <2>1, VetDefers DEF Verdict
  <2>5. EntryStep(battery[k], c)
    BY <1>a, <2>1, <2>2, <2>3, <2>4, BatteryAssumption DEF EntryStep, Puzzles
  <2>6. QED
    BY <1>k, <2>1, <2>5, EntryImplements
<1>6. ASSUME NEW report \in Report(k), ApplyUnchanged(h, report)
      PROVE  [D!Next]_(D!desktop)
  <2>1. /\ k \in Attached /\ Verdict(k, report) # "Defer"
        /\ battery' = [battery EXCEPT ![k] = Settled(k)]
    BY <1>6 DEF ApplyUnchanged
  <2>2. Answers(battery[k], Settled(k)) /\ Settled(k) # None
    BY <2>1, AnsweredNow, AnsweredLevel, VettedAnswers, BatteryAssumption
  <2>3. EntryStep(battery[k], Settled(k))
    BY <1>a, <2>1, <2>2 DEF EntryStep
  <2>4. QED
    BY <1>k, <2>1, <2>3, EntryImplements
<1>7. ASSUME NEW report \in Report(k), ApplyPushed(h, report)
      PROVE  [D!Next]_(D!desktop)
  <2> DEFINE c == [Settled(k) EXCEPT !.device = Level(k, report),
                                     !.publishedAt = 0, !.failures = 0]
  <2>1. /\ k \in Attached /\ Verdict(k, report) # "Defer"
        /\ battery' = [battery EXCEPT ![k] = c]
    BY <1>7 DEF ApplyPushed
  <2>2. c \in VirtualBattery /\ c.device = Level(k, report) /\ c.deferred = None
        /\ c.lastReading = 0
    <3>1. /\ Settled(k) \in VirtualBattery /\ Settled(k).deferred = None
          /\ Settled(k).lastReading = 0
      BY <2>1, AnsweredNow, AnsweredLevel
    <3>2. /\ Level(k, report) \in Reading
          /\ 0 \in 0..RepublishEvery /\ 0 \in 0..(DeviceFailureLimit - 1)
      BY <1>7, <2>1, LevelType, DurationAssumption
    <3>3. QED
      BY <3>1, <3>2 DEF VirtualBattery
  <2> HIDE DEF c
  <2>3. Answers(battery[k], c)
    BY <2>1, <2>2, VettedAnswers
  <2>4. EntryStep(battery[k], c)
    BY <1>a, <2>1, <2>2, <2>3, BatteryAssumption DEF EntryStep
  <2>5. QED
    BY <1>k, <2>1, <2>4, EntryImplements
<1>8. ASSUME NEW report \in Report(k), ApplyPushFails(h, report)
      PROVE  [D!Next]_(D!desktop)
  <2>1. k \in Attached /\ Verdict(k, report) # "Defer"
    BY <1>8 DEF ApplyPushFails
  <2>2. PICK kept \in {battery[k].device, Level(k, report)} :
          Strike(k, [Settled(k) EXCEPT !.device = kept, !.publishedAt = 0])
    BY <1>8 DEF ApplyPushFails
  <2> DEFINE b == [Settled(k) EXCEPT !.device = kept, !.publishedAt = 0]
  <2>3. b \in VirtualBattery
    BY <1>8, <2>1, FailedPushType
  <2>4. b.device = kept /\ b.deferred = None /\ b.lastReading = 0
    <3>1. /\ Settled(k) \in VirtualBattery /\ Settled(k).deferred = None
          /\ Settled(k).lastReading = 0
      BY <2>1, AnsweredNow, AnsweredLevel
    <3>2. QED
      BY <3>1 DEF VirtualBattery
  <2>5. Strike(k, b)
    BY <2>2
  <2> HIDE DEF b
  <2>6. Answers(battery[k], b)
    BY <2>1, <2>4, VettedAnswers
  <2>7. QED
    BY <2>1, <2>3, <2>5, <2>6, StrikeImplements
<1>9. QED
  BY <1>1, <1>2, <1>3, <1>4, <1>5, <1>6, <1>7, <1>8 DEF Apply

\* Time passes for every entry, and those in gone go for their silence.
LEMMA PassImplements ==
  ASSUME TypeOK, TypeOK', ShownLevelIsRecent',
         NEW d \in 0..(MaxTick + 1), NEW gone \in SUBSET Attached,
         \A k \in gone : battery[k].lastReading > EntryPatience,
         \A k \in Attached \ gone :
           /\ battery'[k] # None
           /\ battery'[k].device = battery[k].device
           /\ battery'[k].lastReading = battery[k].lastReading + d
           /\ battery'[k].deferred = battery[k].deferred,
         \A k \in Key \ (Attached \ gone) : battery'[k] = None
  PROVE  D!Next
<1> DEFINE stay == Attached \ gone
<1>1. Attached' = stay
  BY DEF Attached
<1>2. D!Present = Attached
  BY PresentAttached
<1>3. /\ Shown' = [k \in Key |-> IF k \in stay THEN Shown[k] ELSE None]
      /\ Age' = [k \in Key |-> IF k \in stay THEN Age[k] + d ELSE 0]
      /\ Doubt' = [k \in Key |-> IF k \in stay THEN Doubt[k] ELSE None]
  BY <1>1 DEF Shown, Age, Doubt
<1>4. \A k \in stay : Age[k] + d <= EntryLifetime
  <2> SUFFICES ASSUME NEW k \in stay
               PROVE  Age[k] + d <= EntryLifetime
    OBVIOUS
  <2>1. k \in Key /\ k \in Attached
    BY DEF Attached
  <2>2. Age[k] + d = battery'[k].lastReading
    BY <2>1 DEF Age
  <2>3. battery'[k].lastReading + remaining' <= EntryLifetime
    BY <1>1 DEF ShownLevelIsRecent, EntryLifetime
  <2>4. battery'[k] \in VirtualBattery /\ remaining' \in Nat
    BY <1>1, <2>1 DEF TypeOK
  <2>5. battery'[k].lastReading \in Nat
    BY <2>4 DEF VirtualBattery
  <2>6. EntryLifetime \in Int
    <3>1. MaxRegular \in Nat
      BY RegularBounds
    <3>2. QED
      BY <3>1, GraceAssumption, PacingAssumption, DurationAssumption DEF EntryLifetime
  <2>7. QED
    BY <2>2, <2>3, <2>4, <2>5, <2>6
<1>5. gone \subseteq {k \in Attached : Age[k] > EntryPatience}
  BY DEF Age, Attached
<1>6. D!Pass(d, gone)
  BY <1>2, <1>3, <1>4, <1>5 DEF D!Pass
<1>7. QED
  BY <1>2, <1>6 DEF D!Next

\* The age of an entry at a later time.
LEMMA AgedReading ==
  ASSUME NEW b \in VirtualBattery, NEW d \in Nat
  PROVE  /\ Aged(b, d).lastReading = b.lastReading + d
         /\ Noted(b).lastReading = b.lastReading
  BY DEF Aged, Noted, VirtualBattery

\* The end of a poll lets the time of the poll pass.
LEMMA SweepImplements ==
  ASSUME TypeOK, TypeOK', ClockInv, ShownLevelIsRecent',
         NEW spent \in 0..MaxTick, SweepAfter(spent)
  PROVE  D!Next
<1>1. spent \in Nat /\ spent \in 0..(MaxTick + 1) /\ Expired \subseteq Attached
  BY DurationAssumption DEF Expired
<1>2. \A k \in Key : battery'[k] = IF k \in Attached \ Expired
                                    THEN Aged(Noted(battery[k]), spent) ELSE None
  <2>1. \A k \in Attached : Noted(battery[k]) # None
    BY AnsweredType, NotedType, BatteryAssumption
  <2>2. battery' = [k \in Key |-> IF Swept[k] = None THEN None ELSE Aged(Swept[k], spent)]
    BY DEF SweepAfter, PassTime
  <2>3. \A k \in Key : Swept[k] = IF k \in Attached \ Expired THEN Noted(battery[k]) ELSE None
    BY DEF Swept
  <2>4. QED
    BY <2>1, <2>2, <2>3
<1>3. \A k \in Expired : battery[k].lastReading > EntryPatience
  BY <1>1, <1>2, SweepSilence DEF EntryPatience, Attached
<1>4. ASSUME NEW k \in Attached \ Expired
      PROVE  /\ battery'[k] # None
             /\ battery'[k].device = battery[k].device
             /\ battery'[k].lastReading = battery[k].lastReading + spent
             /\ battery'[k].deferred = battery[k].deferred
  <2>1. k \in Key /\ battery[k] \in VirtualBattery /\ Noted(battery[k]) \in VirtualBattery
    BY AnsweredType, NotedType DEF Attached
  <2>2. battery'[k] = Aged(Noted(battery[k]), spent)
    BY <1>2, <2>1
  <2>3. battery'[k] # None
    BY <1>1, <2>1, <2>2, AgedType, BatteryAssumption
  <2>4. QED
    BY <1>1, <2>1, <2>2, <2>3, AgedLevel, AgedReading
<1>5. \A k \in Key \ (Attached \ Expired) : battery'[k] = None
  BY <1>2
<1>6. QED
  BY <1>1, <1>3, <1>4, <1>5, PassImplements

\* So does the wait.
LEMMA ElapseImplements ==
  ASSUME TypeOK, TypeOK', ShownLevelIsRecent', Elapse
  PROVE  D!Next
<1>1. 1 \in 0..(MaxTick + 1) /\ {} \in SUBSET Attached
  BY DurationAssumption
<1>2. \A k \in Key : battery'[k] = IF battery[k] = None THEN None ELSE Aged(battery[k], 1)
  BY DEF Elapse, PassTime
<1>3. ASSUME NEW k \in Attached
      PROVE  /\ battery'[k] # None
             /\ battery'[k].device = battery[k].device
             /\ battery'[k].lastReading = battery[k].lastReading + 1
             /\ battery'[k].deferred = battery[k].deferred
  <2>1. k \in Key /\ battery[k] # None /\ battery[k] \in VirtualBattery
    BY AnsweredType DEF Attached
  <2>2. battery'[k] = Aged(battery[k], 1)
    BY <1>2, <2>1
  <2>3. battery'[k] # None
    BY <2>1, <2>2, AgedType, BatteryAssumption
  <2>4. QED
    BY <2>1, <2>2, <2>3, AgedLevel, AgedReading
<1>4. \A k \in Key \ Attached : battery'[k] = None
  BY <1>2 DEF Attached
<1>5. PICK gone \in SUBSET Attached : gone = {}
  OBVIOUS
<1>6. /\ \A k \in gone : battery[k].lastReading > EntryPatience
      /\ \A k \in Attached \ gone :
           /\ battery'[k] # None
           /\ battery'[k].device = battery[k].device
           /\ battery'[k].lastReading = battery[k].lastReading + 1
           /\ battery'[k].deferred = battery[k].deferred
      /\ \A k \in Key \ (Attached \ gone) : battery'[k] = None
  BY <1>3, <1>4, <1>5
<1>7. QED
  BY <1>1, <1>6, PassImplements

\* Every step of the bridge is a step of the desktop, or none.
LEMMA NextImplements ==
  ASSUME TypeOK, TypeOK', ClockInv, ShownLevelIsRecent', [Next]_vars
  PROVE  [D!Next]_(D!desktop)
<1>1. CASE Poll \/ RaiseStop \/ Restart \/ Terminated \/ UNCHANGED vars
  BY <1>1, StutterImplements DEF Poll, RaiseStop, Restart, Terminated, vars
<1>2. ASSUME NEW h \in Headset, Apply(h)
      PROVE  [D!Next]_(D!desktop)
  BY <1>2, ApplyImplements
<1>3. CASE Sweep
  BY <1>3, SweepImplements DEF Sweep
<1>4. CASE Elapse
  BY <1>4, ElapseImplements
<1>5. ASSUME NEW k \in Key, ServeFails(k)
      PROVE  [D!Next]_(D!desktop)
  BY <1>5, AnsweredType, StrikeImplements DEF ServeFails, SameView
<1>6. CASE Shutdown \/ WaitFails
  <2>1. Attached' = {}
    BY <1>6 DEF Shutdown, WaitFails, Attached
  <2>2. D!End
    BY <2>1 DEF D!End, Shown, Age, Doubt
  <2>3. QED
    BY <2>2 DEF D!Next
<1>7. QED
  BY <1>1, <1>2, <1>3, <1>4, <1>5, <1>6 DEF Next

\* The bridge keeps the promises of Desktop, whatever the headsets, the kernel and
\* whoever stops and restarts the daemon do.
THEOREM BridgeImplementsDesktop == Spec => ImplementsDesktop
<1>1. Init => D!Init
  BY DEF Init, D!Init, Shown, Age, Doubt, Attached
<1>2. TypeOK /\ TypeOK' /\ ClockInv /\ ShownLevelIsRecent' /\ [Next]_vars
        => [D!Next]_(D!desktop)
  BY NextImplements
<1>3. QED
  BY <1>1, <1>2, TypeCorrect, ClocksAgree, RecentLevels, PTL
     DEF Spec, ImplementsDesktop, D!Spec
=============================================================================
