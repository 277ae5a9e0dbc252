--------------------------- MODULE BridgeReadings ---------------------------
(***************************************************************************)
(* The bridge together with the reading each headset last gave.  A reader  *)
(* that caches the level gives the same reading, under the same sample, on *)
(* every poll until a new one comes in: here the sample of a report says   *)
(* whether it is the last reading again or a new one, and two samples are  *)
(* enough for that.                                                        *)
(***************************************************************************)
EXTENDS Bridge

VARIABLE heard  \* per key, the level and sample of its last report

readingVars == <<vars, heard>>

HeardNothing == [percent |-> None, sample |-> None]

SameReading(k, report) ==
  report.sample # None /\ report.sample = heard[k].sample

\* A cached reading keeps its level.
Cached(k, report) == SameReading(k, report) => report.percent = heard[k].percent

Hears(k, report) ==
  heard' = [heard EXCEPT ![k] = [percent |-> report.percent, sample |-> report.sample]]

HearsFirst(k) == heard' = [heard EXCEPT ![k] = HeardNothing]

ReadingApply(h) ==
  LET k == KeyOf[h] IN
  \/ /\ \/ ApplyUnavailable(h) \/ ApplyDisconnected(h) \/ ApplyNoLevelYet(h)
        \/ ApplyNotNow(h) \/ AttachFails(h) \/ AttachGivesUp(h)
     /\ UNCHANGED heard
  \/ \E reading \in Reading : AttachSucceeds(h, reading) /\ HearsFirst(k)
  \/ \E report \in Report(k) :
       /\ Cached(k, report)
       /\ \/ ApplyDeferred(h, report) \/ ApplyUnchanged(h, report)
          \/ ApplyPushed(h, report) \/ ApplyPushFails(h, report)
       /\ Hears(k, report)

ReadingNext ==
  \/ \E h \in Headset : ReadingApply(h)
  \/ /\ \/ Poll \/ Sweep \/ Elapse \/ (\E k \in Key : ServeFails(k))
        \/ RaiseStop \/ Shutdown \/ WaitFails \/ Terminated
     /\ UNCHANGED heard
  \/ Restart /\ heard' = [k \in Key |-> HeardNothing]

ReadingSpec ==
  Init /\ heard = [k \in Key |-> HeardNothing] /\ [][ReadingNext]_readingVars

-----------------------------------------------------------------------------
\* A level more than MaxPlausibleStep away from the one shown is only pushed
\* when two different readings agree on it, the one at hand and the one before
\* it: a cached glitch never confirms itself, however many polls repeat it and
\* whatever unanswered polls come in between.
JumpsTakeTwoReadings ==
  [][\A k \in Attached :
       /\ battery'[k] # None
       /\ AbsDiff(battery[k].device.percent, battery'[k].device.percent)
            > MaxPlausibleStep
       => /\ heard'[k].sample = None \/ heard'[k].sample # heard[k].sample
          /\ heard[k].percent # None
          /\ AbsDiff(heard[k].percent, battery'[k].device.percent) <= ConfirmTolerance
    ]_readingVars
=============================================================================
