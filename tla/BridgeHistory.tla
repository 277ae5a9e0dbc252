---------------------------- MODULE BridgeHistory ----------------------------
(***************************************************************************)
(* The bridge together with what an observer would remember of it: when a  *)
(* key's device last failed, since when its dongle has been saying that    *)
(* the headset is gone with no poll that listed it otherwise, and how many *)
(* failures of its device came without a success in between.  The history  *)
(* only records: it never keeps a step of the bridge from happening.       *)
(***************************************************************************)
EXTENDS Bridge

VARIABLES
  sinceTrouble,  \* age of a key's last failed attach or destroyed device
  saidGone,      \* age of a key's "gone" announcement, while not contradicted
  inARow         \* failures of a key's device since it was last talked to

history == <<sinceTrouble, saidGone, inARow>>

allVars == <<vars, history>>

HistoryInit ==
  /\ sinceTrouble = [k \in Key |-> AttachRetry]
  /\ saidGone = [k \in Key |-> None]
  /\ inARow = [k \in Key |-> 0]

Troubled(k) == sinceTrouble' = [sinceTrouble EXCEPT ![k] = 0]

SaidGone(k) == saidGone' = [saidGone EXCEPT ![k] = note(@, FALSE)]

SaidElse(k) == saidGone' = [saidGone EXCEPT ![k] = None]

TalkedTo(k) == inARow' = [inARow EXCEPT ![k] = 0]

\* A failure; the last strike costs the device its place.
Failed(k) ==
  /\ inARow' = [inARow EXCEPT ![k] = Least(@ + 1, DeviceFailureLimit)]
  /\ IF battery'[k] = None THEN Troubled(k) ELSE UNCHANGED sinceTrouble

RememberTime(d) ==
  sinceTrouble' = [k \in Key |-> Least(sinceTrouble[k] + d, AttachRetry)]

-----------------------------------------------------------------------------
RememberedApply(h) ==
  LET k == KeyOf[h] IN
  \/ /\ ApplyDisconnected(h)
     /\ SaidGone(k)
     /\ UNCHANGED <<sinceTrouble, inARow>>
  \/ /\ ApplyUnavailable(h) \/ ApplyNoLevelYet(h) \/ ApplyNotNow(h) \/ AttachGivesUp(h)
     /\ SaidElse(k)
     /\ UNCHANGED <<sinceTrouble, inARow>>
  \/ /\ \E reading \in Reading : AttachSucceeds(h, reading)
     /\ SaidElse(k) /\ TalkedTo(k)
     /\ UNCHANGED sinceTrouble
  \/ /\ AttachFails(h)
     /\ SaidElse(k) /\ Troubled(k)
     /\ UNCHANGED inARow
  \/ /\ \E report \in Report(k) : ApplyDeferred(h, report) \/ ApplyUnchanged(h, report)
     /\ SaidElse(k)
     /\ UNCHANGED <<sinceTrouble, inARow>>
  \/ /\ \E report \in Report(k) : ApplyPushed(h, report)
     /\ SaidElse(k) /\ TalkedTo(k)
     /\ UNCHANGED sinceTrouble
  \/ /\ \E report \in Report(k) : ApplyPushFails(h, report)
     /\ SaidElse(k) /\ Failed(k)

\* A poll that does not list a headset says nothing for or against.
RememberedSweep ==
  \E spent \in 0..MaxTick :
    /\ SweepAfter(spent)
    /\ RememberTime(spent)
    /\ saidGone' = [k \in Key |-> IF battery'[k] = None THEN None
                                   ELSE Later(saidGone[k], spent)]
    /\ UNCHANGED inARow

RememberedElapse ==
  /\ Elapse
  /\ RememberTime(1)
  /\ saidGone' = [k \in Key |-> Later(saidGone[k], 1)]
  /\ UNCHANGED inARow

RememberedServeFails(k) == ServeFails(k) /\ Failed(k) /\ UNCHANGED saidGone

\* serve_all services a device without a hitch; the daemon takes no note of it.
ServeSucceeds(k) ==
  /\ pc = "wait" /\ remaining > 0
  /\ k \in Attached
  /\ TalkedTo(k)
  /\ UNCHANGED <<vars, sinceTrouble, saidGone>>

RememberedRestart ==
  /\ Restart
  /\ sinceTrouble' = [k \in Key |-> AttachRetry]
  /\ saidGone' = [k \in Key |-> None]
  /\ inARow' = [k \in Key |-> 0]

RememberedNext ==
  \/ Poll /\ UNCHANGED history
  \/ \E h \in Headset : RememberedApply(h)
  \/ RememberedSweep
  \/ RememberedElapse
  \/ \E k \in Key : RememberedServeFails(k)
  \/ \E k \in Key : ServeSucceeds(k)
  \/ (RaiseStop \/ Shutdown \/ WaitFails \/ Terminated) /\ UNCHANGED history
  \/ RememberedRestart

RememberedSpec == Init /\ HistoryInit /\ [][RememberedNext]_allVars

-----------------------------------------------------------------------------
\* A device is not created, and its creation not tried, within AttachRetry of a
\* failed attempt or of a device that was destroyed for failing: whichever of
\* the paths of apply, outcome and wait met the failure, a lasting one costs
\* one attempt per AttachRetry.
FailuresAreSpaced ==
  [][\A h \in Headset :
       AttachFails(h) \/ (\E reading \in Reading : AttachSucceeds(h, reading))
       => sinceTrouble[KeyOf[h]] >= AttachRetry
    ]_allVars

\* While the dongle is there and keeps saying the headset is gone, the entry goes
\* within DisconnectSettle and the native pace of the polls: no grace is sat
\* out, and no earlier state of the entry's clocks puts the withdrawal off.
GoneIsBelieved ==
  \A k \in Attached :
    saidGone[k] # None /\ battery[k].missingSince = None =>
      saidGone[k] + remaining <= DisconnectSettle + NativeTick + MaxTick

\* src/src/bridge/mod.rs:50: the dongle has to keep saying the headset is gone
\* for DisconnectSettle before it is believed.
GoneMustPersist ==
  [][\A h \in Headset :
       ApplyDisconnected(h) /\ KeyOf[h] \in Attached /\ battery'[KeyOf[h]] = None
       => /\ saidGone[KeyOf[h]] # None
          /\ saidGone[KeyOf[h]] >= DisconnectSettle
    ]_allVars

\* src/src/bridge/mod.rs:40: a device is destroyed after DeviceFailureLimit
\* failures in a row of talking to it, pushing a level or answering the kernel.
DestroyedForFailuresInARow ==
  [][\A k \in Attached : ServeFails(k) /\ battery'[k] = None
                        => inARow[k] + 1 = DeviceFailureLimit
    ]_allVars
=============================================================================
