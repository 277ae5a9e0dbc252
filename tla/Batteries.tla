------------------------------ MODULE Batteries ------------------------------
(***************************************************************************)
(* The bridge with the two vectors its batteries are kept in               *)
(* (src/src/bridge/batteries.rs): the devices, contiguous for serve_all,   *)
(* and what the daemon knows of each, at the same index.  Bridge speaks of *)
(* the battery of a key; here the code finds it by its index, and both     *)
(* vectors are held as the keys of what they contain.                      *)
(***************************************************************************)
EXTENDS Bridge, SequencesExt

VARIABLES devices, states

vectors == <<devices, states>>

NoDevices == devices = <<>> /\ states = <<>>

position(k) == CHOOSE i \in DOMAIN states : states[i] = k

push(k) == devices' = Append(devices, k) /\ states' = Append(states, k)

remove(i) == devices' = RemoveAt(devices, i) /\ states' = RemoveAt(states, i)

drain == devices' = <<>> /\ states' = <<>>

\* Not the code: the index advances past a battery that was taken out.
TurnPastTheGap(at, gone) ==
  IF at.states[at.index] \in gone
  THEN [index |-> at.index + 1, devices |-> RemoveAt(at.devices, at.index),
        states |-> RemoveAt(at.states, at.index)]
  ELSE [at EXCEPT !.index = @ + 1]

\* One turn of expire's loop: a battery that goes leaves its index to the next.
Turn(at, gone) ==
  IF at.states[at.index] \in gone
  THEN [at EXCEPT !.devices = RemoveAt(@, at.index), !.states = RemoveAt(@, at.index)]
  ELSE [at EXCEPT !.index = @ + 1]

\* The turns of expire's loop, which walks a vector that shrinks under it.
turns(gone) ==
  LET at[n \in 0..Len(states)] ==
        IF n = 0 THEN [index |-> 1, devices |-> devices, states |-> states]
        ELSE IF at[n - 1].index > Len(at[n - 1].states) THEN at[n - 1]
        ELSE Turn(at[n - 1], gone)
  IN  at

expire(gone) ==
  LET end == turns(gone)[Len(states)]
  IN  devices' = end.devices /\ states' = end.states

\* What a step of the bridge on the battery of k does to the vectors.
KeptOrRemoved(k) ==
  IF k \in Attached /\ battery'[k] = None THEN remove(position(k)) ELSE UNCHANGED vectors

VectorApply(h) ==
  LET k == KeyOf[h] IN
  \/ /\ \/ ApplyUnavailable(h) \/ ApplyDisconnected(h) \/ ApplyNoLevelYet(h)
        \/ ApplyNotNow(h) \/ AttachFails(h) \/ AttachGivesUp(h)
        \/ \E report \in Report(k) : \/ ApplyDeferred(h, report)
                                    \/ ApplyUnchanged(h, report)
                                    \/ ApplyPushed(h, report)
                                    \/ ApplyPushFails(h, report)
     /\ KeptOrRemoved(k)
  \/ (\E reading \in Reading : AttachSucceeds(h, reading)) /\ push(k)

\* serve_all names the device that failed by its index among the devices, and
\* outcome looks up the battery to blame at that index.
VectorServeFails(i) ==
  /\ ServeFails(states[i])
  /\ IF battery'[states[i]] = None THEN remove(i) ELSE UNCHANGED vectors

VectorNext ==
  \/ \E h \in Headset : VectorApply(h)
  \/ Sweep /\ expire(Expired)
  \/ \E i \in DOMAIN devices : VectorServeFails(i)
  \/ (Shutdown \/ WaitFails) /\ drain
  \/ (Poll \/ Elapse \/ RaiseStop \/ Restart \/ Terminated) /\ UNCHANGED vectors

VectorSpec == Init /\ NoDevices /\ [][VectorNext]_<<vars, vectors>>

-----------------------------------------------------------------------------
\* An index means the same in both vectors, and each entry has one: through every
\* attach, removal in the middle, walk of expire and destroyed device, the two
\* vectors hold the batteries of the same keys in the same order, each once
\* (src/src/bridge/batteries.rs:47-51).
VectorsAreInStep ==
  /\ devices = states
  /\ IsInjective(states)
  /\ {states[i] : i \in DOMAIN states} = Attached
=============================================================================
