------------------------------- MODULE Desktop -------------------------------
(***************************************************************************)
(* What the user is promised of the entries the desktop shows, one for     *)
(* each headset: the level on show is not old, it never jumps or creeps up *)
(* on the word of a single reading, and an entry does not blink.           *)
(*                                                                         *)
(* Nothing here says how headsets are polled or devices are kept: the      *)
(* bridge implements this specification.                                   *)
(***************************************************************************)
EXTENDS Integers

CONSTANTS
  None,
  Entry,        \* the headsets that may have an entry
  Percent,      \* the levels they may report
  MaxStep,      \* how far the level on show may move on the word of one reading
  Tolerance,    \* how far a second reading may be from the first to confirm it
  Patience,     \* an entry that was answered this recently does not go for silence
  Lifetime,     \* no entry goes unanswered for longer
  LongestStep   \* the most that time may pass at once

VARIABLES
  shown,  \* the level on show for each headset, None without an entry
  age,    \* how long ago the headset last answered
  doubt   \* the level of its last reading, if that one was not believed

desktop == <<shown, age, doubt>>

Present == {e \in Entry : shown[e] # None}

Init ==
  /\ shown = [e \in Entry |-> None]
  /\ age = [e \in Entry |-> 0]
  /\ doubt = [e \in Entry |-> None]

Distance(m, n) == IF m >= n THEN m - n ELSE n - m

\* A move one reading is enough for: a small one, and only downwards unless the
\* headset is on the cable.
Plausible(old, new) ==
  /\ Distance(old.percent, new.percent) <= MaxStep
  /\ new.percent > old.percent => old.charging \/ new.charging

\* A move the reading before, which was not believed, pointed to.
Confirmed(e, new) == doubt[e] # None /\ Distance(doubt[e], new.percent) <= Tolerance

-----------------------------------------------------------------------------
\* A headset that had no entry answers.
Appear(e, level) ==
  /\ e \notin Present
  /\ shown' = [shown EXCEPT ![e] = level]
  /\ age' = [age EXCEPT ![e] = 0]
  /\ doubt' = [doubt EXCEPT ![e] = None]

\* A headset answers, and its reading is believed, or held for the level shown.
Answer(e, level) ==
  /\ e \in Present
  /\ Plausible(shown[e], level) \/ Confirmed(e, level)
  /\ shown' = [shown EXCEPT ![e] = level]
  /\ age' = [age EXCEPT ![e] = 0]
  /\ doubt' = [doubt EXCEPT ![e] = None]

\* A headset answers something that is not believed without a second reading.
Puzzle(e, percent) ==
  /\ e \in Present
  /\ Distance(shown[e].percent, percent) > MaxStep
  /\ doubt' = [doubt EXCEPT ![e] = percent]
  /\ age' = [age EXCEPT ![e] = 0]
  /\ UNCHANGED shown

\* A headset is known to be gone, or its entry cannot be kept up.
Withdraw(e) ==
  /\ e \in Present
  /\ shown' = [shown EXCEPT ![e] = None]
  /\ age' = [age EXCEPT ![e] = 0]
  /\ doubt' = [doubt EXCEPT ![e] = None]

\* Time passes, and the entries of headsets that were silent for too long go;
\* none of those that stay is too old.
Pass(d, gone) ==
  LET stay == Present \ gone IN
  /\ gone \subseteq {e \in Present : age[e] > Patience}
  /\ \A e \in stay : age[e] + d <= Lifetime
  /\ shown' = [e \in Entry |-> IF e \in stay THEN shown[e] ELSE None]
  /\ age' = [e \in Entry |-> IF e \in stay THEN age[e] + d ELSE 0]
  /\ doubt' = [e \in Entry |-> IF e \in stay THEN doubt[e] ELSE None]

\* Whoever shows the entries ends, and all of them with it.
End ==
  /\ shown' = [e \in Entry |-> None]
  /\ age' = [e \in Entry |-> 0]
  /\ doubt' = [e \in Entry |-> None]

Next ==
  \/ \E e \in Entry :
       \/ \E level \in [percent : Percent, charging : BOOLEAN] :
            Appear(e, level) \/ Answer(e, level)
       \/ \E percent \in Percent : Puzzle(e, percent)
       \/ Withdraw(e)
  \/ \E d \in 0..LongestStep, gone \in SUBSET Present : Pass(d, gone)
  \/ End

Spec == Init /\ [][Next]_desktop
=============================================================================
