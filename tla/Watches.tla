------------------------------ MODULE Watches ------------------------------
(***************************************************************************)
(* The two watches of the native reader, each shared by all its dongles:   *)
(* AccessWatch (src/src/maxwell/session.rs) tells of an error that lasts,  *)
(* WedgeWatch (src/src/maxwell/wedge.rs) of a dongle that says nothing     *)
(* while sound is streamed to it.  Ages as in Session.                     *)
(***************************************************************************)
EXTENDS Session

CONSTANTS
  Message,        \* what an error reads like
  ErrorSettle,    \* how long an error lasts before it is told of
  WedgeSilence,   \* how long a silence lasts before a wedge is suspected
  WedgeReminder,  \* how long before it is told of again
  ProbeEvery      \* how long a look at the sound card is good for

ASSUME WatchAssumption ==
  /\ ErrorSettle \in Nat /\ WedgeReminder \in Nat \ {0} /\ ProbeEvery \in Nat
  /\ WedgeSilence \in Nat /\ WedgeSilence >= AskIdleRetry

-----------------------------------------------------------------------------
(* AccessWatch *)

Access == [message : Message, since : 0..ErrorSettle, reported : BOOLEAN]

\* Not the code: each failure starts the clock.
FailingAnew(last, message) ==
  [message |-> message, since |-> 0, reported |-> ErrorSettle = 0]

failing(last, message) ==
  LET same  == last # None /\ last.message = message
      since == IF same THEN last.since ELSE 0
  IN [message |-> message, since |-> since,
      reported |-> (same /\ last.reported) \/ since >= ErrorSettle]

OlderAccess(last) ==
  IF last = None THEN None ELSE [last EXCEPT !.since = UpTo(@ + 1, ErrorSettle)]

-----------------------------------------------------------------------------
(* WedgeWatch.  playback_running tells whether the dongle's sound card     *)
(* plays, does not, or cannot be looked at.                                *)

Playback == {"Running", "Still", "Untold"}

Probe == [at : 0..ProbeEvery, running : Playback]

Wedge == [heardAt : 0..WedgeSilence, warnedAt : (0..WedgeReminder) \cup {None},
          probed : Probe \cup {None}]

ASSUME WedgeAssumption == None \notin Access /\ None \notin Wedge /\ None \notin Probe

NewWatch == [heardAt |-> 0, warnedAt |-> None, probed |-> None]

\* WedgeWatch::heard
Spoken(w) == NewWatch

\* Not the code: a look at the sound card is good for as long as it is used.
ProbedForGood(w, running) ==
  IF w.probed # None THEN [w EXCEPT !.probed.at = 0]
  ELSE [w EXCEPT !.probed = [at |-> 0, running |-> running]]

Probed(w, running) ==
  IF w.probed # None /\ w.probed.at < ProbeEvery THEN w
  ELSE [w EXCEPT !.probed = [at |-> 0, running |-> running]]

WarningDue(w) ==
  /\ w.probed.running = "Running"
  /\ w.warnedAt # None => w.warnedAt >= WedgeReminder

check(w, running) ==
  LET looked == Probed(w, running) IN
  IF w.heardAt < WedgeSilence THEN w
  ELSE IF WarningDue(looked) THEN [looked EXCEPT !.warnedAt = 0]
  ELSE looked

OlderProbe(probe) ==
  IF probe = None THEN None ELSE [probe EXCEPT !.at = UpTo(@ + 1, ProbeEvery)]

OlderWedge(w) ==
  IF w = None THEN None
  ELSE [heardAt |-> UpTo(w.heardAt + 1, WedgeSilence),
        warnedAt |-> OlderBy1(w.warnedAt, WedgeReminder),
        probed |-> OlderProbe(w.probed)]
=============================================================================
