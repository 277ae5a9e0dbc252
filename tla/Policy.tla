------------------------------- MODULE Policy -------------------------------
(***************************************************************************)
(* The decisions of src/src/bridge/policy.rs, kept there as pure functions *)
(* of their inputs: when to poll again, which clock runs, whether a        *)
(* battery still deserves its entry, and whether a level is believed.      *)
(*                                                                         *)
(* The code holds the clocks as instants and compares differences with     *)
(* durations.  Here a clock is the time elapsed since it started, a number *)
(* of time units, or None while it does not run.                           *)
(***************************************************************************)
EXTENDS Integers

CONSTANTS
  None,             \* Option::None
  Percent,          \* the levels a headset may report
  Sample,           \* names of readings, for readers that cache one
  NativeTick,       \* how often the native reader is polled
  UnansweredRetry,  \* how soon an unanswered poll is repeated
  Interval,         \* --interval: how often HeadsetControl is polled
  OfflineGrace,     \* --offline-grace
  MissingGrace,     \* --missing-grace
  MaxPlausibleStep, \* the largest move believed at once
  ConfirmTolerance  \* how far a confirmation may be from what it confirms

ASSUME NoneAssumption == /\ None \notin Int
                         /\ None \notin Sample

ASSUME PercentAssumption == Percent \subseteq 0..100

ASSUME PacingAssumption == /\ NativeTick \in Nat \ {0}
                           /\ UnansweredRetry \in Nat \ {0}
                           /\ Interval \in Nat \ {0}

ASSUME GraceAssumption == OfflineGrace \in Nat /\ MissingGrace \in Nat

ASSUME BoundAssumption == MaxPlausibleStep \in Nat /\ ConfirmTolerance \in Nat

Clock == Nat \cup {None}

Reading == [percent : Percent, charging : BOOLEAN]

ASSUME ReadingAssumption == None \notin Reading

Least(m, n) == IF m <= n THEN m ELSE n

AbsDiff(m, n) == IF m >= n THEN m - n ELSE n - m

-----------------------------------------------------------------------------
(* When to poll again. *)

Regular(isNative) == IF isNative THEN NativeTick ELSE Interval

\* Not the code: every poll at the regular pace.
NoPromptRetry(unanswered, isNative) == Regular(isNative)

\* Not the code: an unanswered poll is repeated at once.
BusyRetry(unanswered, isNative) == IF unanswered THEN 0 ELSE Regular(isNative)

next_delay(unanswered, isNative) ==
  IF unanswered THEN Least(UnansweredRetry, Regular(isNative)) ELSE Regular(isNative)

-----------------------------------------------------------------------------
(* The clock of a condition that is fine or not on this poll. *)

\* Not the code: the clock starts again on every poll that is not fine.
RestartedNote(since, fine) == IF fine THEN None ELSE 0

note(since, fine) ==
  IF fine THEN None ELSE IF since = None THEN 0 ELSE since

-----------------------------------------------------------------------------
(* Whether a battery keeps its entry. *)

For(since) == IF since = None THEN 0 ELSE since

\* Not the code: no grace at all.
WithdrawnAtOnce(silentFor, missingFor) ==
  IF silentFor > 0 \/ missingFor > 0 THEN "Silent" ELSE "Keep"

withdrawal(silentFor, missingFor) ==
  IF missingFor > 0
  THEN IF missingFor > MissingGrace THEN "Missing" ELSE "Keep"
  ELSE IF silentFor > OfflineGrace THEN "Silent" ELSE "Keep"

-----------------------------------------------------------------------------
(* Whether a level is believed. *)

\* Not the code: a cached reading confirms itself.
AnyReadingConfirms(deferred, deferredSample, sample) == deferred

second_opinion(deferred, deferredSample, sample) ==
  IF sample # None /\ sample = deferredSample THEN None ELSE deferred

Implausible(published, candidate) ==
  AbsDiff(published.percent, candidate.percent) > MaxPlausibleStep

Confirms(deferred, candidate) ==
  /\ deferred # None
  /\ AbsDiff(deferred, candidate.percent) <= ConfirmTolerance

RisesUncharged(published, candidate) ==
  /\ ~candidate.charging
  /\ ~published.charging
  /\ candidate.percent > published.percent

\* Not the code: a small rise is shown like a small drop.
VetWithoutHold(published, candidate, deferred) ==
  IF Implausible(published, candidate) /\ ~Confirms(deferred, candidate)
  THEN "Defer" ELSE "Accept"

vet(published, candidate, deferred) ==
  IF Implausible(published, candidate)
  THEN IF Confirms(deferred, candidate) THEN "Accept" ELSE "Defer"
  ELSE IF RisesUncharged(published, candidate) THEN "Hold" ELSE "Accept"
=============================================================================
