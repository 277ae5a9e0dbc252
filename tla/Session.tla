------------------------------ MODULE Session ------------------------------
(***************************************************************************)
(* One open dongle (Session in src/src/maxwell/session.rs): what it says   *)
(* of the headset's link, when the level is asked for, and what unanswered *)
(* requests lead to.  The operators are the methods, as functions of a     *)
(* session; Reader applies them to the sessions it keeps.                  *)
(*                                                                         *)
(* As in Policy, an instant is kept as its age.  An age stops counting     *)
(* where no duration is compared with it any more, and so do the numbers   *)
(* of requests asked and unanswered.                                       *)
(***************************************************************************)
EXTENDS Integers, Sequences

CONSTANTS
  None,            \* Option::None
  Percent,         \* the levels a headset may report
  NativeInterval,  \* how often a linked headset is asked
  ListenFirst,     \* how long a dongle is listened to before the first question
  AskAgainAfter,   \* how soon each of the extra questions follows
  AskIdleRetry,    \* how soon any further question follows
  LongestDelay,    \* the longest of the delays between questions
  MaxUnanswered    \* requests a linked headset may leave unanswered

ASSUME AbsenceAssumption == None \notin Int

ASSUME LevelAssumption == Percent \subseteq 0..100

ASSUME DelayAssumption ==
  /\ NativeInterval \in Nat /\ ListenFirst \in Nat /\ AskIdleRetry \in Nat
  /\ AskAgainAfter \in Seq(Nat)
  /\ LongestDelay \in Nat
  /\ NativeInterval <= LongestDelay /\ AskIdleRetry <= LongestDelay
  /\ \A i \in DOMAIN AskAgainAfter : AskAgainAfter[i] <= LongestDelay

\* The assertion the code is compiled with.
ASSUME UnansweredAssumption ==
  MaxUnanswered \in Nat /\ MaxUnanswered > Len(AskAgainAfter)

\* The questions that come before the slow cadence.
QuickAsks == Len(AskAgainAfter) + 1

Link == {"Unknown", "Up", "Down"}

Session ==
  [link : Link, level : Percent \cup {None}, sample : Nat,
   openedAt : 0..ListenFirst, askedAt : (0..LongestDelay) \cup {None},
   asks : 0..QuickAsks, pending : BOOLEAN, unanswered : 0..MaxUnanswered]

ASSUME SessionAssumption == None \notin Session

UpTo(n, cap) == IF n <= cap THEN n ELSE cap

OlderBy1(since, cap) == IF since = None THEN None ELSE UpTo(since + 1, cap)

Older(s) == [s EXCEPT !.openedAt = UpTo(@ + 1, ListenFirst),
                      !.askedAt = OlderBy1(@, LongestDelay)]

\* open: the link is what the dongle's last session believed.
open(link) ==
  [link |-> link, level |-> None, sample |-> 0, openedAt |-> 0,
   askedAt |-> None, asks |-> 0, pending |-> FALSE, unanswered |-> 0]

-----------------------------------------------------------------------------
(* take_in, for each message of a report. *)

TakeUp(s) == [s EXCEPT !.link = "Up", !.unanswered = 0]

\* Not the code: the level stays, for when the headset is back.
TakeDownKeepingLevel(s) ==
  [s EXCEPT !.link = "Down", !.pending = FALSE, !.unanswered = 0]

TakeDown(s) ==
  [s EXCEPT !.link = "Down", !.level = None, !.pending = FALSE, !.unanswered = 0]

\* number is the reader's count of battery messages, this one included.
TakeLevel(s, level, number) ==
  [s EXCEPT !.link = "Up", !.level = level, !.sample = number,
            !.pending = FALSE, !.unanswered = 0]

-----------------------------------------------------------------------------
(* should_ask *)

AskDelay(asks) ==
  IF asks \in DOMAIN AskAgainAfter THEN AskAgainAfter[asks] ELSE AskIdleRetry

\* Not the code: a headset that is gone is asked at the pace of a linked one.
AsksTheAbsent(s) ==
  CASE s.link = "Unknown" ->
         IF s.askedAt = None THEN s.openedAt >= ListenFirst
                             ELSE s.askedAt >= AskDelay(s.asks)
    [] OTHER -> s.askedAt # None => s.askedAt >= NativeInterval

\* Not the code: the quick questions are not followed by slow ones.
AsksAFewTimes(s) ==
  IF s.link = "Up" THEN s.askedAt # None => s.askedAt >= NativeInterval
  ELSE IF s.askedAt = None THEN s.openedAt >= ListenFirst
  ELSE s.link = "Unknown" /\ s.asks < QuickAsks /\ s.askedAt >= AskDelay(s.asks)

should_ask(s) ==
  \/ /\ s.link = "Up"
     /\ s.askedAt # None => s.askedAt >= NativeInterval
  \/ /\ s.link = "Unknown"
     /\ IF s.askedAt = None THEN s.openedAt >= ListenFirst
                            ELSE s.askedAt >= AskDelay(s.asks)
  \/ /\ s.link = "Down"
     /\ s.askedAt = None /\ s.openedAt >= ListenFirst

-----------------------------------------------------------------------------
(* ask.  A request that is still open when the next one is due was lost.   *)

Counted(s) ==
  IF s.pending THEN [s EXCEPT !.unanswered = UpTo(@ + 1, MaxUnanswered)] ELSE s

\* Not the code: a linked headset is asked for ever.
NeverGivesUp(s) == FALSE

GivesUp(s) == s.link = "Up" /\ Counted(s).unanswered >= MaxUnanswered

GivenUp(s) ==
  [s EXCEPT !.link = "Unknown", !.level = None, !.pending = FALSE,
            !.unanswered = 0, !.askedAt = 0]

\* The request was written.
Asked(s) ==
  [Counted(s) EXCEPT !.askedAt = 0, !.asks = UpTo(@ + 1, QuickAsks),
                     !.pending = TRUE]

-----------------------------------------------------------------------------
\* battery: what is handed out of a session.
battery(s, wired) ==
  IF s.link = "Down" THEN [state |-> "Disconnected", percent |-> None]
  ELSE IF s.level = None THEN [state |-> "Unavailable", percent |-> None]
  ELSE [state |-> IF wired THEN "Charging" ELSE "Discharging", percent |-> s.level]
=============================================================================
