--------------------------- MODULE SessionProofs ----------------------------
(***************************************************************************)
(* What is done to a session leaves a session, for every pace of the       *)
(* questions: the facts the proofs of Reader and of Dongle share.          *)
(***************************************************************************)
EXTENDS Session, TLAPS

\* The ages of a session count up to their caps.
LEMMA OlderType ==
  ASSUME NEW s \in Session
  PROVE  Older(s) \in Session
<1>1. UpTo(s.openedAt + 1, ListenFirst) \in 0..ListenFirst
  BY DelayAssumption DEF Session, UpTo
<1>2. OlderBy1(s.askedAt, LongestDelay) \in (0..LongestDelay) \cup {None}
  BY DelayAssumption DEF Session, UpTo, OlderBy1
<1> QED BY <1>1, <1>2 DEF Session, Older

\* A session opens with a link its dongle was believed to have, and no level.
LEMMA OpenType ==
  ASSUME NEW link \in Link
  PROVE  open(link) \in Session /\ open(link).level = None
<1>1. 0 \in 0..ListenFirst /\ 0 \in 0..QuickAsks /\ 0 \in 0..MaxUnanswered /\ 0 \in Nat
  BY DelayAssumption, UnansweredAssumption DEF QuickAsks
<1> QED BY <1>1 DEF Session, open

\* What a report says of the link makes a session of a session.
LEMMA TakeLinkType ==
  ASSUME NEW s \in Session
  PROVE  TakeUp(s) \in Session /\ TakeDown(s) \in Session
<1>1. 0 \in 0..MaxUnanswered
  BY UnansweredAssumption
<1>2. "Up" \in Link /\ "Down" \in Link
  BY DEF Link
<1> QED BY <1>1, <1>2 DEF Session, TakeUp, TakeDown

\* So does a level.
LEMMA TakeLevelType ==
  ASSUME NEW s \in Session, NEW level \in Percent, NEW number \in Nat
  PROVE  TakeLevel(s, level, number) \in Session
<1>1. 0 \in 0..MaxUnanswered
  BY UnansweredAssumption
<1>2. "Up" \in Link
  BY DEF Link
<1> QED BY <1>1, <1>2 DEF Session, TakeLevel

\* Counting a lost request touches neither the link nor the level.
LEMMA CountedType ==
  ASSUME NEW s \in Session
  PROVE  /\ Counted(s) \in Session
         /\ Counted(s).link = s.link
         /\ Counted(s).level = s.level
         /\ Counted(s).sample = s.sample
<1>1. UpTo(s.unanswered + 1, MaxUnanswered) \in 0..MaxUnanswered
  BY UnansweredAssumption DEF Session, UpTo
<1> QED BY <1>1 DEF Session, Counted

\* Nor does asking.
LEMMA AskedType ==
  ASSUME NEW s \in Session
  PROVE  /\ Asked(s) \in Session
         /\ Asked(s).link = s.link
         /\ Asked(s).level = s.level
         /\ Asked(s).sample = s.sample
<1> DEFINE c == Counted(s)
<1>1. /\ c \in Session /\ c.link = s.link
      /\ c.level = s.level /\ c.sample = s.sample
  BY CountedType
<1>2. QuickAsks \in Nat
  BY DelayAssumption DEF QuickAsks
<1>3. UpTo(c.asks + 1, QuickAsks) \in 0..QuickAsks
  BY <1>1, <1>2 DEF Session, UpTo
<1>4. 0 \in 0..LongestDelay
  BY DelayAssumption
<1>5. Asked(s) = [c EXCEPT !.askedAt = 0, !.asks = UpTo(@ + 1, QuickAsks),
                           !.pending = TRUE]
  BY DEF Asked
<1> HIDE DEF c
<1> QED BY <1>1, <1>3, <1>4, <1>5 DEF Session

\* Giving up on a headset forgets its level.
LEMMA GivenUpType ==
  ASSUME NEW s \in Session
  PROVE  GivenUp(s) \in Session /\ GivenUp(s).level = None
<1>1. 0 \in 0..MaxUnanswered /\ 0 \in 0..LongestDelay
  BY UnansweredAssumption, DelayAssumption
<1>2. "Unknown" \in Link
  BY DEF Link
<1> QED BY <1>1, <1>2 DEF Session, GivenUp
=============================================================================
