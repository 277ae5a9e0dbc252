---------------------------- MODULE ReaderProofs ----------------------------
(***************************************************************************)
(* The native reader, for every set of nodes and every duration: its       *)
(* types, that the levels it shows are current, that a dongle that says    *)
(* nothing is asked seldom, what is believed of a link when sessions       *)
(* close, and that what lasts is told of.                                  *)
(***************************************************************************)
EXTENDS ReaderHistory, SessionProofs

\* A failure, taken in, is one the access watch can hold.
LEMMA FailingType ==
  ASSUME NEW last \in Access \cup {None}, NEW n \in Node, NEW err \in Error
  PROVE  failing(last, <<n, err>>) \in Access
<1> DEFINE message == <<n, err>>
           same    == last # None /\ last.message = message
           since   == IF same THEN last.since ELSE 0
<1>1. message \in Message
  BY NodeAssumption
<1>2. since \in 0..ErrorSettle
  BY WatchAssumption DEF Access
<1>3. ((same /\ last.reported) \/ since >= ErrorSettle) \in BOOLEAN
  OBVIOUS
<1>4. failing(last, message) =
        [message |-> message, since |-> since,
         reported |-> (same /\ last.reported) \/ since >= ErrorSettle]
  BY DEF failing
<1> HIDE DEF message, same, since
<1>5. failing(last, message) \in Access
  BY <1>1, <1>2, <1>3, <1>4 DEF Access
<1> QED BY <1>5 DEF message

\* The access watch ages.
LEMMA OlderAccessType ==
  ASSUME NEW last \in Access \cup {None}
  PROVE  OlderAccess(last) \in Access \cup {None}
<1>1. last # None => UpTo(last.since + 1, ErrorSettle) \in 0..ErrorSettle
  BY WatchAssumption DEF Access, UpTo
<1> QED BY <1>1 DEF Access, OlderAccess

\* A wedge watch starts with nothing to tell of.
LEMMA NewWatchType == NewWatch \in Wedge
<1>1. 0 \in 0..WedgeSilence
  BY WatchAssumption
<1> QED BY <1>1 DEF Wedge, NewWatch

\* A pass over a dongle, looked at or not, makes a wedge watch of a wedge watch.
LEMMA CheckType ==
  ASSUME NEW w \in Wedge, NEW running \in Playback
  PROVE  check(w, running) \in Wedge
<1>1. [at |-> 0, running |-> running] \in Probe
  BY WatchAssumption DEF Probe
<1>2. Probed(w, running) \in Wedge
  BY <1>1 DEF Wedge, Probed
<1>3. 0 \in 0..WedgeReminder
  BY WatchAssumption
<1>4. [Probed(w, running) EXCEPT !.warnedAt = 0] \in Wedge
  BY <1>2, <1>3 DEF Wedge
<1> QED BY <1>2, <1>4 DEF check

\* The wedge watch ages.
LEMMA OlderWedgeType ==
  ASSUME NEW w \in Wedge \cup {None}
  PROVE  OlderWedge(w) \in Wedge \cup {None}
<1> SUFFICES ASSUME w # None
             PROVE  OlderWedge(w) \in Wedge
  BY DEF OlderWedge
<1>1. w \in Wedge
  OBVIOUS
<1>2. UpTo(w.heardAt + 1, WedgeSilence) \in 0..WedgeSilence
  BY <1>1, WatchAssumption DEF Wedge, UpTo
<1>3. OlderBy1(w.warnedAt, WedgeReminder) \in (0..WedgeReminder) \cup {None}
  BY <1>1, WatchAssumption DEF Wedge, UpTo, OlderBy1
<1>4. w.probed # None => UpTo(w.probed.at + 1, ProbeEvery) \in 0..ProbeEvery
  BY <1>1, WatchAssumption DEF Wedge, Probe, UpTo
<1>5. OlderProbe(w.probed) \in Probe \cup {None}
  BY <1>1, <1>4 DEF Wedge, Probe, OlderProbe
<1> QED BY <1>2, <1>3, <1>5 DEF Wedge, OlderWedge

-----------------------------------------------------------------------------
\* A session there is, whether it was open or opens now.
LEMMA OpenedType ==
  ASSUME TypeOK, NEW n \in Node
  PROVE  /\ Opened(n) \in Session
         /\ n \notin Open => Opened(n).level = None
         /\ n \in Open => Opened(n) = sessions[n]
<1>1. CASE n \in Open
  BY <1>1 DEF Opened, Open, TypeOK
<1>2. CASE n \notin Open
  <2>1. lastLink[ProductOf[n]] \in Link
    BY NodeAssumption DEF TypeOK
  <2> QED BY <1>2, <2>1, OpenType DEF Opened
<1> QED BY <1>1, <1>2

\* A failure leaves the session as it was, or closes it.
LEMMA FailType ==
  ASSUME TypeOK, NEW n \in Node, NEW s \in Session, NEW err \in Error, Fail(n, s, err)
  PROVE  /\ sessions' \in [Node -> Session \cup {None}]
         /\ lastLink' \in [Product -> Link]
         /\ access' \in Access \cup {None}
<1>1. access' \in Access \cup {None}
  BY FailingType DEF Fail, TypeOK
<1>2. s.link \in Link
  BY DEF Session
<1>3. sessions' \in [Node -> Session \cup {None}] /\ lastLink' \in [Product -> Link]
  BY <1>2, NodeAssumption DEF Fail, TypeOK
<1> QED BY <1>1, <1>3

\* The watch, with what the report at hand said.
LEMMA WatchedType == TypeOK => Watched \in Wedge
BY NewWatchType DEF Watched, Spoken, TypeOK

\* A report taken in without failure.
LEMMA ConcludeType ==
  ASSUME TypeOK, at # None, NEW s \in Session, NEW running \in Playback,
         Conclude(s, running)
  PROVE  TypeOK'
<1>1. wedge' \in Wedge \cup {None}
  BY WatchedType, CheckType DEF Conclude
<1>2. sessions' \in [Node -> Session \cup {None}]
  BY DEF Conclude, TypeOK
<1> QED BY <1>1, <1>2 DEF Conclude, TypeOK

\* A message taken in.
LEMMA HearType ==
  ASSUME TypeOK, at # None, NEW s \in Session, Hear(s),
         readings' \in 0..MaxReadings
  PROVE  TypeOK'
<1>1. at \in Open /\ at \in Node
  BY DEF TypeOK, Open
<1>2. sessions' \in [Node -> Session \cup {None}] /\ sessions'[at] = s
  BY <1>1 DEF Hear, TypeOK
<1>3. at' \in Open'
  BY <1>1, <1>2, SessionAssumption DEF Hear, Open
<1> QED BY <1>2, <1>3 DEF Hear, TypeOK

\* The report being taken in is one of an open session.
LEMMA AtType ==
  ASSUME TypeOK, at # None
  PROVE  at \in Node /\ sessions[at] \in Session /\ at \in Open
BY DEF TypeOK, Open

\* Every step of the reader preserves the types.
LEMMA TypeStep == TypeOK /\ [Next]_vars => TypeOK'
<1> SUFFICES ASSUME TypeOK, [Next]_vars
             PROVE  TypeOK'
  OBVIOUS
<1>1. CASE Elapse
  <2>1. \A n \in Open : Older(sessions[n]) \in Session
    BY OlderType DEF Open, TypeOK
  <2>2. sessions' \in [Node -> Session \cup {None}]
    BY <1>1, <2>1 DEF Elapse
  <2>3. wedge' \in Wedge \cup {None} /\ access' \in Access \cup {None}
    BY <1>1, OlderWedgeType, OlderAccessType DEF Elapse, TypeOK
  <2> QED BY <1>1, <2>2, <2>3 DEF Elapse, BetweenPasses, TypeOK
<1>2. ASSUME NEW listed \in Listing, Poll(listed)
      PROVE  TypeOK'
  <2>1. listed \subseteq Node
    BY NodeAssumption
  <2>2. sessions' \in [Node -> Session \cup {None}]
    BY <1>2 DEF Poll, TypeOK
  <2> QED BY <1>2, <2>1, <2>2 DEF Poll, BetweenPasses, TypeOK
<1>3. ASSUME NEW n \in Node, NEW err \in Error, OpenFails(n, err)
      PROVE  TypeOK'
  <2>1. access' \in Access \cup {None}
    BY <1>3, FailingType DEF OpenFails, TypeOK
  <2> QED BY <1>3, <2>1 DEF OpenFails, TypeOK
<1>4. ASSUME NEW n \in Node, NEW err \in Error, FetchFails(n, err)
      PROVE  TypeOK'
  <2>1. Opened(n) \in Session
    BY OpenedType
  <2>2. Fail(n, Opened(n), err)
    BY <1>4 DEF FetchFails
  <2>3. /\ sessions' \in [Node -> Session \cup {None}]
        /\ lastLink' \in [Product -> Link]
        /\ access' \in Access \cup {None}
    BY <2>1, <2>2, FailType
  <2> QED BY <1>4, <2>3 DEF FetchFails, TypeOK
<1>5. ASSUME NEW n \in Node, Fetch(n)
      PROVE  TypeOK'
  <2>1. Opened(n) \in Session
    BY OpenedType
  <2>2. sessions' \in [Node -> Session \cup {None}] /\ sessions'[n] = Opened(n)
    BY <1>5, <2>1 DEF Fetch, TypeOK
  <2>3. n \in Open'
    BY <2>1, <2>2, SessionAssumption DEF Open
  <2> QED BY <1>5, <2>2, <2>3 DEF Fetch, TypeOK
<1>6. ASSUME NEW up \in BOOLEAN, HearLink(up)
      PROVE  TypeOK'
  <2>1. at # None /\ sessions[at] \in Session
    BY <1>6, AtType DEF HearLink
  <2>2. TakeUp(sessions[at]) \in Session /\ TakeDown(sessions[at]) \in Session
    BY <2>1, TakeLinkType
  <2>3. readings' \in 0..MaxReadings
    BY <1>6 DEF HearLink, TypeOK
  <2> QED BY <1>6, <2>1, <2>2, <2>3, HearType DEF HearLink
<1>7. ASSUME NEW level \in Percent, HearLevel(level)
      PROVE  TypeOK'
  <2>1. at # None /\ sessions[at] \in Session
    BY <1>7, AtType DEF HearLevel
  <2>2. readings + 1 \in Nat /\ readings' \in 0..MaxReadings
    BY <1>7, NodeAssumption DEF HearLevel, TypeOK
  <2>3. TakeLevel(sessions[at], level, readings + 1) \in Session
    BY <2>1, <2>2, TakeLevelType
  <2> QED BY <1>7, <2>1, <2>2, <2>3, HearType DEF HearLevel
<1>8. ASSUME NEW running \in Playback,
             DontAsk(running) \/ GiveUp(running) \/ Ask(running)
      PROVE  TypeOK'
  <2>1. at # None /\ sessions[at] \in Session
    BY <1>8, AtType DEF DontAsk, GiveUp, Ask
  <2>2. GivenUp(sessions[at]) \in Session /\ Asked(sessions[at]) \in Session
    BY <2>1, GivenUpType, AskedType
  <2> QED BY <1>8, <2>1, <2>2, ConcludeType DEF DontAsk, GiveUp, Ask
<1>9. ASSUME NEW err \in Error, AskFails(err)
      PROVE  TypeOK'
  <2>1. at \in Node /\ sessions[at] \in Session
    BY <1>9, AtType DEF AskFails
  <2>2. Counted(sessions[at]) \in Session
    BY <2>1, CountedType
  <2>3. Fail(at, Counted(sessions[at]), err)
    BY <1>9 DEF AskFails
  <2>4. /\ sessions' \in [Node -> Session \cup {None}]
        /\ lastLink' \in [Product -> Link]
        /\ access' \in Access \cup {None}
    BY <2>1, <2>2, <2>3, FailType
  <2>5. wedge' \in Wedge \cup {None}
    BY <1>9, WatchedType DEF AskFails
  <2> QED BY <1>9, <2>4, <2>5 DEF AskFails, TypeOK
<1>10. CASE UNCHANGED vars
  BY <1>10 DEF vars, TypeOK, Open
<1> QED BY <1>1, <1>2, <1>3, <1>4, <1>5, <1>6, <1>7, <1>8, <1>9, <1>10 DEF Next

\* The reader's state is of its types, in particular the report being taken in
\* is always one of an open session, for every set of nodes and every duration.
THEOREM ReaderTypeCorrect == Spec => []TypeOK
<1>1. Init => TypeOK
  <2>1. 0 \in 0..MaxReadings
    BY NodeAssumption
  <2> QED BY <2>1 DEF Init, TypeOK, Link
<1> QED BY <1>1, TypeStep, PTL DEF Spec

-----------------------------------------------------------------------------
\* A session whose level is current, after a number of battery messages.
IsCurrent(s, number) ==
  s.level # None => s.link = "Up" /\ s.sample \in 1..number

\* What is done to a session keeps its level current.
LEMMA CurrentSession ==
  ASSUME NEW s \in Session, NEW number \in Nat, IsCurrent(s, number)
  PROVE  /\ IsCurrent(Older(s), number)
         /\ IsCurrent(TakeUp(s), number)
         /\ IsCurrent(TakeDown(s), number)
         /\ IsCurrent(Counted(s), number)
         /\ IsCurrent(Asked(s), number)
         /\ IsCurrent(GivenUp(s), number)
         /\ IsCurrent(s, number + 1)
<1>1. /\ Older(s).level = s.level /\ Older(s).link = s.link
      /\ Older(s).sample = s.sample
  BY DEF Session, Older
<1>2. /\ TakeUp(s).level = s.level /\ TakeUp(s).link = "Up"
      /\ TakeUp(s).sample = s.sample
  BY DEF Session, TakeUp
<1>3. TakeDown(s).level = None
  BY DEF Session, TakeDown
<1>4. s.sample \in 1..number => s.sample \in 1..(number + 1)
  OBVIOUS
<1> QED BY <1>1, <1>2, <1>3, <1>4, CountedType, AskedType, GivenUpType DEF IsCurrent

\* A level just heard is current.
LEMMA CurrentLevel ==
  ASSUME NEW s \in Session, NEW level \in Percent, NEW number \in Nat
  PROVE  IsCurrent(TakeLevel(s, level, number + 1), number + 1)
<1>1. TakeLevel(s, level, number + 1).link = "Up"
      /\ TakeLevel(s, level, number + 1).sample = number + 1
  BY DEF Session, TakeLevel
<1> QED BY <1>1 DEF IsCurrent

\* A step that only puts a current session in a place, or takes one away, keeps
\* the levels current.
LEMMA CurrentUpdate ==
  ASSUME TypeOK, LevelsAreCurrent, NEW n \in Node, NEW s, IsCurrent(s, readings'),
         readings' = readings \/ readings' = readings + 1,
         sessions' = [sessions EXCEPT ![n] = s] \/ sessions' = [sessions EXCEPT ![n] = None]
  PROVE  LevelsAreCurrent'
<1> SUFFICES ASSUME NEW m \in Open'
             PROVE  IsCurrent(sessions'[m], readings')
  BY DEF LevelsAreCurrent, IsCurrent
<1>1. m \in Node /\ sessions'[m] # None
  BY DEF Open
<1>2. CASE m = n
  BY <1>1, <1>2 DEF TypeOK
<1>3. CASE m # n
  <2>1. sessions'[m] = sessions[m] /\ m \in Open
    BY <1>1, <1>3 DEF TypeOK, Open
  <2>2. sessions[m] \in Session /\ IsCurrent(sessions[m], readings) /\ readings \in Nat
    BY <2>1 DEF TypeOK, Open, LevelsAreCurrent, IsCurrent
  <2>3. IsCurrent(sessions[m], readings + 1)
    BY <2>2, CurrentSession
  <2> QED BY <2>1, <2>2, <2>3
<1> QED BY <1>2, <1>3

\* Every step of the reader keeps the levels current.
LEMMA CurrentStep == TypeOK /\ LevelsAreCurrent /\ [Next]_vars => LevelsAreCurrent'
<1> SUFFICES ASSUME TypeOK, LevelsAreCurrent, [Next]_vars
             PROVE  LevelsAreCurrent'
  OBVIOUS
<1>a. readings \in Nat
  BY DEF TypeOK
<1>b. \A n \in Open : sessions[n] \in Session /\ IsCurrent(sessions[n], readings)
  BY DEF TypeOK, Open, LevelsAreCurrent, IsCurrent
<1>c. \A n \in Node : IsCurrent(Opened(n), readings)
  BY <1>b, OpenedType DEF IsCurrent
<1>d. at # None => at \in Node /\ at \in Open
  BY AtType
<1>1. CASE Elapse
  <2>1. \A n \in Open : IsCurrent(Older(sessions[n]), readings)
    BY <1>a, <1>b, CurrentSession
  <2>2. \A n \in Open' : n \in Open /\ sessions'[n] = Older(sessions[n])
    BY <1>1 DEF Elapse, Open
  <2>3. readings' = readings
    BY <1>1 DEF Elapse
  <2> QED BY <2>1, <2>2, <2>3 DEF LevelsAreCurrent, IsCurrent
<1>2. ASSUME NEW listed \in Listing, Poll(listed)
      PROVE  LevelsAreCurrent'
  <2>1. \A n \in Open' : n \in Open /\ sessions'[n] = sessions[n]
    BY <1>2 DEF Poll, Open
  <2> QED BY <1>2, <2>1 DEF Poll, LevelsAreCurrent
<1>3. ASSUME NEW n \in Node, NEW err \in Error, OpenFails(n, err)
      PROVE  LevelsAreCurrent'
  BY <1>3 DEF OpenFails, LevelsAreCurrent, Open
<1>4. ASSUME NEW n \in Node, NEW err \in Error, FetchFails(n, err)
      PROVE  LevelsAreCurrent'
  BY <1>4, <1>c, CurrentUpdate DEF FetchFails, Fail
<1>5. ASSUME NEW n \in Node, Fetch(n)
      PROVE  LevelsAreCurrent'
  BY <1>5, <1>c, CurrentUpdate DEF Fetch
<1>6. ASSUME NEW up \in BOOLEAN, HearLink(up)
      PROVE  LevelsAreCurrent'
  <2>1. IsCurrent(TakeUp(sessions[at]), readings) /\ IsCurrent(TakeDown(sessions[at]), readings)
    BY <1>6, <1>a, <1>b, <1>d, CurrentSession DEF HearLink
  <2> QED BY <1>6, <1>d, <2>1, CurrentUpdate DEF HearLink, Hear
<1>7. ASSUME NEW level \in Percent, HearLevel(level)
      PROVE  LevelsAreCurrent'
  <2>1. IsCurrent(TakeLevel(sessions[at], level, readings + 1), readings + 1)
    BY <1>7, <1>a, <1>b, <1>d, CurrentLevel DEF HearLevel
  <2> QED BY <1>7, <1>d, <2>1, CurrentUpdate DEF HearLevel, Hear
<1>8. ASSUME NEW running \in Playback,
             DontAsk(running) \/ GiveUp(running) \/ Ask(running)
      PROVE  LevelsAreCurrent'
  <2>1. at # None
    BY <1>8 DEF DontAsk, GiveUp, Ask
  <2>2. /\ IsCurrent(sessions[at], readings)
        /\ IsCurrent(GivenUp(sessions[at]), readings)
        /\ IsCurrent(Asked(sessions[at]), readings)
    BY <2>1, <1>a, <1>b, <1>d, CurrentSession
  <2> QED BY <1>8, <1>d, <2>1, <2>2, CurrentUpdate DEF DontAsk, GiveUp, Ask, Conclude
<1>9. ASSUME NEW err \in Error, AskFails(err)
      PROVE  LevelsAreCurrent'
  <2>1. IsCurrent(Counted(sessions[at]), readings)
    BY <1>9, <1>a, <1>b, <1>d, CurrentSession DEF AskFails
  <2> QED BY <1>9, <1>d, <2>1, CurrentUpdate DEF AskFails, Fail
<1>10. CASE UNCHANGED vars
  BY <1>10 DEF vars, LevelsAreCurrent, Open
<1> QED BY <1>1, <1>2, <1>3, <1>4, <1>5, <1>6, <1>7, <1>8, <1>9, <1>10 DEF Next

\* A level a session keeps belongs to a headset believed to be linked, and came in
\* a battery message, for every set of nodes and every duration.
THEOREM CurrentLevels == Spec => []LevelsAreCurrent
<1>1. Init => LevelsAreCurrent
  BY DEF Init, LevelsAreCurrent, Open
<1> QED BY <1>1, CurrentStep, ReaderTypeCorrect, PTL DEF Spec

-----------------------------------------------------------------------------
(* What the reader does over many passes.                                  *)

\* The history adds nothing to what the reader does.
LEMMA RememberedIsReader == [RememberedNext]_allVars => [Next]_vars
BY DEF RememberedNext, allVars, vars, RememberedElapse, RememberedPoll,
       RememberedFailure, RememberedLink, RememberedLevel,
       RememberedConclusion, RememberedAskFails, Next

\* The reader's state keeps its types under the history.
LEMMA RememberedType == RememberedSpec => []TypeOK
<1>1. RememberedInit => TypeOK
  <2>1. 0 \in 0..MaxReadings
    BY NodeAssumption
  <2> QED BY <2>1 DEF RememberedInit, Init, TypeOK, Link
<1> QED BY <1>1, TypeStep, RememberedIsReader, PTL DEF RememberedSpec

-----------------------------------------------------------------------------
(* Quick questions. *)

\* A session after q quick requests to a dongle that said nothing: either the
\* requests asked or, while it believes the headset linked, the ones unanswered
\* account for them.
Spared(s, q) ==
  /\ q <= MaxUnanswered
  /\ s.asks < QuickAsks => q <= s.asks
  /\ s.askedAt = None => s.asks = 0
  /\ s.link = "Up" => IF s.pending THEN q <= s.unanswered + 1 ELSE q = 0

SparedInv ==
  /\ quick \in [Node -> Nat]
  /\ \A n \in Open : Spared(sessions[n], quick[n])
  /\ \A n \in Node \ Open : quick[n] = 0

\* What the bounds are.
LEMMA Bounds ==
  /\ QuickAsks \in Nat /\ QuickAsks >= 1
  /\ MaxUnanswered \in Nat /\ QuickAsks <= MaxUnanswered
BY DelayAssumption, UnansweredAssumption DEF QuickAsks

\* A session that opens has asked nothing.
LEMMA SparedOpen ==
  ASSUME NEW link \in Link
  PROVE  Spared(open(link), 0)
BY Bounds DEF Spared, open

\* Time does not tell against a session.
LEMMA SparedOlder ==
  ASSUME NEW s \in Session, NEW q \in Nat, Spared(s, q)
  PROVE  Spared(Older(s), q)
<1>1. /\ Older(s).asks = s.asks /\ Older(s).link = s.link
      /\ Older(s).pending = s.pending /\ Older(s).unanswered = s.unanswered
      /\ Older(s).askedAt = OlderBy1(s.askedAt, LongestDelay)
  BY DEF Session, Older
<1>2. OlderBy1(s.askedAt, LongestDelay) = None => s.askedAt = None
  BY DelayAssumption, AbsenceAssumption DEF Session, OlderBy1, UpTo
<1> QED BY <1>1, <1>2 DEF Spared

\* A dongle that speaks of the link is owed nothing.
LEMMA SparedLink ==
  ASSUME NEW s \in Session, NEW q \in Nat, Spared(s, q)
  PROVE  Spared(TakeUp(s), 0) /\ Spared(TakeDown(s), 0)
<1>1. /\ TakeUp(s).asks = s.asks /\ TakeUp(s).askedAt = s.askedAt
      /\ TakeUp(s).unanswered = 0
  BY DEF Session, TakeUp
<1>2. /\ TakeDown(s).asks = s.asks /\ TakeDown(s).askedAt = s.askedAt
      /\ TakeDown(s).link = "Down"
  BY DEF Session, TakeDown
<1>3. s.asks \in Nat
  BY Bounds DEF Session
<1> QED BY <1>1, <1>2, <1>3, Bounds DEF Spared

\* Nor is one that gives a level.
LEMMA SparedLevel ==
  ASSUME NEW s \in Session, NEW q \in Nat, Spared(s, q),
         NEW level \in Percent, NEW number \in Nat
  PROVE  Spared(TakeLevel(s, level, number), 0)
<1>1. /\ TakeLevel(s, level, number).asks = s.asks
      /\ TakeLevel(s, level, number).askedAt = s.askedAt
      /\ TakeLevel(s, level, number).pending = FALSE
  BY DEF Session, TakeLevel
<1>2. s.asks \in Nat
  BY Bounds DEF Session
<1> QED BY <1>1, <1>2, Bounds DEF Spared

\* A request that fails to be written is not one more, whatever it counts as.
LEMMA SparedCounted ==
  ASSUME NEW s \in Session, NEW q \in Nat, Spared(s, q), ~GivesUp(s)
  PROVE  Spared(Counted(s), q)
<1> DEFINE u == UpTo(s.unanswered + 1, MaxUnanswered)
<1>1. s.unanswered \in Nat
  BY Bounds DEF Session
<1>2. CASE s.pending
  <2>1. /\ Counted(s).asks = s.asks /\ Counted(s).askedAt = s.askedAt
        /\ Counted(s).link = s.link /\ Counted(s).pending = s.pending
        /\ Counted(s).unanswered = u
    BY <1>2 DEF Session, Counted
  <2>2. s.link = "Up" => u = s.unanswered + 1
    BY <1>1, <2>1, Bounds DEF GivesUp, UpTo
  <2> HIDE DEF u
  <2> QED BY <1>1, <1>2, <2>1, <2>2 DEF Spared
<1>3. CASE ~s.pending
  BY <1>3 DEF Counted
<1> QED BY <1>2, <1>3

\* A linked headset that is given up on was asked no more than it may be.
LEMMA SparedGivenUp ==
  ASSUME NEW s \in Session, NEW q \in Nat, Spared(s, q)
  PROVE  Spared(GivenUp(s), q)
<1>1. /\ GivenUp(s).asks = s.asks /\ GivenUp(s).askedAt = 0
      /\ GivenUp(s).link = "Unknown"
  BY DEF Session, GivenUp
<1>2. 0 # None
  BY AbsenceAssumption
<1> QED BY <1>1, <1>2 DEF Spared

\* The fields a request that is written changes.
LEMMA AskedFields ==
  ASSUME NEW s \in Session
  PROVE  /\ Asked(s).askedAt = 0
         /\ Asked(s).asks = UpTo(s.asks + 1, QuickAsks)
         /\ Asked(s).pending = TRUE
         /\ Asked(s).link = s.link
         /\ Asked(s).unanswered = Counted(s).unanswered
<1> DEFINE c == Counted(s)
<1>1. c \in Session
  BY CountedType
<1>2. c.asks = s.asks /\ c.link = s.link
  BY DEF Session, Counted
<1>3. Asked(s) = [c EXCEPT !.askedAt = 0, !.asks = UpTo(@ + 1, QuickAsks),
                           !.pending = TRUE]
  BY DEF Asked
<1> HIDE DEF c
<1>4. /\ Asked(s).askedAt = 0 /\ Asked(s).asks = UpTo(s.asks + 1, QuickAsks)
      /\ Asked(s).pending = TRUE /\ Asked(s).link = s.link
      /\ Asked(s).unanswered = c.unanswered
  BY <1>1, <1>2, <1>3 DEF Session
<1> QED BY <1>4 DEF c

\* A quick request follows few enough others.
LEMMA SparedAsked ==
  ASSUME NEW s \in Session, NEW q \in Nat, Spared(s, q),
         should_ask(s), ~GivesUp(s)
  PROVE  Spared(Asked(s), IF IsQuick(s) THEN q + 1 ELSE q)
<1> DEFINE r == IF IsQuick(s) THEN q + 1 ELSE q
           u == Counted(s).unanswered
<1>1. /\ s.asks \in 0..QuickAsks /\ s.unanswered \in Nat
      /\ s.askedAt \in Nat \cup {None} /\ s.pending \in BOOLEAN
  BY Bounds, DelayAssumption DEF Session
<1>2. r \in Nat /\ r <= q + 1
  OBVIOUS
<1>3. s.link = "Up" => r <= u + 1 /\ r <= MaxUnanswered
  <2> SUFFICES ASSUME s.link = "Up"
               PROVE  r <= u + 1 /\ r <= MaxUnanswered
    OBVIOUS
  <2>1. u < MaxUnanswered /\ u \in Nat
    BY CountedType, Bounds DEF GivesUp, Session
  <2>2. CASE s.pending
    <3>1. u = UpTo(s.unanswered + 1, MaxUnanswered)
      BY <2>2 DEF Counted, Session
    <3>2. u = s.unanswered + 1
      BY <1>1, <2>1, <3>1, Bounds DEF UpTo
    <3>3. q <= u
      BY <2>2, <3>2 DEF Spared
    <3> QED BY <1>2, <2>1, <3>3, Bounds
  <2>3. CASE ~s.pending
    <3>1. q = 0
      BY <2>3 DEF Spared
    <3> QED BY <1>2, <2>1, <3>1, Bounds
  <2> QED BY <2>2, <2>3
<1>4. s.link # "Up" /\ IsQuick(s) => s.asks < QuickAsks
  <2> SUFFICES ASSUME s.link # "Up", IsQuick(s)
               PROVE  s.asks < QuickAsks
    OBVIOUS
  <2>1. CASE s.askedAt = None
    BY <2>1, Bounds DEF Spared
  <2>2. CASE s.askedAt # None
    <3>1. s.askedAt >= AskDelay(s.asks) /\ s.askedAt < AskIdleRetry
      BY <2>2 DEF should_ask, IsQuick
    <3>2. AskDelay(s.asks) # AskIdleRetry
      BY <1>1, <2>2, <3>1, DelayAssumption
    <3>3. s.asks \in 1..Len(AskAgainAfter)
      BY <3>2, DelayAssumption DEF AskDelay
    <3> QED BY <3>3, DelayAssumption DEF QuickAsks
  <2> QED BY <2>1, <2>2
<1>5. r <= MaxUnanswered
  <2>1. CASE s.link = "Up"
    BY <1>3, <2>1
  <2>2. CASE s.link # "Up" /\ IsQuick(s)
    BY <1>1, <1>2, <1>4, <2>2, Bounds DEF Spared
  <2>3. CASE ~IsQuick(s)
    BY <2>3 DEF Spared
  <2> QED BY <2>1, <2>2, <2>3
<1> HIDE DEF r, u
<1>6. Asked(s).asks < QuickAsks => r <= Asked(s).asks
  <2> SUFFICES ASSUME Asked(s).asks < QuickAsks
               PROVE  r <= Asked(s).asks
    OBVIOUS
  <2>1. Asked(s).asks = UpTo(s.asks + 1, QuickAsks)
    BY AskedFields
  <2>2. s.asks + 1 < QuickAsks /\ Asked(s).asks = s.asks + 1
    BY <1>1, <2>1, Bounds DEF UpTo
  <2>3. q <= s.asks
    BY <1>1, <2>2, Bounds DEF Spared
  <2> QED BY <1>1, <1>2, <2>2, <2>3
<1>7. Asked(s).askedAt # None
  <2>1. 0 # None
    BY AbsenceAssumption
  <2> QED BY <2>1, AskedFields
<1>8. Spared(Asked(s), r)
  BY <1>3, <1>5, <1>6, <1>7, AskedFields DEF Spared, u
<1> QED BY <1>8 DEF r

\* A step that changes one session and its count keeps the others.
LEMMA SparedUpdate ==
  ASSUME TypeOK, SparedInv, NEW n \in Node, NEW s \in Session, NEW q \in Nat,
         Spared(s, q),
         sessions' = [sessions EXCEPT ![n] = s], quick' = [quick EXCEPT ![n] = q]
  PROVE  SparedInv'
<1>1. s # None
  BY SessionAssumption
<1>2. \A m \in Node : m # n => sessions'[m] = sessions[m] /\ quick'[m] = quick[m]
  BY DEF TypeOK, SparedInv
<1>3. sessions'[n] = s /\ quick'[n] = q /\ quick' \in [Node -> Nat]
  BY DEF TypeOK, SparedInv
<1> QED BY <1>1, <1>2, <1>3 DEF SparedInv, Open

\* A step that closes sessions, or fails to use one, keeps the counts of those
\* that stay.
LEMMA SparedCounts ==
  ASSUME TypeOK, SparedInv, CountsOfOpen,
         \A n \in Node : sessions'[n] # None => Spared(sessions'[n], quick[n])
  PROVE  SparedInv'
<1>1. quick' \in [Node -> Nat]
  BY DEF SparedInv, CountsOfOpen
<1>2. \A n \in Open' : Spared(sessions'[n], quick'[n])
  BY DEF CountsOfOpen, Open
<1>3. \A n \in Node : n \notin Open' => quick'[n] = 0
  BY DEF CountsOfOpen, Open
<1> QED BY <1>1, <1>2, <1>3 DEF SparedInv

\* So does an exchange that fails.
LEMMA SparedFail ==
  ASSUME TypeOK, SparedInv, NEW n \in Node, NEW s \in Session, NEW err \in Error,
         Fail(n, s, err), CountsOfOpen, Spared(s, quick[n])
  PROVE  SparedInv'
<1>1. \A m \in Node : sessions'[m] # None => Spared(sessions'[m], quick[m])
  BY DEF Fail, TypeOK, SparedInv, Open
<1> QED BY <1>1, SparedCounts

\* A session there is, whether it was open or opens now, was spared.
LEMMA SparedOpened ==
  ASSUME TypeOK, SparedInv, NEW n \in Node
  PROVE  Spared(Opened(n), quick[n])
<1>1. CASE n \in Open
  BY <1>1 DEF Opened, SparedInv
<1>2. CASE n \notin Open
  <2>1. lastLink[ProductOf[n]] \in Link /\ quick[n] = 0
    BY <1>2, NodeAssumption DEF TypeOK, SparedInv
  <2> QED BY <1>2, <2>1, SparedOpen DEF Opened
<1> QED BY <1>1, <1>2

\* Every step keeps the count of quick requests within bounds.
LEMMA SparedStep ==
  TypeOK /\ SparedInv /\ [RememberedNext]_allVars => SparedInv'
<1> SUFFICES ASSUME TypeOK, SparedInv, [RememberedNext]_allVars
             PROVE  SparedInv'
  OBVIOUS
<1>a. \A n \in Open : sessions[n] \in Session /\ quick[n] \in Nat /\ Spared(sessions[n], quick[n])
  BY DEF TypeOK, SparedInv, Open
<1>b. at # None => at \in Node /\ at \in Open /\ sessions[at] \in Session
                   /\ quick[at] \in Nat /\ Spared(sessions[at], quick[at])
  BY <1>a, AtType
<1>1. CASE RememberedElapse
  <2>1. \A n \in Open : Spared(Older(sessions[n]), quick[n]) /\ Older(sessions[n]) \in Session
    BY <1>a, SparedOlder, OlderType
  <2>2. /\ quick' = quick
        /\ sessions' = [n \in Node |-> IF n \in Open THEN Older(sessions[n]) ELSE None]
    BY <1>1 DEF RememberedElapse, Elapse
  <2>3. Open' = Open
    BY <2>1, <2>2, SessionAssumption DEF Open
  <2>4. \A n \in Open : sessions'[n] = Older(sessions[n])
    BY <2>2 DEF Open
  <2> QED BY <2>1, <2>2, <2>3, <2>4 DEF SparedInv
<1>2. ASSUME NEW listed \in Listing, RememberedPoll(listed)
      PROVE  SparedInv'
  <2>1. \A n \in Node : sessions'[n] # None => n \in Open /\ sessions'[n] = sessions[n]
    BY <1>2 DEF RememberedPoll, Poll, Open
  <2>2. CountsOfOpen
    BY <1>2 DEF RememberedPoll
  <2> QED BY <1>a, <2>1, <2>2, SparedCounts
<1>3. ASSUME NEW n \in Node, NEW err \in Error, RememberedFailure(n, err)
      PROVE  SparedInv'
  <2>1. CountsOfOpen
    BY <1>3 DEF RememberedFailure
  <2>2. CASE OpenFails(n, err)
    <3>1. \A m \in Node : sessions'[m] # None => m \in Open /\ sessions'[m] = sessions[m]
      BY <2>2 DEF OpenFails, Open
    <3> QED BY <1>a, <2>1, <3>1, SparedCounts
  <2>3. CASE FetchFails(n, err)
    <3>1. Opened(n) \in Session /\ Spared(Opened(n), quick[n])
      BY OpenedType, SparedOpened
    <3>2. Fail(n, Opened(n), err)
      BY <2>3 DEF FetchFails
    <3> QED BY <2>1, <3>1, <3>2, SparedFail
  <2> QED BY <1>3, <2>2, <2>3 DEF RememberedFailure
<1>4. ASSUME NEW n \in Node, Fetch(n), UNCHANGED history
      PROVE  SparedInv'
  <2>1. Opened(n) \in Session /\ Spared(Opened(n), quick[n]) /\ quick[n] \in Nat
    BY OpenedType, SparedOpened DEF SparedInv
  <2>2. quick' = [quick EXCEPT ![n] = quick[n]]
    BY <1>4 DEF history, SparedInv
  <2> QED BY <1>4, <2>1, <2>2, SparedUpdate DEF Fetch
<1>5. ASSUME NEW up \in BOOLEAN, RememberedLink(up)
      PROVE  SparedInv'
  <2> DEFINE s == IF up THEN TakeUp(sessions[at]) ELSE TakeDown(sessions[at])
  <2>1. at # None /\ sessions' = [sessions EXCEPT ![at] = s] /\ quick' = [quick EXCEPT ![at] = 0]
    BY <1>5 DEF RememberedLink, HearLink, Hear
  <2>2. TakeUp(sessions[at]) \in Session /\ TakeDown(sessions[at]) \in Session
    BY <1>b, <2>1, TakeLinkType
  <2>3. Spared(TakeUp(sessions[at]), 0) /\ Spared(TakeDown(sessions[at]), 0)
    BY <1>b, <2>1, SparedLink
  <2> QED BY <1>b, <2>1, <2>2, <2>3, SparedUpdate
<1>6. ASSUME NEW level \in Percent, RememberedLevel(level)
      PROVE  SparedInv'
  <2> DEFINE s == TakeLevel(sessions[at], level, readings + 1)
  <2>1. at # None /\ sessions' = [sessions EXCEPT ![at] = s] /\ quick' = [quick EXCEPT ![at] = 0]
    BY <1>6 DEF RememberedLevel, HearLevel, Hear
  <2>2. readings + 1 \in Nat
    BY DEF TypeOK
  <2>3. s \in Session /\ Spared(s, 0)
    BY <1>b, <2>1, <2>2, TakeLevelType, SparedLevel
  <2> HIDE DEF s
  <2> QED BY <1>b, <2>1, <2>3, SparedUpdate
<1>7. ASSUME NEW running \in Playback, RememberedConclusion(running)
      PROVE  SparedInv'
  <2>1. at # None
    BY <1>7 DEF RememberedConclusion, DontAsk, GiveUp, Ask
  <2>2. CASE DontAsk(running) /\ UNCHANGED <<said, quick>>
    <3>1. quick' = [quick EXCEPT ![at] = quick[at]]
      BY <2>2 DEF SparedInv
    <3> QED BY <1>b, <2>1, <2>2, <3>1, SparedUpdate DEF DontAsk, Conclude
  <2>3. CASE GiveUp(running) /\ UNCHANGED quick
    <3>1. quick' = [quick EXCEPT ![at] = quick[at]]
      BY <2>3 DEF SparedInv
    <3>2. GivenUp(sessions[at]) \in Session /\ Spared(GivenUp(sessions[at]), quick[at])
      BY <1>b, <2>1, GivenUpType, SparedGivenUp
    <3> QED BY <1>b, <2>1, <2>3, <3>1, <3>2, SparedUpdate DEF GiveUp, Conclude
  <2>4. CASE /\ Ask(running)
             /\ quick' = [quick EXCEPT ![at] = IF IsQuick(sessions[at]) THEN @ + 1 ELSE @]
    <3> DEFINE q == IF IsQuick(sessions[at]) THEN quick[at] + 1 ELSE quick[at]
    <3>1. quick' = [quick EXCEPT ![at] = q] /\ q \in Nat
      BY <1>b, <2>1, <2>4
    <3>2. Asked(sessions[at]) \in Session /\ Spared(Asked(sessions[at]), q)
      BY <1>b, <2>1, <2>4, AskedType, SparedAsked DEF Ask
    <3>3. sessions' = [sessions EXCEPT ![at] = Asked(sessions[at])]
      BY <2>4 DEF Ask, Conclude
    <3> HIDE DEF q
    <3> QED BY <1>b, <2>1, <3>1, <3>2, <3>3, SparedUpdate
  <2> QED BY <1>7, <2>2, <2>3, <2>4 DEF RememberedConclusion
<1>8. ASSUME NEW err \in Error, RememberedAskFails(err)
      PROVE  SparedInv'
  <2>1. /\ at # None /\ ~GivesUp(sessions[at]) /\ CountsOfOpen
        /\ Fail(at, Counted(sessions[at]), err)
    BY <1>8 DEF RememberedAskFails, AskFails
  <2>2. Counted(sessions[at]) \in Session /\ Spared(Counted(sessions[at]), quick[at])
    BY <1>b, <2>1, CountedType, SparedCounted
  <2> QED BY <1>b, <2>1, <2>2, SparedFail
<1>9. CASE UNCHANGED allVars
  BY <1>9 DEF allVars, vars, history, SparedInv, Open
<1> QED BY <1>1, <1>2, <1>3, <1>4, <1>5, <1>6, <1>7, <1>8, <1>9 DEF RememberedNext

\* No session sends more than MaxUnanswered quick requests to a dongle that says
\* nothing, for every set of nodes and every pace of the questions.
THEOREM DonglesSpared == RememberedSpec => []SilentDonglesAreSpared
<1>1. RememberedInit => SparedInv
  BY DEF Init, RememberedInit, SparedInv, Open
<1>2. SparedInv => SilentDonglesAreSpared
  BY DEF SparedInv, Spared, SilentDonglesAreSpared
<1> QED BY <1>1, <1>2, SparedStep, RememberedType, PTL DEF RememberedSpec

-----------------------------------------------------------------------------
(* Beliefs. *)

\* No two of some nodes are of dongles of one model.
OneOfAModel(nodes) ==
  \A m, n \in nodes : ProductOf[m] = ProductOf[n] => m = n

BeliefInv ==
  /\ said \in [Product -> Link]
  /\ OneOfAModel(Open \cup todo)
  /\ BeliefOutlivesSessions
  /\ \A p \in Product :
       (\A n \in Open : ProductOf[n] # p) => lastLink[p] = said[p]

\* A session there is, whether it was open or opens now, believes what was said.
LEMMA BelievedOpened ==
  ASSUME TypeOK, BeliefInv, NEW n \in todo
  PROVE  Opened(n).link = said[ProductOf[n]] /\ ProductOf[n] \in Product
<1>0. n \in Node /\ ProductOf[n] \in Product
  BY NodeAssumption DEF TypeOK
<1>1. CASE n \in Open
  BY <1>0, <1>1 DEF Opened, BeliefInv, BeliefOutlivesSessions
<1>2. CASE n \notin Open
  <2>1. \A m \in Open : ProductOf[m] # ProductOf[n]
    BY <1>2 DEF BeliefInv, OneOfAModel
  <2>2. Opened(n).link = lastLink[ProductOf[n]]
    BY <1>2 DEF Opened, open
  <2> QED BY <1>0, <2>1, <2>2 DEF BeliefInv
<1> QED BY <1>0, <1>1, <1>2

\* A step that puts a session in a place, of a dongle whose link is what is said
\* of its model from now on, keeps the beliefs.
LEMMA BeliefUpdate ==
  ASSUME TypeOK, BeliefInv, NEW n \in Open \cup todo, NEW s \in Session,
         sessions' = [sessions EXCEPT ![n] = s],
         said' = [said EXCEPT ![ProductOf[n]] = s.link],
         lastLink' = lastLink, todo' \subseteq todo
  PROVE  BeliefInv'
<1>1. n \in Node /\ ProductOf[n] \in Product /\ s # None /\ s.link \in Link
  BY NodeAssumption, SessionAssumption DEF TypeOK, Open, Session
<1>2. \A m \in Node : sessions'[m] = IF m = n THEN s ELSE sessions[m]
  BY DEF TypeOK
<1>3. Open' = Open \cup {n}
  BY <1>1, <1>2 DEF Open
<1>4. OneOfAModel(Open' \cup todo')
  BY <1>3 DEF BeliefInv, OneOfAModel
<1>5. said' \in [Product -> Link] /\ said'[ProductOf[n]] = s.link
  BY <1>1 DEF BeliefInv
<1>6. ASSUME NEW m \in Open'
      PROVE  sessions'[m].link = said'[ProductOf[m]]
  <2>1. CASE m = n
    BY <1>1, <1>2, <1>5, <2>1
  <2>2. CASE m # n
    <3>1. m \in Open /\ ProductOf[m] # ProductOf[n]
      BY <1>3, <2>2 DEF BeliefInv, OneOfAModel
    <3>2. ProductOf[m] \in Product /\ m \in Node
      BY <3>1, NodeAssumption DEF Open
    <3> QED BY <1>2, <2>2, <3>1, <3>2 DEF BeliefInv, BeliefOutlivesSessions
  <2> QED BY <2>1, <2>2
<1>7. ASSUME NEW p \in Product, \A m \in Open' : ProductOf[m] # p
      PROVE  lastLink'[p] = said'[p]
  <2>1. p # ProductOf[n] /\ \A m \in Open : ProductOf[m] # p
    BY <1>3, <1>7
  <2> QED BY <2>1 DEF BeliefInv
<1> QED BY <1>4, <1>5, <1>6, <1>7 DEF BeliefInv, BeliefOutlivesSessions

\* A step that closes a session and hands its link on keeps the beliefs.
LEMMA BeliefClosed ==
  ASSUME TypeOK, BeliefInv, NEW n \in Open \cup todo,
         sessions' = [sessions EXCEPT ![n] = None], UNCHANGED said,
         lastLink' = [lastLink EXCEPT ![ProductOf[n]] = said[ProductOf[n]]],
         todo' \subseteq todo
  PROVE  BeliefInv'
<1>1. n \in Node /\ ProductOf[n] \in Product
  BY NodeAssumption DEF TypeOK, Open
<1>2. Open' = Open \ {n} /\ \A m \in Open' : sessions'[m] = sessions[m]
  BY DEF TypeOK, Open
<1>3. OneOfAModel(Open' \cup todo')
  BY <1>2 DEF BeliefInv, OneOfAModel
<1>4. ASSUME NEW p \in Product, \A m \in Open' : ProductOf[m] # p
      PROVE  lastLink'[p] = said'[p]
  <2>1. CASE p = ProductOf[n]
    BY <2>1 DEF TypeOK
  <2>2. CASE p # ProductOf[n]
    <3>1. \A m \in Open : ProductOf[m] # p
      BY <1>2, <1>4, <2>2
    <3> QED BY <2>2, <3>1 DEF BeliefInv, TypeOK
  <2> QED BY <2>1, <2>2
<1> QED BY <1>2, <1>3, <1>4 DEF BeliefInv, BeliefOutlivesSessions

\* An exchange that fails keeps the beliefs.
LEMMA BeliefFail ==
  ASSUME TypeOK, BeliefInv, NEW n \in Open \cup todo, NEW s \in Session,
         NEW err \in Error, Fail(n, s, err), s.link = said[ProductOf[n]],
         UNCHANGED said, todo' \subseteq todo
  PROVE  BeliefInv'
<1>1. CASE err = "gone"
  BY <1>1, BeliefClosed DEF Fail
<1>2. CASE err # "gone"
  <2>1. said' = [said EXCEPT ![ProductOf[n]] = s.link]
    BY DEF BeliefInv
  <2> QED BY <1>2, <2>1, BeliefUpdate DEF Fail
<1> QED BY <1>1, <1>2

\* The beginning of a pass keeps the beliefs.
LEMMA BeliefPoll ==
  ASSUME TypeOK, BeliefInv, NEW listed \in Listing, OneOfAModel(listed),
         Poll(listed), UNCHANGED said
  PROVE  BeliefInv'
<1>1. /\ Open' = Open \cap listed
      /\ \A n \in Open' : sessions'[n] = sessions[n]
  BY NodeAssumption DEF Poll, Open
<1>2. OneOfAModel(Open' \cup todo')
  BY <1>1 DEF Poll, OneOfAModel
<1>3. BeliefOutlivesSessions'
  BY <1>1 DEF BeliefInv, BeliefOutlivesSessions
<1>4. ASSUME NEW p \in Product, \A n \in Open' : ProductOf[n] # p
      PROVE  lastLink'[p] = said'[p]
  <2>1. lastLink'[p] \in Handed(p, Open \ listed)
    BY DEF Poll
  <2>2. CASE \A n \in Open : ProductOf[n] # p
    <3>1. {n \in Open \ listed : ProductOf[n] = p} = {}
      BY <2>2
    <3> QED BY <2>1, <2>2, <3>1 DEF Handed, BeliefInv
  <2>3. CASE \E n \in Open : ProductOf[n] = p
    <3>1. PICK n \in Open : ProductOf[n] = p
      BY <2>3
    <3>2. n \in {m \in Open \ listed : ProductOf[m] = p}
      BY <1>1, <1>4, <3>1
    <3>3. PICK m \in Open : ProductOf[m] = p /\ lastLink'[p] = sessions[m].link
      BY <2>1, <3>2 DEF Handed
    <3> QED BY <3>3 DEF BeliefInv, BeliefOutlivesSessions
  <2> QED BY <2>2, <2>3
<1> QED BY <1>2, <1>3, <1>4 DEF BeliefInv

\* Every step keeps the beliefs, while no two dongles of a model are listed.
LEMMA BeliefStep ==
  ASSUME \A listed \in Listing : OneOfAModel(listed)
  PROVE  TypeOK /\ BeliefInv /\ [RememberedNext]_allVars => BeliefInv'
<1> SUFFICES ASSUME TypeOK, BeliefInv, [RememberedNext]_allVars
             PROVE  BeliefInv'
  OBVIOUS
<1>a. at # None => /\ at \in Node /\ at \in Open /\ sessions[at] \in Session
                   /\ sessions[at].link = said[ProductOf[at]]
  BY AtType DEF BeliefInv, BeliefOutlivesSessions
<1>b. \A n : said = [said EXCEPT ![n] = said[n]]
  BY DEF BeliefInv
<1>1. CASE RememberedElapse
  <2>1. \A n \in Open : Older(sessions[n]).link = sessions[n].link /\ Older(sessions[n]) # None
    BY OlderType, SessionAssumption DEF TypeOK, Open, Session, Older
  <2>2. sessions' = [n \in Node |-> IF n \in Open THEN Older(sessions[n]) ELSE None]
    BY <1>1 DEF RememberedElapse, Elapse
  <2>3. Open' = Open /\ \A n \in Open : sessions'[n] = Older(sessions[n])
    BY <2>1, <2>2 DEF Open
  <2>4. UNCHANGED <<said, lastLink, todo>>
    BY <1>1 DEF RememberedElapse, Elapse
  <2> QED BY <2>1, <2>3, <2>4 DEF BeliefInv, BeliefOutlivesSessions, OneOfAModel
<1>2. ASSUME NEW listed \in Listing, RememberedPoll(listed)
      PROVE  BeliefInv'
  BY <1>2, BeliefPoll DEF RememberedPoll
<1>3. ASSUME NEW n \in Node, NEW err \in Error, RememberedFailure(n, err)
      PROVE  BeliefInv'
  <2>1. UNCHANGED said
    BY <1>3 DEF RememberedFailure
  <2>2. CASE OpenFails(n, err)
    <3>1. UNCHANGED <<sessions, lastLink>> /\ todo' \subseteq todo
      BY <2>2 DEF OpenFails
    <3> QED BY <2>1, <3>1 DEF BeliefInv, BeliefOutlivesSessions, OneOfAModel, Open
  <2>3. CASE FetchFails(n, err)
    <3>1. n \in todo /\ todo' \subseteq todo /\ Fail(n, Opened(n), err)
      BY <2>3 DEF FetchFails
    <3>2. Opened(n) \in Session /\ Opened(n).link = said[ProductOf[n]]
      BY <3>1, OpenedType, BelievedOpened
    <3> QED BY <2>1, <3>1, <3>2, BeliefFail
  <2> QED BY <1>3, <2>2, <2>3 DEF RememberedFailure
<1>4. ASSUME NEW n \in Node, Fetch(n), UNCHANGED history
      PROVE  BeliefInv'
  <2>1. n \in todo /\ todo' \subseteq todo /\ UNCHANGED <<lastLink, said>>
        /\ sessions' = [sessions EXCEPT ![n] = Opened(n)]
    BY <1>4 DEF Fetch, history
  <2>2. Opened(n) \in Session /\ Opened(n).link = said[ProductOf[n]]
    BY <2>1, OpenedType, BelievedOpened
  <2> QED BY <1>b, <2>1, <2>2, BeliefUpdate
<1>5. ASSUME NEW up \in BOOLEAN, RememberedLink(up)
      PROVE  BeliefInv'
  <2> DEFINE s == IF up THEN TakeUp(sessions[at]) ELSE TakeDown(sessions[at])
  <2>1. at # None /\ sessions' = [sessions EXCEPT ![at] = s] /\ UNCHANGED <<lastLink, todo>>
        /\ said' = [said EXCEPT ![ProductOf[at]] = IF up THEN "Up" ELSE "Down"]
    BY <1>5 DEF RememberedLink, HearLink, Hear, Says
  <2>2. s \in Session
    BY <1>a, <2>1, TakeLinkType
  <2>3. s.link = IF up THEN "Up" ELSE "Down"
    BY <1>a, <2>1 DEF Session, TakeUp, TakeDown
  <2> HIDE DEF s
  <2> QED BY <1>a, <2>1, <2>2, <2>3, BeliefUpdate
<1>6. ASSUME NEW level \in Percent, RememberedLevel(level)
      PROVE  BeliefInv'
  <2> DEFINE s == TakeLevel(sessions[at], level, readings + 1)
  <2>1. at # None /\ sessions' = [sessions EXCEPT ![at] = s] /\ UNCHANGED <<lastLink, todo>>
        /\ said' = [said EXCEPT ![ProductOf[at]] = "Up"]
    BY <1>6 DEF RememberedLevel, HearLevel, Hear, Says
  <2>2. readings + 1 \in Nat
    BY DEF TypeOK
  <2>3. s \in Session
    BY <1>a, <2>1, <2>2, TakeLevelType
  <2>4. s.link = "Up"
    BY <1>a, <2>1 DEF Session, TakeLevel
  <2> HIDE DEF s
  <2> QED BY <1>a, <2>1, <2>3, <2>4, BeliefUpdate
<1>7. ASSUME NEW running \in Playback, RememberedConclusion(running)
      PROVE  BeliefInv'
  <2>1. at # None /\ UNCHANGED <<lastLink, todo>>
    BY <1>7 DEF RememberedConclusion, DontAsk, GiveUp, Ask, Conclude
  <2>2. CASE DontAsk(running) /\ UNCHANGED said
    BY <1>a, <1>b, <2>1, <2>2, BeliefUpdate DEF DontAsk, Conclude
  <2>3. CASE GiveUp(running) /\ Says("Unknown")
    <3>1. GivenUp(sessions[at]) \in Session /\ GivenUp(sessions[at]).link = "Unknown"
      BY <1>a, <2>1, GivenUpType DEF GivenUp, Session
    <3> QED BY <1>a, <2>1, <2>3, <3>1, BeliefUpdate DEF GiveUp, Conclude, Says
  <2>4. CASE Ask(running) /\ UNCHANGED said
    <3>1. Asked(sessions[at]) \in Session /\ Asked(sessions[at]).link = said[ProductOf[at]]
      BY <1>a, <2>1, AskedType
    <3> QED BY <1>a, <1>b, <2>1, <2>4, <3>1, BeliefUpdate DEF Ask, Conclude
  <2> QED BY <1>7, <2>2, <2>3, <2>4 DEF RememberedConclusion
<1>8. ASSUME NEW err \in Error, RememberedAskFails(err)
      PROVE  BeliefInv'
  <2>1. /\ at # None /\ UNCHANGED <<said, todo>>
        /\ Fail(at, Counted(sessions[at]), err)
    BY <1>8 DEF RememberedAskFails, AskFails
  <2>2. Counted(sessions[at]) \in Session /\ Counted(sessions[at]).link = said[ProductOf[at]]
    BY <1>a, <2>1, CountedType
  <2> QED BY <1>a, <2>1, <2>2, BeliefFail
<1>9. CASE UNCHANGED allVars
  BY <1>9 DEF allVars, vars, history, BeliefInv, BeliefOutlivesSessions, OneOfAModel, Open
<1> QED BY <1>1, <1>2, <1>3, <1>4, <1>5, <1>6, <1>7, <1>8, <1>9 DEF RememberedNext

\* While no two dongles of a model are plugged in at a time, a session believes what
\* the dongle last said to any session, through every closing and reopening.
THEOREM BeliefsOutlive ==
  ASSUME \A listed \in Listing : OneOfAModel(listed)
  PROVE  RememberedSpec => []BeliefOutlivesSessions
<1>1. RememberedInit => BeliefInv
  BY DEF Init, RememberedInit, BeliefInv, BeliefOutlivesSessions, OneOfAModel, Open, Link
<1>2. TypeOK /\ BeliefInv /\ [RememberedNext]_allVars => BeliefInv'
  BY BeliefStep
<1>3. BeliefInv => BeliefOutlivesSessions
  BY DEF BeliefInv
<1> QED BY <1>1, <1>2, <1>3, RememberedType, PTL DEF RememberedSpec

-----------------------------------------------------------------------------
(* The numbers of the levels. *)

\* A level is given the number of battery messages, and no session takes that
\* number back.
LEMMA NewestStep ==
  TypeOK /\ newest = readings /\ [RememberedNext]_allVars => (newest = readings)'
<1> SUFFICES ASSUME TypeOK, newest = readings, [RememberedNext]_allVars
             PROVE  newest' = readings'
  OBVIOUS
<1>1. ASSUME NEW level \in Percent, RememberedLevel(level)
      PROVE  newest' = readings'
  <2>1. at \in Node /\ sessions[at] \in Session
    BY <1>1, AtType DEF RememberedLevel, HearLevel
  <2>2. sessions' = [sessions EXCEPT ![at] = TakeLevel(sessions[at], level, readings + 1)]
    BY <1>1 DEF RememberedLevel, HearLevel, Hear
  <2>3. sessions'[at].sample = readings + 1
    BY <2>1, <2>2 DEF TypeOK, TakeLevel, Session
  <2> QED BY <1>1, <2>3 DEF RememberedLevel, HearLevel
<1>2. ASSUME NEW running \in Playback, RememberedConclusion(running)
      PROVE  newest' = readings'
  BY <1>2 DEF RememberedConclusion, DontAsk, GiveUp, Ask, Conclude
<1>3. ASSUME ~(\E level \in Percent : RememberedLevel(level)),
             ~(\E running \in Playback : RememberedConclusion(running))
      PROVE  newest' = readings'
  BY <1>3 DEF RememberedNext, allVars, vars, history, RememberedElapse, Elapse,
       RememberedPoll, Poll, RememberedFailure, OpenFails, FetchFails, Fetch,
       RememberedLink, HearLink, RememberedAskFails, AskFails
<1> QED BY <1>1, <1>2, <1>3

\* No level has the number of one before it, whichever sessions were closed and
\* opened since (src/src/maxwell/session.rs, take_in; maxwell/mod.rs, readings).
THEOREM NumbersAreNew == RememberedSpec => SamplesAreNew
<1>1. RememberedInit => newest = readings
  BY DEF RememberedInit, Init
<1>2. TypeOK /\ newest = readings /\ [RememberedNext]_allVars
        => [\A level \in Percent : HearLevel(level) => sessions'[at].sample > newest]_allVars
  <2> SUFFICES ASSUME TypeOK, newest = readings, NEW level \in Percent, HearLevel(level)
               PROVE  sessions'[at].sample > newest
    OBVIOUS
  <2>1. at \in Node /\ sessions[at] \in Session /\ readings \in Nat
    BY AtType DEF HearLevel, TypeOK
  <2>2. sessions'[at] = TakeLevel(sessions[at], level, readings + 1)
    BY <2>1 DEF HearLevel, Hear, TypeOK
  <2>3. sessions'[at].sample = readings + 1
    BY <2>1, <2>2 DEF TakeLevel, Session
  <2> QED BY <2>1, <2>3
<1> QED BY <1>1, <1>2, NewestStep, RememberedType, PTL DEF RememberedSpec, SamplesAreNew

-----------------------------------------------------------------------------
(* Wedges. *)

\* A look that did not find sound is older than the sound that streams.
Lags(w, since) ==
  w.probed # None /\ w.probed.running # "Running" /\ since # None
    => since <= w.probed.at

WedgeInv ==
  /\ streaming \in (0..ProbeEvery) \cup {None}
  /\ wedge # None => Lags(wedge, streaming)

\* The end of a pass over a dongle: a look taken now finds what Finds records.
LEMMA CheckLags ==
  ASSUME NEW w \in Wedge, NEW running \in Playback,
         NEW since \in (0..ProbeEvery) \cup {None}, Lags(w, since)
  PROVE  LET found == IF running # "Running" THEN None
                      ELSE IF since = None THEN 0 ELSE since
         IN  /\ found \in (0..ProbeEvery) \cup {None}
             /\ Lags(w, found)
             /\ Lags(check(w, running), found)
<1> DEFINE found == IF running # "Running" THEN None
                    ELSE IF since = None THEN 0 ELSE since
<1>1. found \in (0..ProbeEvery) \cup {None}
  BY WatchAssumption
<1>2. Lags(w, found)
  <2>1. w.probed # None => w.probed.at \in Nat
    BY DEF Wedge, Probe
  <2> QED BY <2>1, AbsenceAssumption DEF Lags
<1>3. Probed(w, running).probed = w.probed \/ Probed(w, running).probed.running = running
  BY DEF Probed, Wedge
<1>4. check(w, running).probed = w.probed \/ check(w, running).probed.running = running
  <2>1. Probed(w, running) \in Wedge
    <3>1. [at |-> 0, running |-> running] \in Probe
      BY WatchAssumption DEF Probe
    <3> QED BY <3>1 DEF Wedge, Probed
  <2>2. [Probed(w, running) EXCEPT !.warnedAt = 0].probed = Probed(w, running).probed
    BY <2>1 DEF Wedge
  <2> QED BY <1>3, <2>2 DEF check
<1>5. Lags(check(w, running), found)
  BY <1>2, <1>4 DEF Lags
<1> QED BY <1>1, <1>2, <1>5

\* The watch as the report at hand leaves it.
LEMMA WatchedLags ==
  ASSUME TypeOK, WedgeInv
  PROVE  Watched \in Wedge /\ Lags(Watched, streaming)
BY WatchedType DEF Watched, NewWatch, Spoken, Lags, WedgeInv

\* Every step keeps the looks behind the sound.
LEMMA WedgeStep == TypeOK /\ WedgeInv /\ [RememberedNext]_allVars => WedgeInv'
<1> SUFFICES ASSUME TypeOK, WedgeInv, [RememberedNext]_allVars
             PROVE  WedgeInv'
  OBVIOUS
<1>1. CASE RememberedElapse
  <2>1. wedge' = OlderWedge(wedge) /\ streaming' = OlderBy1(streaming, ProbeEvery)
    BY <1>1 DEF RememberedElapse, Elapse
  <2>2. streaming' \in (0..ProbeEvery) \cup {None}
    BY <2>1, WatchAssumption DEF WedgeInv, OlderBy1, UpTo
  <2>3. ASSUME wedge' # None
        PROVE  Lags(wedge', streaming')
    <3>1. wedge \in Wedge /\ Lags(wedge, streaming)
      BY <2>1, <2>3 DEF TypeOK, WedgeInv, OlderWedge
    <3>2. wedge'.probed = OlderProbe(wedge.probed)
      BY <2>1, <3>1, WedgeAssumption DEF OlderWedge
    <3>3. CASE wedge.probed = None
      BY <3>2, <3>3 DEF OlderProbe, Lags
    <3>4. CASE wedge.probed # None
      <4>1. wedge.probed \in Probe
        BY <3>1, <3>4 DEF Wedge
      <4>2. /\ wedge'.probed.running = wedge.probed.running
            /\ wedge'.probed.at = UpTo(wedge.probed.at + 1, ProbeEvery)
            /\ wedge.probed.at \in 0..ProbeEvery
        BY <3>2, <3>4, <4>1 DEF OlderProbe, Probe
      <4> QED BY <2>1, <3>1, <3>4, <4>2, WatchAssumption, AbsenceAssumption
              DEF Lags, OlderBy1, UpTo, WedgeInv
    <3> QED BY <3>3, <3>4
  <2> QED BY <2>2, <2>3 DEF WedgeInv
<1>2. ASSUME NEW running \in Playback, RememberedConclusion(running)
      PROVE  WedgeInv'
  <2>1. wedge' = Watched \/ wedge' = check(Watched, running)
    BY <1>2 DEF RememberedConclusion, DontAsk, GiveUp, Ask, Conclude
  <2>2. streaming' = IF running # "Running" THEN None
                     ELSE IF streaming = None THEN 0 ELSE streaming
    BY <1>2 DEF RememberedConclusion, Finds
  <2>3. streaming \in (0..ProbeEvery) \cup {None}
    BY DEF WedgeInv
  <2> QED BY <2>1, <2>2, <2>3, WatchedLags, CheckLags DEF WedgeInv
<1>3. ASSUME NEW err \in Error, RememberedAskFails(err)
      PROVE  WedgeInv'
  <2>1. wedge' = Watched /\ streaming' = streaming
    BY <1>3 DEF RememberedAskFails, AskFails
  <2> QED BY <2>1, WatchedLags DEF WedgeInv
<1>4. ASSUME UNCHANGED <<wedge, streaming>>
      PROVE  WedgeInv'
  BY <1>4 DEF WedgeInv
<1>5. ASSUME ~RememberedElapse,
             ~(\E running \in Playback : RememberedConclusion(running)),
             ~(\E err \in Error : RememberedAskFails(err))
      PROVE  UNCHANGED <<wedge, streaming>>
  BY <1>5 DEF RememberedNext, allVars, vars, history, RememberedPoll, Poll,
       RememberedFailure, OpenFails, FetchFails, Fetch, RememberedLink, HearLink,
       RememberedLevel, HearLevel, Hear
<1> QED BY <1>1, <1>2, <1>3, <1>4, <1>5

\* A dongle silent for WedgeSilence under sound that has streamed for ProbeEvery is
\* told of on the very pass, unless it was within WedgeReminder, for every pace
\* of the looks and however many dongles share the watch
\* (src/src/maxwell/wedge.rs, check).
THEOREM WedgesTold == RememberedSpec => WedgesAreToldOf
<1> DEFINE Told(running) ==
             /\ DontAsk(running) \/ Ask(running)
             /\ running = "Running"
             /\ sessions[at].link # "Up"
             /\ ~heard /\ wedge # None
             /\ wedge.heardAt >= WedgeSilence
             /\ streaming # None /\ streaming >= ProbeEvery
             => /\ wedge'.warnedAt # None
                /\ wedge'.warnedAt < WedgeReminder
<1>1. RememberedInit => WedgeInv
  BY DEF RememberedInit, Init, WedgeInv
<1>2. ASSUME TypeOK, WedgeInv, NEW running \in Playback
      PROVE  Told(running)
  <2> SUFFICES ASSUME DontAsk(running) \/ Ask(running), running = "Running",
                      sessions[at].link # "Up", ~heard, wedge # None,
                      wedge.heardAt >= WedgeSilence,
                      streaming # None, streaming >= ProbeEvery
               PROVE  wedge'.warnedAt # None /\ wedge'.warnedAt < WedgeReminder
    OBVIOUS
  <2>1. at \in Node /\ sessions[at] \in Session /\ wedge \in Wedge
    BY <1>2, AtType DEF DontAsk, Ask, TypeOK
  <2>2. wedge' = check(wedge, running)
    BY <2>1, AskedType DEF DontAsk, Ask, Conclude, Watched
  <2> DEFINE looked == Probed(wedge, running)
  <2>3. looked.probed.running = "Running" /\ looked \in Wedge
    <3>1. [at |-> 0, running |-> running] \in Probe
      BY WatchAssumption DEF Probe
    <3>2. wedge.probed # None => wedge.probed.at \in Nat
      BY <2>1 DEF Wedge, Probe
    <3>3. wedge.probed # None /\ wedge.probed.at < ProbeEvery
            => wedge.probed.running = "Running"
      BY <1>2, <3>2, WatchAssumption DEF WedgeInv, Lags
    <3> QED BY <2>1, <3>1, <3>3 DEF Probed, Wedge
  <2>4. ~(wedge.heardAt < WedgeSilence)
    BY <2>1, WatchAssumption DEF Wedge
  <2>5. wedge' = IF WarningDue(looked) THEN [looked EXCEPT !.warnedAt = 0] ELSE looked
    BY <2>2, <2>4 DEF check
  <2> HIDE DEF looked
  <2>6. CASE WarningDue(looked)
    <3>1. wedge'.warnedAt = 0
      BY <2>3, <2>5, <2>6 DEF Wedge
    <3> QED BY <3>1, WatchAssumption, AbsenceAssumption
  <2>7. CASE ~WarningDue(looked)
    <3>1. wedge' = looked /\ looked.warnedAt # None /\ ~(looked.warnedAt >= WedgeReminder)
      BY <2>3, <2>5, <2>7 DEF WarningDue
    <3>2. looked.warnedAt \in Nat
      BY <2>3, <3>1 DEF Wedge
    <3> QED BY <3>1, <3>2, WatchAssumption
  <2> QED BY <2>6, <2>7
<1>3. TypeOK /\ WedgeInv => [\A running \in Playback : Told(running)]_allVars
  BY <1>2
<1> QED BY <1>1, <1>3, WedgeStep, RememberedType, PTL
        DEF RememberedSpec, WedgesAreToldOf

-----------------------------------------------------------------------------
(* Errors that last. *)

Troubles == [err : Error \cup {None}, since : 0..ErrorSettle]

\* The nodes a pass has to do with, or that the last pass failed on.
Visited ==
  {n \in Node : n \in todo \/ n = at \/ trouble[n].err # None}

\* Where a node is in trouble, the access watch holds that very error, and has
\* for at least as long.
TroubleInv ==
  /\ trouble \in [Node -> Troubles]
  /\ \A m, n \in Visited : m = n
  /\ \A n \in Node : trouble[n].err # None =>
       /\ access \in Access
       /\ access.message = <<n, trouble[n].err>>
       /\ access.since >= trouble[n].since

\* A failure on the one node there is is the one the watch comes to hold.
LEMMA TroubledStep ==
  ASSUME TypeOK, TroubleInv, NEW n \in Visited, NEW err \in Error,
         Troubled(n, err), access' = failing(access, <<n, err>>),
         todo' \subseteq todo, at' = None
  PROVE  TroubleInv'
<1>1. n \in Node /\ err # None
  BY NodeAssumption DEF Visited
<1>2. access' \in Access
  BY <1>1, FailingType DEF TypeOK
<1>3. trouble' \in [Node -> Troubles]
  BY <1>1, WatchAssumption DEF Troubled, TroubleInv, Troubles
<1>4. \A m \in Node : m # n => trouble'[m] = trouble[m]
  BY <1>1 DEF Troubled, TroubleInv
<1>5. Visited' \subseteq {n}
  <2> SUFFICES ASSUME NEW m \in Visited', m # n
               PROVE  FALSE
    OBVIOUS
  <2>1. m \in Node /\ (m \in todo \/ trouble[m].err # None)
    BY <1>4, NodeAssumption DEF Visited
  <2> QED BY <2>1 DEF Visited, TroubleInv
<1>6. /\ trouble'[n].err = err
      /\ trouble'[n].since = IF trouble[n].err = err THEN trouble[n].since ELSE 0
  BY <1>1 DEF Troubled, TroubleInv, Troubles
<1>7. access'.message = <<n, err>> /\ access'.since >= trouble'[n].since
  <2>1. access'.message = <<n, err>>
    BY DEF failing
  <2>2. access'.since = IF access # None /\ access.message = <<n, err>> THEN access.since ELSE 0
    BY DEF failing
  <2>3. CASE trouble[n].err = err
    BY <1>1, <1>6, <2>1, <2>2, <2>3, WedgeAssumption DEF TroubleInv
  <2>4. CASE trouble[n].err # err
    <3>1. access'.since \in Nat
      BY <1>2 DEF Access
    <3> QED BY <1>6, <2>1, <2>4, <3>1
  <2> QED BY <2>3, <2>4
<1>8. ASSUME NEW m \in Node, trouble'[m].err # None
      PROVE  m = n
  BY <1>5, <1>8 DEF Visited
<1> QED BY <1>2, <1>3, <1>5, <1>6, <1>7, <1>8 DEF TroubleInv

\* Every step keeps the trouble and the watch together, while one dongle is listed
\* at a time.
LEMMA TroubleStep ==
  ASSUME \A listed \in Listing : \A m, n \in listed : m = n
  PROVE  TypeOK /\ TroubleInv /\ [RememberedNext]_allVars => TroubleInv'
<1> SUFFICES ASSUME TypeOK, TroubleInv, [RememberedNext]_allVars
             PROVE  TroubleInv'
  OBVIOUS
<1>1. CASE RememberedElapse
  <2>1. /\ access' = OlderAccess(access) /\ todo' = todo /\ at' = at
        /\ trouble' = [n \in Node |->
                         IF trouble[n].err = None THEN NoTrouble
                         ELSE [trouble[n] EXCEPT !.since = UpTo(@ + 1, ErrorSettle)]]
    BY <1>1 DEF RememberedElapse, Elapse
  <2>2. ASSUME NEW n \in Node
        PROVE  /\ trouble'[n] \in Troubles /\ trouble'[n].err = trouble[n].err
               /\ trouble[n].err # None =>
                    trouble'[n].since = UpTo(trouble[n].since + 1, ErrorSettle)
    <3>1. trouble[n] \in Troubles
      BY DEF TroubleInv
    <3>2. UpTo(trouble[n].since + 1, ErrorSettle) \in 0..ErrorSettle /\ 0 \in 0..ErrorSettle
      BY <3>1, WatchAssumption DEF Troubles, UpTo
    <3> QED BY <2>1, <3>1, <3>2 DEF Troubles, NoTrouble
  <2>3. trouble' \in [Node -> Troubles]
    BY <2>1, <2>2
  <2>4. Visited' = Visited
    BY <2>1, <2>2 DEF Visited
  <2>5. ASSUME NEW n \in Node, trouble'[n].err # None
        PROVE  /\ access' \in Access
               /\ access'.message = <<n, trouble'[n].err>>
               /\ access'.since >= trouble'[n].since
    <3>1. /\ access \in Access /\ access.message = <<n, trouble[n].err>>
          /\ access.since >= trouble[n].since /\ trouble[n] \in Troubles
      BY <2>2, <2>5 DEF TroubleInv
    <3>2. UpTo(access.since + 1, ErrorSettle) \in 0..ErrorSettle
      BY <3>1, WatchAssumption DEF Access, UpTo
    <3>3. /\ access' \in Access /\ access'.message = access.message
          /\ access'.since = UpTo(access.since + 1, ErrorSettle)
      BY <2>1, <3>1, <3>2, WedgeAssumption DEF OlderAccess, Access
    <3> QED BY <2>2, <2>5, <3>1, <3>3, WatchAssumption DEF Access, Troubles, UpTo
  <2> QED BY <2>3, <2>4, <2>5 DEF TroubleInv
<1>2. ASSUME NEW listed \in Listing, RememberedPoll(listed)
      PROVE  TroubleInv'
  <2>1. /\ todo' = listed /\ at' = None /\ access' = access
        /\ trouble' = [n \in Node |-> IF n \in listed THEN trouble[n] ELSE NoTrouble]
    BY <1>2 DEF RememberedPoll, Poll, BetweenPasses
  <2>2. NoTrouble \in Troubles
    BY WatchAssumption DEF NoTrouble, Troubles
  <2>3. trouble' \in [Node -> Troubles]
    BY <2>1, <2>2 DEF TroubleInv
  <2>4. \A n \in Node : trouble'[n].err # None => n \in listed /\ trouble'[n] = trouble[n]
    BY <2>1 DEF NoTrouble
  <2>5. Visited' \subseteq listed
    BY <2>1, <2>4, NodeAssumption DEF Visited
  <2> QED BY <2>1, <2>3, <2>4, <2>5 DEF TroubleInv
<1>3. ASSUME NEW n \in Node, NEW err \in Error, RememberedFailure(n, err)
      PROVE  TroubleInv'
  <2>1. /\ n \in todo /\ todo' \subseteq todo /\ at' = None /\ Troubled(n, err)
        /\ access' = failing(access, <<n, err>>)
    BY <1>3 DEF RememberedFailure, OpenFails, FetchFails, Fail
  <2>2. n \in Visited
    BY <2>1 DEF Visited
  <2> QED BY <2>1, <2>2, TroubledStep
<1>4. ASSUME NEW n \in Node, Fetch(n), UNCHANGED history
      PROVE  TroubleInv'
  <2>1. n \in todo /\ todo' \subseteq todo /\ at' = n /\ UNCHANGED <<access, trouble>>
    BY <1>4 DEF Fetch, history
  <2>2. Visited' \subseteq Visited
    BY <2>1 DEF Visited
  <2> QED BY <2>1, <2>2 DEF TroubleInv
<1>5. ASSUME \/ \E up \in BOOLEAN : RememberedLink(up)
             \/ \E level \in Percent : RememberedLevel(level)
      PROVE  TroubleInv'
  BY <1>5 DEF RememberedLink, RememberedLevel, HearLink, HearLevel, Hear, TroubleInv, Visited
<1>6. ASSUME NEW running \in Playback, RememberedConclusion(running)
      PROVE  TroubleInv'
  <2>1. /\ at # None /\ todo' = todo /\ at' = None
        /\ trouble' = [trouble EXCEPT ![at] = NoTrouble]
    BY <1>6 DEF RememberedConclusion, DontAsk, GiveUp, Ask, Conclude, Untroubled
  <2>2. at \in Visited
    BY <2>1, AtType DEF Visited
  <2>3. NoTrouble \in Troubles
    BY WatchAssumption DEF NoTrouble, Troubles
  <2>4. trouble' \in [Node -> Troubles]
    BY <2>1, <2>3 DEF TroubleInv
  <2>5. \A n \in Node : trouble'[n].err = None
    BY <2>1, <2>2 DEF TroubleInv, Visited, NoTrouble
  <2>6. Visited' \subseteq Visited
    BY <2>1, <2>5, NodeAssumption DEF Visited
  <2> QED BY <2>4, <2>5, <2>6 DEF TroubleInv
<1>7. ASSUME NEW err \in Error, RememberedAskFails(err)
      PROVE  TroubleInv'
  <2>1. /\ at # None /\ todo' = todo /\ at' = None /\ Troubled(at, err)
        /\ access' = failing(access, <<at, err>>)
    BY <1>7 DEF RememberedAskFails, AskFails, Fail
  <2>2. at \in Visited
    BY <2>1, AtType DEF Visited
  <2> QED BY <2>1, <2>2, TroubledStep
<1>8. CASE UNCHANGED allVars
  BY <1>8 DEF allVars, vars, history, TroubleInv, Visited
<1> QED BY <1>1, <1>2, <1>3, <1>4, <1>5, <1>6, <1>7, <1>8 DEF RememberedNext

\* While no two dongles are plugged in at a time, a failure that has met every pass
\* over a dongle for ErrorSettle is told of, whichever of opening, fetching and
\* asking met it (src/src/maxwell/session.rs:93).  With two dongles it is not: the
\* reader's one watch forgets the error of the one as it hears the other.
THEOREM LastingErrorsReported ==
  ASSUME \A listed \in Listing : \A m, n \in listed : m = n
  PROVE  RememberedSpec => LastingErrorsAreReported
<1> DEFINE Reported(n, err) ==
             /\ OpenFails(n, err) \/ FetchFails(n, err) \/ (n = at /\ AskFails(err))
             /\ trouble[n].err = err /\ trouble[n].since >= ErrorSettle
             => access'.message = <<n, err>> /\ access'.reported
<1>1. RememberedInit => TroubleInv
  BY WatchAssumption, NodeAssumption
     DEF RememberedInit, Init, TroubleInv, Troubles, NoTrouble, Visited
<1>2. TypeOK /\ TroubleInv /\ [RememberedNext]_allVars => TroubleInv'
  BY TroubleStep
<1>3. ASSUME TroubleInv, NEW n \in Node, NEW err \in Error
      PROVE  Reported(n, err)
  <2> SUFFICES ASSUME OpenFails(n, err) \/ FetchFails(n, err) \/ (n = at /\ AskFails(err)),
                      trouble[n].err = err, trouble[n].since >= ErrorSettle
               PROVE  access'.message = <<n, err>> /\ access'.reported
    OBVIOUS
  <2>1. access' = failing(access, <<n, err>>)
    BY DEF OpenFails, FetchFails, AskFails, Fail
  <2>2. /\ access \in Access /\ access.message = <<n, err>>
        /\ access.since >= trouble[n].since /\ trouble[n].since \in Nat
    BY <1>3, NodeAssumption DEF TroubleInv, Troubles
  <2>3. access # None /\ access.since >= ErrorSettle
    BY <2>2, WedgeAssumption, WatchAssumption DEF Access
  <2> QED BY <2>1, <2>2, <2>3 DEF failing
<1>4. TroubleInv => [\A n \in Node, err \in Error : Reported(n, err)]_allVars
  BY <1>3
<1> QED BY <1>1, <1>2, <1>4, RememberedType, PTL
        DEF RememberedSpec, LastingErrorsAreReported
=============================================================================
