---------------------------- MODULE DongleProofs ----------------------------
(***************************************************************************)
(* What a session hears of its dongle, for every level and every pace of   *)
(* the questions: the messages found in a report are those written to it,  *)
(* whatever lies around them, a headset that is gone is left alone, and    *)
(* one that was missed is found.                                           *)
(*                                                                         *)
(* The session after a report is a recursive function over the places of   *)
(* the report; what it is at the last one is proved by induction, as a     *)
(* fact about a set of natural numbers.                                    *)
(***************************************************************************)
EXTENDS Dongle, SessionProofs, SequenceTheorems, WellFoundedInduction

(* ----------------------------------------------------------------------- *)
(* Induction.                                                              *)

\* Every set of natural numbers has a least element, unless it is empty.
LEMMA LeastElement ==
  ASSUME NEW T \in SUBSET Nat, T # {}
  PROVE  \E m \in T : \A n \in T : m <= n
<1>1. PICK m \in T : \A n \in T : <<n, m>> \notin OpToRel(<, Nat)
  BY WFMin, NatLessThanWellFounded, Zenon
<1>2. ASSUME NEW n \in T PROVE ~(n < m)
  BY <1>1, Zenon DEF OpToRel
<1>3. QED
  BY <1>2, SMT

\* A set of natural numbers with 0 and the successor of each of its elements up
\* to a bound reaches that bound.
LEMMA BoundedInduction ==
  ASSUME NEW bound \in Nat, NEW S, 0 \in S,
         \A n \in 0..(bound - 1) : n \in S => n + 1 \in S
  PROVE  \A n \in 0..bound : n \in S
<1> DEFINE T == {n \in 0..bound : n \notin S}
<1>1. SUFFICES ASSUME T # {} PROVE FALSE
  OBVIOUS
<1>2. T \in SUBSET Nat
  OBVIOUS
<1>3. PICK m \in T : \A n \in T : m <= n
  <2> HIDE DEF T
  <2> QED
    BY <1>1, <1>2, LeastElement
<1>4. m \in 0..bound /\ m # 0
  BY <1>3
<1>5. m - 1 \in 0..(bound - 1) /\ m - 1 \notin T
  BY <1>3, <1>4
<1>6. m - 1 \in S
  BY <1>4, <1>5
<1>7. m \in S
  BY <1>4, <1>5, <1>6
<1>8. QED
  BY <1>3, <1>7

(* ----------------------------------------------------------------------- *)
(* A message in its bytes.                                                 *)

\* What a message is made of, wherever it starts: a header and the byte after it.
Carries(data, at) ==
  \/ Follows(BATTERY_ANSWER, data, at) /\ data[at + 7] <= 100
  \/ Follows(LINK_EVENT, data, at)

LEMMA HeaderLengths == Len(BATTERY_ANSWER) = 7 /\ Len(LINK_EVENT) = 7
  BY DEF BATTERY_ANSWER, LINK_EVENT

\* The headers, byte by byte.
LEMMA HeaderBytes ==
  ASSUME NEW header, Len(header) = 7, NEW data, NEW at \in Int
  PROVE  Follows(header, data, at) <=>
           /\ data[at] = header[1] /\ data[at + 1] = header[2]
           /\ data[at + 2] = header[3] /\ data[at + 3] = header[4]
           /\ data[at + 4] = header[5] /\ data[at + 5] = header[6]
           /\ data[at + 6] = header[7]
<1>1. /\ at + 1 - 1 = at /\ at + 2 - 1 = at + 1 /\ at + 3 - 1 = at + 2
      /\ at + 4 - 1 = at + 3 /\ at + 5 - 1 = at + 4 /\ at + 6 - 1 = at + 5
      /\ at + 7 - 1 = at + 6
  OBVIOUS
<1>2. 1..Len(header) = {1, 2, 3, 4, 5, 6, 7}
  OBVIOUS
<1>3. QED
  BY <1>1, <1>2, Zenon DEF Follows

LEMMA BatteryHeader ==
  ASSUME NEW data, NEW at \in Int
  PROVE  Follows(BATTERY_ANSWER, data, at) <=>
           /\ data[at] = 93 /\ data[at + 1] = 5 /\ data[at + 2] = 0
           /\ data[at + 3] = 214 /\ data[at + 4] = 12 /\ data[at + 5] = 0
           /\ data[at + 6] = 0
  BY HeaderBytes, HeaderLengths DEF BATTERY_ANSWER

LEMMA LinkHeader ==
  ASSUME NEW data, NEW at \in Int
  PROVE  Follows(LINK_EVENT, data, at) <=>
           /\ data[at] = 93 /\ data[at + 1] = 14 /\ data[at + 2] = 0
           /\ data[at + 3] = 177 /\ data[at + 4] = 44 /\ data[at + 5] = 0
           /\ data[at + 6] = 2
  BY HeaderBytes, HeaderLengths DEF LINK_EVENT

LEMMA SpeaksWhole ==
  ASSUME NEW data, NEW at \in Int
  PROVE  Speaks(data, at) <=> at + 7 <= Len(data) /\ Carries(data, at)
  BY HeaderLengths DEF Speaks, Carries

\* The same eight bytes say the same.
LEMMA SameWindow ==
  ASSUME NEW data, NEW at \in Int, NEW bytes, NEW from \in Int,
         \A i \in 0..7 : data[at + i] = bytes[from + i]
  PROVE  /\ Carries(data, at) <=> Carries(bytes, from)
         /\ WhatIsSaid(data, at) = WhatIsSaid(bytes, from)
<1>1. /\ data[at] = bytes[from] /\ data[at + 1] = bytes[from + 1]
      /\ data[at + 2] = bytes[from + 2] /\ data[at + 3] = bytes[from + 3]
      /\ data[at + 4] = bytes[from + 4] /\ data[at + 5] = bytes[from + 5]
      /\ data[at + 6] = bytes[from + 6] /\ data[at + 7] = bytes[from + 7]
  <2>1. at + 0 = at /\ from + 0 = from
    OBVIOUS
  <2>2. {0, 1, 2, 3, 4, 5, 6, 7} \subseteq 0..7
    OBVIOUS
  <2>3. QED
    BY <2>1, <2>2, Zenon
<1>2. Follows(BATTERY_ANSWER, data, at) <=> Follows(BATTERY_ANSWER, bytes, from)
  BY <1>1, BatteryHeader
<1>4. Follows(LINK_EVENT, data, at) <=> Follows(LINK_EVENT, bytes, from)
  BY <1>1, LinkHeader
<1>3. Len(BATTERY_ANSWER) = 7
  BY HeaderLengths
<1>5. QED
  BY <1>1, <1>2, <1>3, <1>4 DEF Carries, WhatIsSaid

\* A level, in its bytes.
LEMMA LevelCarried ==
  ASSUME NEW data, NEW at \in Int, Follows(BATTERY_ANSWER, data, at),
         data[at + 7] <= 100
  PROVE  Carries(data, at) /\ WhatIsSaid(data, at) = [battery |-> data[at + 7]]
  BY HeaderLengths DEF Carries, WhatIsSaid

\* A link event, in its bytes.
LEMMA LinkCarried ==
  ASSUME NEW data, NEW at \in Int, Follows(LINK_EVENT, data, at)
  PROVE  /\ Carries(data, at)
         /\ WhatIsSaid(data, at) = [link |-> IF data[at + 7] # 0 THEN "Up" ELSE "Down"]
<1>1. ~Follows(BATTERY_ANSWER, data, at)
  BY BatteryHeader, LinkHeader
<1>2. QED
  BY <1>1, HeaderLengths DEF Carries, WhatIsSaid

(* ----------------------------------------------------------------------- *)
(* What the dongle writes.                                                 *)

Message == [link : {"Up", "Down"}] \cup [battery : Percent]

\* An event starts with a byte no header has there, ends in no header, and carries
\* the messages it is said to.
WellFormed(b, says) ==
  /\ Len(b) \in 7..100
  /\ \A k \in 1..Len(b) : b[k] \in 0..255
  /\ b[1] = 5 /\ b[2] # 0 /\ b[Len(b) - 6] # 93
  /\ DOMAIN says \subseteq 1..(Len(b) - 7)
  /\ \A at \in 1..(Len(b) - 7) : Carries(b, at) <=> at \in DOMAIN says
  /\ \A at \in DOMAIN says : says[at] = WhatIsSaid(b, at) /\ says[at] \in Message

LEMMA PowerOnWellFormed ==
  ASSUME NEW level \in Percent
  PROVE  WellFormed(PowerOn(level).bytes, PowerOn(level).says)
<1> DEFINE b == PowerOn(level).bytes
           says == PowerOn(level).says
<1>0. level \in 0..100
  BY LevelAssumption
<1>1. /\ Len(b) = 48
      /\ \A k \in 1..48 : b[k] \in 0..255
      /\ b[1] = 5 /\ b[2] = 92 /\ b[42] = 5
  BY <1>0 DEF PowerOn
<1>2. \A k \in 1..41 : b[k] = 93 => k \in {9, 41}
  BY DEF PowerOn
<1>3. /\ b[9] = 93 /\ b[10] = 14 /\ b[11] = 0 /\ b[12] = 177 /\ b[13] = 44
      /\ b[14] = 0 /\ b[15] = 2 /\ b[16] = 1
      /\ b[41] = 93 /\ b[42] = 5 /\ b[43] = 0 /\ b[44] = 214 /\ b[45] = 12
      /\ b[46] = 0 /\ b[47] = 0 /\ b[48] = level
  BY DEF PowerOn
<1>4. /\ DOMAIN says = {9, 41}
      /\ says[9] = [link |-> "Up"] /\ says[41] = [battery |-> level]
  BY DEF PowerOn
<1> HIDE DEF b, says
<1>5. Carries(b, 9) /\ WhatIsSaid(b, 9) = [link |-> "Up"]
  <2>1. Follows(LINK_EVENT, b, 9) /\ b[9 + 7] = 1
    BY <1>3, LinkHeader
  <2>2. QED
    BY <2>1, LinkCarried
<1>6. Carries(b, 41) /\ WhatIsSaid(b, 41) = [battery |-> level]
  <2>1. Follows(BATTERY_ANSWER, b, 41) /\ b[41 + 7] = level
    BY <1>3, BatteryHeader
  <2>2. QED
    BY <1>0, <2>1, LevelCarried
<1>7. \A at \in 1..41 : Carries(b, at) <=> at \in {9, 41}
  <2>1. \A at \in 1..41 : Carries(b, at) => b[at] = 93
    BY BatteryHeader, LinkHeader DEF Carries
  <2>2. QED
    BY <1>2, <1>5, <1>6, <2>1
<1>8. says[9] \in Message /\ says[41] \in Message
  BY <1>4 DEF Message
<1>9. WellFormed(b, says)
  <2>1. /\ Len(b) \in 7..100 /\ Len(b) - 7 = 41
        /\ b[1] = 5 /\ b[2] # 0 /\ b[Len(b) - 6] # 93
    BY <1>1
  <2>2. \A k \in 1..Len(b) : b[k] \in 0..255
    BY <1>1
  <2>5. DOMAIN says \subseteq 1..41 /\ \A at \in 1..41 : Carries(b, at) <=> at \in DOMAIN says
    BY <1>4, <1>7
  <2>3. \A at \in DOMAIN says : says[at] = WhatIsSaid(b, at) /\ says[at] \in Message
    BY <1>4, <1>5, <1>6, <1>8
  <2>4. QED
    BY <2>1, <2>2, <2>3, <2>5, Zenon DEF WellFormed
<1>10. QED
  BY <1>9 DEF b, says

LEMMA PowerOffWellFormed == WellFormed(PowerOff.bytes, PowerOff.says)
<1> DEFINE b == PowerOff.bytes
           says == PowerOff.says
<1>1. /\ Len(b) = 25
      /\ \A k \in 1..25 : b[k] \in 0..255
      /\ b[1] = 5 /\ b[2] = 93 /\ b[19] = 5
  BY DEF PowerOff
<1>2. \A k \in 1..18 : b[k] = 93 => k = 2
  BY DEF PowerOff
<1>3. /\ b[2] = 93 /\ b[3] = 14 /\ b[4] = 0 /\ b[5] = 177 /\ b[6] = 44
      /\ b[7] = 0 /\ b[8] = 2 /\ b[9] = 0
  BY DEF PowerOff
<1>4. DOMAIN says = {2} /\ says[2] = [link |-> "Down"]
  BY DEF PowerOff
<1> HIDE DEF b, says
<1>5. Carries(b, 2) /\ WhatIsSaid(b, 2) = [link |-> "Down"]
  <2>1. Follows(LINK_EVENT, b, 2) /\ b[2 + 7] = 0
    BY <1>3, LinkHeader
  <2>2. QED
    BY <2>1, LinkCarried
<1>6. \A at \in 1..18 : Carries(b, at) <=> at = 2
  <2>1. \A at \in 1..18 : Carries(b, at) => b[at] = 93
    BY BatteryHeader, LinkHeader DEF Carries
  <2>2. QED
    BY <1>2, <1>5, <2>1
<1>7. says[2] \in Message
  BY <1>4 DEF Message
<1>8. WellFormed(b, says)
  <2>1. /\ Len(b) \in 7..100 /\ Len(b) - 7 = 18
        /\ b[1] = 5 /\ b[2] # 0 /\ b[Len(b) - 6] # 93
    BY <1>1
  <2>2. \A k \in 1..Len(b) : b[k] \in 0..255
    BY <1>1
  <2>3. \A at \in DOMAIN says : says[at] = WhatIsSaid(b, at) /\ says[at] \in Message
    BY <1>4, <1>5, <1>7
  <2>4. /\ DOMAIN says \subseteq 1..18
        /\ \A at \in 1..18 : Carries(b, at) <=> at \in DOMAIN says
    BY <1>4, <1>6
  <2>5. QED
    BY <2>1, <2>2, <2>3, <2>4, Zenon DEF WellFormed
<1>9. QED
  BY <1>8 DEF b, says

LEMMA AnswerWellFormed ==
  ASSUME NEW level \in Percent
  PROVE  WellFormed(Answer(level).bytes, Answer(level).says)
<1> DEFINE b == Answer(level).bytes
           says == Answer(level).says
<1>0. level \in 0..100
  BY LevelAssumption
<1>1. /\ Len(b) = 16
      /\ \A k \in 1..16 : b[k] \in 0..255
      /\ b[1] = 5 /\ b[2] = 91 /\ b[10] = 5
  BY <1>0 DEF Answer
<1>2. \A k \in 1..9 : b[k] = 93 => k = 9
  BY DEF Answer
<1>3. /\ b[9] = 93 /\ b[10] = 5 /\ b[11] = 0 /\ b[12] = 214 /\ b[13] = 12
      /\ b[14] = 0 /\ b[15] = 0 /\ b[16] = level
  BY DEF Answer
<1>4. DOMAIN says = {9} /\ says[9] = [battery |-> level]
  BY DEF Answer
<1> HIDE DEF b, says
<1>5. Carries(b, 9) /\ WhatIsSaid(b, 9) = [battery |-> level]
  <2>1. Follows(BATTERY_ANSWER, b, 9) /\ b[9 + 7] = level
    BY <1>3, BatteryHeader
  <2>2. QED
    BY <1>0, <2>1, LevelCarried
<1>6. \A at \in 1..9 : Carries(b, at) <=> at = 9
  <2>1. \A at \in 1..9 : Carries(b, at) => b[at] = 93
    BY BatteryHeader, LinkHeader DEF Carries
  <2>2. QED
    BY <1>2, <1>5, <2>1
<1>7. says[9] \in Message
  BY <1>4 DEF Message
<1>8. WellFormed(b, says)
  <2>1. /\ Len(b) \in 7..100 /\ Len(b) - 7 = 9
        /\ b[1] = 5 /\ b[2] # 0 /\ b[Len(b) - 6] # 93
    BY <1>1
  <2>2. \A k \in 1..Len(b) : b[k] \in 0..255
    BY <1>1
  <2>3. \A at \in DOMAIN says : says[at] = WhatIsSaid(b, at) /\ says[at] \in Message
    BY <1>4, <1>5, <1>7
  <2>4. /\ DOMAIN says \subseteq 1..9
        /\ \A at \in 1..9 : Carries(b, at) <=> at \in DOMAIN says
    BY <1>4, <1>6
  <2>5. QED
    BY <2>1, <2>2, <2>3, <2>4, Zenon DEF WellFormed
<1>9. QED
  BY <1>8 DEF b, says

(* ----------------------------------------------------------------------- *)
(* A report.                                                               *)

Report == [1..MSG_SIZE -> 0..255]

Payload(f) == [i \in 1..59 |-> f[i + 3]]

Written(f) == f[FRESH_LEN_OFFSET + 1]

LEMMA FreshPart ==
  ASSUME NEW f \in Report
  PROVE  /\ Len(fresh(f)) = UpTo(Written(f), 59)
         /\ \A i \in 1..UpTo(Written(f), 59) : fresh(f)[i] = Payload(f)[i]
<1> DEFINE n == f[2]
           end == IF 3 + n <= 62 THEN 3 + n ELSE 62
<1>1. n \in 0..255 /\ Len(f) = 62 /\ Written(f) = n
  BY LenProperties DEF Report, MSG_SIZE, Written, FRESH_LEN_OFFSET
<1>2. fresh(f) = SubSeq(f, 4, end)
  BY <1>1 DEF fresh, PAYLOAD_OFFSET, FRESH_LEN_OFFSET
<1>3. end \in 3..62 /\ end - 3 = UpTo(n, 59)
  BY <1>1 DEF UpTo
<1>4. \A i \in 4..end : f[i] \in 0..255
  <2>1. f \in [1..62 -> 0..255]
    BY Zenon DEF Report, MSG_SIZE
  <2>2. \A i \in 4..end : i \in 1..62
    BY <1>3
  <2> HIDE DEF end
  <2>3. QED
    BY <2>1, <2>2
<1> HIDE DEF end, n
<1>5. /\ Len(fresh(f)) = IF 4 <= end THEN end - 4 + 1 ELSE 0
      /\ \A i \in 1..(end - 4 + 1) : fresh(f)[i] = f[4 + i - 1]
  BY <1>2, <1>3, <1>4, SubSeqProperties
<1>6. Len(fresh(f)) = end - 3
  BY <1>3, <1>5
<1>7. ASSUME NEW i \in 1..(end - 3) PROVE fresh(f)[i] = Payload(f)[i]
  <2>1. i \in 1..(end - 4 + 1) /\ 4 + i - 1 = i + 3 /\ i \in 1..59
    BY <1>3
  <2>2. QED
    BY <1>5, <2>1 DEF Payload
<1>8. QED
  BY <1>1, <1>3, <1>6, <1>7

\* Where a message starts in what was written.
Heard(p, n) == {at \in 1..52 : at + 7 <= n /\ Carries(p, at)}

LEMMA MessagesHeard ==
  ASSUME NEW f \in Report
  PROVE  messages(f) = [at \in Heard(Payload(f), Written(f)) |-> WhatIsSaid(Payload(f), at)]
<1> DEFINE p == Payload(f)
           n == Written(f)
           data == fresh(f)
           len == UpTo(n, 59)
<1>1. n \in 0..255
  BY DEF Report, MSG_SIZE, Written, FRESH_LEN_OFFSET
<1>2. /\ Len(data) = len
      /\ \A i \in 1..len : data[i] = p[i]
  BY FreshPart
<1>3. len \in 0..59 /\ \A at \in Int : at + 7 <= len <=> at + 7 <= n /\ at <= 52
  BY <1>1 DEF UpTo
<1> HIDE DEF p, n, data, len
<1>4. ASSUME NEW at \in Int, 1 <= at, at + 7 <= len
      PROVE  /\ Carries(data, at) <=> Carries(p, at)
             /\ WhatIsSaid(data, at) = WhatIsSaid(p, at)
  <2>1. \A i \in 0..7 : data[at + i] = p[at + i]
    BY <1>2, <1>3, <1>4
  <2>2. QED
    BY <2>1, SameWindow
<1>5. \A at \in 1..Len(data) : Speaks(data, at) <=> at + 7 <= len /\ Carries(data, at)
  BY <1>2, <1>3, SpeaksWhole
<1>6. {at \in 1..Len(data) : Speaks(data, at)} = Heard(p, n)
  <2>1. \A at \in 1..Len(data) : Speaks(data, at) => at \in Heard(p, n)
    BY <1>2, <1>3, <1>4, <1>5 DEF Heard
  <2>2. \A at \in 1..52 : at + 7 <= n => at \in 1..Len(data) /\ at + 7 <= len
    BY <1>1, <1>2, <1>3
  <2>3. \A at \in Heard(p, n) : at \in 1..Len(data) /\ Speaks(data, at)
    BY <1>4, <1>5, <2>2 DEF Heard
  <2>4. QED
    BY <2>1, <2>3, Zenon DEF Heard
<1>7. \A at \in Heard(p, n) : WhatIsSaid(data, at) = WhatIsSaid(p, at)
  BY <1>3, <1>4 DEF Heard
<1>8. messages(f) = [at \in {at \in 1..Len(data) : Speaks(data, at)} |-> WhatIsSaid(data, at)]
  BY DEF messages, data
<1>9. messages(f) = [at \in Heard(p, n) |-> WhatIsSaid(p, at)]
  BY <1>6, <1>7, <1>8, Zenon
<1>10. QED
  BY <1>9 DEF p, n

\* The last event written does not end where a header could have started that only
\* lacked the byte after it.
Closed(p, n) == n \in 7..59 => p[n - 6] # 93

\* A payload of which n bytes are written, with an event written after them.
Appended(p, n, b) ==
  [i \in 1..59 |-> IF i - n \in 1..Len(b) THEN b[i - n] ELSE p[i]]

AppendedCount(n, b) == UpTo(n + Len(b), 255)

\* What is heard after an event was written at n, where p was heard before it.
HeardAfter(p, n, says, q, m) ==
  /\ Closed(q, m)
  /\ \A at \in 1..52 :
       at \in Heard(q, m) <=> at \in Heard(p, n) \/ at - n \in DOMAIN says
  /\ \A at \in Heard(p, n) :
       at - n \notin DOMAIN says /\ WhatIsSaid(q, at) = WhatIsSaid(p, at)
  /\ \A at \in 1..52 :
       at - n \in DOMAIN says => WhatIsSaid(q, at) = says[at - n]

\* An event is heard after what was heard before it, and nothing across the two.
LEMMA EventHeard ==
  ASSUME NEW p, NEW n \in 0..255, NEW b, NEW says, WellFormed(b, says), Closed(p, n),
         NEW q, q = Appended(p, n, b), NEW m, m = AppendedCount(n, b)
  PROVE  HeardAfter(p, n, says, q, m)
<1> DEFINE l == Len(b)
<1>1. /\ l \in 7..100
      /\ b[1] = 5 /\ b[2] # 0 /\ b[l - 6] # 93
      /\ DOMAIN says \subseteq 1..(l - 7)
      /\ \A at \in 1..(l - 7) : Carries(b, at) <=> at \in DOMAIN says
      /\ \A at \in DOMAIN says : says[at] = WhatIsSaid(b, at)
  BY DEF WellFormed
<1>2. \A i \in 1..59 : q[i] = IF i - n \in 1..l THEN b[i - n] ELSE p[i]
  BY Zenon DEF Appended
<1>3. m = IF n + l <= 255 THEN n + l ELSE 255
  BY Zenon DEF AppendedCount, UpTo
<1> HIDE DEF l
<1>4. Closed(q, m)
  <2>1. SUFFICES ASSUME m \in 7..59 PROVE q[m - 6] # 93
    BY DEF Closed
  <2>2. m - 6 \in 1..59 /\ (m - 6) - n = l - 6 /\ l - 6 \in 1..l
    BY <1>1, <1>3, <2>1
  <2>3. QED
    BY <1>1, <1>2, <2>2
\* Before the event, in the event, and across its start.
<1>5. ASSUME NEW at \in 1..52, at + 7 <= n
      PROVE  /\ at \in Heard(q, m) <=> at \in Heard(p, n)
             /\ WhatIsSaid(q, at) = WhatIsSaid(p, at)
             /\ at - n \notin DOMAIN says
  <2>1. \A i \in 0..7 : q[at + i] = p[at + i]
    BY <1>1, <1>2, <1>5
  <2>2. /\ Carries(q, at) <=> Carries(p, at)
        /\ WhatIsSaid(q, at) = WhatIsSaid(p, at)
    BY <2>1, SameWindow
  <2>3. QED
    BY <1>1, <1>3, <1>5, <2>2 DEF Heard
<1>6. ASSUME NEW at \in 1..52, n < at
      PROVE  /\ at \in Heard(q, m) <=> at - n \in DOMAIN says
             /\ at \notin Heard(p, n)
             /\ at - n \in DOMAIN says => WhatIsSaid(q, at) = says[at - n]
  <2>1. at \notin Heard(p, n)
    BY <1>6 DEF Heard
  <2>2. CASE at - n <= l - 7
    <3>1. \A i \in 0..7 : q[at + i] = b[(at - n) + i]
      <4>1. ASSUME NEW i \in 0..7 PROVE q[at + i] = b[(at - n) + i]
        <5>1. at + i \in 1..59 /\ (at + i) - n \in 1..l /\ (at + i) - n = (at - n) + i
          BY <1>1, <1>6, <2>2
        <5>2. QED
          BY <1>2, <5>1
      <4>2. QED
        BY <4>1
    <3>2. /\ Carries(q, at) <=> Carries(b, at - n)
          /\ WhatIsSaid(q, at) = WhatIsSaid(b, at - n)
      <4>1. at \in Int /\ at - n \in Int
        OBVIOUS
      <4>2. QED
        BY <3>1, <4>1, SameWindow, Zenon
    <3>3. at - n \in 1..(l - 7) /\ at + 7 <= m
      BY <1>1, <1>3, <1>6, <2>2
    <3>4. QED
      BY <1>1, <2>1, <3>2, <3>3 DEF Heard
  <2>3. CASE ~(at - n <= l - 7)
    <3>1. at - n \notin DOMAIN says /\ ~(at + 7 <= m)
      BY <1>1, <1>3, <1>6, <2>3
    <3>2. QED
      BY <2>1, <3>1 DEF Heard
  <2>4. QED
    BY <1>1, <2>2, <2>3
<1>7. ASSUME NEW at \in 1..52, at <= n, n < at + 7
      PROVE  /\ at \notin Heard(q, m) /\ at \notin Heard(p, n)
             /\ at - n \notin DOMAIN says
  <2>1. at \notin Heard(p, n) /\ at - n \notin DOMAIN says
    BY <1>1, <1>7 DEF Heard
  <2>2. q[n + 1] = 5 /\ n + 1 \in (at + 1)..(at + 7)
    BY <1>1, <1>2, <1>7
  <2>3. CASE n = at
    <3>1. q[at + 1] = 5 /\ q[at + 2] # 0
      BY <1>1, <1>2, <1>7, <2>3
    <3>2. ~Carries(q, at)
      BY <3>1, BatteryHeader, LinkHeader DEF Carries
    <3>3. QED
      BY <2>1, <3>2 DEF Heard
  <2>4. CASE n = at + 6
    <3>1. q[at] = p[at] /\ p[at] # 93
      BY <1>1, <1>2, <1>7, <2>4 DEF Closed
    <3>2. ~Carries(q, at)
      BY <3>1, BatteryHeader, LinkHeader DEF Carries
    <3>3. QED
      BY <2>1, <3>2 DEF Heard
  <2>5. CASE n \in (at + 1)..(at + 5)
    <3>1. \/ q[at + 2] = 5 \/ q[at + 3] = 5 \/ q[at + 4] = 5
          \/ q[at + 5] = 5 \/ q[at + 6] = 5
      BY <2>2, <2>5
    <3>2. ~Carries(q, at)
      BY <3>1, BatteryHeader, LinkHeader DEF Carries
    <3>3. QED
      BY <2>1, <3>2 DEF Heard
  <2>6. QED
    BY <1>7, <2>3, <2>4, <2>5
<1>8. \A at \in 1..52 : at + 7 <= n \/ n < at \/ (at <= n /\ n < at + 7)
  OBVIOUS
<1>9. \A at \in Heard(p, n) : at \in 1..52 /\ at + 7 <= n
  BY DEF Heard
<1>10. QED
  BY <1>4, <1>5, <1>6, <1>7, <1>8, <1>9 DEF HeardAfter

(* ----------------------------------------------------------------------- *)
(* The report of the model.                                                *)

\* The invariant of the report: the messages found in it are those written to it.
ReportInv ==
  /\ frame \in Report
  /\ Closed(Payload(frame), Written(frame))
  /\ messages(frame) = said
  /\ \A at \in DOMAIN said : at \in 1..52 /\ said[at] \in Message

\* What is written lies behind what was written before.
LEMMA WriteAppends ==
  ASSUME NEW event, WellFormed(event.bytes, event.says), frame \in Report, Write(event)
  PROVE  /\ frame' \in Report
         /\ Written(frame') = AppendedCount(Written(frame), event.bytes)
         /\ Payload(frame') = Appended(Payload(frame), Written(frame), event.bytes)
<1> DEFINE b == event.bytes
           l == Len(event.bytes)
           n == frame[2]
<1>1. n \in 0..255 /\ \A i \in 1..62 : frame[i] \in 0..255
  <2>1. frame \in [1..62 -> 0..255]
    BY Zenon DEF Report, MSG_SIZE
  <2>2. 2 \in 1..62
    OBVIOUS
  <2>3. frame[2] \in 0..255
    BY <2>1, <2>2, Zenon
  <2>4. \A i \in 1..62 : frame[i] \in 0..255
    BY <2>1, Zenon
  <2>5. QED
    BY <2>3, <2>4, Zenon
<1>2. l \in Nat /\ \A k \in 1..l : b[k] \in 0..255
  BY DEF WellFormed
<1>3. frame' = [i \in 1..62 |->
                  IF i = 2 THEN UpTo(n + l, 255)
                  ELSE IF i > 3 /\ i - 3 - n \in 1..l THEN b[i - 3 - n] ELSE frame[i]]
  BY DEF Write, Count, MSG_SIZE, FRESH_LEN_OFFSET, PAYLOAD_OFFSET
<1>5. Written(frame) = n /\ Written(frame') = UpTo(n + l, 255)
  BY <1>3 DEF Written, FRESH_LEN_OFFSET
<1> HIDE DEF b, l, n
<1>4. UpTo(n + l, 255) \in 0..255
  BY <1>1, <1>2 DEF UpTo
<1>6. frame' \in [1..62 -> 0..255]
  <2> DEFINE byte(i) == IF i = 2 THEN UpTo(n + l, 255)
                        ELSE IF i > 3 /\ i - 3 - n \in 1..l THEN b[i - 3 - n] ELSE frame[i]
  <2>1. \A i \in 1..62 : i > 3 /\ i - 3 - n \in 1..l => b[i - 3 - n] \in 0..255
    BY <1>2, Zenon
  <2>2. \A i \in 1..62 : byte(i) \in 0..255
    BY <1>1, <1>4, <2>1, Zenon
  <2>3. frame' = [i \in 1..62 |-> byte(i)]
    BY <1>3
  <2> HIDE DEF byte
  <2>4. QED
    BY <2>2, <2>3, Zenon
<1>7. ASSUME NEW i \in 1..59
      PROVE  frame'[i + 3] = IF i - n \in 1..l THEN b[i - n] ELSE Payload(frame)[i]
  <2>1. i + 3 \in 1..62 /\ i + 3 # 2 /\ i + 3 > 3 /\ i + 3 - 3 - n = i - n
    BY <1>1
  <2>2. Payload(frame)[i] = frame[i + 3]
    BY DEF Payload
  <2>3. \A j \in 1..62 :
          frame'[j] = IF j = 2 THEN UpTo(n + l, 255)
                      ELSE IF j > 3 /\ j - 3 - n \in 1..l THEN b[j - 3 - n] ELSE frame[j]
    BY <1>3, Zenon
  <2>4. frame'[i + 3] = IF i + 3 - 3 - n \in 1..l THEN b[i + 3 - 3 - n] ELSE frame[i + 3]
    BY <2>1, <2>3
  <2>5. QED
    BY <2>1, <2>2, <2>4, Zenon
<1>8. Payload(frame') = [i \in 1..59 |-> IF i - n \in 1..l THEN b[i - n] ELSE Payload(frame)[i]]
  BY <1>7, Zenon DEF Payload
<1>9. QED
  BY <1>5, <1>6, <1>8, Zenon DEF AppendedCount, Appended, Report, MSG_SIZE, b, l

LEMMA WriteHeard ==
  ASSUME NEW event, WellFormed(event.bytes, event.says), ReportInv, Write(event)
  PROVE  /\ ReportInv'
         /\ \A at \in DOMAIN said' :
              \/ at \in DOMAIN said /\ said'[at] = said[at]
              \/ \E h \in DOMAIN event.says : said'[at] = event.says[h]
<1> DEFINE b == event.bytes
           says == event.says
           n == Written(frame)
           m == Written(frame')
           p == Payload(frame)
           q == Payload(frame')
<1>1. /\ Len(b) \in 7..100 /\ \A k \in 1..Len(b) : b[k] \in 0..255
      /\ DOMAIN says \subseteq 1..(Len(b) - 7)
      /\ \A at \in DOMAIN says : says[at] \in Message
  BY DEF WellFormed
<1>2. frame' \in Report /\ m = AppendedCount(n, b) /\ q = Appended(p, n, b)
  BY WriteAppends DEF ReportInv
<1>3. n \in 0..255 /\ Count = n
  BY DEF ReportInv, Report, MSG_SIZE, Written, FRESH_LEN_OFFSET, Count
<1>4. messages(frame) = [at \in Heard(p, n) |-> WhatIsSaid(p, at)]
  BY MessagesHeard DEF ReportInv
<1>5. messages(frame') = [at \in Heard(q, m) |-> WhatIsSaid(q, at)]
  BY <1>2, MessagesHeard
<1>6. /\ said = [at \in Heard(p, n) |-> WhatIsSaid(p, at)]
      /\ \A at \in DOMAIN said : said[at] \in Message
      /\ Closed(p, n) /\ WellFormed(b, says)
  BY <1>4 DEF ReportInv
<1>7. said' = LET heard == {at \in DOMAIN says : n + at + 7 <= 59}
              IN  [at \in DOMAIN said \cup {n + h : h \in heard} |->
                     IF at \in DOMAIN said THEN said[at] ELSE says[at - n]]
  <2>1. Len(LINK_EVENT) = 7 /\ Capacity = 59
    BY HeaderLengths DEF Capacity, MSG_SIZE, PAYLOAD_OFFSET
  <2>2. QED
    BY <1>3, <2>1, Zenon DEF Write
<1> DEFINE places == {n + h : h \in {at \in DOMAIN says : n + at + 7 <= 59}}
<1>8. said' = [at \in Heard(p, n) \cup places |->
                 IF at \in Heard(p, n) THEN WhatIsSaid(p, at) ELSE says[at - n]]
  BY <1>6, <1>7, Zenon
<1>9. DOMAIN says \subseteq Int /\ \A h \in DOMAIN says : h >= 1
  BY <1>1
<1> HIDE DEF b, says, n, m, p, q
<1>10. /\ Closed(q, m)
       /\ \A at \in 1..52 :
            at \in Heard(q, m) <=> at \in Heard(p, n) \/ at - n \in DOMAIN says
       /\ \A at \in Heard(p, n) :
            at - n \notin DOMAIN says /\ WhatIsSaid(q, at) = WhatIsSaid(p, at)
       /\ \A at \in 1..52 :
            at - n \in DOMAIN says => WhatIsSaid(q, at) = says[at - n]
  <2>1. /\ WellFormed(b, says) /\ Closed(p, n) /\ n \in 0..255
        /\ q = Appended(p, n, b) /\ m = AppendedCount(n, b)
    BY <1>2, <1>3, <1>6
  <2>2. HeardAfter(p, n, says, q, m)
    BY <2>1, EventHeard, Zenon
  <2>3. QED
    BY <2>2, Zenon DEF HeardAfter
<1>11. \A at : at \in places <=> at \in 1..52 /\ at - n \in DOMAIN says
  <2>1. ASSUME NEW h \in DOMAIN says, n + h + 7 <= 59
        PROVE  n + h \in 1..52 /\ (n + h) - n = h
    BY <1>3, <1>9, <2>1
  <2>2. ASSUME NEW at \in 1..52, at - n \in DOMAIN says PROVE at \in places
    <3>1. at = n + (at - n) /\ n + (at - n) + 7 <= 59
      BY <1>3
    <3>2. QED
      BY <2>2, <3>1
  <2>3. QED
    BY <2>1, <2>2
<1> HIDE DEF places
<1>12. Heard(p, n) \subseteq 1..52 /\ Heard(q, m) \subseteq 1..52
  BY DEF Heard
<1>13. Heard(q, m) = Heard(p, n) \cup places
  BY <1>10, <1>11, <1>12, Zenon
<1>14. \A at \in Heard(q, m) :
         WhatIsSaid(q, at) = IF at \in Heard(p, n) THEN WhatIsSaid(p, at) ELSE says[at - n]
  BY <1>10, <1>12, Zenon
<1>15. messages(frame') = said'
  BY <1>5, <1>8, <1>13, <1>14, Zenon
<1>16. ASSUME NEW at \in DOMAIN said'
       PROVE  /\ at \in 1..52
              /\ \/ at \in DOMAIN said /\ said'[at] = said[at]
                 \/ at - n \in DOMAIN says /\ said'[at] = says[at - n]
  BY <1>6, <1>8, <1>11, <1>12, Zenon
<1>17. ReportInv'
  BY <1>1, <1>2, <1>6, <1>10, <1>15, <1>16, Zenon DEF ReportInv, q, m, says
<1>18. QED
  BY <1>16, <1>17, Zenon DEF says

\* A report that nothing is written to.
LEMMA NothingHeard ==
  ASSUME NEW f \in Report, Written(f) = 0
  PROVE  messages(f) = Nothing /\ Closed(Payload(f), Written(f))
<1>1. Heard(Payload(f), 0) = {}
  BY DEF Heard
<1>2. messages(f) = [at \in {} |-> WhatIsSaid(Payload(f), at)]
  BY <1>1, MessagesHeard
<1>3. QED
  BY <1>2 DEF Nothing, Closed

LEMMA EmptiedHeard ==
  ASSUME ReportInv, Emptied
  PROVE  ReportInv' /\ Written(frame') = 0 /\ said' = Nothing
<1>1. frame' \in Report /\ Written(frame') = 0
  BY DEF ReportInv, Emptied, Report, Written, MSG_SIZE, FRESH_LEN_OFFSET
<1>2. QED
  BY <1>1, NothingHeard DEF ReportInv, Emptied, Nothing

LEMMA RenewedHeard ==
  ASSUME frame' = EmptyFrame, said' = Nothing
  PROVE  ReportInv' /\ Written(frame') = 0
<1>1. frame' \in Report /\ Written(frame') = 0
  BY DEF EmptyFrame, Report, Written, MSG_SIZE, FRESH_LEN_OFFSET
<1>2. QED
  BY <1>1, NothingHeard DEF ReportInv, Nothing

LEMMA SwitchWrites ==
  ASSUME Switch
  PROVE  \E event : /\ WellFormed(event.bytes, event.says) /\ Write(event)
                    /\ linked' => \A h \in DOMAIN event.says : event.says[h] # [link |-> "Down"]
<1>1. PICK level \in Percent : Write(IF linked' THEN PowerOn(level) ELSE PowerOff)
  BY DEF Switch
<1>2. CASE linked'
  <2>1. Write(PowerOn(level)) /\ WellFormed(PowerOn(level).bytes, PowerOn(level).says)
    BY <1>1, <1>2, PowerOnWellFormed, Zenon
  <2>2. \A h \in DOMAIN PowerOn(level).says : PowerOn(level).says[h] # [link |-> "Down"]
    BY DEF PowerOn
  <2>3. QED
    BY <2>1, <2>2, Zenon
<1>3. CASE ~linked'
  BY <1>1, <1>3, PowerOffWellFormed, Zenon
<1>4. QED
  BY <1>2, <1>3

LEMMA RespondWrites ==
  ASSUME Respond
  PROVE  \E event : /\ WellFormed(event.bytes, event.says) /\ Write(event)
                    /\ \A h \in DOMAIN event.says : event.says[h] # [link |-> "Down"]
<1>1. PICK level \in Percent : Write(Answer(level))
  BY DEF Respond
<1>2. \A h \in DOMAIN Answer(level).says : Answer(level).says[h] # [link |-> "Down"]
  BY DEF Answer
<1>3. QED
  BY <1>1, <1>2, AnswerWellFormed, Zenon

LEMMA ReportInit == Init => ReportInv
<1>1. ASSUME Init PROVE ReportInv
  <2>1. frame \in Report /\ Written(frame) = 0 /\ said = Nothing
    BY <1>1 DEF Init, EmptyFrame, Report, Written, MSG_SIZE, FRESH_LEN_OFFSET
  <2>2. QED
    BY <2>1, NothingHeard DEF ReportInv, Nothing
<1>2. QED
  BY <1>1

LEMMA ReportStep == ReportInv /\ [Next]_vars => ReportInv'
<1>1. SUFFICES ASSUME ReportInv, [Next]_vars PROVE ReportInv'
  OBVIOUS
<1>2. CASE Switch
  BY <1>1, <1>2, SwitchWrites, WriteHeard, Zenon
<1>3. CASE Reenumerate
  BY <1>3, RenewedHeard DEF Reenumerate
<1>4. CASE Respond
  BY <1>1, <1>4, RespondWrites, WriteHeard, Zenon
<1>5. ASSUME UNCHANGED <<frame, said>> PROVE ReportInv'
  BY <1>1, <1>5 DEF ReportInv
<1>6. CASE LoseRequest
  BY <1>5, <1>6 DEF LoseRequest
<1>7. CASE FetchFails
  BY <1>1, <1>5, <1>7, EmptiedHeard DEF FetchFails
<1>8. CASE Listen
  BY <1>1, <1>8, EmptiedHeard DEF Listen
<1>9. ASSUME NEW written \in BOOLEAN, Ask(written) PROVE ReportInv'
  BY <1>5, <1>9 DEF Ask
<1>10. CASE UNCHANGED vars
  BY <1>5, <1>10 DEF vars
<1>11. QED
  BY <1>1, <1>2, <1>3, <1>4, <1>6, <1>7, <1>8, <1>9, <1>10 DEF Next

\* Whatever headsets come and go and whatever is lost, the messages found in a
\* report are those written to it since it was last fetched, each at its place
\* (frame.rs:45-75).
THEOREM MessagesAreHeard == Spec => []HeardIsWhatWasSaid
<1>1. ReportInv => HeardIsWhatWasSaid
  BY DEF ReportInv, HeardIsWhatWasSaid
<1>2. QED
  BY <1>1, ReportInit, ReportStep, PTL DEF Spec

(* ----------------------------------------------------------------------- *)
(* What a report makes of a session.                                       *)

\* A session after the place n of the report, given what it was before.
Hear(s, heard, n) == IF n \in DOMAIN heard THEN Take(s, heard[n]) ELSE s

IsHearing(after, last, first, heard) ==
  after = [n \in 0..last |-> IF n = 0 THEN first ELSE Hear(after[n - 1], heard, n)]

\* A report can be heard as far as one likes.
LEMMA HearingsExist ==
  ASSUME NEW bound \in Nat, NEW first, NEW heard
  PROVE  \E after : IsHearing(after, bound, first, heard)
<1> DEFINE S == {n \in Nat : \E after : IsHearing(after, n, first, heard)}
<1>1. 0 \in S
  <2> DEFINE after == [n \in 0..0 |-> first]
  <2>1. IsHearing(after, 0, first, heard)
    BY DEF IsHearing
  <2> HIDE DEF after
  <2>2. QED
    BY <2>1
<1>2. ASSUME NEW m \in Nat, m \in S
      PROVE  m + 1 \in S
  <2>1. PICK f : IsHearing(f, m, first, heard)
    BY <1>2
  <2> DEFINE next == Hear(f[m], heard, m + 1)
             g == [n \in 0..(m + 1) |-> IF n <= m THEN f[n] ELSE next]
  <2>2. ASSUME NEW n \in 0..(m + 1)
        PROVE  g[n] = IF n = 0 THEN first ELSE Hear(g[n - 1], heard, n)
    <3> HIDE DEF next
    <3>1. CASE n = m + 1
      <4>1. g[n] = next /\ g[n - 1] = f[m] /\ n # 0
        BY <3>1
      <4>2. QED
        BY <3>1, <4>1, Zenon DEF next
    <3>2. CASE n \in 1..m
      <4>1. g[n] = f[n] /\ g[n - 1] = f[n - 1] /\ n # 0 /\ n \in 0..m
        BY <3>2
      <4>2. f[n] = Hear(f[n - 1], heard, n)
        BY <2>1, <4>1, Zenon DEF IsHearing
      <4> HIDE DEF g
      <4>3. QED
        BY <4>1, <4>2, Zenon
    <3>3. CASE n = 0
      <4>1. g[0] = f[0] /\ 0 \in 0..m
        OBVIOUS
      <4>2. f[0] = first
        BY <2>1, <4>1, Zenon DEF IsHearing
      <4> HIDE DEF g
      <4>3. QED
        BY <3>3, <4>1, <4>2, Zenon
    <3>4. QED
      BY <3>1, <3>2, <3>3
  <2>3. IsHearing(g, m + 1, first, heard)
    <3>1. g = [n \in 0..(m + 1) |-> g[n]]
      OBVIOUS
    <3> HIDE DEF g
    <3>2. QED
      BY <2>2, <3>1, Zenon DEF IsHearing
  <2>4. QED
    BY <2>3
<1>3. bound \in S
  <2> HIDE DEF S
  <2>1. \A n \in 0..(bound - 1) : n \in S => n + 1 \in S
    BY <1>2
  <2>2. QED
    BY <1>1, <2>1, BoundedInduction
<1>4. QED
  BY <1>3

LEMMA TakenInHears ==
  ASSUME NEW heard
  PROVE  /\ TakenIn(heard)[0] = Opened
         /\ \A n \in 0..58 :
              TakenIn(heard)[n + 1] = Hear(TakenIn(heard)[n], heard, n + 1)
<1> DEFINE after == TakenIn(heard)
<1>0. Capacity = 59
  BY DEF Capacity, MSG_SIZE, PAYLOAD_OFFSET
<1>1. after = CHOOSE f : IsHearing(f, 59, Opened, heard)
  BY <1>0, Zenon DEF TakenIn, IsHearing, Hear
<1>2. IsHearing(after, 59, Opened, heard)
  <2>1. 59 \in Nat
    OBVIOUS
  <2>2. \E f : IsHearing(f, 59, Opened, heard)
    BY <2>1, HearingsExist, Zenon
  <2>3. QED
    BY <1>1, <2>2, Zenon
<1> HIDE DEF after
<1>3. after[0] = Opened
  <2>1. 0 \in 0..59
    OBVIOUS
  <2>2. QED
    BY <1>2, <2>1, Zenon DEF IsHearing
<1>4. ASSUME NEW n \in 0..58
      PROVE  after[n + 1] = Hear(after[n], heard, n + 1)
  <2>1. n + 1 \in 0..59 /\ n + 1 # 0 /\ (n + 1) - 1 = n
    BY <1>4
  <2>2. after[n + 1] = Hear(after[(n + 1) - 1], heard, n + 1)
    BY <1>2, <2>1, Zenon DEF IsHearing
  <2>3. QED
    BY <2>1, <2>2
<1>5. QED
  BY <1>3, <1>4 DEF after

\* What every message keeps from some place on, the report keeps.
LEMMA TakenInKeeps ==
  ASSUME NEW heard, NEW S, NEW k \in 0..59, TakenIn(heard)[k] \in S,
         \A s \in S : \A at \in DOMAIN heard : Take(s, heard[at]) \in S
  PROVE  TakenIn(heard)[59] \in S
<1> DEFINE after == TakenIn(heard)
           T == {d \in Nat : k + d <= 59 => after[k + d] \in S}
<1>1. 0 \in T
  <2>1. k + 0 = k /\ 0 \in Nat
    OBVIOUS
  <2>2. QED
    BY <2>1, Zenon
<1>2. \A n \in 0..58 : after[n + 1] = Hear(after[n], heard, n + 1)
  BY TakenInHears, Zenon
<1> HIDE DEF after
<1>3. ASSUME NEW d \in 0..58, d \in T PROVE d + 1 \in T
  <2>1. CASE k + (d + 1) <= 59
    <3>1. k + d \in 0..58 /\ k + d <= 59 /\ (k + d) + 1 = k + (d + 1)
      BY <2>1
    <3>2. after[k + d] \in S
      BY <1>3, <3>1
    <3>3. after[(k + d) + 1] = Hear(after[k + d], heard, (k + d) + 1)
      BY <1>2, <3>1, Zenon
    <3>4. Hear(after[k + d], heard, (k + d) + 1) \in S
      BY <3>2, Zenon DEF Hear
    <3>5. QED
      BY <3>1, <3>3, <3>4
  <2>2. CASE ~(k + (d + 1) <= 59)
    BY <2>2
  <2>3. QED
    BY <2>1, <2>2
<1> HIDE DEF T
<1>4. \A d \in 0..59 : d \in T
  <2>1. 59 \in Nat /\ \A n \in 0..(59 - 1) : n \in T => n + 1 \in T
    BY <1>3
  <2>2. QED
    BY <1>1, <2>1, BoundedInduction
<1>5. 59 - k \in T /\ k + (59 - k) = 59
  BY <1>4
<1>6. QED
  BY <1>5 DEF T, after

(* ----------------------------------------------------------------------- *)
(* A session and a message.                                                *)

LEMMA TakeType ==
  ASSUME NEW s \in Session, NEW message \in Message
  PROVE  /\ Take(s, message) \in Session
         /\ Take(s, message).askedAt = s.askedAt
         /\ Take(s, message).openedAt = s.openedAt
         /\ Take(s, message).link = "Down" <=> message = [link |-> "Down"]
         /\ Take(s, message).link = "Up" => Take(s, message).unanswered = 0
         /\ "battery" \in DOMAIN message =>
              /\ Take(s, message).link = "Up" /\ Take(s, message).level # None
              /\ Take(s, message).pending = FALSE
<1>1. CASE message \in [battery : Percent]
  <2>1. PICK level \in Percent : message = [battery |-> level]
    BY <1>1
  <2>2. "battery" \in DOMAIN message /\ message.battery = level /\ message # [link |-> "Down"]
    BY <2>1
  <2>3. Take(s, message) = TakeLevel(s, level, 1)
    BY <2>2 DEF Take
  <2>4. TakeLevel(s, level, 1) \in Session
    BY TakeLevelType
  <2>5. level # None
    BY LevelAssumption, AbsenceAssumption
  <2>6. QED
    BY <2>2, <2>3, <2>4, <2>5 DEF TakeLevel, Session
<1>2. CASE message = [link |-> "Up"]
  <2>1. "battery" \notin DOMAIN message /\ message.link = "Up" /\ message # [link |-> "Down"]
    BY <1>2
  <2>2. Take(s, message) = TakeUp(s)
    BY <2>1 DEF Take
  <2>3. TakeUp(s) \in Session
    BY TakeLinkType
  <2>4. QED
    BY <2>1, <2>2, <2>3 DEF TakeUp, Session
<1>3. CASE message = [link |-> "Down"]
  <2>1. "battery" \notin DOMAIN message /\ message.link # "Up"
    BY <1>3
  <2>2. Take(s, message) = TakeDown(s)
    BY <2>1 DEF Take
  <2>3. TakeDown(s) \in Session
    BY TakeLinkType
  <2>4. QED
    BY <1>3, <2>1, <2>2, <2>3 DEF TakeDown, Session
<1>4. message \in [link : {"Up", "Down"}] => message = [link |-> "Up"] \/ message = [link |-> "Down"]
  OBVIOUS
<1>5. QED
  BY <1>1, <1>2, <1>3, <1>4 DEF Message

\* What a session is after a report, of what it was before it.
LEMMA TakenInType ==
  ASSUME NEW heard, \A at \in DOMAIN heard : heard[at] \in Message,
         Opened \in Session,
         Opened.link = "Up" => Opened.unanswered < MaxUnanswered
  PROVE  LET s == TakenIn(heard)[Capacity] IN
         /\ s \in Session
         /\ s.askedAt = Opened.askedAt /\ s.openedAt = Opened.openedAt
         /\ s.link = "Down" => \/ Opened.link = "Down"
                               \/ \E at \in DOMAIN heard : heard[at] = [link |-> "Down"]
         /\ s.link = "Up" => s.unanswered < MaxUnanswered
<1> DEFINE S == {s \in Session :
                   /\ s.askedAt = Opened.askedAt /\ s.openedAt = Opened.openedAt
                   /\ s.link = "Down" => \/ Opened.link = "Down"
                                         \/ \E at \in DOMAIN heard : heard[at] = [link |-> "Down"]
                   /\ s.link = "Up" => s.unanswered < MaxUnanswered}
<1>1. Opened \in S
  OBVIOUS
<1>2. 0 < MaxUnanswered
  BY UnansweredAssumption, DelayAssumption
<1>3. ASSUME NEW s \in S, NEW at \in DOMAIN heard
      PROVE  Take(s, heard[at]) \in S
  BY <1>2, TakeType
<1>4. TakenIn(heard)[0] \in S
  BY <1>1, TakenInHears
<1> HIDE DEF S
<1>5. TakenIn(heard)[59] \in S
  BY <1>3, <1>4, TakenInKeeps
<1>6. Capacity = 59
  BY DEF Capacity, MSG_SIZE, PAYLOAD_OFFSET
<1>7. QED
  BY <1>5, <1>6 DEF S

\* A report without messages changes nothing.
LEMMA TakenInNothing ==
  ASSUME NEW heard, DOMAIN heard = {}
  PROVE  TakenIn(heard)[Capacity] = Opened
<1>1. TakenIn(heard)[0] \in {Opened}
  BY TakenInHears
<1>2. TakenIn(heard)[59] \in {Opened}
  <2>1. \A s \in {Opened} : \A at \in DOMAIN heard : Take(s, heard[at]) \in {Opened}
    BY Zenon
  <2>2. 0 \in 0..59
    OBVIOUS
  <2>3. QED
    BY <1>1, <2>1, <2>2, TakenInKeeps, Zenon
<1>3. QED
  BY <1>2 DEF Capacity, MSG_SIZE, PAYLOAD_OFFSET

\* One in which there are only levels leaves a linked headset and its level.
LEMMA TakenInLevels ==
  ASSUME NEW heard, DOMAIN heard \subseteq 1..59, DOMAIN heard # {}, Opened \in Session,
         \A at \in DOMAIN heard : heard[at] \in Message /\ "battery" \in DOMAIN heard[at]
  PROVE  LET s == TakenIn(heard)[Capacity] IN
         /\ s \in Session /\ s.link = "Up" /\ s.level # None /\ s.pending = FALSE
         /\ s.unanswered = 0
<1> DEFINE S == {s \in Session : /\ s.link = "Up" /\ s.level # None /\ s.pending = FALSE
                                 /\ s.unanswered = 0}
           after == TakenIn(heard)
<1>1. \A s \in Session : \A at \in DOMAIN heard : Take(s, heard[at]) \in S
  BY TakeType
<1>2. PICK at \in DOMAIN heard : TRUE
  OBVIOUS
<1>3. at \in 1..59 /\ at - 1 \in 0..58 /\ (at - 1) + 1 = at
  OBVIOUS
<1>4. \A n \in 0..58 : after[n + 1] = Hear(after[n], heard, n + 1)
  BY TakenInHears, Zenon
<1> DEFINE R == {n \in 0..59 : after[n] \in Session}
<1>5. \A n \in 0..59 : n \in R
  <2>1. 0 \in R
    BY TakenInHears
  <2> HIDE DEF after, S
  <2>2. ASSUME NEW n \in 0..58, n \in R PROVE n + 1 \in R
    <3>1. after[n] \in Session /\ after[n + 1] = Hear(after[n], heard, n + 1)
      BY <1>4, <2>2
    <3>2. S \subseteq Session
      BY DEF S
    <3>3. after[n + 1] \in Session
      BY <1>1, <3>1, <3>2, Zenon DEF Hear
    <3>4. QED
      BY <3>3
  <2> HIDE DEF R
  <2>3. 59 \in Nat /\ \A n \in 0..(59 - 1) : n \in R => n + 1 \in R
    BY <2>2
  <2>4. QED
    BY <2>1, <2>3, BoundedInduction
<1> HIDE DEF S, after
<1>6. after[at - 1] \in Session
  BY <1>3, <1>5 DEF R
<1>7. after[at] \in S
  <2>1. after[(at - 1) + 1] = Hear(after[at - 1], heard, (at - 1) + 1)
    BY <1>3, <1>4, Zenon
  <2>2. after[at] = Take(after[at - 1], heard[at])
    BY <1>2, <1>3, <2>1, Zenon DEF Hear
  <2>3. QED
    BY <1>1, <1>2, <1>6, <2>2, Zenon
<1>8. TakenIn(heard)[59] \in S
  <2>1. \A s \in S : \A x \in DOMAIN heard : Take(s, heard[x]) \in S
    BY <1>1 DEF S
  <2>2. at \in 0..59
    BY <1>3
  <2>3. QED
    BY <1>7, <2>1, <2>2, TakenInKeeps DEF after
<1>9. QED
  BY <1>8 DEF S, Capacity, MSG_SIZE, PAYLOAD_OFFSET

(* ----------------------------------------------------------------------- *)
(* The invariants of the session.                                          *)

\* A session that believes its headset linked has not left too many requests
\* unanswered.
SessionInv ==
  /\ TypeOK
  /\ session # None /\ session.link = "Up" => session.unanswered < MaxUnanswered

\* The dongle has announced that the headset is gone, or the session was told.
Announced == \E at \in DOMAIN said : said[at] = [link |-> "Down"]
Told == IF session = None THEN last_link = "Down" ELSE session.link = "Down"

Reopens == IF changed THEN 1 ELSE 0
MayAsk ==
  IF session = None \/ session.askedAt = None \/ (fetched /\ Announced) THEN 1 ELSE 0

\* Requests to a headset that is gone: besides those counted, a session that has
\* not asked may yet do so, as may one that is between its fetch and its request
\* when the headset leaves; and there is one more session while the dongle has yet
\* to re-enumerate.
AbsentInv ==
  /\ linked => absentAsks = 0
  /\ ~linked /\ (Told \/ Announced) => absentAsks + Reopens + MayAsk <= 3

InFlight == request \/ DOMAIN said # {}

\* What a poll may count on, of a session that heard its report, at the c-th poll
\* since anything was lost.
Ready(s, c) ==
  /\ s.link = "Up" /\ s.pending =>
       c <= NativeInterval /\ (s.askedAt # None => c <= s.askedAt)
  /\ s.link # "Down" /\ s.level = None =>
       /\ c <= NativeInterval + LongestDelay
       /\ s.askedAt # None => c <= s.askedAt + NativeInterval
       /\ s.link = "Unknown" /\ s.askedAt = None => c <= s.openedAt + 1

\* While nothing is lost: a request is answered before the next poll, and the answer
\* is all there is in the report; what is asked of a linked headset waits no longer
\* than its interval; and a headset without a level is asked for one in time.
CalmInv ==
  /\ calm > 0 => session # None
  /\ linked /\ calm > 0 /\ fetched =>
       ~request /\ DOMAIN said = {} /\ Written(frame) = 0 /\ Ready(session, calm)
  /\ linked /\ calm > 0 /\ ~fetched =>
       /\ request => DOMAIN said = {} /\ Written(frame) = 0
       /\ \A at \in DOMAIN said : "battery" \in DOMAIN said[at]
       /\ InFlight => session.askedAt # None
       /\ session.link = "Up" =>
            /\ session.askedAt # None
            /\ ~InFlight => session.askedAt < NativeInterval
            /\ ~InFlight /\ session.pending => calm <= session.askedAt
       /\ session.link # "Down" /\ session.level = None =>
            CASE InFlight -> calm <= NativeInterval + LongestDelay
              [] ~InFlight /\ session.askedAt = None ->
                   /\ session.link = "Unknown" /\ session.openedAt < ListenFirst
                   /\ calm <= session.openedAt + 1
              [] ~InFlight /\ session.askedAt # None ->
                   /\ session.askedAt < LongestDelay
                   /\ calm <= session.askedAt + NativeInterval

LEMMA DelaysAreNumbers ==
  /\ NativeInterval \in Nat /\ ListenFirst \in Nat /\ LongestDelay \in Nat
  /\ MaxUnanswered \in Nat /\ MaxUnanswered > 0
  /\ MostAbsentAsks \in Nat /\ MostAbsentAsks > 0
  /\ NativeInterval > 0 /\ NativeInterval <= LongestDelay
  /\ ListenFirst < NativeInterval + LongestDelay
<1>1. Len(AskAgainAfter) \in Nat
  BY LenProperties, DelayAssumption
<1>2. QED
  BY <1>1, DelayAssumption, UnansweredAssumption, AskBoundAssumption, PaceAssumption

LEMMA AskDelayBound ==
  ASSUME NEW asks
  PROVE  AskDelay(asks) \in 0..LongestDelay
<1>1. CASE asks \in DOMAIN AskAgainAfter
  <2>1. AskAgainAfter[asks] \in Nat
    BY <1>1, DelayAssumption, ElementOfSeq, LenProperties
  <2>2. QED
    BY <1>1, <2>1, DelayAssumption DEF AskDelay
<1>2. CASE asks \notin DOMAIN AskAgainAfter
  BY <1>2, DelayAssumption DEF AskDelay
<1>3. QED
  BY <1>1, <1>2

\* The parts of a session.
LEMMA SessionParts ==
  ASSUME NEW s \in Session
  PROVE  /\ s.link \in Link /\ s.level \in Percent \cup {None}
         /\ s.openedAt \in Nat /\ s.openedAt <= ListenFirst
         /\ s.askedAt # None => s.askedAt \in Nat /\ s.askedAt <= LongestDelay
         /\ s.pending \in BOOLEAN /\ s.unanswered \in Nat
         /\ s.unanswered <= MaxUnanswered
         /\ s # None
<1>1. s.openedAt \in 0..ListenFirst /\ s.unanswered \in 0..MaxUnanswered
  BY DEF Session
<1>2. s.askedAt \in (0..LongestDelay) \cup {None}
  BY DEF Session
<1>3. QED
  BY <1>1, <1>2, SessionAssumption, DelaysAreNumbers DEF Session

\* The session a poll works on.
LEMMA OpenedIs ==
  ASSUME session \in Session \cup {None}, last_link \in Link,
         session # None /\ session.link = "Up" => session.unanswered < MaxUnanswered
  PROVE  /\ Opened \in Session
         /\ Opened.link = "Up" => Opened.unanswered < MaxUnanswered
         /\ session = None =>
              /\ Opened.link = last_link /\ Opened.level = None /\ Opened.pending = FALSE
              /\ Opened.askedAt = None
         /\ session # None =>
              /\ Opened.link = session.link /\ Opened.level = session.level
              /\ Opened.pending = session.pending
              /\ Opened.openedAt = UpTo(session.openedAt + 1, ListenFirst)
              /\ Opened.askedAt = OlderBy1(session.askedAt, LongestDelay)
              /\ Opened.unanswered = session.unanswered
<1>1. CASE session = None
  <2>1. Opened = open(last_link) /\ open(last_link) \in Session
    BY <1>1, OpenType DEF Opened
  <2>2. QED
    BY <1>1, <2>1, DelaysAreNumbers DEF open
<1>2. CASE session # None
  <2>1. session \in Session
    BY <1>2
  <2>2. Opened = Older(session) /\ Older(session) \in Session
    BY <1>2, <2>1, OlderType DEF Opened
  <2>3. /\ Older(session).link = session.link /\ Older(session).level = session.level
        /\ Older(session).pending = session.pending
        /\ Older(session).openedAt = UpTo(session.openedAt + 1, ListenFirst)
        /\ Older(session).askedAt = OlderBy1(session.askedAt, LongestDelay)
        /\ Older(session).unanswered = session.unanswered
    BY <2>1 DEF Older, Session
  <2>4. QED
    BY <1>2, <2>2, <2>3
<1>3. QED
  BY <1>1, <1>2

\* What a poll does to a session besides hearing it.
LEMMA CountedIs ==
  ASSUME NEW s \in Session
  PROVE  /\ Counted(s).askedAt = s.askedAt /\ Counted(s).openedAt = s.openedAt
         /\ Counted(s).pending = s.pending
         /\ ~s.pending => Counted(s).unanswered = s.unanswered
  BY DEF Counted, Session

LEMMA AskedIs ==
  ASSUME NEW s \in Session
  PROVE  /\ Asked(s).askedAt = 0 /\ Asked(s).pending = TRUE
         /\ Asked(s).unanswered = Counted(s).unanswered
<1> DEFINE c == Counted(s)
<1>1. c \in Session
  BY CountedType
<1>2. Asked(s) = [c EXCEPT !.askedAt = 0, !.asks = UpTo(@ + 1, QuickAsks), !.pending = TRUE]
  BY DEF Asked
<1> HIDE DEF c
<1>3. Asked(s).askedAt = 0 /\ Asked(s).pending = TRUE /\ Asked(s).unanswered = c.unanswered
  BY <1>1, <1>2 DEF Session
<1>4. QED
  BY <1>3 DEF c

LEMMA GivenUpIs ==
  ASSUME NEW s \in Session
  PROVE  /\ GivenUp(s).link = "Unknown" /\ GivenUp(s).level = None
         /\ GivenUp(s).pending = FALSE /\ GivenUp(s).askedAt = 0
  BY DEF GivenUp, Session

\* A poll, of which s is what was heard: it waits, it gives up, it asks or it fails to.
Waits(s) ==
  ~should_ask(s) /\ session' = s /\ request' = request /\ absentAsks' = absentAsks

Resigns(s) ==
  /\ should_ask(s) /\ GivesUp(s)
  /\ session' = GivenUp(s) /\ request' = request /\ absentAsks' = absentAsks

Asks(s) ==
  /\ should_ask(s) /\ ~GivesUp(s)
  /\ session' = Asked(s) /\ request' = TRUE
  /\ absentAsks' = IF ~linked THEN UpTo(absentAsks + 1, MostAbsentAsks) ELSE absentAsks

FailsToAsk(s) ==
  /\ should_ask(s) /\ ~GivesUp(s)
  /\ session' = Counted(s) /\ request' = request /\ absentAsks' = absentAsks
  /\ calm' = 0

LEMMA ListenIs ==
  ASSUME Listen, ReportInv, SessionInv
  PROVE  /\ session' = TakenIn(said)[Capacity] /\ session' \in Session
         /\ session'.askedAt = Opened.askedAt /\ session'.openedAt = Opened.openedAt
         /\ session'.link = "Down" => Opened.link = "Down" \/ Announced
         /\ session'.link = "Up" => session'.unanswered < MaxUnanswered
         /\ calm' = IF request THEN 0 ELSE UpTo(calm + 1, LongestCalm)
         /\ ~fetched /\ fetched'
         /\ UNCHANGED <<linked, changed, request, last_link, absentAsks>>
         /\ Emptied
<1>1. /\ session' = TakenIn(said)[Capacity]
      /\ \A at \in DOMAIN said : said[at] \in Message
  BY DEF ReportInv, Listen
<1>2. /\ Opened \in Session
      /\ Opened.link = "Up" => Opened.unanswered < MaxUnanswered
  BY OpenedIs DEF SessionInv, TypeOK
<1>3. /\ session' \in Session
      /\ session'.askedAt = Opened.askedAt /\ session'.openedAt = Opened.openedAt
      /\ session'.link = "Down" => Opened.link = "Down" \/ Announced
      /\ session'.link = "Up" => session'.unanswered < MaxUnanswered
  BY <1>1, <1>2, TakenInType DEF Announced
<1>4. QED
  BY <1>1, <1>3 DEF Listen, dongleVars

LEMMA AskIs ==
  ASSUME NEW written \in BOOLEAN, Ask(written), SessionInv
  PROVE  /\ Waits(session) \/ Resigns(session) \/ Asks(session) \/ FailsToAsk(session)
         /\ session \in Session
         /\ session.link = "Up" => session.unanswered < MaxUnanswered
         /\ calm' = 0 \/ calm' = calm
         /\ fetched /\ ~fetched'
         /\ UNCHANGED <<linked, changed, frame, said, last_link>>
<1>1. /\ request \in BOOLEAN
      /\ session \in Session
      /\ session.link = "Up" => session.unanswered < MaxUnanswered
  BY DEF SessionInv, TypeOK, Ask
<1>2. /\ session' = IF ~should_ask(session) THEN session
                    ELSE IF GivesUp(session) THEN GivenUp(session)
                    ELSE IF written THEN Asked(session) ELSE Counted(session)
      /\ LET goes == should_ask(session) /\ ~GivesUp(session) /\ written IN
         /\ request' = (goes \/ request)
         /\ absentAsks' = IF goes /\ ~linked THEN UpTo(absentAsks + 1, MostAbsentAsks)
                          ELSE absentAsks
      /\ calm' = IF should_ask(session) /\ ~written THEN 0 ELSE calm
      /\ fetched /\ ~fetched'
      /\ UNCHANGED <<linked, changed, frame, said, last_link>>
  BY Zenon DEF Ask
<1>3. CASE ~should_ask(session)
  BY <1>1, <1>2, <1>3, Zenon DEF Waits
<1>4. CASE should_ask(session) /\ GivesUp(session)
  BY <1>1, <1>2, <1>4, Zenon DEF Resigns
<1>5. CASE should_ask(session) /\ ~GivesUp(session) /\ written
  BY <1>1, <1>2, <1>5, Zenon DEF Asks
<1>6. CASE should_ask(session) /\ ~GivesUp(session) /\ ~written
  BY <1>1, <1>2, <1>6, Zenon DEF FailsToAsk
<1>7. QED
  BY <1>3, <1>4, <1>5, <1>6

(* ----------------------------------------------------------------------- *)
(* The types.                                                              *)

LEMMA CalmBound ==
  /\ LongestCalm \in Nat /\ LongestCalm = NativeInterval + LongestDelay + 1
  /\ \A c \in 0..LongestCalm : UpTo(c + 1, LongestCalm) \in 0..LongestCalm
  BY DelaysAreNumbers DEF LongestCalm, UpTo

LEMMA SessionInit == Init => SessionInv
<1>1. ASSUME Init PROVE SessionInv
  <2>1. frame \in [1..MSG_SIZE -> 0..255]
    BY <1>1 DEF Init, EmptyFrame, MSG_SIZE
  <2>2. 0 \in 0..MostAbsentAsks /\ 0 \in 0..LongestCalm
    BY CalmBound, DelaysAreNumbers
  <2>3. QED
    BY <1>1, <2>1, <2>2 DEF Init, SessionInv, TypeOK, Link
<1>2. QED
  BY <1>1

\* What a question leaves is a session that may yet be asked.
LEMMA AskLeavesASession ==
  ASSUME NEW s \in Session, Waits(s) \/ Resigns(s) \/ Asks(s) \/ FailsToAsk(s),
         s.link = "Up" => s.unanswered < MaxUnanswered
  PROVE  /\ session' \in Session
         /\ session'.link = "Up" => session'.unanswered < MaxUnanswered
<1>1. Counted(s) \in Session /\ Counted(s).link = s.link
  BY CountedType
<1>2. ASSUME ~GivesUp(s), s.link = "Up" PROVE Counted(s).unanswered < MaxUnanswered
  <2>1. Counted(s).unanswered \in Nat
    BY <1>1, SessionParts
  <2>2. QED
    BY <1>2, <2>1, DelaysAreNumbers DEF GivesUp
<1>3. CASE Waits(s)
  BY <1>3 DEF Waits
<1>4. CASE Resigns(s)
  BY <1>4, GivenUpType, GivenUpIs DEF Resigns
<1>5. CASE Asks(s)
  BY <1>2, <1>5, AskedType, AskedIs DEF Asks
<1>6. CASE FailsToAsk(s)
  BY <1>1, <1>2, <1>6 DEF FailsToAsk
<1>7. QED
  BY <1>3, <1>4, <1>5, <1>6

LEMMA SessionStep == ReportInv /\ SessionInv /\ [Next]_vars => SessionInv'
<1>1. SUFFICES ASSUME ReportInv, SessionInv, [Next]_vars PROVE SessionInv'
  OBVIOUS
<1>2. frame' \in [1..MSG_SIZE -> 0..255]
  BY <1>1, ReportStep DEF ReportInv, Report
<1>3. /\ linked \in BOOLEAN /\ changed \in BOOLEAN /\ request \in BOOLEAN
      /\ session \in Session \cup {None} /\ last_link \in Link
      /\ absentAsks \in 0..MostAbsentAsks /\ calm \in 0..LongestCalm
      /\ fetched \in BOOLEAN /\ (fetched => session # None)
      /\ session # None /\ session.link = "Up" => session.unanswered < MaxUnanswered
  BY <1>1 DEF SessionInv, TypeOK
<1>4. 0 \in 0..MostAbsentAsks /\ 1 \in 0..MostAbsentAsks /\ 0 \in 0..LongestCalm
  BY CalmBound, DelaysAreNumbers
<1>5. CASE Switch
  BY <1>2, <1>3, <1>4, <1>5 DEF Switch, SessionInv, TypeOK
<1>6. CASE Reenumerate
  <2>1. last_link' \in Link /\ session' = None /\ fetched' = FALSE
    BY <1>3, <1>6, SessionParts DEF Reenumerate
  <2>2. QED
    BY <1>2, <1>3, <1>4, <1>6, <2>1 DEF Reenumerate, SessionInv, TypeOK
<1>7. CASE Respond
  BY <1>2, <1>3, <1>4, <1>7 DEF Respond, SessionInv, TypeOK
<1>8. CASE LoseRequest
  BY <1>2, <1>3, <1>4, <1>8 DEF LoseRequest, SessionInv, TypeOK
<1>9. CASE FetchFails
  <2>1. Opened \in Session /\ (Opened.link = "Up" => Opened.unanswered < MaxUnanswered)
    BY <1>3, OpenedIs
  <2>2. /\ session' = Opened /\ calm' = 0
        /\ ~fetched /\ fetched' = fetched
        /\ UNCHANGED <<linked, changed, request, last_link, absentAsks>>
    BY <1>9 DEF FetchFails, dongleVars
  <2>3. QED
    BY <1>2, <1>3, <1>4, <2>1, <2>2 DEF SessionInv, TypeOK
<1>10. CASE Listen
  <2>1. /\ session' \in Session /\ session' # None
        /\ session'.link = "Up" => session'.unanswered < MaxUnanswered
        /\ calm' = 0 \/ calm' = UpTo(calm + 1, LongestCalm)
        /\ fetched' \in BOOLEAN
        /\ UNCHANGED <<linked, changed, request, last_link, absentAsks>>
    BY <1>1, <1>10, ListenIs, SessionAssumption DEF Listen
  <2>2. calm' \in 0..LongestCalm
    BY <1>3, <1>4, <2>1, CalmBound
  <2>3. QED
    BY <1>2, <1>3, <2>1, <2>2 DEF SessionInv, TypeOK
<1>11. ASSUME NEW written \in BOOLEAN, Ask(written) PROVE SessionInv'
  <2> DEFINE s == session
  <2>1. /\ Waits(s) \/ Resigns(s) \/ Asks(s) \/ FailsToAsk(s)
        /\ s \in Session
        /\ s.link = "Up" => s.unanswered < MaxUnanswered
        /\ calm' = 0 \/ calm' = calm
        /\ fetched' = FALSE
        /\ UNCHANGED <<linked, changed, last_link>>
    BY <1>1, <1>11, AskIs DEF Ask
  <2>2. /\ session' \in Session
        /\ session'.link = "Up" => session'.unanswered < MaxUnanswered
    BY <2>1, AskLeavesASession
  <2>3. request' \in BOOLEAN
    BY <1>3, <2>1 DEF Waits, Resigns, Asks, FailsToAsk
  <2>4. absentAsks' \in 0..MostAbsentAsks
    <3>1. UpTo(absentAsks + 1, MostAbsentAsks) \in 0..MostAbsentAsks
      BY <1>3, DelaysAreNumbers DEF UpTo
    <3>2. QED
      BY <1>3, <2>1, <3>1 DEF Waits, Resigns, Asks, FailsToAsk
  <2>5. calm' \in 0..LongestCalm
    BY <1>3, <1>4, <2>1
  <2>6. QED
    BY <1>2, <1>3, <2>1, <2>2, <2>3, <2>4, <2>5 DEF SessionInv, TypeOK
<1>12. CASE UNCHANGED vars
  BY <1>1, <1>12 DEF vars, dongleVars, SessionInv, TypeOK
<1>13. QED
  BY <1>1, <1>5, <1>6, <1>7, <1>8, <1>9, <1>10, <1>11, <1>12 DEF Next

(* ----------------------------------------------------------------------- *)
(* A headset that is gone.                                                 *)

LEMMA AbsentInit == Init => AbsentInv
<1>1. ASSUME Init PROVE AbsentInv
  <2>1. absentAsks = 0 /\ ~Announced /\ ~Told
    BY <1>1 DEF Init, Nothing, Announced, Told
  <2>2. QED
    BY <2>1 DEF AbsentInv
<1>2. QED
  BY <1>1

LEMMA AtMostThree ==
  \A a \in Nat, b \in Nat, r \in 0..1, m \in 0..1, n \in 0..1 :
    /\ a <= 1 => a + r + m <= 3
    /\ a + r + m <= 3 /\ n <= m => a + r + n <= 3
    /\ a + 1 + m <= 3 => a + 0 + n <= 3
    /\ a + r + m <= 3 /\ m = 1 /\ n = 0 /\ b <= a + 1 => b + r + n <= 3
  OBVIOUS

LEMMA OneOrNone == Reopens \in 0..1 /\ MayAsk \in 0..1 /\ Reopens' \in 0..1 /\ MayAsk' \in 0..1
  BY DEF Reopens, MayAsk

\* A session that grows older believes what it was told, and has asked if it had.
LEMMA OpenedMayAsk ==
  ASSUME SessionInv, AbsentInv, ~linked, ~fetched, Opened.link = "Down" \/ Announced
  PROVE  absentAsks + Reopens + (IF Opened.askedAt = None THEN 1 ELSE 0) <= 3
<1>1. /\ session \in Session \cup {None} /\ last_link \in Link
      /\ session # None /\ session.link = "Up" => session.unanswered < MaxUnanswered
  BY DEF SessionInv, TypeOK
<1>2. /\ session = None => Opened.link = last_link /\ Opened.askedAt = None
      /\ session # None => /\ Opened.link = session.link
                           /\ Opened.askedAt = OlderBy1(session.askedAt, LongestDelay)
  BY <1>1, OpenedIs
<1>3. Told \/ Announced
  BY <1>2 DEF Told
<1>4. absentAsks + Reopens + MayAsk <= 3
  BY <1>3 DEF AbsentInv
<1>5. MayAsk = IF Opened.askedAt = None THEN 1 ELSE 0
  <2>1. CASE session = None
    BY <1>2, <2>1 DEF MayAsk
  <2>2. CASE session # None
    <3>1. session.askedAt # None => UpTo(session.askedAt + 1, LongestDelay) # None
      <4>1. session.askedAt # None => UpTo(session.askedAt + 1, LongestDelay) \in Int
        BY <1>1, <2>2, SessionParts, DelaysAreNumbers DEF UpTo
      <4>2. QED
        BY <4>1, AbsenceAssumption
    <3>2. QED
      BY <1>2, <2>2, <3>1 DEF OlderBy1, MayAsk
  <2>3. QED
    BY <2>1, <2>2
<1>6. QED
  BY <1>4, <1>5

LEMMA AbsentStep == ReportInv /\ SessionInv /\ AbsentInv /\ [Next]_vars => AbsentInv'
<1>1. SUFFICES ASSUME ReportInv, SessionInv, AbsentInv, [Next]_vars PROVE AbsentInv'
  OBVIOUS
<1>2. /\ linked \in BOOLEAN /\ changed \in BOOLEAN /\ absentAsks \in Nat
      /\ session \in Session \cup {None} /\ last_link \in Link
      /\ session # None /\ session.link = "Up" => session.unanswered < MaxUnanswered
  BY <1>1 DEF SessionInv, TypeOK
<1>3. /\ linked => absentAsks = 0
      /\ ~linked /\ (Told \/ Announced) => absentAsks + Reopens + MayAsk <= 3
  BY <1>1 DEF AbsentInv
<1>4. Reopens \in 0..1 /\ MayAsk \in 0..1 /\ Reopens' \in 0..1 /\ MayAsk' \in 0..1
  BY OneOrNone
<1>5. CASE Switch
  <2>1. absentAsks' \in Nat /\ absentAsks' <= 1 /\ (linked' => absentAsks' = 0)
    <3>1. linked' = ~linked /\ absentAsks' = IF request /\ linked THEN 1 ELSE 0
      BY <1>5 DEF Switch
    <3>2. linked' => absentAsks' = 0
      BY <3>1
    <3>3. absentAsks' = 0 \/ absentAsks' = 1
      BY <3>1
    <3>4. QED
      BY <3>2, <3>3
  <2>2. absentAsks' + Reopens' + MayAsk' <= 3
    BY <1>4, <2>1, AtMostThree, Zenon
  <2>3. QED
    BY <2>1, <2>2 DEF AbsentInv
<1>6. CASE Reenumerate
  <2>1. /\ changed /\ ~changed' /\ said' = Nothing /\ session' = None
        /\ absentAsks' = absentAsks /\ linked' = linked
        /\ last_link' = IF session = None THEN last_link ELSE session.link
    BY <1>6 DEF Reenumerate
  <2>2. Reopens = 1 /\ Reopens' = 0 /\ ~Announced' /\ Told' = Told
    BY <2>1 DEF Reopens, Announced, Told, Nothing
  <2>3. ~linked /\ Told => absentAsks + 1 + MayAsk <= 3
    BY <1>3, <2>2
  <2>4. ~linked /\ Told => absentAsks + 0 + MayAsk' <= 3
    BY <1>2, <1>4, <2>3, AtMostThree, Zenon
  <2>5. QED
    BY <1>3, <2>1, <2>2, <2>4 DEF AbsentInv
<1>7. CASE Respond
  <2>1. linked /\ linked' /\ absentAsks' = 0
    BY <1>3, <1>7 DEF Respond
  <2>2. QED
    BY <2>1 DEF AbsentInv
<1>8. ASSUME UNCHANGED <<linked, changed, fetched, session, last_link, said, absentAsks>>
      PROVE  AbsentInv'
  BY <1>1, <1>8 DEF AbsentInv, Announced, Told, Reopens, MayAsk
<1>9. CASE LoseRequest
  BY <1>8, <1>9 DEF LoseRequest
<1>10. CASE FetchFails
  <2>1. /\ session' = Opened /\ Opened # None /\ ~fetched /\ ~fetched'
        /\ linked' = linked /\ changed' = changed /\ absentAsks' = absentAsks
        /\ said' = Nothing \/ said' = said
    <3>1. Opened \in Session
      BY <1>2, OpenedIs
    <3>2. QED
      BY <1>10, <3>1, SessionAssumption DEF FetchFails, dongleVars, Emptied
  <2>2. /\ Reopens' = Reopens
        /\ MayAsk' = IF Opened.askedAt = None THEN 1 ELSE 0
        /\ Told' => Opened.link = "Down"
        /\ Announced' => Announced
    BY <2>1 DEF Reopens, MayAsk, Told, Announced, Nothing
  <2>3. ~linked /\ (Told' \/ Announced') => absentAsks + Reopens + MayAsk' <= 3
    BY <1>1, <2>1, <2>2, OpenedMayAsk
  <2>4. QED
    BY <1>3, <2>1, <2>2, <2>3 DEF AbsentInv
<1>11. CASE Listen
  <2>1. /\ session' \in Session /\ session' # None
        /\ session'.askedAt = Opened.askedAt
        /\ session'.link = "Down" => Opened.link = "Down" \/ Announced
        /\ ~fetched
        /\ UNCHANGED <<linked, changed, absentAsks>>
        /\ said' = Nothing
    BY <1>1, <1>11, ListenIs, SessionAssumption DEF Emptied
  <2>2. /\ Reopens' = Reopens /\ ~Announced'
        /\ MayAsk' = IF Opened.askedAt = None THEN 1 ELSE 0
        /\ Told' => Opened.link = "Down" \/ Announced
    BY <2>1 DEF Reopens, MayAsk, Told, Announced, Nothing
  <2>3. ~linked /\ Told' => absentAsks + Reopens + MayAsk' <= 3
    BY <1>1, <2>1, <2>2, OpenedMayAsk
  <2>4. QED
    BY <1>3, <2>1, <2>2, <2>3 DEF AbsentInv
<1>12. ASSUME NEW written \in BOOLEAN, Ask(written) PROVE AbsentInv'
  <2>1. /\ Waits(session) \/ Resigns(session) \/ Asks(session) \/ FailsToAsk(session)
        /\ session \in Session
        /\ session.link = "Up" => session.unanswered < MaxUnanswered
        /\ fetched /\ ~fetched'
        /\ UNCHANGED <<linked, changed, said, last_link>>
    BY <1>1, <1>12, AskIs
  <2>2. Reopens' = Reopens /\ Announced' = Announced /\ session # None /\ session' # None
    BY <2>1, AskLeavesASession, SessionAssumption DEF Reopens, Announced
  <2>3. CASE linked
    <3>1. linked' /\ absentAsks' = 0
      BY <1>3, <2>1, <2>3 DEF Waits, Resigns, Asks, FailsToAsk
    <3>2. QED
      BY <3>1 DEF AbsentInv
  <2>4. MayAsk' = IF session'.askedAt = None THEN 1 ELSE 0
    BY <2>1, <2>2 DEF MayAsk
  <2>5. 0 # None
    BY AbsenceAssumption
  <2>6. CASE ~linked
    <3>1. SUFFICES ASSUME Told' \/ Announced' PROVE absentAsks' + Reopens' + MayAsk' <= 3
      BY <2>1, <2>6 DEF AbsentInv
    <3>2. CASE Resigns(session)
      <4>1. /\ session'.link = "Unknown" /\ session'.askedAt = 0
            /\ absentAsks' = absentAsks
        BY <2>1, <3>2, GivenUpIs DEF Resigns
      <4>2. Announced /\ MayAsk' = 0
        BY <2>2, <2>4, <2>5, <3>1, <4>1 DEF Told
      <4>3. absentAsks + Reopens + MayAsk <= 3 /\ MayAsk' <= MayAsk
        BY <1>3, <1>4, <2>6, <4>2
      <4>4. QED
        BY <1>2, <1>4, <2>2, <4>1, <4>3, AtMostThree, Zenon
    <3>3. CASE ~Resigns(session)
      <4>1. session'.link = session.link
        BY <2>1, <3>3, CountedType, AskedType, Zenon DEF Waits, Asks, FailsToAsk
      <4>2. Told' = Told
        BY <2>2, <4>1 DEF Told
      <4>3. absentAsks + Reopens + MayAsk <= 3
        BY <1>3, <2>2, <2>6, <3>1, <4>2
      <4>4. CASE Asks(session)
        <5>1. MayAsk' = 0
          BY <2>1, <2>4, <2>5, <4>4, AskedIs DEF Asks
        <5>2. MayAsk = 1
          <6>1. CASE Announced
            BY <2>1, <6>1 DEF MayAsk
          <6>2. CASE ~Announced
            <7>1. session.link = "Down"
              BY <2>2, <3>1, <4>2, <6>2 DEF Told
            <7>2. should_ask(session)
              BY <4>4 DEF Asks
            <7>3. session.askedAt = None
              BY <7>1, <7>2 DEF should_ask
            <7>4. QED
              BY <7>3 DEF MayAsk
          <6>3. QED
            BY <6>1, <6>2
        <5>3. absentAsks' <= absentAsks + 1 /\ absentAsks' \in Nat
          BY <1>2, <2>6, <4>4, DelaysAreNumbers DEF Asks, UpTo
        <5>4. QED
          BY <1>2, <1>4, <2>2, <4>3, <5>1, <5>2, <5>3, AtMostThree, Zenon
      <4>5. CASE Waits(session) \/ FailsToAsk(session)
        <5>1. absentAsks' = absentAsks /\ session'.askedAt = session.askedAt
          BY <2>1, <4>5, CountedIs DEF Waits, FailsToAsk
        <5>2. MayAsk' <= MayAsk
          BY <2>4, <5>1 DEF MayAsk
        <5>3. QED
          BY <1>2, <1>4, <2>2, <4>3, <5>1, <5>2, AtMostThree, Zenon
      <4>6. QED
        BY <2>1, <3>3, <4>4, <4>5
    <3>4. QED
      BY <3>2, <3>3
  <2>7. QED
    BY <1>2, <2>3, <2>6
<1>13. CASE UNCHANGED vars
  BY <1>8, <1>13 DEF vars, dongleVars
<1>14. QED
  BY <1>1, <1>5, <1>6, <1>7, <1>9, <1>10, <1>11, <1>12, <1>13 DEF Next

\* Every variable keeps its type, the session among them, however often a headset
\* is asked and however long nothing changes (session.rs:88-300).
THEOREM DongleTypes == Spec => []TypeOK
<1>1. SessionInv => TypeOK
  BY DEF SessionInv
<1>2. QED
  BY <1>1, ReportInit, ReportStep, SessionInit, SessionStep, PTL DEF Spec

\* A headset that is gone, as the session was told, is left no more than one request
\* that was on its way as it left, one of the session that is told, on either side of
\* the announcement, and one of the session that the re-enumeration opens
\* (maxwell/mod.rs:40-62, 324-331, session.rs:269-274).
THEOREM GoneLeftAlone == Spec => []GoneIsLeftAlone
<1>1. SessionInv /\ AbsentInv => GoneIsLeftAlone
  <2>1. SUFFICES ASSUME SessionInv, AbsentInv, session # None, session.link = "Down", ~linked
                 PROVE  absentAsks <= 3
    BY DEF GoneIsLeftAlone
  <2>2. absentAsks \in Nat /\ Reopens \in 0..1 /\ MayAsk \in 0..1
    BY <2>1, OneOrNone DEF SessionInv, TypeOK
  <2>3. absentAsks + Reopens + MayAsk <= 3
    BY <2>1 DEF AbsentInv, Told
  <2>4. QED
    BY <2>2, <2>3
<1>2. QED
  BY <1>1, ReportInit, ReportStep, SessionInit, SessionStep, AbsentInit, AbsentStep, PTL DEF Spec

(* ----------------------------------------------------------------------- *)
(* A headset that was missed.                                              *)

\* An age that is not at its cap counts.
LEMMA AgeCounts ==
  ASSUME NEW age \in Nat, NEW cap \in Nat
  PROVE  /\ age < cap => UpTo(age + 1, cap) = age + 1
         /\ UpTo(age + 1, cap) \in Nat
         /\ cap > 0 => UpTo(age + 1, cap) >= 1
  BY DEF UpTo

\* The first poll counts on nothing.
LEMMA FirstPollReady ==
  ASSUME SessionInv, NEW s \in Session, s.askedAt = Opened.askedAt
  PROVE  Ready(s, 1)
<1>1. /\ session \in Session \cup {None} /\ last_link \in Link
      /\ session # None /\ session.link = "Up" => session.unanswered < MaxUnanswered
  BY DEF SessionInv, TypeOK
<1>2. s.askedAt # None => s.askedAt \in Nat /\ s.askedAt >= 1
  <2>1. CASE session = None
    BY <1>1, <2>1, OpenedIs
  <2>2. CASE session # None
    <3>1. session \in Session /\ s.askedAt = OlderBy1(session.askedAt, LongestDelay)
      BY <1>1, <2>2, OpenedIs
    <3>2. session.askedAt # None => session.askedAt \in Nat
      BY <3>1, SessionParts
    <3>3. session.askedAt # None => UpTo(session.askedAt + 1, LongestDelay) \in Nat
                                    /\ UpTo(session.askedAt + 1, LongestDelay) >= 1
      BY <3>2, AgeCounts, DelaysAreNumbers
    <3>4. QED
      BY <3>1, <3>3 DEF OlderBy1
  <2>3. QED
    BY <2>1, <2>2
<1>3. s.openedAt \in Nat
  BY SessionParts
<1>4. /\ 1 <= NativeInterval /\ 1 <= NativeInterval + LongestDelay /\ 1 <= s.openedAt + 1
      /\ s.askedAt # None => 1 <= s.askedAt /\ 1 <= s.askedAt + NativeInterval
  BY <1>2, <1>3, DelaysAreNumbers
<1>5. QED
  BY <1>4, Zenon DEF Ready

\* So does a poll that hears a level.
LEMMA LevelReady ==
  ASSUME NEW s, s.link = "Up", s.level # None, s.pending = FALSE, NEW c
  PROVE  Ready(s, c)
  BY DEF Ready

\* A poll that hears nothing counts on the one before.
LEMMA NextPollReady ==
  ASSUME SessionInv, CalmInv, linked, calm > 0, ~fetched, ~InFlight,
         NEW c \in Nat, c <= calm + 1
  PROVE  Ready(Opened, c)
<1>1. /\ session \in Session \cup {None} /\ last_link \in Link /\ calm \in Nat
      /\ session # None /\ session.link = "Up" => session.unanswered < MaxUnanswered
  BY CalmBound DEF SessionInv, TypeOK
<1>2. session # None
  BY DEF CalmInv
<1>3. /\ session.link = "Up" =>
           /\ session.askedAt # None /\ session.askedAt < NativeInterval
           /\ session.pending => calm <= session.askedAt
      /\ session.link # "Down" /\ session.level = None =>
           /\ session.askedAt = None => /\ session.openedAt < ListenFirst
                                        /\ calm <= session.openedAt + 1
           /\ session.askedAt # None => /\ session.askedAt < LongestDelay
                                        /\ calm <= session.askedAt + NativeInterval
  BY DEF CalmInv
<1>4. /\ Opened.link = session.link /\ Opened.level = session.level
      /\ Opened.pending = session.pending
      /\ Opened.openedAt = UpTo(session.openedAt + 1, ListenFirst)
      /\ Opened.askedAt = OlderBy1(session.askedAt, LongestDelay)
  BY <1>1, <1>2, OpenedIs
<1>5. /\ session.askedAt # None => session.askedAt \in Nat
      /\ session.openedAt \in Nat
  BY <1>1, <1>2, SessionParts
<1> DEFINE a == session.askedAt
           o == session.openedAt
<1>6. CASE session.link = "Up" /\ session.pending
  <2>1. a \in Nat /\ a < NativeInterval /\ calm <= a /\ a # None
    BY <1>3, <1>5, <1>6
  <2>2. Opened.askedAt = UpTo(a + 1, LongestDelay)
    BY <1>4, <2>1 DEF OlderBy1
  <2> HIDE DEF a
  <2>3. Opened.askedAt = a + 1
    BY <2>1, <2>2, AgeCounts, DelaysAreNumbers
  <2>4. c <= NativeInterval /\ c <= a + 1
    BY <1>1, <2>1, DelaysAreNumbers
  <2>5. c <= NativeInterval + LongestDelay /\ c <= (a + 1) + NativeInterval
    BY <1>1, <2>1, DelaysAreNumbers
  <2>6. Opened.link # "Unknown"
    BY <1>4, <1>6
  <2>7. QED
    BY <2>3, <2>4, <2>5, <2>6, Zenon DEF Ready
<1>7. CASE session.link # "Down" /\ session.level = None /\ session.askedAt = None
  <2>1. o \in Nat /\ o < ListenFirst /\ calm <= o + 1
    BY <1>3, <1>5, <1>7
  <2>2. Opened.openedAt = UpTo(o + 1, ListenFirst) /\ Opened.askedAt = None
        /\ Opened.link # "Up"
    BY <1>3, <1>4, <1>7 DEF OlderBy1
  <2> HIDE DEF o
  <2>3. Opened.openedAt = o + 1
    BY <2>1, <2>2, AgeCounts, DelaysAreNumbers
  <2>4. c <= NativeInterval + LongestDelay /\ c <= (o + 1) + 1
    BY <1>1, <2>1, DelaysAreNumbers
  <2>5. QED
    BY <2>2, <2>3, <2>4, Zenon DEF Ready
<1>8. CASE session.link # "Down" /\ session.level = None /\ session.askedAt # None
           /\ ~(session.link = "Up" /\ session.pending)
  <2>1. a \in Nat /\ a < LongestDelay /\ calm <= a + NativeInterval /\ a # None
    BY <1>3, <1>5, <1>8
  <2>2. Opened.askedAt = UpTo(a + 1, LongestDelay) /\ ~(Opened.link = "Up" /\ Opened.pending)
    BY <1>4, <1>8, <2>1 DEF OlderBy1
  <2> HIDE DEF a
  <2>3. Opened.askedAt = a + 1 /\ a + 1 # None
    BY <2>1, <2>2, AgeCounts, DelaysAreNumbers, AbsenceAssumption
  <2>4. c <= NativeInterval + LongestDelay /\ c <= (a + 1) + NativeInterval
    BY <1>1, <2>1, DelaysAreNumbers
  <2>5. QED
    BY <2>2, <2>3, <2>4, Zenon DEF Ready
<1>9. CASE /\ ~(session.link = "Up" /\ session.pending)
           /\ ~(session.link # "Down" /\ session.level = None)
  BY <1>4, <1>9 DEF Ready
<1>10. QED
  BY <1>6, <1>7, <1>8, <1>9

\* Every poll counts on what the one before left.
LEMMA PollReady ==
  ASSUME ReportInv, SessionInv, CalmInv, linked, ~request, ~fetched,
         NEW s, s = TakenIn(said)[Capacity], NEW c, c = UpTo(calm + 1, LongestCalm)
  PROVE  Ready(s, c)
<1>1. /\ session \in Session \cup {None} /\ last_link \in Link /\ calm \in Nat
      /\ session # None /\ session.link = "Up" => session.unanswered < MaxUnanswered
  BY CalmBound DEF SessionInv, TypeOK
<1>2. c \in Nat /\ c <= calm + 1
  BY <1>1, CalmBound DEF UpTo
<1>3. \A at \in DOMAIN said : at \in 1..52 /\ said[at] \in Message
  BY DEF ReportInv
<1>4. /\ Opened \in Session /\ (Opened.link = "Up" => Opened.unanswered < MaxUnanswered)
  BY <1>1, OpenedIs
<1>5. CASE calm = 0
  <2>1. c = 1
    BY <1>5, CalmBound, DelaysAreNumbers DEF UpTo
  <2>2. s \in Session /\ s.askedAt = Opened.askedAt
    BY <1>3, <1>4, TakenInType
  <2>3. QED
    BY <2>1, <2>2, FirstPollReady
<1>6. CASE calm > 0 /\ DOMAIN said = {}
  <2>1. s = Opened
    BY <1>6, TakenInNothing
  <2>2. QED
    BY <1>2, <1>6, <2>1, NextPollReady DEF InFlight
<1>7. CASE calm > 0 /\ DOMAIN said # {}
  <2>1. \A at \in DOMAIN said : said[at] \in Message /\ "battery" \in DOMAIN said[at]
    BY <1>3, <1>7 DEF CalmInv
  <2>2. DOMAIN said \subseteq 1..59
    BY <1>3
  <2>3. s.link = "Up" /\ s.level # None /\ s.pending = FALSE
    BY <1>4, <1>7, <2>1, <2>2, TakenInLevels
  <2>4. QED
    BY <2>3, LevelReady
<1>8. calm = 0 \/ calm > 0
  BY <1>1
<1>9. QED
  BY <1>5, <1>6, <1>7, <1>8, Zenon

\* What a poll that is ready leaves to the next one.
LEMMA PollLeaves ==
  ASSUME NEW s \in Session, NEW c \in Nat, Ready(s, c), ~request,
         s.link = "Up" => s.unanswered < MaxUnanswered,
         Waits(s) \/ Resigns(s) \/ Asks(s)
  PROVE  /\ request' => session'.askedAt # None
         /\ session'.link = "Up" =>
              /\ session'.askedAt # None
              /\ ~request' => session'.askedAt < NativeInterval
              /\ ~request' /\ session'.pending => c <= session'.askedAt
         /\ session'.link # "Down" /\ session'.level = None =>
              /\ request' => c <= NativeInterval + LongestDelay
              /\ ~request' /\ session'.askedAt = None =>
                   /\ session'.link = "Unknown" /\ session'.openedAt < ListenFirst
                   /\ c <= session'.openedAt + 1
              /\ ~request' /\ session'.askedAt # None =>
                   /\ session'.askedAt < LongestDelay
                   /\ c <= session'.askedAt + NativeInterval
<1>1. CASE Waits(s)
  <2>1. session' = s /\ ~request' /\ ~should_ask(s)
    BY <1>1 DEF Waits
  <2>2. /\ s.link \in Link
        /\ s.openedAt \in Nat
        /\ s.askedAt # None => s.askedAt \in Nat
    BY SessionParts
  <2>3. s.link = "Up" => s.askedAt # None /\ s.askedAt < NativeInterval
    BY <2>1, <2>2, DelaysAreNumbers DEF should_ask
  <2>4. s.link = "Unknown" /\ s.askedAt = None => s.openedAt < ListenFirst
    BY <2>1, <2>2, DelaysAreNumbers DEF should_ask
  <2>5. s.link = "Unknown" /\ s.askedAt # None => s.askedAt < LongestDelay
    <3>1. AskDelay(s.asks) \in 0..LongestDelay
      BY AskDelayBound
    <3>2. s.link = "Unknown" /\ s.askedAt # None => s.askedAt < AskDelay(s.asks)
      BY <2>1, <2>2, <3>1 DEF should_ask
    <3>3. QED
      BY <2>2, <3>1, <3>2, DelaysAreNumbers
  <2>6. s.link = "Up" => s.askedAt < LongestDelay
    BY <2>2, <2>3, DelaysAreNumbers
  <2>7. s.link # "Down" => s.link = "Up" \/ s.link = "Unknown"
    BY <2>2 DEF Link
  <2>8. QED
    BY <2>1, <2>3, <2>4, <2>5, <2>6, <2>7, Zenon DEF Ready
<1>2. CASE Resigns(s)
  <2>1. session' = GivenUp(s) /\ ~request' /\ GivesUp(s)
    BY <1>2 DEF Resigns
  <2>2. s.pending /\ s.link = "Up"
    <3>1. s.link = "Up" /\ Counted(s).unanswered >= MaxUnanswered
      BY <2>1 DEF GivesUp
    <3>2. s.unanswered < MaxUnanswered /\ s.unanswered \in Nat
      BY <3>1, SessionParts
    <3>3. ~s.pending => Counted(s).unanswered = s.unanswered
      BY CountedIs
    <3>4. QED
      BY <3>1, <3>2, <3>3, DelaysAreNumbers
  <2>3. c <= NativeInterval
    BY <2>2 DEF Ready
  <2>4. /\ session'.link = "Unknown" /\ session'.askedAt = 0 /\ 0 # None
        /\ session'.link # "Up"
    <3>1. 0 # None
      BY AbsenceAssumption
    <3>2. GivenUp(s).link = "Unknown" /\ GivenUp(s).askedAt = 0
      BY GivenUpIs
    <3>3. QED
      BY <2>1, <3>1, <3>2
  <2>5. 0 < LongestDelay /\ c <= 0 + NativeInterval
    BY <2>3, DelaysAreNumbers
  <2>6. QED
    BY <2>1, <2>4, <2>5, Zenon
<1>3. CASE Asks(s)
  <2>1. session' = Asked(s) /\ request'
    BY <1>3 DEF Asks
  <2>2. /\ session'.askedAt # None
        /\ session'.link = s.link /\ session'.level = s.level
    <3>1. 0 # None
      BY AbsenceAssumption
    <3>2. Asked(s).askedAt = 0 /\ Asked(s).link = s.link /\ Asked(s).level = s.level
      BY AskedIs, AskedType
    <3>3. QED
      BY <2>1, <3>1, <3>2, Zenon
  <2>3. QED
    BY <2>1, <2>2, Zenon DEF Ready
<1>4. QED
  BY <1>1, <1>2, <1>3

LEMMA CalmInit == Init => CalmInv
<1>1. ASSUME calm = 0 PROVE CalmInv
  BY <1>1 DEF CalmInv
<1>2. QED
  BY <1>1 DEF Init

\* An answer to a report that was fetched is all there is in it.
LEMMA AnswerAlone ==
  ASSUME NEW level \in Percent, Write(Answer(level)), Written(frame) = 0, DOMAIN said = {}
  PROVE  DOMAIN said' = {9} /\ said'[9] = [battery |-> level]
<1>1. Count = 0 /\ Capacity = 59 /\ Len(LINK_EVENT) = 7
  BY HeaderLengths DEF Count, Written, Capacity, MSG_SIZE, PAYLOAD_OFFSET
<1>2. DOMAIN Answer(level).says = {9} /\ Answer(level).says[9] = [battery |-> level]
  BY DEF Answer
<1> DEFINE heard == {at \in DOMAIN Answer(level).says : 0 + at + 7 <= 59}
<1>3. said' = [at \in DOMAIN said \cup {0 + h : h \in heard} |->
                 IF at \in DOMAIN said THEN said[at] ELSE Answer(level).says[at - 0]]
  BY <1>1, Zenon DEF Write
<1>4. heard = {9}
  BY <1>2
<1> HIDE DEF heard
<1>5. {0 + h : h \in heard} = {9} /\ 9 - 0 = 9
  BY <1>4
<1>6. QED
  BY <1>2, <1>3, <1>5

LEMMA CalmStep == ReportInv /\ SessionInv /\ CalmInv /\ [Next]_vars => CalmInv'
<1>1. SUFFICES ASSUME ReportInv, SessionInv, CalmInv, [Next]_vars PROVE CalmInv'
  OBVIOUS
<1>2. ASSUME calm' = 0 PROVE CalmInv'
  BY <1>2 DEF CalmInv
<1>3. CASE Switch
  BY <1>2, <1>3 DEF Switch
<1>4. CASE Reenumerate
  BY <1>2, <1>4 DEF Reenumerate
<1>5. CASE LoseRequest
  BY <1>2, <1>5 DEF LoseRequest
<1>6. CASE FetchFails
  BY <1>2, <1>6 DEF FetchFails
<1>7. CASE Respond
  <2>1. /\ request /\ ~request' /\ linked' = linked /\ session' = session /\ calm' = calm
        /\ fetched' = fetched
    BY <1>7 DEF Respond
  <2>2. CASE ~(linked /\ calm > 0)
    BY <1>1, <2>1, <2>2, Zenon DEF CalmInv
  <2>3. CASE linked /\ calm > 0
    <3>1. PICK level \in Percent : Write(Answer(level))
      BY <1>7 DEF Respond
    <3>2. ~fetched /\ DOMAIN said = {} /\ Written(frame) = 0
      BY <1>1, <2>1, <2>3 DEF CalmInv
    <3>3. DOMAIN said' = {9} /\ said'[9] = [battery |-> level]
      BY <3>1, <3>2, AnswerAlone
    <3>4. InFlight /\ InFlight' /\ \A at \in DOMAIN said' : "battery" \in DOMAIN said'[at]
      BY <2>1, <3>3 DEF InFlight
    <3>5. QED
      BY <1>1, <2>1, <2>3, <3>2, <3>4 DEF CalmInv
  <2>4. QED
    BY <2>2, <2>3
<1>8. CASE Listen
  <2> DEFINE c == UpTo(calm + 1, LongestCalm)
  <2>1. /\ session' = TakenIn(said)[Capacity] /\ session' # None
        /\ calm' = IF request THEN 0 ELSE c
        /\ linked' = linked /\ request' = request /\ ~fetched /\ fetched' /\ Emptied
    BY <1>1, <1>8, ListenIs, SessionAssumption
  <2>2. CASE calm' = 0 \/ ~linked
    BY <2>1, <2>2 DEF CalmInv
  <2>3. CASE calm' # 0 /\ linked
    <3>1. calm' = c /\ ~request
      BY <2>1, <2>3
    <3>2. DOMAIN said' = {} /\ Written(frame') = 0
      BY <1>1, <2>1, EmptiedHeard DEF Nothing
    <3>3. Ready(session', c)
      BY <1>1, <2>1, <2>3, <3>1, PollReady
    <3> HIDE DEF c
    <3>4. Ready(session', calm')
      BY <3>1, <3>3
    <3>5. Ready(session, calm)'
      BY <3>4, Zenon DEF Ready
    <3>6. QED
      BY <2>1, <3>1, <3>2, <3>5, Zenon DEF CalmInv
  <2>4. QED
    BY <2>2, <2>3
<1>9. ASSUME NEW written \in BOOLEAN, Ask(written) PROVE CalmInv'
  <2>1. /\ Waits(session) \/ Resigns(session) \/ Asks(session) \/ FailsToAsk(session)
        /\ session \in Session
        /\ session.link = "Up" => session.unanswered < MaxUnanswered
        /\ calm' = 0 \/ calm' = calm
        /\ linked' = linked /\ fetched /\ ~fetched' /\ frame' = frame /\ said' = said
    BY <1>1, <1>9, AskIs
  <2>2. CASE calm' = 0
    BY <1>2, <2>2
  <2>3. CASE calm' # 0
    <3>1. calm' = calm /\ (Waits(session) \/ Resigns(session) \/ Asks(session))
      BY <2>1, <2>3 DEF FailsToAsk
    <3>2. session' # None
      BY <2>1, AskLeavesASession, SessionAssumption
    <3>3. CASE ~linked
      BY <2>1, <3>2, <3>3 DEF CalmInv
    <3>4. CASE linked
      <4>1. calm \in Nat /\ calm > 0
        BY <1>1, <2>3, <3>1, CalmBound DEF SessionInv, TypeOK
      <4>2. ~request /\ DOMAIN said = {} /\ Written(frame) = 0 /\ Ready(session, calm)
        BY <1>1, <2>1, <3>4, <4>1 DEF CalmInv
      <4>3. DOMAIN said' = {} /\ Written(frame') = 0 /\ (InFlight' <=> request')
        BY <2>1, <4>2 DEF InFlight
      <4>4. /\ request' => session'.askedAt # None
            /\ session'.link = "Up" =>
                 /\ session'.askedAt # None
                 /\ ~request' => session'.askedAt < NativeInterval
                 /\ ~request' /\ session'.pending => calm <= session'.askedAt
            /\ session'.link # "Down" /\ session'.level = None =>
                 /\ request' => calm <= NativeInterval + LongestDelay
                 /\ ~request' /\ session'.askedAt = None =>
                      /\ session'.link = "Unknown" /\ session'.openedAt < ListenFirst
                      /\ calm <= session'.openedAt + 1
                 /\ ~request' /\ session'.askedAt # None =>
                      /\ session'.askedAt < LongestDelay
                      /\ calm <= session'.askedAt + NativeInterval
        BY <2>1, <3>1, <4>1, <4>2, PollLeaves
      <4>5. QED
        BY <2>1, <3>1, <3>2, <4>3, <4>4, Zenon DEF CalmInv
    <3>5. QED
      BY <3>3, <3>4
  <2>4. QED
    BY <2>2, <2>3
<1>10. CASE UNCHANGED vars
  BY <1>1, <1>10 DEF vars, dongleVars, CalmInv, InFlight, Ready
<1>11. QED
  BY <1>1, <1>3, <1>4, <1>5, <1>6, <1>7, <1>8, <1>9, <1>10 DEF Next

\* A linked headset that was missed, or whose level was, is handed out with its level
\* once nothing has been lost for as long as the session may give up and then wait:
\* for every interval, every list of extra questions and every bound on the requests
\* left unanswered (maxwell/mod.rs:55-59, session.rs:255-275).
THEOREM MissedFound == Spec => []MissedHeadsetsAreFound
<1>1. SessionInv /\ CalmInv => MissedHeadsetsAreFound
  <2>1. SUFFICES ASSUME SessionInv, CalmInv, linked, calm = LongestCalm, NEW wired \in BOOLEAN
                 PROVE  battery(session, wired).state # "Unavailable"
    BY DEF MissedHeadsetsAreFound
  <2>2. calm \in Nat /\ calm > 0 /\ calm = NativeInterval + LongestDelay + 1
    BY <2>1, CalmBound, DelaysAreNumbers
  <2>3. session \in Session
    BY <2>1, <2>2 DEF SessionInv, TypeOK, CalmInv
  <2>4. ~(session.link # "Down" /\ session.level = None)
    <3>1. SUFFICES ASSUME session.link # "Down", session.level = None PROVE FALSE
      OBVIOUS
    <3>2. /\ fetched \/ InFlight => calm <= NativeInterval + LongestDelay
          /\ ~fetched /\ ~InFlight /\ session.askedAt = None =>
               session.openedAt < ListenFirst /\ calm <= session.openedAt + 1
          /\ ~fetched /\ ~InFlight /\ session.askedAt # None =>
               session.askedAt < LongestDelay /\ calm <= session.askedAt + NativeInterval
      BY <2>1, <2>2, <3>1 DEF CalmInv, Ready
    <3>3. /\ session.openedAt \in Nat
          /\ session.askedAt # None => session.askedAt \in Nat
      BY <2>3, SessionParts
    <3>4. CASE fetched \/ InFlight
      BY <2>2, <3>2, <3>4, DelaysAreNumbers
    <3>5. CASE ~fetched /\ ~InFlight /\ session.askedAt = None
      BY <2>2, <3>2, <3>3, <3>5, DelaysAreNumbers
    <3>6. CASE ~fetched /\ ~InFlight /\ session.askedAt # None
      BY <2>2, <3>2, <3>3, <3>6, DelaysAreNumbers
    <3>7. QED
      BY <3>4, <3>5, <3>6
  <2>5. QED
    BY <2>4 DEF battery
<1>2. QED
  BY <1>1, ReportInit, ReportStep, SessionInit, SessionStep, CalmInit, CalmStep, PTL DEF Spec
=============================================================================
