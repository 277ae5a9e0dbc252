--------------------------- MODULE BatteriesProofs ---------------------------
(***************************************************************************)
(* The two vectors of Batteries stay in step, for every set of headsets,   *)
(* every bound and vectors of any length.  The walk of expire is a         *)
(* recursive function over its turns; what it leaves is proved by          *)
(* induction on the turns, as a fact about a set of natural numbers.       *)
(***************************************************************************)
EXTENDS Batteries, BridgeProofs, SequenceTheorems, WellFoundedInduction

(* ----------------------------------------------------------------------- *)
(* Induction.                                                              *)

\* Every set of natural numbers has a least element, unless it is empty.
LEMMA LeastElement ==
  ASSUME NEW T \in SUBSET Nat, T # {}
  PROVE  \E m \in T : \A n \in T : m <= n
<1>1. PICK m \in T : \A n \in T : <<n, m>> \notin OpToRel(<, Nat)
  BY WFMin, NatLessThanWellFounded, Zenon
<1>2. ASSUME NEW n \in T PROVE ~(n < m)
  BY <1>1, Zenon DEF OpToRel
<1>3. QED
  BY <1>2, SMT

\* A set of natural numbers with 0 and the successor of each of its elements up
\* to a bound reaches that bound.
LEMMA BoundedInduction ==
  ASSUME NEW bound \in Nat, NEW S, 0 \in S,
         \A n \in 0..(bound - 1) : n \in S => n + 1 \in S
  PROVE  \A n \in 0..bound : n \in S
<1> DEFINE T == {n \in 0..bound : n \notin S}
<1>1. SUFFICES ASSUME T # {} PROVE FALSE
  OBVIOUS
<1>2. T \in SUBSET Nat
  OBVIOUS
<1>3. PICK m \in T : \A n \in T : m <= n
  <2> HIDE DEF T
  <2> QED
    BY <1>1, <1>2, LeastElement
<1>4. m \in 0..bound /\ m # 0
  BY <1>3
<1>5. m - 1 \in 0..(bound - 1) /\ m - 1 \notin T
  BY <1>3, <1>4
<1>6. m - 1 \in S
  BY <1>4, <1>5
<1>7. m \in S
  BY <1>4, <1>5, <1>6
<1>8. QED
  BY <1>3, <1>7

(* ----------------------------------------------------------------------- *)
(* A vector with one element taken out.                                    *)

LEMMA RemoveAtProperties ==
  ASSUME NEW S, NEW s \in Seq(S), NEW i \in 1..Len(s)
  PROVE  /\ RemoveAt(s, i) \in Seq(S)
         /\ Len(RemoveAt(s, i)) = Len(s) - 1
         /\ \A j \in 1..(Len(s) - 1) :
              RemoveAt(s, i)[j] = IF j < i THEN s[j] ELSE s[j + 1]
<1> DEFINE front == SubSeq(s, 1, i - 1)
           back == SubSeq(s, i + 1, Len(s))
<1>1. Len(s) \in Nat /\ i \in Int
  BY LenProperties
<1>2. \A j \in 1..Len(s) : s[j] \in S
  BY ElementOfSeq
<1>3. /\ front \in Seq(S)
      /\ Len(front) = i - 1
      /\ \A j \in 1..(i - 1) : front[j] = s[j]
  <2>1. \A j \in 1..(i - 1) : s[j] \in S
    BY <1>1, <1>2
  <2>2. /\ front \in Seq(S)
        /\ Len(front) = IF 1 <= i - 1 THEN (i - 1) - 1 + 1 ELSE 0
        /\ \A j \in 1..((i - 1) - 1 + 1) : front[j] = s[1 + j - 1]
    BY <1>1, <2>1, SubSeqProperties
  <2> HIDE DEF front
  <2>3. QED
    BY <1>1, <2>2
<1>4. /\ back \in Seq(S)
      /\ Len(back) = Len(s) - i
      /\ \A j \in 1..(Len(s) - i) : back[j] = s[i + j]
  <2>1. \A j \in (i + 1)..Len(s) : s[j] \in S
    BY <1>1, <1>2
  <2>2. /\ back \in Seq(S)
        /\ Len(back) = IF i + 1 <= Len(s) THEN Len(s) - (i + 1) + 1 ELSE 0
        /\ \A j \in 1..(Len(s) - (i + 1) + 1) : back[j] = s[(i + 1) + j - 1]
    BY <1>1, <2>1, SubSeqProperties
  <2> HIDE DEF back
  <2>3. QED
    BY <1>1, <2>2
<1>5. RemoveAt(s, i) = front \o back
  BY DEF RemoveAt
<1> HIDE DEF front, back
<1>6. /\ front \o back \in Seq(S)
      /\ Len(front \o back) = Len(front) + Len(back)
      /\ \A j \in 1..(Len(front) + Len(back)) :
           (front \o back)[j] = IF j <= Len(front) THEN front[j]
                                                   ELSE back[j - Len(front)]
  BY <1>3, <1>4, ConcatProperties
<1>7. ASSUME NEW j \in 1..(Len(s) - 1)
      PROVE  RemoveAt(s, i)[j] = IF j < i THEN s[j] ELSE s[j + 1]
  <2>1. CASE j < i
    BY <1>1, <1>3, <1>4, <1>5, <1>6, <2>1
  <2>2. CASE ~(j < i)
    <3>1. j - (i - 1) \in 1..(Len(s) - i) /\ i + (j - (i - 1)) = j + 1
      BY <1>1, <2>2
    <3>2. back[j - (i - 1)] = s[j + 1]
      BY <1>4, <3>1
    <3>3. QED
      BY <1>1, <1>3, <1>4, <1>5, <1>6, <2>2, <3>2
  <2>3. QED
    BY <2>1, <2>2
<1>8. QED
  BY <1>1, <1>3, <1>4, <1>5, <1>6, <1>7

Elements(s) == {s[i] : i \in DOMAIN s}

\* A vector that holds everything once still does, and lacks what was taken out.
LEMMA RemoveAtElements ==
  ASSUME NEW S, NEW s \in Seq(S), NEW i \in 1..Len(s), IsInjective(s)
  PROVE  /\ IsInjective(RemoveAt(s, i))
         /\ Elements(RemoveAt(s, i)) = Elements(s) \ {s[i]}
<1> DEFINE r == RemoveAt(s, i)
<1>1. Len(s) \in Nat /\ DOMAIN s = 1..Len(s)
  BY LenProperties
<1>2. /\ r \in Seq(S)
      /\ Len(r) = Len(s) - 1
      /\ \A j \in 1..(Len(s) - 1) : r[j] = IF j < i THEN s[j] ELSE s[j + 1]
  BY RemoveAtProperties
<1> DEFINE from(a) == IF a < i THEN a ELSE a + 1
<1>s. \A a \in 1..(Len(s) - 1) :
        from(a) \in 1..Len(s) /\ from(a) # i /\ r[a] = s[from(a)]
  BY <1>1, <1>2
<1> HIDE DEF r, from
<1>3. DOMAIN r = 1..(Len(s) - 1)
  BY <1>2, LenProperties
<1>4. ASSUME NEW a \in 1..(Len(s) - 1), NEW b \in 1..(Len(s) - 1), r[a] = r[b]
      PROVE  a = b
  <2>1. from(a) = from(b)
    BY <1>1, <1>4, <1>s DEF IsInjective
  <2>2. QED
    BY <2>1, <1>1 DEF from
<1>5. ASSUME NEW a \in 1..(Len(s) - 1)
      PROVE  r[a] \in Elements(s) \ {s[i]}
  <2>1. from(a) \in 1..Len(s) /\ from(a) # i /\ r[a] = s[from(a)]
    BY <1>1, <1>s
  <2>2. r[a] # s[i]
    BY <1>1, <2>1 DEF IsInjective
  <2>3. QED
    BY <1>1, <2>1, <2>2 DEF Elements
<1>6. ASSUME NEW a \in 1..Len(s), a # i
      PROVE  s[a] \in Elements(r)
  <2>1. CASE a < i
    <3>1. a \in 1..(Len(s) - 1) /\ r[a] = s[a]
      BY <1>1, <1>2, <2>1
    <3>2. QED
      BY <1>3, <3>1 DEF Elements
  <2>2. CASE ~(a < i)
    <3>1. a - 1 \in 1..(Len(s) - 1) /\ ~(a - 1 < i) /\ (a - 1) + 1 = a
      BY <1>1, <1>6, <2>2
    <3>2. r[a - 1] = s[a]
      BY <1>2, <3>1
    <3>3. QED
      BY <1>3, <3>1, <3>2 DEF Elements
  <2>3. QED
    BY <2>1, <2>2
<1>7. IsInjective(r)
  BY <1>3, <1>4 DEF IsInjective
<1>8. Elements(r) \subseteq Elements(s) \ {s[i]}
  BY <1>3, <1>5 DEF Elements
<1>9. Elements(s) \ {s[i]} \subseteq Elements(r)
  BY <1>1, <1>6 DEF Elements
<1>10. QED
  BY <1>7, <1>8, <1>9 DEF r

(* ----------------------------------------------------------------------- *)
(* The walk of expire.                                                     *)

\* The first turns of a walk, up to the last one.
IsWalk(at, last, gone) ==
  at = [n \in 0..last |->
          IF n = 0 THEN [index |-> 1, devices |-> devices, states |-> states]
          ELSE IF at[n - 1].index > Len(at[n - 1].states) THEN at[n - 1]
          ELSE Turn(at[n - 1], gone)]

\* Every walk can go on by a turn.
LEMMA WalksExist ==
  ASSUME NEW bound \in Nat, NEW gone
  PROVE  \E at : IsWalk(at, bound, gone)
<1> DEFINE S == {n \in Nat : \E at : IsWalk(at, n, gone)}
<1>1. 0 \in S
  <2> DEFINE at == [n \in 0..0 |-> [index |-> 1, devices |-> devices, states |-> states]]
  <2>1. IsWalk(at, 0, gone)
    BY DEF IsWalk
  <2> HIDE DEF at
  <2>2. QED
    BY <2>1
<1>2. ASSUME NEW m \in Nat, m \in S
      PROVE  m + 1 \in S
  <2>1. PICK f : IsWalk(f, m, gone)
    BY <1>2
  <2> DEFINE next == IF f[m].index > Len(f[m].states) THEN f[m] ELSE Turn(f[m], gone)
             g == [n \in 0..(m + 1) |-> IF n <= m THEN f[n] ELSE next]
  <2>2. ASSUME NEW n \in 0..(m + 1)
        PROVE  g[n] = IF n = 0 THEN [index |-> 1, devices |-> devices, states |-> states]
                      ELSE IF g[n - 1].index > Len(g[n - 1].states) THEN g[n - 1]
                      ELSE Turn(g[n - 1], gone)
    <3> HIDE DEF next
    <3>1. CASE n = m + 1
      <4>1. g[n] = next /\ g[n - 1] = f[m] /\ n # 0
        BY <3>1
      <4>2. QED
        BY <4>1 DEF next
    <3>2. CASE n \in 1..m
      <4>1. g[n] = f[n] /\ g[n - 1] = f[n - 1] /\ n # 0 /\ n \in 0..m
        BY <3>2
      <4>2. f[n] = IF f[n - 1].index > Len(f[n - 1].states) THEN f[n - 1]
                   ELSE Turn(f[n - 1], gone)
        BY <2>1, <4>1 DEF IsWalk
      <4> HIDE DEF g
      <4>3. QED
        BY <4>1, <4>2
    <3>3. CASE n = 0
      <4>1. g[0] = f[0] /\ 0 \in 0..m
        OBVIOUS
      <4>2. f[0] = [index |-> 1, devices |-> devices, states |-> states]
        BY <2>1, <4>1 DEF IsWalk
      <4> HIDE DEF g
      <4>3. QED
        BY <3>3, <4>1, <4>2
    <3>4. QED
      BY <3>1, <3>2, <3>3
  <2>3. IsWalk(g, m + 1, gone)
    <3>1. g = [n \in 0..(m + 1) |-> g[n]]
      OBVIOUS
    <3> HIDE DEF g
    <3>2. QED
      BY <2>2, <3>1, Zenon DEF IsWalk
  <2>4. QED
    BY <2>3
<1>3. bound \in S
  <2> HIDE DEF S
  <2>1. \A n \in 0..(bound - 1) : n \in S => n + 1 \in S
    BY <1>2
  <2>2. QED
    BY <1>1, <2>1, BoundedInduction
<1>4. QED
  BY <1>3

\* The turns of expire are such a walk.
LEMMA TurnsAreAWalk ==
  ASSUME Len(states) \in Nat, NEW gone
  PROVE  LET at == turns(gone) IN
         /\ at[0] = [index |-> 1, devices |-> devices, states |-> states]
         /\ \A n \in 0..(Len(states) - 1) :
              at[n + 1] = IF at[n].index > Len(at[n].states) THEN at[n]
                          ELSE Turn(at[n], gone)
<1> DEFINE at == turns(gone)
<1>1. at = CHOOSE f : IsWalk(f, Len(states), gone)
  BY DEF turns, IsWalk
<1>2. IsWalk(at, Len(states), gone)
  BY <1>1, WalksExist
<1> HIDE DEF at
<1>3. at[0] = [index |-> 1, devices |-> devices, states |-> states]
  BY <1>2 DEF IsWalk
<1>4. ASSUME NEW n \in 0..(Len(states) - 1)
      PROVE  at[n + 1] = IF at[n].index > Len(at[n].states) THEN at[n]
                         ELSE Turn(at[n], gone)
  <2>1. n + 1 \in 0..Len(states) /\ n + 1 # 0 /\ (n + 1) - 1 = n
    BY <1>4
  <2>2. at[n + 1] = IF at[(n + 1) - 1].index > Len(at[(n + 1) - 1].states)
                    THEN at[(n + 1) - 1] ELSE Turn(at[(n + 1) - 1], gone)
    BY <1>2, <2>1 DEF IsWalk
  <2>3. QED
    BY <2>1, <2>2
<1>5. QED
  BY <1>3, <1>4 DEF at

\* What holds after n turns: both vectors hold the same, each once; nothing that
\* goes lies before the index, nothing that stays was taken out, and each turn
\* advanced the index or took an element out.
WalkInv(at, n, gone) ==
  /\ at \in [index : Nat, devices : Seq(Key), states : Seq(Key)]
  /\ at.devices = at.states
  /\ IsInjective(at.states)
  /\ at.index \in 1..(Len(at.states) + 1)
  /\ \A i \in 1..(at.index - 1) : at.states[i] \notin gone
  /\ Elements(at.states) \subseteq Elements(states)
  /\ Elements(states) \ gone \subseteq Elements(at.states)
  /\ \/ at.index = Len(at.states) + 1
     \/ at.index - 1 + Len(states) - Len(at.states) = n

\* One turn keeps it.
LEMMA TurnWalks ==
  ASSUME states \in Seq(Key), NEW gone, NEW n \in Nat, NEW at, WalkInv(at, n, gone),
         ~(at.index > Len(at.states))
  PROVE  WalkInv(Turn(at, gone), n + 1, gone)
<1> DEFINE s == at.states
           i == at.index
           then == Turn(at, gone)
<1>1. /\ s \in Seq(Key) /\ i \in 1..Len(s) /\ IsInjective(s)
      /\ Len(s) \in Nat /\ DOMAIN s = 1..Len(s) /\ Len(states) \in Nat
      /\ i - 1 + Len(states) - Len(s) = n
  BY LenProperties DEF WalkInv
<1>a. /\ at = [index |-> i, devices |-> s, states |-> s]
      /\ \A j \in 1..(i - 1) : s[j] \notin gone
      /\ Elements(s) \subseteq Elements(states)
      /\ Elements(states) \ gone \subseteq Elements(s)
  BY DEF WalkInv
<1> SUFFICES WalkInv(then, n + 1, gone)
  OBVIOUS
<1> HIDE DEF then, s, i
<1>t. then = IF s[i] \in gone
             THEN [index |-> i, devices |-> RemoveAt(s, i), states |-> RemoveAt(s, i)]
             ELSE [index |-> i + 1, devices |-> s, states |-> s]
  <2>1. at.index = i /\ at.states = s /\ at.devices = s
    BY <1>a
  <2>2. CASE s[i] \in gone
    <3>1. then = [at EXCEPT !.devices = RemoveAt(@, at.index),
                            !.states = RemoveAt(@, at.index)]
      BY <2>1, <2>2, Zenon DEF Turn, then
    <3> DEFINE r == RemoveAt(s, i)
    <3>2. r = RemoveAt(at.devices, at.index) /\ r = RemoveAt(at.states, at.index)
      BY <2>1
    <3> HIDE DEF r
    <3>3. then = [index |-> i, devices |-> r, states |-> r]
      BY <1>a, <3>1, <3>2
    <3>4. QED
      BY <2>2, <3>3 DEF r
  <2>3. CASE s[i] \notin gone
    <3>1. then = [at EXCEPT !.index = i + 1]
      BY <2>1, <2>3 DEF Turn, then
    <3>2. QED
      BY <1>a, <2>3, <3>1
  <2>4. QED
    BY <2>2, <2>3
<1>n. /\ i \in Int /\ 1 <= i /\ i <= Len(s)
      /\ Len(s) \in Int /\ Len(states) \in Int
      /\ i - 1 + Len(states) - Len(s) = n
  BY <1>1
<1>2. CASE s[i] \in gone
  <2> DEFINE r == RemoveAt(s, i)
  <2>1. /\ r \in Seq(Key)
        /\ Len(r) = Len(s) - 1
        /\ \A j \in 1..(Len(s) - 1) : r[j] = IF j < i THEN s[j] ELSE s[j + 1]
    BY <1>1, RemoveAtProperties
  <2>2. IsInjective(r) /\ Elements(r) = Elements(s) \ {s[i]}
    BY <1>1, RemoveAtElements
  <2> HIDE DEF r
  <2>3. then = [index |-> i, devices |-> r, states |-> r]
    BY <1>2, <1>t DEF r
  <2>4. \A j \in 1..(i - 1) : r[j] \notin gone
    <3>1. ASSUME NEW j \in 1..(i - 1)
          PROVE  j \in 1..(Len(s) - 1) /\ j < i
      BY <1>1
    <3>2. QED
      BY <1>a, <2>1, <3>1
  <2>5. i \in 1..(Len(r) + 1) /\ i - 1 + Len(states) - Len(r) = n + 1
    <3>1. Len(r) = Len(s) - 1
      BY <2>1
    <3>2. QED
      BY <1>n, <3>1
  <2>6. /\ Elements(r) \subseteq Elements(states)
        /\ Elements(states) \ gone \subseteq Elements(r)
    BY <1>2, <1>a, <2>2
  <2>7. i \in Nat
    BY <1>n
  <2>8. QED
    <3>1. /\ then \in [index : Nat, devices : Seq(Key), states : Seq(Key)]
          /\ then.index = i /\ then.devices = r /\ then.states = r
      BY <2>1, <2>3, <2>7
    <3>2. QED
      BY <2>2, <2>4, <2>5, <2>6, <3>1 DEF WalkInv
<1>3. CASE s[i] \notin gone
  <2>1. then = [index |-> i + 1, devices |-> s, states |-> s]
    BY <1>3, <1>t
  <2>2. \A j \in 1..((i + 1) - 1) : s[j] \notin gone
    BY <1>1, <1>3, <1>a
  <2>3. /\ i + 1 \in 1..(Len(s) + 1)
        /\ (i + 1) - 1 + Len(states) - Len(s) = n + 1
        /\ i + 1 \in Nat
    BY <1>n
  <2>4. /\ Elements(s) \subseteq Elements(states)
        /\ Elements(states) \ gone \subseteq Elements(s)
    BY <1>a
  <2>5. QED
    <3>1. /\ then \in [index : Nat, devices : Seq(Key), states : Seq(Key)]
          /\ then.index = i + 1 /\ then.devices = s /\ then.states = s
      BY <1>1, <2>1, <2>3
    <3>2. QED
      BY <1>1, <2>2, <2>3, <2>4, <3>1 DEF WalkInv
<1>4. QED
  BY <1>2, <1>3

\* The walk takes out what goes and leaves what stays, the same in both vectors.
LEMMA ExpireTakesOut ==
  ASSUME states \in Seq(Key), devices = states, IsInjective(states),
         NEW gone, expire(gone)
  PROVE  /\ states' \in Seq(Key) /\ devices' = states'
         /\ IsInjective(states')
         /\ Elements(states') = Elements(states) \ gone
<1> DEFINE at == turns(gone)
           S == {n \in Nat : WalkInv(at[n], n, gone)}
<1>1. Len(states) \in Nat /\ DOMAIN states = 1..Len(states)
  BY LenProperties
<1>2. /\ at[0] = [index |-> 1, devices |-> devices, states |-> states]
      /\ \A n \in 0..(Len(states) - 1) :
           at[n + 1] = IF at[n].index > Len(at[n].states) THEN at[n]
                       ELSE Turn(at[n], gone)
  BY <1>1, TurnsAreAWalk
<1> HIDE DEF at
<1>3. 0 \in S
  BY <1>1, <1>2 DEF WalkInv
<1>4. ASSUME NEW n \in 0..(Len(states) - 1), n \in S
      PROVE  n + 1 \in S
  <2>1. WalkInv(at[n], n, gone) /\ n \in Nat
    BY <1>4
  <2>2. CASE at[n].index > Len(at[n].states)
    <3>1. at[n + 1] = at[n]
      BY <1>2, <2>2
    <3>2. Len(at[n].states) \in Nat
      BY <2>1, LenProperties DEF WalkInv
    <3>3. at[n].index = Len(at[n].states) + 1
      BY <2>1, <2>2, <3>2 DEF WalkInv
    <3>4. WalkInv(at[n], n + 1, gone)
      BY <2>1, <3>3 DEF WalkInv
    <3>5. QED
      BY <2>1, <3>1, <3>4
  <2>3. CASE ~(at[n].index > Len(at[n].states))
    BY <1>2, <2>1, <2>3, TurnWalks
  <2>4. QED
    BY <2>2, <2>3
<1>5. Len(states) \in S
  <2> HIDE DEF S
  <2>1. \A n \in 0..(Len(states) - 1) : n \in S => n + 1 \in S
    BY <1>4
  <2>2. \A n \in 0..Len(states) : n \in S
    BY <1>1, <1>3, <2>1, BoundedInduction
  <2>3. QED
    BY <1>1, <2>2
<1> DEFINE end == at[Len(states)]
<1>6. WalkInv(end, Len(states), gone)
  BY <1>5
<1> HIDE DEF end
<1>7. devices' = end.devices /\ states' = end.states
  BY DEF expire, at, end
<1>8. end.states \in Seq(Key) /\ Len(end.states) \in Nat
      /\ DOMAIN end.states = 1..Len(end.states)
  BY <1>6, LenProperties DEF WalkInv
<1>9. end.index = Len(end.states) + 1
  BY <1>1, <1>6, <1>8 DEF WalkInv
<1>10. \A x \in Elements(end.states) : x \notin gone
  BY <1>6, <1>8, <1>9 DEF WalkInv, Elements
<1>11. Elements(end.states) = Elements(states) \ gone
  BY <1>6, <1>10 DEF WalkInv
<1>12. QED
  BY <1>6, <1>7, <1>8, <1>11 DEF WalkInv

(* ----------------------------------------------------------------------- *)
(* The bridge's entries.                                                   *)

\* A poll of h touches the entry of its key alone, and makes one only as it
\* attaches it.
LEMMA ApplyTouchesOne ==
  ASSUME TypeOK, NEW h \in Headset,
         \/ ApplyUnavailable(h) \/ ApplyDisconnected(h) \/ ApplyNoLevelYet(h)
         \/ ApplyNotNow(h) \/ AttachFails(h) \/ AttachGivesUp(h)
         \/ \E report \in Report(KeyOf[h]) :
              \/ ApplyDeferred(h, report) \/ ApplyUnchanged(h, report)
              \/ ApplyPushed(h, report) \/ ApplyPushFails(h, report)
  PROVE  Attached' = Attached \/ (KeyOf[h] \in Attached /\ battery'[KeyOf[h]] = None
                                  /\ Attached' = Attached \ {KeyOf[h]})
<1> DEFINE k == KeyOf[h]
<1>k. k \in Key
  BY KeyAssumption
<1> SUFFICES \E c : /\ battery' = [battery EXCEPT ![k] = c]
                    /\ k \notin Attached => c = None
  BY <1>k DEF Attached, TypeOK
<1>0. \A b : Strike(k, b) => \E c : battery' = [battery EXCEPT ![k] = c]
  BY DEF Strike, release
<1>s. battery = [battery EXCEPT ![k] = battery[k]]
  BY DEF TypeOK
<1>1. CASE ApplyUnavailable(h)
  BY <1>1, <1>k DEF ApplyUnavailable, Seen, Attached
<1>2. CASE ApplyDisconnected(h)
  <2>1. CASE k \notin Attached
    BY <1>2, <1>k, <1>s, <2>1 DEF ApplyDisconnected, Attached
  <2>2. CASE k \in Attached
    BY <1>2, <2>2 DEF ApplyDisconnected, release
  <2>3. QED
    BY <2>1, <2>2
<1>3. CASE ApplyNoLevelYet(h) \/ ApplyNotNow(h) \/ AttachFails(h) \/ AttachGivesUp(h)
  BY <1>3, <1>k, <1>s DEF ApplyNoLevelYet, ApplyNotNow, AttachFails, AttachGivesUp, Attached
<1>4. ASSUME NEW report \in Report(k),
             \/ ApplyDeferred(h, report) \/ ApplyUnchanged(h, report)
             \/ ApplyPushed(h, report) \/ ApplyPushFails(h, report)
      PROVE  k \in Attached /\ \E c : battery' = [battery EXCEPT ![k] = c]
  BY <1>4, <1>0 DEF ApplyDeferred, ApplyUnchanged, ApplyPushed, ApplyPushFails
<1>5. QED
  BY <1>1, <1>2, <1>3, <1>4

\* A strike is the end of one entry, or of none.
LEMMA StrikeTouchesOne ==
  ASSUME TypeOK, NEW k \in Attached, Strike(k, battery[k])
  PROVE  Attached' = IF battery'[k] = None THEN Attached \ {k} ELSE Attached
  BY DEF Strike, release, Attached, TypeOK

\* A sweep ends the entries it finds expired, and no other.
LEMMA SweepTakesOut ==
  ASSUME TypeOK, Sweep
  PROVE  Attached' = Attached \ Expired
<1>1. PICK spent \in 0..MaxTick : SweepAfter(spent)
  BY DEF Sweep
<1>2. spent \in Nat
  BY DurationAssumption
<1>3. ASSUME NEW k \in Key, battery'[k] # None
      PROVE  k \in Attached \ Expired
  BY <1>1, <1>3 DEF SweepAfter, PassTime, Swept
<1>4. ASSUME NEW k \in Attached \ Expired
      PROVE  k \in Key /\ battery'[k] # None
  <2>1. k \in Key /\ Noted(battery[k]) \in VirtualBattery
    BY AnsweredType, NotedType
  <2>2. Aged(Noted(battery[k]), spent) \in VirtualBattery
    BY <1>2, <2>1, AgedType
  <2>3. Swept[k] = Noted(battery[k]) /\ Noted(battery[k]) # None
    BY <2>1, BatteryAssumption DEF Swept
  <2>4. battery'[k] = Aged(Noted(battery[k]), spent)
    BY <1>1, <2>1, <2>3 DEF SweepAfter, PassTime
  <2>5. QED
    BY <2>1, <2>2, <2>4, BatteryAssumption
<1>5. QED
  BY <1>3, <1>4 DEF Attached

\* Time passes for the entries, and leaves them entries.
LEMMA ElapseKeeps ==
  ASSUME TypeOK, Elapse
  PROVE  Attached' = Attached
<1>1. ASSUME NEW k \in Attached
      PROVE  battery'[k] # None
  <2>1. Aged(battery[k], 1) \in VirtualBattery
    BY AnsweredType, AgedType
  <2>2. QED
    BY <2>1, BatteryAssumption DEF Elapse, PassTime, Attached
<1>2. QED
  BY <1>1 DEF Elapse, PassTime, Attached

(* ----------------------------------------------------------------------- *)
(* Both vectors, in step with the entries.                                 *)

VectorInv ==
  /\ states \in Seq(Key)
  /\ devices = states
  /\ IsInjective(states)
  /\ Elements(states) = Attached

\* An entry is found at one index.
LEMMA PositionFound ==
  ASSUME VectorInv, NEW k \in Attached
  PROVE  position(k) \in 1..Len(states) /\ states[position(k)] = k
<1>1. DOMAIN states = 1..Len(states)
  BY LenProperties DEF VectorInv
<1>2. \E i \in DOMAIN states : states[i] = k
  BY DEF VectorInv, Elements
<1>3. QED
  BY <1>1, <1>2 DEF position

\* A vector without its i-th element holds what is left.
LEMMA RemoveInStep ==
  ASSUME VectorInv, NEW i \in 1..Len(states), remove(i),
         Attached' = Attached \ {states[i]}
  PROVE  VectorInv'
<1>1. RemoveAt(states, i) \in Seq(Key)
  BY RemoveAtProperties DEF VectorInv
<1>2. /\ IsInjective(RemoveAt(states, i))
      /\ Elements(RemoveAt(states, i)) = Elements(states) \ {states[i]}
  BY RemoveAtElements DEF VectorInv
<1>3. devices' = RemoveAt(states, i) /\ states' = RemoveAt(states, i)
  BY DEF remove, VectorInv
<1>4. QED
  BY <1>1, <1>2, <1>3 DEF VectorInv

\* A vector with a new element at its end holds one more.
LEMMA PushInStep ==
  ASSUME VectorInv, NEW k \in Key, k \notin Attached, push(k),
         Attached' = Attached \cup {k}
  PROVE  VectorInv'
<1> DEFINE r == Append(states, k)
<1>1. /\ states \in Seq(Key) /\ Len(states) \in Nat
      /\ DOMAIN states = 1..Len(states)
  BY LenProperties DEF VectorInv
<1>2. /\ r \in Seq(Key) /\ Len(r) = Len(states) + 1
      /\ \A i \in 1..Len(states) : r[i] = states[i]
      /\ r[Len(states) + 1] = k
  BY <1>1, AppendProperties
<1>3. devices' = r /\ states' = r
  BY DEF push, VectorInv
<1> HIDE DEF r
<1>4. DOMAIN r = 1..(Len(states) + 1)
  BY <1>1, <1>2, LenProperties
<1>5. \A i \in 1..Len(states) : states[i] # k
  BY <1>1 DEF VectorInv, Elements
<1>6. IsInjective(r)
  <2> SUFFICES ASSUME NEW a \in DOMAIN r, NEW b \in DOMAIN r, r[a] = r[b]
               PROVE  a = b
    BY DEF IsInjective
  <2>1. CASE a \in 1..Len(states) /\ b \in 1..Len(states)
    BY <1>1, <1>2, <2>1 DEF VectorInv, IsInjective
  <2>2. CASE a = Len(states) + 1 /\ b \in 1..Len(states)
    BY <1>2, <1>5, <2>2
  <2>3. CASE a \in 1..Len(states) /\ b = Len(states) + 1
    BY <1>2, <1>5, <2>3
  <2>4. QED
    BY <1>1, <1>4, <2>1, <2>2, <2>3
<1>7. Elements(r) = Elements(states) \cup {k}
  <2>1. ASSUME NEW i \in DOMAIN r
        PROVE  r[i] \in Elements(states) \cup {k}
    <3>1. CASE i \in 1..Len(states)
      BY <1>1, <1>2, <3>1 DEF Elements
    <3>2. CASE i = Len(states) + 1
      BY <1>2, <3>2
    <3>3. QED
      BY <1>1, <1>4, <3>1, <3>2
  <2>2. ASSUME NEW i \in 1..Len(states)
        PROVE  states[i] \in Elements(r)
    <3>1. i \in DOMAIN r
      BY <1>1, <1>4
    <3>2. QED
      BY <1>2, <3>1 DEF Elements
  <2>3. k \in Elements(r)
    BY <1>1, <1>2, <1>4 DEF Elements
  <2>4. QED
    BY <1>1, <2>1, <2>2, <2>3 DEF Elements
<1>8. QED
  BY <1>2, <1>3, <1>6, <1>7 DEF VectorInv

\* The entry of one headset, and the vectors.
LEMMA ApplyInStep ==
  ASSUME TypeOK, VectorInv, NEW h \in Headset, VectorApply(h)
  PROVE  VectorInv'
<1> DEFINE k == KeyOf[h]
<1>k. k \in Key
  BY KeyAssumption
<1>1. ASSUME NEW reading \in Reading, AttachSucceeds(h, reading), push(k)
      PROVE  VectorInv'
  <2>1. Fresh(reading) # None
    BY FreshType, BatteryAssumption
  <2>2. k \notin Attached /\ Attached' = Attached \cup {k}
    BY <1>1, <1>k, <2>1 DEF AttachSucceeds, Attached, TypeOK
  <2>3. QED
    BY <1>1, <1>k, <2>2, PushInStep
<1>2. ASSUME \/ ApplyUnavailable(h) \/ ApplyDisconnected(h) \/ ApplyNoLevelYet(h)
             \/ ApplyNotNow(h) \/ AttachFails(h) \/ AttachGivesUp(h)
             \/ \E report \in Report(k) :
                  \/ ApplyDeferred(h, report) \/ ApplyUnchanged(h, report)
                  \/ ApplyPushed(h, report) \/ ApplyPushFails(h, report),
             KeptOrRemoved(k)
      PROVE  VectorInv'
  <2>1. Attached' = Attached \/ (k \in Attached /\ battery'[k] = None
                                 /\ Attached' = Attached \ {k})
    BY <1>2, ApplyTouchesOne
  <2>2. CASE k \in Attached /\ battery'[k] = None
    <3>1. remove(position(k))
      BY <1>2, <2>2 DEF KeptOrRemoved
    <3>2. position(k) \in 1..Len(states) /\ states[position(k)] = k
      BY <2>2, PositionFound
    <3>3. k \notin Attached'
      BY <2>2 DEF Attached
    <3>4. Attached' = Attached \ {k}
      BY <2>1, <2>2, <3>3
    <3>5. QED
      BY <3>1, <3>2, <3>4, RemoveInStep
  <2>3. CASE ~(k \in Attached /\ battery'[k] = None)
    BY <1>2, <2>1, <2>3 DEF KeptOrRemoved, vectors, VectorInv
  <2>4. QED
    BY <2>2, <2>3
<1>3. QED
  BY <1>1, <1>2 DEF VectorApply

LEMMA StepInStep ==
  ASSUME TypeOK, VectorInv, [VectorNext]_<<vars, vectors>>
  PROVE  VectorInv'
<1>1. ASSUME NEW h \in Headset, VectorApply(h)
      PROVE  VectorInv'
  BY <1>1, ApplyInStep
<1>2. CASE Sweep /\ expire(Expired)
  <2>1. Attached' = Attached \ Expired
    BY <1>2, SweepTakesOut
  <2>2. /\ states' \in Seq(Key) /\ devices' = states' /\ IsInjective(states')
        /\ Elements(states') = Elements(states) \ Expired
    BY <1>2, ExpireTakesOut DEF VectorInv
  <2>3. QED
    BY <2>1, <2>2 DEF VectorInv
<1>3. ASSUME NEW i \in DOMAIN devices, VectorServeFails(i)
      PROVE  VectorInv'
  <2>1. i \in 1..Len(states) /\ states[i] \in Attached
    BY LenProperties DEF VectorInv, Elements
  <2>2. Strike(states[i], battery[states[i]])
    BY <1>3 DEF VectorServeFails, ServeFails
  <2>3. Attached' = IF battery'[states[i]] = None THEN Attached \ {states[i]}
                                                  ELSE Attached
    BY <2>1, <2>2, StrikeTouchesOne
  <2>4. CASE battery'[states[i]] = None
    BY <1>3, <2>1, <2>3, <2>4, RemoveInStep DEF VectorServeFails
  <2>5. CASE battery'[states[i]] # None
    BY <1>3, <2>3, <2>5 DEF VectorServeFails, vectors, VectorInv
  <2>6. QED
    BY <2>4, <2>5
<1>4. CASE (Shutdown \/ WaitFails) /\ drain
  <2>1. Attached' = {}
    BY <1>4 DEF Shutdown, WaitFails, Attached
  <2>2. devices' = <<>> /\ states' = <<>>
    BY <1>4 DEF drain
  <2>3. <<>> \in Seq(Key) /\ Len(<<>>) = 0
    BY EmptySeq
  <2>4. DOMAIN <<>> = {}
    BY <2>3, LenProperties
  <2>5. IsInjective(<<>>) /\ Elements(<<>>) = {}
    BY <2>4 DEF IsInjective, Elements
  <2>6. QED
    BY <2>1, <2>2, <2>3, <2>5 DEF VectorInv
<1>5. CASE (Poll \/ Elapse \/ RaiseStop \/ Restart \/ Terminated) /\ UNCHANGED vectors
  <2>1. Attached' = Attached
    <3>1. CASE Elapse
      BY <3>1, ElapseKeeps
    <3>2. CASE Poll \/ RaiseStop \/ Restart \/ Terminated
      BY <3>2 DEF Poll, RaiseStop, Restart, Terminated, vars, Attached
    <3>3. QED
      BY <1>5, <3>1, <3>2
  <2>2. QED
    BY <1>5, <2>1 DEF vectors, VectorInv
<1>6. CASE UNCHANGED <<vars, vectors>>
  BY <1>6 DEF vars, vectors, VectorInv, Attached
<1>7. QED
  BY <1>1, <1>2, <1>3, <1>4, <1>5, <1>6 DEF VectorNext

\* Each step of the vectors is one of the bridge.
LEMMA VectorIsBridge == [VectorNext]_<<vars, vectors>> => [Next]_vars
<1>1. ASSUME NEW h \in Headset, VectorApply(h)
      PROVE  Apply(h)
  BY <1>1 DEF VectorApply, Apply
<1>2. ASSUME NEW i \in DOMAIN devices, VectorServeFails(i)
      PROVE  \E k \in Key : ServeFails(k)
  BY <1>2 DEF VectorServeFails, ServeFails, Attached
<1>3. QED
  BY <1>1, <1>2 DEF VectorNext, Next

\* The two vectors hold the batteries of the same keys, in the same order and each
\* once, whatever the number of headsets: the index that serve_all blames and the
\* one position finds always name the entry that is meant, and the walk of expire
\* over vectors that shrink under it misses none
\* (src/src/bridge/batteries.rs:47-51, src/src/bridge/mod.rs:753-778).
THEOREM VectorsStayInStep == VectorSpec => []VectorsAreInStep
<1>1. Init /\ NoDevices => VectorInv
  <2> SUFFICES ASSUME Init, NoDevices
               PROVE  VectorInv
    OBVIOUS
  <2>1. <<>> \in Seq(Key) /\ Len(<<>>) = 0
    BY EmptySeq
  <2>2. DOMAIN <<>> = {}
    BY <2>1, LenProperties
  <2>3. IsInjective(<<>>) /\ Elements(<<>>) = {}
    BY <2>2 DEF IsInjective, Elements
  <2>4. QED
    BY <2>1, <2>3 DEF Init, NoDevices, VectorInv, Attached
<1>2. VectorSpec => []TypeOK
  <2>1. VectorSpec => Spec
    BY VectorIsBridge, PTL DEF VectorSpec, Spec
  <2>2. QED
    BY <2>1, TypeCorrect, PTL
<1>3. TypeOK /\ VectorInv /\ [VectorNext]_<<vars, vectors>> => VectorInv'
  BY StepInStep
<1>4. VectorInv => VectorsAreInStep
  BY DEF VectorInv, VectorsAreInStep, Elements
<1>5. QED
  BY <1>1, <1>2, <1>3, <1>4, PTL DEF VectorSpec
=============================================================================
