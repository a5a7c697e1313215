------------------------- MODULE NotifierQueueProofs -------------------------
(***************************************************************************)
(* Proofs about the queues of Notifier, for every set of calls, bound of   *)
(* the queue and order of sends, failures, deaths and restarts: an event   *)
(* that waits is in one place only, and shutdown() leaves none untried of  *)
(* those that were queued in time.                                         *)
(***************************************************************************)
EXTENDS Notifier, SequenceTheorems, FiniteSetTheorems, TLAPS

(***************************************************************************)
(* What AtPositions makes of a sequence.  The ranks of the positions kept  *)
(* are 1, 2, ... up to their number: different positions have different    *)
(* ranks, and there are as many of the one as of the other.                *)
(***************************************************************************)
LEMMA PositionsFinite ==
  ASSUME NEW m \in Nat, NEW I \in SUBSET (1..m)
  PROVE  /\ IsFiniteSet(I) /\ Cardinality(I) \in Nat
         /\ Cardinality(I) <= m
<1>1. IsFiniteSet(1..m) /\ Cardinality(1..m) = m
      BY FS_Interval
<1>2. IsFiniteSet(I) /\ Cardinality(I) <= Cardinality(1..m)
      BY <1>1, FS_Subset, Zenon
<1> QED
  BY <1>1, <1>2, FS_CardinalityType

LEMMA RankOf ==
  ASSUME NEW m \in Nat, NEW I \in SUBSET (1..m), NEW i \in I
  PROVE  Rank(I, i) \in 1..Cardinality(I)
<1> DEFINE Upto == {j \in I : j <= i}
<1>1. IsFiniteSet(I) /\ Cardinality(I) \in Nat
      BY PositionsFinite
<1>2. IsFiniteSet(Upto) /\ Cardinality(Upto) <= Cardinality(I)
      BY <1>1, FS_Subset, Zenon
<1>3. i \in Upto
      OBVIOUS
<1>4. Cardinality(Upto) \in Nat /\ Cardinality(Upto) # 0
      BY <1>2, <1>3, FS_CardinalityType, FS_EmptySet, Zenon
<1> HIDE DEF Upto
<1>5. Cardinality(Upto) \in 1..Cardinality(I)
      BY <1>1, <1>2, <1>4
<1> QED
  BY <1>5 DEF Rank, Upto

LEMMA RankGrows ==
  ASSUME NEW m \in Nat, NEW I \in SUBSET (1..m),
         NEW i \in I, NEW k \in I, i < k
  PROVE  Rank(I, i) # Rank(I, k)
<1> DEFINE Upto(x) == {j \in I : j <= x}
<1>1. IsFiniteSet(Upto(k))
      BY PositionsFinite, FS_Subset, Zenon
<1>2. Upto(i) \in SUBSET Upto(k) /\ k \in Upto(k) /\ k \notin Upto(i)
  <2>1. i \in Int /\ k \in Int /\ \A j \in I : j \in Int
        OBVIOUS
  <2>2. k <= k /\ ~(k <= i)
        BY <2>1
  <2>3. \A j \in I : j <= i => j <= k
        BY <2>1
  <2> QED
    BY <2>2, <2>3
<1>3. Cardinality(Upto(k)) # Cardinality(Upto(i))
  <2> HIDE DEF Upto
  <2> QED
    BY <1>1, <1>2, FS_Subset
<1> QED
  BY <1>3 DEF Rank

LEMMA RankInjective ==
  ASSUME NEW m \in Nat, NEW I \in SUBSET (1..m),
         NEW i \in I, NEW k \in I, Rank(I, i) = Rank(I, k)
  PROVE  i = k
<1>1. i \in Int /\ k \in Int
      OBVIOUS
<1>2. ~(i < k) /\ ~(k < i)
      BY RankGrows
<1> QED
  BY <1>1, <1>2

LEMMA NthOf ==
  ASSUME NEW m \in Nat, NEW I \in SUBSET (1..m), NEW k \in 1..Cardinality(I)
  PROVE  Nth(I, k) \in I /\ Rank(I, Nth(I, k)) = k
<1> DEFINE c == Cardinality(I)
           f == [i \in I |-> Rank(I, i)]
<1>1. IsFiniteSet(I) /\ c \in Nat
      BY PositionsFinite
<1>2. IsFiniteSet(1..c) /\ Cardinality(1..c) = c
      BY <1>1, FS_Interval
<1>3. f \in [I -> 1..c]
      BY RankOf
<1>4. ASSUME NEW i \in I, NEW j \in I, f[i] = f[j]
      PROVE  i = j
  <2>1. Rank(I, i) = Rank(I, j)
        BY <1>4
  <2> QED
    BY <2>1, RankInjective
<1>5. f \in Injection(I, 1..c)
      BY <1>3, <1>4 DEF Injection, IsInjective
<1>6. f \in Surjection(I, 1..c)
  <2> HIDE DEF f, c
  <2> QED
    BY <1>2, <1>5, FS_Injection DEF c
<1>7. \E i \in I : f[i] = k
      BY <1>6 DEF Surjection
<1>8. \E i \in I : Rank(I, i) = k
      BY <1>7
<1> QED
  BY <1>8 DEF Nth

LEMMA AtPositionsProperties ==
  ASSUME NEW S, NEW s \in Seq(S), NEW I \in SUBSET DOMAIN s
  PROVE  /\ AtPositions(s, I) \in Seq(S)
         /\ Len(AtPositions(s, I)) = Cardinality(I)
         /\ ToSet(AtPositions(s, I)) = {s[i] : i \in I}
         /\ IsInjective(s) => IsInjective(AtPositions(s, I))
<1> DEFINE c == Cardinality(I)
           a == AtPositions(s, I)
<1>1. DOMAIN s = 1..Len(s) /\ Len(s) \in Nat
      OBVIOUS
<1>2. c \in Nat
      BY <1>1, PositionsFinite
<1>3. \A k \in 1..c : Nth(I, k) \in I /\ Rank(I, Nth(I, k)) = k
      BY <1>1, NthOf
<1>4. \A i \in I : Rank(I, i) \in 1..c
      BY <1>1, RankOf
<1>5. DOMAIN a = 1..c /\ \A k \in 1..c : a[k] = s[Nth(I, k)]
      BY DEF AtPositions
<1>6. \A k \in 1..c : s[Nth(I, k)] \in S
      BY <1>1, <1>3
<1>7. a \in [1..c -> S]
      BY <1>6 DEF AtPositions
<1> HIDE DEF a, c
<1>8. a \in Seq(S) /\ Len(a) = c
      BY <1>2, <1>7
<1>9. \A i \in I : Nth(I, Rank(I, i)) = i
  <2> TAKE i \in I
  <2>1. /\ Nth(I, Rank(I, i)) \in I
        /\ Rank(I, Nth(I, Rank(I, i))) = Rank(I, i)
        BY <1>3, <1>4
  <2> QED
    BY <1>1, <2>1, RankInjective
<1>10. ToSet(a) = {s[i] : i \in I}
      BY <1>3, <1>4, <1>5, <1>9 DEF ToSet
<1>11. IsInjective(s) => IsInjective(a)
      BY <1>1, <1>3, <1>5 DEF IsInjective
<1> QED
  BY <1>8, <1>10, <1>11 DEF a, c

-----------------------------------------------------------------------------
(* What the other operations on a queue do to the events in it.            *)

LEMMA ToSetOfSeq ==
  ASSUME NEW S, NEW s \in Seq(S)
  PROVE  /\ ToSet(s) = {s[i] : i \in 1..Len(s)}
         /\ ToSet(s) \subseteq S
BY DEF ToSet

LEMMA EmptyToSet == ToSet(<<>>) = {} /\ IsInjective(<<>>)
BY DEF ToSet, IsInjective

LEMMA AppendToSet ==
  ASSUME NEW S, NEW s \in Seq(S), NEW e \in S
  PROVE  /\ Append(s, e) \in Seq(S)
         /\ ToSet(Append(s, e)) = ToSet(s) \cup {e}
         /\ IsInjective(s) /\ e \notin ToSet(s) => IsInjective(Append(s, e))
<1> DEFINE a == Append(s, e)
<1>1. /\ a \in Seq(S) /\ Len(a) = Len(s) + 1
      /\ \A i \in 1..Len(s) : a[i] = s[i]
      /\ a[Len(s) + 1] = e
      BY AppendProperties
<1> HIDE DEF a
<1>2. Len(s) \in Nat /\ DOMAIN s = 1..Len(s) /\ DOMAIN a = 1..(Len(s) + 1)
      BY <1>1
<1>3. ToSet(a) = ToSet(s) \cup {e}
  <2>1. 1..(Len(s) + 1) = 1..Len(s) \cup {Len(s) + 1}
        BY <1>2
  <2> QED
    BY <1>1, <1>2, <2>1 DEF ToSet
<1>4. IsInjective(s) /\ e \notin ToSet(s) => IsInjective(a)
      BY <1>1, <1>2 DEF ToSet, IsInjective
<1> QED
  BY <1>1, <1>3, <1>4 DEF a

LEMMA TailToSet ==
  ASSUME NEW S, NEW s \in Seq(S), s # <<>>
  PROVE  /\ Head(s) \in S /\ Tail(s) \in Seq(S)
         /\ ToSet(s) = ToSet(Tail(s)) \cup {Head(s)}
         /\ IsInjective(s) => /\ Head(s) \notin ToSet(Tail(s))
                             /\ IsInjective(Tail(s))
<1> DEFINE t == Tail(s)
           h == Head(s)
<1>1. /\ h \in S /\ t \in Seq(S) /\ Len(t) = Len(s) - 1
      /\ \A i \in 1..Len(t) : t[i] = s[i + 1]
      /\ h = s[1]
      BY HeadTailProperties
<1> HIDE DEF t, h
<1>2. Len(s) \in Nat \ {0} /\ DOMAIN s = 1..Len(s)
      /\ DOMAIN t = 1..(Len(s) - 1)
      BY <1>1, EmptySeq
<1>3. ToSet(s) = ToSet(t) \cup {h}
  <2>1. ASSUME NEW i \in 1..Len(s)
        PROVE  \/ s[i] = h
               \/ i - 1 \in DOMAIN t /\ s[i] = t[i - 1]
        BY <1>1, <1>2
  <2>2. \A i \in DOMAIN t : i + 1 \in DOMAIN s /\ s[i + 1] = t[i]
        BY <1>1, <1>2
  <2>3. 1 \in DOMAIN s /\ s[1] = h
        BY <1>1, <1>2
  <2> QED
    BY <1>2, <2>1, <2>2, <2>3 DEF ToSet
<1>4. ASSUME IsInjective(s)
      PROVE  h \notin ToSet(t) /\ IsInjective(t)
  <2>1. \A i \in DOMAIN t : /\ i + 1 \in DOMAIN s /\ t[i] = s[i + 1]
                            /\ i + 1 # 1 /\ i \in Int
        BY <1>1, <1>2
  <2>2. 1 \in DOMAIN s
        BY <1>2
  <2>3. \A i \in DOMAIN t : t[i] # h
        BY <1>1, <1>4, <2>1, <2>2 DEF IsInjective
  <2>4. ASSUME NEW i \in DOMAIN t, NEW k \in DOMAIN t, t[i] = t[k]
        PROVE  i = k
    <3>1. i + 1 = k + 1
          BY <1>4, <2>1, <2>4 DEF IsInjective
    <3> QED
      BY <2>1, <3>1
  <2> QED
    BY <2>3, <2>4 DEF ToSet, IsInjective
<1> QED
  BY <1>1, <1>3, <1>4 DEF t, h

LEMMA ConcatToSet ==
  ASSUME NEW S, NEW s \in Seq(S), NEW t \in Seq(S)
  PROVE  /\ s \o t \in Seq(S)
         /\ ToSet(s \o t) = ToSet(s) \cup ToSet(t)
         /\ IsInjective(s) /\ IsInjective(t) /\ ToSet(s) \cap ToSet(t) = {}
              => IsInjective(s \o t)
<1> DEFINE u == s \o t
<1>1. /\ u \in Seq(S) /\ Len(u) = Len(s) + Len(t)
      /\ \A i \in 1..Len(s) + Len(t) :
           u[i] = IF i <= Len(s) THEN s[i] ELSE t[i - Len(s)]
      BY ConcatProperties
<1> HIDE DEF u
<1>2. /\ Len(s) \in Nat /\ Len(t) \in Nat
      /\ DOMAIN s = 1..Len(s) /\ DOMAIN t = 1..Len(t)
      /\ DOMAIN u = 1..Len(s) + Len(t)
      BY <1>1
<1>3. ASSUME NEW i \in DOMAIN u
      PROVE  \/ i \in DOMAIN s /\ u[i] = s[i]
             \/ i - Len(s) \in DOMAIN t /\ u[i] = t[i - Len(s)]
      BY <1>1, <1>2
<1>4. \A i \in DOMAIN s : i \in DOMAIN u /\ u[i] = s[i]
      BY <1>1, <1>2
<1>5. \A i \in DOMAIN t : i + Len(s) \in DOMAIN u /\ u[i + Len(s)] = t[i]
      BY <1>1, <1>2
<1>6. ToSet(u) = ToSet(s) \cup ToSet(t)
      BY <1>3, <1>4, <1>5 DEF ToSet
<1>7. ASSUME IsInjective(s), IsInjective(t), ToSet(s) \cap ToSet(t) = {}
      PROVE  IsInjective(u)
  <2> SUFFICES ASSUME NEW i \in DOMAIN u, NEW k \in DOMAIN u, u[i] = u[k]
               PROVE  i = k
    BY DEF IsInjective
  <2>1. i \in Int /\ k \in Int
        BY <1>2
  <2>2. \A x \in DOMAIN s, y \in DOMAIN t : s[x] # t[y]
        BY <1>7 DEF ToSet
  <2> QED
    BY <1>2, <1>3, <1>7, <2>1, <2>2 DEF IsInjective
<1> QED
  BY <1>1, <1>6, <1>7 DEF u

\* What is left of a sequence that loses its first members.
LEMMA CutToSet ==
  ASSUME NEW S, NEW s \in Seq(S), NEW c \in 0..Len(s)
  PROVE  LET t == SubSeq(s, c + 1, Len(s))
         IN  /\ t \in Seq(S)
             /\ ToSet(s) = {s[i] : i \in 1..c} \cup ToSet(t)
             /\ IsInjective(s) => /\ IsInjective(t)
                                 /\ \A i \in 1..c : s[i] \notin ToSet(t)
<1> DEFINE t == SubSeq(s, c + 1, Len(s))
<1>1. Len(s) \in Nat /\ c \in Nat /\ DOMAIN s = 1..Len(s) /\ c <= Len(s)
      OBVIOUS
<1>2. \A i \in (c + 1)..Len(s) : s[i] \in S
      BY <1>1
<1>3. /\ t \in Seq(S)
      /\ Len(t) = IF c + 1 <= Len(s) THEN Len(s) - (c + 1) + 1 ELSE 0
      /\ \A i \in 1..(Len(s) - (c + 1) + 1) : t[i] = s[(c + 1) + i - 1]
      BY <1>1, <1>2, SubSeqProperties
<1> HIDE DEF t
<1>4. /\ DOMAIN t = 1..(Len(s) - c)
      /\ \A i \in 1..(Len(s) - c) : c + i \in DOMAIN s /\ t[i] = s[c + i]
  <2>1. Len(t) = Len(s) - c /\ DOMAIN t = 1..Len(t)
    <3>1. Len(t) = Len(s) - c
      <4>1. CASE c = Len(s)
        BY <1>1, <1>3, <4>1
      <4>2. CASE c < Len(s)
        <5>1. c + 1 <= Len(s) /\ Len(s) - (c + 1) + 1 = Len(s) - c
              BY <1>1, <4>2
        <5> QED
          BY <1>3, <5>1
      <4>3. \A n \in Nat : c <= n => c = n \/ c < n
            BY <1>1
      <4> QED
        BY <1>1, <4>1, <4>2, <4>3
    <3>2. DOMAIN t = 1..Len(t)
          BY <1>3
    <3> QED
      BY <3>1, <3>2
  <2>2. ASSUME NEW i \in 1..(Len(s) - c)
        PROVE  /\ i \in 1..(Len(s) - (c + 1) + 1)
               /\ (c + 1) + i - 1 = c + i
               /\ c + i \in DOMAIN s
        BY <1>1
  <2>3. \A i \in 1..(Len(s) - c) : t[i] = s[c + i]
        BY <1>3, <2>2
  <2> QED
    BY <2>1, <2>2, <2>3
<1>5. ASSUME NEW i \in DOMAIN s
      PROVE  \/ i \in 1..c
             \/ i - c \in DOMAIN t /\ t[i - c] = s[i]
  <2>1. CASE i <= c
    BY <1>1, <2>1
  <2>2. CASE ~(i <= c)
    <3>1. i - c \in 1..(Len(s) - c) /\ c + (i - c) = i
          BY <1>1, <2>2
    <3> QED
      BY <1>4, <3>1
  <2> QED
    BY <2>1, <2>2
<1>6. \A i \in 1..c : i \in DOMAIN s
      BY <1>1
<1>7. ToSet(s) = {s[i] : i \in 1..c} \cup ToSet(t)
  <2>1. ASSUME NEW x \in ToSet(s)
        PROVE  x \in {s[i] : i \in 1..c} \cup ToSet(t)
    <3>1. PICK i \in DOMAIN s : x = s[i]
          BY DEF ToSet
    <3> QED
      BY <1>5, <3>1 DEF ToSet
  <2>2. \A i \in 1..c : s[i] \in ToSet(s)
        BY <1>6 DEF ToSet
  <2>3. ToSet(t) \subseteq ToSet(s)
        BY <1>4 DEF ToSet
  <2> QED
    BY <2>1, <2>2, <2>3
<1>8. ASSUME IsInjective(s)
      PROVE  /\ IsInjective(t)
             /\ \A i \in 1..c : s[i] \notin ToSet(t)
  <2>1. IsInjective(t)
    <3>1. ASSUME NEW i \in DOMAIN t, NEW k \in DOMAIN t, t[i] = t[k]
          PROVE  i = k
      <4>1. c + i = c + k
            BY <1>4, <1>8, <3>1 DEF IsInjective
      <4>2. i \in Int /\ k \in Int
            BY <1>1, <1>4
      <4> QED
        BY <1>1, <4>1, <4>2
    <3> QED
      BY <3>1 DEF IsInjective
  <2>2. ASSUME NEW i \in 1..c, NEW k \in DOMAIN t
        PROVE  s[i] # t[k]
    <3>1. /\ i \in DOMAIN s /\ c + k \in DOMAIN s /\ t[k] = s[c + k]
          /\ i # c + k
          BY <1>1, <1>4
    <3> QED
      BY <1>8, <3>1 DEF IsInjective
  <2> QED
    BY <2>1, <2>2 DEF ToSet
<1> QED
  BY <1>3, <1>7, <1>8 DEF t

LEMMA InjectiveCardinality ==
  ASSUME NEW S, NEW s \in Seq(S), IsInjective(s)
  PROVE  IsFiniteSet(ToSet(s)) /\ Cardinality(ToSet(s)) = Len(s)
<1>1. Len(s) \in Nat /\ DOMAIN s = 1..Len(s)
      OBVIOUS
<1>2. s \in Bijection(1..Len(s), ToSet(s))
      BY <1>1 DEF Bijection, Injection, Surjection, IsInjective, ToSet
<1>3. ExistsBijection(1..Len(s), ToSet(s))
      BY <1>2 DEF ExistsBijection
<1>4. IsFiniteSet(1..Len(s)) /\ Cardinality(1..Len(s)) = Len(s)
  <2> DEFINE k == Len(s)
  <2>1. k \in Nat /\ 1 \in Int
        BY <1>1
  <2> HIDE DEF k
  <2>2. /\ IsFiniteSet(1..k)
        /\ Cardinality(1..k) = IF 1 > k THEN 0 ELSE k - 1 + 1
        BY <2>1, FS_Interval
  <2>3. Cardinality(1..k) = k
        BY <2>1, <2>2
  <2> QED
    BY <2>2, <2>3 DEF k
<1> QED
  BY <1>3, <1>4, FS_Bijection

\* The two parts into which a flush divides the queue.
LEMMA FlushDivides ==
  ASSUME queue \in Seq(Note), NEW level
  PROVE  /\ Batch(level) \in Seq(Note) /\ Rest(level) \in Seq(Note)
         /\ ToSet(Batch(level)) =
              {n \in ToSet(queue) : SeverityOf(n) = level}
         /\ ToSet(Rest(level)) =
              {n \in ToSet(queue) : SeverityOf(n) # level}
         /\ IsInjective(queue) => /\ IsInjective(Batch(level))
                                 /\ IsInjective(Rest(level))
<1> DEFINE B == OfLevel(level)
           R == (DOMAIN queue) \ OfLevel(level)
<1>1. B \in SUBSET DOMAIN queue /\ R \in SUBSET DOMAIN queue
      BY DEF OfLevel
<1>2. {queue[i] : i \in B} = {n \in ToSet(queue) : SeverityOf(n) = level}
      BY DEF OfLevel, ToSet
<1>3. {queue[i] : i \in R} = {n \in ToSet(queue) : SeverityOf(n) # level}
      BY DEF OfLevel, ToSet
<1> HIDE DEF B, R
<1>4. /\ AtPositions(queue, B) \in Seq(Note)
      /\ ToSet(AtPositions(queue, B)) = {queue[i] : i \in B}
      /\ IsInjective(queue) => IsInjective(AtPositions(queue, B))
      BY <1>1, AtPositionsProperties
<1>5. /\ AtPositions(queue, R) \in Seq(Note)
      /\ ToSet(AtPositions(queue, R)) = {queue[i] : i \in R}
      /\ IsInjective(queue) => IsInjective(AtPositions(queue, R))
      BY <1>1, AtPositionsProperties
<1> QED
  BY <1>2, <1>3, <1>4, <1>5 DEF Batch, Rest, B, R

-----------------------------------------------------------------------------
(***************************************************************************)
(* Types.                                                                  *)
(***************************************************************************)
QueueTypes ==
  /\ life \in Alive \cup {"off"}
  /\ fate \in [Note -> Fate]
  /\ queue \in Seq(Note) /\ immediateQueue \in Seq(Note)
  /\ worker \in {"poll", "send", "ended"}
  /\ sending \subseteq Note
  /\ inFlight \in [Slot -> Seq(Note)]

TimeTypes ==
  /\ lastSentAt \in [Types -> 0..MaxTime]
  /\ loading \in BOOLEAN
  /\ \A w \in writes : /\ w.times \in [Types -> 0..MaxTime]
                       /\ w.by \in {"push", "shutdown"}
  /\ file \in [Types -> 0..MaxTime]
  /\ clock \in 1..MaxTime /\ fails \in 0..MaxFails
  /\ boots \in 0..MaxBoots

LEMMA TypesOfBoth == TypeOK <=> QueueTypes /\ TimeTypes
BY DEF TypeOK, QueueTypes, TimeTypes

LEMMA SettleTypes ==
  ASSUME fate \in [Note -> Fate], NEW ns, NEW f \in Fate, Settle(ns, f)
  PROVE  fate' \in [Note -> Fate]
BY DEF Settle

LEMMA CutOfLonger ==
  ASSUME queue \in Seq(Note), NEW n \in Note
  PROVE  LET longer == Append(queue, n)
             cut    == Excess(longer)
         IN  /\ longer \in Seq(Note)
             /\ Len(longer) = Len(queue) + 1
             /\ cut \in 0..Len(longer)
             /\ cut < Len(longer)
<1> DEFINE longer == Append(queue, n)
<1>1. longer \in Seq(Note) /\ Len(longer) = Len(queue) + 1 /\ Len(queue) \in Nat
      BY AppendProperties
<1> HIDE DEF longer
<1>2. \A k \in Nat \ {0} :
        LET cut == IF k > QUEUE_HIGH_MAX THEN k - QUEUE_HIGH_MAX ELSE 0
        IN  cut \in 0..k /\ cut < k
      BY NotifierConstants DEF NotifierConstants
<1> QED
  BY <1>1, <1>2 DEF longer, Excess

LEMMA QueueTypesStep ==
  ASSUME QueueTypes, [Next]_vars
  PROVE  QueueTypes'
<1> USE DEF QueueTypes
<1>1. ASSUME NEW n \in Note, Skip(n)
      PROVE  QueueTypes'
  BY <1>1, SettleTypes DEF Skip, queues, Fate
<1>2. ASSUME NEW n \in Note, PushImmediate(n)
      PROVE  QueueTypes'
  <2>1. immediateQueue' \in Seq(Note)
        BY <1>2, AppendToSet DEF PushImmediate
  <2> QED
    BY <1>2, <2>1, SettleTypes DEF PushImmediate, Fate
<1>3. ASSUME NEW n \in Note, PushBatched(n)
      PROVE  QueueTypes'
  <2>1. queue' \in Seq(Note)
        BY <1>3, CutOfLonger, CutToSet DEF PushBatched
  <2>2. fate' \in [Note -> Fate]
        BY <1>3 DEF PushBatched, Fate
  <2> QED
    BY <1>3, <2>1, <2>2 DEF PushBatched
<1>4. CASE WorkerTakes
  <2>1. Head(immediateQueue) \in Note /\ Tail(immediateQueue) \in Seq(Note)
        BY <1>4, TailToSet DEF WorkerTakes
  <2> QED
    BY <1>4, <2>1 DEF WorkerTakes
<1>5. CASE WorkerSent \/ WorkerFails
  BY <1>5, SettleTypes DEF WorkerSent, WorkerFails, Fate
<1>6. CASE WorkerEnds
  BY <1>6 DEF WorkerEnds
<1>7. ASSUME NEW slot \in Slot, NEW level, Flush(slot, level)
      PROVE  queue' \in Seq(Note) /\ inFlight' \in [Slot -> Seq(Note)]
  BY <1>7, FlushDivides DEF Flush
<1>8. ASSUME NEW level \in Level, TimerFlush(level)
      PROVE  QueueTypes'
  BY <1>8, <1>7 DEF TimerFlush, Slot, Level
<1>9. CASE FlushWarn \/ FlushInfo
  BY <1>9, <1>7 DEF FlushWarn, FlushInfo, LastFlush, Slot, Alive
<1>10. ASSUME NEW slot \in Slot, BatchSent(slot) \/ BatchFails(slot)
       PROVE  QueueTypes'
  <2>1. inFlight' \in [Slot -> Seq(Note)]
    <3>1. inFlight' = [inFlight EXCEPT ![slot] = <<>>]
          BY <1>10 DEF BatchSent, BatchFails
    <3> QED
      BY <3>1, EmptySeq
  <2>2. CASE BatchSent(slot)
    <3>1. fate' \in [Note -> Fate]
          BY <2>2, SettleTypes DEF BatchSent, Fate
    <3> QED
      BY <2>1, <2>2, <3>1 DEF BatchSent
  <2>3. CASE BatchFails(slot)
    <3>1. queue' \in Seq(Note)
          BY <2>3, ConcatToSet DEF BatchFails, BackInQueue
    <3> QED
      BY <2>1, <2>3, <3>1 DEF BatchFails
  <2> QED
    BY <1>10, <2>2, <2>3
<1>11. CASE Dies
  BY <1>11 DEF Dies, Fate, Slot
<1>12. CASE LoadDedup
  BY <1>12 DEF LoadDedup, queues
<1>13. ASSUME NEW write \in writes, PersistEnds(write)
       PROVE  QueueTypes'
  BY <1>13 DEF PersistEnds, queues, Alive
<1>14. CASE Shutdown \/ LastPersist \/ Boots \/ Tick
  BY <1>14 DEF Shutdown, LastPersist, Boots, Tick, queues, Alive
<1>15. CASE UNCHANGED vars
  BY <1>15 DEF vars, queues
<1> QED
  BY <1>1, <1>2, <1>3, <1>4, <1>5, <1>6, <1>8, <1>9, <1>10, <1>11, <1>12,
     <1>13, <1>14, <1>15 DEF Next, Work

LEMMA TimeTypesStep ==
  ASSUME TimeTypes, [Next]_vars
  PROVE  TimeTypes'
<1> USE NotifierConstants DEF TimeTypes, NotifierConstants
<1>1. ASSUME NEW n \in Note, PushImmediate(n)
      PROVE  TimeTypes'
  <2>1. lastSentAt' \in [Types -> 0..MaxTime]
    <3>1. clock \in 0..MaxTime
          OBVIOUS
    <3>2. lastSentAt' = [lastSentAt EXCEPT ![EventOf[n]] = clock]
          BY <1>1 DEF PushImmediate
    <3> HIDE NotifierConstants DEF NotifierConstants
    <3> QED
      BY <3>1, <3>2
  <2>2. \A w \in writes' : /\ w.times \in [Types -> 0..MaxTime]
                           /\ w.by \in {"push", "shutdown"}
    <3> DEFINE new == [times |-> lastSentAt', by |-> "push"]
    <3>1. new.times \in [Types -> 0..MaxTime] /\ new.by = "push"
          BY <2>1
    <3>2. writes' = writes \cup {new}
          BY <1>1 DEF PushImmediate
    <3> HIDE DEF new
    <3> QED
      BY <3>1, <3>2
  <2> QED
    BY <1>1, <2>1, <2>2 DEF PushImmediate, bounds
<1>2. CASE LastPersist
  <2>1. \A w \in writes' : /\ w.times \in [Types -> 0..MaxTime]
                           /\ w.by \in {"push", "shutdown"}
    <3> DEFINE new == [times |-> lastSentAt, by |-> "shutdown"]
    <3>1. new.times \in [Types -> 0..MaxTime] /\ new.by = "shutdown"
          OBVIOUS
    <3>2. writes' = writes \cup {new}
          BY <1>2 DEF LastPersist
    <3> HIDE DEF new
    <3> QED
      BY <3>1, <3>2
  <2> QED
    BY <1>2, <2>1 DEF LastPersist, bounds
<1>3. CASE WorkerFails
  BY <1>3 DEF WorkerFails, dedup
<1>4. ASSUME NEW slot \in Slot, BatchFails(slot)
      PROVE  TimeTypes'
  BY <1>4 DEF BatchFails, dedup
<1>5. CASE LoadDedup
  BY <1>5 DEF LoadDedup, bounds
<1>6. ASSUME NEW write \in writes, PersistEnds(write)
      PROVE  TimeTypes'
  BY <1>6 DEF PersistEnds, bounds
<1>7. CASE Boots
  BY <1>7 DEF Boots, Never
<1>8. CASE Tick
  BY <1>8 DEF Tick, dedup
<1>9. CASE Dies
  BY <1>9 DEF Dies, bounds
<1>10. CASE UNCHANGED <<dedup, bounds>>
  BY <1>10 DEF dedup, bounds
<1> QED
  BY <1>1, <1>2, <1>3, <1>4, <1>5, <1>6, <1>7, <1>8, <1>9, <1>10
     DEF Next, Work, Skip, PushBatched, WorkerTakes, WorkerSent, WorkerEnds,
         TimerFlush, BatchSent, FlushWarn, FlushInfo, LastFlush, Shutdown,
         vars

-----------------------------------------------------------------------------
(***************************************************************************)
(* An event that waits is in one place.  Accounted alone is not inductive: *)
(* that the numbers agree does not say that the event a worker takes is    *)
(* not also in a batch.  So: no place has an event twice, no two places    *)
(* have the same, and the severity says on which side an event is.         *)
(***************************************************************************)
Distinct ==
  /\ IsInjective(queue) /\ IsInjective(immediateQueue)
  /\ \A s \in Slot : IsInjective(inFlight[s])
  /\ worker = "send" => \E n \in Note : sending = {n}
  /\ worker # "send" => sending = {}

Apart ==
  /\ sending \cap ToSet(immediateQueue) = {}
  /\ \A s \in Slot : ToSet(queue) \cap ToSet(inFlight[s]) = {}
  /\ \A s, t \in Slot : s # t => ToSet(inFlight[s]) \cap ToSet(inFlight[t]) = {}

Sorted ==
  /\ \A n \in ToSet(immediateQueue) \cup sending : Immediate(n)
  /\ \A n \in ToSet(queue) \cup ToSet(inFlight["last"]) : ~Immediate(n)
  /\ \A level \in Level : \A n \in ToSet(inFlight[level]) :
       SeverityOf(n) = level

Held(n) == \/ n \in ToSet(queue) \/ n \in ToSet(immediateQueue)
           \/ n \in sending
           \/ \E s \in Slot : n \in ToSet(inFlight[s])

OpenHeld == \A n \in Note : fate[n] = "open" <=> Held(n)

\* A process that is not running has no worker.
NoWorkerOff == life = "off" => worker = "ended"

Placed == Distinct /\ Apart /\ Sorted /\ OpenHeld

QueueInv == QueueTypes /\ NoWorkerOff /\ Placed

LEMMA InitQueue == ASSUME Init PROVE QueueInv
<1>1. QueueTypes
      BY EmptySeq DEF Init, QueueTypes, Alive, Fate
<1>2. Placed /\ NoWorkerOff
      BY EmptyToSet
         DEF Init, Distinct, Apart, Sorted, OpenHeld, Held, Slot, Level,
             NoWorkerOff, Placed
<1> QED
  BY <1>1, <1>2 DEF QueueInv

\* Events of an urgent severity are never batched, and the other way round.
LEMMA LevelsAreBatched ==
  ASSUME NEW n, SeverityOf(n) \in Level
  PROVE  ~Immediate(n)
BY DEF Immediate, Level

LEMMA InFlightIsBatched ==
  ASSUME Sorted, NEW s \in Slot, NEW n \in ToSet(inFlight[s])
  PROVE  ~Immediate(n)
<1>1. CASE s = "last"
  BY <1>1 DEF Sorted
<1>2. CASE s \in Level
  BY <1>2, LevelsAreBatched DEF Sorted
<1> QED
  BY <1>1, <1>2 DEF Slot, Level

LEMMA NoWorkerOffStep ==
  ASSUME QueueInv, [Next]_vars
  PROVE  NoWorkerOff'
<1> USE DEF QueueInv, NoWorkerOff
<1>1. ASSUME NEW n \in Note, Skip(n) \/ PushImmediate(n) \/ PushBatched(n)
      PROVE  NoWorkerOff'
  BY <1>1 DEF Skip, PushImmediate, PushBatched, queues
<1>2. CASE WorkerTakes \/ WorkerSent \/ WorkerFails \/ WorkerEnds
  BY <1>2 DEF WorkerTakes, WorkerSent, WorkerFails, WorkerEnds, Alive
<1>3. CASE \/ \E level \in Level : TimerFlush(level)
           \/ \E slot \in Slot : BatchSent(slot) \/ BatchFails(slot)
  BY <1>3 DEF TimerFlush, BatchSent, BatchFails
<1>4. CASE LoadDedup \/ (\E write \in writes : PersistEnds(write))
  BY <1>4 DEF LoadDedup, PersistEnds, queues
<1>5. CASE FlushWarn \/ FlushInfo \/ LastPersist \/ Shutdown
  BY <1>5 DEF FlushWarn, FlushInfo, LastFlush, LastPersist, Shutdown
<1>6. CASE Dies \/ Boots \/ Tick \/ UNCHANGED vars
  BY <1>6 DEF Dies, Boots, Tick, vars, queues
<1> QED
  BY <1>1, <1>2, <1>3, <1>4, <1>5, <1>6 DEF Next, Work

LEMMA SettleHeld ==
  ASSUME QueueInv, NEW ns, NEW f \in Fate \ {"open"}, Settle(ns, f),
         \A n \in Note : Held(n)' <=> Held(n) /\ n \notin ns
  PROVE  OpenHeld'
BY DEF QueueInv, Placed, OpenHeld, Settle

LEMMA QueueStays ==
  ASSUME QueueInv,
         UNCHANGED <<fate, queue, immediateQueue, worker, sending, inFlight>>
  PROVE  Placed'
BY DEF QueueInv, Placed, Distinct, Apart, Sorted, OpenHeld, Held

LEMMA SkipHeld ==
  ASSUME QueueInv, NEW n \in Note, Skip(n)
  PROVE  Placed'
<1>1. UNCHANGED <<queue, immediateQueue, worker, sending, inFlight>>
      BY DEF Skip, queues
<1>2. Distinct' /\ Apart' /\ Sorted'
      BY <1>1 DEF QueueInv, Placed, Distinct, Apart, Sorted
<1>3. OpenHeld'
      BY <1>1 DEF QueueInv, Placed, OpenHeld, Held, Skip, Settle
<1> QED
  BY <1>2, <1>3 DEF Placed

LEMMA PushImmediateHeld ==
  ASSUME QueueInv, NEW n \in Note, PushImmediate(n)
  PROVE  Placed'
<1>1. /\ fate[n] = "uncalled" /\ Immediate(n)
      /\ immediateQueue' = Append(immediateQueue, n)
      /\ fate' = [m \in Note |-> IF m \in {n} THEN "open" ELSE fate[m]]
      /\ UNCHANGED <<queue, worker, sending, inFlight>>
      BY DEF PushImmediate, Settle
<1>2. ~Held(n)
      BY <1>1 DEF QueueInv, Placed, OpenHeld
<1>3. /\ ToSet(immediateQueue') = ToSet(immediateQueue) \cup {n}
      /\ IsInjective(immediateQueue')
      BY <1>1, <1>2, AppendToSet DEF QueueInv, Placed, QueueTypes, Distinct, Held
<1>4. Distinct'
      BY <1>1, <1>3 DEF QueueInv, Placed, Distinct
<1>5. Apart' /\ Sorted'
      BY <1>1, <1>2, <1>3 DEF QueueInv, Placed, Apart, Sorted, Held
<1>6. OpenHeld'
      BY <1>1, <1>3 DEF QueueInv, Placed, OpenHeld, Held
<1> QED
  BY <1>4, <1>5, <1>6 DEF Placed

LEMMA PushBatchedHeld ==
  ASSUME QueueInv, NEW n \in Note, PushBatched(n)
  PROVE  Placed'
<1> DEFINE longer == Append(queue, n)
           cut    == Excess(longer)
           lost   == {longer[i] : i \in 1..cut}
<1>1. /\ fate[n] = "uncalled" /\ ~Immediate(n)
      /\ queue' = SubSeq(longer, cut + 1, Len(longer))
      /\ fate' = [m \in Note |-> IF m \in lost THEN "dropped"
                                ELSE IF m = n THEN "open" ELSE fate[m]]
      /\ UNCHANGED <<immediateQueue, worker, sending, inFlight>>
  <2>1. \A m \in Note : (\E i \in 1..cut : longer[i] = m) <=> m \in lost
        OBVIOUS
  <2> QED
    BY <2>1 DEF PushBatched
<1>2. ~Held(n)
      BY <1>1 DEF QueueInv, Placed, OpenHeld
<1>3. /\ longer \in Seq(Note) /\ cut \in 0..Len(longer)
      /\ ToSet(longer) = ToSet(queue) \cup {n}
      /\ IsInjective(longer)
      BY <1>2, AppendToSet, CutOfLonger
         DEF QueueInv, Placed, QueueTypes, Distinct, Held
<1> HIDE DEF longer, cut
<1>4. /\ ToSet(queue) \cup {n} = lost \cup ToSet(queue')
      /\ lost \cap ToSet(queue') = {}
      /\ IsInjective(queue')
  <2> HIDE DEF lost
  <2>1. queue' = SubSeq(longer, cut + 1, Len(longer))
        BY <1>1
  <2>2. /\ ToSet(longer) = {longer[i] : i \in 1..cut} \cup ToSet(queue')
        /\ IsInjective(queue')
        /\ \A i \in 1..cut : longer[i] \notin ToSet(queue')
        BY <1>3, <2>1, CutToSet
  <2>3. lost = {longer[i] : i \in 1..cut}
        BY DEF lost
  <2> QED
    BY <1>3, <2>2, <2>3
<1> HIDE DEF lost
<1>5. Distinct'
      BY <1>1, <1>4 DEF QueueInv, Placed, Distinct
<1>6. ToSet(queue') \subseteq ToSet(queue) \cup {n}
      BY <1>4
<1>7. Apart' /\ Sorted'
  <2>1. \A s \in Slot : n \notin ToSet(inFlight[s])
        BY <1>2 DEF Held
  <2>2. Apart'
        BY <1>1, <1>6, <2>1 DEF QueueInv, Placed, Apart
  <2>3. Sorted'
        BY <1>1, <1>6 DEF QueueInv, Placed, Sorted
  <2> QED
    BY <2>2, <2>3
<1>8. ASSUME NEW m \in Note
      PROVE  fate'[m] = "open" <=> Held(m)'
  <2>1. fate[m] = "open" <=> Held(m)
        BY DEF QueueInv, Placed, OpenHeld
  <2>2. CASE m \in lost
    <3>1. m = n \/ m \in ToSet(queue)
          BY <1>4, <2>2
    <3>2. ~Held(m)'
          BY <1>1, <1>2, <1>4, <2>2, <3>1
             DEF QueueInv, Placed, Apart, Sorted, Held
    <3> QED
      BY <1>1, <2>2, <3>2
  <2>3. CASE m \notin lost
    <3>1. m \in ToSet(queue') <=> m = n \/ m \in ToSet(queue)
          BY <1>4, <2>3
    <3> QED
      BY <1>1, <2>1, <2>3, <3>1 DEF Held
  <2> QED
    BY <2>2, <2>3
<1>9. OpenHeld'
      BY <1>8 DEF OpenHeld
<1> QED
  BY <1>5, <1>7, <1>9 DEF Placed

LEMMA WorkerTakesHeld ==
  ASSUME QueueInv, WorkerTakes
  PROVE  Placed'
<1> DEFINE n == Head(immediateQueue)
<1>1. /\ worker = "poll" /\ immediateQueue # <<>>
      /\ worker' = "send" /\ sending' = {n}
      /\ immediateQueue' = Tail(immediateQueue)
      /\ UNCHANGED <<fate, queue, inFlight>>
      BY DEF WorkerTakes
<1>2. /\ n \in Note
      /\ ToSet(immediateQueue) = ToSet(immediateQueue') \cup {n}
      /\ n \notin ToSet(immediateQueue')
      /\ IsInjective(immediateQueue')
      BY <1>1, TailToSet DEF QueueInv, Placed, QueueTypes, Distinct
<1>3. sending = {}
      BY <1>1 DEF QueueInv, Placed, Distinct
<1> HIDE DEF n
<1>4. Distinct'
      BY <1>1, <1>2 DEF QueueInv, Placed, Distinct
<1>5. Apart' /\ Sorted'
      BY <1>1, <1>2 DEF QueueInv, Placed, Apart, Sorted
<1>6. OpenHeld'
      BY <1>1, <1>2, <1>3 DEF QueueInv, Placed, OpenHeld, Held
<1> QED
  BY <1>4, <1>5, <1>6 DEF Placed

LEMMA SendEndsHeld ==
  ASSUME QueueInv, WorkerSent \/ WorkerFails
  PROVE  Placed'
<1>1. /\ worker' = "poll" /\ sending' = {} /\ Settle(sending, "over")
      /\ UNCHANGED <<queue, immediateQueue, inFlight>>
      BY DEF WorkerSent, WorkerFails
<1>2. Distinct'
      BY <1>1 DEF QueueInv, Placed, Distinct
<1>3. Apart' /\ Sorted'
      BY <1>1 DEF QueueInv, Placed, Apart, Sorted
<1>4. ASSUME NEW m \in Note
      PROVE  Held(m)' <=> Held(m) /\ m \notin sending
  <2>1. m \in sending => /\ m \notin ToSet(immediateQueue)
                        /\ m \notin ToSet(queue)
                        /\ \A s \in Slot : m \notin ToSet(inFlight[s])
        BY InFlightIsBatched DEF QueueInv, Placed, Apart, Sorted
  <2> QED
    BY <1>1, <2>1 DEF Held
<1>5. OpenHeld'
      BY <1>1, <1>4, SettleHeld DEF Fate
<1> QED
  BY <1>2, <1>3, <1>5 DEF Placed

LEMMA WorkerEndsHeld ==
  ASSUME QueueInv, WorkerEnds \/ Boots
  PROVE  Placed'
<1>1. /\ worker # "send" /\ worker' # "send"
      /\ UNCHANGED <<fate, queue, immediateQueue, sending, inFlight>>
      BY DEF WorkerEnds, Boots, QueueInv, NoWorkerOff
<1> QED
  BY <1>1 DEF QueueInv, Placed, Distinct, Apart, Sorted, OpenHeld, Held

LEMMA FlushHeld ==
  ASSUME QueueInv, NEW slot \in Slot, NEW level \in Level,
         slot \in {level, "last"}, inFlight[slot] = <<>>, Flush(slot, level),
         UNCHANGED <<fate, immediateQueue, worker, sending>>
  PROVE  Placed'
<1> DEFINE B == ToSet(inFlight'[slot])
<1>1. /\ B = {n \in ToSet(queue) : SeverityOf(n) = level}
      /\ ToSet(queue') = {n \in ToSet(queue) : SeverityOf(n) # level}
      /\ IsInjective(inFlight'[slot]) /\ IsInjective(queue')
      BY FlushDivides DEF Flush, QueueInv, QueueTypes, Placed, Distinct
<1>2. \A s \in Slot : s # slot => inFlight'[s] = inFlight[s]
      BY DEF Flush, QueueInv, QueueTypes
<1>3. ToSet(inFlight[slot]) = {}
      BY EmptyToSet
<1>4. ToSet(queue) = B \cup ToSet(queue') /\ B \cap ToSet(queue') = {}
      BY <1>1
<1>5. \A n \in B : SeverityOf(n) = level /\ ~Immediate(n)
      BY <1>1, LevelsAreBatched
<1> HIDE DEF B
<1>6. Distinct'
      BY <1>1, <1>2 DEF QueueInv, Placed, Distinct
<1>7. Apart'
      BY <1>2, <1>4 DEF QueueInv, Placed, Apart, B
<1>8. Sorted'
  <2>1. \A n \in ToSet(immediateQueue') \cup sending' : Immediate(n)
        BY DEF QueueInv, Placed, Sorted
  <2>2. \A n \in ToSet(queue') : ~Immediate(n)
        BY <1>4 DEF QueueInv, Placed, Sorted
  <2>3. \A n \in ToSet(inFlight'["last"]) : ~Immediate(n)
        BY <1>2, <1>5 DEF QueueInv, Placed, Sorted, Slot, B
  <2>4. \A l \in Level : \A n \in ToSet(inFlight'[l]) : SeverityOf(n) = l
        BY <1>2, <1>5 DEF QueueInv, Placed, Sorted, Slot, Level, B
  <2> QED
    BY <2>1, <2>2, <2>3, <2>4 DEF Sorted, Immediate, SeverityOf
<1>9. OpenHeld'
  <2>1. ASSUME NEW n \in Note
        PROVE  Held(n)' <=> Held(n)
    BY <1>2, <1>3, <1>4 DEF Held, B
  <2> QED
    BY <2>1 DEF QueueInv, Placed, OpenHeld
<1> QED
  BY <1>6, <1>7, <1>8, <1>9 DEF Placed

LEMMA BatchSentHeld ==
  ASSUME QueueInv, NEW slot \in Slot, BatchSent(slot)
  PROVE  Placed'
<1>1. /\ inFlight' = [inFlight EXCEPT ![slot] = <<>>]
      /\ Settle(ToSet(inFlight[slot]), "over")
      /\ UNCHANGED <<queue, immediateQueue, worker, sending>>
      BY DEF BatchSent
<1>2. /\ inFlight'[slot] = <<>>
      /\ \A s \in Slot : s # slot => inFlight'[s] = inFlight[s]
      BY <1>1 DEF QueueInv, QueueTypes
<1>3. Distinct'
      BY <1>1, <1>2, EmptyToSet DEF QueueInv, Placed, Distinct
<1>4. Apart'
      BY <1>1, <1>2, EmptyToSet DEF QueueInv, Placed, Apart
<1>5. Sorted'
      BY <1>1, <1>2, EmptyToSet DEF QueueInv, Placed, Sorted, Slot, Level
<1>6. ASSUME NEW m \in Note
      PROVE  Held(m)' <=> Held(m) /\ m \notin ToSet(inFlight[slot])
  <2>1. m \in ToSet(inFlight[slot]) =>
          /\ m \notin ToSet(immediateQueue) /\ m \notin sending
          /\ m \notin ToSet(queue)
          /\ \A s \in Slot : s # slot => m \notin ToSet(inFlight[s])
        BY InFlightIsBatched DEF QueueInv, Placed, Apart, Sorted
  <2> QED
    BY <1>1, <1>2, <2>1, EmptyToSet DEF Held
<1>7. OpenHeld'
      BY <1>1, <1>6, SettleHeld DEF Fate
<1> QED
  BY <1>3, <1>4, <1>5, <1>7 DEF Placed

LEMMA BatchFailsHeld ==
  ASSUME QueueInv, NEW slot \in Slot, BatchFails(slot)
  PROVE  Placed'
<1>1. /\ inFlight' = [inFlight EXCEPT ![slot] = <<>>]
      /\ queue' = queue \o inFlight[slot]
      /\ UNCHANGED <<fate, immediateQueue, worker, sending>>
      BY DEF BatchFails, BackInQueue
<1>2. /\ inFlight'[slot] = <<>>
      /\ \A s \in Slot : s # slot => inFlight'[s] = inFlight[s]
      BY <1>1 DEF QueueInv, QueueTypes
<1>3. /\ ToSet(queue') = ToSet(queue) \cup ToSet(inFlight[slot])
      /\ IsInjective(queue')
      BY <1>1, ConcatToSet
         DEF QueueInv, QueueTypes, Placed, Distinct, Apart
<1>4. Distinct'
      BY <1>1, <1>2, <1>3, EmptyToSet DEF QueueInv, Placed, Distinct
<1>5. Apart'
      BY <1>1, <1>2, <1>3, EmptyToSet DEF QueueInv, Placed, Apart
<1>6. Sorted'
      BY <1>1, <1>2, <1>3, EmptyToSet, InFlightIsBatched
         DEF QueueInv, Placed, Sorted, Slot, Level
<1>7. ASSUME NEW m \in Note
      PROVE  Held(m)' <=> Held(m)
  BY <1>1, <1>2, <1>3, EmptyToSet DEF Held
<1>8. OpenHeld'
      BY <1>1, <1>7 DEF QueueInv, Placed, OpenHeld
<1> QED
  BY <1>4, <1>5, <1>6, <1>8 DEF Placed

LEMMA DiesHeld ==
  ASSUME QueueInv, Dies
  PROVE  Placed'
<1>1. Distinct' /\ Apart' /\ Sorted'
      BY EmptyToSet DEF Dies, Distinct, Apart, Sorted, Slot, Level
<1>2. OpenHeld'
      BY EmptyToSet DEF Dies, OpenHeld, Held
<1> QED
  BY <1>1, <1>2 DEF Placed

LEMMA PlacedStep ==
  ASSUME QueueInv, [Next]_vars
  PROVE  Placed'
<1>1. ASSUME NEW n \in Note, Skip(n) \/ PushImmediate(n) \/ PushBatched(n)
      PROVE  Placed'
  BY <1>1, SkipHeld, PushImmediateHeld, PushBatchedHeld
<1>2. CASE WorkerTakes \/ WorkerSent \/ WorkerFails \/ WorkerEnds
  BY <1>2, WorkerTakesHeld, SendEndsHeld, WorkerEndsHeld
<1>3. ASSUME NEW level \in Level, TimerFlush(level)
      PROVE  Placed'
  BY <1>3, FlushHeld DEF TimerFlush, Slot, Level
<1>4. ASSUME NEW slot \in Slot, BatchSent(slot) \/ BatchFails(slot)
      PROVE  Placed'
  BY <1>4, BatchSentHeld, BatchFailsHeld
<1>5. CASE FlushWarn \/ FlushInfo
  BY <1>5, FlushHeld DEF FlushWarn, FlushInfo, LastFlush, Slot, Level
<1>6. CASE Dies \/ Boots
  BY <1>6, DiesHeld, WorkerEndsHeld
<1>7. CASE UNCHANGED <<fate, queues>>
  BY <1>7, QueueStays DEF queues
<1> QED
  BY <1>1, <1>2, <1>3, <1>4, <1>5, <1>6, <1>7
     DEF Next, Work, LoadDedup, PersistEnds, LastPersist, Shutdown, Tick, vars

LEMMA QueueInvariant == Spec => []QueueInv
<1>1. QueueInv /\ [Next]_vars => QueueInv'
      BY QueueTypesStep, NoWorkerOffStep, PlacedStep DEF QueueInv
<1> QED
  BY <1>1, InitQueue, PTL DEF Spec

-----------------------------------------------------------------------------
(* The numbers agree: the places are finite, and disjoint.                 *)

LEMMA DisjointUnion ==
  ASSUME NEW A, NEW B, IsFiniteSet(A), IsFiniteSet(B), A \cap B = {}
  PROVE  /\ IsFiniteSet(A \cup B)
         /\ Cardinality(A \cup B) = Cardinality(A) + Cardinality(B)
<1>1. Cardinality(A) \in Nat /\ Cardinality(B) \in Nat
      BY FS_CardinalityType
<1>2. /\ IsFiniteSet(A \cup B)
      /\ Cardinality(A \cup B)
           = Cardinality(A) + Cardinality(B) - Cardinality(A \cap B)
      BY FS_Union
<1>3. Cardinality(A \cap B) = 0
      BY FS_EmptySet
<1> QED
  BY <1>1, <1>2, <1>3

LEMMA WaitingIsHeld ==
  Waiting = ToSet(queue) \cup ToSet(immediateQueue) \cup sending
              \cup (ToSet(inFlight["warn"]) \cup ToSet(inFlight["info"])
                      \cup ToSet(inFlight["last"]))
<1>1. UNION {ToSet(inFlight[s]) : s \in Slot}
        = ToSet(inFlight["warn"]) \cup ToSet(inFlight["info"])
            \cup ToSet(inFlight["last"])
      BY DEF Slot
<1> QED
  BY <1>1 DEF Waiting

LEMMA PlacedIsAccounted ==
  ASSUME QueueInv
  PROVE  Accounted
<1> DEFINE Q == ToSet(queue)
           M == ToSet(immediateQueue)
           W == ToSet(inFlight["warn"])
           I == ToSet(inFlight["info"])
           L == ToSet(inFlight["last"])
<1>1. /\ IsFiniteSet(Q) /\ Cardinality(Q) = Len(queue)
      /\ IsFiniteSet(M) /\ Cardinality(M) = Len(immediateQueue)
      BY InjectiveCardinality
         DEF QueueInv, QueueTypes, Placed, Distinct
<1>2. \A s \in Slot : /\ IsFiniteSet(ToSet(inFlight[s]))
                      /\ Cardinality(ToSet(inFlight[s])) = Len(inFlight[s])
      BY InjectiveCardinality
         DEF QueueInv, QueueTypes, Placed, Distinct
<1>3. /\ IsFiniteSet(W) /\ Cardinality(W) = Len(inFlight["warn"])
      /\ IsFiniteSet(I) /\ Cardinality(I) = Len(inFlight["info"])
      /\ IsFiniteSet(L) /\ Cardinality(L) = Len(inFlight["last"])
      BY <1>2 DEF Slot
<1>4. IsFiniteSet(sending)
      BY FS_Singleton, FS_EmptySet DEF QueueInv, Placed, Distinct
<1>5. /\ W \cap I = {} /\ W \cap L = {} /\ I \cap L = {}
      /\ Q \cap W = {} /\ Q \cap I = {} /\ Q \cap L = {}
      /\ sending \cap M = {}
      BY DEF QueueInv, Placed, Apart, Slot
<1>6. /\ (M \cup sending) \cap Q = {}
      /\ (M \cup sending) \cap W = {}
      /\ (M \cup sending) \cap I = {}
      /\ (M \cup sending) \cap L = {}
      BY InFlightIsBatched DEF QueueInv, Placed, Sorted, Slot
<1>7. Waiting = Q \cup M \cup sending \cup (W \cup I \cup L)
      BY WaitingIsHeld
<1>8. {n \in Note : fate[n] = "open"} = Waiting
  <2>1. \A n \in Note : Held(n) <=> n \in Waiting
        BY <1>7 DEF Held, Slot
  <2>2. Waiting \subseteq Note
    <3>1. /\ Q \subseteq Note /\ M \subseteq Note /\ sending \subseteq Note
          /\ \A s \in Slot : ToSet(inFlight[s]) \subseteq Note
          BY ToSetOfSeq DEF QueueInv, QueueTypes
    <3> QED
      BY <1>7, <3>1 DEF Slot
  <2> QED
    BY <2>1, <2>2 DEF QueueInv, Placed, OpenHeld
<1> HIDE DEF Q, M, W, I, L
<1>9. Cardinality(Waiting) =
        Cardinality(Q) + Cardinality(M) + Cardinality(sending)
          + Cardinality(W) + Cardinality(I) + Cardinality(L)
  <2>1. /\ IsFiniteSet(W \cup I \cup L)
        /\ Cardinality(W \cup I \cup L)
             = Cardinality(W) + Cardinality(I) + Cardinality(L)
    <3>1. (W \cup I) \cap L = {}
          BY <1>5
    <3>2. /\ IsFiniteSet(W \cup I)
          /\ Cardinality(W \cup I) = Cardinality(W) + Cardinality(I)
          BY <1>3, <1>5, DisjointUnion
    <3>3. /\ IsFiniteSet((W \cup I) \cup L)
          /\ Cardinality((W \cup I) \cup L)
               = Cardinality(W \cup I) + Cardinality(L)
          BY <1>3, <3>1, <3>2, DisjointUnion
    <3> QED
      BY <3>2, <3>3
  <2>2. /\ IsFiniteSet(Q \cup M \cup sending)
        /\ Cardinality(Q \cup M \cup sending)
             = Cardinality(Q) + Cardinality(M) + Cardinality(sending)
    <3>1. Q \cap M = {} /\ (Q \cup M) \cap sending = {}
          BY <1>5, <1>6
    <3>2. /\ IsFiniteSet(Q \cup M)
          /\ Cardinality(Q \cup M) = Cardinality(Q) + Cardinality(M)
          BY <1>1, <3>1, DisjointUnion
    <3>3. /\ IsFiniteSet((Q \cup M) \cup sending)
          /\ Cardinality((Q \cup M) \cup sending)
               = Cardinality(Q \cup M) + Cardinality(sending)
          BY <1>4, <3>1, <3>2, DisjointUnion
    <3> QED
      BY <3>2, <3>3
  <2>3. (Q \cup M \cup sending) \cap (W \cup I \cup L) = {}
        BY <1>5, <1>6
  <2>4. /\ Cardinality(Q) \in Nat /\ Cardinality(M) \in Nat
        /\ Cardinality(sending) \in Nat /\ Cardinality(W) \in Nat
        /\ Cardinality(I) \in Nat /\ Cardinality(L) \in Nat
        BY <1>1, <1>3, <1>4, FS_CardinalityType
  <2>5. Cardinality(Waiting) = Cardinality(Q \cup M \cup sending)
                                + Cardinality(W \cup I \cup L)
        BY <1>7, <2>1, <2>2, <2>3, DisjointUnion
  <2> QED
    BY <2>1, <2>2, <2>4, <2>5
<1>10. Cardinality(Waiting) =
         Len(queue) + Len(immediateQueue) + Cardinality(sending)
           + Len(inFlight["warn"]) + Len(inFlight["info"])
           + Len(inFlight["last"])
       BY <1>1, <1>3, <1>9
<1>11. /\ \A n \in ToSet(queue) \cup ToSet(inFlight["last"]) : ~Immediate(n)
       /\ \A level \in Level :
            \A n \in ToSet(inFlight[level]) : SeverityOf(n) = level
       BY DEF QueueInv, Placed, Sorted
<1> QED
  BY <1>8, <1>10, <1>11 DEF Accounted

LEMMA InitTimes == ASSUME Init PROVE TimeTypes
BY NotifierConstants DEF Init, TimeTypes, NotifierConstants, Never

\* Whatever fails, ends late or dies, each event that waits is in one place
\* only, and the queues hold nothing else: notify(), the worker, the flushes
\* and shutdown() neither forget an event nor double it.
THEOREM NotifierInvHolds == Spec => []NotifierInv
<1>1. TimeTypes /\ [Next]_vars => TimeTypes'
      BY TimeTypesStep
<1>2. Spec => []TimeTypes
      BY <1>1, InitTimes, PTL DEF Spec
<1>3. QueueInv /\ TimeTypes => NotifierInv
      BY TypesOfBoth, PlacedIsAccounted DEF QueueInv, NotifierInv
<1> QED
  BY <1>2, <1>3, QueueInvariant, PTL

-----------------------------------------------------------------------------
(***************************************************************************)
(* shutdown() leaves nothing untried: an event that was queued in time is  *)
(* somewhere where it will still be looked for.                            *)
(***************************************************************************)

\* The flush of its level, or the worker, is still to come.
Awaited(n) ==
  \/ n \in ToSet(immediateQueue) /\ worker # "ended"
  \/ n \in ToSet(queue) /\ life \in {"up", "drain"}
  \/ n \in ToSet(queue) /\ life = "warn" /\ SeverityOf(n) = "info"

Tended(n) == n \in tried \/ fate[n] = "dropped" \/ Awaited(n)

\* The stages of shutdown(): the worker has been awaited before the flushes,
\* and only its last stage writes in its name.
Stages ==
  /\ life \in {"warn", "info", "persist", "down"} => worker = "ended"
  /\ \A w \in writes : w.by = "shutdown" => life \in {"persist", "down"}

TendedInTime ==
  /\ inTime \subseteq Note
  /\ \A n \in inTime : fate[n] # "uncalled"
  /\ life # "off" => \A n \in inTime : Tended(n)

DrainInv == Stages /\ TendedInTime

LEMMA InitDrain == ASSUME Init PROVE DrainInv
BY DEF Init, DrainInv, Stages, TendedInTime

LEMMA StagesStep ==
  ASSUME QueueInv, Stages, [Next]_vars
  PROVE  Stages'
<1> USE DEF Stages
<1>1. ASSUME NEW n \in Note, Skip(n) \/ PushBatched(n)
      PROVE  Stages'
  BY <1>1 DEF Skip, PushBatched, queues, dedup
<1>2. ASSUME NEW n \in Note, PushImmediate(n)
      PROVE  Stages'
  <2> DEFINE new == [times |-> lastSentAt', by |-> "push"]
  <2>1. new.by = "push" /\ writes' = writes \cup {new}
        BY <1>2 DEF PushImmediate
  <2> HIDE DEF new
  <2> QED
    BY <1>2, <2>1 DEF PushImmediate
<1>3. CASE WorkerTakes \/ WorkerSent \/ WorkerFails \/ WorkerEnds
  BY <1>3 DEF WorkerTakes, WorkerSent, WorkerFails, WorkerEnds, dedup
<1>4. CASE \/ \E level \in Level : TimerFlush(level)
           \/ \E slot \in Slot : BatchSent(slot) \/ BatchFails(slot)
  BY <1>4 DEF TimerFlush, BatchSent, BatchFails, dedup
<1>5. ASSUME NEW write \in writes, PersistEnds(write)
      PROVE  Stages'
  BY <1>5 DEF PersistEnds, queues
<1>6. CASE FlushWarn \/ FlushInfo \/ Shutdown
  BY <1>6 DEF FlushWarn, FlushInfo, LastFlush, Shutdown, queues, dedup
<1>7. CASE LastPersist
  BY <1>7 DEF LastPersist, queues
<1>8. CASE Dies
  BY <1>8 DEF Dies
<1>9. CASE Boots
  BY <1>9 DEF Boots
<1>10. CASE LoadDedup \/ Tick \/ UNCHANGED vars
  BY <1>10 DEF LoadDedup, Tick, vars, queues, dedup
<1> QED
  BY <1>1, <1>2, <1>3, <1>4, <1>5, <1>6, <1>7, <1>8, <1>9, <1>10
     DEF Next, Work

\* What a step that only moves events on has to show.
LEMMA TendedStays ==
  ASSUME QueueInv, TendedInTime, inTime' = inTime,
         life' # "off" => life # "off",
         \A n \in Note : fate[n] # "uncalled" => fate'[n] # "uncalled",
         life' # "off" => \A n \in inTime : Tended(n) => Tended(n)'
  PROVE  TendedInTime'
BY DEF TendedInTime

\* An event that is settled was in a queue or a message, so it was not dropped.
LEMMA SettledWasOpen ==
  ASSUME QueueInv, NEW ns, NEW f \in Fate \ {"uncalled"}, Settle(ns, f),
         \A n \in Note : n \in ns => Held(n)
  PROVE  \A n \in Note : /\ fate[n] # "uncalled" => fate'[n] # "uncalled"
                         /\ fate[n] = "dropped" => fate'[n] = "dropped"
BY DEF QueueInv, Placed, OpenHeld, Settle, QueueTypes

LEMMA SkipTended ==
  ASSUME QueueInv, TendedInTime, NEW n \in Note, Skip(n)
  PROVE  TendedInTime'
<1>1. /\ fate[n] = "uncalled"
      /\ fate' = [m \in Note |-> IF m \in {n} THEN "over" ELSE fate[m]]
      /\ UNCHANGED <<life, queue, immediateQueue, worker, tried, inTime>>
      BY DEF Skip, Settle, queues, history
<1>2. \A m \in inTime : Tended(m) => Tended(m)'
      BY <1>1 DEF TendedInTime, Tended, Awaited
<1> QED
  BY <1>1, <1>2, TendedStays

LEMMA PushImmediateTended ==
  ASSUME QueueInv, TendedInTime, NEW n \in Note, PushImmediate(n)
  PROVE  TendedInTime'
<1>1. /\ life # "off" /\ fate[n] = "uncalled"
      /\ immediateQueue' = Append(immediateQueue, n)
      /\ fate' = [m \in Note |-> IF m \in {n} THEN "open" ELSE fate[m]]
      /\ inTime' = IF worker # "ended" THEN inTime \cup {n} ELSE inTime
      /\ UNCHANGED <<life, queue, worker, tried>>
      BY DEF PushImmediate, Settle, Alive
<1>2. ToSet(immediateQueue') = ToSet(immediateQueue) \cup {n}
      BY <1>1, AppendToSet DEF QueueInv, QueueTypes
<1>3. \A m \in inTime : m # n /\ Tended(m)'
      BY <1>1, <1>2 DEF TendedInTime, Tended, Awaited
<1>4. worker # "ended" => Tended(n)'
      BY <1>1, <1>2 DEF Tended, Awaited
<1> QED
  BY <1>1, <1>3, <1>4 DEF TendedInTime

LEMMA PushBatchedTended ==
  ASSUME QueueInv, TendedInTime, NEW n \in Note, PushBatched(n)
  PROVE  TendedInTime'
<1> DEFINE longer == Append(queue, n)
           cut    == Excess(longer)
           lost   == {longer[i] : i \in 1..cut}
<1>1. /\ life # "off" /\ fate[n] = "uncalled"
      /\ queue' = SubSeq(longer, cut + 1, Len(longer))
      /\ fate' = [m \in Note |-> IF m \in lost THEN "dropped"
                                ELSE IF m = n THEN "open" ELSE fate[m]]
      /\ inTime' = IF \/ life \in {"up", "drain"}
                      \/ life = "warn" /\ SeverityOf(n) = "info"
                   THEN inTime \cup {n} ELSE inTime
      /\ UNCHANGED <<life, immediateQueue, worker, tried>>
  <2>1. \A m \in Note : (\E i \in 1..cut : longer[i] = m) <=> m \in lost
        OBVIOUS
  <2> QED
    BY <2>1 DEF PushBatched, Alive
<1>2. /\ longer \in Seq(Note) /\ cut \in 0..Len(longer)
      /\ ToSet(longer) = ToSet(queue) \cup {n}
      BY AppendToSet, CutOfLonger DEF QueueInv, QueueTypes
<1> HIDE DEF longer, cut
<1>3. ToSet(queue) \cup {n} = lost \cup ToSet(queue')
      BY <1>1, <1>2, CutToSet
<1> HIDE DEF lost
<1>4. ASSUME NEW m \in inTime
      PROVE  m # n /\ Tended(m)'
  <2>1. m \in Note /\ m # n /\ Tended(m)
        BY <1>1 DEF TendedInTime
  <2>2. CASE m \in lost
    BY <1>1, <2>1, <2>2 DEF Tended
  <2>3. CASE m \notin lost
    BY <1>1, <1>3, <2>1, <2>3 DEF Tended, Awaited
  <2> QED
    BY <2>2, <2>3
<1>5. \/ life \in {"up", "drain"}
      \/ life = "warn" /\ SeverityOf(n) = "info"
      => Tended(n)'
      BY <1>1, <1>3 DEF Tended, Awaited
<1>6. \A m \in inTime' : m \in Note /\ fate'[m] # "uncalled"
      BY <1>1, <1>4 DEF TendedInTime
<1>7. \A m \in inTime' : Tended(m)'
      BY <1>1, <1>4, <1>5
<1> QED
  BY <1>6, <1>7 DEF TendedInTime

LEMMA WorkerTakesTended ==
  ASSUME QueueInv, TendedInTime, WorkerTakes
  PROVE  TendedInTime'
<1>1. /\ ToSet(immediateQueue)
           = ToSet(immediateQueue') \cup {Head(immediateQueue)}
      /\ tried' = tried \cup {Head(immediateQueue)}
      /\ worker' = "send"
      /\ UNCHANGED <<life, fate, queue, inTime>>
      BY TailToSet DEF WorkerTakes, QueueInv, QueueTypes
<1>2. \A m \in inTime : Tended(m) => Tended(m)'
      BY <1>1 DEF Tended, Awaited
<1> QED
  BY <1>1, <1>2, TendedStays

LEMMA SendEndsTended ==
  ASSUME QueueInv, TendedInTime, WorkerSent \/ WorkerFails
  PROVE  TendedInTime'
<1>1. /\ worker' = "poll" /\ Settle(sending, "over")
      /\ UNCHANGED <<life, queue, immediateQueue, tried, inTime>>
      BY DEF WorkerSent, WorkerFails, history
<1>2. \A m \in Note : /\ fate[m] # "uncalled" => fate'[m] # "uncalled"
                      /\ fate[m] = "dropped" => fate'[m] = "dropped"
      BY <1>1, SettledWasOpen DEF Held, Fate
<1>3. \A m \in inTime : Tended(m) => Tended(m)'
      BY <1>1, <1>2 DEF TendedInTime, Tended, Awaited
<1> QED
  BY <1>1, <1>2, <1>3, TendedStays

LEMMA WorkerEndsTended ==
  ASSUME QueueInv, TendedInTime, WorkerEnds
  PROVE  TendedInTime'
<1>1. /\ ToSet(immediateQueue) = {}
      /\ UNCHANGED <<life, fate, queue, tried, inTime>>
      BY EmptyToSet DEF WorkerEnds, WorkerDone, history
<1>2. \A m \in inTime : Tended(m) => Tended(m)'
      BY <1>1 DEF Tended, Awaited
<1> QED
  BY <1>1, <1>2, TendedStays

LEMMA BatchedIsOfLevel ==
  ASSUME NEW n, ~Immediate(n)
  PROVE  SeverityOf(n) = "warn" \/ SeverityOf(n) = "info"
BY DEF Immediate, SeverityOf

LEMMA FlushTries ==
  ASSUME QueueInv, NEW slot, NEW level, Flush(slot, level),
         NEW n \in ToSet(queue)
  PROVE  \/ SeverityOf(n) = level /\ n \in tried'
         \/ SeverityOf(n) # level /\ n \in ToSet(queue')
<1>1. Batch(level) \in Seq(Note)
      BY FlushDivides DEF QueueInv, QueueTypes
<1>2. tried' = tried \cup ToSet(Batch(level))
      BY <1>1, ToSetOfSeq DEF Flush
<1> QED
  BY <1>2, FlushDivides DEF Flush, QueueInv, QueueTypes

LEMMA FlushTended ==
  ASSUME QueueInv, Stages, TendedInTime,
         \/ \E level \in Level : TimerFlush(level)
         \/ FlushWarn \/ FlushInfo
  PROVE  TendedInTime'
<1>1. /\ UNCHANGED <<fate, immediateQueue, worker, inTime>>
      /\ tried \subseteq tried' /\ life # "off"
      BY DEF TimerFlush, FlushWarn, FlushInfo, LastFlush, Flush
<1>2. ASSUME NEW m \in inTime, Tended(m), m \in ToSet(queue), Awaited(m)
      PROVE  Tended(m)'
  <2>1. ~Immediate(m)
        BY <1>2 DEF QueueInv, Placed, Sorted
  <2>2. ASSUME NEW level \in Level, TimerFlush(level)
        PROVE  Tended(m)'
    <3>1. m \in tried' \/ m \in ToSet(queue')
          BY <1>2, <2>2, FlushTries DEF TimerFlush
    <3> QED
      BY <2>2, <3>1 DEF TimerFlush, Tended, Awaited
  <2>3. CASE FlushWarn
    <3>1. \/ m \in tried'
          \/ SeverityOf(m) # "warn" /\ m \in ToSet(queue')
          BY <1>2, <2>3, FlushTries DEF FlushWarn, LastFlush
    <3> QED
      BY <2>1, <2>3, <3>1, BatchedIsOfLevel
         DEF FlushWarn, LastFlush, Tended, Awaited
  <2>4. CASE FlushInfo
    <3>1. worker = "ended" /\ SeverityOf(m) = "info"
          BY <1>2, <2>4, BatchedIsOfLevel
             DEF FlushInfo, LastFlush, Stages, Awaited, Immediate, QueueInv,
                 Placed, Sorted
    <3>2. m \in tried'
          BY <1>2, <2>4, <3>1, FlushTries DEF FlushInfo, LastFlush
    <3> QED
      BY <3>2 DEF Tended
  <2> QED
    BY <2>2, <2>3, <2>4
<1>3. ASSUME NEW m \in inTime, Tended(m)
      PROVE  Tended(m)'
  <2>1. CASE m \in tried \/ fate[m] = "dropped"
    BY <1>1, <2>1 DEF Tended
  <2>2. CASE m \in ToSet(immediateQueue) /\ worker # "ended"
    BY <1>1, <2>2 DEF Tended, Awaited
  <2>3. CASE m \in ToSet(queue) /\ Awaited(m)
    BY <1>2, <1>3, <2>3
  <2> QED
    BY <1>3, <2>1, <2>2, <2>3 DEF Tended, Awaited
<1> QED
  BY <1>1, <1>3, TendedStays

LEMMA BatchSentTended ==
  ASSUME QueueInv, TendedInTime, NEW slot \in Slot, BatchSent(slot)
  PROVE  TendedInTime'
<1>1. /\ Settle(ToSet(inFlight[slot]), "over")
      /\ UNCHANGED <<life, queue, immediateQueue, worker, tried, inTime>>
      BY DEF BatchSent, history
<1>2. \A m \in Note : /\ fate[m] # "uncalled" => fate'[m] # "uncalled"
                      /\ fate[m] = "dropped" => fate'[m] = "dropped"
      BY <1>1, SettledWasOpen DEF Held, Fate
<1>3. \A m \in inTime : Tended(m) => Tended(m)'
      BY <1>1, <1>2 DEF TendedInTime, Tended, Awaited
<1> QED
  BY <1>1, <1>2, <1>3, TendedStays

LEMMA BatchFailsTended ==
  ASSUME QueueInv, TendedInTime, NEW slot \in Slot, BatchFails(slot)
  PROVE  TendedInTime'
<1>1. ToSet(queue') = ToSet(queue) \cup ToSet(inFlight[slot])
      BY ConcatToSet DEF BatchFails, BackInQueue, QueueInv, QueueTypes
<1>2. UNCHANGED <<life, fate, immediateQueue, worker, tried, inTime>>
      BY DEF BatchFails, history
<1>3. \A m \in inTime : Tended(m) => Tended(m)'
      BY <1>1, <1>2 DEF Tended, Awaited
<1> QED
  BY <1>2, <1>3, TendedStays

\* The steps that leave the queues alone.
LEMMA StageTended ==
  ASSUME QueueInv, Stages, TendedInTime,
         UNCHANGED <<fate, queue, immediateQueue, worker, tried, inTime>>,
         \/ life' = life
         \/ life = "up" /\ life' = "drain"
         \/ life \in {"info", "persist", "down"}
  PROVE  TendedInTime'
BY DEF TendedInTime, Tended, Awaited

LEMMA TendedStep ==
  ASSUME QueueInv, Stages, TendedInTime, [Next]_vars
  PROVE  TendedInTime'
<1>1. ASSUME NEW n \in Note, Skip(n) \/ PushImmediate(n) \/ PushBatched(n)
      PROVE  TendedInTime'
  BY <1>1, SkipTended, PushImmediateTended, PushBatchedTended
<1>2. CASE WorkerTakes \/ WorkerSent \/ WorkerFails \/ WorkerEnds
  BY <1>2, WorkerTakesTended, SendEndsTended, WorkerEndsTended
<1>3. CASE \/ \E level \in Level : TimerFlush(level)
           \/ FlushWarn \/ FlushInfo
  BY <1>3, FlushTended
<1>4. ASSUME NEW slot \in Slot, BatchSent(slot) \/ BatchFails(slot)
      PROVE  TendedInTime'
  BY <1>4, BatchSentTended, BatchFailsTended
<1>5. CASE LoadDedup \/ Shutdown \/ LastPersist \/ Tick
  BY <1>5, StageTended
     DEF LoadDedup, Shutdown, LastPersist, Tick, queues, history
<1>6. ASSUME NEW write \in writes, PersistEnds(write)
      PROVE  TendedInTime'
  <2>1. life' = life \/ life \in {"persist", "down"}
        BY <1>6 DEF PersistEnds, Stages
  <2> QED
    BY <1>6, <2>1, StageTended DEF PersistEnds, queues, history
<1>7. CASE Dies
  BY <1>7 DEF Dies, TendedInTime, history
<1>8. CASE Boots
  BY <1>8 DEF Boots, TendedInTime
<1>9. CASE UNCHANGED vars
  BY <1>9, StageTended DEF vars, queues, history
<1> QED
  BY <1>1, <1>2, <1>3, <1>4, <1>5, <1>6, <1>7, <1>8, <1>9 DEF Next, Work

\* When shutdown() is over, each event that was queued before the worker ended
\* or the last flush of its level has been in a message, or was dropped at the
\* bound of the queue, whatever failed or was in the air meanwhile
\* (Notifier.shutdown()).
THEOREM DrainedHolds == Spec => []Drained
<1>1. Init => DrainInv
      BY InitDrain
<1>2. QueueInv /\ DrainInv /\ [Next]_vars => DrainInv'
      BY StagesStep, TendedStep DEF DrainInv
<1>3. DrainInv => Drained
      BY DEF DrainInv, Stages, TendedInTime, Tended, Awaited, Drained
<1> QED
  BY <1>1, <1>2, <1>3, QueueInvariant, PTL DEF Spec

-----------------------------------------------------------------------------
(***************************************************************************)
(* Notifier implements EventDelivery.                                      *)
(***************************************************************************)
Unseen   == {n \in Note : fate[n] = "uncalled"}
Messages == ({sending} \cup {ToSet(inFlight[s]) : s \in Slot}) \ {{}}
Urgents  == {n \in Note : Immediate(n)}
Levels   == [n \in Note |-> SeverityOf(n)]
Repeatables == {n \in Note : SeverityOf(n) = "high"}

\* What the mapping shows of a step that leaves the places of events alone.
LEMMA PlacesStay ==
  ASSUME UNCHANGED <<queue, immediateQueue, sending, inFlight>>
  PROVE  /\ Messages' = Messages /\ ToSet(queue)' = ToSet(queue)
         /\ immediateQueue' = immediateQueue
BY DEF Messages

LEMMA HeldIsSeen ==
  ASSUME QueueInv, NEW n \in Note, Held(n)
  PROVE  fate[n] = "open"
BY DEF QueueInv, Placed, OpenHeld

\* Only a call of notify() makes an event seen.
LEMMA SettledUnseen ==
  ASSUME QueueInv, NEW ns, NEW f \in Fate \ {"uncalled"}, Settle(ns, f)
  PROVE  Unseen' = Unseen \ ns
BY DEF Unseen, Settle, QueueInv, QueueTypes

LEMMA SettledHeld ==
  ASSUME QueueInv, NEW ns \in SUBSET Note, \A n \in ns : Held(n),
         NEW f \in Fate \ {"uncalled"}, Settle(ns, f)
  PROVE  Unseen' = Unseen
<1>1. ns \cap Unseen = {}
      BY HeldIsSeen DEF Unseen
<1> QED
  BY <1>1, SettledUnseen

LEMMA DeliveryInit == ASSUME Init PROVE Delivery!Init
<1>1. Unseen = Note /\ Messages = {} /\ ToSet(queue) = {}
      BY EmptyToSet DEF Init, Unseen, Messages
<1>2. immediateQueue = <<>>
      BY DEF Init
<1> QED
  BY <1>1, <1>2 DEF Delivery!Init, Unseen, Messages

\* The mapping of the messages when one slot changes.
LEMMA MessagesOf ==
  ASSUME QueueInv, NEW slot \in Slot, UNCHANGED sending,
         NEW b, inFlight' = [inFlight EXCEPT ![slot] = b]
  PROVE  /\ inFlight[slot] = <<>> =>
              Messages' = (Messages \cup {ToSet(b)}) \ {{}}
         /\ inFlight[slot] # <<>> /\ b = <<>> =>
              /\ Messages' = Messages \ {ToSet(inFlight[slot])}
              /\ ToSet(inFlight[slot]) \in Messages
<1>1. /\ inFlight'[slot] = b
      /\ \A s \in Slot : s # slot => inFlight'[s] = inFlight[s]
      BY DEF QueueInv, QueueTypes
<1>2. inFlight[slot] = <<>> => Messages' = (Messages \cup {ToSet(b)}) \ {{}}
      BY <1>1, EmptyToSet DEF Messages
<1>3. ASSUME inFlight[slot] # <<>>, b = <<>>
      PROVE  /\ Messages' = Messages \ {ToSet(inFlight[slot])}
             /\ ToSet(inFlight[slot]) \in Messages
  <2> DEFINE B == ToSet(inFlight[slot])
  <2>1. B # {}
    <3>1. inFlight[slot] \in Seq(Note)
          BY DEF QueueInv, QueueTypes
    <3>2. Head(inFlight[slot]) \in B
          BY <1>3, <3>1, TailToSet
    <3> QED
      BY <3>2
  <2>2. \A s \in Slot : s # slot => ToSet(inFlight[s]) \cap B = {}
        BY DEF QueueInv, Placed, Apart
  <2>3. sending \cap B = {}
        BY InFlightIsBatched DEF QueueInv, Placed, Sorted
  <2> HIDE DEF B
  <2>4. \A s \in Slot : s # slot => ToSet(inFlight[s]) # B
        BY <2>1, <2>2
  <2>5. sending # B
        BY <2>1, <2>3
  <2>6. ToSet(inFlight'[slot]) = {}
        BY <1>1, <1>3, EmptyToSet
  <2>7. \A s \in Slot : s # slot => ToSet(inFlight'[s]) = ToSet(inFlight[s])
        BY <1>1
  <2>8. Messages' = Messages \ {B}
        BY <2>4, <2>5, <2>6, <2>7 DEF Messages, B
  <2>9. B \in Messages
        BY <2>1 DEF Messages, B
  <2> QED
    BY <2>8, <2>9 DEF B
<1> QED
  BY <1>2, <1>3

(***************************************************************************)
(* Only the times of urgent events are ever recorded, so that a warning,   *)
(* which is looked up like a high event, is never taken for a repetition.  *)
(***************************************************************************)
UrgentTimes(times) ==
  \A n \in Note : times[EventOf[n]] # 0 => Immediate(n)

TimesInv ==
  /\ UrgentTimes(lastSentAt) /\ UrgentTimes(file)
  /\ \A w \in writes : UrgentTimes(w.times)

LEMMA InitTimesInv == ASSUME Init PROVE TimesInv
BY DEF Init, TimesInv, UrgentTimes, Never, Types

LEMMA TypeOfNote ==
  ASSUME NEW n \in Note, NEW m \in Note, EventOf[n] = EventOf[m]
  PROVE  EventOf[n] \in Types /\ (Immediate(n) <=> Immediate(m))
BY DEF Types, Immediate, SeverityOf

LEMMA TimesInvStep ==
  ASSUME TimeTypes, TimesInv, [Next]_vars
  PROVE  TimesInv'
<1> USE DEF TimesInv
<1>1. ASSUME NEW m \in Note, PushImmediate(m)
      PROVE  TimesInv'
  <2>1. UrgentTimes(lastSentAt')
    <3> SUFFICES ASSUME NEW n \in Note, lastSentAt'[EventOf[n]] # 0
                 PROVE  Immediate(n)
      BY DEF UrgentTimes
    <3>1. CASE EventOf[n] = EventOf[m]
          BY <1>1, <3>1, TypeOfNote DEF PushImmediate
    <3>2. CASE EventOf[n] # EventOf[m]
      <4>1. EventOf[n] \in Types
            BY TypeOfNote
      <4>2. lastSentAt'[EventOf[n]] = lastSentAt[EventOf[n]]
            BY <1>1, <3>2, <4>1 DEF PushImmediate, TimeTypes
      <4> QED
        BY <4>2 DEF UrgentTimes
    <3> QED
      BY <3>1, <3>2
  <2>2. \A w \in writes' : UrgentTimes(w.times)
    <3> DEFINE new == [times |-> lastSentAt', by |-> "push"]
    <3>1. UrgentTimes(new.times)
          BY <2>1
    <3>2. writes' = writes \cup {new}
          BY <1>1 DEF PushImmediate
    <3> HIDE DEF new
    <3> QED
      BY <3>1, <3>2
  <2>3. UNCHANGED file
        BY <1>1 DEF PushImmediate
  <2> QED
    BY <2>1, <2>2, <2>3 DEF UrgentTimes
<1>2. CASE LoadDedup
  <2>1. \A n \in Note : EventOf[n] \in Types
        BY TypeOfNote
  <2>2. UrgentTimes(lastSentAt')
        BY <1>2, <2>1 DEF LoadDedup, UrgentTimes
  <2>3. UNCHANGED <<file, writes>>
        BY <1>2 DEF LoadDedup
  <2> QED
    BY <2>2, <2>3 DEF UrgentTimes
<1>3. ASSUME NEW write \in writes, PersistEnds(write)
      PROVE  TimesInv'
  <2>1. UNCHANGED lastSentAt /\ file' \in {write.times, file}
        BY <1>3 DEF PersistEnds
  <2>2. UrgentTimes(file')
        BY <2>1
  <2>3. writes' \subseteq writes
        BY <1>3 DEF PersistEnds
  <2> QED
    BY <2>1, <2>2, <2>3 DEF UrgentTimes
<1>4. CASE LastPersist
  <2>1. UNCHANGED <<lastSentAt, file>>
        BY <1>4 DEF LastPersist
  <2>2. \A w \in writes' : UrgentTimes(w.times)
    <3> DEFINE new == [times |-> lastSentAt, by |-> "shutdown"]
    <3>1. UrgentTimes(new.times)
          OBVIOUS
    <3>2. writes' = writes \cup {new}
          BY <1>4 DEF LastPersist
    <3> HIDE DEF new
    <3> QED
      BY <3>1, <3>2
  <2> QED
    BY <2>1, <2>2 DEF UrgentTimes
<1>5. CASE Boots
  <2>1. UrgentTimes(lastSentAt')
        BY <1>5, TypeOfNote DEF Boots, Never, UrgentTimes
  <2>2. UNCHANGED <<file, writes>>
        BY <1>5 DEF Boots
  <2> QED
    BY <2>1, <2>2 DEF UrgentTimes
<1>6. CASE Dies
  BY <1>6 DEF Dies, UrgentTimes
<1>7. CASE UNCHANGED dedup
  BY <1>7 DEF dedup, UrgentTimes
<1> QED
  BY <1>1, <1>2, <1>3, <1>4, <1>5, <1>6, <1>7
     DEF Next, Work, Skip, PushBatched, WorkerTakes, WorkerSent, WorkerFails,
         WorkerEnds, TimerFlush, BatchSent, BatchFails, FlushWarn, FlushInfo,
         LastFlush, Shutdown, Tick, vars

LEMMA SkipDelivers ==
  ASSUME QueueInv, TimesInv, NEW n \in Note, Skip(n)
  PROVE  n \in Unseen /\ Delivery!Skip(n)
<1>1. n \in Unseen /\ n \in Repeatables
  <2>1. fate[n] = "uncalled" /\ SeverityOf(n) # "critical"
        /\ lastSentAt[EventOf[n]] # 0
        BY DEF Skip, Repeated
  <2>2. Immediate(n)
        BY <2>1 DEF TimesInv, UrgentTimes
  <2> QED
    BY <2>1, <2>2 DEF Unseen, Immediate, Repeatables
<1>2. Unseen' = Unseen \ {n}
      BY SettledUnseen DEF Skip, Fate
<1>3. UNCHANGED <<queue, immediateQueue, sending, inFlight>>
      BY DEF Skip, queues
<1> QED
  BY <1>1, <1>2, <1>3, PlacesStay
     DEF Delivery!Skip, Unseen, Messages, Repeatables

LEMMA PushImmediateDelivers ==
  ASSUME QueueInv, NEW n \in Note, PushImmediate(n)
  PROVE  n \in Unseen /\ Delivery!LineUp(n)
<1>1. n \in Unseen /\ n \in Urgents
      BY DEF PushImmediate, Unseen, Urgents
<1>2. Unseen' = Unseen \ {n}
      BY SettledUnseen DEF PushImmediate, Fate
<1>3. /\ immediateQueue' = Append(immediateQueue, n)
      /\ ToSet(queue)' = ToSet(queue) /\ Messages' = Messages
      BY DEF PushImmediate, Messages
<1> QED
  BY <1>1, <1>2, <1>3 DEF Delivery!LineUp, Unseen, Messages, Urgents

\* What the bound leaves of the queue: everything up to it, and the new event.
LEMMA PushBatchedKeeps ==
  ASSUME QueueInv, NEW n \in Note, PushBatched(n)
  PROVE  \E kept \in SUBSET ToSet(queue) :
           /\ IF Cardinality(ToSet(queue)) < QUEUE_HIGH_MAX
              THEN kept = ToSet(queue)
              ELSE Cardinality(kept) = QUEUE_HIGH_MAX - 1
           /\ ToSet(queue') = kept \cup {n}
<1> DEFINE longer == Append(queue, n)
           cut    == Excess(longer)
           lost   == {longer[i] : i \in 1..cut}
           kept   == ToSet(queue') \ {n}
<1>1. queue \in Seq(Note) /\ IsInjective(queue) /\ n \notin ToSet(queue)
      BY DEF QueueInv, QueueTypes, Placed, Distinct, OpenHeld, Held, PushBatched
<1>2. /\ longer \in Seq(Note) /\ IsInjective(longer)
      /\ ToSet(longer) = ToSet(queue) \cup {n}
      /\ Len(longer) = Len(queue) + 1 /\ longer[Len(longer)] = n
      /\ Len(queue) \in Nat
      BY <1>1, AppendToSet, AppendProperties
<1>3. /\ cut \in 0..Len(longer) /\ cut < Len(longer)
      /\ queue' = SubSeq(longer, cut + 1, Len(longer))
      BY <1>1, CutOfLonger DEF PushBatched
<1>4. /\ cut = IF Len(longer) > QUEUE_HIGH_MAX
               THEN Len(longer) - QUEUE_HIGH_MAX ELSE 0
      /\ QUEUE_HIGH_MAX \in Nat \ {0}
      BY NotifierConstants DEF Excess, NotifierConstants
<1> HIDE DEF longer, cut
<1>5. /\ queue' \in Seq(Note) /\ IsInjective(queue')
      /\ ToSet(longer) = lost \cup ToSet(queue')
      BY <1>2, <1>3, CutToSet
<1>6. n \notin lost
  <2>1. \A i \in 1..cut : i \in DOMAIN longer /\ i # Len(longer)
        BY <1>2, <1>3
  <2>2. Len(longer) \in DOMAIN longer
        BY <1>2
  <2> QED
    BY <1>2, <2>1, <2>2 DEF IsInjective
<1>7. n \in ToSet(queue') /\ ToSet(queue') = kept \cup {n}
      /\ kept \in SUBSET ToSet(queue)
      BY <1>2, <1>5, <1>6
<1>8. Len(queue') = Len(longer) - cut
  <2>1. Len(queue') = IF cut + 1 <= Len(longer)
                      THEN Len(longer) - (cut + 1) + 1 ELSE 0
    <3>1. \A i \in (cut + 1)..Len(longer) : longer[i] \in Note
          BY <1>2, <1>3
    <3> QED
      BY <1>2, <1>3, <3>1, SubSeqProperties
  <2> QED
    BY <1>2, <1>3, <2>1
<1>9. Cardinality(ToSet(queue)) = Len(queue)
      BY <1>1, InjectiveCardinality
<1>10. IsFiniteSet(ToSet(queue')) /\ Cardinality(ToSet(queue')) = Len(queue')
      BY <1>5, InjectiveCardinality
<1>11. Cardinality(kept) = Len(queue') - 1
      BY <1>7, <1>10, FS_RemoveElement
<1>12. CASE Len(queue) < QUEUE_HIGH_MAX
  <2>1. cut = 0
        BY <1>2, <1>4, <1>12
  <2>2. lost = {}
        BY <2>1
  <2>3. kept = ToSet(queue)
        BY <1>1, <1>2, <1>5, <2>2
  <2> QED
    BY <1>7, <1>9, <1>12, <2>3
<1>13. CASE ~(Len(queue) < QUEUE_HIGH_MAX)
  <2>1. Len(queue') = QUEUE_HIGH_MAX
        BY <1>2, <1>4, <1>8, <1>13
  <2>2. Cardinality(kept) = QUEUE_HIGH_MAX - 1
        BY <1>11, <2>1
  <2> QED
    BY <1>7, <1>9, <1>13, <2>2
<1> QED
  BY <1>12, <1>13

LEMMA SameCardinality == \A S : Delivery!Cardinality(S) = Cardinality(S)
BY DEF Delivery!Cardinality, Cardinality

LEMMA PushBatchedDelivers ==
  ASSUME QueueInv, NEW n \in Note, PushBatched(n)
  PROVE  n \in Unseen /\ Delivery!Collect(n)
<1>1. n \in Unseen /\ n \notin Urgents
      BY DEF PushBatched, Unseen, Urgents
<1>2. UNCHANGED <<immediateQueue, sending, inFlight>>
      BY DEF PushBatched
<1>3. Unseen' = Unseen \ {n}
  <2> DEFINE longer == Append(queue, n)
             cut    == Excess(longer)
  <2>1. fate' = [m \in Note |->
                   IF \E i \in 1..cut : longer[i] = m THEN "dropped"
                   ELSE IF m = n THEN "open" ELSE fate[m]]
        BY DEF PushBatched
  <2>2. /\ longer \in Seq(Note) /\ cut \in 0..Len(longer)
        /\ ToSet(longer) = ToSet(queue) \cup {n}
        BY AppendToSet, CutOfLonger DEF QueueInv, QueueTypes
  <2> HIDE DEF longer, cut
  <2>3. \A i \in 1..cut : longer[i] \in ToSet(queue) \cup {n}
        BY <2>2 DEF ToSet
  <2>4. \A m \in ToSet(queue) : m \in Note => m \notin Unseen
        BY HeldIsSeen DEF Unseen, Held
  <2>5. ASSUME NEW m \in Note
        PROVE  fate'[m] = "uncalled" <=> fate[m] = "uncalled" /\ m # n
    <3>1. CASE \E i \in 1..cut : longer[i] = m
          BY <2>1, <2>3, <2>4, <3>1 DEF Unseen
    <3>2. CASE ~ \E i \in 1..cut : longer[i] = m
          BY <2>1, <3>2
    <3> QED
      BY <3>1, <3>2
  <2> QED
    BY <2>5 DEF Unseen
<1>4. Messages' = Messages
      BY <1>2 DEF Messages
<1>5. \E kept \in SUBSET ToSet(queue) :
        /\ IF Delivery!Cardinality(ToSet(queue)) < QUEUE_HIGH_MAX
           THEN kept = ToSet(queue)
           ELSE Delivery!Cardinality(kept) = QUEUE_HIGH_MAX - 1
        /\ ToSet(queue)' = kept \cup {n}
  <2>1. PICK kept \in SUBSET ToSet(queue) :
          /\ IF Cardinality(ToSet(queue)) < QUEUE_HIGH_MAX
             THEN kept = ToSet(queue)
             ELSE Cardinality(kept) = QUEUE_HIGH_MAX - 1
          /\ ToSet(queue') = kept \cup {n}
        BY PushBatchedKeeps
  <2>2. ToSet(queue)' = ToSet(queue')
        OBVIOUS
  <2> QED
    BY <2>1, <2>2, SameCardinality
<1> QED
  BY <1>1, <1>2, <1>3, <1>4, <1>5
     DEF Delivery!Collect, Unseen, Messages, Urgents

LEMMA WorkerTakesDelivers ==
  ASSUME QueueInv, WorkerTakes
  PROVE  Delivery!SendFirst
<1>1. /\ immediateQueue # <<>> /\ immediateQueue' = Tail(immediateQueue)
      /\ sending' = {Head(immediateQueue)} /\ worker = "poll"
      /\ UNCHANGED <<fate, queue, inFlight>>
      BY DEF WorkerTakes
<1>2. sending = {}
      BY <1>1 DEF QueueInv, Placed, Distinct
<1>3. Messages' = Messages \cup {{Head(immediateQueue)}}
      BY <1>1, <1>2 DEF Messages
<1>4. \A message \in Messages : message \cap Urgents = {}
      BY <1>2, InFlightIsBatched
         DEF Messages, Urgents, QueueInv, Placed
<1> QED
  BY <1>1, <1>3, <1>4 DEF Delivery!SendFirst, Messages, Urgents

LEMMA SendEndsDelivers ==
  ASSUME QueueInv, WorkerSent \/ WorkerFails
  PROVE  \E message \in Messages : Delivery!End(message)
<1>1. /\ worker = "send" /\ sending' = {} /\ Settle(sending, "over")
      /\ UNCHANGED <<queue, immediateQueue, inFlight>>
      BY DEF WorkerSent, WorkerFails
<1>2. PICK n \in Note : sending = {n}
      BY <1>1 DEF QueueInv, Placed, Distinct
<1>3. Unseen' = Unseen
      BY <1>1, <1>2, SettledHeld DEF Held, Fate
<1>4. \A s \in Slot : ToSet(inFlight[s]) # sending
      BY <1>2, InFlightIsBatched DEF QueueInv, Placed, Sorted
<1>5. Messages' = Messages \ {sending} /\ sending \in Messages
      BY <1>1, <1>2, <1>4 DEF Messages
<1> QED
  BY <1>1, <1>3, <1>5 DEF Delivery!End, Unseen, Messages

\* A flush sends what there is of its level, or nothing.
LEMMA FlushDelivers ==
  ASSUME QueueInv, NEW slot \in Slot, NEW level \in Level,
         inFlight[slot] = <<>>, Flush(slot, level),
         UNCHANGED <<fate, immediateQueue, sending>>
  PROVE  \/ \E n \in ToSet(queue) : Delivery!SendLevel(Levels[n])
         \/ UNCHANGED Delivery!vars
<1> DEFINE B == {n \in ToSet(queue) : SeverityOf(n) = level}
<1>1. /\ ToSet(Batch(level)) = B
      /\ ToSet(queue') = {n \in ToSet(queue) : SeverityOf(n) # level}
      BY FlushDivides DEF Flush, QueueInv, QueueTypes
<1>2. Messages' = (Messages \cup {B}) \ {{}}
      BY <1>1, MessagesOf DEF Flush
<1>3. Unseen' = Unseen
      BY DEF Unseen
<1>4. ToSet(queue) \subseteq Note
      BY ToSetOfSeq DEF QueueInv, QueueTypes
<1>5. CASE B = {}
  <2>1. Messages' = Messages
        BY <1>2, <1>5 DEF Messages
  <2>2. ToSet(queue') = ToSet(queue)
        BY <1>1, <1>5
  <2> QED
    BY <1>3, <2>1, <2>2 DEF Delivery!vars, Unseen, Messages
<1>6. CASE B # {}
  <2>1. PICK n \in ToSet(queue) : SeverityOf(n) = level
        BY <1>6
  <2>2. B = {m \in ToSet(queue) : Levels[m] = Levels[n]}
        BY <1>4, <2>1 DEF Levels
  <2>3. ToSet(queue') = ToSet(queue) \ B
        BY <1>1
  <2>4. Messages' = Messages \cup {B}
        BY <1>2, <1>6 DEF Messages
  <2> HIDE DEF B
  <2>5. Delivery!SendLevel(Levels[n])
        BY <1>3, <1>6, <2>2, <2>3, <2>4
           DEF Delivery!SendLevel, Unseen, Messages, Levels
  <2> QED
    BY <2>5
<1> QED
  BY <1>5, <1>6

LEMMA BatchSentDelivers ==
  ASSUME QueueInv, NEW slot \in Slot, BatchSent(slot)
  PROVE  \E message \in Messages : Delivery!End(message)
<1> DEFINE B == ToSet(inFlight[slot])
<1>1. B \in Messages /\ Messages' = Messages \ {B}
      BY MessagesOf DEF BatchSent
<1>2. B \subseteq Note /\ \A n \in B : Held(n)
      BY ToSetOfSeq DEF QueueInv, QueueTypes, Held
<1>3. Unseen' = Unseen
      BY <1>2, SettledHeld DEF BatchSent, Fate
<1>4. UNCHANGED <<queue, immediateQueue>>
      BY DEF BatchSent
<1> QED
  BY <1>1, <1>3, <1>4 DEF Delivery!End, Unseen, Messages

LEMMA BatchFailsDelivers ==
  ASSUME QueueInv, NEW slot \in Slot, BatchFails(slot)
  PROVE  \E message \in Messages : Delivery!Return(message)
<1> DEFINE B == ToSet(inFlight[slot])
<1>1. B \in Messages /\ Messages' = Messages \ {B}
      BY MessagesOf DEF BatchFails
<1>2. ToSet(queue') = ToSet(queue) \cup B
      BY ConcatToSet DEF BatchFails, BackInQueue, QueueInv, QueueTypes
<1>3. B \cap Urgents = {}
      BY InFlightIsBatched DEF QueueInv, Placed, Urgents
<1>4. UNCHANGED <<fate, immediateQueue>> /\ Unseen' = Unseen
      BY DEF BatchFails, Unseen
<1> QED
  BY <1>1, <1>2, <1>3, <1>4 DEF Delivery!Return, Unseen, Messages, Urgents

LEMMA DiesDelivers ==
  ASSUME QueueInv, Dies
  PROVE  Delivery!LoseAll
<1>1. Messages' = {}
      BY EmptyToSet DEF Dies, Messages
<1>2. immediateQueue' = <<>> /\ ToSet(queue') = {}
      BY EmptyToSet DEF Dies
<1>3. Unseen' = Unseen
      BY DEF Dies, Unseen, QueueInv, QueueTypes
<1> QED
  BY <1>1, <1>2, <1>3 DEF Delivery!LoseAll, Unseen, Messages

LEMMA OthersDeliverNothing ==
  ASSUME UNCHANGED <<fate, queue, immediateQueue, sending, inFlight>>
  PROVE  UNCHANGED Delivery!vars
BY PlacesStay DEF Delivery!vars, Messages

LEMMA DeliveryStep ==
  ASSUME QueueInv, TimesInv, [Next]_vars
  PROVE  [Delivery!Next]_Delivery!vars
<1>1. ASSUME NEW n \in Note, Skip(n) \/ PushImmediate(n) \/ PushBatched(n)
      PROVE  Delivery!Next
      BY <1>1, SkipDelivers, PushImmediateDelivers, PushBatchedDelivers
         DEF Delivery!Next, Unseen
<1>2. CASE WorkerTakes
      BY <1>2, WorkerTakesDelivers DEF Delivery!Next
<1>3. CASE WorkerSent \/ WorkerFails
      BY <1>3, SendEndsDelivers DEF Delivery!Next, Messages
<1>4. ASSUME NEW slot \in Slot, NEW level \in Level,
             inFlight[slot] = <<>>, Flush(slot, level),
             UNCHANGED <<fate, immediateQueue, sending>>
      PROVE  Delivery!Next \/ UNCHANGED Delivery!vars
      BY <1>4, FlushDelivers DEF Delivery!Next, Levels
<1>5. ASSUME NEW level \in Level, TimerFlush(level)
      PROVE  Delivery!Next \/ UNCHANGED Delivery!vars
      BY <1>4, <1>5 DEF TimerFlush, Slot, Level
<1>6. CASE FlushWarn \/ FlushInfo
      BY <1>4, <1>6 DEF FlushWarn, FlushInfo, LastFlush, Slot, Level
<1>7. ASSUME NEW slot \in Slot, BatchSent(slot) \/ BatchFails(slot)
      PROVE  Delivery!Next
      BY <1>7, BatchSentDelivers, BatchFailsDelivers
         DEF Delivery!Next, Messages
<1>8. CASE Dies
      BY <1>8, DiesDelivers DEF Delivery!Next
<1>9. CASE \/ WorkerEnds \/ LoadDedup \/ LastPersist \/ Shutdown \/ Boots \/ Tick
           \/ \E write \in writes : PersistEnds(write)
           \/ UNCHANGED vars
  <2>1. UNCHANGED <<fate, queue, immediateQueue, sending, inFlight>>
        BY <1>9 DEF WorkerEnds, LoadDedup, LastPersist, Shutdown, Boots, Tick,
                    PersistEnds, vars, queues
  <2> QED
    BY <2>1, OthersDeliverNothing
<1> QED
  BY <1>1, <1>2, <1>3, <1>5, <1>6, <1>7, <1>8, <1>9 DEF Next, Work

\* For every set of calls, bound and number of failures, and with every
\* overlap of timers, worker, shutdown() and death, an event goes the way that
\* EventDelivery describes, and no other.
THEOREM DeliveryImplemented == Spec => ImplementsDelivery
<1>1. TimeTypes /\ TimesInv /\ [Next]_vars => (TimeTypes /\ TimesInv)'
      BY TimeTypesStep, TimesInvStep
<1>2. Init => TimeTypes /\ TimesInv
      BY InitTimes, InitTimesInv
<1>3. Spec => [](TimeTypes /\ TimesInv)
      BY <1>1, <1>2, PTL DEF Spec
<1>4. QueueInv /\ TimesInv /\ [Next]_vars => [Delivery!Next]_Delivery!vars
      BY DeliveryStep
<1> QED
  BY <1>3, <1>4, DeliveryInit, QueueInvariant, PTL
     DEF Spec, ImplementsDelivery, Delivery!Spec
=============================================================================
