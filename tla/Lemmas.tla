------------------------------- MODULE Lemmas -------------------------------
(***************************************************************************)
(* Facts that the proofs share: about finite sets of numbers, and about    *)
(* who stands in a queue (ToSet), that nobody stands in it twice           *)
(* (IsInjective), and what putting in, taking out and joining queues do to *)
(* both.                                                                   *)
(***************************************************************************)
EXTENDS Integers, SequencesExt, SequenceTheorems, FiniteSetTheorems, TLAPS

(* A bounded, non-empty set of naturals has a greatest member.  Otherwise  *)
(* "plus one" maps its downward closure into itself without reaching 0,    *)
(* which no injection of a finite set can do.                              *)
LEMMA GreatestMember ==
  ASSUME NEW n \in Nat, NEW T \in SUBSET (0 .. n), T # {}
  PROVE  \E m \in T : \A t \in T : t <= m
<1> SUFFICES ASSUME \A m \in T : \E t \in T : m < t
             PROVE  FALSE
  OBVIOUS
<1> DEFINE U == {k \in 0 .. n : \E t \in T : k <= t}
           up == [k \in U |-> k + 1]
<1>1. IsFiniteSet(U)
  <2>1. IsFiniteSet(0 .. n)
    BY FS_Interval
  <2> QED
    BY <2>1, FS_Subset
<1>2. \A k \in U : k + 1 \in U
  OBVIOUS
<1>3. up \in [U -> U]
  BY <1>2
<1>4. \A j, k \in U : up[j] = up[k] => j = k
  OBVIOUS
<1>5. up \in Injection(U, U)
  BY <1>3, <1>4 DEF Injection, IsInjective
<1>6. up \in Surjection(U, U)
  BY <1>1, <1>5, FS_Injection
<1>7. 0 \in U
  <2>1. PICK t \in T : TRUE
    OBVIOUS
  <2> QED
    BY <2>1
<1>8. PICK k \in U : up[k] = 0
  BY <1>6, <1>7 DEF Surjection
<1> QED
  BY <1>8

(* Induction up to n: a set that holds 0 and, with each number below n,    *)
(* the next one, holds every number up to n.                               *)
LEMMA ClimbsTo ==
  ASSUME NEW n \in Nat, NEW S, 0 \in S, \A k \in 0 .. n - 1 : k \in S => k + 1 \in S
  PROVE  0 .. n \subseteq S
<1> DEFINE T == {k \in 0 .. n : 0 .. k \subseteq S}
<1>1. 0 \in T
  OBVIOUS
<1>2. PICK m \in T : \A t \in T : t <= m
  BY <1>1, GreatestMember
<1>3. m < n => m + 1 \in T
  <2> SUFFICES ASSUME m < n, NEW j \in 0 .. m + 1 PROVE j \in S
    OBVIOUS
  <2>1. CASE j \in 0 .. m
    BY <2>1
  <2>2. CASE j = m + 1
    <3>1. m \in S /\ m \in 0 .. n - 1
      OBVIOUS
    <3> QED
      BY <2>2, <3>1
  <2> QED
    BY <2>1, <2>2
<1>4. m = n
  BY <1>2, <1>3
<1> QED
  BY <1>4

(* A set of numbers from 1 on without gaps is counted by its greatest.     *)
LEMMA InitialSegment ==
  ASSUME NEW n \in Nat, NEW T \in SUBSET (1 .. n),
         \A i \in T : \A j \in 1 .. i : j \in T
  PROVE  Cardinality(T) \in 0 .. n /\ T = 1 .. Cardinality(T)
<1>1. CASE T = {}
  BY <1>1, FS_EmptySet
<1>2. CASE T # {}
  <2>0. T \in SUBSET (0 .. n)
    OBVIOUS
  <2>1. PICK m \in T : \A t \in T : t <= m
    BY <1>2, <2>0, GreatestMember
  <2>2. T = 1 .. m
    <3>1. m \in 1 .. n
      OBVIOUS
    <3>2. \A t \in T : t \in 1 .. m
      BY <2>1, <3>1
    <3>3. \A t \in 1 .. m : t \in T
      OBVIOUS
    <3> QED
      BY <3>2, <3>3
  <2>3. Cardinality(1 .. m) = m
    BY FS_Interval
  <2> QED
    BY <2>2, <2>3
<1> QED
  BY <1>1, <1>2

-----------------------------------------------------------------------------
(* Queues. *)

LEMMA QueueMembers ==
  ASSUME NEW S, NEW q \in Seq(S)
  PROVE  /\ ToSet(q) \subseteq S
         /\ \A x : x \in ToSet(q) <=> \E i \in 1 .. Len(q) : q[i] = x
         /\ q = <<>> <=> ToSet(q) = {}
<1>1. DOMAIN q = 1 .. Len(q) /\ Len(q) \in Nat /\ \A i \in 1 .. Len(q) : q[i] \in S
  BY LenProperties, ElementOfSeq
<1>2. ToSet(q) \subseteq S /\ \A x : x \in ToSet(q) <=> \E i \in 1 .. Len(q) : q[i] = x
  BY <1>1 DEF ToSet
<1>3. q = <<>> => ToSet(q) = {}
  BY <1>2, EmptySeq
<1>4. q # <<>> => 1 \in 1 .. Len(q)
  BY <1>1, EmptySeq
<1> QED
  BY <1>2, <1>3, <1>4

LEMMA QueueOfMore ==
  ASSUME NEW S, NEW T, S \subseteq T, NEW q \in Seq(S)
  PROVE  q \in Seq(T)
<1>1. \A i \in 1 .. Len(q) : q[i] \in T
  BY ElementOfSeq
<1> QED
  BY <1>1, SeqDef, LenProperties

(* Nobody stands twice. *)
LEMMA QueueOnce ==
  ASSUME NEW S, NEW q \in Seq(S)
  PROVE  IsInjective(q) <=> \A i, j \in 1 .. Len(q) : q[i] = q[j] => i = j
  BY LenProperties DEF IsInjective

LEMMA EmptyQueue ==
  /\ \A S : <<>> \in Seq(S)
  /\ ToSet(<<>>) = {} /\ IsInjective(<<>>) /\ Len(<<>>) = 0
<1>1. <<>> \in Seq({}) /\ Len(<<>>) = 0
  BY EmptySeq
<1>2. ToSet(<<>>) = {}
  BY <1>1, QueueMembers
<1>3. IsInjective(<<>>)
  <2>1. \A i \in 1 .. Len(<<>>) : FALSE
    BY <1>1
  <2> QED
    BY <1>1, <2>1, QueueOnce
<1> QED
  BY <1>1, <1>2, <1>3, EmptySeq

LEMMA OneInQueue ==
  ASSUME NEW S, NEW x \in S
  PROVE  /\ <<x>> \in Seq(S) /\ Len(<<x>>) = 1
         /\ ToSet(<<x>>) = {x} /\ IsInjective(<<x>>)
<1>1. <<x>> \in Seq(S) /\ Len(<<x>>) = 1 /\ <<x>>[1] = x
  OBVIOUS
<1>2. PICK q \in Seq(S) : q = <<x>>
  BY <1>1
<1>3. Len(q) = 1 /\ q[1] = x /\ 1 .. Len(q) = {1}
  BY <1>1, <1>2
<1>4. ToSet(q) = {x}
  BY <1>3, QueueMembers
<1>5. IsInjective(q)
  BY <1>3, QueueOnce
<1> QED
  BY <1>1, <1>2, <1>4, <1>5

LEMMA JoinedQueue ==
  ASSUME NEW S, NEW p \in Seq(S), NEW q \in Seq(S)
  PROVE  /\ p \o q \in Seq(S)
         /\ ToSet(p \o q) = ToSet(p) \cup ToSet(q)
         /\ IsInjective(p) /\ IsInjective(q) /\ ToSet(p) \cap ToSet(q) = {}
              => IsInjective(p \o q)
<1> DEFINE pq == p \o q
<1>1. /\ pq \in Seq(S) /\ Len(pq) = Len(p) + Len(q)
      /\ \A i \in 1 .. Len(p) + Len(q) : pq[i] = IF i <= Len(p) THEN p[i] ELSE q[i - Len(p)]
      /\ Len(p) \in Nat /\ Len(q) \in Nat
  BY ConcatProperties, LenProperties
<1> HIDE DEF pq
<1>2. ASSUME NEW i \in 1 .. Len(p)
      PROVE  i \in 1 .. Len(pq) /\ pq[i] = p[i]
  BY <1>1
<1>3. ASSUME NEW i \in 1 .. Len(q)
      PROVE  Len(p) + i \in 1 .. Len(pq) /\ pq[Len(p) + i] = q[i]
  <2>1. /\ Len(p) + i \in 1 .. Len(p) + Len(q) /\ ~(Len(p) + i <= Len(p))
        /\ (Len(p) + i) - Len(p) = i
    BY <1>1
  <2> QED
    BY <1>1, <2>1
<1>4. ASSUME NEW i \in 1 .. Len(pq)
      PROVE  \/ i \in 1 .. Len(p)
             \/ i - Len(p) \in 1 .. Len(q) /\ pq[i] = q[i - Len(p)]
  BY <1>1
<1>5. ToSet(pq) = ToSet(p) \cup ToSet(q)
  <2>1. ASSUME NEW x \in ToSet(pq)
        PROVE  x \in ToSet(p) \cup ToSet(q)
    <3>1. PICK i \in 1 .. Len(pq) : pq[i] = x
      BY <1>1, QueueMembers
    <3>2. CASE i \in 1 .. Len(p)
      BY <1>2, <3>1, <3>2, QueueMembers
    <3>3. CASE i - Len(p) \in 1 .. Len(q) /\ pq[i] = q[i - Len(p)]
      BY <3>1, <3>3, QueueMembers
    <3> QED
      BY <1>4, <3>2, <3>3
  <2>2. \A x : x \in ToSet(p) => x \in ToSet(pq)
    BY <1>1, <1>2, QueueMembers
  <2>3. ASSUME NEW x \in ToSet(q)
        PROVE  x \in ToSet(pq)
    <3>1. PICK i \in 1 .. Len(q) : q[i] = x
      BY QueueMembers
    <3> QED
      BY <1>1, <1>3, <3>1, QueueMembers
  <2> QED
    BY <2>1, <2>2, <2>3
<1>6. ASSUME IsInjective(p), IsInjective(q), ToSet(p) \cap ToSet(q) = {}
      PROVE  IsInjective(pq)
  <2>1. \A i \in 1 .. Len(p) : p[i] \in ToSet(p)
    BY QueueMembers
  <2>2. \A i \in 1 .. Len(q) : q[i] \in ToSet(q)
    BY QueueMembers
  <2>3. \A i, j \in 1 .. Len(p) : p[i] = p[j] => i = j
    BY <1>6, QueueOnce
  <2>4. \A i, j \in 1 .. Len(q) : q[i] = q[j] => i = j
    BY <1>6, QueueOnce
  <2> SUFFICES ASSUME NEW i \in 1 .. Len(pq), NEW j \in 1 .. Len(pq), pq[i] = pq[j]
               PROVE  i = j
    BY <1>1, QueueOnce
  <2>5. CASE i \in 1 .. Len(p) /\ j \in 1 .. Len(p)
    BY <1>2, <2>3, <2>5
  <2>6. CASE i \in 1 .. Len(p) /\ j \notin 1 .. Len(p)
    BY <1>2, <1>4, <1>6, <2>1, <2>2, <2>6
  <2>7. CASE i \notin 1 .. Len(p) /\ j \in 1 .. Len(p)
    BY <1>2, <1>4, <1>6, <2>1, <2>2, <2>7
  <2>8. CASE i \notin 1 .. Len(p) /\ j \notin 1 .. Len(p)
    <3>1. i - Len(p) = j - Len(p)
      BY <1>4, <2>4, <2>8
    <3> QED
      BY <1>1, <3>1
  <2> QED
    BY <2>5, <2>6, <2>7, <2>8
<1> QED
  BY <1>1, <1>5, <1>6 DEF pq

LEMMA PutInQueue ==
  ASSUME NEW S, NEW q \in Seq(S), NEW x \in S
  PROVE  /\ Append(q, x) \in Seq(S) /\ Append(q, x) # <<>>
         /\ Len(Append(q, x)) = Len(q) + 1
         /\ ToSet(Append(q, x)) = ToSet(q) \cup {x}
         /\ IsInjective(q) /\ x \notin ToSet(q) => IsInjective(Append(q, x))
<1>1. Append(q, x) = q \o <<x>>
  BY AppendIsConcat
<1>2. Append(q, x) \in Seq(S) /\ Append(q, x) # <<>> /\ Len(Append(q, x)) = Len(q) + 1
  BY AppendProperties
<1>3. /\ <<x>> \in Seq(S) /\ ToSet(<<x>>) = {x} /\ IsInjective(<<x>>)
  BY OneInQueue
<1>4. /\ ToSet(q \o <<x>>) = ToSet(q) \cup {x}
      /\ IsInjective(q) /\ x \notin ToSet(q) => IsInjective(q \o <<x>>)
  <2>1. PICK p \in Seq(S) : p = <<x>>
    BY <1>3
  <2>2. ToSet(p) = {x} /\ IsInjective(p)
    BY <1>3, <2>1
  <2>3. /\ ToSet(q \o p) = ToSet(q) \cup {x}
        /\ IsInjective(q) /\ x \notin ToSet(q) => IsInjective(q \o p)
    BY <2>2, JoinedQueue
  <2> QED
    BY <2>1, <2>3
<1> QED
  BY <1>1, <1>2, <1>4

LEMMA TakenFromQueue ==
  ASSUME NEW S, NEW q \in Seq(S), q # <<>>
  PROVE  /\ Head(q) \in S /\ Head(q) \in ToSet(q) /\ Tail(q) \in Seq(S)
         /\ Len(Tail(q)) = Len(q) - 1
         /\ ToSet(q) = ToSet(Tail(q)) \cup {Head(q)}
         /\ IsInjective(q) => IsInjective(Tail(q)) /\ Head(q) \notin ToSet(Tail(q))
<1> DEFINE t == Tail(q)
<1>1. /\ Head(q) \in S /\ Head(q) = q[1] /\ t \in Seq(S) /\ Len(t) = Len(q) - 1
      /\ \A i \in 1 .. Len(t) : t[i] = q[i + 1]
      /\ Len(q) \in Nat \ {0}
  BY HeadTailProperties, EmptySeq
<1> HIDE DEF t
<1>2. ASSUME NEW i \in 1 .. Len(q)
      PROVE  i = 1 \/ (i - 1 \in 1 .. Len(t) /\ t[i - 1] = q[i])
  BY <1>1
<1>3. ASSUME NEW i \in 1 .. Len(t)
      PROVE  i + 1 \in 1 .. Len(q) /\ t[i] = q[i + 1] /\ i + 1 # 1
  BY <1>1
<1>4. 1 \in 1 .. Len(q)
  BY <1>1
<1>5. \A x : x \in ToSet(q) <=> x \in ToSet(t) \/ x = Head(q)
  <2>1. \A x : x \in ToSet(q) => x \in ToSet(t) \/ x = Head(q)
    BY <1>1, <1>2, QueueMembers
  <2>2. \A x : x \in ToSet(t) => x \in ToSet(q)
    BY <1>1, <1>3, QueueMembers
  <2>3. Head(q) \in ToSet(q)
    BY <1>1, <1>4, QueueMembers
  <2> QED
    BY <2>1, <2>2, <2>3
<1>6. ASSUME IsInjective(q)
      PROVE  IsInjective(t) /\ Head(q) \notin ToSet(t)
  <2>1. \A i, j \in 1 .. Len(q) : q[i] = q[j] => i = j
    BY <1>6, QueueOnce
  <2>2. \A i, j \in 1 .. Len(t) : t[i] = t[j] => i = j
    <3> SUFFICES ASSUME NEW i \in 1 .. Len(t), NEW j \in 1 .. Len(t), t[i] = t[j]
                 PROVE  i = j
      OBVIOUS
    <3>1. i + 1 = j + 1
      BY <1>3, <2>1
    <3> QED
      BY <3>1
  <2>3. \A i \in 1 .. Len(t) : t[i] # q[1]
    BY <1>3, <1>4, <2>1
  <2>4. IsInjective(t)
    BY <1>1, <2>2, QueueOnce
  <2>5. Head(q) \notin ToSet(t)
    BY <1>1, <2>3, QueueMembers
  <2> QED
    BY <2>4, <2>5
<1> QED
  BY <1>1, <1>5, <1>6 DEF t

(* front is the first m of q, and back the others. *)
Halved(q, m, front, back) ==
  /\ m \in Nat /\ m <= Len(q)
  /\ Len(front) = m /\ \A i \in 1 .. m : front[i] = q[i]
  /\ Len(back) = Len(q) - m /\ \A i \in 1 .. Len(q) - m : back[i] = q[m + i]

LEMMA Halves ==
  ASSUME NEW S, NEW q \in Seq(S), NEW m, NEW front \in Seq(S), NEW back \in Seq(S),
         Halved(q, m, front, back)
  PROVE  /\ ToSet(q) = ToSet(front) \cup ToSet(back)
         /\ IsInjective(q) => /\ IsInjective(front) /\ IsInjective(back)
                              /\ ToSet(front) \cap ToSet(back) = {}
<1> USE DEF Halved
<1>1. Len(q) \in Nat
  BY LenProperties
<1>2. \A i \in 1 .. Len(front) : i \in 1 .. Len(q) /\ front[i] = q[i]
  BY <1>1
<1>3. \A i \in 1 .. Len(back) : m + i \in 1 .. Len(q) /\ m + i > m /\ back[i] = q[m + i]
  BY <1>1
<1>4. ASSUME NEW i \in 1 .. Len(q)
      PROVE  \/ i \in 1 .. Len(front) /\ front[i] = q[i]
             \/ i - m \in 1 .. Len(back) /\ back[i - m] = q[i]
  <2>1. CASE i <= m
    BY <1>1, <2>1
  <2>2. CASE ~(i <= m)
    <3>1. i - m \in 1 .. Len(q) - m /\ m + (i - m) = i
      BY <1>1, <2>2
    <3> QED
      BY <3>1
  <2> QED
    BY <2>1, <2>2
<1>5. ToSet(q) = ToSet(front) \cup ToSet(back)
  <2>1. ASSUME NEW x \in ToSet(q)
        PROVE  x \in ToSet(front) \cup ToSet(back)
    <3>1. PICK i \in 1 .. Len(q) : q[i] = x
      BY QueueMembers
    <3>2. x \in ToSet(front) \/ x \in ToSet(back)
      BY <1>4, <3>1, QueueMembers
    <3> QED
      BY <3>2
  <2>2. ASSUME NEW x \in ToSet(front)
        PROVE  x \in ToSet(q)
    <3>1. PICK i \in 1 .. Len(front) : front[i] = x
      BY QueueMembers
    <3> QED
      BY <1>2, <3>1, QueueMembers
  <2>3. ASSUME NEW x \in ToSet(back)
        PROVE  x \in ToSet(q)
    <3>1. PICK i \in 1 .. Len(back) : back[i] = x
      BY QueueMembers
    <3> QED
      BY <1>3, <3>1, QueueMembers
  <2> QED
    BY <2>1, <2>2, <2>3
<1>6. ASSUME IsInjective(q)
      PROVE  /\ IsInjective(front) /\ IsInjective(back)
             /\ ToSet(front) \cap ToSet(back) = {}
  <2>1. \A i, j \in 1 .. Len(q) : q[i] = q[j] => i = j
    BY <1>6, QueueOnce
  <2>2. IsInjective(front)
    <3>1. \A i, j \in 1 .. Len(front) : front[i] = front[j] => i = j
      BY <1>2, <2>1
    <3> QED
      BY <3>1, QueueOnce
  <2>3. IsInjective(back)
    <3>1. ASSUME NEW i \in 1 .. Len(back), NEW j \in 1 .. Len(back), back[i] = back[j]
          PROVE  i = j
      <4>1. m + i = m + j
        BY <1>3, <2>1, <3>1
      <4> QED
        BY <4>1
    <3> QED
      BY <3>1, QueueOnce
  <2>4. ASSUME NEW x \in ToSet(front), x \in ToSet(back) PROVE FALSE
    <3>1. PICK i \in 1 .. Len(front) : front[i] = x
      BY QueueMembers
    <3>2. PICK j \in 1 .. Len(back) : back[j] = x
      BY <2>4, QueueMembers
    <3>3. i = m + j
      BY <1>2, <1>3, <2>1, <3>1, <3>2
    <3> QED
      BY <3>3
  <2> QED
    BY <2>2, <2>3, <2>4
<1> QED
  BY <1>5, <1>6

(* The first m of a queue, and the others. *)
LEMMA SplitQueue ==
  ASSUME NEW S, NEW q \in Seq(S), NEW m \in 0 .. Len(q)
  PROVE  LET front == SubSeq(q, 1, m)
             back  == SubSeq(q, m + 1, Len(q))
         IN  /\ front \in Seq(S) /\ Len(front) = m /\ \A i \in 1 .. m : front[i] = q[i]
             /\ back \in Seq(S) /\ Len(back) = Len(q) - m
             /\ \A i \in 1 .. Len(q) - m : back[i] = q[m + i]
             /\ ToSet(q) = ToSet(front) \cup ToSet(back)
             /\ IsInjective(q) => /\ IsInjective(front) /\ IsInjective(back)
                                  /\ ToSet(front) \cap ToSet(back) = {}
<1> DEFINE front == SubSeq(q, 1, m)
           back  == SubSeq(q, m + 1, Len(q))
<1>1. Len(q) \in Nat /\ m \in Nat /\ \A i \in 1 .. Len(q) : q[i] \in S
  BY LenProperties, ElementOfSeq
<1>2. front \in Seq(S) /\ Len(front) = m /\ \A i \in 1 .. m : front[i] = q[i]
  <2>1. \A i \in 1 .. m : q[i] \in S
    BY <1>1
  <2>2. /\ SubSeq(q, 1, m) \in Seq(S)
        /\ Len(SubSeq(q, 1, m)) = IF 1 <= m THEN m - 1 + 1 ELSE 0
        /\ \A i \in 1 .. m - 1 + 1 : SubSeq(q, 1, m)[i] = q[1 + i - 1]
    BY <1>1, <2>1, SubSeqProperties
  <2>3. front \in Seq(S) /\ Len(front) = m
    BY <1>1, <2>2
  <2>4. ASSUME NEW i \in 1 .. m PROVE front[i] = q[i]
    <3>1. i \in 1 .. m - 1 + 1 /\ 1 + i - 1 = i
      BY <1>1
    <3> QED
      BY <2>2, <3>1
  <2> QED
    BY <2>3, <2>4
<1>3. /\ back \in Seq(S) /\ Len(back) = Len(q) - m
      /\ \A i \in 1 .. Len(q) - m : back[i] = q[m + i]
  <2>1. \A i \in m + 1 .. Len(q) : q[i] \in S
    BY <1>1
  <2>2. /\ SubSeq(q, m + 1, Len(q)) \in Seq(S)
        /\ Len(SubSeq(q, m + 1, Len(q))) =
             IF m + 1 <= Len(q) THEN Len(q) - (m + 1) + 1 ELSE 0
        /\ \A i \in 1 .. Len(q) - (m + 1) + 1 :
             SubSeq(q, m + 1, Len(q))[i] = q[(m + 1) + i - 1]
    BY <1>1, <2>1, SubSeqProperties
  <2>3. back \in Seq(S) /\ Len(back) = Len(q) - m
    BY <1>1, <2>2
  <2>4. ASSUME NEW i \in 1 .. Len(q) - m PROVE back[i] = q[m + i]
    <3>1. i \in 1 .. Len(q) - (m + 1) + 1 /\ (m + 1) + i - 1 = m + i
      BY <1>1
    <3> QED
      BY <2>2, <3>1
  <2> QED
    BY <2>3, <2>4
<1>4. Halved(q, m, front, back)
  BY <1>1, <1>2, <1>3 DEF Halved
<1>5. /\ ToSet(q) = ToSet(front) \cup ToSet(back)
      /\ IsInjective(q) => /\ IsInjective(front) /\ IsInjective(back)
                           /\ ToSet(front) \cap ToSet(back) = {}
  <2> HIDE DEF front, back
  <2> QED
    BY <1>2, <1>3, <1>4, Halves
<1> QED
  BY <1>2, <1>3, <1>5

(* r is q with x put in behind the first m. *)
InsertedAt(q, m, x, r) ==
  /\ Len(r) = Len(q) + 1
  /\ \A i \in 1 .. m : r[i] = q[i]
  /\ r[m + 1] = x
  /\ \A i \in m + 1 .. Len(q) : r[i + 1] = q[i]

LEMMA InsertedInQueue ==
  ASSUME NEW S, NEW q \in Seq(S), NEW m \in 0 .. Len(q), NEW x \in S, NEW r \in Seq(S),
         InsertedAt(q, m, x, r)
  PROVE  /\ ToSet(r) = ToSet(q) \cup {x}
         /\ IsInjective(q) /\ x \notin ToSet(q) => IsInjective(r)
<1>1. Len(q) \in Nat /\ m \in Nat /\ Len(r) = Len(q) + 1
  BY LenProperties DEF InsertedAt
<1> DEFINE old(i) == IF i <= m THEN i ELSE i - 1
<1>2. ASSUME NEW i \in 1 .. Len(r), i # m + 1
      PROVE  old(i) \in 1 .. Len(q) /\ r[i] = q[old(i)]
  <2>1. CASE i <= m
    BY <1>1, <1>2, <2>1 DEF InsertedAt
  <2>2. CASE i > m
    <3>1. i - 1 \in m + 1 .. Len(q) /\ (i - 1) + 1 = i
      BY <1>1, <1>2, <2>2
    <3>2. r[i] = q[i - 1]
      BY <3>1 DEF InsertedAt
    <3> QED
      BY <1>1, <2>2, <3>1, <3>2
  <2> QED
    BY <1>1, <2>1, <2>2
<1>3. m + 1 \in 1 .. Len(r) /\ r[m + 1] = x
  BY <1>1 DEF InsertedAt
<1>4. ToSet(r) = ToSet(q) \cup {x}
  <2>1. \A y : y \in ToSet(r) => y \in ToSet(q) \cup {x}
    <3> SUFFICES ASSUME NEW y \in ToSet(r) PROVE y \in ToSet(q) \cup {x}
      OBVIOUS
    <3>1. PICK i \in 1 .. Len(r) : r[i] = y
      BY QueueMembers
    <3> HIDE DEF old
    <3> QED
      BY <1>2, <1>3, <3>1, QueueMembers
  <2>2. \A y : y \in ToSet(q) => y \in ToSet(r)
    <3> SUFFICES ASSUME NEW y \in ToSet(q) PROVE y \in ToSet(r)
      OBVIOUS
    <3>1. PICK i \in 1 .. Len(q) : q[i] = y
      BY QueueMembers
    <3>2. i \in 1 .. Len(r) /\ i + 1 \in 1 .. Len(r) /\ (i <= m \/ i \in m + 1 .. Len(q))
      BY <1>1
    <3>3. r[i] = y \/ r[i + 1] = y
      BY <3>1, <3>2 DEF InsertedAt
    <3> QED
      BY <3>2, <3>3, QueueMembers
  <2>3. x \in ToSet(r)
    BY <1>3, QueueMembers
  <2> QED
    BY <2>1, <2>2, <2>3
<1>5. ASSUME IsInjective(q), x \notin ToSet(q)
      PROVE  IsInjective(r)
  <2>1. \A i, j \in 1 .. Len(q) : q[i] = q[j] => i = j
    BY <1>5, QueueOnce
  <2>2. \A i \in 1 .. Len(q) : q[i] # x
    BY <1>5, QueueMembers
  <2> SUFFICES ASSUME NEW i \in 1 .. Len(r), NEW j \in 1 .. Len(r), r[i] = r[j]
               PROVE  i = j
    BY QueueOnce
  <2>3. i = m + 1 <=> j = m + 1
    <3> HIDE DEF old
    <3> QED
      BY <1>2, <1>3, <2>2
  <2>4. CASE i # m + 1
    <3>1. old(i) = old(j)
      <4> HIDE DEF old
      <4> QED
        BY <1>2, <2>1, <2>3, <2>4
    <3> QED
      BY <1>1, <2>3, <2>4, <3>1
  <2> QED
    BY <2>3, <2>4
<1> QED
  BY <1>4, <1>5
-----------------------------------------------------------------------------
(* As many stand in a queue as it is long, if each stands once.            *)
LEMMA QueueCounted ==
  ASSUME NEW S, NEW q \in Seq(S), IsInjective(q)
  PROVE  IsFiniteSet(ToSet(q)) /\ Cardinality(ToSet(q)) = Len(q)
<1> DEFINE n == Len(q)
<1>1. n \in Nat /\ DOMAIN q = 1 .. n /\ q \in [1 .. n -> ToSet(q)]
  BY LenProperties DEF ToSet
<1>2. \A i, j \in 1 .. n : q[i] = q[j] => i = j
  BY QueueOnce
<1>3. \A x \in ToSet(q) : \E i \in 1 .. n : q[i] = x
  BY <1>1 DEF ToSet
<1>4. q \in Bijection(1 .. n, ToSet(q))
  BY <1>1, <1>2, <1>3 DEF Bijection, Injection, Surjection, IsInjective
<1>5. ExistsBijection(1 .. n, ToSet(q))
  BY <1>4 DEF ExistsBijection
<1>6. IsFiniteSet(1 .. n) /\ Cardinality(1 .. n) = n
  BY <1>1, FS_Interval
<1> QED
  BY <1>5, <1>6, FS_Bijection

(* A queue without repetitions in 1 .. n is full when it has length n. *)
LEMMA QueueOfAll ==
  ASSUME NEW n \in Nat, NEW S, NEW q \in Seq(S), IsInjective(q), ToSet(q) \subseteq 1 .. n
  PROVE  Len(q) = n <=> ToSet(q) = 1 .. n
<1>1. IsFiniteSet(1 .. n) /\ Cardinality(1 .. n) = n
  BY FS_Interval
<1>2. IsFiniteSet(ToSet(q)) /\ Cardinality(ToSet(q)) = Len(q)
  BY QueueCounted
<1>3. Len(q) = n => ToSet(q) = 1 .. n
  BY <1>1, <1>2, FS_Subset
<1> QED
  BY <1>1, <1>2, <1>3

(* A new element in front.                                                 *)
LEMMA PutInFront ==
  ASSUME NEW S, NEW q \in Seq(S), NEW x \in S
  PROVE  /\ <<x>> \o q \in Seq(S) /\ Len(<<x>> \o q) = Len(q) + 1
         /\ ToSet(<<x>> \o q) = ToSet(q) \cup {x}
         /\ IsInjective(q) /\ x \notin ToSet(q) => IsInjective(<<x>> \o q)
<1>1. PICK p : p = <<x>>
  OBVIOUS
<1>2. p \in Seq(S) /\ Len(p) = 1 /\ ToSet(p) = {x} /\ IsInjective(p)
  BY <1>1, OneInQueue
<1>3. /\ p \o q \in Seq(S) /\ ToSet(p \o q) = ToSet(p) \cup ToSet(q)
      /\ IsInjective(p) /\ IsInjective(q) /\ ToSet(p) \cap ToSet(q) = {} => IsInjective(p \o q)
  BY <1>2, JoinedQueue
<1>4. Len(p \o q) = 1 + Len(q) /\ Len(q) \in Nat
  BY <1>2, ConcatProperties, LenProperties
<1> QED
  BY <1>1, <1>2, <1>3, <1>4

(* An element is taken out of the middle.                                  *)
LEMMA RemovedFromQueue ==
  ASSUME NEW S, NEW q \in Seq(S), NEW i \in DOMAIN q, IsInjective(q)
  PROVE  /\ RemoveAt(q, i) \in Seq(S) /\ IsInjective(RemoveAt(q, i))
         /\ ToSet(RemoveAt(q, i)) = ToSet(q) \ {q[i]}
<1>1. /\ DOMAIN q = 1 .. Len(q) /\ Len(q) \in Nat /\ i \in 1 .. Len(q)
      /\ \A a, b \in 1 .. Len(q) : q[a] = q[b] => a = b
  BY LenProperties DEF IsInjective
<1>2. i - 1 \in 0 .. Len(q) /\ i \in 0 .. Len(q) /\ (i - 1) + 1 = i
  BY <1>1
<1>3. PICK front : front = SubSeq(q, 1, i - 1)
  OBVIOUS
<1>4. PICK back : back = SubSeq(q, i + 1, Len(q))
  OBVIOUS
<1>5. /\ front \in Seq(S) /\ Len(front) = i - 1 /\ \A j \in 1 .. i - 1 : front[j] = q[j]
      /\ IsInjective(front)
  BY <1>2, <1>3, SplitQueue
<1>6. /\ back \in Seq(S) /\ Len(back) = Len(q) - i
      /\ \A j \in 1 .. Len(q) - i : back[j] = q[i + j]
      /\ IsInjective(back)
  BY <1>2, <1>4, SplitQueue
<1>7. /\ \A x : x \in ToSet(q) <=> \E j \in 1 .. Len(q) : q[j] = x
      /\ \A x : x \in ToSet(front) <=> \E j \in 1 .. Len(front) : front[j] = x
      /\ \A x : x \in ToSet(back) <=> \E j \in 1 .. Len(back) : back[j] = x
  BY <1>5, <1>6, QueueMembers
<1>8. \A x : x \in ToSet(front) <=> \E j \in 1 .. i - 1 : q[j] = x
  BY <1>5, <1>7
<1>9. \A x : x \in ToSet(back) <=> \E j \in i + 1 .. Len(q) : q[j] = x
  <2>1. ASSUME NEW x \in ToSet(back) PROVE \E j \in i + 1 .. Len(q) : q[j] = x
    <3>1. PICK j \in 1 .. Len(back) : back[j] = x
      BY <1>7
    <3>2. back[j] = q[i + j] /\ i + j \in i + 1 .. Len(q)
      BY <1>1, <1>6
    <3> QED
      BY <3>1, <3>2
  <2>2. ASSUME NEW j \in i + 1 .. Len(q) PROVE q[j] \in ToSet(back)
    <3>1. j - i \in 1 .. Len(q) - i /\ i + (j - i) = j
      BY <1>1
    <3>2. back[j - i] = q[j]
      BY <1>6, <3>1
    <3> QED
      BY <1>6, <1>7, <3>1, <3>2
  <2> QED
    BY <2>1, <2>2
<1>10. ToSet(front) \cap ToSet(back) = {}
  <2> SUFFICES ASSUME NEW a \in 1 .. i - 1, NEW b \in i + 1 .. Len(q), q[a] = q[b] PROVE FALSE
    BY <1>8, <1>9
  <2>1. a \in 1 .. Len(q) /\ b \in 1 .. Len(q) /\ a # b
    BY <1>1
  <2> QED
    BY <1>1, <2>1
<1>11. ASSUME NEW x PROVE x \in ToSet(front) \cup ToSet(back) <=> x \in ToSet(q) \ {q[i]}
  <2>1. x \in ToSet(front) \cup ToSet(back) <=> \E j \in (1 .. Len(q)) \ {i} : q[j] = x
    <3>1. (1 .. Len(q)) \ {i} = (1 .. i - 1) \cup (i + 1 .. Len(q))
      BY <1>1
    <3> QED
      BY <1>8, <1>9, <3>1
  <2>2. (\E j \in (1 .. Len(q)) \ {i} : q[j] = x) <=> (x # q[i] /\ \E j \in 1 .. Len(q) : q[j] = x)
    BY <1>1
  <2> QED
    BY <1>7, <2>1, <2>2
<1>12. /\ front \o back \in Seq(S) /\ ToSet(front \o back) = ToSet(front) \cup ToSet(back)
       /\ IsInjective(front \o back)
  BY <1>5, <1>6, <1>10, JoinedQueue
<1>13. RemoveAt(q, i) = front \o back
  BY <1>3, <1>4 DEF RemoveAt
<1> QED
  BY <1>11, <1>12, <1>13
=============================================================================
