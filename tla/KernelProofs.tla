---------------------------- MODULE KernelProofs ----------------------------
(***************************************************************************)
(* Proofs about Kernel for every set of threads and semaphores, every      *)
(* length of the time slice and all sleeping times: a thread is in one     *)
(* place at most, waiters and permits are accounted for, queues are first  *)
(* come, first served.                                                     *)
(*                                                                         *)
(* The invariant speaks of who stands in the queues.  Lemmas says what the *)
(* operations on queues do to that, the first part below what those on the *)
(* queue of sleepers do, and DispatchFacts what the switch of threads does.*)
(* Each step of the kernel is then an argument about sets of threads.      *)
(***************************************************************************)
EXTENDS Kernel, Lemmas

-----------------------------------------------------------------------------
(* The queue of sleepers: how the times add up, where a new sleeper is     *)
(* put, and who is taken out.                                              *)

Pairs == [tcb : Threads, time_left : 0 .. Word - 1]

(* Who sleeps. *)
Names(q) == [i \in DOMAIN q |-> q[i].tcb]

LEMMA NamesFacts ==
  ASSUME NEW q \in Seq(Pairs)
  PROVE  /\ Names(q) \in Seq(Threads) /\ Len(Names(q)) = Len(q)
         /\ DOMAIN q = 1 .. Len(q) /\ Len(q) \in Nat
         /\ \A i \in 1 .. Len(q) : /\ q[i] \in Pairs /\ q[i].tcb \in Threads
                                   /\ q[i].time_left \in 0 .. Word - 1
                                   /\ Names(q)[i] = q[i].tcb
<1>1. DOMAIN q = 1 .. Len(q) /\ Len(q) \in Nat /\ \A i \in 1 .. Len(q) : q[i] \in Pairs
  BY LenProperties, ElementOfSeq
<1>2. \A i \in 1 .. Len(q) : q[i].tcb \in Threads /\ q[i].time_left \in 0 .. Word - 1
  BY <1>1 DEF Pairs
<1>3. Names(q) = [i \in 1 .. Len(q) |-> q[i].tcb]
  BY <1>1 DEF Names
<1>4. Names(q) \in Seq(Threads) /\ Len(Names(q)) = Len(q)
  BY <1>1, <1>2, <1>3
<1> QED
  BY <1>1, <1>2, <1>3, <1>4

(* The times are the sums of time_left from the head of the queue. *)
LEMMA TimesAddUp ==
  ASSUME NEW q \in Seq(Pairs)
  PROVE  /\ TimeTo(q, 0) = 0
         /\ \A i \in 0 .. Len(q) : TimeTo(q, i) \in Nat
         /\ \A i \in 1 .. Len(q) : TimeTo(q, i) = TimeTo(q, i - 1) + q[i].time_left
<1> DEFINE n == Len(q)
           Sums(k, f) == f = [i \in 0 .. k |-> IF i = 0 THEN 0 ELSE f[i - 1] + q[i].time_left]
           S == {k \in 0 .. n : \E f : Sums(k, f)}
<1>1. n \in Nat /\ \A i \in 1 .. n : q[i].time_left \in Nat
  BY NamesFacts, TimesAssumption
<1>2. 0 \in S
  <2>1. Sums(0, [i \in 0 .. 0 |-> 0])
    OBVIOUS
  <2> HIDE DEF Sums
  <2>2. \E f : Sums(0, f)
    BY <2>1
  <2> QED
    BY <1>1, <2>2
<1>3. ASSUME NEW k \in 0 .. n - 1, k \in S
      PROVE  k + 1 \in S
  <2>1. PICK f : Sums(k, f)
    BY <1>3
  <2> DEFINE g == [i \in 0 .. k + 1 |-> IF i = k + 1 THEN f[k] + q[k + 1].time_left ELSE f[i]]
  <2>2. \A i \in 0 .. k : g[i] = f[i]
    BY <1>1
  <2>3. \A i \in 0 .. k + 1 : g[i] = IF i = 0 THEN 0 ELSE g[i - 1] + q[i].time_left
    <3> SUFFICES ASSUME NEW i \in 0 .. k + 1
                 PROVE  g[i] = IF i = 0 THEN 0 ELSE g[i - 1] + q[i].time_left
      OBVIOUS
    <3>1. CASE i = k + 1
      <4>1. g[k + 1] = f[k] + q[k + 1].time_left /\ g[k] = f[k] /\ k + 1 # 0 /\ (k + 1) - 1 = k
        BY <1>1
      <4> QED
        BY <3>1, <4>1
    <3>2. CASE i \in 0 .. k
      <4>1. f[i] = IF i = 0 THEN 0 ELSE f[i - 1] + q[i].time_left
        BY <2>1, <3>2
      <4>2. g[i] = f[i] /\ (i # 0 => i - 1 \in 0 .. k /\ g[i - 1] = f[i - 1])
        BY <1>1, <2>2, <3>2
      <4> QED
        BY <4>1, <4>2
    <3> QED
      BY <1>1, <3>1, <3>2
  <2>4. Sums(k + 1, g)
    <3> DEFINE h == [i \in 0 .. k + 1 |-> IF i = 0 THEN 0 ELSE g[i - 1] + q[i].time_left]
    <3>1. \A i \in 0 .. k + 1 : g[i] = h[i]
      BY <2>3
    <3> QED
      BY <3>1
  <2>5. \E h : Sums(k + 1, h)
    <3> HIDE DEF Sums, g
    <3> QED
      BY <2>4
  <2>6. k + 1 \in 0 .. n
    BY <1>1
  <2> HIDE DEF Sums
  <2> QED
    BY <2>5, <2>6
<1>4. \E f : Sums(n, f)
  <2> HIDE DEF S
  <2>1. 0 .. n \subseteq S
    BY <1>1, <1>2, <1>3, ClimbsTo
  <2> QED
    BY <1>1, <2>1 DEF S
<1> DEFINE time == TimesTo(q)
<1>5. time = CHOOSE f : Sums(n, f)
  BY DEF TimesTo
<1>6. Sums(n, time)
  <2> HIDE DEF Sums, time
  <2> QED
    BY <1>4, <1>5
<1>7. /\ time[0] = 0
      /\ \A i \in 1 .. n : time[i] = time[i - 1] + q[i].time_left
  <2> HIDE DEF time
  <2>1. \A i \in 0 .. n : time[i] = IF i = 0 THEN 0 ELSE time[i - 1] + q[i].time_left
    BY <1>6
  <2> QED
    BY <1>1, <2>1
<1> HIDE DEF time
<1> DEFINE N == {k \in 0 .. n : time[k] \in Nat}
<1>8. 0 .. n \subseteq N
  <2>1. 0 \in N
    BY <1>1, <1>7
  <2>2. \A k \in 0 .. n - 1 : k \in N => k + 1 \in N
    <3> SUFFICES ASSUME NEW k \in 0 .. n - 1, k \in N PROVE k + 1 \in N
      OBVIOUS
    <3>1. k + 1 \in 1 .. n /\ (k + 1) - 1 = k
      BY <1>1
    <3>2. time[k + 1] = time[k] + q[k + 1].time_left
      BY <1>7, <3>1
    <3> QED
      BY <1>1, <3>1, <3>2
  <2> HIDE DEF N
  <2> QED
    BY <1>1, <2>1, <2>2, ClimbsTo
<1> QED
  BY <1>1, <1>7, <1>8 DEF TimeTo, time

(* Nobody further back wakes earlier. *)
LEMMA TimesClimb ==
  ASSUME NEW q \in Seq(Pairs), NEW i \in 0 .. Len(q), NEW j \in 0 .. Len(q), i <= j
  PROVE  TimeTo(q, i) <= TimeTo(q, j)
<1> DEFINE S == {k \in 0 .. Len(q) : i <= k => TimeTo(q, i) <= TimeTo(q, k)}
<1>1. Len(q) \in Nat /\ \A k \in 1 .. Len(q) : q[k].time_left \in Nat
  BY NamesFacts, TimesAssumption
<1>2. 0 \in S
  BY <1>1, TimesAddUp
<1>3. ASSUME NEW k \in 0 .. Len(q) - 1, k \in S
      PROVE  k + 1 \in S
  <2>1. k + 1 \in 1 .. Len(q) /\ (k + 1) - 1 = k /\ k \in 0 .. Len(q)
    BY <1>1
  <2>2. /\ TimeTo(q, k + 1) = TimeTo(q, k) + q[k + 1].time_left
        /\ TimeTo(q, k) \in Nat /\ TimeTo(q, k + 1) \in Nat /\ TimeTo(q, i) \in Nat
    <3>1. TimeTo(q, k + 1) = TimeTo(q, k) + q[k + 1].time_left
      BY <2>1, TimesAddUp
    <3>2. k + 1 \in 0 .. Len(q)
      BY <2>1
    <3> QED
      BY <2>1, <3>1, <3>2, TimesAddUp
  <2>3. i = k + 1 \/ (i <= k + 1 => i <= k)
    BY <1>1
  <2> QED
    BY <1>1, <1>3, <2>1, <2>2, <2>3
<1> HIDE DEF S
<1>4. j \in S
  BY <1>1, <1>2, <1>3, ClimbsTo
<1> QED
  BY <1>4 DEF S

LEMMA WakeBeforeFacts ==
  ASSUME NEW q \in Seq(Pairs), NEW n \in Nat
  PROVE  /\ WakeBefore(q, n) \in 0 .. Len(q)
         /\ TimeTo(q, WakeBefore(q, n)) <= n
         /\ \A i \in 1 .. Len(q) : TimeTo(q, i) <= n <=> i <= WakeBefore(q, n)
<1> DEFINE T == {i \in 1 .. Len(q) : TimeTo(q, i) <= n}
<1>1. Len(q) \in Nat /\ DOMAIN q = 1 .. Len(q)
  BY NamesFacts
<1>2. \A i \in 0 .. Len(q) : TimeTo(q, i) \in Nat
  BY TimesAddUp
<1>3. \A i \in T : \A j \in 1 .. i : j \in T
  <2> SUFFICES ASSUME NEW i \in T, NEW j \in 1 .. i PROVE j \in T
    OBVIOUS
  <2>1. i \in 0 .. Len(q) /\ j \in 0 .. Len(q) /\ j <= i /\ j \in 1 .. Len(q)
    BY <1>1
  <2>2. TimeTo(q, j) <= TimeTo(q, i)
    BY <2>1, TimesClimb
  <2> QED
    BY <1>2, <2>1, <2>2
<1>4. WakeBefore(q, n) = Cardinality(T)
  BY <1>1 DEF WakeBefore
<1>5. Cardinality(T) \in 0 .. Len(q) /\ T = 1 .. Cardinality(T)
  <2> HIDE DEF T
  <2>1. T \in SUBSET (1 .. Len(q))
    BY DEF T
  <2> QED
    BY <1>1, <1>3, <2>1, InitialSegment
<1> DEFINE m == Cardinality(T)
<1>6. \A i \in 1 .. Len(q) : i \in T <=> i <= m
  <2> HIDE DEF T
  <2> QED
    BY <1>1, <1>5
<1>7. TimeTo(q, m) <= n
  <2>1. CASE m = 0
    BY <2>1, TimesAddUp
  <2>2. CASE m # 0
    <3>1. m \in T
      <4> HIDE DEF T
      <4> QED
        BY <1>1, <1>5, <2>2
    <3> QED
      BY <3>1
  <2> QED
    BY <2>1, <2>2
<1> QED
  BY <1>4, <1>5, <1>6, <1>7

LEMMA CountedFacts ==
  ASSUME NEW q \in Seq(Pairs)
  PROVE  /\ Counted(q) \in Seq(Pairs) /\ Len(Counted(q)) = Len(q)
         /\ Names(Counted(q)) = Names(q)
         /\ \A i \in 1 .. Len(q) :
              Counted(q)[i].time_left =
                IF i = 1 THEN (q[1].time_left - 1) % Word ELSE q[i].time_left
<1>1. /\ DOMAIN q = 1 .. Len(q) /\ Len(q) \in Nat
      /\ \A i \in 1 .. Len(q) : q[i] \in Pairs
  BY NamesFacts
<1> DEFINE c(i) == IF i = 1 THEN [q[1] EXCEPT !.time_left = (@ - 1) % Word] ELSE q[i]
<1>2. Counted(q) = [i \in 1 .. Len(q) |-> c(i)]
  BY <1>1 DEF Counted
<1>3. ASSUME NEW i \in 1 .. Len(q)
      PROVE  /\ c(i) \in Pairs /\ c(i).tcb = q[i].tcb
             /\ c(i).time_left = IF i = 1 THEN (q[1].time_left - 1) % Word ELSE q[i].time_left
  <2>1. q[i] \in Pairs
    BY <1>1
  <2>2. q[i].time_left \in Int /\ Word \in Nat \ {0}
    BY <2>1, TimesAssumption DEF Pairs
  <2>3. (q[i].time_left - 1) % Word \in 0 .. Word - 1
    BY <2>2
  <2> QED
    BY <2>1, <2>3 DEF Pairs
<1> HIDE DEF c
<1>4. Counted(q) \in Seq(Pairs) /\ Len(Counted(q)) = Len(q)
  BY <1>1, <1>2, <1>3
<1>5. DOMAIN Counted(q) = 1 .. Len(q)
  BY <1>2
<1>6. Names(Counted(q)) = Names(q)
  BY <1>1, <1>2, <1>3, <1>5 DEF Names
<1> QED
  BY <1>2, <1>3, <1>4, <1>6

(* The sleepers that are due are the first of the queue, and those left    *)
(* are the others; the first that is left has time left.                   *)
Woken(q)  == [i \in 1 .. Due(q) |-> q[i].tcb]
Asleep(q) == SubSeq(q, Due(q) + 1, Len(q))

LEMMA DueFacts ==
  ASSUME NEW q \in Seq(Pairs)
  PROVE  /\ Due(q) \in 0 .. Len(q)
         /\ \A i \in 1 .. Due(q) : q[i].time_left = 0
         /\ Due(q) < Len(q) => q[Due(q) + 1].time_left # 0
<1> DEFINE T == {i \in 1 .. Len(q) : \A j \in 1 .. i : q[j].time_left = 0}
           m == Cardinality(T)
<1>1. Len(q) \in Nat /\ DOMAIN q = 1 .. Len(q)
  BY NamesFacts
<1>2. Due(q) = m
  BY <1>1 DEF Due
<1>3. \A i \in T : \A j \in 1 .. i : j \in T
  BY <1>1
<1>4. m \in 0 .. Len(q) /\ T = 1 .. m
  <2> HIDE DEF T
  <2>1. T \in SUBSET (1 .. Len(q))
    BY DEF T
  <2> QED
    BY <1>1, <1>3, <2>1, InitialSegment
<1> HIDE DEF m
<1>5. \A i \in 1 .. m : q[i].time_left = 0
  BY <1>1, <1>4
<1>6. ASSUME m < Len(q), q[m + 1].time_left = 0
      PROVE  FALSE
  <2>1. m + 1 \in 1 .. Len(q) /\ \A j \in 1 .. m + 1 : j \in 1 .. m \/ j = m + 1
    BY <1>1, <1>4, <1>6
  <2>2. m + 1 \in T
    BY <1>5, <1>6, <2>1
  <2> QED
    BY <1>1, <1>4, <2>2
<1> QED
  BY <1>2, <1>4, <1>5, <1>6

LEMMA WokenFacts ==
  ASSUME NEW q \in Seq(Pairs)
  PROVE  /\ Woken(q) \in Seq(Threads)
         /\ Asleep(q) \in Seq(Pairs)
         /\ Len(Asleep(q)) = Len(q) - Due(q)
         /\ \A i \in 1 .. Len(q) - Due(q) : Asleep(q)[i] = q[Due(q) + i]
         /\ \A t : t \in ToSet(Woken(q)) <=> \E i \in 1 .. Due(q) : q[i].tcb = t
         /\ ToSet(Names(q)) = ToSet(Woken(q)) \cup ToSet(Names(Asleep(q)))
         /\ IsInjective(Names(q)) =>
              /\ IsInjective(Woken(q)) /\ IsInjective(Names(Asleep(q)))
              /\ ToSet(Woken(q)) \cap ToSet(Names(Asleep(q))) = {}
<1> DEFINE d == Due(q)
<1>1. d \in 0 .. Len(q) /\ Len(q) \in Nat
  BY DueFacts, NamesFacts
<1> HIDE DEF d
<1>2. /\ \A i \in 1 .. Len(q) : q[i].tcb \in Threads /\ Names(q)[i] = q[i].tcb
      /\ Names(q) \in Seq(Threads) /\ Len(Names(q)) = Len(q)
  BY NamesFacts
<1>3. /\ Woken(q) \in Seq(Threads) /\ Len(Woken(q)) = d
      /\ \A i \in 1 .. d : Woken(q)[i] = q[i].tcb
  <2>1. Woken(q) = [i \in 1 .. d |-> q[i].tcb]
    BY DEF Woken, d
  <2>2. \A i \in 1 .. d : q[i].tcb \in Threads
    BY <1>1, <1>2
  <2> QED
    BY <1>1, <2>1, <2>2
<1>4. /\ Asleep(q) \in Seq(Pairs) /\ Len(Asleep(q)) = Len(q) - d
      /\ \A i \in 1 .. Len(q) - d : Asleep(q)[i] = q[d + i]
  BY <1>1, SplitQueue DEF Asleep, d
<1>5. /\ Names(Asleep(q)) \in Seq(Threads) /\ Len(Names(Asleep(q))) = Len(q) - d
      /\ \A i \in 1 .. Len(q) - d : Names(Asleep(q))[i] = q[d + i].tcb
  BY <1>4, NamesFacts
<1>6. Halved(Names(q), d, Woken(q), Names(Asleep(q)))
  <2>1. \A i \in 1 .. d : Woken(q)[i] = Names(q)[i]
    BY <1>1, <1>2, <1>3
  <2>2. \A i \in 1 .. Len(q) - d : Names(Asleep(q))[i] = Names(q)[d + i]
    <3> SUFFICES ASSUME NEW i \in 1 .. Len(q) - d
                 PROVE  Names(Asleep(q))[i] = Names(q)[d + i]
      OBVIOUS
    <3>1. d + i \in 1 .. Len(q)
      BY <1>1
    <3> QED
      BY <1>2, <1>5, <3>1
  <2> QED
    BY <1>1, <1>2, <1>3, <1>5, <2>1, <2>2 DEF Halved
<1>7. /\ ToSet(Names(q)) = ToSet(Woken(q)) \cup ToSet(Names(Asleep(q)))
      /\ IsInjective(Names(q)) =>
              /\ IsInjective(Woken(q)) /\ IsInjective(Names(Asleep(q)))
              /\ ToSet(Woken(q)) \cap ToSet(Names(Asleep(q))) = {}
  BY <1>2, <1>3, <1>5, <1>6, Halves
<1>8. \A t : t \in ToSet(Woken(q)) <=> \E i \in 1 .. d : q[i].tcb = t
  BY <1>3, QueueMembers
<1> QED
  BY <1>3, <1>4, <1>7, <1>8 DEF d

(* The new sleeper stands behind those that wake no later; the time of the *)
(* one behind it, and no other, is less by what the new one has left.      *)
LEMMA InsertFacts ==
  ASSUME NEW q \in Seq(Pairs), NEW t \in Threads, NEW n \in 0 .. Word - 1
  PROVE  LET m    == WakeBefore(q, n)
             left == n - TimeTo(q, m)
             r    == Insert(q, t, n)
         IN  /\ m \in 0 .. Len(q) /\ left \in 0 .. n
             /\ r \in Seq(Pairs) /\ Len(r) = Len(q) + 1
             /\ \A i \in 1 .. m : r[i] = q[i]
             /\ r[m + 1] = Sleeper(t, left)
             /\ \A i \in m + 1 .. Len(q) :
                  /\ r[i + 1].tcb = q[i].tcb
                  /\ r[i + 1].time_left = IF i = m + 1 THEN q[i].time_left - left
                                                       ELSE q[i].time_left
<1> DEFINE m    == WakeBefore(q, n)
           left == n - TimeTo(q, m)
           rest == SubSeq(q, m + 1, Len(q))
           f(j) == IF j = 1 THEN [rest[1] EXCEPT !.time_left = @ - left] ELSE rest[j]
           front == SubSeq(q, 1, m)
           mid   == <<Sleeper(t, left)>>
           back  == [j \in DOMAIN rest |-> f(j)]
<1>1. Word \in Nat /\ n \in Nat /\ Len(q) \in Nat /\ \A i \in 1 .. Len(q) : q[i] \in Pairs
  BY NamesFacts, TimesAssumption
<1>2. /\ m \in 0 .. Len(q) /\ TimeTo(q, m) <= n
      /\ \A i \in 1 .. Len(q) : TimeTo(q, i) <= n <=> i <= m
  BY <1>1, WakeBeforeFacts
<1>3. left \in 0 .. n
  BY <1>1, <1>2, TimesAddUp
<1>4. m + 1 <= Len(q) => left <= q[m + 1].time_left
  <2> SUFFICES ASSUME m + 1 <= Len(q) PROVE left <= q[m + 1].time_left
    OBVIOUS
  <2>1. m + 1 \in 1 .. Len(q) /\ (m + 1) - 1 = m /\ ~(m + 1 <= m) /\ m \in 0 .. Len(q)
    BY <1>1, <1>2
  <2>2. TimeTo(q, m + 1) = TimeTo(q, m) + q[m + 1].time_left /\ TimeTo(q, m) \in Nat
    BY <2>1, TimesAddUp
  <2>3. ~(TimeTo(q, m + 1) <= n)
    BY <1>2, <2>1
  <2>4. q[m + 1].time_left \in Nat
    BY <1>1, <2>1 DEF Pairs
  <2> HIDE DEF m
  <2> QED
    BY <1>1, <2>2, <2>3, <2>4
<1>5. /\ front \in Seq(Pairs) /\ Len(front) = m /\ \A i \in 1 .. m : front[i] = q[i]
      /\ rest \in Seq(Pairs) /\ Len(rest) = Len(q) - m
      /\ \A i \in 1 .. Len(q) - m : rest[i] = q[m + i]
  BY <1>2, SplitQueue
<1>6. Insert(q, t, n) = front \o mid \o back
  BY DEF Insert
<1>7. Sleeper(t, left) \in Pairs
  BY <1>1, <1>3 DEF Sleeper, Pairs
<1> HIDE DEF m, left, front, rest
<1>8. ASSUME NEW j \in 1 .. Len(rest)
      PROVE  /\ f(j) \in Pairs /\ f(j).tcb = q[m + j].tcb
             /\ f(j).time_left = IF j = 1 THEN q[m + j].time_left - left
                                          ELSE q[m + j].time_left
  <2>1. rest[j] \in Pairs /\ rest[j] = q[m + j] /\ m + 1 <= Len(q)
    BY <1>1, <1>2, <1>5
  <2>2. CASE j = 1
    <3>1. q[m + 1] \in Pairs /\ rest[1] = q[m + 1]
      BY <2>1, <2>2
    <3>2. q[m + 1].time_left - left \in 0 .. Word - 1
      BY <1>1, <1>3, <1>4, <2>1, <3>1 DEF Pairs
    <3> QED
      BY <2>2, <3>1, <3>2 DEF Pairs
  <2>3. CASE j # 1
    BY <2>1, <2>3
  <2> QED
    BY <2>2, <2>3
<1> HIDE DEF f
<1>9. /\ back \in Seq(Pairs) /\ Len(back) = Len(q) - m
      /\ \A j \in 1 .. Len(q) - m : back[j] = f(j)
  <2>1. DOMAIN rest = 1 .. Len(rest) /\ Len(rest) \in Nat
    BY <1>5, LenProperties
  <2>2. back = [j \in 1 .. Len(rest) |-> f(j)]
    BY <2>1
  <2>3. PICK k \in Nat : k = Len(rest)
    BY <2>1
  <2>4. \A j \in 1 .. k : f(j) \in Pairs
    BY <1>8, <2>3
  <2>5. /\ [j \in 1 .. k |-> f(j)] \in Seq(Pairs) /\ Len([j \in 1 .. k |-> f(j)]) = k
        /\ \A j \in 1 .. k : [j0 \in 1 .. k |-> f(j0)][j] = f(j)
    BY <2>4
  <2> HIDE DEF back
  <2> QED
    BY <1>5, <2>2, <2>3, <2>5
<1>10. mid \in Seq(Pairs) /\ Len(mid) = 1 /\ mid[1] = Sleeper(t, left)
  <2>1. \A x \in Pairs : <<x>> \in Seq(Pairs) /\ Len(<<x>>) = 1 /\ <<x>>[1] = x
    OBVIOUS
  <2> QED
    BY <1>7, <2>1
<1> HIDE DEF mid, back
<1> DEFINE fm == front \o mid
<1>11. /\ fm \in Seq(Pairs) /\ Len(fm) = m + 1
       /\ \A i \in 1 .. m + 1 : fm[i] = IF i <= m THEN front[i] ELSE mid[i - m]
  <2>1. /\ fm \in Seq(Pairs) /\ Len(fm) = Len(front) + Len(mid)
        /\ \A i \in 1 .. Len(front) + Len(mid) :
             fm[i] = IF i <= Len(front) THEN front[i] ELSE mid[i - Len(front)]
    BY <1>5, <1>10, ConcatProperties
  <2> HIDE DEF fm
  <2> QED
    BY <1>5, <1>10, <2>1
<1> HIDE DEF fm
<1> DEFINE r == fm \o back
<1>12. /\ r \in Seq(Pairs) /\ Len(r) = Len(q) + 1
       /\ \A i \in 1 .. Len(q) + 1 : r[i] = IF i <= m + 1 THEN fm[i] ELSE back[i - (m + 1)]
  <2>1. (m + 1) + (Len(q) - m) = Len(q) + 1
    BY <1>1, <1>2
  <2>2. /\ r \in Seq(Pairs) /\ Len(r) = Len(fm) + Len(back)
        /\ \A i \in 1 .. Len(fm) + Len(back) :
             r[i] = IF i <= Len(fm) THEN fm[i] ELSE back[i - Len(fm)]
    BY <1>9, <1>11, ConcatProperties
  <2> QED
    BY <1>9, <1>11, <2>1, <2>2
<1>13. Insert(q, t, n) = r
  BY <1>6 DEF fm
<1> HIDE DEF r
<1>14. \A i \in 1 .. m : r[i] = q[i]
  <2> SUFFICES ASSUME NEW i \in 1 .. m PROVE r[i] = q[i]
    OBVIOUS
  <2>1. i \in 1 .. Len(q) + 1 /\ i \in 1 .. m + 1 /\ i <= m /\ i <= m + 1
    BY <1>1, <1>2
  <2> QED
    BY <1>5, <1>11, <1>12, <2>1
<1>15. r[m + 1] = Sleeper(t, left)
  <2>1. m + 1 \in 1 .. Len(q) + 1 /\ m + 1 \in 1 .. m + 1 /\ m + 1 <= m + 1
        /\ ~(m + 1 <= m) /\ (m + 1) - m = 1
    BY <1>1, <1>2
  <2> QED
    BY <1>10, <1>11, <1>12, <2>1
<1>16. ASSUME NEW i \in m + 1 .. Len(q)
       PROVE  /\ r[i + 1].tcb = q[i].tcb
              /\ r[i + 1].time_left = IF i = m + 1 THEN q[i].time_left - left
                                                   ELSE q[i].time_left
  <2>1. /\ i + 1 \in 1 .. Len(q) + 1 /\ ~(i + 1 <= m + 1) /\ (i + 1) - (m + 1) = i - m
        /\ i - m \in 1 .. Len(q) - m /\ m + (i - m) = i /\ (i - m = 1 <=> i = m + 1)
    BY <1>1, <1>2
  <2>2. r[i + 1] = f(i - m)
    BY <1>9, <1>12, <2>1
  <2>3. PICK j \in 1 .. Len(rest) : j = i - m /\ m + j = i
    BY <1>5, <2>1
  <2>4. f(j).tcb = q[i].tcb /\ f(j).time_left = IF j = 1 THEN q[i].time_left - left
                                                          ELSE q[i].time_left
    BY <1>8, <2>3
  <2> QED
    BY <2>1, <2>2, <2>3, <2>4
<1> QED
  BY <1>2, <1>3, <1>12, <1>13, <1>14, <1>15, <1>16 DEF m, left

LEMMA InsertNames ==
  ASSUME NEW q \in Seq(Pairs), NEW t \in Threads, NEW n \in 0 .. Word - 1
  PROVE  /\ ToSet(Names(Insert(q, t, n))) = ToSet(Names(q)) \cup {t}
         /\ IsInjective(Names(q)) /\ t \notin ToSet(Names(q))
              => IsInjective(Names(Insert(q, t, n)))
<1> DEFINE m == WakeBefore(q, n)
           r == Insert(q, t, n)
<1>1. /\ m \in 0 .. Len(q) /\ r \in Seq(Pairs) /\ Len(r) = Len(q) + 1
      /\ \A i \in 1 .. m : r[i] = q[i]
      /\ r[m + 1].tcb = t
      /\ \A i \in m + 1 .. Len(q) : r[i + 1].tcb = q[i].tcb
  <2> DEFINE left == n - TimeTo(q, m)
  <2>1. /\ m \in 0 .. Len(q) /\ r \in Seq(Pairs) /\ Len(r) = Len(q) + 1
        /\ \A i \in 1 .. m : r[i] = q[i]
        /\ r[m + 1] = Sleeper(t, left)
        /\ \A i \in m + 1 .. Len(q) : r[i + 1].tcb = q[i].tcb
    BY InsertFacts
  <2>2. Sleeper(t, left).tcb = t
    BY DEF Sleeper
  <2> HIDE DEF m, r, left
  <2> QED
    BY <2>1, <2>2
<1> HIDE DEF m, r
<1>2. /\ Len(q) \in Nat /\ Names(q) \in Seq(Threads) /\ Len(Names(q)) = Len(q)
      /\ \A i \in 1 .. Len(q) : Names(q)[i] = q[i].tcb
  BY NamesFacts
<1>3. /\ Names(r) \in Seq(Threads) /\ Len(Names(r)) = Len(q) + 1
      /\ \A i \in 1 .. Len(q) + 1 : Names(r)[i] = r[i].tcb
  BY <1>1, NamesFacts
<1>4. InsertedAt(Names(q), m, t, Names(r))
  <2>1. ASSUME NEW i \in 1 .. m PROVE Names(r)[i] = Names(q)[i]
    <3>1. i \in 1 .. Len(q) /\ i \in 1 .. Len(q) + 1
      BY <1>1, <1>2
    <3> QED
      BY <1>1, <1>2, <1>3, <3>1
  <2>2. Names(r)[m + 1] = t
    BY <1>1, <1>2, <1>3
  <2>3. ASSUME NEW i \in m + 1 .. Len(q) PROVE Names(r)[i + 1] = Names(q)[i]
    <3>1. i \in 1 .. Len(q) /\ i + 1 \in 1 .. Len(q) + 1
      BY <1>1, <1>2
    <3> QED
      BY <1>1, <1>2, <1>3, <3>1
  <2> QED
    BY <1>2, <1>3, <2>1, <2>2, <2>3 DEF InsertedAt
<1>5. m \in 0 .. Len(Names(q))
  BY <1>1, <1>2
<1> QED
  BY <1>2, <1>3, <1>4, <1>5, InsertedInQueue DEF r

-----------------------------------------------------------------------------
(* How the times change. *)

(* Two functions that grow by the same steps grow alike.                   *)
LEMMA StepsAlike ==
  ASSUME NEW k \in Nat, NEW f \in [0 .. k -> Int], NEW g \in [0 .. k -> Int],
         NEW s \in [1 .. k -> Int],
         \A i \in 1 .. k : f[i] = f[i - 1] + s[i] /\ g[i] = g[i - 1] + s[i]
  PROVE  f[k] - f[0] = g[k] - g[0]
<1> DEFINE S == {i \in 0 .. k : f[i] - f[0] = g[i] - g[0]}
<1>1. 0 \in S
  OBVIOUS
<1>2. ASSUME NEW i \in 0 .. k - 1, i \in S PROVE i + 1 \in S
  <2>1. i + 1 \in 1 .. k /\ (i + 1) - 1 = i /\ i \in 0 .. k /\ i + 1 \in 0 .. k /\ 0 \in 0 .. k
    OBVIOUS
  <2>2. f[i + 1] = f[i] + s[i + 1] /\ g[i + 1] = g[i] + s[i + 1]
    BY <2>1
  <2>3. /\ f[i] \in Int /\ g[i] \in Int /\ f[0] \in Int /\ g[0] \in Int
        /\ s[i + 1] \in Int
    BY <2>1
  <2>4. f[i] - f[0] = g[i] - g[0]
    BY <1>2
  <2> HIDE DEF S
  <2>5. f[i + 1] - f[0] = g[i + 1] - g[0]
    <3>1. f[i + 1] - f[0] = (f[i] - f[0]) + s[i + 1]
      BY <2>2, <2>3
    <3>2. g[i + 1] - g[0] = (g[i] - g[0]) + s[i + 1]
      BY <2>2, <2>3
    <3> QED
      BY <2>4, <3>1, <3>2
  <2> QED
    BY <2>1, <2>5 DEF S
<1> HIDE DEF S
<1>3. 0 .. k \subseteq S
  BY <1>1, <1>2, ClimbsTo
<1>4. k \in S
  BY <1>3
<1> QED
  BY <1>4 DEF S

(* The k sleepers of q after place a have as much left as those of r after *)
(* place b.                                                                *)
LeftAlike(q, a, r, b, k) ==
  /\ a \in Nat /\ b \in Nat /\ k \in Nat
  /\ a + k <= Len(q) /\ b + k <= Len(r)
  /\ \A i \in 1 .. k : q[a + i].time_left = r[b + i].time_left

(* Then the times grow alike.                                              *)
LEMMA TimesRun ==
  ASSUME NEW q \in Seq(Pairs), NEW r \in Seq(Pairs), NEW a, NEW b, NEW k,
         LeftAlike(q, a, r, b, k)
  PROVE  TimeTo(q, a + k) - TimeTo(q, a) = TimeTo(r, b + k) - TimeTo(r, b)
<1> DEFINE f == [i \in 0 .. k |-> TimeTo(q, a + i)]
           g == [i \in 0 .. k |-> TimeTo(r, b + i)]
           s == [i \in 1 .. k |-> q[a + i].time_left]
<1>1. /\ Len(q) \in Nat /\ Len(r) \in Nat /\ a \in Nat /\ b \in Nat /\ k \in Nat
      /\ a + k <= Len(q) /\ b + k <= Len(r)
  BY LenProperties DEF LeftAlike
<1>2. ASSUME NEW i \in 0 .. k PROVE TimeTo(q, a + i) \in Int /\ TimeTo(r, b + i) \in Int
  <2>1. a + i \in 0 .. Len(q) /\ b + i \in 0 .. Len(r)
    BY <1>1
  <2>2. TimeTo(q, a + i) \in Nat /\ TimeTo(r, b + i) \in Nat
    BY <2>1, TimesAddUp
  <2> QED
    BY <2>2
<1>3. ASSUME NEW i \in 1 .. k
      PROVE  /\ s[i] \in Int /\ f[i] = f[i - 1] + s[i] /\ g[i] = g[i - 1] + s[i]
  <2>1. /\ a + i \in 1 .. Len(q) /\ b + i \in 1 .. Len(r)
        /\ (a + i) - 1 = a + (i - 1) /\ (b + i) - 1 = b + (i - 1)
        /\ i \in 0 .. k /\ i - 1 \in 0 .. k
    BY <1>1
  <2>2. TimeTo(q, a + i) = TimeTo(q, (a + i) - 1) + q[a + i].time_left
    BY <2>1, TimesAddUp
  <2>3. TimeTo(r, b + i) = TimeTo(r, (b + i) - 1) + r[b + i].time_left
    BY <2>1, TimesAddUp
  <2>4. q[a + i].time_left \in 0 .. Word - 1 /\ q[a + i].time_left = r[b + i].time_left
    BY <2>1, NamesFacts DEF LeftAlike
  <2>5. q[a + i].time_left \in Int
    BY <2>4, TimesAssumption
  <2>6. f[i] = f[i - 1] + s[i]
    BY <2>1, <2>2
  <2>7. g[i] = g[i - 1] + s[i]
    BY <2>1, <2>3, <2>4
  <2> QED
    BY <2>5, <2>6, <2>7
<1>4. f \in [0 .. k -> Int] /\ g \in [0 .. k -> Int] /\ s \in [1 .. k -> Int]
  BY <1>2, <1>3
<1>5. /\ f[k] = TimeTo(q, a + k) /\ f[0] = TimeTo(q, a)
      /\ g[k] = TimeTo(r, b + k) /\ g[0] = TimeTo(r, b)
  <2>1. k \in 0 .. k /\ 0 \in 0 .. k /\ a + 0 = a /\ b + 0 = b
    BY <1>1
  <2> QED
    BY <2>1
<1> HIDE DEF f, g, s
<1>6. f[k] - f[0] = g[k] - g[0]
  BY <1>1, <1>3, <1>4, StepsAlike
<1> QED
  BY <1>5, <1>6

(* The new sleeper wakes after n interrupts, the others as before.         *)
LEMMA InsertTimes ==
  ASSUME NEW q \in Seq(Pairs), NEW t \in Threads, NEW n \in 0 .. Word - 1
  PROVE  LET m == WakeBefore(q, n)
             r == Insert(q, t, n)
         IN  /\ \A i \in 0 .. m : TimeTo(r, i) = TimeTo(q, i)
             /\ TimeTo(r, m + 1) = n
             /\ \A i \in m + 1 .. Len(q) : TimeTo(r, i + 1) = TimeTo(q, i)
<1> DEFINE m    == WakeBefore(q, n)
           left == n - TimeTo(q, m)
           r    == Insert(q, t, n)
<1>1. /\ m \in 0 .. Len(q) /\ left \in 0 .. n
      /\ r \in Seq(Pairs) /\ Len(r) = Len(q) + 1
      /\ \A i \in 1 .. m : r[i] = q[i]
      /\ r[m + 1] = Sleeper(t, left)
      /\ \A i \in m + 1 .. Len(q) :
           r[i + 1].time_left = IF i = m + 1 THEN q[i].time_left - left ELSE q[i].time_left
  BY InsertFacts
<1>2. left = n - TimeTo(q, m)
  OBVIOUS
<1> HIDE DEF m, r, left
<1>3. Len(q) \in Nat /\ n \in Nat /\ TimeTo(q, m) \in Nat
  <2>1. Len(q) \in Nat
    BY LenProperties
  <2>2. TimeTo(q, m) \in Nat
    BY <1>1, TimesAddUp
  <2> QED
    BY <2>1, <2>2, TimesAssumption
<1>4. ASSUME NEW i \in 0 .. m PROVE TimeTo(r, i) = TimeTo(q, i)
  <2>1. TimeTo(q, 0 + i) - TimeTo(q, 0) = TimeTo(r, 0 + i) - TimeTo(r, 0)
    <3>1. \A j \in 1 .. i : 0 + j \in 1 .. m /\ 0 + j = j
      BY <1>1, <1>3
    <3>2. \A j \in 1 .. i : q[0 + j].time_left = r[0 + j].time_left
      BY <1>1, <3>1
    <3>3. i \in Nat /\ 0 \in Nat /\ 0 + i <= Len(q) /\ 0 + i <= Len(r)
      BY <1>1, <1>3
    <3>4. LeftAlike(q, 0, r, 0, i)
      BY <3>2, <3>3 DEF LeftAlike
    <3> QED
      BY <1>1, <3>4, TimesRun
  <2>2. TimeTo(q, 0) = 0 /\ TimeTo(r, 0) = 0 /\ 0 + i = i
    BY <1>1, TimesAddUp
  <2>3. i \in 0 .. Len(q) /\ i \in 0 .. Len(r)
    BY <1>1, <1>3
  <2>4. TimeTo(q, i) \in Nat /\ TimeTo(r, i) \in Nat
    BY <1>1, <2>3, TimesAddUp
  <2> QED
    BY <2>1, <2>2, <2>4
<1>5. TimeTo(r, m + 1) = n
  <2>1. m + 1 \in 1 .. Len(r) /\ (m + 1) - 1 = m /\ m \in 0 .. m
    BY <1>1, <1>3
  <2>2. TimeTo(r, m + 1) = TimeTo(r, m) + r[m + 1].time_left
    BY <1>1, <2>1, TimesAddUp
  <2>3. r[m + 1].time_left = left /\ TimeTo(r, m) = TimeTo(q, m)
    BY <1>1, <1>4, <2>1 DEF Sleeper
  <2> QED
    BY <1>2, <1>3, <2>2, <2>3
<1>6. ASSUME NEW i \in m + 1 .. Len(q) PROVE TimeTo(r, i + 1) = TimeTo(q, i)
  <2>1. TimeTo(r, (m + 1) + 1) = TimeTo(q, m + 1)
    <3>1. /\ m + 1 \in 1 .. Len(q) /\ (m + 1) - 1 = m /\ m + 1 \in m + 1 .. Len(q)
          /\ (m + 1) + 1 \in 1 .. Len(r) /\ ((m + 1) + 1) - 1 = m + 1
      BY <1>1, <1>3
    <3>2. TimeTo(r, (m + 1) + 1) = TimeTo(r, m + 1) + r[(m + 1) + 1].time_left
      BY <1>1, <3>1, TimesAddUp
    <3>3. TimeTo(q, m + 1) = TimeTo(q, m) + q[m + 1].time_left
      BY <3>1, TimesAddUp
    <3>4. r[(m + 1) + 1].time_left = q[m + 1].time_left - left
      BY <1>1, <3>1
    <3>5. q[m + 1].time_left \in Int
      BY <3>1, NamesFacts, TimesAssumption
    <3> QED
      BY <1>2, <1>3, <1>5, <3>2, <3>3, <3>4, <3>5
  <2> DEFINE k == i - (m + 1)
  <2>2. /\ k \in Nat /\ (m + 1) + k = i /\ ((m + 1) + 1) + k = i + 1
        /\ (m + 1) + 1 \in Nat /\ m + 1 \in Nat
        /\ (m + 1) + k <= Len(q) /\ ((m + 1) + 1) + k <= Len(r)
    BY <1>1, <1>3
  <2>3. \A j \in 1 .. k : q[(m + 1) + j].time_left = r[((m + 1) + 1) + j].time_left
    <3> SUFFICES ASSUME NEW j \in 1 .. k
                 PROVE  q[(m + 1) + j].time_left = r[((m + 1) + 1) + j].time_left
      OBVIOUS
    <3>0. /\ m \in Nat /\ i \in Int /\ i <= Len(q) /\ Len(q) \in Nat
          /\ j \in Int /\ 1 <= j /\ j <= i - (m + 1)
      BY <1>1, <1>3
    <3>1. /\ (m + 1) + j \in m + 1 .. Len(q) /\ (m + 1) + j # m + 1
          /\ ((m + 1) + 1) + j = ((m + 1) + j) + 1
      <4> HIDE DEF k
      <4> QED
        BY <3>0
    <3> QED
      BY <1>1, <3>1
  <2> HIDE DEF k
  <2>4. TimeTo(q, (m + 1) + k) - TimeTo(q, m + 1) =
          TimeTo(r, ((m + 1) + 1) + k) - TimeTo(r, (m + 1) + 1)
    <3>1. LeftAlike(q, m + 1, r, (m + 1) + 1, k)
      BY <2>2, <2>3 DEF LeftAlike
    <3> QED
      BY <1>1, <3>1, TimesRun
  <2>5. i \in 0 .. Len(q) /\ i + 1 \in 0 .. Len(r) /\ m + 1 \in 0 .. Len(q)
    BY <1>1, <1>3
  <2>6. TimeTo(q, i) \in Nat /\ TimeTo(r, i + 1) \in Nat /\ TimeTo(q, m + 1) \in Nat
    BY <1>1, <2>5, TimesAddUp
  <2> QED
    BY <2>1, <2>2, <2>4, <2>6
<1> QED
  BY <1>4, <1>5, <1>6 DEF m, r

(* The first sleeper is not due.                                           *)
HeadWaits(q) == Len(q) > 0 => q[1].time_left # 0

(* Every sleeper is one interrupt nearer, or Word interrupts less one       *)
(* farther if the first had no time left.                                  *)
LEMMA CountedTimes ==
  ASSUME NEW q \in Seq(Pairs), NEW i \in 1 .. Len(q)
  PROVE  /\ HeadWaits(q) => TimeTo(Counted(q), i) = TimeTo(q, i) - 1
         /\ ~HeadWaits(q) => TimeTo(Counted(q), i) = TimeTo(q, i) + (Word - 1)
<1> DEFINE c == Counted(q)
<1>1. /\ c \in Seq(Pairs) /\ Len(c) = Len(q)
      /\ \A j \in 1 .. Len(q) :
           c[j].time_left = IF j = 1 THEN (q[1].time_left - 1) % Word ELSE q[j].time_left
  BY CountedFacts
<1> HIDE DEF c
<1>2. Len(q) \in Nat /\ 1 \in 1 .. Len(q) /\ 1 - 1 = 0 /\ 1 \in 0 .. Len(q) /\ i \in 0 .. Len(q)
  BY LenProperties
<1>3. /\ HeadWaits(q) => c[1].time_left = q[1].time_left - 1
      /\ ~HeadWaits(q) => c[1].time_left = q[1].time_left + (Word - 1)
      /\ q[1].time_left \in Nat /\ c[1].time_left \in Int /\ Word \in Nat
  <2>1. q[1].time_left \in 0 .. Word - 1 /\ Word \in Nat \ {0, 1}
    BY <1>2, NamesFacts, TimesAssumption
  <2>2. CASE HeadWaits(q)
    <3>1. q[1].time_left \in 1 .. Word - 1
      BY <1>2, <2>1, <2>2 DEF HeadWaits
    <3>2. (q[1].time_left - 1) % Word = q[1].time_left - 1
      BY <2>1, <3>1
    <3> QED
      BY <1>1, <1>2, <2>1, <2>2, <3>2
  <2>3. CASE ~HeadWaits(q)
    <3>1. q[1].time_left = 0
      BY <2>3 DEF HeadWaits
    <3>2. (0 - 1) % Word = Word - 1
      BY <2>1, Z3T(30)
    <3> QED
      BY <1>1, <1>2, <2>1, <2>3, <3>1, <3>2
  <2> QED
    BY <2>2, <2>3
<1>4. TimeTo(c, 1) = c[1].time_left /\ TimeTo(q, 1) = q[1].time_left
  <2>1. /\ TimeTo(c, 1) = TimeTo(c, 1 - 1) + c[1].time_left /\ TimeTo(c, 0) = 0
        /\ TimeTo(q, 1) = TimeTo(q, 1 - 1) + q[1].time_left /\ TimeTo(q, 0) = 0
    BY <1>1, <1>2, TimesAddUp
  <2> QED
    BY <1>2, <1>3, <2>1
<1> DEFINE k == i - 1
<1>5. /\ k \in Nat /\ 1 + k = i /\ 1 + k <= Len(q) /\ 1 + k <= Len(c)
      /\ \A j \in 1 .. k : 1 + j \in 1 .. Len(q) /\ 1 + j # 1
  BY <1>1, <1>2
<1>6. \A j \in 1 .. k : q[1 + j].time_left = c[1 + j].time_left
  BY <1>1, <1>5
<1> HIDE DEF k
<1>7. TimeTo(q, 1 + k) - TimeTo(q, 1) = TimeTo(c, 1 + k) - TimeTo(c, 1)
  <2>1. LeftAlike(q, 1, c, 1, k)
    BY <1>5, <1>6 DEF LeftAlike
  <2> QED
    BY <1>1, <2>1, TimesRun
<1>8. TimeTo(q, i) \in Nat /\ TimeTo(c, i) \in Nat
  BY <1>1, <1>2, TimesAddUp
<1>9. TimeTo(q, i) - q[1].time_left = TimeTo(c, i) - c[1].time_left
  <2>1. 1 + k = i
    BY <1>5
  <2> QED
    BY <1>4, <1>7, <2>1
<1>10. CASE HeadWaits(q)
  <2>1. c[1].time_left = q[1].time_left - 1 /\ q[1].time_left \in Nat
    BY <1>3, <1>10
  <2>2. TimeTo(c, i) = TimeTo(q, i) - 1
    BY <1>8, <1>9, <2>1
  <2> QED
    BY <1>10, <2>2 DEF c
<1>11. CASE ~HeadWaits(q)
  <2>1. /\ c[1].time_left = q[1].time_left + (Word - 1)
        /\ q[1].time_left \in Nat /\ Word \in Nat
    BY <1>3, <1>11
  <2>2. TimeTo(c, i) = TimeTo(q, i) + (Word - 1)
    BY <1>8, <1>9, <2>1
  <2> QED
    BY <1>11, <2>2 DEF c
<1> QED
  BY <1>10, <1>11

(* Those are due whose time is 0, and the others keep theirs.              *)
LEMMA DueTimes ==
  ASSUME NEW q \in Seq(Pairs)
  PROVE  /\ \A i \in 1 .. Len(q) : i <= Due(q) <=> TimeTo(q, i) = 0
         /\ \A i \in 1 .. Len(q) - Due(q) : TimeTo(Asleep(q), i) = TimeTo(q, Due(q) + i)
<1> DEFINE d == Due(q)
           a == Asleep(q)
<1>1. /\ d \in 0 .. Len(q) /\ Len(q) \in Nat
      /\ \A i \in 1 .. d : q[i].time_left = 0
      /\ d < Len(q) => q[d + 1].time_left # 0
  BY DueFacts, LenProperties
<1>2. /\ a \in Seq(Pairs) /\ Len(a) = Len(q) - d
      /\ \A i \in 1 .. Len(q) - d : a[i] = q[d + i]
  BY WokenFacts
<1> HIDE DEF d, a
<1>3. \A i \in 0 .. Len(q) : TimeTo(q, i) \in Nat
  BY TimesAddUp
<1>4. ASSUME NEW i \in 0 .. d PROVE TimeTo(q, i) = 0
  <2> DEFINE S == {j \in 0 .. i : TimeTo(q, j) = 0}
  <2>1. 0 \in S
    BY TimesAddUp
  <2>2. ASSUME NEW j \in 0 .. i - 1, j \in S PROVE j + 1 \in S
    <3>1. j + 1 \in 1 .. Len(q) /\ (j + 1) - 1 = j /\ j + 1 \in 1 .. d /\ j + 1 \in 0 .. i
      BY <1>1
    <3>2. TimeTo(q, j + 1) = TimeTo(q, j) + q[j + 1].time_left /\ q[j + 1].time_left = 0
      BY <1>1, <3>1, TimesAddUp
    <3> QED
      BY <2>2, <3>1, <3>2
  <2> HIDE DEF S
  <2>3. i \in Nat
    BY <1>1
  <2>4. 0 .. i \subseteq S
    BY <2>1, <2>2, <2>3, ClimbsTo
  <2>5. i \in S
    BY <2>3, <2>4
  <2> QED
    BY <2>5 DEF S
<1>5. ASSUME NEW i \in 1 .. Len(q), ~(i <= d) PROVE TimeTo(q, i) # 0
  <2>1. /\ d + 1 \in 1 .. Len(q) /\ (d + 1) - 1 = d /\ d < Len(q) /\ d + 1 \in 0 .. Len(q)
        /\ d \in 0 .. d /\ i \in 0 .. Len(q) /\ d + 1 <= i
    BY <1>1, <1>5
  <2>2. TimeTo(q, d + 1) = TimeTo(q, d) + q[d + 1].time_left
    BY <2>1, TimesAddUp
  <2>3. q[d + 1].time_left \in Nat \ {0}
    BY <1>1, <2>1, NamesFacts, TimesAssumption
  <2>4. TimeTo(q, d) = 0
    BY <1>4, <2>1
  <2>5. TimeTo(q, d + 1) <= TimeTo(q, i)
    BY <2>1, TimesClimb
  <2> QED
    BY <1>3, <2>1, <2>2, <2>3, <2>4, <2>5
<1>6. ASSUME NEW i \in 1 .. Len(q) - d PROVE TimeTo(a, i) = TimeTo(q, d + i)
  <2>1. /\ i \in Nat /\ d + i <= Len(q) /\ 0 + i <= Len(a) /\ d \in Nat /\ 0 + i = i
        /\ d + i \in 0 .. Len(q) /\ i \in 0 .. Len(a) /\ d \in 0 .. d
    BY <1>1, <1>2
  <2>2. \A j \in 1 .. i : q[d + j].time_left = a[0 + j].time_left
    BY <1>1, <1>2
  <2>3. TimeTo(q, d + i) - TimeTo(q, d) = TimeTo(a, 0 + i) - TimeTo(a, 0)
    <3>1. LeftAlike(q, d, a, 0, i)
      BY <2>1, <2>2 DEF LeftAlike
    <3> QED
      BY <1>2, <3>1, TimesRun
  <2>4. /\ TimeTo(a, 0) = 0 /\ TimeTo(q, d) = 0
        /\ TimeTo(a, i) \in Nat /\ TimeTo(q, d + i) \in Nat
    BY <1>2, <1>3, <1>4, <2>1, TimesAddUp
  <2> QED
    BY <2>1, <2>3, <2>4
<1> QED
  BY <1>1, <1>4, <1>5, <1>6 DEF d, a

-----------------------------------------------------------------------------
(* The alarms of a queue: when who sleeps wakes. *)

AlarmsOf(q) ==
  [t \in {q[i].tcb : i \in DOMAIN q} |-> TimeTo(q, CHOOSE i \in DOMAIN q : q[i].tcb = t)]

LEMMA AlarmFacts ==
  ASSUME NEW q \in Seq(Pairs), IsInjective(Names(q))
  PROVE  /\ DOMAIN AlarmsOf(q) = ToSet(Names(q))
         /\ \A t : t \in DOMAIN AlarmsOf(q) <=> \E i \in 1 .. Len(q) : q[i].tcb = t
         /\ \A i \in 1 .. Len(q) : AlarmsOf(q)[q[i].tcb] = TimeTo(q, i)
         /\ AlarmsOf(q) = [t \in DOMAIN AlarmsOf(q) |-> AlarmsOf(q)[t]]
<1> DEFINE T == {q[i].tcb : i \in DOMAIN q}
<1>1. /\ DOMAIN q = 1 .. Len(q) /\ Names(q) \in Seq(Threads) /\ Len(Names(q)) = Len(q)
      /\ \A i \in 1 .. Len(q) : Names(q)[i] = q[i].tcb
  BY NamesFacts
<1>2. \A i, j \in 1 .. Len(q) : q[i].tcb = q[j].tcb => i = j
  <2>1. \A i, j \in 1 .. Len(Names(q)) : Names(q)[i] = Names(q)[j] => i = j
    BY <1>1, QueueOnce
  <2> QED
    BY <1>1, <2>1
<1>3. DOMAIN AlarmsOf(q) = T
  BY DEF AlarmsOf
<1>4. \A t : t \in T <=> \E i \in 1 .. Len(q) : q[i].tcb = t
  BY <1>1
<1>5. T = ToSet(Names(q))
  <2>1. \A t : t \in ToSet(Names(q)) <=> \E i \in 1 .. Len(Names(q)) : Names(q)[i] = t
    BY <1>1, QueueMembers
  <2> QED
    BY <1>1, <1>4, <2>1
<1>6. ASSUME NEW i \in 1 .. Len(q) PROVE AlarmsOf(q)[q[i].tcb] = TimeTo(q, i)
  <2> DEFINE j == CHOOSE k \in DOMAIN q : q[k].tcb = q[i].tcb
  <2>1. AlarmsOf(q)[q[i].tcb] = TimeTo(q, j)
    BY <1>1 DEF AlarmsOf
  <2>2. j \in DOMAIN q /\ q[j].tcb = q[i].tcb
    BY <1>1
  <2>3. j = i
    <3> HIDE DEF j
    <3> QED
      BY <1>1, <1>2, <2>2
  <2> QED
    BY <2>1, <2>3
<1>7. AlarmsOf(q) = [t \in DOMAIN AlarmsOf(q) |-> AlarmsOf(q)[t]]
  BY DEF AlarmsOf
<1> QED
  BY <1>3, <1>4, <1>5, <1>6, <1>7

(* A sleep sets an alarm and moves no other.                               *)
LEMMA InsertAlarms ==
  ASSUME NEW q \in Seq(Pairs), NEW t \in Threads, NEW n \in 0 .. Word - 1,
         IsInjective(Names(q)), t \notin ToSet(Names(q))
  PROVE  AlarmsOf(Insert(q, t, n)) =
           [u \in DOMAIN AlarmsOf(q) \cup {t} |-> IF u = t THEN n ELSE AlarmsOf(q)[u]]
<1> DEFINE m == WakeBefore(q, n)
           r == Insert(q, t, n)
           A == AlarmsOf(q)
           B == AlarmsOf(r)
<1>1. /\ m \in 0 .. Len(q) /\ r \in Seq(Pairs) /\ Len(r) = Len(q) + 1
      /\ \A i \in 1 .. m : r[i] = q[i]
      /\ r[m + 1].tcb = t
      /\ \A i \in m + 1 .. Len(q) : r[i + 1].tcb = q[i].tcb
  <2> DEFINE left == n - TimeTo(q, m)
  <2>1. /\ m \in 0 .. Len(q) /\ r \in Seq(Pairs) /\ Len(r) = Len(q) + 1
        /\ \A i \in 1 .. m : r[i] = q[i]
        /\ r[m + 1] = Sleeper(t, left)
        /\ \A i \in m + 1 .. Len(q) : r[i + 1].tcb = q[i].tcb
    BY InsertFacts
  <2>2. Sleeper(t, left).tcb = t
    BY DEF Sleeper
  <2> HIDE DEF m, r, left
  <2> QED
    BY <2>1, <2>2
<1>2. /\ \A i \in 0 .. m : TimeTo(r, i) = TimeTo(q, i)
      /\ TimeTo(r, m + 1) = n
      /\ \A i \in m + 1 .. Len(q) : TimeTo(r, i + 1) = TimeTo(q, i)
  BY InsertTimes
<1>3. ToSet(Names(r)) = ToSet(Names(q)) \cup {t} /\ IsInjective(Names(r))
  BY InsertNames
<1> HIDE DEF m, r
<1>4. Len(q) \in Nat
  BY LenProperties
<1>5. /\ DOMAIN A = ToSet(Names(q))
      /\ \A u : u \in DOMAIN A <=> \E i \in 1 .. Len(q) : q[i].tcb = u
      /\ \A i \in 1 .. Len(q) : A[q[i].tcb] = TimeTo(q, i)
  BY AlarmFacts
<1>6. /\ DOMAIN B = ToSet(Names(r))
      /\ \A i \in 1 .. Len(r) : B[r[i].tcb] = TimeTo(r, i)
      /\ B = [u \in DOMAIN B |-> B[u]]
  BY <1>1, <1>3, AlarmFacts
<1> HIDE DEF A, B
<1>7. DOMAIN B = DOMAIN A \cup {t} /\ t \notin DOMAIN A
  BY <1>3, <1>5, <1>6
<1>8. B[t] = n
  <2>1. m + 1 \in 1 .. Len(r)
    BY <1>1, <1>4
  <2> QED
    BY <1>1, <1>2, <1>6, <2>1
<1>9. ASSUME NEW u \in DOMAIN A PROVE B[u] = A[u]
  <2>1. PICK i \in 1 .. Len(q) : q[i].tcb = u
    BY <1>5
  <2>2. A[u] = TimeTo(q, i)
    BY <1>5, <2>1
  <2>3. CASE i <= m
    <3>1. i \in 1 .. m /\ i \in 0 .. m /\ i \in 1 .. Len(r)
      BY <1>1, <1>4, <2>3
    <3>2. r[i].tcb = u /\ TimeTo(r, i) = TimeTo(q, i)
      BY <1>1, <1>2, <2>1, <3>1
    <3> QED
      BY <1>6, <2>2, <3>1, <3>2
  <2>4. CASE ~(i <= m)
    <3>1. i \in m + 1 .. Len(q) /\ i + 1 \in 1 .. Len(r)
      BY <1>1, <1>4, <2>4
    <3>2. r[i + 1].tcb = u /\ TimeTo(r, i + 1) = TimeTo(q, i)
      BY <1>1, <1>2, <2>1, <3>1
    <3> QED
      BY <1>6, <2>2, <3>1, <3>2
  <2> QED
    BY <2>3, <2>4
<1>10. B = [u \in DOMAIN A \cup {t} |-> IF u = t THEN n ELSE A[u]]
  BY <1>6, <1>7, <1>8, <1>9
<1> QED
  BY <1>10 DEF A, B, r

(* A timer interrupt brings every alarm nearer, and those that were 1 away *)
(* go off.                                                                 *)
LEMMA InterruptAlarms ==
  ASSUME NEW q \in Seq(Pairs), IsInjective(Names(q)), HeadWaits(q)
  PROVE  AlarmsOf(Asleep(Counted(q))) =
           [u \in {v \in DOMAIN AlarmsOf(q) : AlarmsOf(q)[v] > 1} |-> AlarmsOf(q)[u] - 1]
<1> DEFINE c == Counted(q)
           a == Asleep(c)
           d == Due(c)
           A == AlarmsOf(q)
           B == AlarmsOf(a)
<1>1. /\ c \in Seq(Pairs) /\ Len(c) = Len(q) /\ Names(c) = Names(q)
      /\ IsInjective(Names(c)) /\ Len(q) \in Nat
      /\ \A i \in 1 .. Len(q) : c[i].tcb = q[i].tcb
  <2>1. c \in Seq(Pairs) /\ Len(c) = Len(q) /\ Names(c) = Names(q)
    BY CountedFacts
  <2> HIDE DEF c
  <2>2. /\ \A i \in 1 .. Len(q) : Names(c)[i] = c[i].tcb /\ Names(q)[i] = q[i].tcb
        /\ Len(q) \in Nat
    BY <2>1, NamesFacts
  <2> QED
    BY <2>1, <2>2
<1>2. \A i \in 1 .. Len(q) : TimeTo(c, i) = TimeTo(q, i) - 1
  BY CountedTimes
<1> HIDE DEF c
<1>3. /\ d \in 0 .. Len(q)
      /\ \A i \in 1 .. Len(q) : i <= d <=> TimeTo(c, i) = 0
      /\ \A i \in 1 .. Len(q) - d : TimeTo(a, i) = TimeTo(c, d + i)
  BY <1>1, DueFacts, DueTimes
<1>4. /\ a \in Seq(Pairs) /\ Len(a) = Len(q) - d /\ IsInjective(Names(a))
      /\ \A i \in 1 .. Len(q) - d : a[i] = c[d + i]
  BY <1>1, WokenFacts
<1> HIDE DEF d, a
<1>5. /\ \A u : u \in DOMAIN A <=> \E i \in 1 .. Len(q) : q[i].tcb = u
      /\ \A i \in 1 .. Len(q) : A[q[i].tcb] = TimeTo(q, i)
  BY AlarmFacts
<1>6. /\ \A u : u \in DOMAIN B <=> \E i \in 1 .. Len(a) : a[i].tcb = u
      /\ \A i \in 1 .. Len(a) : B[a[i].tcb] = TimeTo(a, i)
      /\ B = [u \in DOMAIN B |-> B[u]]
  BY <1>4, AlarmFacts
<1> HIDE DEF A, B
<1>7. \A i \in 1 .. Len(q) : TimeTo(q, i) \in Nat /\ TimeTo(c, i) \in Nat
  <2>1. \A i \in 1 .. Len(q) : i \in 0 .. Len(q)
    BY <1>1
  <2> QED
    BY <1>1, <2>1, TimesAddUp
<1>8. ASSUME NEW u \in DOMAIN B PROVE u \in DOMAIN A /\ A[u] > 1 /\ B[u] = A[u] - 1
  <2>1. PICK i \in 1 .. Len(a) : a[i].tcb = u
    BY <1>6
  <2>2. i \in 1 .. Len(q) - d /\ d + i \in 1 .. Len(q) /\ ~(d + i <= d)
    BY <1>1, <1>3, <1>4, <2>1
  <2>3. q[d + i].tcb = u /\ B[u] = TimeTo(c, d + i) /\ A[u] = TimeTo(q, d + i)
    BY <1>1, <1>3, <1>4, <1>5, <1>6, <2>1, <2>2
  <2>4. u \in DOMAIN A
    BY <1>5, <2>2, <2>3
  <2>5. /\ TimeTo(c, d + i) # 0 /\ TimeTo(c, d + i) = TimeTo(q, d + i) - 1
        /\ TimeTo(c, d + i) \in Nat /\ TimeTo(q, d + i) \in Nat
    BY <1>2, <1>3, <1>7, <2>2
  <2> QED
    BY <2>3, <2>4, <2>5
<1>9. ASSUME NEW u \in DOMAIN A, A[u] > 1 PROVE u \in DOMAIN B
  <2>1. PICK i \in 1 .. Len(q) : q[i].tcb = u
    BY <1>5
  <2>2. A[u] = TimeTo(q, i)
    BY <1>5, <2>1
  <2>3. ~(i <= d)
    <3>1. TimeTo(c, i) = TimeTo(q, i) - 1 /\ TimeTo(q, i) \in Nat
      BY <1>2, <1>7
    <3>2. TimeTo(c, i) # 0
      BY <1>9, <2>2, <3>1
    <3> QED
      BY <1>3, <3>2
  <2>4. i - d \in 1 .. Len(q) - d /\ d + (i - d) = i /\ i - d \in 1 .. Len(a)
    BY <1>1, <1>3, <1>4, <2>3
  <2>5. a[i - d].tcb = u
    BY <1>1, <1>4, <2>1, <2>4
  <2> QED
    BY <1>6, <2>4, <2>5
<1>10. DOMAIN B = {v \in DOMAIN A : A[v] > 1}
  BY <1>8, <1>9
<1>11. B = [u \in {v \in DOMAIN A : A[v] > 1} |-> A[u] - 1]
  BY <1>6, <1>8, <1>10
<1> QED
  BY <1>11 DEF A, B, a, c

(* While the first sleeper waits, everybody does.                          *)
LEMMA AlarmsWait ==
  ASSUME NEW q \in Seq(Pairs), IsInjective(Names(q)), HeadWaits(q),
         NEW u \in DOMAIN AlarmsOf(q)
  PROVE  AlarmsOf(q)[u] > 0
<1>1. PICK i \in 1 .. Len(q) : q[i].tcb = u /\ AlarmsOf(q)[u] = TimeTo(q, i)
  BY AlarmFacts
<1>2. Len(q) \in Nat /\ 1 \in 1 .. Len(q) /\ 1 \in 0 .. Len(q) /\ i \in 0 .. Len(q) /\ 1 <= i
  BY LenProperties
<1>3. TimeTo(q, 1) = TimeTo(q, 1 - 1) + q[1].time_left /\ TimeTo(q, 0) = 0
  BY <1>2, TimesAddUp
<1>4. q[1].time_left \in Nat \ {0}
  BY <1>2, NamesFacts, TimesAssumption DEF HeadWaits
<1>5. TimeTo(q, 1) <= TimeTo(q, i)
  BY <1>2, TimesClimb
<1>6. TimeTo(q, i) \in Nat
  BY <1>2, TimesAddUp
<1> QED
  BY <1>1, <1>3, <1>4, <1>5, <1>6

(* An interrupt that finds no time left at the head of the queue wakes      *)
(* nobody and puts everybody off.                                          *)
LEMMA InterruptPutsOff ==
  ASSUME NEW q \in Seq(Pairs), IsInjective(Names(q)), ~HeadWaits(q)
  PROVE  /\ \E u \in DOMAIN AlarmsOf(q) : AlarmsOf(q)[u] = 0
         /\ AlarmsOf(Asleep(Counted(q))) =
              [u \in DOMAIN AlarmsOf(q) |-> AlarmsOf(q)[u] - 1 + Word]
<1> DEFINE c == Counted(q)
           a == Asleep(c)
           d == Due(c)
           A == AlarmsOf(q)
           B == AlarmsOf(a)
<1>1. /\ c \in Seq(Pairs) /\ Len(c) = Len(q) /\ Names(c) = Names(q)
      /\ IsInjective(Names(c)) /\ Len(q) \in Nat /\ Len(q) > 0 /\ q[1].time_left = 0
      /\ \A i \in 1 .. Len(q) : c[i].tcb = q[i].tcb
  <2>1. c \in Seq(Pairs) /\ Len(c) = Len(q) /\ Names(c) = Names(q)
    BY CountedFacts
  <2> HIDE DEF c
  <2>2. /\ \A i \in 1 .. Len(q) : Names(c)[i] = c[i].tcb /\ Names(q)[i] = q[i].tcb
        /\ Len(q) \in Nat
    BY <2>1, NamesFacts
  <2> QED
    BY <2>1, <2>2 DEF HeadWaits
<1>2. \A i \in 1 .. Len(q) : TimeTo(c, i) = TimeTo(q, i) + (Word - 1)
  BY CountedTimes
<1> HIDE DEF c
<1>3. \A i \in 1 .. Len(q) : TimeTo(q, i) \in Nat /\ TimeTo(c, i) \in Nat
  <2>1. \A i \in 1 .. Len(q) : i \in 0 .. Len(q)
    BY <1>1
  <2> QED
    BY <1>1, <2>1, TimesAddUp
<1>4. 1 \in 1 .. Len(q) /\ TimeTo(q, 1) = 0
  <2>1. 1 \in 1 .. Len(q) /\ 1 - 1 = 0
    BY <1>1
  <2>2. TimeTo(q, 1) = TimeTo(q, 1 - 1) + q[1].time_left /\ TimeTo(q, 0) = 0
    BY <2>1, TimesAddUp
  <2> QED
    BY <1>1, <2>1, <2>2
<1>5. d = 0 /\ \A i \in 1 .. Len(q) : TimeTo(a, i) = TimeTo(c, i) /\ a[i] = c[i]
  <2>1. /\ d \in 0 .. Len(q)
        /\ \A i \in 1 .. Len(q) : i <= d <=> TimeTo(c, i) = 0
        /\ \A i \in 1 .. Len(q) - d : TimeTo(a, i) = TimeTo(c, d + i)
    BY <1>1, DueFacts, DueTimes
  <2>2. \A i \in 1 .. Len(q) - d : a[i] = c[d + i]
    BY <1>1, WokenFacts
  <2>3. TimeTo(c, 1) # 0
    BY <1>2, <1>4, TimesAssumption
  <2> HIDE DEF d, a
  <2>4. d = 0
    BY <1>1, <1>4, <2>1, <2>3
  <2>5. \A i \in 1 .. Len(q) : i \in 1 .. Len(q) - d /\ d + i = i
    BY <1>1, <2>4
  <2> QED
    BY <2>1, <2>2, <2>4, <2>5
<1>6. a \in Seq(Pairs) /\ Len(a) = Len(q) /\ IsInjective(Names(a))
  <2>1. a \in Seq(Pairs) /\ Len(a) = Len(q) - d /\ IsInjective(Names(a))
    BY <1>1, WokenFacts
  <2> HIDE DEF a, d
  <2> QED
    BY <1>1, <1>5, <2>1
<1> HIDE DEF d, a
<1>7. /\ \A u : u \in DOMAIN A <=> \E i \in 1 .. Len(q) : q[i].tcb = u
      /\ \A i \in 1 .. Len(q) : A[q[i].tcb] = TimeTo(q, i)
  BY AlarmFacts
<1>8. /\ \A u : u \in DOMAIN B <=> \E i \in 1 .. Len(q) : a[i].tcb = u
      /\ \A i \in 1 .. Len(q) : B[a[i].tcb] = TimeTo(a, i)
      /\ B = [u \in DOMAIN B |-> B[u]]
  BY <1>6, AlarmFacts
<1> HIDE DEF A, B
<1>9. \A i \in 1 .. Len(q) : a[i].tcb = q[i].tcb
  BY <1>1, <1>5
<1>10. DOMAIN B = DOMAIN A
  BY <1>7, <1>8, <1>9
<1>11. ASSUME NEW u \in DOMAIN A PROVE B[u] = A[u] - 1 + Word
  <2>1. PICK i \in 1 .. Len(q) : q[i].tcb = u
    BY <1>7
  <2>2. A[u] = TimeTo(q, i) /\ B[u] = TimeTo(q, i) + (Word - 1)
    BY <1>2, <1>5, <1>7, <1>8, <1>9, <2>1
  <2> QED
    BY <1>3, <2>2, TimesAssumption
<1>12. B = [u \in DOMAIN A |-> A[u] - 1 + Word]
  BY <1>8, <1>10, <1>11
<1>13. \E u \in DOMAIN A : A[u] = 0
  BY <1>4, <1>7
<1> QED
  BY <1>12, <1>13 DEF A, B, a, c

-----------------------------------------------------------------------------
(* Who stands where. *)

People == Threads \cup {Main}

ReadyOnes    == ToSet(ready)
WaitersOf(s) == ToSet(blockedQueue[s])
Resting      == ToSet(Names(sleepingQueue))

-----------------------------------------------------------------------------
(* The inductive invariant. *)

(* TypeOK, but that owed is not below 0 follows only from the accounts, and *)
(* what is said of answer and released is proved apart.                    *)
Shapes ==
  /\ running \in AllThreads
  /\ ready \in Seq(People)
  /\ blocked \in [AllThreads -> BOOLEAN]
  /\ finished \in [AllThreads -> BOOLEAN]
  /\ at \in [AllThreads -> Places]
  /\ timeSliceCounter \in 0 .. TimeSlice - 1
  /\ pending \in BOOLEAN
  /\ opened \subseteq Sems
  /\ val \in [Sems -> Int]
  /\ blockedQueue \in [Sems -> Seq(Threads)]
  /\ interrupted \in [Sems -> BOOLEAN]
  /\ owed \in [Sems -> Int]
  /\ sleepingQueue \in Seq(Pairs)
  /\ counted \in Nat
  /\ userFinished \in BOOLEAN

(* main() is never in user mode, the idle thread never in a call; who has   *)
(* not started is not finished.                                            *)
PlacesFit ==
  /\ at[Main] \in {"main", "yield", "returned"}
  /\ at[Idle] \in {"fresh", "user", "timer"}
  /\ \A t \in Threads : /\ at[t] \notin {"main", "returned"}
                        /\ at[t] \in {"none", "created"} => ~finished[t]

(* Nobody stands twice in a queue. *)
StandOnce ==
  /\ IsInjective(ready)
  /\ \A s \in Sems : IsInjective(blockedQueue[s])
  /\ IsInjective(Names(sleepingQueue))

(* Who waits is in the call that made it wait. *)
WaitInPlace ==
  /\ \A s \in Sems : \A t \in WaitersOf(s) : at[t] = s
  /\ \A t \in Resting : at[t] = "sleep"

(* The flag blocked says who waits. *)
BlockedWait ==
  /\ \A t \in People : blocked[t] <=> t \in Resting \/ \E s \in Sems : t \in WaitersOf(s)
  /\ ~blocked[Idle]

ReadyApart ==
  /\ running \notin ReadyOnes /\ ~blocked[running]
  /\ \A t \in ReadyOnes : ~blocked[t]

(* A thread that has started and is not over is somewhere, and no other. *)
Active(t) == at[t] \notin {"none", "created"} /\ (finished[t] => t = running)
ActiveSomewhere ==
  \A t \in People : Active(t) <=> t = running \/ t \in ReadyOnes \/ blocked[t]

OpenedOnly ==
  /\ \A t \in AllThreads : at[t] \in Sems => at[t] \in opened
  /\ \A s \in Sems \ opened : blockedQueue[s] = <<>>

IInv ==
  /\ Shapes /\ PlacesFit /\ StandOnce /\ WaitInPlace /\ BlockedWait
  /\ ReadyApart /\ ActiveSomewhere /\ OpenedOnly

-----------------------------------------------------------------------------
(* The switch of threads. *)

(* What the invariant says of who runs and who is ready, in every state    *)
(* and in the next one.                                                    *)
LEMMA PeopleFacts ==
  /\ Main \notin Threads /\ Idle \notin People /\ AllThreads = People \cup {Idle}
  /\ \A s \in Sems : s \notin States
  BY ThreadsAssumption DEF People, AllThreads

LEMMA StateFacts ==
  ASSUME Shapes
  PROVE  /\ ReadyOnes \subseteq People
         /\ \A s \in Sems : WaitersOf(s) \subseteq Threads /\ blockedQueue[s] \in Seq(Threads)
         /\ Resting \subseteq Threads
<1>1. ReadyOnes \subseteq People
  BY QueueMembers DEF Shapes, ReadyOnes
<1>2. \A s \in Sems : WaitersOf(s) \subseteq Threads /\ blockedQueue[s] \in Seq(Threads)
  BY QueueMembers DEF Shapes, WaitersOf
<1>3. Resting \subseteq Threads
  BY NamesFacts, QueueMembers DEF Shapes, Resting
<1> QED
  BY <1>1, <1>2, <1>3

LEMMA UserIsThread ==
  ASSUME Shapes, PlacesFit, at[running] = "user", running # Idle
  PROVE  running \in Threads
  BY PeopleFacts DEF Shapes, PlacesFit, People

(* Whether the running thread is put back into the ready queue. *)
Stays == ~(finished'[running] \/ blocked'[running] \/ running = Idle)

LEMMA PutBackFacts ==
  ASSUME Shapes, NEW q \in Seq(People), IsInjective(q), running \notin ToSet(q)
  PROVE  /\ PutBack(q) \in Seq(People) /\ IsInjective(PutBack(q))
         /\ ToSet(PutBack(q)) = ToSet(q) \cup (IF Stays THEN {running} ELSE {})
         /\ q # <<>> => PutBack(q) # <<>>
<1>1. CASE Stays
  <2>1. running \in People
    BY <1>1, PeopleFacts DEF Stays, Shapes
  <2>2. PutBack(q) = Append(q, running)
    BY <1>1 DEF Stays, PutBack
  <2> QED
    BY <1>1, <2>1, <2>2, PutInQueue
<1>2. CASE ~Stays
  <2>1. PutBack(q) = q
    BY <1>2 DEF Stays, PutBack
  <2> QED
    BY <1>2, <2>1
<1> QED
  BY <1>1, <1>2

(* A switch loses nobody and doubles nobody: those who were ready, and the *)
(* one that gives way unless it is over or waits, run or are ready.        *)
LEMMA DispatchFacts ==
  ASSUME Shapes, NEW q \in Seq(People), IsInjective(q), running \notin ToSet(q),
         NEW place \in Places, Dispatch(q, place)
  PROVE  /\ running' \in AllThreads /\ ready' \in Seq(People) /\ IsInjective(ready')
         /\ at' \in [AllThreads -> Places]
         /\ \A t \in AllThreads : at'[t] = IF t = running THEN place ELSE at[t]
         /\ running' \notin ReadyOnes'
         /\ \A t \in People : t = running' \/ t \in ReadyOnes' <=>
                                t \in ToSet(q) \/ (t = running /\ Stays)
<1>1. /\ PutBack(q) \in Seq(People) /\ IsInjective(PutBack(q))
      /\ ToSet(PutBack(q)) = ToSet(q) \cup (IF Stays THEN {running} ELSE {})
      /\ q # <<>> => PutBack(q) # <<>>
  BY PutBackFacts
<1>2. /\ at' \in [AllThreads -> Places]
      /\ \A t \in AllThreads : at'[t] = IF t = running THEN place ELSE at[t]
  BY DEF Dispatch, Shapes
<1>3. CASE q = <<>>
  <2>1. running' = Idle /\ ready' = PutBack(q)
    BY <1>3 DEF Dispatch
  <2>2. ReadyOnes' = ToSet(PutBack(q)) /\ ReadyOnes' \subseteq People
    BY <1>1, <2>1, QueueMembers DEF ReadyOnes
  <2> QED
    BY <1>1, <1>2, <2>1, <2>2, PeopleFacts
<1>4. CASE q # <<>>
  <2>1. running' = Head(PutBack(q)) /\ ready' = Tail(PutBack(q))
    BY <1>4 DEF Dispatch
  <2> DEFINE p == PutBack(q)
  <2>2. /\ Head(p) \in People /\ Tail(p) \in Seq(People) /\ IsInjective(Tail(p))
        /\ ToSet(p) = ToSet(Tail(p)) \cup {Head(p)} /\ Head(p) \notin ToSet(Tail(p))
    <3> HIDE DEF p
    <3>1. p \in Seq(People) /\ p # <<>> /\ IsInjective(p)
      BY <1>1, <1>4 DEF p
    <3> QED
      BY <3>1, TakenFromQueue
  <2>3. ReadyOnes' = ToSet(Tail(p))
    BY <2>1 DEF ReadyOnes
  <2> HIDE DEF p
  <2>4. running' = Head(p) /\ ready' = Tail(p)
    BY <2>1 DEF p
  <2>5. ToSet(p) = ToSet(q) \cup (IF Stays THEN {running} ELSE {})
    BY <1>1 DEF p
  <2> QED
    BY <1>2, <2>2, <2>3, <2>4, <2>5, PeopleFacts
<1> QED
  BY <1>3, <1>4

(* What every switch keeps, when the caller has set the flags and put those *)
(* it wakes into q: the threads ready or waiting are the same but for the   *)
(* one that runs.                                                           *)
LEMMA SwitchKeeps ==
  ASSUME IInv, NEW q \in Seq(People), IsInjective(q), running \notin ToSet(q),
         NEW place \in Places \ {"none", "created", "main", "returned"}, Dispatch(q, place),
         running = Idle => place = "timer", running = Main => place = "yield",
         \A t \in AllThreads \ {running} : finished'[t] = finished[t],
         finished[running] => finished'[running],
         blocked'[running] => ~finished'[running], ~blocked'[Idle],
         \A t \in ToSet(q) : ~blocked'[t],
         \A t \in AllThreads \ {running} :
           t \in ToSet(q) \/ blocked'[t] <=> t \in ReadyOnes \/ blocked[t]
  PROVE  /\ running' \in AllThreads /\ ready' \in Seq(People) /\ IsInjective(ready')
         /\ at' \in [AllThreads -> Places]
         /\ \A t \in AllThreads : at'[t] = IF t = running THEN place ELSE at[t]
         /\ PlacesFit' /\ ReadyApart' /\ ActiveSomewhere'
<1>1. Shapes /\ PlacesFit /\ ReadyApart /\ ActiveSomewhere /\ running \in AllThreads
  BY DEF IInv, Shapes
<1>2. /\ running' \in AllThreads /\ ready' \in Seq(People) /\ IsInjective(ready')
      /\ at' \in [AllThreads -> Places]
      /\ \A t \in AllThreads : at'[t] = IF t = running THEN place ELSE at[t]
      /\ running' \notin ReadyOnes'
      /\ \A t \in People : t = running' \/ t \in ReadyOnes' <=>
                             t \in ToSet(q) \/ (t = running /\ Stays)
  BY <1>1, DispatchFacts
<1>3. ToSet(q) \subseteq People /\ ReadyOnes' \subseteq People /\ ReadyOnes \subseteq People
  BY <1>1, <1>2, StateFacts, QueueMembers DEF ReadyOnes
<1>4. PlacesFit'
  BY <1>1, <1>2, PeopleFacts DEF PlacesFit, People
<1>5. ReadyApart'
  <2>1. \A t \in People : t = running' \/ t \in ReadyOnes' => ~blocked'[t]
    BY <1>2 DEF Stays
  <2> QED
    BY <1>2, <1>3, <2>1, PeopleFacts DEF ReadyApart
<1>6. ActiveSomewhere'
  <2> SUFFICES ASSUME NEW t \in People
               PROVE  Active(t)' <=> t = running' \/ t \in ReadyOnes' \/ blocked'[t]
    BY DEF ActiveSomewhere
  <2>1. /\ Active(t) <=> t = running \/ t \in ReadyOnes \/ blocked[t]
        /\ Active(t) <=> at[t] \notin {"none", "created"} /\ (finished[t] => t = running)
        /\ Active(t)' <=> at'[t] \notin {"none", "created"} /\ (finished'[t] => t = running')
        /\ t \in AllThreads
    BY <1>1, PeopleFacts DEF ActiveSomewhere, Active
  <2>2. CASE t = running
    <3>1. at'[t] \notin {"none", "created"} /\ t # Idle /\ t \notin ToSet(q)
      BY <1>2, <2>1, <2>2, PeopleFacts
    <3>2. t = running' \/ t \in ReadyOnes' <=> ~(finished'[t] \/ blocked'[t])
      BY <1>2, <2>2, <3>1 DEF Stays
    <3> QED
      BY <2>1, <2>2, <3>1, <3>2
  <2>3. CASE t # running
    BY <1>2, <2>1, <2>3
  <2> QED
    BY <2>2, <2>3
<1> QED
  BY <1>2, <1>4, <1>5, <1>6

(* Who runs waits for nothing and is not in the ready queue. *)
LEMMA RunningFacts ==
  ASSUME IInv
  PROVE  /\ Shapes /\ running \in AllThreads /\ running \notin ReadyOnes
         /\ running \notin Resting /\ \A s \in Sems : running \notin WaitersOf(s)
         /\ ready \in Seq(People) /\ IsInjective(ready) /\ ~blocked[running]
<1>1. Resting \subseteq People /\ \A s \in Sems : WaitersOf(s) \subseteq People
  BY StateFacts DEF IInv, People
<1>2. /\ Shapes /\ running \in AllThreads /\ running \notin ReadyOnes /\ ~blocked[running]
      /\ ready \in Seq(People) /\ IsInjective(ready)
      /\ \A t \in People : t \in Resting \/ (\E s \in Sems : t \in WaitersOf(s)) => blocked[t]
  BY DEF IInv, Shapes, ReadyApart, StandOnce, BlockedWait
<1> QED
  BY <1>1, <1>2

-----------------------------------------------------------------------------
(* The steps that switch. *)

(* A switch of a thread that does not begin to wait and wakes nobody.      *)
LEMMA GivesWay ==
  ASSUME IInv, NEW place \in {"yield", "sleep"}, Dispatch(ready, place),
         running \in Threads \/ (running = Main /\ place = "yield"),
         finished' \in [AllThreads -> BOOLEAN],
         \A t \in AllThreads \ {running} : finished'[t] = finished[t],
         finished[running] => finished'[running],
         UNCHANGED <<blocked, timeSliceCounter, pending, semVars, sleepVars, userFinished>>
  PROVE  IInv'
<1>1. /\ Shapes /\ running \in AllThreads /\ running \notin ReadyOnes
      /\ running \notin Resting /\ \A s \in Sems : running \notin WaitersOf(s)
      /\ ready \in Seq(People) /\ IsInjective(ready) /\ ~blocked[running]
  BY RunningFacts
<1>2. place \in Places \ {"none", "created", "main", "returned"} /\ running # Idle
  BY PeopleFacts DEF Places, States, People
<1>3. /\ running' \in AllThreads /\ ready' \in Seq(People) /\ IsInjective(ready')
      /\ at' \in [AllThreads -> Places]
      /\ \A t \in AllThreads : at'[t] = IF t = running THEN place ELSE at[t]
      /\ PlacesFit' /\ ReadyApart' /\ ActiveSomewhere'
  BY <1>1, <1>2, SwitchKeeps, PeopleFacts DEF IInv, BlockedWait, ReadyApart, ReadyOnes
<1>4. /\ \A s \in Sems : WaitersOf(s)' = WaitersOf(s)
      /\ Resting' = Resting
  BY DEF WaitersOf, Resting, semVars, sleepVars
<1>5. Shapes'
  BY <1>1, <1>3 DEF Shapes, semVars, sleepVars
<1>6. StandOnce'
  BY <1>3 DEF IInv, StandOnce, semVars, sleepVars
<1>7. WaitInPlace'
  BY <1>1, <1>3, <1>4, StateFacts, PeopleFacts DEF IInv, WaitInPlace, AllThreads
<1>8. BlockedWait'
  BY <1>4 DEF IInv, BlockedWait
<1>9. OpenedOnly'
  BY <1>2, <1>3, PeopleFacts DEF IInv, OpenedOnly, semVars, States
<1> QED
  BY <1>3, <1>5, <1>6, <1>7, <1>8, <1>9 DEF IInv

LEMMA YieldKeeps ==
  IInv /\ Yield /\ UNCHANGED <<semVars, sleepVars, userFinished>> => IInv'
<1> SUFFICES ASSUME IInv, Yield, UNCHANGED <<semVars, sleepVars, userFinished>> PROVE IInv'
  OBVIOUS
<1>1. running \in Threads
  BY UserIsThread DEF Yield, IInv
<1> QED
  BY <1>1, GivesWay DEF Yield, IInv, Shapes

LEMMA ExitKeeps ==
  IInv /\ Exit /\ UNCHANGED <<semVars, sleepVars, userFinished>> => IInv'
<1> SUFFICES ASSUME IInv, Exit, UNCHANGED <<semVars, sleepVars, userFinished>> PROVE IInv'
  OBVIOUS
<1>1. running \in Threads
  BY UserIsThread DEF Exit, InUser, IInv
<1>2. /\ finished' \in [AllThreads -> BOOLEAN]
      /\ \A t \in AllThreads : finished'[t] = IF t = running THEN TRUE ELSE finished[t]
  BY <1>1 DEF Exit, IInv, Shapes
<1> QED
  BY <1>1, <1>2, GivesWay DEF Exit, AllThreads

LEMMA MainYieldsKeeps ==
  IInv /\ MainYields => IInv'
<1> SUFFICES ASSUME IInv, MainYields PROVE IInv'
  OBVIOUS
<1>1. running = Main
  BY PeopleFacts DEF MainYields, IInv, Shapes, PlacesFit, People
<1> QED
  BY <1>1, GivesWay DEF MainYields, IInv, Shapes

LEMMA SleepYieldsKeeps ==
  IInv /\ SleepYields /\ UNCHANGED <<semVars, userFinished>> => IInv'
<1> SUFFICES ASSUME IInv, SleepYields, UNCHANGED <<semVars, userFinished>> PROVE IInv'
  OBVIOUS
<1>1. running \in Threads
  BY UserIsThread DEF SleepYields, InUser, IInv
<1> QED
  BY <1>1, GivesWay DEF SleepYields, IInv, Shapes, sleepVars

LEMMA WaitBlocksKeeps ==
  ASSUME IInv, NEW s \in Sems, WaitBlocks(s), UNCHANGED <<sleepVars, userFinished>>
  PROVE  IInv'
<1>1. /\ Shapes /\ running \in AllThreads /\ running \notin ReadyOnes
      /\ running \notin Resting /\ \A r \in Sems : running \notin WaitersOf(r)
      /\ ready \in Seq(People) /\ IsInjective(ready) /\ ~blocked[running]
  BY RunningFacts
<1>2. running \in Threads /\ ~finished[running] /\ s \in opened
  BY <1>1, UserIsThread DEF WaitBlocks, InUser, IInv
<1>3. s \in Places \ {"none", "created", "main", "returned"} /\ running # Idle /\ running # Main
  BY <1>2, PeopleFacts DEF Places, States, People
<1>4. /\ blocked' \in [AllThreads -> BOOLEAN]
      /\ \A t \in AllThreads : blocked'[t] = IF t = running THEN TRUE ELSE blocked[t]
      /\ blockedQueue' = [blockedQueue EXCEPT ![s] = Append(blockedQueue[s], running)]
      /\ Dispatch(ready, s)
      /\ UNCHANGED <<finished, timeSliceCounter, pending, opened, interrupted, owed>>
      /\ val' \in [Sems -> Int]
  BY <1>1 DEF WaitBlocks, Shapes
<1>5. /\ running' \in AllThreads /\ ready' \in Seq(People) /\ IsInjective(ready')
      /\ at' \in [AllThreads -> Places]
      /\ \A t \in AllThreads : at'[t] = IF t = running THEN s ELSE at[t]
      /\ PlacesFit' /\ ReadyApart' /\ ActiveSomewhere'
  <2>1. \A t \in ToSet(ready) : t \in AllThreads /\ t # running /\ ~blocked[t]
    BY <1>1, StateFacts, PeopleFacts DEF IInv, ReadyApart, ReadyOnes
  <2>2. ~blocked'[Idle]
    BY <1>3, <1>4, PeopleFacts DEF IInv, BlockedWait
  <2> QED
    BY <1>1, <1>2, <1>3, <1>4, <2>1, <2>2, SwitchKeeps DEF ReadyOnes
<1>6. /\ blockedQueue' \in [Sems -> Seq(Threads)]
      /\ \A r \in Sems : /\ IsInjective(blockedQueue'[r])
                         /\ WaitersOf(r)' = WaitersOf(r) \cup (IF r = s THEN {running} ELSE {})
                         /\ r # s => blockedQueue'[r] = blockedQueue[r]
  <2>1. \A r \in Sems : blockedQueue[r] \in Seq(Threads) /\ IsInjective(blockedQueue[r])
    BY <1>1, StateFacts DEF IInv, StandOnce
  <2>2. /\ Append(blockedQueue[s], running) \in Seq(Threads)
        /\ ToSet(Append(blockedQueue[s], running)) = WaitersOf(s) \cup {running}
        /\ IsInjective(Append(blockedQueue[s], running))
    BY <1>1, <1>2, <2>1, PutInQueue DEF WaitersOf
  <2>3. blockedQueue \in [Sems -> Seq(Threads)]
    BY <1>1 DEF Shapes
  <2> DEFINE longer == Append(blockedQueue[s], running)
  <2>4. \A r \in Sems : blockedQueue'[r] = IF r = s THEN longer ELSE blockedQueue[r]
    BY <1>4, <2>3
  <2> HIDE DEF longer
  <2>5. blockedQueue' \in [Sems -> Seq(Threads)]
    BY <1>4, <2>1, <2>2, <2>3 DEF longer
  <2>6. longer \in Seq(Threads) /\ ToSet(longer) = WaitersOf(s) \cup {running}
        /\ IsInjective(longer)
    BY <2>2 DEF longer
  <2> QED
    BY <2>1, <2>4, <2>5, <2>6 DEF WaitersOf
<1>7. Resting' = Resting
  BY DEF Resting, sleepVars
<1>8. Shapes'
  BY <1>1, <1>4, <1>5, <1>6 DEF Shapes, sleepVars
<1>9. StandOnce'
  BY <1>5, <1>6 DEF IInv, StandOnce, sleepVars
<1>10. WaitInPlace'
  <2>1. /\ \A r \in Sems : \A t \in WaitersOf(r) : t \in AllThreads /\ t # running /\ at[t] = r
        /\ \A t \in Resting : t \in AllThreads /\ t # running /\ at[t] = "sleep"
    BY <1>1, StateFacts DEF IInv, WaitInPlace, AllThreads
  <2>2. \A r \in Sems : \A t \in WaitersOf(r)' : at'[t] = r
    BY <1>1, <1>5, <1>6, <2>1
  <2>3. \A t \in Resting' : at'[t] = "sleep"
    BY <1>5, <1>7, <2>1
  <2> QED
    BY <2>2, <2>3 DEF WaitInPlace
<1>11. BlockedWait'
  <2>1. /\ \A t \in People : blocked[t] <=> t \in Resting \/ \E r \in Sems : t \in WaitersOf(r)
        /\ ~blocked[Idle] /\ People \subseteq AllThreads /\ Idle \in AllThreads
    BY PeopleFacts DEF IInv, BlockedWait
  <2>2. ASSUME NEW t \in People
        PROVE  blocked'[t] <=> t \in Resting' \/ \E r \in Sems : t \in WaitersOf(r)'
    <3>1. blocked'[t] <=> t = running \/ blocked[t]
      BY <1>4, <2>1
    <3>2. t \in Resting' \/ (\E r \in Sems : t \in WaitersOf(r)') <=>
            t = running \/ t \in Resting \/ \E r \in Sems : t \in WaitersOf(r)
      BY <1>6, <1>7
    <3>3. blocked[t] <=> t \in Resting \/ \E r \in Sems : t \in WaitersOf(r)
      BY <2>1
    <3> QED
      BY <3>1, <3>2, <3>3
  <2>3. ~blocked'[Idle]
    BY <1>3, <1>4, <2>1
  <2> QED
    BY <2>2, <2>3 DEF BlockedWait
<1>12. OpenedOnly'
  BY <1>2, <1>4, <1>5, <1>6 DEF IInv, OpenedOnly
<1> QED
  BY <1>5, <1>8, <1>9, <1>10, <1>11, <1>12 DEF IInv

LEMMA SleepKeeps ==
  ASSUME IInv, NEW n \in Times, Sleep(n), UNCHANGED <<semVars, userFinished>>
  PROVE  IInv'
<1>1. /\ Shapes /\ running \in AllThreads /\ running \notin ReadyOnes
      /\ running \notin Resting /\ \A r \in Sems : running \notin WaitersOf(r)
      /\ ready \in Seq(People) /\ IsInjective(ready) /\ ~blocked[running]
  BY RunningFacts
<1>2. running \in Threads /\ ~finished[running]
  BY <1>1, UserIsThread DEF Sleep, InUser, IInv
<1>3. /\ "sleep" \in Places \ {"none", "created", "main", "returned"}
      /\ running # Idle /\ running # Main
  BY <1>2, PeopleFacts DEF Places, States, People
<1>4. /\ blocked' \in [AllThreads -> BOOLEAN]
      /\ \A t \in AllThreads : blocked'[t] = IF t = running THEN TRUE ELSE blocked[t]
      /\ sleepingQueue' = Insert(sleepingQueue, running, n)
      /\ Dispatch(ready, "sleep")
      /\ UNCHANGED <<finished, timeSliceCounter, pending, counted>>
  BY <1>1 DEF Sleep, Shapes
<1>5. /\ running' \in AllThreads /\ ready' \in Seq(People) /\ IsInjective(ready')
      /\ at' \in [AllThreads -> Places]
      /\ \A t \in AllThreads : at'[t] = IF t = running THEN "sleep" ELSE at[t]
      /\ PlacesFit' /\ ReadyApart' /\ ActiveSomewhere'
  <2>1. \A t \in ToSet(ready) : t \in AllThreads /\ t # running /\ ~blocked[t]
    BY <1>1, StateFacts, PeopleFacts DEF IInv, ReadyApart, ReadyOnes
  <2>2. ~blocked'[Idle]
    BY <1>3, <1>4, PeopleFacts DEF IInv, BlockedWait
  <2> QED
    BY <1>1, <1>2, <1>3, <1>4, <2>1, <2>2, SwitchKeeps DEF ReadyOnes
<1>6. /\ sleepingQueue' \in Seq(Pairs) /\ IsInjective(Names(sleepingQueue'))
      /\ Resting' = Resting \cup {running}
  <2>1. sleepingQueue \in Seq(Pairs) /\ IsInjective(Names(sleepingQueue)) /\ n \in 0 .. Word - 1
    BY <1>1, TimesAssumption DEF IInv, Shapes, StandOnce
  <2> DEFINE r == Insert(sleepingQueue, running, n)
  <2>2. /\ r \in Seq(Pairs) /\ ToSet(Names(r)) = Resting \cup {running}
        /\ IsInjective(Names(r))
    BY <1>1, <1>2, <2>1, InsertFacts, InsertNames DEF Resting
  <2>3. Resting' = ToSet(Names(r))
    BY <1>4 DEF Resting
  <2> HIDE DEF r
  <2>4. sleepingQueue' = r
    BY <1>4 DEF r
  <2> QED
    BY <2>2, <2>3, <2>4
<1>7. \A r \in Sems : WaitersOf(r)' = WaitersOf(r)
  BY DEF WaitersOf, semVars
<1>8. Shapes'
  BY <1>1, <1>4, <1>5, <1>6 DEF Shapes, semVars
<1>9. StandOnce'
  BY <1>5, <1>6 DEF IInv, StandOnce, semVars
<1>10. WaitInPlace'
  BY <1>1, <1>2, <1>5, <1>6, <1>7, StateFacts, PeopleFacts DEF IInv, WaitInPlace, AllThreads
<1>11. BlockedWait'
  <2>1. /\ \A t \in People : blocked[t] <=> t \in Resting \/ \E r \in Sems : t \in WaitersOf(r)
        /\ ~blocked[Idle] /\ People \subseteq AllThreads /\ Idle \in AllThreads
    BY PeopleFacts DEF IInv, BlockedWait
  <2>2. ASSUME NEW t \in People
        PROVE  blocked'[t] <=> t \in Resting' \/ \E r \in Sems : t \in WaitersOf(r)'
    <3>1. blocked'[t] <=> t = running \/ blocked[t]
      BY <1>4, <2>1
    <3>2. t \in Resting' \/ (\E r \in Sems : t \in WaitersOf(r)') <=>
            t = running \/ t \in Resting \/ \E r \in Sems : t \in WaitersOf(r)
      BY <1>6, <1>7
    <3>3. blocked[t] <=> t \in Resting \/ \E r \in Sems : t \in WaitersOf(r)
      BY <2>1
    <3> QED
      BY <3>1, <3>2, <3>3
  <2>3. ~blocked'[Idle]
    BY <1>3, <1>4, <2>1
  <2> QED
    BY <2>2, <2>3 DEF BlockedWait
<1>12. OpenedOnly'
  BY <1>3, <1>5, PeopleFacts DEF IInv, OpenedOnly, semVars, States
<1> QED
  BY <1>5, <1>8, <1>9, <1>10, <1>11, <1>12 DEF IInv

-----------------------------------------------------------------------------
(* The timer interrupt. *)

WokenOnes == ToSet(Woken(Counted(sleepingQueue)))

(* Those whose time is over go from the sleepers to the ready.             *)
LEMMA TimerFacts ==
  ASSUME IInv, TimerInterrupt
  PROVE  LET q == WithWoken(Counted(sleepingQueue))
         IN  /\ q \in Seq(People) /\ IsInjective(q)
             /\ ToSet(q) = ReadyOnes \cup WokenOnes
             /\ sleepingQueue' \in Seq(Pairs) /\ IsInjective(Names(sleepingQueue'))
             /\ Resting = WokenOnes \cup Resting' /\ WokenOnes \cap Resting' = {}
             /\ \A t \in WokenOnes : t \in Threads /\ t # running /\ t \notin ReadyOnes
             /\ \A s \in Sems : WokenOnes \cap WaitersOf(s) = {}
             /\ blocked' \in [AllThreads -> BOOLEAN]
             /\ \A t \in AllThreads : blocked'[t] <=> blocked[t] /\ t \notin WokenOnes
<1> DEFINE c == Counted(sleepingQueue)
           w == Woken(c)
<1>1. /\ Shapes /\ running \in AllThreads /\ running \notin ReadyOnes
      /\ running \notin Resting /\ \A r \in Sems : running \notin WaitersOf(r)
      /\ ready \in Seq(People) /\ IsInjective(ready) /\ ~blocked[running]
  BY RunningFacts
<1>2. /\ c \in Seq(Pairs) /\ Names(c) = Names(sleepingQueue) /\ IsInjective(Names(c))
      /\ ToSet(Names(c)) = Resting
  BY <1>1, CountedFacts DEF Shapes, IInv, StandOnce, Resting
<1>3. sleepingQueue' = Asleep(c)
  BY DEF TimerInterrupt, WakeSleepers, Asleep
<1>4. blocked' = [t \in AllThreads |-> blocked[t] /\ ~\E i \in 1 .. Due(c) : c[i].tcb = t]
  BY DEF TimerInterrupt, WakeSleepers
<1>5. WithWoken(c) = ready \o w /\ WokenOnes = ToSet(w)
  BY DEF WithWoken, Woken, WokenOnes
<1> HIDE DEF c
<1>6. /\ w \in Seq(Threads) /\ Asleep(c) \in Seq(Pairs)
      /\ \A t : t \in ToSet(w) <=> \E i \in 1 .. Due(c) : c[i].tcb = t
      /\ Resting = ToSet(w) \cup ToSet(Names(Asleep(c)))
      /\ IsInjective(w) /\ IsInjective(Names(Asleep(c)))
      /\ ToSet(w) \cap ToSet(Names(Asleep(c))) = {}
  BY <1>2, WokenFacts
<1> HIDE DEF w
<1>7. Resting' = ToSet(Names(Asleep(c)))
  BY <1>3 DEF Resting
<1>8. /\ blocked' \in [AllThreads -> BOOLEAN]
      /\ \A t \in AllThreads : blocked'[t] <=> blocked[t] /\ t \notin ToSet(w)
  BY <1>1, <1>4, <1>6 DEF Shapes
<1>9. \A t \in ToSet(w) : t \in Resting /\ t \in Threads /\ blocked[t] /\ at[t] = "sleep"
  BY <1>1, <1>6, StateFacts DEF IInv, BlockedWait, WaitInPlace, People
<1>10. \A t \in ToSet(w) : t # running /\ t \notin ReadyOnes
  BY <1>1, <1>9 DEF IInv, ReadyApart
<1>11. \A s \in Sems : ToSet(w) \cap WaitersOf(s) = {}
  BY <1>9, PeopleFacts DEF IInv, WaitInPlace, States
<1>12. w \in Seq(People)
  BY <1>6, QueueOfMore DEF People
<1>13. /\ ready \o w \in Seq(People) /\ IsInjective(ready \o w)
       /\ ToSet(ready \o w) = ReadyOnes \cup ToSet(w)
  <2>1. ToSet(ready) \cap ToSet(w) = {}
    BY <1>10 DEF ReadyOnes
  <2> QED
    BY <1>1, <1>6, <1>12, <2>1, JoinedQueue DEF ReadyOnes
<1> QED
  BY <1>3, <1>5, <1>6, <1>7, <1>8, <1>9, <1>10, <1>11, <1>13 DEF c

(* What both outcomes of the interrupt keep. *)
LEMMA TimerWakes ==
  ASSUME IInv, TimerInterrupt, UNCHANGED semVars,
         \A t \in AllThreads : t # running => at'[t] = at[t]
  PROVE  /\ WaitInPlace' /\ BlockedWait'
         /\ IsInjective(Names(sleepingQueue')) /\ \A s \in Sems : IsInjective(blockedQueue'[s])
<1>1. /\ running \notin Resting /\ \A r \in Sems : running \notin WaitersOf(r)
      /\ Shapes
  BY RunningFacts
<1>2. /\ IsInjective(Names(sleepingQueue'))
      /\ Resting = WokenOnes \cup Resting' /\ WokenOnes \cap Resting' = {}
      /\ \A s \in Sems : WokenOnes \cap WaitersOf(s) = {}
      /\ \A t \in WokenOnes : t \in Threads
      /\ \A t \in AllThreads : blocked'[t] <=> blocked[t] /\ t \notin WokenOnes
  BY TimerFacts
<1>3. \A s \in Sems : WaitersOf(s)' = WaitersOf(s) /\ IsInjective(blockedQueue'[s])
  BY DEF WaitersOf, semVars, IInv, StandOnce
<1>4. /\ \A r \in Sems : \A t \in WaitersOf(r) : t \in AllThreads /\ t # running /\ at[t] = r
      /\ \A t \in Resting : t \in AllThreads /\ t # running /\ at[t] = "sleep"
  BY <1>1, StateFacts DEF IInv, WaitInPlace, AllThreads
<1>5. WaitInPlace'
  <2>1. \A r \in Sems : \A t \in WaitersOf(r)' : at'[t] = r
    BY <1>3, <1>4
  <2>2. \A t \in Resting' : at'[t] = "sleep"
    BY <1>2, <1>4
  <2> QED
    BY <2>1, <2>2 DEF WaitInPlace
<1>6. BlockedWait'
  <2>1. /\ \A t \in People : blocked[t] <=> t \in Resting \/ \E r \in Sems : t \in WaitersOf(r)
        /\ ~blocked[Idle] /\ People \subseteq AllThreads /\ Idle \in AllThreads
    BY PeopleFacts DEF IInv, BlockedWait
  <2>2. ASSUME NEW t \in People
        PROVE  blocked'[t] <=> t \in Resting' \/ \E r \in Sems : t \in WaitersOf(r)'
    <3>1. blocked'[t] <=> blocked[t] /\ t \notin WokenOnes
      BY <1>2, <2>1
    <3>2. t \in Resting' <=> t \in Resting /\ t \notin WokenOnes
      BY <1>2
    <3>3. (\E r \in Sems : t \in WaitersOf(r)') <=> \E r \in Sems : t \in WaitersOf(r)
      BY <1>3
    <3>4. (\E r \in Sems : t \in WaitersOf(r)) => t \notin WokenOnes
      BY <1>2
    <3>5. blocked[t] <=> t \in Resting \/ \E r \in Sems : t \in WaitersOf(r)
      BY <2>1
    <3> QED
      BY <3>1, <3>2, <3>3, <3>4, <3>5
  <2>3. ~blocked'[Idle]
    BY <1>2, <2>1
  <2> QED
    BY <2>2, <2>3 DEF BlockedWait
<1> QED
  BY <1>2, <1>3, <1>5, <1>6

LEMMA TimerPreemptKeeps ==
  ASSUME IInv, TimerPreempt, UNCHANGED <<semVars, userFinished>>
  PROVE  IInv'
<1> DEFINE q == WithWoken(Counted(sleepingQueue))
<1>1. /\ Shapes /\ running \in AllThreads /\ running \notin ReadyOnes
      /\ running \notin Resting /\ ~blocked[running]
      /\ TimerInterrupt /\ Dispatch(q, "timer") /\ at[running] = "user"
  BY RunningFacts DEF TimerPreempt, TimerInterrupt
<1>2. /\ q \in Seq(People) /\ IsInjective(q) /\ ToSet(q) = ReadyOnes \cup WokenOnes
      /\ sleepingQueue' \in Seq(Pairs)
      /\ Resting = WokenOnes \cup Resting'
      /\ \A t \in WokenOnes : t \in Threads /\ t # running /\ t \notin ReadyOnes
      /\ blocked' \in [AllThreads -> BOOLEAN]
      /\ \A t \in AllThreads : blocked'[t] <=> blocked[t] /\ t \notin WokenOnes
  BY <1>1, TimerFacts
<1> HIDE DEF q
<1>3. running # Main /\ "timer" \in Places \ {"none", "created", "main", "returned"}
  BY <1>1 DEF IInv, PlacesFit, Places, States
<1>4. UNCHANGED finished /\ running \notin ToSet(q) /\ running \notin WokenOnes
  BY <1>1, <1>2 DEF TimerInterrupt
<1>5. /\ running' \in AllThreads /\ ready' \in Seq(People) /\ IsInjective(ready')
      /\ at' \in [AllThreads -> Places]
      /\ \A t \in AllThreads : at'[t] = IF t = running THEN "timer" ELSE at[t]
      /\ PlacesFit' /\ ReadyApart' /\ ActiveSomewhere'
  <2>1. \A t \in ToSet(q) : ~blocked'[t]
    <3>1. \A t \in ReadyOnes \cup WokenOnes : t \in AllThreads
      BY <1>1, <1>2, StateFacts DEF AllThreads, People
    <3>2. \A t \in ReadyOnes : ~blocked[t]
      BY DEF IInv, ReadyApart
    <3> QED
      BY <1>2, <3>1, <3>2
  <2>2. ~blocked'[Idle]
    BY <1>2, PeopleFacts DEF IInv, BlockedWait
  <2>3. \A t \in WokenOnes : t \in People /\ blocked[t]
    BY <1>2 DEF IInv, BlockedWait, People
  <2>4. \A t \in AllThreads \ {running} :
          t \in ToSet(q) \/ blocked'[t] <=> t \in ReadyOnes \/ blocked[t]
    BY <1>2, <2>3
  <2>5. blocked'[running] => ~finished'[running]
    BY <1>1, <1>2
  <2>6. Dispatch(q, "timer")
    BY <1>1
  <2> QED
    BY <1>2, <1>3, <1>4, <2>1, <2>2, <2>4, <2>5, <2>6, SwitchKeeps
<1>6. WaitInPlace' /\ BlockedWait' /\ StandOnce'
  BY <1>1, <1>5, TimerWakes DEF StandOnce
<1>7. Shapes'
  <2>1. timeSliceCounter' \in 0 .. TimeSlice - 1 /\ pending' \in BOOLEAN /\ counted' \in Nat
    BY <1>1, ThreadsAssumption DEF TimerPreempt, TimerInterrupt, Shapes
  <2> QED
    BY <1>1, <1>2, <1>4, <1>5, <2>1 DEF Shapes, semVars
<1>8. OpenedOnly'
  BY <1>5, PeopleFacts DEF IInv, OpenedOnly, semVars, States
<1> QED
  BY <1>5, <1>6, <1>7, <1>8 DEF IInv

LEMMA TimerTickKeeps ==
  ASSUME IInv, TimerTick, UNCHANGED <<semVars, userFinished>>
  PROVE  IInv'
<1> DEFINE q == WithWoken(Counted(sleepingQueue))
<1>1. /\ Shapes /\ running \in AllThreads /\ running \notin ReadyOnes
      /\ running \notin Resting /\ ~blocked[running]
      /\ TimerInterrupt /\ ready' = q /\ UNCHANGED <<running, at, finished>>
  BY RunningFacts DEF TimerTick, TimerInterrupt
<1>2. /\ q \in Seq(People) /\ IsInjective(q) /\ ToSet(q) = ReadyOnes \cup WokenOnes
      /\ sleepingQueue' \in Seq(Pairs)
      /\ Resting = WokenOnes \cup Resting'
      /\ \A t \in WokenOnes : t \in Threads /\ t # running /\ t \notin ReadyOnes
      /\ blocked' \in [AllThreads -> BOOLEAN]
      /\ \A t \in AllThreads : blocked'[t] <=> blocked[t] /\ t \notin WokenOnes
  BY <1>1, TimerFacts
<1>3. ReadyOnes' = ReadyOnes \cup WokenOnes
  BY <1>1, <1>2 DEF ReadyOnes
<1> HIDE DEF q
<1>4. PlacesFit'
  BY <1>1 DEF IInv, PlacesFit
<1>5. WaitInPlace' /\ BlockedWait' /\ StandOnce'
  BY <1>1, <1>2, TimerWakes DEF StandOnce
<1>6. ReadyApart'
  <2>1. \A t \in ReadyOnes \cup WokenOnes : t \in AllThreads
    BY <1>1, <1>2, StateFacts DEF AllThreads, People
  <2>2. \A t \in ReadyOnes : ~blocked[t]
    BY DEF IInv, ReadyApart
  <2>3. \A t \in ReadyOnes' : ~blocked'[t]
    BY <1>2, <1>3, <2>1, <2>2
  <2>4. running' = running /\ running \notin ReadyOnes' /\ ~blocked'[running]
    BY <1>1, <1>2, <1>3
  <2> QED
    BY <2>3, <2>4 DEF ReadyApart
<1>7. ActiveSomewhere'
  <2>1. \A t \in WokenOnes : t \in People /\ blocked[t]
    BY <1>2 DEF IInv, BlockedWait, People
  <2>2. \A t \in People : t \in ReadyOnes' \/ blocked'[t] <=> t \in ReadyOnes \/ blocked[t]
    BY <1>2, <1>3, <2>1, PeopleFacts
  <2> QED
    BY <1>1, <2>2 DEF IInv, ActiveSomewhere, Active
<1>8. Shapes'
  <2>1. timeSliceCounter' \in 0 .. TimeSlice - 1 /\ pending' \in BOOLEAN /\ counted' \in Nat
    <3>1. timeSliceCounter' = timeSliceCounter + 1 /\ ~(timeSliceCounter + 1 >= TimeSlice)
      BY DEF TimerTick, SliceOver
    <3>2. timeSliceCounter \in 0 .. TimeSlice - 1 /\ TimeSlice \in Nat
      BY <1>1, ThreadsAssumption DEF Shapes
    <3>3. timeSliceCounter' \in 0 .. TimeSlice - 1
      BY <3>1, <3>2
    <3>4. pending' \in BOOLEAN
      BY DEF TimerTick
    <3>5. counted' \in Nat
      BY <1>1 DEF TimerInterrupt, Shapes
    <3> QED
      BY <3>3, <3>4, <3>5
  <2> QED
    BY <1>1, <1>2, <2>1 DEF Shapes, semVars
<1>9. OpenedOnly'
  BY <1>1 DEF IInv, OpenedOnly, semVars
<1> QED
  BY <1>4, <1>5, <1>6, <1>7, <1>8, <1>9 DEF IInv

-----------------------------------------------------------------------------
(* The steps that do not switch. *)

(* Nobody moves. *)
LEMMA NobodyMoves ==
  ASSUME IInv, Shapes', UNCHANGED <<running, ready, blocked, at, blockedQueue, sleepingQueue>>,
         \A t \in AllThreads \ {running} : finished'[t] = finished[t],
         finished' = finished \/ at[running] = "user", opened \subseteq opened'
  PROVE  IInv'
<1>1. ReadyOnes' = ReadyOnes /\ Resting' = Resting /\ \A s \in Sems : WaitersOf(s)' = WaitersOf(s)
  BY DEF ReadyOnes, Resting, WaitersOf
<1>2. \A t \in AllThreads : finished'[t] = finished[t] \/ (t = running /\ at[t] = "user")
  OBVIOUS
<1>3. PlacesFit'
  BY <1>2 DEF IInv, PlacesFit, AllThreads
<1>4. StandOnce' /\ WaitInPlace' /\ BlockedWait' /\ ReadyApart'
  BY <1>1 DEF IInv, StandOnce, WaitInPlace, BlockedWait, ReadyApart
<1>5. ActiveSomewhere'
  BY <1>1, <1>2, PeopleFacts DEF IInv, ActiveSomewhere, Active
<1>6. OpenedOnly'
  BY DEF IInv, OpenedOnly
<1> QED
  BY <1>3, <1>4, <1>5, <1>6 DEF IInv

(* The running thread goes on from one place to the next. *)
LEMMA GoesOn ==
  ASSUME IInv, Shapes', UNCHANGED <<running, ready, blocked, finished, opened, blockedQueue,
                                    sleepingQueue>>,
         NEW next \in {"user", "main", "returned"}, at' = [at EXCEPT ![running] = next],
         next = "user" <=> running # Main
  PROVE  IInv'
<1>1. ReadyOnes' = ReadyOnes /\ Resting' = Resting /\ \A s \in Sems : WaitersOf(s)' = WaitersOf(s)
  BY DEF ReadyOnes, Resting, WaitersOf
<1>2. /\ running \notin Resting /\ \A s \in Sems : running \notin WaitersOf(s)
      /\ Shapes /\ running \in AllThreads /\ ~blocked[running]
  BY RunningFacts
<1>3. \A t \in AllThreads : at'[t] = IF t = running THEN next ELSE at[t]
  BY <1>2 DEF Shapes
<1>4. PlacesFit'
  BY <1>3, PeopleFacts DEF IInv, PlacesFit, People
<1>5. StandOnce' /\ BlockedWait' /\ ReadyApart'
  BY <1>1 DEF IInv, StandOnce, BlockedWait, ReadyApart
<1>6. WaitInPlace'
  <2>1. /\ \A r \in Sems : \A t \in WaitersOf(r) : t \in AllThreads /\ t # running /\ at[t] = r
        /\ \A t \in Resting : t \in AllThreads /\ t # running /\ at[t] = "sleep"
    BY <1>2, StateFacts DEF IInv, WaitInPlace, AllThreads
  <2> QED
    BY <1>1, <1>3, <2>1 DEF WaitInPlace
<1>7. ActiveSomewhere'
  <2>1. \A t \in People : t \in AllThreads
    BY PeopleFacts
  <2>2. running \in People => Active(running)
    BY DEF IInv, ActiveSomewhere
  <2>3. \A t \in People : Active(t)' <=> Active(t)
    BY <1>3, <2>1, <2>2 DEF Active
  <2> QED
    BY <1>1, <2>3 DEF IInv, ActiveSomewhere
<1>8. OpenedOnly'
  BY <1>3, PeopleFacts DEF IInv, OpenedOnly, States
<1> QED
  BY <1>4, <1>5, <1>6, <1>7, <1>8 DEF IInv

(* A thread that does not exist, or has not started, becomes ready.        *)
LEMMA BecomesReady ==
  ASSUME IInv, Shapes', NEW t \in Threads, t # running, at[t] \in {"none", "created"},
         \A u \in AllThreads \ {Idle} : at'[u] = IF u = t THEN "fresh" ELSE at[u],
         at'[Idle] \in {"fresh", at[Idle]}, ready' = Append(ready, t),
         UNCHANGED <<running, blocked, finished, opened, blockedQueue, sleepingQueue>>
  PROVE  IInv'
<1>1. Resting' = Resting /\ \A s \in Sems : WaitersOf(s)' = WaitersOf(s)
  BY DEF Resting, WaitersOf
<1>2. t \in People /\ t \in AllThreads /\ ~Active(t) /\ ~finished[t] /\ t # Idle
  BY PeopleFacts DEF People, Active, IInv, PlacesFit
<1>3. t \notin ReadyOnes /\ ~blocked[t]
  BY <1>2 DEF IInv, ActiveSomewhere
<1>4. ReadyOnes' = ReadyOnes \cup {t} /\ IsInjective(ready')
  BY <1>2, <1>3, PutInQueue DEF IInv, Shapes, StandOnce, ReadyOnes
<1>5. PlacesFit'
  BY <1>2, PeopleFacts DEF IInv, PlacesFit, AllThreads
<1>6. StandOnce' /\ BlockedWait' /\ ReadyApart'
  BY <1>1, <1>3, <1>4 DEF IInv, StandOnce, BlockedWait, ReadyApart
<1>7. WaitInPlace'
  <2>1. /\ \A r \in Sems : \A u \in WaitersOf(r) : u \in AllThreads \ {Idle} /\ u # t /\ at[u] = r
        /\ \A u \in Resting : u \in AllThreads \ {Idle} /\ u # t /\ at[u] = "sleep"
    <3>1. \A u \in Threads : u \in AllThreads \ {Idle}
      BY PeopleFacts DEF AllThreads, People
    <3>2. at[t] \notin Sems /\ at[t] # "sleep"
      BY PeopleFacts DEF States
    <3>3. /\ Resting \subseteq Threads /\ \A r \in Sems : WaitersOf(r) \subseteq Threads
          /\ \A r \in Sems : \A u \in WaitersOf(r) : at[u] = r
          /\ \A u \in Resting : at[u] = "sleep"
      BY StateFacts DEF IInv, WaitInPlace
    <3> QED
      BY <3>1, <3>2, <3>3
  <2> QED
    BY <1>1, <2>1 DEF WaitInPlace
<1>8. ActiveSomewhere'
  <2> SUFFICES ASSUME NEW u \in People
               PROVE  Active(u)' <=> u = running' \/ u \in ReadyOnes' \/ blocked'[u]
    BY DEF ActiveSomewhere
  <2>1. u \in AllThreads \ {Idle}
    BY PeopleFacts
  <2>2. Active(u) <=> u = running \/ u \in ReadyOnes \/ blocked[u]
    BY DEF IInv, ActiveSomewhere
  <2> QED
    BY <1>2, <1>4, <2>1, <2>2 DEF Active
<1>9. OpenedOnly'
  <2>1. \A u \in AllThreads : at'[u] \in Sems => at[u] \in Sems /\ at'[u] = at[u]
    BY PeopleFacts DEF States
  <2> QED
    BY <2>1 DEF IInv, OpenedOnly
<1> QED
  BY <1>5, <1>6, <1>7, <1>8, <1>9 DEF IInv

(* Some that wait for s, those of W, become ready.                         *)
LEMMA WaitersWake ==
  ASSUME IInv, Shapes', NEW s \in opened, NEW W,
         IsInjective(ready'), ReadyOnes' = ReadyOnes \cup W,
         \A r \in Sems : IsInjective(blockedQueue'[r]),
         \A r \in Sems \ {s} : blockedQueue'[r] = blockedQueue[r],
         WaitersOf(s) = W \cup WaitersOf(s)', W \cap WaitersOf(s)' = {},
         \A t \in AllThreads : blocked'[t] <=> blocked[t] /\ t \notin W,
         UNCHANGED <<running, at, finished, opened, sleepingQueue>>
  PROVE  IInv'
<1>1. s \in Sems /\ Resting' = Resting /\ \A r \in Sems \ {s} : WaitersOf(r)' = WaitersOf(r)
  BY DEF Resting, WaitersOf, IInv, Shapes
<1>2. /\ running \notin Resting /\ \A r \in Sems : running \notin WaitersOf(r)
      /\ Shapes /\ running \in AllThreads /\ running \notin ReadyOnes /\ ~blocked[running]
  BY RunningFacts
<1>3. \A r \in Sems : WaitersOf(r)' \subseteq WaitersOf(r)
  BY <1>1
<1>4. ASSUME NEW t \in W
      PROVE  /\ t \in Threads /\ t # running /\ at[t] = s /\ t \in WaitersOf(s)
             /\ t \notin Resting /\ \A r \in Sems : t \notin WaitersOf(r)'
  <2>1. t \in WaitersOf(s) /\ at[t] = s /\ t \in Threads /\ t # running
    BY <1>1, <1>2, StateFacts DEF IInv, WaitInPlace
  <2>2. t \notin Resting
    BY <1>1, <2>1, PeopleFacts DEF IInv, WaitInPlace, States
  <2>3. \A r \in Sems \ {s} : t \notin WaitersOf(r)'
    BY <1>1, <2>1 DEF IInv, WaitInPlace
  <2> QED
    BY <2>1, <2>2, <2>3
<1>5. PlacesFit'
  BY DEF IInv, PlacesFit
<1>6. StandOnce'
  BY DEF IInv, StandOnce
<1>7. WaitInPlace'
  BY <1>1, <1>3 DEF IInv, WaitInPlace
<1>8. BlockedWait'
  <2>1. /\ \A t \in People : blocked[t] <=> t \in Resting \/ \E r \in Sems : t \in WaitersOf(r)
        /\ ~blocked[Idle] /\ People \subseteq AllThreads /\ Idle \in AllThreads
    BY PeopleFacts DEF IInv, BlockedWait
  <2>2. ASSUME NEW t \in People
        PROVE  blocked'[t] <=> t \in Resting' \/ \E r \in Sems : t \in WaitersOf(r)'
    <3>1. blocked'[t] <=> blocked[t] /\ t \notin W
      BY <2>1
    <3>2. blocked[t] <=> t \in Resting \/ \E r \in Sems : t \in WaitersOf(r)
      BY <2>1
    <3>3. CASE t \in W
      BY <1>1, <1>4, <3>1, <3>3
    <3>4. CASE t \notin W
      <4>1. \A r \in Sems : t \in WaitersOf(r)' <=> t \in WaitersOf(r)
        BY <1>1, <3>4
      <4> QED
        BY <1>1, <3>1, <3>2, <3>4, <4>1
    <3> QED
      BY <3>3, <3>4
  <2>3. ~blocked'[Idle]
    BY <2>1
  <2> QED
    BY <2>2, <2>3 DEF BlockedWait
<1>9. \A t \in ReadyOnes \cup W : t \in AllThreads
  BY <1>2, <1>4, StateFacts DEF AllThreads, People
<1>10. ReadyApart'
  <2>1. \A t \in ReadyOnes' : ~blocked'[t]
    BY <1>9 DEF IInv, ReadyApart
  <2>2. running' = running /\ running \notin ReadyOnes' /\ ~blocked'[running]
    BY <1>2, <1>4
  <2> QED
    BY <2>1, <2>2 DEF ReadyApart
<1>11. ActiveSomewhere'
  <2>1. \A t \in W : t \in People /\ blocked[t]
    BY <1>1, <1>4 DEF IInv, BlockedWait, People
  <2>2. \A t \in People : t \in ReadyOnes' \/ blocked'[t] <=> t \in ReadyOnes \/ blocked[t]
    BY <2>1, PeopleFacts
  <2> QED
    BY <2>2 DEF IInv, ActiveSomewhere, Active
<1>12. OpenedOnly'
  <2>1. \A r \in Sems \ opened : blockedQueue'[r] = <<>>
    BY <1>1 DEF IInv, OpenedOnly
  <2> QED
    BY <2>1 DEF IInv, OpenedOnly
<1> QED
  BY <1>5, <1>6, <1>7, <1>8, <1>10, <1>11, <1>12 DEF IInv

LEMMA SignalKeeps ==
  ASSUME IInv, NEW s \in Sems, Signal(s), UNCHANGED <<sleepVars, userFinished>>
  PROVE  IInv'
<1>1. /\ Shapes /\ ready \in Seq(People) /\ IsInjective(ready) /\ s \in opened
      /\ blockedQueue \in [Sems -> Seq(Threads)]
      /\ \A r \in Sems : IsInjective(blockedQueue[r])
  BY DEF IInv, Shapes, StandOnce, Signal
<1>2. val' \in [Sems -> Int] /\ owed' \in [Sems -> Int]
  BY <1>1 DEF Signal, Shapes, Owes
<1>3. UNCHANGED <<running, finished, at, timeSliceCounter, pending, opened, interrupted,
                  sleepingQueue, counted, userFinished>>
  BY DEF Signal, sleepVars
<1>4. CASE ~Wakes(s)
  <2>1. UNCHANGED <<blockedQueue, blocked, ready>>
    BY <1>4 DEF Signal
  <2>2. Shapes'
    BY <1>1, <1>2, <1>3, <2>1 DEF Shapes
  <2>3. finished' = finished \/ at[running] = "user"
    BY <1>3
  <2> QED
    BY <1>3, <2>1, <2>2, <2>3, NobodyMoves
<1>5. CASE Wakes(s)
  <2> DEFINE q == blockedQueue[s]
             t == Head(q)
  <2>1. /\ blockedQueue' = [blockedQueue EXCEPT ![s] = Tail(q)]
        /\ blocked' = [blocked EXCEPT ![t] = FALSE]
        /\ ready' = Append(ready, t)
        /\ q # <<>>
    BY <1>5 DEF Signal, Wakes
  <2>2. /\ t \in Threads /\ t \in WaitersOf(s) /\ Tail(q) \in Seq(Threads)
        /\ WaitersOf(s) = ToSet(Tail(q)) \cup {t}
        /\ IsInjective(Tail(q)) /\ t \notin ToSet(Tail(q))
    <3>1. q \in Seq(Threads) /\ q # <<>> /\ IsInjective(q)
      BY <1>1, <2>1
    <3> HIDE DEF q
    <3> QED
      BY <3>1, TakenFromQueue DEF WaitersOf, q
  <2> HIDE DEF q, t
  <2>3. /\ blockedQueue' \in [Sems -> Seq(Threads)] /\ blockedQueue'[s] = Tail(q)
        /\ \A r \in Sems \ {s} : blockedQueue'[r] = blockedQueue[r]
    BY <1>1, <2>1, <2>2
  <2>4. /\ blocked' \in [AllThreads -> BOOLEAN]
        /\ \A u \in AllThreads : blocked'[u] <=> blocked[u] /\ u \notin {t}
    BY <1>1, <2>1 DEF Shapes
  <2>5. t \in People /\ t \notin ReadyOnes
    BY <2>2 DEF IInv, ReadyApart, BlockedWait, People
  <2>6. ready' \in Seq(People) /\ IsInjective(ready') /\ ReadyOnes' = ReadyOnes \cup {t}
    BY <1>1, <2>1, <2>5, PutInQueue DEF ReadyOnes
  <2>7. Shapes'
    BY <1>1, <1>2, <1>3, <2>3, <2>4, <2>6 DEF Shapes
  <2>8. WaitersOf(s)' = ToSet(Tail(q))
    BY <2>3 DEF WaitersOf
  <2>9. \A r \in Sems : IsInjective(blockedQueue'[r])
    BY <1>1, <2>2, <2>3
  <2>10. WaitersOf(s) = {t} \cup WaitersOf(s)' /\ {t} \cap WaitersOf(s)' = {}
    BY <2>2, <2>8
  <2>11. UNCHANGED <<running, at, finished, opened, sleepingQueue>>
    BY <1>3
  <2> QED
    BY <1>1, <2>3, <2>4, <2>6, <2>7, <2>9, <2>10, <2>11, WaitersWake
<1> QED
  BY <1>4, <1>5

LEMMA CloseKeeps ==
  ASSUME IInv, NEW s \in Sems, Close(s), UNCHANGED <<sleepVars, userFinished>>
  PROVE  IInv'
<1>1. /\ Shapes /\ ready \in Seq(People) /\ IsInjective(ready) /\ s \in opened
      /\ blockedQueue \in [Sems -> Seq(Threads)]
      /\ \A r \in Sems : IsInjective(blockedQueue[r])
  BY DEF IInv, Shapes, StandOnce, Close
<1> DEFINE q == blockedQueue[s]
<1>2. UNCHANGED <<running, finished, at, timeSliceCounter, pending, opened, val, owed,
                  sleepingQueue, counted, userFinished>>
  BY DEF Close, sleepVars
<1>3. q \in Seq(Threads) /\ IsInjective(q) /\ WaitersOf(s) = ToSet(q)
  BY <1>1 DEF WaitersOf
<1>4. \A t : t \in ToSet(q) <=> \E i \in DOMAIN q : q[i] = t
  BY <1>3, QueueMembers, LenProperties
<1>5. blocked' = [t \in AllThreads |-> blocked[t] /\ ~\E i \in DOMAIN q : q[i] = t]
  BY DEF Close
<1>6. /\ blocked' \in [AllThreads -> BOOLEAN]
      /\ \A t \in AllThreads : blocked'[t] <=> blocked[t] /\ t \notin ToSet(q)
  <2> HIDE DEF q
  <2> QED
    BY <1>1, <1>4, <1>5 DEF Shapes
<1>7. /\ blockedQueue' = [blockedQueue EXCEPT ![s] = <<>>]
      /\ interrupted' \in [Sems -> BOOLEAN]
      /\ ready' = ready \o q
  BY <1>1 DEF Close, Shapes
<1> HIDE DEF q
<1>8. /\ blockedQueue' \in [Sems -> Seq(Threads)] /\ blockedQueue'[s] = <<>>
      /\ \A r \in Sems \ {s} : blockedQueue'[r] = blockedQueue[r]
  BY <1>1, <1>7, EmptyQueue
<1>9. ToSet(ready) \cap ToSet(q) = {} /\ q \in Seq(People)
  <2>1. \A t \in WaitersOf(s) : t \in People /\ blocked[t]
    BY <1>1, StateFacts DEF IInv, BlockedWait, People
  <2>3. q \in Seq(People)
    BY <1>3, QueueOfMore DEF People
  <2>4. \A t \in ReadyOnes : ~blocked[t]
    BY DEF IInv, ReadyApart
  <2> QED
    BY <1>3, <2>1, <2>3, <2>4 DEF ReadyOnes
<1>10. ready' \in Seq(People) /\ IsInjective(ready') /\ ReadyOnes' = ReadyOnes \cup ToSet(q)
  BY <1>1, <1>3, <1>7, <1>9, JoinedQueue DEF ReadyOnes
<1>11. Shapes'
  BY <1>1, <1>2, <1>6, <1>7, <1>8, <1>10 DEF Shapes
<1>12. WaitersOf(s)' = {}
  BY <1>8, EmptyQueue DEF WaitersOf
<1>13. \A r \in Sems : IsInjective(blockedQueue'[r])
  BY <1>1, <1>8, EmptyQueue
<1>14. /\ WaitersOf(s) = ToSet(q) \cup WaitersOf(s)' /\ ToSet(q) \cap WaitersOf(s)' = {}
       /\ UNCHANGED <<running, at, finished, opened, sleepingQueue>>
  BY <1>2, <1>3, <1>12
<1> QED
  BY <1>1, <1>6, <1>8, <1>10, <1>11, <1>13, <1>14, WaitersWake

-----------------------------------------------------------------------------
(* The steps of the kernel. *)

LEMMA InitInv == Init => IInv
<1> SUFFICES ASSUME Init PROVE IInv
  OBVIOUS
<1>0. /\ running = Main /\ ready = <<UserMain>> /\ sleepingQueue = <<>>
      /\ \A t \in AllThreads : ~blocked[t] /\ ~finished[t]
      /\ blockedQueue = [s \in Sems |-> <<>>]
  BY DEF Init, DispatcherInit, SemaphoresInit, SleepersInit
<1>1. UserMain \in People /\ UserMain # Main /\ UserMain # Idle /\ UserMain \in Threads
  BY ThreadsAssumption DEF People
<1>2. ready \in Seq(People) /\ IsInjective(ready) /\ ReadyOnes = {UserMain}
  BY <1>0, <1>1, OneInQueue DEF ReadyOnes
<1>3. /\ sleepingQueue \in Seq(Pairs) /\ blockedQueue \in [Sems -> Seq(Threads)]
      /\ \A s \in Sems : IsInjective(blockedQueue[s]) /\ WaitersOf(s) = {}
  BY <1>0, EmptyQueue DEF WaitersOf
<1>4. Resting = {} /\ IsInjective(Names(sleepingQueue))
  <2>1. Names(sleepingQueue) \in Seq(Threads) /\ Len(Names(sleepingQueue)) = 0
    BY <1>0, <1>3, NamesFacts, EmptyQueue
  <2>2. Names(sleepingQueue) = <<>>
    BY <2>1, EmptySeq
  <2> QED
    BY <2>2, EmptyQueue DEF Resting
<1>5. \A t \in AllThreads :
        at[t] = IF t = Main THEN "main"
                ELSE IF t \in {UserMain, Idle} THEN "fresh" ELSE "none"
  BY DEF Init, DispatcherInit
<1>6. Shapes
  <2>1. at \in [AllThreads -> Places]
    BY DEF Init, DispatcherInit, Places, States
  <2>2. running \in AllThreads /\ timeSliceCounter \in 0 .. TimeSlice - 1
    BY ThreadsAssumption DEF Init, DispatcherInit, AllThreads
  <2>3. /\ blocked \in [AllThreads -> BOOLEAN] /\ finished \in [AllThreads -> BOOLEAN]
        /\ interrupted \in [Sems -> BOOLEAN]
    BY DEF Init, DispatcherInit, SemaphoresInit
  <2>4. pending \in BOOLEAN /\ userFinished \in BOOLEAN
    BY DEF Init, DispatcherInit
  <2>5. /\ opened \subseteq Sems /\ val \in [Sems -> Int] /\ owed \in [Sems -> Int]
        /\ counted \in Nat
    BY DEF Init, SemaphoresInit, SleepersInit
  <2> QED
    BY <1>2, <1>3, <2>1, <2>2, <2>3, <2>4, <2>5 DEF Shapes
<1>7. PlacesFit
  <2>1. \A t \in Threads : t \in AllThreads
    BY DEF AllThreads
  <2>2. Main \in AllThreads /\ Idle \in AllThreads /\ Idle # Main /\ Main \notin Threads
    BY PeopleFacts DEF AllThreads, People
  <2> QED
    BY <1>0, <1>5, <2>1, <2>2 DEF PlacesFit
<1>8. StandOnce /\ WaitInPlace
  BY <1>2, <1>3, <1>4 DEF StandOnce, WaitInPlace
<1>9. BlockedWait
  BY <1>0, <1>3, <1>4, PeopleFacts DEF BlockedWait
<1>10. ReadyApart
  BY <1>0, <1>1, <1>2 DEF ReadyApart, AllThreads
<1>11. ActiveSomewhere
  BY <1>0, <1>1, <1>2, <1>5, PeopleFacts DEF ActiveSomewhere, Active
<1>12. OpenedOnly
  <2>1. \A t \in AllThreads : at[t] \in States
    BY <1>5 DEF States
  <2> QED
    BY <1>0, <2>1, PeopleFacts DEF OpenedOnly
<1> QED
  BY <1>6, <1>7, <1>8, <1>9, <1>10, <1>11, <1>12 DEF IInv

LEMMA CreateKeeps ==
  ASSUME IInv, NEW t \in Threads, Create(t) \/ CreateOnly(t) \/ Start(t),
         UNCHANGED <<semVars, sleepVars, userFinished>>
  PROVE  IInv'
<1>1. /\ Shapes /\ ready \in Seq(People) /\ t \in People /\ t \in AllThreads
      /\ t # Idle /\ Idle \in AllThreads /\ running \in AllThreads
      /\ {"fresh", "created"} \subseteq Places
  BY PeopleFacts DEF IInv, Shapes, People, Places, States
<1>2. t # running /\ at[t] \in {"none", "created"}
  BY DEF Create, CreateOnly, Start, InUser
<1>3. CASE Create(t) \/ Start(t)
  <2>1. ready' = Append(ready, t) /\ ready' \in Seq(People)
    BY <1>1, <1>3, PutInQueue DEF Create, Start
  <2>2. /\ at' \in [AllThreads -> Places]
        /\ \A u \in AllThreads \ {Idle} : at'[u] = IF u = t THEN "fresh" ELSE at[u]
        /\ at'[Idle] \in {"fresh", at[Idle]}
    BY <1>1, <1>3 DEF Shapes, Create, Start
  <2>3. UNCHANGED <<running, blocked, finished, timeSliceCounter, pending>>
    BY <1>3 DEF Create, Start
  <2>4. Shapes'
    BY <1>1, <2>1, <2>2, <2>3 DEF Shapes, semVars, sleepVars
  <2> QED
    BY <1>2, <2>1, <2>2, <2>3, <2>4, BecomesReady DEF semVars, sleepVars
<1>4. CASE CreateOnly(t)
  <2>1. /\ at' \in [AllThreads -> Places]
        /\ \A u \in AllThreads : at'[u] = IF u = t THEN "created" ELSE at[u]
        /\ at[t] = "none"
    BY <1>1, <1>4 DEF Shapes, CreateOnly
  <2>2. UNCHANGED <<running, ready, blocked, finished, timeSliceCounter, pending>>
    BY <1>4 DEF CreateOnly
  <2>3. Shapes'
    BY <1>1, <2>1, <2>2 DEF Shapes, semVars, sleepVars
  <2>4. /\ ReadyOnes' = ReadyOnes /\ Resting' = Resting
        /\ \A s \in Sems : WaitersOf(s)' = WaitersOf(s)
    BY <2>2 DEF ReadyOnes, Resting, WaitersOf, semVars, sleepVars
  <2>5. PlacesFit'
    BY <2>1, <2>2, PeopleFacts DEF IInv, PlacesFit, AllThreads
  <2>6. StandOnce' /\ BlockedWait' /\ ReadyApart'
    BY <2>2, <2>4 DEF IInv, StandOnce, BlockedWait, ReadyApart, semVars, sleepVars
  <2>7. WaitInPlace'
    <3>1. /\ Resting \subseteq Threads /\ \A r \in Sems : WaitersOf(r) \subseteq Threads
          /\ \A r \in Sems : \A u \in WaitersOf(r) : at[u] = r
          /\ \A u \in Resting : at[u] = "sleep"
      BY <1>1, StateFacts DEF IInv, WaitInPlace
    <3>2. "none" \notin Sems /\ \A u \in Threads : u \in AllThreads
      BY PeopleFacts DEF States, AllThreads
    <3> QED
      BY <2>1, <2>4, <3>1, <3>2 DEF WaitInPlace
  <2>8. ActiveSomewhere'
    <3>1. \A u \in People : Active(u)' <=> Active(u)
      BY <1>2, <2>1, <2>2, PeopleFacts DEF Active
    <3> QED
      BY <2>2, <2>4, <3>1 DEF IInv, ActiveSomewhere
  <2>9. OpenedOnly'
    BY <2>1, PeopleFacts DEF IInv, OpenedOnly, semVars, States
  <2> QED
    BY <2>3, <2>5, <2>6, <2>7, <2>8, <2>9 DEF IInv
<1> QED
  BY <1>3, <1>4

LEMMA ThreadStepKeeps == IInv /\ ThreadStep => IInv'
  BY YieldKeeps, ExitKeeps, CreateKeeps DEF ThreadStep

LEMMA BodyStepKeeps == IInv /\ BodyStep => IInv'
<1> SUFFICES ASSUME IInv, BodyStep PROVE IInv'
  OBVIOUS
<1>1. Shapes /\ running \in AllThreads /\ at[running] = "user"
  BY DEF IInv, Shapes, BodyStep, BodyReturns, InUser
<1>2. /\ finished' \in [AllThreads -> BOOLEAN]
      /\ \A t \in AllThreads : finished'[t] = IF t = running THEN TRUE ELSE finished[t]
      /\ UNCHANGED <<running, ready, blocked, at, timeSliceCounter, pending, semVars, sleepVars>>
      /\ userFinished' \in BOOLEAN
  BY <1>1 DEF BodyStep, BodyReturns, Shapes
<1>3. Shapes'
  BY <1>1, <1>2 DEF Shapes, semVars, sleepVars
<1>4. /\ UNCHANGED <<running, ready, blocked, at, blockedQueue, sleepingQueue, opened>>
      /\ \A t \in AllThreads \ {running} : finished'[t] = finished[t]
  BY <1>2 DEF semVars, sleepVars
<1> QED
  BY <1>1, <1>3, <1>4, NobodyMoves

LEMMA UserMainReturnsKeeps == IInv /\ UserMainReturns => IInv'
<1> SUFFICES ASSUME IInv, UserMainReturns PROVE IInv'
  OBVIOUS
<1>1. Shapes'
  BY DEF IInv, Shapes, UserMainReturns, threadVars, semVars, sleepVars
<1>2. UNCHANGED <<running, ready, blocked, finished, at, blockedQueue, sleepingQueue, opened>>
  BY DEF UserMainReturns, threadVars, semVars, sleepVars
<1> QED
  BY <1>1, <1>2, NobodyMoves

LEMMA SemaphoreStepKeeps == IInv /\ SemaphoreStep => IInv'
<1> SUFFICES ASSUME IInv, SemaphoreStep PROVE IInv'
  OBVIOUS
<1>1. Shapes
  BY DEF IInv
<1>2. UNCHANGED <<sleepVars, userFinished>>
  BY DEF SemaphoreStep
<1>3. PICK s \in Sems : \/ \E init \in InitialValues : Open(s, init)
                        \/ WaitPasses(s) \/ WaitBlocks(s) \/ Signal(s) \/ Close(s)
  BY DEF SemaphoreStep
<1>4. ASSUME NEW init \in InitialValues, Open(s, init)
      PROVE  IInv'
  <2>1. init \in Int
    BY ValuesAssumption
  <2>2. Shapes'
    BY <1>1, <1>2, <1>4, <2>1 DEF Shapes, Open, threadVars, sleepVars
  <2> QED
    BY <1>2, <1>4, <2>2, NobodyMoves DEF Open, threadVars, sleepVars
<1>5. CASE WaitPasses(s)
  <2>1. owed' \in [Sems -> Int] /\ val' \in [Sems -> Int]
    BY <1>1, <1>5 DEF WaitPasses, Owes, Shapes
  <2>2. Shapes'
    BY <1>1, <1>2, <1>5, <2>1 DEF Shapes, WaitPasses, threadVars, sleepVars
  <2> QED
    BY <1>2, <1>5, <2>2, NobodyMoves DEF WaitPasses, threadVars, sleepVars
<1> QED
  BY <1>2, <1>3, <1>4, <1>5, WaitBlocksKeeps, SignalKeeps, CloseKeeps

LEMMA SleepStepKeeps == IInv /\ SleepStep => IInv'
  BY SleepKeeps, SleepYieldsKeeps DEF SleepStep

LEMMA ResumeStepKeeps == IInv /\ ResumeStep => IInv'
<1> SUFFICES ASSUME IInv, ResumeStep PROVE IInv'
  OBVIOUS
<1>1. Shapes /\ running \in AllThreads /\ TimeSlice \in Nat \ {0}
  BY ThreadsAssumption DEF IInv, Shapes
<1>2. {"user", "main"} \subseteq Places
  BY DEF Places, States
<1>3. UNCHANGED userFinished
  BY DEF ResumeStep
<1>4. CASE StartBody /\ UNCHANGED <<semVars, sleepVars>>
  <2>1. running # Main
    BY <1>4 DEF StartBody, IInv, PlacesFit
  <2>2. Shapes'
    BY <1>1, <1>2, <1>3, <1>4 DEF Shapes, StartBody, semVars, sleepVars
  <2> QED
    BY <1>4, <2>1, <2>2, GoesOn DEF StartBody, semVars, sleepVars
<1>5. ASSUME NEW next \in {"user", "main"}, NEW place, Resume(place, next),
             next = "user" <=> running # Main, pending' \in BOOLEAN, owed' \in [Sems -> Int],
             UNCHANGED <<opened, val, blockedQueue, interrupted, sleepVars>>
      PROVE  IInv'
  <2>1. /\ at' = [at EXCEPT ![running] = next] /\ timeSliceCounter' = 0
        /\ UNCHANGED <<running, ready, blocked, finished>>
    BY <1>5 DEF Resume
  <2>2. at' \in [AllThreads -> Places] /\ timeSliceCounter' \in 0 .. TimeSlice - 1
    BY <1>1, <1>2, <2>1 DEF Shapes
  <2>3. Shapes'
    BY <1>1, <1>3, <1>5, <2>1, <2>2 DEF Shapes, sleepVars
  <2> QED
    BY <1>5, <2>1, <2>3, GoesOn DEF sleepVars
<1>6. CASE ResumeYield /\ UNCHANGED <<semVars, sleepVars>>
  <2> DEFINE next == IF running = Main THEN "main" ELSE "user"
  <2>1. next \in {"user", "main"} /\ (next = "user" <=> running # Main)
    OBVIOUS
  <2>2. Resume("yield", next) /\ pending' \in BOOLEAN /\ owed' \in [Sems -> Int]
    BY <1>1, <1>6 DEF ResumeYield, semVars, Shapes
  <2> HIDE DEF next
  <2> QED
    BY <1>5, <1>6, <2>1, <2>2 DEF semVars
<1>7. ASSUME NEW s \in Sems, ResumeWait(s), UNCHANGED sleepVars
      PROVE  IInv'
  <2>1. at[running] = s
    BY <1>7 DEF ResumeWait, Resume
  <2>2. running # Main
    BY <2>1, PeopleFacts DEF IInv, PlacesFit, States
  <2>3. Resume(s, "user") /\ pending' \in BOOLEAN /\ owed' \in [Sems -> Int]
    BY <1>1, <1>7 DEF ResumeWait, Owes, Shapes
  <2> QED
    BY <1>5, <1>7, <2>2, <2>3 DEF ResumeWait
<1>8. CASE ResumeSleep /\ UNCHANGED semVars
  <2>1. running # Main
    BY <1>8 DEF ResumeSleep, Resume, IInv, PlacesFit
  <2>2. Resume("sleep", "user") /\ pending' \in BOOLEAN /\ owed' \in [Sems -> Int]
    BY <1>1, <1>8 DEF ResumeSleep, semVars, Shapes
  <2> QED
    BY <1>5, <1>8, <2>1, <2>2 DEF ResumeSleep, semVars, sleepVars
<1>9. CASE ResumeTimer /\ UNCHANGED semVars
  <2>1. running # Main
    BY <1>9 DEF ResumeTimer, Resume, IInv, PlacesFit
  <2>2. Resume("timer", "user") /\ pending' \in BOOLEAN /\ owed' \in [Sems -> Int]
    BY <1>1, <1>9 DEF ResumeTimer, semVars, Shapes
  <2> QED
    BY <1>5, <1>9, <2>1, <2>2 DEF ResumeTimer, semVars, sleepVars
<1> QED
  BY <1>4, <1>6, <1>7, <1>8, <1>9 DEF ResumeStep

LEMMA MainReturnsKeeps == IInv /\ MainReturns => IInv'
<1> SUFFICES ASSUME IInv, MainReturns PROVE IInv'
  OBVIOUS
<1>1. Shapes /\ running = Main /\ running \in AllThreads /\ "returned" \in Places
  BY PeopleFacts DEF MainReturns, IInv, Shapes, PlacesFit, People, Places, States
<1>2. /\ at' = [at EXCEPT ![running] = "returned"]
      /\ UNCHANGED <<running, ready, blocked, finished, timeSliceCounter, pending,
                     semVars, sleepVars, userFinished>>
  BY <1>1 DEF MainReturns
<1>3. Shapes'
  BY <1>1, <1>2 DEF Shapes, semVars, sleepVars
<1> QED
  BY <1>1, <1>2, <1>3, GoesOn DEF semVars, sleepVars

LEMMA DeviceKeeps == IInv /\ Device => IInv'
<1> SUFFICES ASSUME IInv, Device PROVE IInv'
  OBVIOUS
<1>1. /\ pending' \in BOOLEAN /\ counted' \in Nat
      /\ UNCHANGED <<running, ready, blocked, finished, at, timeSliceCounter, semVars,
                     sleepingQueue, userFinished>>
  BY DEF Device, TimerSets, Tick
<1>2. Shapes'
  BY <1>1 DEF IInv, Shapes, semVars
<1>3. finished' = finished \/ at[running] = "user"
  BY <1>1
<1> QED
  BY <1>1, <1>2, <1>3, NobodyMoves DEF semVars

LEMMA StutterKeeps == IInv /\ UNCHANGED vars => IInv'
<1> SUFFICES ASSUME IInv, UNCHANGED vars PROVE IInv'
  OBVIOUS
<1>1. UNCHANGED <<running, ready, blocked, finished, at, timeSliceCounter, pending, opened, val,
                  blockedQueue, interrupted, owed, sleepingQueue, counted, userFinished>>
  BY DEF vars, threadVars, semVars, sleepVars
<1>2. Shapes'
  BY <1>1 DEF IInv, Shapes
<1>3. finished' = finished \/ at[running] = "user"
  BY <1>1
<1> QED
  BY <1>1, <1>2, <1>3, NobodyMoves

LEMMA NextInv == IInv /\ [Next]_vars => IInv'
<1>1. IInv /\ UserStep => IInv'
  BY UserMainReturnsKeeps, ThreadStepKeeps, BodyStepKeeps, SemaphoreStepKeeps, SleepStepKeeps
  DEF UserStep
<1>2. IInv /\ KernelStep => IInv'
  BY ResumeStepKeeps, TimerTickKeeps, TimerPreemptKeeps, MainYieldsKeeps, MainReturnsKeeps
  DEF KernelStep, TimerStep
<1> QED
  BY <1>1, <1>2, DeviceKeeps, StutterKeeps DEF Next, Stopped

(* The switch of threads, the semaphores and the timer keep the queues, the *)
(* flags of the TCBs and the places where threads go on in step.           *)
THEOREM Invariance == Spec => []IInv
  BY InitInv, NextInv, PTL DEF Spec

-----------------------------------------------------------------------------
(* Ticks. *)

(* A tick that was taken and whose bit is still set was taken by a thread  *)
(* that gave way, and the slice of the next one has just begun.            *)
TickInv ==
  /\ counted \in 0 .. 2
  /\ pending /\ counted # 0 => counted = 1 /\ timeSliceCounter = 0

LEMMA NextTick ==
  ASSUME TimeSlice > 1, TickInv, Shapes, [Next]_vars
  PROVE  TickInv'
<1>1. CASE TimerTick
  BY <1>1 DEF TickInv, TimerTick, TimerInterrupt
<1>2. CASE TimerPreempt
  <2>1. counted' = counted + 1 /\ timeSliceCounter' = 0 /\ pending /\ timeSliceCounter # 0
    BY <1>2, ThreadsAssumption DEF TimerPreempt, TimerInterrupt, SliceOver, Shapes
  <2> QED
    BY <2>1 DEF TickInv
<1>3. CASE Device
  BY <1>3 DEF TickInv, Device, TimerSets
<1>4. ASSUME counted' = counted, pending' = pending \/ pending' = FALSE,
             timeSliceCounter' \in {timeSliceCounter, 0}
      PROVE  TickInv'
  BY <1>4 DEF TickInv
<1>5. CASE UserStep \/ MainYields \/ MainReturns
  BY <1>4, <1>5 DEF UserStep, UserMainReturns, ThreadStep, BodyStep, SemaphoreStep, SleepStep,
     MainYields, MainReturns, Yield, Exit, Create, CreateOnly, Start, BodyReturns, Open, WaitPasses,
     WaitBlocks, Signal, Close, Sleep, SleepYields, threadVars, sleepVars
<1>6. CASE ResumeStep
  BY <1>4, <1>6 DEF ResumeStep, StartBody, ResumeYield, ResumeWait, ResumeSleep, ResumeTimer,
     Resume, sleepVars
<1>7. CASE UNCHANGED vars
  BY <1>4, <1>7 DEF vars, threadVars, sleepVars
<1> QED
  BY <1>1, <1>2, <1>3, <1>5, <1>6, <1>7 DEF Next, KernelStep, TimerStep, Stopped

(* The handler of the timer interrupt clears the bit when it returns, which *)
(* it does only after the switch it may make: the thread switched to can    *)
(* take the same tick once more, and no third time.                         *)
THEOREM TicksBounded == ASSUME TimeSlice > 1 PROVE Spec => []TickTakenTwiceAtMost
<1>1. Init => TickInv
  BY DEF Init, SleepersInit, TickInv
<1>2. TickInv /\ Shapes /\ [Next]_vars => TickInv'
  BY NextTick
<1>3. TickInv => TickTakenTwiceAtMost
  BY DEF TickInv, TickTakenTwiceAtMost
<1>4. IInv => Shapes
  BY DEF IInv
<1> QED
  BY <1>1, <1>2, <1>3, <1>4, Invariance, PTL DEF Spec

-----------------------------------------------------------------------------
(* The accounts of the semaphores. *)

(* The waiters that were woken and have not run yet. *)
Granted(s) == {t \in Threads : at[t] = s /\ ~blocked[t]}

Accounts ==
  /\ WaitersCounted
  /\ PermitsAccounted
  /\ \A s \in Sems : owed[s] >= 0

(* A semaphore that is not closed, in numbers: its counter, its waiters,    *)
(* the permits it owes and the waiters that were woken.                    *)
Balanced(v, n, o, g) ==
  /\ n = IF v < 0 THEN -v ELSE 0
  /\ o = (IF v > 0 THEN v ELSE 0) + g

Account(s) ==
  /\ owed[s] >= 0
  /\ ~interrupted[s] =>
       Balanced(val[s], Len(blockedQueue[s]), owed[s], Cardinality(Granted(s)))

LEMMA AccountsOpen == Accounts <=> \A s \in Sems : Account(s)
  BY DEF Accounts, WaitersCounted, PermitsAccounted, Account, Balanced, Granted

LEMMA GrantedFacts ==
  ASSUME NEW s \in Sems
  PROVE  IsFiniteSet(Granted(s)) /\ Cardinality(Granted(s)) \in Nat
         /\ IsFiniteSet(Granted(s)') /\ Cardinality(Granted(s)') \in Nat
<1>1. Granted(s) \subseteq Threads /\ Granted(s)' \subseteq Threads
  BY DEF Granted
<1> QED
  BY <1>1, ThreadsAssumption, FS_Subset, FS_CardinalityType

(* A step that lets the semaphores alone, and nobody in a wait of one go.  *)
LEMMA AccountStays ==
  ASSUME NEW s \in Sems, Account(s), Granted(s)' = Granted(s),
         owed'[s] = owed[s], val'[s] = val[s], interrupted'[s] = interrupted[s],
         blockedQueue'[s] = blockedQueue[s]
  PROVE  Account(s)'
  BY DEF Account

LEMMA AccountsStay ==
  ASSUME IInv, Accounts, UNCHANGED <<val, blockedQueue, interrupted, owed>>,
         \A t \in Threads : at'[t] = at[t] \/ (at[t] \in States /\ at'[t] \in States),
         \A t \in Threads : blocked'[t] = blocked[t] \/ at'[t] \in States
  PROVE  Accounts'
<1>1. ASSUME NEW s \in Sems
      PROVE  Account(s)'
  <2>1. \A t \in Threads : at[t] = s /\ ~blocked[t] <=> at'[t] = s /\ ~blocked'[t]
    BY PeopleFacts
  <2>2. Granted(s)' = Granted(s)
    BY <2>1 DEF Granted
  <2> QED
    BY <2>2, AccountStays, AccountsOpen
<1>2. (\A s \in Sems : Account(s)') => Accounts'
  BY DEF Accounts, WaitersCounted, PermitsAccounted, Account, Balanced, Granted
<1> QED
  BY <1>1, <1>2

(* Steps that leave the flags alone and move only who runs, from one state  *)
(* that is no wait to another.                                             *)
LEMMA AccountsOfMove ==
  ASSUME IInv, Accounts, UNCHANGED <<val, blockedQueue, interrupted, owed, blocked>>,
         NEW t \in AllThreads, at[t] \in States, NEW next \in States,
         at' = [at EXCEPT ![t] = next]
  PROVE  Accounts'
<1>1. \A u \in Threads : at'[u] = at[u] \/ (at[u] \in States /\ at'[u] \in States)
  BY DEF IInv, Shapes, AllThreads
<1> QED
  BY <1>1, AccountsStay

LEMMA AccountsOfThreads ==
  /\ IInv /\ Accounts
  /\ UserMainReturns \/ ThreadStep \/ BodyStep \/ MainYields \/ MainReturns
  => Accounts'
<1> SUFFICES ASSUME IInv, Accounts,
                    UserMainReturns \/ ThreadStep \/ BodyStep \/ MainYields \/ MainReturns
             PROVE  Accounts'
  OBVIOUS
<1>1. UNCHANGED <<val, blockedQueue, interrupted, owed, blocked>>
  BY DEF UserMainReturns, ThreadStep, BodyStep, MainYields, MainReturns, Yield, Exit, Create,
     CreateOnly, Start, BodyReturns, threadVars, semVars
<1>2. \A u \in Threads : at'[u] = at[u] \/ (at[u] \in States /\ at'[u] \in States)
  <2>1. at \in [AllThreads -> Places] /\ Threads \subseteq AllThreads /\ Main \notin Threads
    BY PeopleFacts DEF IInv, Shapes, AllThreads
  <2>2. {"user", "main", "yield", "fresh", "none", "created", "returned"} \subseteq States
    BY DEF States
  <2>3. CASE ThreadStep
    <3>1. CASE Yield
      BY <2>1, <2>2, <3>1 DEF Yield, Dispatch
    <3>2. CASE Exit
      BY <2>1, <2>2, <3>2 DEF Exit, InUser, Dispatch
    <3>3. ASSUME NEW t \in Threads, Create(t) \/ CreateOnly(t) \/ Start(t)
          PROVE  \A u \in Threads : at'[u] = at[u] \/ (at[u] \in States /\ at'[u] \in States)
      <4>1. Idle \notin Threads /\ Idle \in AllThreads
        BY ThreadsAssumption DEF AllThreads
      <4>2. CASE Create(t)
        BY <2>1, <2>2, <4>1, <4>2 DEF Create
      <4>3. CASE CreateOnly(t)
        BY <2>1, <2>2, <4>3 DEF CreateOnly
      <4>4. CASE Start(t)
        BY <2>1, <2>2, <4>4 DEF Start
      <4> QED
        BY <3>3, <4>2, <4>3, <4>4
    <3> QED
      BY <2>3, <3>1, <3>2, <3>3 DEF ThreadStep
  <2>4. CASE BodyStep \/ UserMainReturns
    BY <2>4 DEF BodyStep, BodyReturns, UserMainReturns, threadVars
  <2>5. CASE MainYields
    BY <2>1, <2>2, <2>5 DEF MainYields, Dispatch
  <2>6. CASE MainReturns
    BY <2>1, <2>2, <2>6 DEF MainReturns
  <2> QED
    BY <2>3, <2>4, <2>5, <2>6
<1> QED
  BY <1>1, <1>2, AccountsStay

LEMMA AccountsOfSleep ==
  IInv /\ Accounts /\ SleepStep => Accounts'
<1> SUFFICES ASSUME IInv, Accounts, SleepStep PROVE Accounts'
  OBVIOUS
<1>1. /\ UNCHANGED <<val, blockedQueue, interrupted, owed>> /\ at[running] = "user"
      /\ at' = [at EXCEPT ![running] = "sleep"]
      /\ blocked' = blocked \/ blocked' = [blocked EXCEPT ![running] = TRUE]
  BY DEF SleepStep, Sleep, SleepYields, InUser, Dispatch, semVars
<1>2. /\ at \in [AllThreads -> Places] /\ Threads \subseteq AllThreads
      /\ blocked \in [AllThreads -> BOOLEAN] /\ {"user", "sleep"} \subseteq States
  BY DEF IInv, Shapes, AllThreads, States
<1>3. \A t \in Threads : at'[t] = at[t] \/ (at[t] \in States /\ at'[t] \in States)
  BY <1>1, <1>2
<1>4. \A t \in Threads : blocked'[t] = blocked[t] \/ at'[t] \in States
  BY <1>1, <1>2
<1> QED
  BY <1>1, <1>3, <1>4, AccountsStay

LEMMA AccountsOfTimer ==
  IInv /\ Accounts /\ (TimerStep \/ Device) => Accounts'
<1> SUFFICES ASSUME IInv, Accounts, TimerStep \/ Device PROVE Accounts'
  OBVIOUS
<1>1. /\ at \in [AllThreads -> Places] /\ Threads \subseteq AllThreads
      /\ {"user", "sleep", "timer"} \subseteq States
  BY DEF IInv, Shapes, AllThreads, States
<1>2. CASE TimerStep
  <2>1. /\ UNCHANGED <<val, blockedQueue, interrupted, owed>> /\ at[running] = "user"
        /\ TimerInterrupt /\ (at' = at \/ at' = [at EXCEPT ![running] = "timer"])
    BY <1>2 DEF TimerStep, TimerTick, TimerPreempt, TimerInterrupt, Dispatch, semVars
  <2>2. \A t \in Threads : at'[t] = at[t] \/ (at[t] \in States /\ at'[t] \in States)
    BY <1>1, <2>1
  <2>3. \A t \in Threads : blocked'[t] = blocked[t] \/ at'[t] \in States
    <3>1. /\ \A t \in AllThreads : blocked'[t] <=> blocked[t] /\ t \notin WokenOnes
          /\ blocked' \in [AllThreads -> BOOLEAN] /\ blocked \in [AllThreads -> BOOLEAN]
          /\ WokenOnes \subseteq Resting /\ \A t \in WokenOnes : t # running
      BY <2>1, TimerFacts DEF IInv, Shapes
    <3>2. \A t \in WokenOnes : at[t] = "sleep"
      BY <3>1 DEF IInv, WaitInPlace
    <3>3. \A t \in Threads : t \in WokenOnes => at'[t] = "sleep"
      BY <1>1, <2>1, <3>1, <3>2
    <3>4. \A t \in Threads : t \notin WokenOnes => blocked'[t] = blocked[t]
      BY <1>1, <3>1
    <3> QED
      BY <1>1, <3>3, <3>4
  <2> QED
    BY <2>1, <2>2, <2>3, AccountsStay
<1>3. CASE Device
  BY <1>3, AccountsStay DEF Device, TimerSets, Tick, semVars
<1> QED
  BY <1>2, <1>3

LEMMA AccountsOfStutter == IInv /\ Accounts /\ UNCHANGED vars => Accounts'
  BY AccountsStay DEF vars, threadVars, semVars

LEMMA AccountsOfResume ==
  IInv /\ Accounts /\ ResumeStep => Accounts'
<1> SUFFICES ASSUME IInv, Accounts, ResumeStep PROVE Accounts'
  OBVIOUS
<1>1. /\ at \in [AllThreads -> Places] /\ Threads \subseteq AllThreads /\ running \in AllThreads
      /\ {"user", "main", "fresh", "yield", "sleep", "timer"} \subseteq States
      /\ owed \in [Sems -> Int]
  BY DEF IInv, Shapes, AllThreads, States
<1>2. CASE StartBody /\ UNCHANGED <<semVars, sleepVars>>
  BY <1>1, <1>2, AccountsOfMove DEF StartBody, semVars
<1>3. CASE ResumeYield /\ UNCHANGED <<semVars, sleepVars>>
  <2>1. PICK next \in {"user", "main"} : at' = [at EXCEPT ![running] = next]
    BY <1>3 DEF ResumeYield, Resume
  <2> QED
    BY <1>1, <1>3, <2>1, AccountsOfMove DEF ResumeYield, Resume, semVars
<1>4. CASE (ResumeSleep \/ ResumeTimer) /\ UNCHANGED semVars
  BY <1>1, <1>4, AccountsOfMove DEF ResumeSleep, ResumeTimer, Resume, semVars
<1>5. ASSUME NEW s \in Sems, ResumeWait(s) PROVE Accounts'
  <2>1. /\ at[running] = s /\ at' = [at EXCEPT ![running] = "user"]
        /\ UNCHANGED <<running, blocked, val, blockedQueue, interrupted>>
        /\ owed' = IF interrupted[s] THEN owed ELSE [owed EXCEPT ![s] = @ - 1]
    BY <1>1, <1>5 DEF ResumeWait, Resume, Owes
  <2>2. running \in Threads /\ ~blocked[running]
    BY <1>1, <2>1, PeopleFacts, RunningFacts DEF IInv, PlacesFit, People, States
  <2>3. Granted(s)' = Granted(s) \ {running} /\ running \in Granted(s)
    BY <1>1, <2>1, <2>2, PeopleFacts DEF Granted, States
  <2>4. ASSUME NEW r \in Sems PROVE Account(r)'
    <3>1. Account(r)
      BY AccountsOpen
    <3>2. CASE r # s
      <4>1. Granted(r)' = Granted(r)
        BY <1>1, <2>1, <3>2, PeopleFacts DEF Granted, States
      <4> QED
        BY <1>1, <2>1, <3>1, <3>2, <4>1, AccountStays
    <3>3. CASE r = s /\ interrupted[s]
      BY <2>1, <3>1, <3>3 DEF Account
    <3>4. CASE r = s /\ ~interrupted[s]
      <4>1. Cardinality(Granted(s)') = Cardinality(Granted(s)) - 1
        BY <2>3, GrantedFacts, FS_RemoveElement
      <4>2. owed'[s] = owed[s] - 1
        BY <1>1, <2>1, <3>4
      <4>3. Balanced(val[s], Len(blockedQueue[s]), owed[s], Cardinality(Granted(s)))
        BY <3>1, <3>4 DEF Account
      <4>4. Cardinality(Granted(s)') \in Nat /\ Cardinality(Granted(s)) \in Nat /\ val[s] \in Int
        BY GrantedFacts DEF IInv, Shapes
      <4>5. /\ Balanced(val[s], Len(blockedQueue[s]), owed'[s], Cardinality(Granted(s)'))
            /\ owed'[s] >= 0
        BY <1>1, <4>1, <4>2, <4>3, <4>4 DEF Balanced
      <4> QED
        BY <2>1, <3>4, <4>5 DEF Account
    <3> QED
      BY <3>2, <3>3, <3>4
  <2> QED
    BY <2>4 DEF Accounts, WaitersCounted, PermitsAccounted, Account, Balanced, Granted
<1> QED
  BY <1>2, <1>3, <1>4, <1>5 DEF ResumeStep

(* A step on semaphore s settles the accounts when it settles that of s.   *)
LEMMA AccountsOfOne ==
  ASSUME IInv, Accounts, NEW s \in Sems, Account(s)',
         \A r \in Sems \ {s} : /\ owed'[r] = owed[r] /\ val'[r] = val[r]
                               /\ interrupted'[r] = interrupted[r]
                               /\ blockedQueue'[r] = blockedQueue[r]
                               /\ Granted(r)' = Granted(r)
  PROVE  Accounts'
<1>1. ASSUME NEW r \in Sems PROVE Account(r)'
  <2>1. CASE r = s
    BY <2>1
  <2>2. CASE r # s
    BY <2>2, AccountStays, AccountsOpen
  <2> QED
    BY <2>1, <2>2
<1> QED
  BY <1>1 DEF Accounts, WaitersCounted, PermitsAccounted, Account, Balanced, Granted

LEMMA AccountsOfOpen ==
  ASSUME IInv, Accounts, NEW s \in Sems, NEW init \in InitialValues, Open(s, init)
  PROVE  Accounts'
<1>1. /\ val \in [Sems -> Int] /\ owed \in [Sems -> Int] /\ init \in Nat /\ s \notin opened
      /\ val' = [val EXCEPT ![s] = init] /\ owed' = [owed EXCEPT ![s] = init]
      /\ UNCHANGED <<at, blocked, blockedQueue, interrupted>>
  BY ValuesAssumption DEF IInv, Shapes, Open, threadVars
<1>2. \A r \in Sems : Granted(r)' = Granted(r)
  BY <1>1 DEF Granted
<1>3. Cardinality(Granted(s)) = 0 /\ Len(blockedQueue[s]) = 0
  <2>1. Granted(s) = {} /\ blockedQueue[s] = <<>>
    BY <1>1 DEF Granted, IInv, OpenedOnly, AllThreads
  <2> QED
    BY <2>1, FS_EmptySet, EmptyQueue
<1>4. Account(s)'
  <2>1. Balanced(init, 0, init, 0) /\ init >= 0
    BY <1>1 DEF Balanced
  <2>2. /\ Cardinality(Granted(s)') = 0 /\ Len(blockedQueue'[s]) = 0
        /\ val'[s] = init /\ owed'[s] = init
    BY <1>1, <1>2, <1>3
  <2> QED
    BY <2>1, <2>2 DEF Account
<1> QED
  BY <1>1, <1>2, <1>4, AccountsOfOne

LEMMA AccountsOfPass ==
  ASSUME IInv, Accounts, NEW s \in Sems, WaitPasses(s)
  PROVE  Accounts'
<1>1. /\ val \in [Sems -> Int] /\ owed \in [Sems -> Int] /\ val[s] >= 1
      /\ val' = [val EXCEPT ![s] = @ - 1]
      /\ owed' = IF interrupted[s] THEN owed ELSE [owed EXCEPT ![s] = @ + -1]
      /\ UNCHANGED <<at, blocked, blockedQueue, interrupted>>
  BY DEF IInv, Shapes, WaitPasses, Blocks, Owes, threadVars
<1>2. \A r \in Sems : Granted(r)' = Granted(r)
  BY <1>1 DEF Granted
<1>3. Account(s)'
  <2>1. Account(s)
    BY AccountsOpen
  <2>2. CASE interrupted[s]
    BY <1>1, <2>1, <2>2 DEF Account
  <2>3. CASE ~interrupted[s]
    <3>1. Balanced(val[s], Len(blockedQueue[s]), owed[s], Cardinality(Granted(s)))
      BY <2>1, <2>3 DEF Account
    <3>2. /\ val[s] \in Int /\ owed[s] \in Int /\ Cardinality(Granted(s)) \in Nat
          /\ val'[s] = val[s] - 1 /\ owed'[s] = owed[s] - 1
      BY <1>1, <2>3, GrantedFacts
    <3>3. /\ Balanced(val[s] - 1, Len(blockedQueue[s]), owed[s] - 1, Cardinality(Granted(s)))
          /\ owed[s] - 1 >= 0
      BY <1>1, <3>1, <3>2 DEF Balanced
    <3> QED
      BY <1>1, <1>2, <3>2, <3>3 DEF Account
  <2> QED
    BY <2>2, <2>3
<1> QED
  BY <1>1, <1>2, <1>3, AccountsOfOne

LEMMA AccountsOfBlock ==
  ASSUME IInv, Accounts, NEW s \in Sems, WaitBlocks(s)
  PROVE  Accounts'
<1>1. /\ val \in [Sems -> Int] /\ owed \in [Sems -> Int] /\ val[s] <= 0
      /\ at \in [AllThreads -> Places] /\ blocked \in [AllThreads -> BOOLEAN]
      /\ Threads \subseteq AllThreads /\ at[running] = "user" /\ running \in AllThreads
      /\ blockedQueue \in [Sems -> Seq(Threads)]
      /\ val' = [val EXCEPT ![s] = @ - 1]
      /\ blocked' = [blocked EXCEPT ![running] = TRUE]
      /\ at' = [at EXCEPT ![running] = s]
      /\ UNCHANGED <<interrupted, owed>>
  BY DEF IInv, Shapes, WaitBlocks, Blocks, InUser, Dispatch, AllThreads
<1>2. \A r \in Sems : Granted(r)' = Granted(r)
  <2>1. \A r \in Sems : r # "user"
    BY PeopleFacts DEF States
  <2> QED
    BY <1>1, <2>1 DEF Granted
<1>3. /\ \A r \in Sems \ {s} : blockedQueue'[r] = blockedQueue[r]
      /\ Len(blockedQueue'[s]) = Len(blockedQueue[s]) + 1
  <2>1. blockedQueue' = [blockedQueue EXCEPT ![s] = Append(blockedQueue[s], running)]
    BY DEF WaitBlocks
  <2>2. running \in Threads /\ blockedQueue[s] \in Seq(Threads)
    BY <1>1, UserIsThread DEF IInv, WaitBlocks, InUser
  <2> QED
    BY <1>1, <2>1, <2>2, PutInQueue
<1>4. Account(s)'
  <2>1. Account(s)
    BY AccountsOpen
  <2>2. CASE interrupted[s]
    BY <1>1, <2>1, <2>2 DEF Account
  <2>3. CASE ~interrupted[s]
    <3>1. Balanced(val[s], Len(blockedQueue[s]), owed[s], Cardinality(Granted(s)))
      BY <2>1, <2>3 DEF Account
    <3>2. /\ val[s] \in Int /\ owed[s] \in Int /\ Cardinality(Granted(s)) \in Nat
          /\ val'[s] = val[s] - 1 /\ Len(blockedQueue[s]) \in Nat
      BY <1>1, GrantedFacts, LenProperties
    <3>3. Balanced(val[s] - 1, Len(blockedQueue[s]) + 1, owed[s], Cardinality(Granted(s)))
      BY <1>1, <3>1, <3>2 DEF Balanced
    <3>4. /\ val'[s] = val[s] - 1 /\ Len(blockedQueue'[s]) = Len(blockedQueue[s]) + 1
          /\ owed'[s] = owed[s] /\ Granted(s)' = Granted(s) /\ owed[s] >= 0
      BY <1>1, <1>2, <1>3, <2>1, <3>2 DEF Account
    <3> QED
      BY <3>3, <3>4 DEF Account
  <2> QED
    BY <2>2, <2>3
<1> QED
  BY <1>1, <1>2, <1>3, <1>4, AccountsOfOne

LEMMA AccountsOfSignal ==
  ASSUME IInv, Accounts, NEW s \in Sems, Signal(s)
  PROVE  Accounts'
<1>1. /\ val \in [Sems -> Int] /\ owed \in [Sems -> Int]
      /\ at \in [AllThreads -> Places] /\ blocked \in [AllThreads -> BOOLEAN]
      /\ Threads \subseteq AllThreads /\ blockedQueue \in [Sems -> Seq(Threads)]
      /\ val' = [val EXCEPT ![s] = @ + 1]
      /\ owed' = IF interrupted[s] THEN owed ELSE [owed EXCEPT ![s] = @ + 1]
      /\ UNCHANGED <<at, interrupted>>
  BY DEF IInv, Shapes, Signal, Owes, AllThreads
<1>2. Account(s) /\ owed[s] >= 0
  BY AccountsOpen DEF Account
<1>3. ASSUME ~interrupted[s]
      PROVE  /\ Balanced(val[s], Len(blockedQueue[s]), owed[s], Cardinality(Granted(s)))
             /\ val[s] \in Int /\ owed[s] \in Int /\ Cardinality(Granted(s)) \in Nat
             /\ val'[s] = val[s] + 1 /\ owed'[s] = owed[s] + 1 /\ Len(blockedQueue[s]) \in Nat
  BY <1>1, <1>2, <1>3, GrantedFacts, LenProperties DEF Account
<1>4. CASE ~Wakes(s)
  <2>1. UNCHANGED <<blockedQueue, blocked>>
    BY <1>4 DEF Signal
  <2>2. \A r \in Sems : Granted(r)' = Granted(r)
    BY <1>1, <2>1 DEF Granted
  <2>3. CASE interrupted[s]
    BY <1>1, <1>2, <2>1, <2>2, <2>3, AccountsOfOne DEF Account
  <2>4. CASE ~interrupted[s]
    <3>1. val[s] >= 0
      <4>1. val[s] < 0 => blockedQueue[s] # <<>>
        BY <1>3, <2>4, EmptyQueue DEF Balanced
      <4> QED
        BY <1>3, <1>4, <2>4, <4>1 DEF Wakes
    <3>2. Balanced(val[s] + 1, Len(blockedQueue[s]), owed[s] + 1, Cardinality(Granted(s)))
      BY <1>3, <2>4, <3>1 DEF Balanced
    <3>3. Account(s)'
      BY <1>1, <1>2, <1>3, <2>1, <2>2, <2>4, <3>2 DEF Account
    <3> QED
      BY <1>1, <2>1, <2>2, <3>3, AccountsOfOne
  <2> QED
    BY <2>3, <2>4
<1>5. CASE Wakes(s)
  <2> DEFINE q == blockedQueue[s]
             t == Head(q)
  <2>1. /\ blockedQueue' = [blockedQueue EXCEPT ![s] = Tail(q)]
        /\ blocked' = [blocked EXCEPT ![t] = FALSE]
        /\ q # <<>> /\ q \in Seq(Threads) /\ val[s] + 1 <= 0
    BY <1>1, <1>5 DEF Signal, Wakes
  <2>2. t \in Threads /\ t \in WaitersOf(s) /\ Len(Tail(q)) = Len(q) - 1
    <3>1. q # <<>> /\ q \in Seq(Threads)
      BY <2>1
    <3> HIDE DEF q
    <3> QED
      BY <3>1, TakenFromQueue DEF WaitersOf, q
  <2> HIDE DEF q, t
  <2>3. /\ \A r \in Sems \ {s} : blockedQueue'[r] = blockedQueue[r]
        /\ Len(blockedQueue'[s]) = Len(blockedQueue[s]) - 1
    BY <1>1, <2>1, <2>2 DEF q
  <2>4. at[t] = s /\ blocked[t]
    BY <2>2 DEF IInv, WaitInPlace, BlockedWait, People
  <2>5. \A u \in Threads : blocked'[u] <=> blocked[u] /\ u # t
    BY <1>1, <2>1, <2>2
  <2>6. \A r \in Sems \ {s} : Granted(r)' = Granted(r)
    BY <1>1, <2>4, <2>5 DEF Granted
  <2>7. Granted(s)' = Granted(s) \cup {t} /\ t \notin Granted(s)
    BY <1>1, <2>2, <2>4, <2>5 DEF Granted
  <2>8. Cardinality(Granted(s)') = Cardinality(Granted(s)) + 1
    BY <2>7, GrantedFacts, FS_AddElement
  <2>9. Account(s)'
    <3>1. CASE interrupted[s]
      BY <1>1, <1>2, <3>1 DEF Account
    <3>2. CASE ~interrupted[s]
      <4>1. Balanced(val[s] + 1, Len(blockedQueue[s]) - 1, owed[s] + 1,
                     Cardinality(Granted(s)) + 1)
        BY <1>3, <2>1, <3>2 DEF Balanced
      <4>2. owed'[s] >= 0
        BY <1>2, <1>3, <3>2
      <4> QED
        BY <1>1, <1>3, <2>3, <2>8, <3>2, <4>1, <4>2 DEF Account
    <3> QED
      BY <3>1, <3>2
  <2> QED
    BY <1>1, <2>3, <2>6, <2>9, AccountsOfOne
<1> QED
  BY <1>4, <1>5

LEMMA AccountsOfClose ==
  ASSUME IInv, Accounts, NEW s \in Sems, Close(s)
  PROVE  Accounts'
<1>1. /\ blocked \in [AllThreads -> BOOLEAN] /\ Threads \subseteq AllThreads
      /\ blockedQueue \in [Sems -> Seq(Threads)] /\ interrupted \in [Sems -> BOOLEAN]
      /\ interrupted' = [interrupted EXCEPT ![s] = TRUE]
      /\ blockedQueue' = [blockedQueue EXCEPT ![s] = <<>>]
      /\ blocked' = [t \in AllThreads |->
                       blocked[t] /\ ~\E i \in DOMAIN blockedQueue[s] : blockedQueue[s][i] = t]
      /\ UNCHANGED <<at, val, owed>>
  BY DEF IInv, Shapes, Close, AllThreads
<1>2. \A t : t \in WaitersOf(s) <=> \E i \in DOMAIN blockedQueue[s] : blockedQueue[s][i] = t
  <2>1. blockedQueue[s] \in Seq(Threads)
    BY <1>1
  <2> QED
    BY <2>1, QueueMembers, LenProperties DEF WaitersOf
<1>3. \A t \in Threads : blocked'[t] <=> blocked[t] /\ t \notin WaitersOf(s)
  BY <1>1, <1>2
<1>4. \A t \in WaitersOf(s) : at[t] = s
  BY DEF IInv, WaitInPlace
<1>5. \A r \in Sems \ {s} : Granted(r)' = Granted(r)
  BY <1>1, <1>3, <1>4 DEF Granted
<1>6. Account(s)'
  BY <1>1, AccountsOpen DEF Account
<1> QED
  BY <1>1, <1>5, <1>6, AccountsOfOne

LEMMA NextAccounts == IInv /\ Accounts /\ [Next]_vars => Accounts'
<1>1. IInv /\ Accounts /\ SemaphoreStep => Accounts'
  BY AccountsOfOpen, AccountsOfPass, AccountsOfBlock, AccountsOfSignal, AccountsOfClose
  DEF SemaphoreStep
<1> QED
  BY <1>1, AccountsOfThreads, AccountsOfSleep, AccountsOfTimer, AccountsOfResume,
     AccountsOfStutter DEF Next, UserStep, KernelStep, Stopped

LEMMA InitAccounts == Init => Accounts
<1> SUFFICES ASSUME Init, NEW s \in Sems PROVE Account(s)
  BY AccountsOpen
<1>1. /\ val[s] = 0 /\ owed[s] = 0 /\ blockedQueue[s] = <<>>
      /\ \A t \in Threads : at[t] \in States
  <2>1. \A t \in Threads : at[t] \in {"main", "fresh", "none"}
    BY DEF Init, DispatcherInit, AllThreads
  <2> QED
    BY <2>1 DEF Init, SemaphoresInit, States
<1>2. Granted(s) = {}
  BY <1>1, PeopleFacts DEF Granted
<1>3. Cardinality(Granted(s)) = 0 /\ Len(blockedQueue[s]) = 0
  BY <1>1, <1>2, FS_EmptySet, EmptyQueue
<1> QED
  BY <1>1, <1>3 DEF Account, Balanced

LEMMA AccountsHold == Spec => []Accounts
  BY InitAccounts, NextAccounts, Invariance, PTL DEF Spec

(* Sem::wait and Sem::signal keep the counter of a semaphore and its queue *)
(* in step: below 0 the counter says how many wait, and otherwise none do. *)
THEOREM WaitersAgree == Spec => []WaitersCounted
<1>1. Accounts => WaitersCounted
  BY DEF Accounts
<1> QED
  BY <1>1, AccountsHold, PTL

(* Between a signal and the return of the wait it wakes a permit is with    *)
(* the waiter that is ready; close apart, none is lost or given twice.     *)
THEOREM PermitsKept == Spec => []PermitsAccounted
<1>1. Accounts => PermitsAccounted
  BY DEF Accounts
<1> QED
  BY <1>1, AccountsHold, PTL

-----------------------------------------------------------------------------
(* Who was waiting when the semaphore was closed. *)

(* A waiter that a close has woken is still in its wait, and the semaphore  *)
(* stays closed.                                                           *)
ReleasedWait ==
  /\ answer \in {0, -1}
  /\ released \subseteq Threads
  /\ \A t \in released : at[t] \in Sems /\ interrupted[at[t]]

LEMMA InitReleased == Init => ReleasedWait
  BY DEF Init, SemaphoresInit, ReleasedWait

(* No step but a return from wait moves a thread that is in one.            *)
LEMMA OthersStayInWait ==
  ASSUME IInv, [Next]_vars, ~\E s \in Sems : ResumeWait(s),
         NEW t \in Threads, at[t] \in Sems
  PROVE  at'[t] = at[t]
<1>1. /\ at \in [AllThreads -> Places] /\ t \in AllThreads /\ t # Idle
      /\ at[t] \notin States
  BY PeopleFacts DEF IInv, Shapes, AllThreads, People
<1>2. {"none", "created", "fresh", "user", "main", "yield", "sleep", "timer", "returned"} \subseteq States
  BY DEF States
<1>3. ASSUME NEW place, at[running] \in States, at' = [at EXCEPT ![running] = place]
      PROVE  at'[t] = at[t]
  BY <1>1, <1>3
<1>4. CASE ThreadStep
  <2>1. ASSUME NEW u \in Threads, Create(u) \/ CreateOnly(u) \/ Start(u)
        PROVE  at'[t] = at[t]
    BY <1>1, <1>2, <2>1 DEF Create, CreateOnly, Start
  <2>2. CASE Yield \/ Exit
    BY <1>2, <1>3, <2>2 DEF Yield, Exit, InUser, Dispatch
  <2> QED
    BY <1>4, <2>1, <2>2 DEF ThreadStep
<1>5. CASE UserMainReturns \/ BodyStep \/ Device \/ UNCHANGED vars
  BY <1>5 DEF UserMainReturns, BodyStep, BodyReturns, Device, TimerSets, Tick, vars, threadVars
<1>6. CASE SemaphoreStep
  BY <1>2, <1>3, <1>6 DEF SemaphoreStep, Open, WaitPasses, WaitBlocks, Signal, Close, InUser,
     Dispatch, threadVars
<1>7. CASE SleepStep
  BY <1>2, <1>3, <1>7 DEF SleepStep, Sleep, SleepYields, InUser, Dispatch
<1>8. CASE ResumeStep
  BY <1>2, <1>3, <1>8 DEF ResumeStep, StartBody, ResumeYield, ResumeSleep, ResumeTimer, Resume
<1>9. CASE TimerStep
  BY <1>2, <1>3, <1>9 DEF TimerStep, TimerTick, TimerPreempt, TimerInterrupt, Dispatch
<1>10. CASE MainYields
  BY <1>2, <1>3, <1>10 DEF MainYields, Dispatch
<1>11. CASE MainReturns
  <2>1. at' = [at EXCEPT ![Main] = "returned"] /\ t # Main
    BY <1>11, PeopleFacts DEF MainReturns
  <2> QED
    BY <1>1, <2>1
<1> QED
  BY <1>4, <1>5, <1>6, <1>7, <1>8, <1>9, <1>10, <1>11 DEF Next, UserStep, KernelStep, Stopped

LEMMA NextReleased == IInv /\ ReleasedWait /\ [Next]_vars => ReleasedWait'
<1> SUFFICES ASSUME IInv, ReleasedWait, [Next]_vars PROVE ReleasedWait'
  OBVIOUS
<1>1. /\ interrupted \in [Sems -> BOOLEAN] /\ at \in [AllThreads -> Places]
      /\ Threads \subseteq AllThreads
  BY DEF IInv, Shapes, AllThreads
<1>2. ASSUME NEW s \in Sems, ResumeWait(s) PROVE ReleasedWait'
  <2>1. /\ released' = released \ {running} /\ interrupted' = interrupted
        /\ answer' \in {0, -1} /\ at' = [at EXCEPT ![running] = "user"]
    BY <1>2 DEF ResumeWait, Answer, Resume
  <2> QED
    BY <1>1, <2>1 DEF ReleasedWait
<1>3. CASE ~\E s \in Sems : ResumeWait(s)
  <2>1. \A t \in Threads : at[t] \in Sems => at'[t] = at[t]
    BY <1>3, OthersStayInWait
  <2>2. ASSUME NEW s \in Sems, Close(s) PROVE ReleasedWait'
    <3>1. /\ released' = released \cup WaitersOf(s) /\ answer' = answer
          /\ interrupted' = [interrupted EXCEPT ![s] = TRUE]
      BY <2>2 DEF Close, WaitersOf, ToSet
    <3>2. \A t \in WaitersOf(s) : t \in Threads /\ at[t] = s
      BY StateFacts DEF IInv, WaitInPlace
    <3> QED
      BY <1>1, <2>1, <3>1, <3>2 DEF ReleasedWait
  <2>3. ASSUME released' = released, interrupted' = interrupted, answer' \in {0, -1}
        PROVE  ReleasedWait'
    BY <2>1, <2>3 DEF ReleasedWait
  <2>4. CASE SemaphoreStep
    BY <2>2, <2>3, <2>4 DEF SemaphoreStep, Open, WaitPasses, WaitBlocks, Signal, Answer,
       ReleasedWait
  <2>5. CASE ~SemaphoreStep
    BY <1>3, <2>3, <2>5 DEF Next, UserStep, UserMainReturns, ThreadStep, BodyStep, SleepStep,
       KernelStep, ResumeStep, TimerStep, MainYields, MainReturns, Device, Stopped, vars, semVars,
       ReleasedWait
  <2> QED
    BY <2>4, <2>5
<1> QED
  BY <1>2, <1>3

LEMMA ReleasedHold == Spec => []ReleasedWait
  BY InitReleased, NextReleased, Invariance, PTL DEF Spec

(* Sem::wait reads interrupted after it has run again: a thread that was    *)
(* waiting when the semaphore was closed cannot get 0 from its wait.       *)
THEOREM ClosedWaitsFail == Spec => ClosedWaitersFail
<1>1. ReleasedWait /\ [Next]_vars =>
        \A t \in released \ released' : running = t /\ answer' = -1
  <2> SUFFICES ASSUME ReleasedWait, [Next]_vars, NEW t \in released \ released'
               PROVE  running = t /\ answer' = -1
    OBVIOUS
  <2>1. PICK s \in Sems : ResumeWait(s)
    BY DEF Next, UserStep, UserMainReturns, ThreadStep, BodyStep, SemaphoreStep, SleepStep,
       KernelStep, ResumeStep, TimerStep, MainYields, MainReturns, Device, Stopped, Open,
       WaitPasses, WaitBlocks, Signal, Close, vars, semVars
  <2>2. running = t /\ at[t] = s
    BY <2>1 DEF ResumeWait, Resume
  <2> QED
    BY <2>1, <2>2 DEF ReleasedWait, ResumeWait, Answer
<1>2. ReleasedWait /\ [Next]_vars =>
        [\A t \in released \ released' : running = t /\ answer' = -1]_vars
  BY <1>1
<1> QED
  BY <1>2, ReleasedHold, PTL DEF Spec, ClosedWaitersFail

-----------------------------------------------------------------------------
(* The variables stay in the ranges of the fields they stand for: in       *)
(* particular the time a sleeper has left never leaves time_t.             *)
THEOREM TypeCorrect == Spec => []TypeOK
<1>1. IInv /\ Accounts /\ ReleasedWait => TypeOK
  <2> SUFFICES ASSUME IInv, Accounts, ReleasedWait PROVE TypeOK
    OBVIOUS
  <2>1. owed \in [Sems -> Nat]
    BY DEF IInv, Shapes, Accounts
  <2>2. ready \in Seq(AllThreads)
    <3>1. ready \in Seq(People)
      BY DEF IInv, Shapes
    <3>2. People \subseteq AllThreads
      BY DEF People, AllThreads
    <3> QED
      BY <3>1, <3>2, QueueOfMore
  <2> QED
    BY <2>1, <2>2 DEF IInv, Shapes, ReleasedWait, TypeOK, Pairs
<1> QED
  BY <1>1, AccountsHold, ReleasedHold, Invariance, PTL

-----------------------------------------------------------------------------
(* One place for each thread. *)

LEMMA CountOnce ==
  ASSUME NEW S, NEW q \in Seq(S), IsInjective(q), NEW t
  PROVE  CountIn(t, q) = IF t \in ToSet(q) THEN 1 ELSE 0
<1>1. DOMAIN q = 1 .. Len(q) /\ \A i, j \in 1 .. Len(q) : q[i] = q[j] => i = j
  BY LenProperties, QueueOnce
<1>2. CASE t \in ToSet(q)
  <2>1. PICK i \in 1 .. Len(q) : q[i] = t
    BY <1>2, QueueMembers
  <2>2. {j \in DOMAIN q : q[j] = t} = {i}
    BY <1>1, <2>1
  <2> QED
    BY <1>2, <2>2, FS_Singleton DEF CountIn
<1>3. CASE t \notin ToSet(q)
  <2>1. {j \in DOMAIN q : q[j] = t} = {}
    BY <1>1, <1>3, QueueMembers
  <2> QED
    BY <1>3, <2>1, FS_EmptySet DEF CountIn
<1> QED
  BY <1>2, <1>3

LEMMA CountSleeps ==
  ASSUME IInv, NEW t
  PROVE  InSleep(t) = IF t \in Resting THEN 1 ELSE 0
<1> DEFINE q == Names(sleepingQueue)
<1>1. /\ q \in Seq(Threads) /\ IsInjective(q) /\ Len(q) = Len(sleepingQueue)
      /\ DOMAIN sleepingQueue = 1 .. Len(sleepingQueue)
      /\ \A i \in 1 .. Len(sleepingQueue) : q[i] = sleepingQueue[i].tcb
  BY NamesFacts DEF IInv, Shapes, StandOnce
<1>2. CountIn(t, q) = IF t \in ToSet(q) THEN 1 ELSE 0
  BY <1>1, CountOnce
<1>3. DOMAIN q = DOMAIN sleepingQueue
  BY DEF Names
<1> HIDE DEF q
<1>4. {i \in DOMAIN q : q[i] = t} = {i \in DOMAIN sleepingQueue : sleepingQueue[i].tcb = t}
  BY <1>1, <1>3
<1> QED
  BY <1>2, <1>4 DEF InSleep, CountIn, Resting, q

LEMMA CountWaits ==
  ASSUME IInv, NEW t
  PROVE  InWaiters(t) = IF \E s \in Sems : t \in WaitersOf(s) THEN 1 ELSE 0
<1> DEFINE Here(s) == {j \in DOMAIN blockedQueue[s] : blockedQueue[s][j] = t}
           All     == UNION {{<<s, i>> : i \in Here(s)} : s \in Sems}
<1>1. ASSUME NEW s \in Sems
      PROVE  /\ t \notin WaitersOf(s) => Here(s) = {}
             /\ t \in WaitersOf(s) => \E i : Here(s) = {i}
  <2> DEFINE q == blockedQueue[s]
  <2>1. q \in Seq(Threads) /\ IsInjective(q)
    BY DEF IInv, Shapes, StandOnce
  <2> HIDE DEF q
  <2>2. DOMAIN q = 1 .. Len(q) /\ \A i, j \in 1 .. Len(q) : q[i] = q[j] => i = j
    BY <2>1, LenProperties, QueueOnce
  <2>3. t \in ToSet(q) => \E i \in 1 .. Len(q) : {j \in DOMAIN q : q[j] = t} = {i}
    <3> SUFFICES ASSUME t \in ToSet(q)
                 PROVE  \E i \in 1 .. Len(q) : {j \in DOMAIN q : q[j] = t} = {i}
      OBVIOUS
    <3>1. PICK i \in 1 .. Len(q) : q[i] = t
      BY <2>1, QueueMembers
    <3>2. {j \in DOMAIN q : q[j] = t} = {i}
      BY <2>2, <3>1
    <3> QED
      BY <3>2
  <2>4. t \notin ToSet(q) => {j \in DOMAIN q : q[j] = t} = {}
    BY <2>1, <2>2, QueueMembers
  <2> QED
    BY <2>3, <2>4 DEF WaitersOf, q
<1>2. InWaiters(t) = Cardinality(All)
  BY DEF InWaiters
<1> HIDE DEF Here
<1>3. CASE \E s \in Sems : t \in WaitersOf(s)
  <2>1. PICK s \in Sems : t \in WaitersOf(s)
    BY <1>3
  <2>2. PICK i : Here(s) = {i}
    BY <1>1, <2>1
  <2>3. \A r \in Sems \ {s} : Here(r) = {}
    BY <1>1, <2>1 DEF IInv, WaitInPlace
  <2>4. All = {<<s, i>>}
    BY <2>2, <2>3
  <2> HIDE DEF All
  <2> QED
    BY <1>2, <1>3, <2>4, FS_Singleton
<1>4. CASE ~\E s \in Sems : t \in WaitersOf(s)
  <2>1. All = {}
    BY <1>1, <1>4
  <2> HIDE DEF All
  <2> QED
    BY <1>2, <1>4, <2>1, FS_EmptySet
<1> QED
  BY <1>3, <1>4

(* Whatever TCB::dispatch, the semaphores, TCB::sleep and the timer do in   *)
(* turn, each thread that has started and is not over stands in one queue, *)
(* once, or runs: it is neither lost nor run twice.                        *)
THEOREM ThreadsInOnePlace == Spec => []OnePlace
<1>1. ASSUME IInv, NEW t \in People
      PROVE  /\ InReady(t) + InWaiters(t) + InSleep(t) + OnProcessor(t) =
                  IF at[t] \in {"none", "created"} \/ (finished[t] /\ running # t) THEN 0 ELSE 1
             /\ blocked[t] <=> InWaiters(t) + InSleep(t) = 1
  <2>1. /\ InReady(t) = IF t \in ReadyOnes THEN 1 ELSE 0
        /\ InSleep(t) = IF t \in Resting THEN 1 ELSE 0
        /\ InWaiters(t) = IF \E s \in Sems : t \in WaitersOf(s) THEN 1 ELSE 0
        /\ OnProcessor(t) = IF running = t THEN 1 ELSE 0
    BY <1>1, CountOnce, CountSleeps, CountWaits
    DEF InReady, ReadyOnes, OnProcessor, IInv, Shapes, StandOnce
  <2>2. blocked[t] <=> t \in Resting \/ \E s \in Sems : t \in WaitersOf(s)
    BY <1>1 DEF IInv, BlockedWait
  <2>3. ~(t \in Resting /\ \E s \in Sems : t \in WaitersOf(s))
    BY <1>1, PeopleFacts DEF IInv, WaitInPlace, States
  <2>4. /\ t = running => t \notin ReadyOnes /\ ~blocked[t]
        /\ t \in ReadyOnes => ~blocked[t]
    BY <1>1 DEF IInv, ReadyApart
  <2>5. ~(at[t] \in {"none", "created"} \/ (finished[t] /\ running # t)) <=>
          t = running \/ t \in ReadyOnes \/ blocked[t]
    BY <1>1 DEF IInv, ActiveSomewhere, Active
  <2> DEFINE w == \E s \in Sems : t \in WaitersOf(s)
             over == at[t] \in {"none", "created"} \/ (finished[t] /\ running # t)
  <2> HIDE DEF w, over
  <2>6. /\ InReady(t) = IF t \in ReadyOnes THEN 1 ELSE 0
        /\ InSleep(t) = IF t \in Resting THEN 1 ELSE 0
        /\ InWaiters(t) = IF w THEN 1 ELSE 0
        /\ OnProcessor(t) = IF running = t THEN 1 ELSE 0
    BY <2>1 DEF w
  <2>7. (blocked[t] <=> t \in Resting \/ w) /\ ~(t \in Resting /\ w)
    BY <2>2, <2>3 DEF w
  <2>8. ~over <=> t = running \/ t \in ReadyOnes \/ blocked[t]
    BY <2>5 DEF over
  <2>9. /\ InReady(t) + InWaiters(t) + InSleep(t) + OnProcessor(t) = IF over THEN 0 ELSE 1
        /\ blocked[t] <=> InWaiters(t) + InSleep(t) = 1
    BY <2>4, <2>6, <2>7, <2>8
  <2> QED
    BY <2>9 DEF over
<1>2. IInv => OnePlace
  BY <1>1 DEF OnePlace, People
<1> QED
  BY <1>2, Invariance, PTL

-----------------------------------------------------------------------------
(* First come, first served. *)

(* m is q with others put behind it. *)
Prolongs(q, m) == Len(q) <= Len(m) /\ \A i \in 1 .. Len(q) : m[i] = q[i]

LEMMA ProlongedQueue ==
  ASSUME NEW S, NEW q \in Seq(S), NEW p \in Seq(S), NEW x \in S
  PROVE  Prolongs(q, q) /\ Prolongs(q, q \o p) /\ Prolongs(q, Append(q, x))
<1>1. Len(q) \in Nat /\ Len(p) \in Nat
  BY LenProperties
<1>2. Prolongs(q, q)
  BY <1>1 DEF Prolongs
<1>3. \A r \in Seq(S) : Prolongs(q, q \o r)
  <2> SUFFICES ASSUME NEW r \in Seq(S) PROVE Prolongs(q, q \o r)
    OBVIOUS
  <2> DEFINE m == q \o r
  <2>1. /\ Len(m) = Len(q) + Len(r) /\ Len(r) \in Nat
        /\ \A i \in 1 .. Len(q) + Len(r) : m[i] = IF i <= Len(q) THEN q[i] ELSE r[i - Len(q)]
    BY ConcatProperties, LenProperties
  <2> HIDE DEF m
  <2>2. Len(q) <= Len(m) /\ \A i \in 1 .. Len(q) : m[i] = q[i]
    BY <1>1, <2>1
  <2> QED
    BY <2>2 DEF Prolongs, m
<1>4. Append(q, x) = q \o <<x>> /\ <<x>> \in Seq(S)
  BY AppendIsConcat, OneInQueue
<1> QED
  BY <1>2, <1>3, <1>4

LEMMA ProlongedTwice ==
  ASSUME NEW S, NEW q \in Seq(S), NEW m \in Seq(S), NEW r \in Seq(S),
         Prolongs(q, m), Prolongs(m, r)
  PROVE  Prolongs(q, r)
<1>1. Len(q) \in Nat /\ Len(m) \in Nat /\ Len(r) \in Nat
  BY LenProperties
<1> QED
  BY <1>1 DEF Prolongs

LEMMA OrderKept ==
  ASSUME NEW S, NEW q \in Seq(S), NEW m \in Seq(S), Prolongs(q, m), IsInjective(m)
  PROVE  KeepsOrder(q, m) /\ (m # <<>> => KeepsOrder(q, Tail(m)))
<1>1. /\ Len(q) \in Nat /\ Len(m) \in Nat /\ DOMAIN q = 1 .. Len(q) /\ DOMAIN m = 1 .. Len(m)
      /\ \A i, j \in 1 .. Len(m) : m[i] = m[j] => i = j
  BY LenProperties, QueueOnce
<1>2. ASSUME NEW t, NEW u, CountIn(u, q) > 0,
             NEW i \in 1 .. Len(m), NEW j \in 1 .. Len(m), i < j, m[i] = t, m[j] = u
      PROVE  Before(t, u, q)
  <2>1. PICK k \in 1 .. Len(q) : q[k] = u
    <3>1. CASE {n \in DOMAIN q : q[n] = u} = {}
      <4>1. CountIn(u, q) = 0
        BY <3>1, FS_EmptySet DEF CountIn
      <4> QED
        BY <1>2, <4>1
    <3>2. CASE {n \in DOMAIN q : q[n] = u} # {}
      BY <1>1, <3>2
    <3> QED
      BY <3>1, <3>2
  <2>2. k \in 1 .. Len(m) /\ m[k] = u
    BY <1>1, <2>1 DEF Prolongs
  <2>3. j = k
    BY <1>1, <1>2, <2>2
  <2>4. i \in 1 .. Len(q) /\ q[i] = t
    BY <1>1, <1>2, <2>3 DEF Prolongs
  <2> QED
    BY <1>1, <1>2, <2>1, <2>3, <2>4 DEF Before
<1>3. KeepsOrder(q, m)
  BY <1>1, <1>2 DEF KeepsOrder, Before
<1>4. ASSUME m # <<>> PROVE KeepsOrder(q, Tail(m))
  <2> DEFINE r == Tail(m)
  <2>1. /\ r \in Seq(S) /\ Len(r) = Len(m) - 1 /\ \A i \in 1 .. Len(r) : r[i] = m[i + 1]
    BY <1>4, HeadTailProperties
  <2>2. DOMAIN r = 1 .. Len(r)
    BY <2>1, LenProperties
  <2> HIDE DEF r
  <2>3. ASSUME NEW t, NEW u, CountIn(u, q) > 0,
               NEW i \in 1 .. Len(r), NEW j \in 1 .. Len(r), i < j, r[i] = t, r[j] = u
        PROVE  Before(t, u, q)
    <3>1. /\ i + 1 \in 1 .. Len(m) /\ j + 1 \in 1 .. Len(m) /\ i + 1 < j + 1
          /\ m[i + 1] = t /\ m[j + 1] = u
      BY <1>1, <2>1, <2>3
    <3> QED
      BY <1>2, <2>3, <3>1
  <2> QED
    BY <2>2, <2>3 DEF KeepsOrder, Before, r
<1> QED
  BY <1>3, <1>4

LEMMA OrderOfNone ==
  ASSUME NEW q PROVE KeepsOrder(q, <<>>) /\ KeepsOrder(q, q)
<1>1. DOMAIN <<>> = {}
  OBVIOUS
<1> QED
  BY <1>1 DEF KeepsOrder, Before

(* The ready queue after a switch from q. *)
LEMMA SwitchOrder ==
  ASSUME Shapes, NEW q \in Seq(People), IsInjective(q), running \notin ToSet(q),
         NEW place, Dispatch(q, place), Prolongs(ready, q)
  PROVE  KeepsOrder(ready, ready')
<1>1. /\ PutBack(q) \in Seq(People) /\ IsInjective(PutBack(q))
      /\ q # <<>> => PutBack(q) # <<>>
  BY PutBackFacts
<1>2. Prolongs(q, PutBack(q))
  <2>1. CASE Stays
    <3>1. PutBack(q) = Append(q, running) /\ running \in People
      BY <2>1, PeopleFacts DEF Stays, PutBack, Shapes
    <3> QED
      BY <3>1, EmptyQueue, ProlongedQueue
  <2>2. CASE ~Stays
    <3>1. PutBack(q) = q
      BY <2>2 DEF Stays, PutBack
    <3>2. Len(q) \in Nat
      BY LenProperties
    <3> QED
      BY <3>1, <3>2 DEF Prolongs
  <2> QED
    BY <2>1, <2>2
<1>3. ready \in Seq(People)
  BY DEF Shapes
<1>4. Prolongs(ready, PutBack(q))
  BY <1>1, <1>2, <1>3, ProlongedTwice
<1>5. KeepsOrder(ready, PutBack(q)) /\ (PutBack(q) # <<>> => KeepsOrder(ready, Tail(PutBack(q))))
  BY <1>1, <1>3, <1>4, OrderKept
<1>6. ready' = PutBack(q) \/ (PutBack(q) # <<>> /\ ready' = Tail(PutBack(q)))
  BY <1>1 DEF Dispatch
<1> QED
  BY <1>5, <1>6

LEMMA ReadyInOrder ==
  ASSUME IInv, IInv', [Next]_vars
  PROVE  KeepsOrder(ready, ready')
<1>1. /\ Shapes /\ running \notin ReadyOnes /\ ready \in Seq(People) /\ IsInjective(ready)
  BY RunningFacts
<1>2. ready' \in Seq(People) /\ IsInjective(ready')
  BY DEF IInv, Shapes, StandOnce
<1>3. ASSUME Prolongs(ready, ready') PROVE KeepsOrder(ready, ready')
  BY <1>1, <1>2, <1>3, OrderKept
<1>4. ASSUME NEW t, ready' = Append(ready, t), t \in People PROVE KeepsOrder(ready, ready')
  BY <1>1, <1>3, <1>4, EmptyQueue, ProlongedQueue
<1>5. ASSUME NEW p, p \in Seq(People), ready' = ready \o p PROVE KeepsOrder(ready, ready')
  <2>1. Main \in People
    BY DEF People
  <2> QED
    BY <1>1, <1>3, <1>5, <2>1, ProlongedQueue
<1>6. ASSUME NEW place, Dispatch(ready, place) PROVE KeepsOrder(ready, ready')
  <2>1. Prolongs(ready, ready)
    BY <1>1, LenProperties DEF Prolongs
  <2> QED
    BY <1>1, <1>6, <2>1, SwitchOrder DEF ReadyOnes
<1>7. ASSUME ready' = ready PROVE KeepsOrder(ready, ready')
  BY <1>7, OrderOfNone
<1>8. CASE ThreadStep
  BY <1>4, <1>6, <1>7, <1>8 DEF ThreadStep, Yield, Exit, Create, CreateOnly, Start, People
<1>9. CASE UserMainReturns \/ BodyStep \/ MainReturns \/ Device \/ ResumeStep \/ UNCHANGED vars
  BY <1>7, <1>9 DEF UserMainReturns, BodyStep, BodyReturns, MainReturns, Device, TimerSets, Tick, ResumeStep,
     StartBody, ResumeYield, ResumeWait, ResumeSleep, ResumeTimer, Resume, vars, threadVars
<1>10. CASE SleepStep \/ MainYields
  BY <1>6, <1>10 DEF SleepStep, Sleep, SleepYields, MainYields
<1>11. ASSUME NEW s \in Sems, Signal(s) PROVE KeepsOrder(ready, ready')
  <2>1. CASE Wakes(s)
    <3>1. blockedQueue[s] \in Seq(Threads) /\ blockedQueue[s] # <<>>
      BY <2>1 DEF Wakes, IInv, Shapes
    <3>2. Head(blockedQueue[s]) \in People
      BY <3>1, TakenFromQueue DEF People
    <3>3. ready' = Append(ready, Head(blockedQueue[s]))
      BY <1>11, <2>1 DEF Signal
    <3> QED
      BY <1>4, <3>2, <3>3
  <2>2. CASE ~Wakes(s)
    BY <1>7, <1>11, <2>2 DEF Signal
  <2> QED
    BY <2>1, <2>2
<1>12. ASSUME NEW s \in Sems, Close(s) PROVE KeepsOrder(ready, ready')
  <2>1. blockedQueue[s] \in Seq(Threads) /\ ready' = ready \o blockedQueue[s]
    BY <1>12 DEF Close, IInv, Shapes
  <2>2. blockedQueue[s] \in Seq(People)
    <3>1. \A p \in Seq(Threads) : p \in Seq(People)
      BY QueueOfMore DEF People
    <3> QED
      BY <2>1, <3>1
  <2> QED
    BY <1>5, <2>1, <2>2
<1>13. CASE SemaphoreStep
  BY <1>6, <1>7, <1>11, <1>12, <1>13
  DEF SemaphoreStep, Open, WaitPasses, WaitBlocks, threadVars
<1>14. CASE TimerStep
  <2> DEFINE c == Counted(sleepingQueue)
             q == WithWoken(c)
  <2>1. TimerInterrupt
    BY <1>14 DEF TimerStep, TimerTick, TimerPreempt
  <2>2. /\ q \in Seq(People) /\ IsInjective(q) /\ ToSet(q) = ReadyOnes \cup WokenOnes
        /\ \A t \in WokenOnes : t # running
    BY <2>1, TimerFacts
  <2>3. running \notin ToSet(q)
    <3> HIDE DEF q
    <3> QED
      BY <1>1, <2>2
  <2>4. Woken(c) \in Seq(People) /\ q = ready \o Woken(c)
    <3>1. sleepingQueue \in Seq(Pairs)
      BY DEF IInv, Shapes
    <3>2. Woken(c) \in Seq(Threads)
      BY <3>1, CountedFacts, WokenFacts
    <3>3. \A p \in Seq(Threads) : p \in Seq(People)
      BY QueueOfMore DEF People
    <3>4. Woken(c) \in Seq(People)
      BY <3>2, <3>3
    <3> QED
      BY <3>4 DEF WithWoken, Woken
  <2>5. Prolongs(ready, q)
    <3>1. Main \in People
      BY DEF People
    <3>2. \A p \in Seq(People) : Prolongs(ready, ready \o p)
      BY <1>1, <3>1, ProlongedQueue
    <3> HIDE DEF c, q
    <3> QED
      BY <2>4, <3>2
  <2>6. ready' = q \/ Dispatch(q, "timer")
    BY <1>14 DEF TimerStep, TimerTick, TimerPreempt
  <2> HIDE DEF c, q
  <2> QED
    BY <1>1, <1>3, <2>2, <2>3, <2>5, <2>6, SwitchOrder
<1> QED
  BY <1>8, <1>9, <1>10, <1>13, <1>14 DEF Next, UserStep, KernelStep, Stopped

LEMMA WaitersInOrder ==
  ASSUME IInv, IInv', [Next]_vars, NEW s \in Sems
  PROVE  KeepsOrder(blockedQueue[s], blockedQueue'[s])
<1>1. /\ blockedQueue \in [Sems -> Seq(Threads)] /\ IsInjective(blockedQueue[s])
      /\ blockedQueue'[s] \in Seq(Threads) /\ IsInjective(blockedQueue'[s])
  BY DEF IInv, Shapes, StandOnce
<1>2. ASSUME blockedQueue'[s] = blockedQueue[s]
      PROVE  KeepsOrder(blockedQueue[s], blockedQueue'[s])
  BY <1>2, OrderOfNone
<1>3. ASSUME NEW r \in Sems, WaitBlocks(r)
      PROVE  KeepsOrder(blockedQueue[s], blockedQueue'[s])
  <2>1. blockedQueue' = [blockedQueue EXCEPT ![r] = Append(blockedQueue[r], running)]
    BY <1>3 DEF WaitBlocks
  <2>2. CASE r = s
    <3>1. running \in Threads
      BY <1>3, UserIsThread DEF IInv, WaitBlocks, InUser
    <3>2. blockedQueue'[s] = Append(blockedQueue[s], running)
      BY <1>1, <2>1, <2>2
    <3>3. Prolongs(blockedQueue[s], blockedQueue'[s])
      BY <1>1, <3>1, <3>2, EmptyQueue, ProlongedQueue
    <3> QED
      BY <1>1, <3>3, OrderKept
  <2>3. CASE r # s
    BY <1>1, <1>2, <2>1, <2>3
  <2> QED
    BY <2>2, <2>3
<1>4. ASSUME NEW r \in Sems, Signal(r)
      PROVE  KeepsOrder(blockedQueue[s], blockedQueue'[s])
  <2>1. CASE r = s /\ Wakes(r)
    <3>1. blockedQueue'[s] = Tail(blockedQueue[s]) /\ blockedQueue[s] # <<>>
      BY <1>1, <1>4, <2>1 DEF Signal, Wakes
    <3>2. Prolongs(blockedQueue[s], blockedQueue[s])
      BY <1>1, LenProperties DEF Prolongs
    <3> QED
      BY <1>1, <3>1, <3>2, OrderKept
  <2>2. CASE ~(r = s /\ Wakes(r))
    BY <1>1, <1>2, <1>4, <2>2 DEF Signal
  <2> QED
    BY <2>1, <2>2
<1>5. ASSUME NEW r \in Sems, Close(r)
      PROVE  KeepsOrder(blockedQueue[s], blockedQueue'[s])
  <2>1. blockedQueue'[s] = IF r = s THEN <<>> ELSE blockedQueue[s]
    BY <1>1, <1>5 DEF Close
  <2> QED
    BY <2>1, OrderOfNone
<1>6. CASE SemaphoreStep
  BY <1>2, <1>3, <1>4, <1>5, <1>6 DEF SemaphoreStep, Open, WaitPasses
<1>7. CASE ~SemaphoreStep
  BY <1>2, <1>7 DEF Next, UserStep, UserMainReturns, ThreadStep, BodyStep, SleepStep, KernelStep, ResumeStep,
     TimerStep, MainYields, MainReturns, Device, Stopped, ResumeWait, vars, semVars
<1> QED
  BY <1>6, <1>7

(* Scheduler::get takes the first, Scheduler::put adds behind the last, and *)
(* signal wakes the first waiter: nobody overtakes, in the ready queue or  *)
(* in the queue of a semaphore.                                            *)
THEOREM FirstComeFirstServed == Spec => NoOvertaking
<1>1. IInv /\ IInv' /\ [Next]_vars =>
        [/\ KeepsOrder(ready, ready')
         /\ \A s \in Sems : KeepsOrder(blockedQueue[s], blockedQueue'[s])]_vars
  BY ReadyInOrder, WaitersInOrder
<1> QED
  BY <1>1, Invariance, PTL DEF Spec, NoOvertaking

-----------------------------------------------------------------------------
(* The promise of time_sleep. *)

LEMMA AlarmsOfSleepers == SleepTimes = AlarmsOf(sleepingQueue)
  BY DEF SleepTimes, AlarmsOf

LEMMA NextAlarmsOfSleepers == SleepTimes' = AlarmsOf(sleepingQueue')
  BY DEF SleepTimes, AlarmsOf

(* A sleep sets an alarm.                                                  *)
LEMMA SleepSets ==
  ASSUME IInv, NEW n \in Times, Sleep(n)
  PROVE  AlarmClock!Set(running, n) /\ running \in Threads
<1>1. /\ sleepingQueue \in Seq(Pairs) /\ IsInjective(Names(sleepingQueue))
      /\ n \in 0 .. Word - 1
      /\ sleepingQueue' = Insert(sleepingQueue, running, n)
  BY TimesAssumption DEF IInv, Shapes, StandOnce, Sleep
<1>2. running \in Threads /\ running \notin ToSet(Names(sleepingQueue))
  <2>1. running \in Threads
    BY UserIsThread DEF Sleep, InUser, IInv
  <2> QED
    BY <2>1, RunningFacts DEF Resting
<1>3. AlarmsOf(Insert(sleepingQueue, running, n)) =
        [u \in DOMAIN AlarmsOf(sleepingQueue) \cup {running} |->
           IF u = running THEN n ELSE AlarmsOf(sleepingQueue)[u]]
  BY <1>1, <1>2, InsertAlarms
<1>4. running \notin DOMAIN AlarmsOf(sleepingQueue)
  BY <1>1, <1>2, AlarmFacts
<1>5. n # 0 \/ DOMAIN AlarmsOf(sleepingQueue) = {}
  <2>1. n # 0 \/ sleepingQueue = <<>>
    BY DEF Sleep
  <2>2. sleepingQueue = <<>> => DOMAIN AlarmsOf(sleepingQueue) = {}
    BY DEF AlarmsOf
  <2> QED
    BY <2>1, <2>2
<1>6. SleepTimes' = AlarmsOf(Insert(sleepingQueue, running, n))
  BY <1>1, NextAlarmsOfSleepers
<1> QED
  BY <1>2, <1>3, <1>4, <1>5, <1>6, AlarmsOfSleepers DEF AlarmClock!Set

(* An interrupt rings, or lets everybody oversleep.                        *)
LEMMA InterruptRings ==
  ASSUME IInv, TimerInterrupt
  PROVE  AlarmClock!Ring \/ AlarmClock!Oversleep
<1> DEFINE q == sleepingQueue
<1>1. q \in Seq(Pairs) /\ IsInjective(Names(q))
  BY DEF IInv, Shapes, StandOnce
<1>2. SleepTimes' = AlarmsOf(Asleep(Counted(q))) /\ SleepTimes = AlarmsOf(q)
  <2>1. sleepingQueue' = Asleep(Counted(q))
    BY DEF TimerInterrupt, WakeSleepers, Asleep
  <2> QED
    BY <2>1, AlarmsOfSleepers, NextAlarmsOfSleepers
<1> HIDE DEF q
<1>3. CASE HeadWaits(q)
  <2>1. AlarmsOf(Asleep(Counted(q))) =
          [u \in {v \in DOMAIN AlarmsOf(q) : AlarmsOf(q)[v] > 1} |-> AlarmsOf(q)[u] - 1]
    BY <1>1, <1>3, InterruptAlarms
  <2>2. \A u \in DOMAIN AlarmsOf(q) : AlarmsOf(q)[u] > 0
    BY <1>1, <1>3, AlarmsWait
  <2> QED
    BY <1>2, <2>1, <2>2 DEF AlarmClock!Ring
<1>4. CASE ~HeadWaits(q)
  <2>1. /\ \E u \in DOMAIN AlarmsOf(q) : AlarmsOf(q)[u] = 0
        /\ AlarmsOf(Asleep(Counted(q))) =
             [u \in DOMAIN AlarmsOf(q) |-> AlarmsOf(q)[u] - 1 + Word]
    BY <1>1, <1>4, InterruptPutsOff
  <2> QED
    BY <1>2, <2>1 DEF AlarmClock!Oversleep
<1> QED
  BY <1>3, <1>4

(* No other step touches the queue of sleepers.                            *)
LEMMA OthersLetSleep ==
  ASSUME [Next]_vars, ~\E n \in Times : Sleep(n), ~TimerInterrupt
  PROVE  sleepingQueue' = sleepingQueue
  BY DEF Next, UserStep, UserMainReturns, ThreadStep, BodyStep, SemaphoreStep, SleepStep,
     KernelStep, ResumeStep, TimerStep, TimerTick, TimerPreempt, MainYields, MainReturns, Device,
     Stopped, SleepYields, ResumeSleep, ResumeTimer, TimerSets, vars, sleepVars

LEMMA NextAlarms == IInv /\ [Next]_vars => [AlarmClock!Next]_SleepTimes
<1> SUFFICES ASSUME IInv, [Next]_vars PROVE [AlarmClock!Next]_SleepTimes
  OBVIOUS
<1>1. ASSUME NEW n \in Times, Sleep(n) PROVE AlarmClock!Next
  <2>1. AlarmClock!Set(running, n) /\ running \in Threads
    BY <1>1, SleepSets
  <2> QED
    BY <2>1 DEF AlarmClock!Next
<1>2. CASE TimerInterrupt
  BY <1>2, InterruptRings DEF AlarmClock!Next
<1>3. CASE sleepingQueue' = sleepingQueue
  BY <1>3 DEF SleepTimes
<1> QED
  BY <1>1, <1>2, <1>3, OthersLetSleep

(* The kernel implements Alarms, whatever times its threads sleep for and   *)
(* however many sleep: TCB::sleep and the handler keep only differences,    *)
(* and this is what they add up to.  Whoever sleeps for n is woken by the   *)
(* n-th timer interrupt the kernel takes, unless a sleep of 0 that found    *)
(* nobody asleep is counted down below 0 in front of it.                   *)
THEOREM SleepersWakeOnTime == Spec => SleepPromise
<1>1. Init => AlarmClock!Init
  <2> SUFFICES ASSUME Init PROVE AlarmClock!Init
    OBVIOUS
  <2>1. sleepingQueue = <<>>
    BY DEF Init, SleepersInit
  <2>2. {sleepingQueue[i].tcb : i \in DOMAIN sleepingQueue} = {}
    BY <2>1
  <2>3. SleepTimes \in [{} -> {}]
    BY <2>2 DEF SleepTimes
  <2> QED
    BY <2>3 DEF AlarmClock!Init
<1>2. IInv /\ [Next]_vars => [AlarmClock!Next]_SleepTimes
  BY NextAlarms
<1> QED
  BY <1>1, <1>2, Invariance, PTL DEF Spec, SleepPromise, AlarmClock!Spec
=============================================================================
