-------------------------- MODULE BuddyListsProofs --------------------------
(***************************************************************************)
(* Proofs about BuddyLists for every number of degrees: the lists climb,   *)
(* and the pointers implement the sets of BuddyAllocator.                  *)
(*                                                                         *)
(* A walk along the pointers is what the loops see, but no walk is needed  *)
(* to say that a list is in order: its head is the first of its blocks,    *)
(* and the next word of each is the first of those above it (Linked).      *)
(* That fixes the walk (LinkedWalk), and each step keeps it.  What the     *)
(* lists hold and that they are disjoint is IInv of BuddyAllocator.        *)
(***************************************************************************)
EXTENDS BuddyLists, Lemmas

Abs == INSTANCE BuddyAllocatorProofs WITH free <- [d \in Degrees |-> On(d)]

(* x is the first, or the last, of a set of blocks; None if it is empty. *)
IsFirst(x, G) == IF G = {} THEN x = None ELSE x \in G /\ \A c \in G : x <= c
IsLast(x, G)  == IF G = {} THEN x = None ELSE x \in G /\ \A c \in G : c <= x

Above(b, G) == {c \in G : b < c}
Below(b, G) == {c \in G : c < b}
From(b, G)  == {c \in G : b <= c}

(* The list that begins at head and goes on by word holds G in order.      *)
Linked(head, word, G) ==
  /\ IsFirst(head, G)
  /\ \A b \in G : IsFirst(word[b], Above(b, G))

(* s is what a walk along the list of G sees. *)
Lists(s, G) ==
  /\ s \in Seq(HeapBlocks \cup {None})
  /\ Len(s) >= 1
  /\ s[Len(s)] = None
  /\ \A i \in 1 .. Len(s) - 1 : s[i] \in G
  /\ \A i, j \in 1 .. Len(s) - 1 : i < j => s[i] < s[j]
  /\ \A g \in G : \E i \in 1 .. Len(s) - 1 : s[i] = g

LEMMA HeapFacts ==
  /\ Top \in Degrees /\ Size[Top] \in Nat /\ Size[Top] >= 1
  /\ HeapBlocks = 0 .. Size[Top] - 1 /\ HeapBlocks \subseteq Nat
  /\ None \notin HeapBlocks
  BY DegreesAssumption, SizeAssumption, NullAssumption DEF Top, Degrees, HeapBlocks

-----------------------------------------------------------------------------
(* Walks. *)

Ends == HeapBlocks \cup {None, Junk}

(* f is the path of Path(word), as far as n steps. *)
Follows(word, n, f) ==
  f = [at \in (0 .. n) \X Ends |->
         IF at[1] = 0 \/ at[2] \notin HeapBlocks THEN <<at[2]>>
         ELSE <<at[2]>> \o f[<<at[1] - 1, word[at[2]]>>]]

LEMMA FollowsAt ==
  ASSUME NEW word, NEW n, NEW f, Follows(word, n, f), NEW i \in 0 .. n, NEW b \in Ends
  PROVE  f[<<i, b>>] = IF i = 0 \/ b \notin HeapBlocks THEN <<b>>
                       ELSE <<b>> \o f[<<i - 1, word[b]>>]
  BY DEF Follows

(* The recursion can be met, so that Path(word) meets it. *)
LEMMA PathSteps ==
  ASSUME NEW word \in [HeapBlocks -> Ends], NEW i \in 0 .. Size[Top], NEW b \in Ends
  PROVE  Path(word)[<<i, b>>] =
           IF i = 0 \/ b \notin HeapBlocks THEN <<b>>
           ELSE <<b>> \o Path(word)[<<i - 1, word[b]>>]
<1> DEFINE N == Size[Top]
           S == {n \in 0 .. N : \E f : Follows(word, n, f)}
<1>1. N \in Nat
  BY HeapFacts
<1>2. 0 \in S
  <2> DEFINE f == [at \in (0 .. 0) \X Ends |-> <<at[2]>>]
  <2>1. Follows(word, 0, f)
    BY DEF Follows
  <2> HIDE DEF f
  <2> QED
    BY <1>1, <2>1
<1>3. \A n \in 0 .. N - 1 : n \in S => n + 1 \in S
  <2> SUFFICES ASSUME NEW n \in 0 .. N - 1, n \in S
               PROVE  n + 1 \in S
    OBVIOUS
  <2>1. PICK f : Follows(word, n, f)
    OBVIOUS
  <2> DEFINE On1(k, c, h) == IF k = 0 \/ c \notin HeapBlocks THEN <<c>>
                             ELSE <<c>> \o h[<<k - 1, word[c]>>]
             g == [at \in (0 .. n + 1) \X Ends |->
                     IF at[1] = n + 1 THEN On1(n + 1, at[2], f) ELSE f[at]]
  <2>2. ASSUME NEW k \in 0 .. n + 1, NEW c \in Ends
        PROVE  g[<<k, c>>] = On1(k, c, g)
    <3>1. g[<<k, c>>] = IF k = n + 1 THEN On1(n + 1, c, f) ELSE f[<<k, c>>]
      OBVIOUS
    <3>2. k # n + 1 => f[<<k, c>>] = On1(k, c, f)
      BY <1>1, <2>1, FollowsAt
    <3>3. k # 0 /\ c \in HeapBlocks => g[<<k - 1, word[c]>>] = f[<<k - 1, word[c]>>]
      <4> SUFFICES ASSUME k # 0, c \in HeapBlocks
                   PROVE  g[<<k - 1, word[c]>>] = f[<<k - 1, word[c]>>]
        OBVIOUS
      <4>1. k - 1 \in 0 .. n + 1 /\ k - 1 # n + 1 /\ word[c] \in Ends
        BY <1>1
      <4> QED
        BY <4>1
    <3> HIDE DEF g
    <3> QED
      BY <3>1, <3>2, <3>3
  <2>3. Follows(word, n + 1, g)
    <3> DEFINE r == [at \in (0 .. n + 1) \X Ends |-> On1(at[1], at[2], g)]
    <3>1. \A at \in (0 .. n + 1) \X Ends : g[at] = r[at]
      <4> SUFFICES ASSUME NEW k \in 0 .. n + 1, NEW c \in Ends
                   PROVE  g[<<k, c>>] = r[<<k, c>>]
        <5> HIDE DEF g, r
        <5> QED
          OBVIOUS
      <4> HIDE DEF g
      <4> QED
        BY <2>2
    <3>2. g = r
      <4>1. DOMAIN g = (0 .. n + 1) \X Ends /\ DOMAIN r = (0 .. n + 1) \X Ends
        OBVIOUS
      <4>2. g = [at \in (0 .. n + 1) \X Ends |-> g[at]] /\ r = [at \in (0 .. n + 1) \X Ends |-> r[at]]
        OBVIOUS
      <4> HIDE DEF g, r
      <4> QED
        BY <3>1, <4>1, <4>2
    <3> HIDE DEF g
    <3> QED
      BY <3>2 DEF Follows
  <2>4. n + 1 \in 0 .. N
    BY <1>1
  <2> HIDE DEF g
  <2> QED
    BY <2>3, <2>4
<1>4. \E f : Follows(word, N, f)
  <2> HIDE DEF S
  <2>1. 0 .. N \subseteq S
    BY <1>1, <1>2, <1>3, ClimbsTo
  <2> QED
    BY <1>1, <2>1 DEF S
<1>5. Path(word) = CHOOSE f : Follows(word, N, f)
  BY DEF Path, Follows, Ends
<1>6. Follows(word, N, Path(word))
  <2> HIDE DEF N
  <2> QED
    BY <1>4, <1>5
<1> QED
  BY <1>6, FollowsAt

-----------------------------------------------------------------------------
(* A list in order and the walk along it. *)

LEMMA ListsNone == Lists(<<None>>, {})
  BY DEF Lists

LEMMA ListsMore ==
  ASSUME NEW G \in SUBSET HeapBlocks, NEW b \in G, NEW s, Lists(s, Above(b, G))
  PROVE  Lists(<<b>> \o s, From(b, G))
<1> DEFINE t == <<b>> \o s
<1>1. /\ b \in Nat /\ G \subseteq Nat
      /\ s \in Seq(HeapBlocks \cup {None}) /\ Len(s) \in Nat /\ Len(s) >= 1
  BY HeapFacts DEF Lists
<1>2. /\ t \in Seq(HeapBlocks \cup {None}) /\ Len(t) = Len(s) + 1
      /\ t[1] = b /\ \A i \in 1 .. Len(s) : t[i + 1] = s[i]
  BY <1>1
<1> HIDE DEF t
<1>3. \A i \in 1 .. Len(t) - 1 : i = 1 \/ (i - 1 \in 1 .. Len(s) - 1 /\ t[i] = s[i - 1])
  <2> SUFFICES ASSUME NEW i \in 1 .. Len(t) - 1, i # 1
               PROVE  i - 1 \in 1 .. Len(s) - 1 /\ t[i] = s[i - 1]
    OBVIOUS
  <2>1. i - 1 \in 1 .. Len(s) - 1 /\ i - 1 \in 1 .. Len(s) /\ (i - 1) + 1 = i
    BY <1>1, <1>2
  <2> QED
    BY <1>2, <2>1
<1>4. \A i \in 1 .. Len(s) - 1 : s[i] \in G /\ b < s[i]
  BY DEF Lists, Above
<1>5. t[Len(t)] = None /\ Len(t) >= 1
  <2>1. Len(s) \in 1 .. Len(s)
    BY <1>1
  <2> QED
    BY <1>1, <1>2, <2>1 DEF Lists
<1>6. \A i \in 1 .. Len(t) - 1 : t[i] \in From(b, G)
  <2> SUFFICES ASSUME NEW i \in 1 .. Len(t) - 1
               PROVE  t[i] \in From(b, G)
    OBVIOUS
  <2>1. CASE i = 1
    BY <1>1, <1>2, <2>1 DEF From
  <2>2. CASE i # 1
    <3>1. t[i] \in G /\ b < t[i]
      BY <1>3, <1>4, <2>2
    <3>2. b \in Nat /\ t[i] \in Nat
      BY <1>1, <3>1
    <3> QED
      BY <3>1, <3>2 DEF From
  <2> QED
    BY <2>1, <2>2
<1>7. \A i, j \in 1 .. Len(t) - 1 : i < j => t[i] < t[j]
  <2> SUFFICES ASSUME NEW i \in 1 .. Len(t) - 1, NEW j \in 1 .. Len(t) - 1, i < j
               PROVE  t[i] < t[j]
    OBVIOUS
  <2>1. j - 1 \in 1 .. Len(s) - 1 /\ t[j] = s[j - 1]
    BY <1>3
  <2>2. CASE i = 1
    BY <1>2, <1>4, <2>1, <2>2
  <2>3. CASE i # 1
    <3>1. i - 1 \in 1 .. Len(s) - 1 /\ t[i] = s[i - 1] /\ i - 1 < j - 1
      BY <1>3, <2>3
    <3> QED
      BY <2>1, <3>1 DEF Lists
  <2> QED
    BY <2>2, <2>3
<1>8. \A g \in From(b, G) : \E i \in 1 .. Len(t) - 1 : t[i] = g
  <2> SUFFICES ASSUME NEW g \in From(b, G)
               PROVE  \E i \in 1 .. Len(t) - 1 : t[i] = g
    OBVIOUS
  <2>1. CASE g = b
    <3>1. 1 \in 1 .. Len(t) - 1
      BY <1>1, <1>2
    <3> QED
      BY <1>2, <2>1, <3>1
  <2>2. CASE g # b
    <3>1. g \in Above(b, G)
      BY <1>1, <2>2 DEF From, Above
    <3>2. PICK i \in 1 .. Len(s) - 1 : s[i] = g
      BY <3>1 DEF Lists
    <3>3. i + 1 \in 1 .. Len(t) - 1 /\ i \in 1 .. Len(s)
      BY <1>1, <1>2
    <3> QED
      BY <1>2, <3>2, <3>3
  <2> QED
    BY <2>1, <2>2
<1> QED
  BY <1>2, <1>5, <1>6, <1>7, <1>8 DEF Lists, t

(* The next word of a block is the first above it, so from block b on a    *)
(* walk has at most Size[Top] - b nodes before it.                         *)
LEMMA LinkedWalk ==
  ASSUME NEW G \in SUBSET HeapBlocks, NEW word \in [HeapBlocks -> Ends], NEW head,
         Linked(head, word, G)
  PROVE  /\ Lists(Path(word)[<<Size[Top], head>>], G)
         /\ Range(Path(word)[<<Size[Top], head>>]) \cap HeapBlocks = G
<1> DEFINE N == Size[Top]
           Onward(b) == IF b = None THEN {} ELSE From(b, G)
           S == {n \in 0 .. N : \A b \in G \cup {None} :
                   b = None \/ N - b <= n => Lists(Path(word)[<<n, b>>], Onward(b))}
<1>1. /\ N \in Nat /\ HeapBlocks = 0 .. N - 1 /\ None \notin HeapBlocks
      /\ G \subseteq Nat /\ None \notin G /\ None \in Ends /\ G \subseteq Ends
  BY HeapFacts DEF Ends
<1>2. \A n \in 0 .. N : Lists(Path(word)[<<n, None>>], {})
  BY <1>1, PathSteps, ListsNone
<1>3. 0 \in S
  <2> SUFFICES ASSUME NEW b \in G \cup {None}, b = None \/ N - b <= 0
               PROVE  Lists(Path(word)[<<0, b>>], Onward(b))
    BY <1>1
  <2>1. b = None
    BY <1>1
  <2> QED
    BY <1>1, <1>2, <2>1
<1>4. \A n \in 0 .. N - 1 : n \in S => n + 1 \in S
  <2> SUFFICES ASSUME NEW n \in 0 .. N - 1, n \in S,
                      NEW b \in G, N - b <= n + 1
               PROVE  Lists(Path(word)[<<n + 1, b>>], From(b, G))
    <3>1. \A n \in 0 .. N - 1 : n + 1 \in 0 .. N
      BY <1>1
    <3> QED
      BY <1>1, <1>2, <3>1
  <2> DEFINE f == word[b]
  <2>0. \A c \in G \cup {None} : c = None \/ N - c <= n => Lists(Path(word)[<<n, c>>], Onward(c))
    OBVIOUS
  <2> HIDE DEF S, Onward
  <2>1. n + 1 \in 0 .. N /\ n + 1 # 0 /\ (n + 1) - 1 = n /\ n \in 0 .. N /\ b \in HeapBlocks
    BY <1>1
  <2>2. Path(word)[<<n + 1, b>>] = <<b>> \o Path(word)[<<n, f>>]
    <3>1. Path(word)[<<n + 1, b>>] = <<b>> \o Path(word)[<<(n + 1) - 1, f>>]
      <4>1. b \in Ends /\ b \in HeapBlocks /\ n + 1 \in 0 .. Size[Top] /\ n + 1 # 0
        BY <1>1, <2>1
      <4> QED
        BY ONLY <4>1, word \in [HeapBlocks -> Ends], PathSteps
    <3> QED
      BY <2>1, <3>1
  <2>3. IsFirst(f, Above(b, G))
    BY DEF Linked
  <2>4. f \in G \cup {None} /\ (f = None \/ N - f <= n) /\ Onward(f) = Above(b, G)
    <3>1. CASE Above(b, G) = {}
      BY <2>3, <3>1 DEF IsFirst, Onward
    <3>2. CASE Above(b, G) # {}
      <4>1. f \in G /\ b < f /\ \A c \in Above(b, G) : f <= c
        BY <2>3, <3>2 DEF IsFirst, Above
      <4>2. From(f, G) = Above(b, G)
        <5>1. \A c \in G : f <= c <=> b < c
          <6> SUFFICES ASSUME NEW c \in G
                       PROVE  f <= c <=> b < c
            OBVIOUS
          <6>1. b < c => f <= c
            BY <4>1 DEF Above
          <6>2. b \in Nat /\ c \in Nat /\ f \in Nat
            BY <1>1, <4>1
          <6> QED
            BY <4>1, <6>1, <6>2
        <5> QED
          BY <5>1 DEF From, Above
      <4>3. N - f <= n /\ f # None
        <5>1. b \in Nat /\ f \in Nat /\ n \in Nat /\ f # None /\ b < f
          <6> HIDE DEF N, f
          <6> QED
            BY <1>1, <4>1
        <5> QED
          BY <1>1, <4>1, <5>1
      <4> QED
        BY <4>1, <4>2, <4>3 DEF Onward
    <3> QED
      BY <3>1, <3>2
  <2>5. Lists(Path(word)[<<n, f>>], Above(b, G))
    BY <2>0, <2>4
  <2> QED
    BY <2>2, <2>5, ListsMore
<1>5. head \in G \cup {None} /\ Onward(head) = G
  <2>1. CASE G = {}
    BY <1>1, <2>1 DEF Linked, IsFirst
  <2>2. CASE G # {}
    BY <1>1, <2>2 DEF Linked, IsFirst, From
  <2> QED
    BY <2>1, <2>2
<1>6. N \in S
  <2> HIDE DEF S, N
  <2>1. 0 .. N \subseteq S
    BY <1>1, <1>3, <1>4, ClimbsTo
  <2> QED
    BY <1>1, <2>1
<1>7. Lists(Path(word)[<<N, head>>], G)
  <2>1. head = None \/ N - head <= N
    BY <1>1, <1>5
  <2>2. Lists(Path(word)[<<N, head>>], Onward(head))
    BY <1>5, <1>6, <2>1
  <2> QED
    BY <1>5, <2>2
<1>8. ASSUME NEW s, Lists(s, G)
      PROVE  Range(s) \cap HeapBlocks = G
  <2>1. DOMAIN s = 1 .. Len(s) /\ Len(s) \in Nat
    BY <1>8 DEF Lists
  <2>2. \A i \in 1 .. Len(s) : s[i] \in HeapBlocks => s[i] \in G
    BY <1>1, <1>8, <2>1 DEF Lists
  <2>3. \A g \in G : \E i \in 1 .. Len(s) : s[i] = g
    BY <1>8, <2>1 DEF Lists
  <2> QED
    BY <2>1, <2>2, <2>3 DEF Range
<1> QED
  BY <1>7, <1>8

(* The node before a node of the walk. *)
LEMMA NodeBefore ==
  ASSUME NEW G \in SUBSET HeapBlocks, NEW s, Lists(s, G), NEW i \in 1 .. Len(s) - 1
  PROVE  IsLast(IF i <= 1 THEN None ELSE s[i - 1], Below(s[i], G))
<1>1. Len(s) \in Nat /\ G \subseteq Nat /\ i \in Nat /\ s[i] \in G
  BY HeapFacts DEF Lists
<1>2. ASSUME NEW g \in Below(s[i], G)
      PROVE  \E j \in 1 .. i - 1 : s[j] = g
  <2>1. PICK j \in 1 .. Len(s) - 1 : s[j] = g
    BY <1>2 DEF Lists, Below
  <2>2. s[j] < s[i] /\ s[i] \in Nat /\ s[j] \in Nat
    BY <1>1, <1>2, <2>1 DEF Below
  <2>3. ~(i < j) /\ i # j
    BY <2>2 DEF Lists
  <2> QED
    BY <1>1, <2>1, <2>3
<1>3. CASE i <= 1
  <2>1. Below(s[i], G) = {}
    BY <1>1, <1>2, <1>3
  <2> QED
    BY <1>3, <2>1 DEF IsLast
<1>4. CASE ~(i <= 1)
  <2>1. i - 1 \in 1 .. Len(s) - 1 /\ i - 1 < i
    BY <1>1, <1>4
  <2>2. s[i - 1] \in Below(s[i], G) /\ s[i - 1] \in Nat
    BY <1>1, <2>1 DEF Lists, Below
  <2>3. ASSUME NEW j \in 1 .. i - 1
        PROVE  s[j] <= s[i - 1]
    <3>1. j \in 1 .. Len(s) - 1 /\ (j = i - 1 \/ j < i - 1)
      BY <1>1, <2>1
    <3>2. j < i - 1 => s[j] < s[i - 1]
      BY <2>1, <3>1 DEF Lists
    <3>3. s[j] \in Nat
      BY <1>1, <3>1 DEF Lists
    <3> QED
      BY <2>2, <3>1, <3>2, <3>3
  <2>4. \A g \in Below(s[i], G) : g <= s[i - 1]
    BY <1>2, <2>3
  <2> QED
    BY <1>4, <2>2, <2>4 DEF IsLast
<1> QED
  BY <1>3, <1>4

(* A loop over the walk stops at the first node in Stop, or at the end. *)
LEMMA StopsAt ==
  ASSUME NEW G \in SUBSET HeapBlocks, NEW s, Lists(s, G), NEW Stop
  PROVE  LET n == CHOOSE n \in DOMAIN s : /\ s[n] \notin HeapBlocks \ Stop
                                          /\ \A m \in 1 .. n - 1 : s[m] \in HeapBlocks \ Stop
         IN  /\ n \in 1 .. Len(s)
             /\ \A m \in 1 .. n - 1 : s[m] \in G \ Stop
             /\ n = Len(s) \/ (n \in 1 .. Len(s) - 1 /\ s[n] \in G \cap Stop)
<1> DEFINE Here(n) == /\ s[n] \notin HeapBlocks \ Stop
                      /\ \A m \in 1 .. n - 1 : s[m] \in HeapBlocks \ Stop
           n == CHOOSE n \in DOMAIN s : Here(n)
           T == {k \in 0 .. Len(s) - 1 : \A m \in 1 .. k : s[m] \in HeapBlocks \ Stop}
<1>1. /\ Len(s) \in Nat /\ Len(s) >= 1 /\ DOMAIN s = 1 .. Len(s)
      /\ s[Len(s)] \notin HeapBlocks
      /\ \A i \in 1 .. Len(s) - 1 : s[i] \in G
  BY HeapFacts DEF Lists
<1>2. 0 \in T
  BY <1>1
<1>3. PICK k \in T : \A j \in T : j <= k
  <2>1. T \in SUBSET (0 .. Len(s) - 1) /\ Len(s) - 1 \in Nat
    BY <1>1
  <2> HIDE DEF T
  <2> QED
    BY <1>2, <2>1, GreatestMember
<1>4. k + 1 \in DOMAIN s /\ Here(k + 1)
  <2>1. k \in Nat /\ k + 1 \in 1 .. Len(s) /\ (k + 1) - 1 = k
    BY <1>1
  <2>2. \A m \in 1 .. (k + 1) - 1 : s[m] \in HeapBlocks \ Stop
    BY <2>1
  <2>3. s[k + 1] \notin HeapBlocks \ Stop
    <3> SUFFICES ASSUME s[k + 1] \in HeapBlocks \ Stop
                 PROVE  FALSE
      OBVIOUS
    <3>1. k + 1 # Len(s)
      BY <1>1
    <3>2. k + 1 \in 0 .. Len(s) - 1
      <4> HIDE DEF T
      <4>1. Len(s) \in Nat
        BY <1>1
      <4> QED
        BY ONLY <2>1, <3>1, <4>1
    <3>3. \A m \in 1 .. k + 1 : m = k + 1 \/ m \in 1 .. k
      BY <2>1
    <3>4. k + 1 \in T
      BY <3>2, <3>3
    <3> QED
      BY <1>3, <2>1, <3>4
  <2> QED
    BY <1>1, <2>1, <2>2, <2>3
<1>5. n \in DOMAIN s /\ Here(n)
  <2> HIDE DEF Here
  <2> QED
    BY <1>4
<1> HIDE DEF n
<1>6. \A m \in 1 .. n - 1 : m \in 1 .. Len(s) - 1
  BY <1>1, <1>5
<1>7. n = Len(s) \/ n \in 1 .. Len(s) - 1
  BY <1>1, <1>5
<1>8. /\ n \in 1 .. Len(s)
      /\ \A m \in 1 .. n - 1 : s[m] \in G \ Stop
      /\ n = Len(s) \/ (n \in 1 .. Len(s) - 1 /\ s[n] \in G \cap Stop)
  BY <1>1, <1>5, <1>6, <1>7
<1> QED
  BY <1>8 DEF n

(* addToList finds the two nodes that the new one goes between.            *)
LEMMA PlaceFacts ==
  ASSUME NEW d, NEW G \in SUBSET HeapBlocks, Lists(Walk(d), G), NEW b \in HeapBlocks
  PROVE  /\ IsFirst(Walk(d)[Place(b, d)], From(b, G))
         /\ IsLast(Behind(d, Place(b, d)), Below(b, G))
         /\ Place(b, d) = 1 <=> Behind(d, Place(b, d)) = None
<1> DEFINE s == Walk(d)
           n == Place(b, d)
           Stop == {c \in HeapBlocks : c >= b}
<1>0. n = PlaceOf(d, Stop)
  BY DEF Place
<1>1. /\ n \in 1 .. Len(s)
      /\ \A m \in 1 .. n - 1 : s[m] \in G \ Stop
      /\ n = Len(s) \/ (n \in 1 .. Len(s) - 1 /\ s[n] \in G \cap Stop)
  <2> HIDE DEF Stop, n
  <2> QED
    BY <1>0, StopsAt DEF PlaceOf
<1>9. Lists(s, G) /\ \A k : Behind(d, k) = IF k <= 1 THEN None ELSE s[k - 1]
  BY DEF Behind
<1> HIDE DEF n, s
<1>2. /\ Len(s) \in Nat /\ n \in Nat /\ b \in Nat /\ G \subseteq Nat
      /\ None \notin G /\ s[Len(s)] = None
  <2>1. Len(s) \in Nat /\ s[Len(s)] = None
    BY <1>9 DEF Lists
  <2>2. b \in Nat /\ G \subseteq Nat /\ None \notin G
    BY HeapFacts
  <2> QED
    BY <1>1, <2>1, <2>2
<1>3. /\ \A m \in 1 .. n - 1 : s[m] \in G /\ s[m] < b
      /\ n # Len(s) => n \in 1 .. Len(s) - 1 /\ s[n] \in G /\ b <= s[n]
  <2>1. \A c \in G : c \notin Stop <=> c < b
    <3> SUFFICES ASSUME NEW c \in G
                 PROVE  ~(c >= b) <=> c < b
      OBVIOUS
    <3>1. b \in Nat /\ c \in Nat
      BY <1>2
    <3> QED
      BY <3>1
  <2>2. \A c \in Stop : b <= c
    <3> SUFFICES ASSUME NEW c \in HeapBlocks, c >= b
                 PROVE  b <= c
      OBVIOUS
    <3>1. b \in Nat /\ c \in Nat
      BY HeapFacts
    <3> QED
      BY <3>1
  <2> HIDE DEF Stop
  <2> QED
    BY <1>1, <2>1, <2>2
<1> HIDE DEF Stop
<1>4. \A g \in From(b, G) : \E i \in 1 .. Len(s) - 1 : s[i] = g /\ n <= i
  <2> SUFFICES ASSUME NEW g \in From(b, G)
               PROVE  \E i \in 1 .. Len(s) - 1 : s[i] = g /\ n <= i
    OBVIOUS
  <2>1. PICK i \in 1 .. Len(s) - 1 : s[i] = g
    BY <1>9 DEF Lists, From
  <2>2. g \in Nat /\ b <= g
    BY <1>2 DEF From
  <2>3. i \notin 1 .. n - 1
    BY <1>2, <1>3, <2>1, <2>2
  <2> QED
    BY <1>2, <2>1, <2>3
<1>5. \A g \in Below(b, G) : \E i \in 1 .. n - 1 : s[i] = g
  <2> SUFFICES ASSUME NEW g \in Below(b, G)
               PROVE  \E i \in 1 .. n - 1 : s[i] = g
    OBVIOUS
  <2>1. PICK i \in 1 .. Len(s) - 1 : s[i] = g
    BY <1>9 DEF Lists, Below
  <2>2. g \in Nat /\ g < b
    BY <1>2 DEF Below
  <2>3. ~(n <= i)
    <3> SUFFICES ASSUME n <= i
                 PROVE  FALSE
      OBVIOUS
    <3>0. n # Len(s)
      BY <1>2
    <3>1. n \in 1 .. Len(s) - 1 /\ s[n] \in Nat /\ b <= s[n]
      BY <1>2, <1>3, <3>0
    <3>2. n = i \/ s[n] < s[i]
      <4>1. n = i \/ n < i
        BY <1>2
      <4> QED
        BY <1>9, <3>1, <4>1 DEF Lists
    <3>3. b \in Nat
      BY <1>2
    <3> QED
      BY <2>1, <2>2, <3>1, <3>2, <3>3
  <2> QED
    BY <1>2, <2>1, <2>3
<1>6. IsFirst(s[n], From(b, G))
  <2>1. CASE n = Len(s)
    <3>1. From(b, G) = {}
      BY <1>2, <1>4, <2>1
    <3> QED
      BY <1>2, <2>1, <3>1 DEF IsFirst
  <2>2. CASE n # Len(s)
    <3>1. n \in 1 .. Len(s) - 1 /\ s[n] \in From(b, G) /\ s[n] \in Nat
      BY <1>2, <1>3, <2>2 DEF From
    <3>2. ASSUME NEW g \in From(b, G)
          PROVE  s[n] <= g
      <4>1. PICK i \in 1 .. Len(s) - 1 : s[i] = g /\ n <= i
        BY <1>4
      <4>2. n = i \/ s[n] < s[i]
        BY <1>9, <1>2, <3>1, <4>1 DEF Lists
      <4>3. g \in Nat
        BY <1>2 DEF From
      <4> QED
        BY <3>1, <4>1, <4>2, <4>3
    <3> QED
      BY <3>1, <3>2 DEF IsFirst
  <2> QED
    BY <2>1, <2>2
<1>7. CASE n <= 1
  <2>1. Below(b, G) = {} /\ Behind(d, n) = None /\ n = 1
    BY <1>1, <1>2, <1>5, <1>7, <1>9
  <2> QED
    BY <1>6, <2>1 DEF IsLast, n, s
<1>8. CASE ~(n <= 1)
  <2>1. n - 1 \in 1 .. n - 1 /\ n - 1 \in 1 .. Len(s) - 1 /\ Behind(d, n) = s[n - 1] /\ n # 1
    BY <1>1, <1>2, <1>8, <1>9
  <2>2. s[n - 1] \in Below(b, G) /\ s[n - 1] \in Nat /\ s[n - 1] # None
    BY <1>2, <1>3, <2>1 DEF Below
  <2>3. ASSUME NEW g \in Below(b, G)
        PROVE  g <= s[n - 1]
    <3>1. PICK i \in 1 .. n - 1 : s[i] = g
      BY <1>5
    <3>2. i \in 1 .. Len(s) - 1 /\ (i = n - 1 \/ i < n - 1)
      BY <1>1, <1>2, <3>1
    <3>3. i = n - 1 \/ s[i] < s[n - 1]
      BY <1>9, <2>1, <3>2 DEF Lists
    <3>4. g \in Nat
      BY <1>2 DEF Below
    <3> QED
      BY <2>2, <3>1, <3>3, <3>4
  <2>4. IsLast(Behind(d, n), Below(b, G))
    BY <2>1, <2>2, <2>3 DEF IsLast
  <2> QED
    BY <1>6, <2>1, <2>2, <2>4 DEF n, s
<1> QED
  BY <1>7, <1>8, <1>2

(* tryJoiningBuddies finds its node, and the two before it.                *)
LEMMA NodeFacts ==
  ASSUME NEW d, NEW G \in SUBSET HeapBlocks, Lists(Walk(d), G), NEW b \in G
  PROVE  LET n == PlaceOf(d, {b})
             p == Behind(d, n)
         IN  /\ IsLast(p, Below(b, G))
             /\ p # None => IsLast(Behind(d, n - 1), Below(p, G))
<1> DEFINE s == Walk(d)
           n == PlaceOf(d, {b})
<1>1. /\ n \in 1 .. Len(s)
      /\ \A m \in 1 .. n - 1 : s[m] \in G \ {b}
      /\ n = Len(s) \/ (n \in 1 .. Len(s) - 1 /\ s[n] \in G \cap {b})
  BY StopsAt DEF PlaceOf
<1> HIDE DEF n
<1>2. Len(s) \in Nat /\ n \in Nat
  BY <1>1 DEF Lists
<1>3. n \in 1 .. Len(s) - 1 /\ s[n] = b
  <2>1. PICK i \in 1 .. Len(s) - 1 : s[i] = b
    BY DEF Lists
  <2>2. i \notin 1 .. n - 1
    BY <1>1, <2>1
  <2>3. n # Len(s)
    BY <1>2, <2>1, <2>2
  <2> QED
    BY <1>1, <2>3
<1>4. IsLast(Behind(d, n), Below(b, G))
  BY <1>3, NodeBefore DEF Behind
<1>5. Behind(d, n) # None => IsLast(Behind(d, n - 1), Below(Behind(d, n), G))
  <2> SUFFICES ASSUME Behind(d, n) # None
               PROVE  IsLast(Behind(d, n - 1), Below(Behind(d, n), G))
    OBVIOUS
  <2>1. n - 1 \in 1 .. Len(s) - 1 /\ Behind(d, n) = s[n - 1]
    BY <1>2, <1>3 DEF Behind
  <2> QED
    BY <2>1, NodeBefore DEF Behind
<1> QED
  BY <1>4, <1>5 DEF n

-----------------------------------------------------------------------------
(* What the changes of head and words make of a list. *)

LEMMA LinkedSame ==
  ASSUME NEW G, NEW head, NEW word, NEW word2, Linked(head, word, G),
         \A x \in G : word2[x] = word[x]
  PROVE  Linked(head, word2, G)
  BY DEF Linked

LEMMA LinkedHead ==
  ASSUME NEW G \in SUBSET HeapBlocks, NEW head, NEW word, Linked(head, word, G)
  PROVE  /\ head = None <=> G = {}
         /\ head # None => head \in G /\ \A c \in G : head <= c
  BY HeapFacts DEF Linked, IsFirst

LEMMA LinkedNext ==
  ASSUME NEW G \in SUBSET HeapBlocks, NEW head, NEW word, Linked(head, word, G), NEW b \in G
  PROVE  /\ word[b] = None <=> Above(b, G) = {}
         /\ word[b] # None => word[b] \in G /\ b < word[b] /\ \A c \in G : b < c => word[b] <= c
  BY HeapFacts DEF Linked, IsFirst, Above

LEMMA OneNode ==
  ASSUME NEW b \in HeapBlocks, NEW word, word[b] = None
  PROVE  Linked(b, word, {b})
<1>1. Above(b, {b}) = {} /\ b <= b
  BY HeapFacts DEF Above
<1> QED
  BY <1>1 DEF Linked, IsFirst

LEMMA TakenHead ==
  ASSUME NEW G \in SUBSET HeapBlocks, NEW head \in G, NEW word, NEW word2,
         Linked(head, word, G), \A x \in G \ {head} : word2[x] = word[x]
  PROVE  Linked(word[head], word2, G \ {head})
<1>1. G \subseteq Nat /\ \A c \in G : head <= c
  BY HeapFacts DEF Linked, IsFirst
<1>2. Above(head, G) = G \ {head}
  <2>1. \A c \in G : head < c <=> c # head
    <3> SUFFICES ASSUME NEW c \in G
                 PROVE  head < c <=> c # head
      OBVIOUS
    <3>1. c \in Nat /\ head \in Nat /\ head <= c
      BY <1>1
    <3> QED
      BY <3>1
  <2> QED
    BY <2>1 DEF Above
<1>3. IsFirst(word[head], G \ {head})
  BY <1>2 DEF Linked
<1>4. ASSUME NEW b \in G \ {head}
      PROVE  IsFirst(word2[b], Above(b, G \ {head}))
  <2>1. Above(b, G \ {head}) = Above(b, G)
    BY <1>1 DEF Above
  <2> QED
    BY <2>1 DEF Linked
<1> QED
  BY <1>3, <1>4 DEF Linked

(* word2 differs from word by b between p and f, or by two nodes taken out *)
(* behind p.                                                               *)
PutIn(word2, word, G, b, f, p) ==
  \A x \in G \cup {b} : word2[x] = IF x = b THEN f ELSE IF x = p THEN b ELSE word[x]

TakenOut(word2, word, H, p, rest) ==
  \A x \in H : word2[x] = IF x = p THEN rest ELSE word[x]

LEMMA Inserted ==
  ASSUME NEW G \in SUBSET HeapBlocks, NEW b \in HeapBlocks \ G, NEW head, NEW word,
         Linked(head, word, G),
         NEW f, IsFirst(f, From(b, G)), NEW p, IsLast(p, Below(b, G)),
         NEW word2, PutIn(word2, word, G, b, f, p)
  PROVE  Linked(IF p = None THEN b ELSE head, word2, G \cup {b})
<1> DEFINE H == G \cup {b}
           head2 == IF p = None THEN b ELSE head
<1> USE DEF PutIn
<1>1. G \subseteq Nat /\ b \in Nat /\ b \notin G /\ None \notin H
  BY HeapFacts
<1>2. Below(b, G) = {} <=> p = None
  BY <1>1 DEF IsLast, Below
<1>3. p # None => p \in G /\ p < b /\ \A c \in G : c < b => c <= p
  BY <1>1, <1>2 DEF IsLast, Below
<1>4. IsFirst(head2, H)
  <2>1. CASE p = None
    <3>1. \A c \in G : b <= c
      BY <1>1, <1>2, <2>1 DEF Below
    <3> QED
      BY <1>1, <2>1, <3>1 DEF IsFirst
  <2>2. CASE p # None
    <3>1. head2 \in G /\ \A c \in G : head2 <= c
      BY <1>3, <2>2 DEF Linked, IsFirst
    <3>2. head2 <= b
      <4>1. head2 \in Nat /\ p \in Nat /\ b \in Nat
        BY <1>1, <1>3, <2>2, <3>1
      <4>2. head2 <= p /\ p < b
        BY <1>3, <2>2, <3>1
      <4> QED
        BY <4>1, <4>2
    <3> QED
      BY <3>1, <3>2 DEF IsFirst
  <2> QED
    BY <2>1, <2>2
<1>5. IsFirst(word2[b], Above(b, H))
  <2>1. Above(b, H) = From(b, G)
    <3>1. \A c \in G : b < c <=> b <= c
      <4> SUFFICES ASSUME NEW c \in G
                   PROVE  b < c <=> b <= c
        OBVIOUS
      <4>1. c \in Nat /\ b \in Nat /\ c # b
        BY <1>1
      <4> QED
        BY <4>1
    <3>2. ~(b < b)
      BY <1>1
    <3> QED
      BY <3>1, <3>2 DEF Above, From
  <2> QED
    BY <2>1
<1>6. ASSUME NEW x \in G
      PROVE  IsFirst(word2[x], Above(x, H))
  <2>0. x \in Nat /\ x # b
    BY <1>1
  <2>1. CASE x = p
    <3>1. word2[x] = b /\ b \in Above(x, H)
      BY <1>1, <1>3, <2>0, <2>1 DEF Above
    <3>2. ASSUME NEW c \in Above(x, H)
          PROVE  b <= c
      <4>1. c = b \/ (c \in G /\ p < c /\ c \in Nat)
        BY <1>1, <2>1 DEF Above
      <4>2. c \in G /\ c < b => c <= p
        BY <1>1, <1>3, <2>1
      <4>3. p \in Nat
        BY <2>0, <2>1
      <4> QED
        BY <1>1, <4>1, <4>2, <4>3
    <3> QED
      BY <3>1, <3>2 DEF IsFirst
  <2>2. CASE x # p /\ x < b
    <3>1. p \in G /\ x < p /\ p < b /\ p \in Nat /\ p \in Above(x, G)
      <4>1. p # None
        BY <1>2, <2>2 DEF Below
      <4>2. p \in G /\ p < b /\ x <= p
        BY <1>3, <2>2, <4>1
      <4>3. p \in Nat
        BY <1>1, <4>2
      <4>4. x < p
        BY <2>0, <2>2, <4>2, <4>3
      <4> QED
        BY <4>2, <4>3, <4>4 DEF Above
    <3>2. word2[x] = word[x]
      BY <2>0, <2>2
    <3>3. word[x] \in Above(x, G) /\ \A c \in Above(x, G) : word[x] <= c
      BY <3>1 DEF Linked, IsFirst
    <3>4. word[x] <= b
      <4>1. word[x] <= p /\ word[x] \in Nat
        BY <1>1, <3>1, <3>3 DEF Above
      <4> QED
        BY <1>1, <3>1, <4>1
    <3>5. Above(x, H) = Above(x, G) \cup {b}
      BY <1>1, <2>2 DEF Above
    <3> QED
      BY <3>2, <3>3, <3>4, <3>5 DEF IsFirst
  <2>3. CASE x # p /\ b < x
    <3>1. Above(x, H) = Above(x, G)
      BY <1>1, <2>0, <2>3 DEF Above
    <3>2. word2[x] = word[x]
      BY <2>0, <2>3
    <3> QED
      BY <3>1, <3>2 DEF Linked
  <2> QED
    BY <1>1, <2>0, <2>1, <2>2, <2>3
<1> QED
  BY <1>4, <1>5, <1>6 DEF Linked

LEMMA Unlinked ==
  ASSUME NEW G \in SUBSET HeapBlocks, NEW head, NEW word, Linked(head, word, G),
         NEW low \in G, NEW high \in G, word[low] = high,
         NEW p, IsLast(p, Below(low, G)),
         NEW word2, TakenOut(word2, word, G \ {low, high}, p, word[high])
  PROVE  Linked(IF p = None THEN word[high] ELSE head, word2, G \ {low, high})
<1> DEFINE H == G \ {low, high}
           head2 == IF p = None THEN word[high] ELSE head
<1> USE DEF TakenOut
<1>1. G \subseteq Nat /\ low \in Nat /\ high \in Nat /\ None \notin G
  BY HeapFacts
<1>2. low < high /\ \A c \in G : low < c => high <= c
  BY <1>1, LinkedNext
<1>3. Below(low, G) = {} <=> p = None
  BY <1>1 DEF IsLast, Below
<1>4. p # None => p \in G /\ p < low /\ \A c \in G : c < low => c <= p
  BY <1>1, <1>3 DEF IsLast, Below
<1>5. IsFirst(word[high], Above(high, G))
  BY DEF Linked
<1>6. \A c \in H : c < low \/ high < c
  <2> SUFFICES ASSUME NEW c \in H
               PROVE  c < low \/ high < c
    OBVIOUS
  <2>1. c \in Nat /\ c # low /\ c # high
    BY <1>1
  <2>2. low < c => high <= c
    BY <1>2
  <2> QED
    BY <1>1, <2>1, <2>2
<1>7. IsFirst(head2, H)
  <2>1. CASE p = None
    <3>1. Above(high, G) = H
      <4>1. \A c \in H : high < c
        BY <1>3, <1>6, <2>1 DEF Below
      <4>2. ~(high < high) /\ ~(high < low)
        BY <1>1, <1>2
      <4> QED
        BY <4>1, <4>2 DEF Above
    <3> QED
      BY <1>5, <2>1, <3>1
  <2>2. CASE p # None
    <3>1. head2 \in G /\ \A c \in G : head2 <= c
      BY <1>4, <2>2 DEF Linked, IsFirst
    <3>2. head2 # low /\ head2 # high
      <4>1. head2 \in Nat /\ p \in Nat
        BY <1>1, <1>4, <2>2, <3>1
      <4>2. head2 <= p /\ p < low
        BY <1>4, <2>2, <3>1
      <4> QED
        BY <1>1, <1>2, <4>1, <4>2
    <3> QED
      BY <3>1, <3>2 DEF IsFirst
  <2> QED
    BY <2>1, <2>2
<1>8. ASSUME NEW x \in H
      PROVE  IsFirst(word2[x], Above(x, H))
  <2>0. x \in Nat /\ x \in G /\ x # low /\ x # high /\ (x < low \/ high < x)
    BY <1>1, <1>6
  <2>1. CASE x = p
    <3>1. ASSUME NEW c \in H, p < c
          PROVE  high < c
      <4>1. c \in Nat /\ (c < low => c <= p)
        BY <1>1, <1>4, <2>0, <2>1
      <4> QED
        BY <1>6, <2>0, <2>1, <3>1, <4>1
    <3>2. Above(x, H) = Above(high, G)
      <4>1. \A c \in H : x < c <=> high < c
        BY <1>1, <1>2, <1>4, <2>0, <2>1, <3>1
      <4>2. \A c \in G : high < c => c \in H
        BY <1>1, <1>2
      <4> QED
        BY <4>1, <4>2 DEF Above
    <3> QED
      BY <1>5, <2>1, <3>2
  <2>2. CASE x # p /\ x < low
    <3>1. p \in G /\ x < p /\ p < low /\ p \in Nat /\ p \in Above(x, G)
      <4>1. p # None
        BY <1>3, <2>0, <2>2 DEF Below
      <4>2. p \in G /\ p < low /\ x <= p
        BY <1>4, <2>0, <2>2, <4>1
      <4>3. p \in Nat
        BY <1>1, <4>2
      <4>4. x < p
        BY <2>0, <2>2, <4>2, <4>3
      <4> QED
        BY <4>2, <4>3, <4>4 DEF Above
    <3>2. word2[x] = word[x]
      BY <2>0, <2>2
    <3>3. word[x] \in Above(x, G) /\ \A c \in Above(x, G) : word[x] <= c
      BY <3>1 DEF Linked, IsFirst
    <3>4. word[x] # low /\ word[x] # high
      <4>1. word[x] <= p /\ word[x] \in Nat
        BY <1>1, <3>1, <3>3 DEF Above
      <4> QED
        BY <1>1, <1>2, <3>1, <4>1
    <3>5. Above(x, H) = Above(x, G) \ {low, high}
      BY DEF Above
    <3> QED
      BY <3>2, <3>3, <3>4, <3>5 DEF IsFirst
  <2>3. CASE x # p /\ high < x
    <3>1. Above(x, H) = Above(x, G)
      BY <1>1, <1>2, <2>0, <2>3 DEF Above
    <3>2. word2[x] = word[x]
      BY <2>0, <2>3
    <3> QED
      BY <3>1, <3>2, <2>0 DEF Linked
  <2>4. CASE x = p /\ high < x
    BY <2>1, <2>4
  <2> QED
    BY <2>0, <2>1, <2>2, <2>3
<1> QED
  BY <1>7, <1>8 DEF Linked

-----------------------------------------------------------------------------
(* The invariant. *)

PointersTyped ==
  /\ buddy \in [Degrees -> HeapBlocks \cup {None}]
  /\ next \in [HeapBlocks -> Ends]

InOrder == \A d \in Degrees : Linked(buddy[d], next, On(d))

IInv == PointersTyped /\ InOrder /\ Abs!IInv

LEMMA AbsNames == Abs!Degrees = Degrees /\ Abs!HeapBlocks = HeapBlocks /\ Abs!Top = Top
  BY DEF Abs!Degrees, Degrees, Abs!HeapBlocks, HeapBlocks, Abs!Top, Top

(* What the proofs about BuddyAllocator assume. *)
LEMMA AbsAssumed ==
  /\ MaxDegree \in Nat \ {0}
  /\ Size \in [0 .. MaxDegree -> Nat \ {0}]
  /\ Size[0] = 1
  /\ \A d \in Abs!Degrees : Size[d + 1] = 2 * Size[d]
  /\ Requests \subseteq Nat
  BY DegreesAssumption, SizeAssumption, RequestsAssumption, AbsNames

LEMMA AbsNextInv ==
  ASSUME Abs!IInv, [Abs!Next]_(Abs!vars)
  PROVE  Abs!IInv'
  BY AbsAssumed, Abs!NextInv

LEMMA SizesOf ==
  /\ \A d \in Degrees : d \in Nat /\ Size[d] \in Nat /\ Size[d] >= 1
  /\ \A d, e \in Degrees : d < e => 2 * Size[d] <= Size[e]
<1>1. \A d \in Degrees : d \in Nat /\ Size[d] \in Nat /\ Size[d] >= 1
  BY SizeAssumption, DegreesAssumption DEF Degrees
<1>2. \A d, e \in Degrees : d < e => 2 * Size[d] <= Size[e]
  BY AbsAssumed, AbsNames, Abs!SizeGrows
<1> QED
  BY <1>1, <1>2

(* The lists are apart from each other and from what clients hold. *)
LEMMA AbsFacts ==
  ASSUME Abs!IInv
  PROVE  /\ owned \in [Degrees -> SUBSET HeapBlocks]
         /\ join # None => /\ join = <<join[1], join[2]>> /\ join[2] \in Degrees
                           /\ join[1] \in On(join[2])
         /\ \A d \in Degrees : On(d) \cap owned[d] = {}
         /\ \A d, e \in Degrees : d # e => On(d) \cap (On(e) \cup owned[e]) = {}
<1>1. owned \in [Degrees -> SUBSET HeapBlocks] /\ join \in (HeapBlocks \X Degrees) \cup {None}
  BY AbsNames DEF Abs!IInv, Abs!TypeOK
<1>2. join # None => /\ join = <<join[1], join[2]>> /\ join[2] \in Degrees
                     /\ join[1] \in On(join[2])
  BY <1>1 DEF Abs!IInv, Abs!JoinListed
<1>3. \A d \in Degrees : On(d) \cap owned[d] = {}
  BY AbsNames DEF Abs!IInv, Abs!NoOverlap
<1>4. ASSUME NEW d \in Degrees, NEW e \in Degrees, d # e,
             NEW b \in On(d), b \in On(e) \cup owned[e]
      PROVE  FALSE
  <2>1. b \in Abs!Known(d) /\ b \in Abs!Known(e)
    BY <1>4 DEF Abs!Known
  <2>2. Abs!Apart(b, d, b, e)
    BY <1>4, <2>1, AbsNames DEF Abs!IInv, Abs!NoOverlap
  <2>3. b \in Nat /\ Size[d] \in Nat /\ Size[e] \in Nat /\ Size[d] >= 1 /\ Size[e] >= 1
    <3>1. b \in HeapBlocks
      BY DEF On
    <3> QED
      BY <3>1, HeapFacts, SizesOf
  <2> QED
    BY <2>2, <2>3 DEF Abs!Apart
<1> QED
  BY <1>1, <1>2, <1>3, <1>4

(* What a walk sees of the lists, and that each is the set On says.        *)
LEMMA ListFacts ==
  ASSUME IInv, NEW d \in Degrees
  PROVE  /\ On(d) \in SUBSET HeapBlocks
         /\ Linked(buddy[d], next, On(d))
         /\ Lists(Walk(d), On(d))
  BY LinkedWalk DEF IInv, PointersTyped, InOrder, On, Walk

(* Heads and words that hold the sets of free2 in order do so after a step. *)
LEMMA ListsAfter ==
  ASSUME PointersTyped', NEW free2 \in [Degrees -> SUBSET HeapBlocks],
         \A d \in Degrees : Linked(buddy'[d], next', free2[d])
  PROVE  InOrder' /\ [d \in Degrees |-> On(d)]' = free2
<1>1. ASSUME NEW d \in Degrees
      PROVE  On(d)' = free2[d]
  <2>1. next' \in [HeapBlocks -> Ends]
    BY DEF PointersTyped
  <2>2. Range(Path(next')[<<Size[Top], buddy'[d]>>]) \cap HeapBlocks = free2[d]
    BY <2>1, LinkedWalk
  <2> QED
    BY <2>2 DEF On, Walk
<1>2. InOrder'
  BY <1>1 DEF InOrder
<1>3. [d \in Degrees |-> On(d)]' = [d \in Degrees |-> free2[d]]
  BY <1>1
<1> QED
  BY <1>2, <1>3

-----------------------------------------------------------------------------
(* The steps.  Each is the step of BuddyAllocator of the same name, and    *)
(* leaves the lists in order.                                              *)

LEMMA AllocExactKeeps ==
  ASSUME IInv, NEW req \in Requests, AllocExact(req)
  PROVE  Abs!AllocExact(req) /\ PointersTyped' /\ InOrder'
<1> DEFINE size == Sets!ceilLog2(req)
           b == buddy[size]
           free2 == [d \in Degrees |-> IF d = size THEN On(d) \ {b} ELSE On(d)]
<1>1. /\ join = None /\ size \in Degrees /\ b # None
      /\ buddy' = [buddy EXCEPT ![size] = next[b]]
      /\ next' = [next EXCEPT ![b] = Junk]
      /\ owned' = [owned EXCEPT ![size] = @ \cup {b}] /\ ret' = b /\ join' = join
  BY DEF AllocExact, Hand
<1>2. size = Abs!ceilLog2(req)
  BY DEF Sets!ceilLog2, Abs!ceilLog2
<1> HIDE DEF size
<1>3. /\ b \in On(size) /\ b \in HeapBlocks
      /\ \A c \in On(size) : b <= c
  BY <1>1, ListFacts, LinkedHead
<1>4. PointersTyped'
  <2>1. next[b] \in HeapBlocks \cup {None}
    BY <1>1, <1>3, ListFacts, LinkedNext
  <2> QED
    BY <1>1, <1>3, <2>1 DEF IInv, PointersTyped, Ends
<1>5. ASSUME NEW d \in Degrees
      PROVE  Linked(buddy'[d], next', free2[d])
  <2>1. CASE d = size
    <3>1. buddy'[d] = next[b] /\ free2[d] = On(d) \ {b}
      BY <1>1, <2>1 DEF IInv, PointersTyped
    <3>2. \A x \in On(d) \ {b} : next'[x] = next[x]
      BY <1>1, <2>1, ListFacts DEF IInv, PointersTyped
    <3> QED
      BY <2>1, <1>3, <3>1, <3>2, ListFacts, TakenHead
  <2>2. CASE d # size
    <3>1. buddy'[d] = buddy[d] /\ free2[d] = On(d)
      BY <1>1, <2>2 DEF IInv, PointersTyped
    <3>2. b \notin On(d)
      BY <1>1, <1>3, <2>2, AbsFacts DEF IInv
    <3>3. \A x \in On(d) : next'[x] = next[x]
      BY <1>1, <3>2, ListFacts DEF IInv, PointersTyped
    <3> QED
      BY <3>1, <3>3, ListFacts, LinkedSame
  <2> QED
    BY <2>1, <2>2
<1>6. InOrder' /\ [d \in Degrees |-> On(d)]' = free2
  <2>1. free2 \in [Degrees -> SUBSET HeapBlocks]
    BY ListFacts
  <2> HIDE DEF free2
  <2> QED
    BY <1>4, <1>5, <2>1, ListsAfter
<1>7. Abs!AllocExact(req)
  <2>1. Abs!IsHead(b, size)
    BY <1>1, <1>3 DEF Abs!IsHead
  <2>2. [d \in Degrees |-> On(d)]' = [[d \in Degrees |-> On(d)] EXCEPT ![size] = @ \ {b}]
    BY <1>1, <1>6
  <2>3. Abs!Hand(b, size)
    BY <1>1 DEF Abs!Hand
  <2> QED
    BY <1>1, <1>2, <1>3, <2>1, <2>2, <2>3, AbsNames DEF Abs!AllocExact
<1> QED
  BY <1>4, <1>6, <1>7

(* What addToList does to the list of d when no list holds b. *)
LEMMA AddKeeps ==
  ASSUME IInv, NEW d \in Degrees, NEW b \in HeapBlocks, b \notin On(d)
  PROVE  /\ HeadWith(b, d) \in HeapBlocks \cup {None}
         /\ NextWith(b, d) \in [HeapBlocks -> Ends]
         /\ \A x \in HeapBlocks : x # b /\ x \notin On(d) => NextWith(b, d)[x] = next[x]
         /\ \A x \in HeapBlocks : x = Behind(d, Place(b, d)) => x \in On(d)
         /\ \A word2 : (\A x \in On(d) \cup {b} : word2[x] = NextWith(b, d)[x])
              => Linked(HeadWith(b, d), word2, On(d) \cup {b})
<1> DEFINE G == On(d)
           f == Walk(d)[Place(b, d)]
           p == Behind(d, Place(b, d))
<1>1. G \in SUBSET HeapBlocks /\ Linked(buddy[d], next, G) /\ Lists(Walk(d), G)
  BY ListFacts
<1>2. /\ IsFirst(f, From(b, G)) /\ IsLast(p, Below(b, G))
      /\ Place(b, d) = 1 <=> p = None
  BY <1>1, PlaceFacts
<1>3. /\ HeadWith(b, d) = IF p = None THEN b ELSE buddy[d]
      /\ NextWith(b, d) = [x \in HeapBlocks |-> IF x = b THEN f ELSE IF x = p THEN b ELSE next[x]]
  BY <1>2 DEF HeadWith, NextWith
<1> HIDE DEF f, p
<1>4. p \in G \cup {None} /\ f \in G \cup {None}
  BY <1>2 DEF IsFirst, IsLast, From, Below
<1>5. buddy[d] \in HeapBlocks \cup {None} /\ next \in [HeapBlocks -> Ends] /\ G \subseteq HeapBlocks
  BY <1>1 DEF IInv, PointersTyped
<1> HIDE DEF G
<1>6. /\ HeadWith(b, d) \in HeapBlocks \cup {None}
      /\ NextWith(b, d) \in [HeapBlocks -> Ends]
  BY <1>3, <1>4, <1>5 DEF Ends
<1>7. /\ \A x \in HeapBlocks : x # b /\ x \notin G => NextWith(b, d)[x] = next[x]
      /\ \A x \in HeapBlocks : x = p => x \in G
  BY <1>3, <1>4, HeapFacts
<1>8. ASSUME NEW word2, \A x \in G \cup {b} : word2[x] = NextWith(b, d)[x]
      PROVE  Linked(HeadWith(b, d), word2, G \cup {b})
  <2>1. PutIn(word2, next, G, b, f, p)
    BY <1>3, <1>5, <1>8 DEF PutIn
  <2>2. b \in HeapBlocks \ G
    BY DEF G
  <2>3. G \in SUBSET HeapBlocks /\ Linked(buddy[d], next, G)
    BY <1>1 DEF G
  <2>4. IsFirst(f, From(b, G)) /\ IsLast(p, Below(b, G))
    BY <1>2 DEF G
  <2>5. HeadWith(b, d) = IF p = None THEN b ELSE buddy[d]
    BY <1>3
  <2>6. Linked(IF p = None THEN b ELSE buddy[d], word2, G \cup {b})
    BY <2>1, <2>2, <2>3, <2>4, Inserted
  <2> QED
    BY <2>5, <2>6
<1> QED
  BY <1>6, <1>7, <1>8 DEF G, p

LEMMA FreeKeeps ==
  ASSUME IInv, NEW req \in Requests, NEW b \in HeapBlocks, Free(b, req)
  PROVE  Abs!Free(b, req) /\ PointersTyped' /\ InOrder'
<1> DEFINE size == Sets!ceilLog2(req)
           free2 == [d \in Degrees |-> IF d = size THEN On(d) \cup {b} ELSE On(d)]
<1>1. /\ join = None /\ size \in Degrees /\ b \in owned[size]
      /\ buddy' = [buddy EXCEPT ![size] = HeadWith(b, size)]
      /\ next' = NextWith(b, size)
      /\ owned' = [owned EXCEPT ![size] = @ \ {b}]
      /\ join' = <<b, size>> /\ ret' = Size[size]
  BY DEF Free
<1>2. size = Abs!ceilLog2(req)
  BY DEF Sets!ceilLog2, Abs!ceilLog2
<1> HIDE DEF size
<1>3. \A d \in Degrees : b \notin On(d)
  BY <1>1, AbsFacts DEF IInv
<1>4. PointersTyped'
  BY <1>1, <1>3, AddKeeps DEF IInv, PointersTyped
<1>5. ASSUME NEW d \in Degrees
      PROVE  Linked(buddy'[d], next', free2[d])
  <2>1. CASE d = size
    <3>1. buddy'[d] = HeadWith(b, d) /\ free2[d] = On(d) \cup {b}
      BY <1>1, <2>1 DEF IInv, PointersTyped
    <3>2. b \notin On(d) /\ \A x \in On(d) \cup {b} : next'[x] = NextWith(b, d)[x]
      BY <1>1, <1>3, <2>1
    <3> QED
      BY <3>1, <3>2, AddKeeps
  <2>2. CASE d # size
    <3>1. buddy'[d] = buddy[d] /\ free2[d] = On(d)
      BY <1>1, <2>2 DEF IInv, PointersTyped
    <3>2. \A x \in On(d) : x \in HeapBlocks /\ x # b /\ x \notin On(size)
      BY <1>1, <1>3, <2>2, AbsFacts, ListFacts DEF IInv
    <3>3. \A x \in On(d) : next'[x] = next[x]
      BY <1>1, <1>3, <3>2, AddKeeps
    <3>4. Linked(buddy[d], next, On(d))
      BY ListFacts
    <3>5. Linked(buddy[d], next', On(d))
      BY ONLY <3>3, <3>4, LinkedSame
    <3> QED
      BY <3>1, <3>5
  <2> QED
    BY <2>1, <2>2
<1>6. InOrder' /\ [d \in Degrees |-> On(d)]' = free2
  <2>1. free2 \in [Degrees -> SUBSET HeapBlocks]
    BY ListFacts
  <2> HIDE DEF free2
  <2> QED
    BY <1>4, <1>5, <2>1, ListsAfter
<1>7. Abs!Free(b, req)
  <2>1. [d \in Degrees |-> On(d)]' = [[d \in Degrees |-> On(d)] EXCEPT ![size] = @ \cup {b}]
    BY <1>1, <1>6
  <2> QED
    BY <1>1, <1>2, <2>1, AbsNames DEF Abs!Free
<1> QED
  BY <1>4, <1>6, <1>7

LEMMA HalfInside ==
  ASSUME NEW n \in Nat, NEW s \in Nat, NEW c \in Nat, NEW t \in Nat,
         s >= 1, 2 * s <= c, n + c <= t
  PROVE  n < n + s /\ n + s < n + c /\ n + s < t
  OBVIOUS

(* The lists below the split block are empty, and each gets one half; the  *)
(* halves lie in the block, so no other list holds them.                   *)
LEMMA AllocSplitKeeps ==
  ASSUME IInv, NEW req \in Requests, AllocSplit(req)
  PROVE  Abs!AllocSplit(req) /\ PointersTyped' /\ InOrder'
<1> DEFINE size == Sets!ceilLog2(req)
<1>1. /\ join = None /\ size \in Degrees /\ join' = join
      /\ size = Abs!ceilLog2(req)
  BY DEF AllocSplit, Sets!ceilLog2, Abs!ceilLog2
<1>2. PICK cur \in size + 1 .. Top :
        LET node == buddy[cur]
        IN  /\ node # None
            /\ \A e \in size .. cur - 1 : buddy[e] = None
            /\ buddy' = [e \in Degrees |->
                           IF e = cur THEN next[node]
                           ELSE IF e \in size .. cur - 1 THEN node + Size[e] ELSE buddy[e]]
            /\ next' = [x \in HeapBlocks |->
                          IF x = node THEN Junk
                          ELSE IF \E e \in size .. cur - 1 : x = node + Size[e] THEN None
                          ELSE next[x]]
            /\ owned' = [owned EXCEPT ![size] = @ \cup {node}] /\ ret' = node
  BY DEF AllocSplit, Sets!SplitLists, Sets!UpperHalf, Hand
<1> HIDE DEF size
<1> DEFINE node  == buddy[cur]
           lower == size .. cur - 1
           free2 == [e \in Degrees |->
                       IF e = cur THEN On(e) \ {node}
                       ELSE IF e \in lower THEN On(e) \cup {node + Size[e]}
                       ELSE On(e)]
<1>3. /\ cur \in Degrees /\ cur \in Nat /\ size \in Nat /\ size < cur
      /\ \A e \in lower : e \in Degrees /\ e < cur /\ e \in Nat
  BY <1>1, DegreesAssumption DEF Degrees, Top
<1>4. node \in On(cur) /\ node \in HeapBlocks /\ \A c \in On(cur) : node <= c
  BY <1>2, <1>3, ListFacts, LinkedHead
<1>5. \A e \in lower : On(e) = {}
  BY <1>2, <1>3, ListFacts, LinkedHead
<1>6. node \in Nat /\ Size[cur] \in Nat /\ Size[Top] \in Nat /\ node + Size[cur] <= Size[Top]
  <2>1. node \in Abs!Known(cur)
    BY <1>3, <1>4 DEF Abs!Known
  <2> QED
    BY <1>3, <1>4, <2>1, AbsNames, HeapFacts, SizesOf DEF IInv, Abs!IInv, Abs!InHeap
<1>7. \A e \in lower : /\ Size[e] \in Nat /\ node < node + Size[e]
                       /\ node + Size[e] < node + Size[cur]
                       /\ node + Size[e] \in HeapBlocks
  <2> SUFFICES ASSUME NEW e \in lower
               PROVE  /\ Size[e] \in Nat /\ node < node + Size[e]
                      /\ node + Size[e] < node + Size[cur]
                      /\ node + Size[e] \in HeapBlocks
    OBVIOUS
  <2>1. Size[e] \in Nat /\ Size[e] >= 1 /\ 2 * Size[e] <= Size[cur]
    BY <1>3, SizesOf
  <2> HIDE DEF node, lower
  <2>2. node < node + Size[e] /\ node + Size[e] < node + Size[cur] /\ node + Size[e] < Size[Top]
    BY <1>6, <2>1, HalfInside
  <2>3. node + Size[e] \in 0 .. Size[Top] - 1
    BY <1>6, <2>1, <2>2
  <2> QED
    BY <2>1, <2>2, <2>3, HeapFacts
<1>8. \A d \in Degrees : \A x \in On(d) :
        (x # node \/ d # cur) => x < node \/ node + Size[cur] <= x
  <2> SUFFICES ASSUME NEW d \in Degrees, NEW x \in On(d), x # node \/ d # cur
               PROVE  x < node \/ node + Size[cur] <= x
    OBVIOUS
  <2>1. x \in Abs!Known(d) /\ node \in Abs!Known(cur)
    BY <1>3, <1>4 DEF Abs!Known
  <2>2. Abs!Apart(x, d, node, cur)
    BY <1>3, <2>1, AbsNames DEF IInv, Abs!IInv, Abs!NoOverlap
  <2>3. x \in Nat /\ Size[d] \in Nat /\ Size[d] >= 1
    BY ListFacts, HeapFacts, SizesOf
  <2> HIDE DEF node
  <2> QED
    BY <1>6, <2>2, <2>3 DEF Abs!Apart
<1>9. \A d \in Degrees : \A x \in On(d) :
        (x # node \/ d # cur) => x # node /\ \A e \in lower : x # node + Size[e]
  <2> SUFFICES ASSUME NEW d \in Degrees, NEW x \in On(d), x # node \/ d # cur
               PROVE  x # node /\ \A e \in lower : x # node + Size[e]
    OBVIOUS
  <2>1. x < node \/ node + Size[cur] <= x
    BY <1>8
  <2>2. x \in Nat
    BY ListFacts, HeapFacts
  <2>3. Size[cur] >= 1
    BY <1>3, SizesOf
  <2> HIDE DEF node, lower
  <2> QED
    BY <1>6, <1>7, <2>1, <2>2, <2>3
<1>10. PointersTyped'
  <2>1. next[node] \in HeapBlocks \cup {None}
    BY <1>2, <1>3, <1>4, ListFacts, LinkedNext
  <2> QED
    BY <1>2, <1>7, <2>1 DEF IInv, PointersTyped, Ends
<1>11. \A d \in Degrees : \A x \in On(d) : (x # node \/ d # cur) => next'[x] = next[x]
  <2> SUFFICES ASSUME NEW d \in Degrees, NEW x \in On(d), x # node \/ d # cur
               PROVE  next'[x] = next[x]
    OBVIOUS
  <2>1. x \in HeapBlocks /\ x # node /\ ~\E e \in lower : x = node + Size[e]
    BY <1>9, ListFacts
  <2> QED
    BY <1>2, <2>1
<1>12. ASSUME NEW d \in Degrees
       PROVE  Linked(buddy'[d], next', free2[d])
  <2>1. CASE d = cur
    <3>1. buddy'[d] = next[node] /\ free2[d] = On(d) \ {node}
      BY <1>2, <2>1
    <3>2. \A x \in On(d) \ {node} : next'[x] = next[x]
      BY <1>11
    <3>3. node \in On(d) /\ Linked(node, next, On(d)) /\ On(d) \in SUBSET HeapBlocks
      BY <1>4, <2>1, ListFacts
    <3>4. Linked(next[node], next', On(d) \ {node})
      <4> HIDE DEF node
      <4> QED
        BY <3>2, <3>3, TakenHead
    <3> QED
      BY <3>1, <3>4
  <2>2. CASE d \in lower
    <3>1. d # cur /\ buddy'[d] = node + Size[d]
      BY <1>2, <1>3, <2>2
    <3>2. free2[d] = {node + Size[d]}
      BY <1>5, <2>2, <3>1
    <3>3. node + Size[d] \in HeapBlocks /\ node + Size[d] # node
      <4>1. node < node + Size[d] /\ node + Size[d] \in HeapBlocks /\ Size[d] \in Nat
        BY <1>7, <2>2
      <4> HIDE DEF node
      <4> QED
        BY <4>1, <1>6
    <3>4. next'[node + Size[d]] = None
      BY <1>2, <2>2, <3>3
    <3> QED
      BY <3>1, <3>2, <3>3, <3>4, OneNode
  <2>3. CASE d # cur /\ d \notin lower
    <3>1. buddy'[d] = buddy[d] /\ free2[d] = On(d)
      BY <1>2, <2>3
    <3>2. \A x \in On(d) : next'[x] = next[x]
      BY <1>11, <2>3
    <3>3. Linked(buddy[d], next, On(d))
      BY ListFacts
    <3>4. Linked(buddy[d], next', On(d))
      BY ONLY <3>2, <3>3, LinkedSame
    <3> QED
      BY <3>1, <3>4
  <2> QED
    BY <2>1, <2>2, <2>3
<1>13. InOrder' /\ [d \in Degrees |-> On(d)]' = free2
  <2>1. free2 \in [Degrees -> SUBSET HeapBlocks]
    BY <1>7, ListFacts
  <2> HIDE DEF free2
  <2> QED
    BY <1>10, <1>12, <2>1, ListsAfter
<1>14. Abs!AllocSplit(req)
  <2>1. /\ Abs!IsHead(node, cur) /\ Abs!Hand(node, size)
    BY <1>2, <1>3, <1>4 DEF Abs!IsHead, Abs!Hand
  <2>2. On(size) = {} /\ \A e \in lower : [d \in Degrees |-> On(d)][e] = {}
    BY <1>3, <1>5
  <2>3. [d \in Degrees |-> On(d)]' =
          [e \in Abs!Degrees |->
             IF e = cur THEN [d \in Degrees |-> On(d)][e] \ {node}
             ELSE IF e \in Abs!SplitLists(size, cur)
             THEN [d \in Degrees |-> On(d)][e] \cup {Abs!UpperHalf(node, e)}
             ELSE [d \in Degrees |-> On(d)][e]]
    BY <1>13, AbsNames DEF Abs!SplitLists, Abs!UpperHalf
  <2>4. cur \in size + 1 .. Abs!Top /\ node \in [d \in Degrees |-> On(d)][cur]
    BY <1>3, <1>4, AbsNames
  <2> HIDE DEF node
  <2> QED
    BY <1>1, <2>1, <2>2, <2>3, <2>4, AbsNames DEF Abs!AllocSplit
<1> QED
  BY <1>10, <1>13, <1>14

(* Two neighbours on list d become one node of list d + 1: the new node is *)
(* put there while its memory is still a node of list d, and the word that *)
(* leads past the two is written afterwards.                               *)
LEMMA MergeKeeps ==
  ASSUME IInv, NEW d \in Degrees, NEW low \in On(d), NEW high \in On(d),
         low + Size[d] = high, next[low] = high,
         NEW p, IsLast(p, Below(low, On(d))), Merge(low, high, d, p)
  PROVE  Abs!Merge(low, high, d) /\ PointersTyped' /\ InOrder'
<1> DEFINE G == On(d)
           q == Behind(d + 1, Place(low, d + 1))
           free2 == [e \in Degrees |-> IF e = d THEN On(e) \ {low, high}
                                       ELSE IF e = d + 1 THEN On(e) \cup {low}
                                       ELSE On(e)]
<1>1. /\ G \in SUBSET HeapBlocks /\ Linked(buddy[d], next, G)
      /\ low \in Nat /\ high \in Nat /\ low \in HeapBlocks /\ high \in HeapBlocks
      /\ d \in Nat /\ Size[d] \in Nat /\ Size[d] >= 1 /\ low < high
  BY ListFacts, HeapFacts, SizesOf
<1>2. d + 1 \in Degrees /\ d + 1 # d
  <2>1. high + Size[d] <= Size[Top]
    BY AbsNames DEF IInv, Abs!IInv, Abs!InHeap, Abs!Known
  <2>2. d # Top
    <3> SUFFICES ASSUME d = Top
                 PROVE  FALSE
      OBVIOUS
    <3>1. high + Size[d] <= Size[d]
      BY <2>1
    <3> QED
      BY <1>1, <3>1
  <2> QED
    BY <1>1, <2>2, DegreesAssumption DEF Degrees, Top
<1>3. /\ buddy' = [buddy EXCEPT ![d + 1] = HeadWith(low, d + 1),
                                ![d] = IF p = None THEN next[high] ELSE buddy[d]]
      /\ next' = [x \in HeapBlocks |-> IF x = p THEN next[high]
                                       ELSE IF x = high THEN Junk
                                       ELSE NextWith(low, d + 1)[x]]
      /\ join' = <<low, d + 1>> /\ owned' = owned /\ ret' = ret
  BY DEF Merge, Unlink
<1>4. \A e \in Degrees : e # d => low \notin On(e) /\ high \notin On(e) /\ On(e) \cap G = {}
  BY AbsFacts DEF IInv
<1>5. p \in G \cup {None} /\ p # low /\ p # high
  <2>1. CASE Below(low, G) = {}
    <3>1. p = None /\ None \notin HeapBlocks
      BY <2>1, HeapFacts DEF IsLast
    <3> QED
      BY <1>1, <3>1
  <2>2. CASE Below(low, G) # {}
    <3>1. p \in G /\ p < low /\ p \in Nat
      BY <1>1, <2>2, HeapFacts DEF IsLast, Below
    <3> QED
      BY <1>1, <3>1
  <2> QED
    BY <2>1, <2>2
<1>6. /\ HeadWith(low, d + 1) \in HeapBlocks \cup {None}
      /\ NextWith(low, d + 1) \in [HeapBlocks -> Ends]
      /\ \A x \in HeapBlocks : x # low /\ x \notin On(d + 1) => NextWith(low, d + 1)[x] = next[x]
      /\ \A word2 : (\A x \in On(d + 1) \cup {low} : word2[x] = NextWith(low, d + 1)[x])
           => Linked(HeadWith(low, d + 1), word2, On(d + 1) \cup {low})
  BY <1>1, <1>2, <1>4, AddKeeps
<1>7. next[high] \in G \cup {None}
  BY <1>1, LinkedNext
<1> HIDE DEF G, q
<1>8. PointersTyped'
  BY <1>1, <1>2, <1>3, <1>6, <1>7 DEF IInv, PointersTyped, Ends
<1>9. \A e \in Degrees : On(e) \subseteq HeapBlocks
  BY ListFacts
<1>10. Linked(buddy'[d], next', free2[d])
  <2>1. /\ buddy'[d] = IF p = None THEN next[high] ELSE buddy[d]
        /\ free2[d] = G \ {low, high}
    BY <1>2, <1>3 DEF IInv, PointersTyped, G
  <2>2. \A x \in G \ {low, high} : next'[x] = IF x = p THEN next[high] ELSE next[x]
    <3> SUFFICES ASSUME NEW x \in G \ {low, high}
                 PROVE  next'[x] = IF x = p THEN next[high] ELSE next[x]
      OBVIOUS
    <3>1. x \in HeapBlocks /\ x \notin On(d + 1)
      BY <1>1, <1>2, <1>4
    <3> QED
      BY <1>3, <1>6, <3>1
  <2>3. TakenOut(next', next, G \ {low, high}, p, next[high])
    BY <2>2 DEF TakenOut
  <2>4. low \in G /\ high \in G /\ IsLast(p, Below(low, G))
    BY DEF G
  <2>5. Linked(IF p = None THEN next[high] ELSE buddy[d], next', G \ {low, high})
    BY <1>1, <2>3, <2>4, Unlinked
  <2> QED
    BY <2>1, <2>5
<1>11. Linked(buddy'[d + 1], next', free2[d + 1])
  <2>1. buddy'[d + 1] = HeadWith(low, d + 1) /\ free2[d + 1] = On(d + 1) \cup {low}
    BY <1>2, <1>3 DEF IInv, PointersTyped
  <2>2. \A x \in On(d + 1) \cup {low} : next'[x] = NextWith(low, d + 1)[x]
    <3> SUFFICES ASSUME NEW x \in On(d + 1) \cup {low}
                 PROVE  next'[x] = NextWith(low, d + 1)[x]
      OBVIOUS
    <3>1. x \in HeapBlocks
      BY <1>1, <1>2, <1>9
    <3>2. x # high
      BY <1>1, <1>2, <1>4
    <3>3. x # p
      <4>1. None \notin HeapBlocks
        BY HeapFacts
      <4> QED
        BY <1>2, <1>4, <1>5, <3>1, <4>1
    <3> QED
      BY <1>3, <3>1, <3>2, <3>3
  <2> QED
    BY <1>6, <2>1, <2>2
<1>12. ASSUME NEW e \in Degrees, e # d, e # d + 1
       PROVE  Linked(buddy'[e], next', free2[e])
  <2>1. buddy'[e] = buddy[e] /\ free2[e] = On(e)
    BY <1>3, <1>12 DEF IInv, PointersTyped
  <2>2. \A x \in On(e) : next'[x] = next[x]
    <3> SUFFICES ASSUME NEW x \in On(e)
                 PROVE  next'[x] = next[x]
      OBVIOUS
    <3>1. x \in HeapBlocks /\ x # high /\ x # low /\ x \notin G
      BY <1>4, <1>9, <1>12
    <3>2. x \notin On(d + 1)
      BY <1>2, <1>12, AbsFacts DEF IInv
    <3>3. x # p
      BY <1>5, <3>1, HeapFacts
    <3> QED
      BY <1>3, <1>6, <3>1, <3>2, <3>3
  <2>3. Linked(buddy[e], next, On(e))
    BY ListFacts
  <2>4. Linked(buddy[e], next', On(e))
    BY ONLY <2>2, <2>3, LinkedSame
  <2> QED
    BY <2>1, <2>4
<1>13. InOrder' /\ [e \in Degrees |-> On(e)]' = free2
  <2>1. free2 \in [Degrees -> SUBSET HeapBlocks]
    BY <1>1, <1>9
  <2>2. \A e \in Degrees : Linked(buddy'[e], next', free2[e])
    BY <1>10, <1>11, <1>12
  <2> HIDE DEF free2
  <2> QED
    BY <1>8, <2>1, <2>2, ListsAfter
<1>14. Abs!Merge(low, high, d)
  <2>1. [e \in Degrees |-> On(e)]' =
          [[e \in Degrees |-> On(e)] EXCEPT ![d] = @ \ {low, high}, ![d + 1] = @ \cup {low}]
    BY <1>2, <1>13
  <2> QED
    BY <1>3, <2>1 DEF Abs!Merge
<1> QED
  BY <1>8, <1>13, <1>14

(* The neighbours by pointer are the neighbours by address. *)
LEMMA FollowingNode ==
  ASSUME IInv, NEW d \in Degrees, NEW b \in On(d), NEW f
  PROVE  /\ Abs!IsFollowing(f, b, d) <=> next[b] # None /\ f = next[b]
         /\ Abs!IsFollowing(f, b, d) => f \in On(d)
<1>1. On(d) \in SUBSET HeapBlocks /\ Linked(buddy[d], next, On(d)) /\ On(d) \subseteq Nat
  BY ListFacts, HeapFacts
<1>2. Abs!IsFollowing(f, b, d) <=> f \in On(d) /\ b < f /\ \A c \in On(d) : b < c => f <= c
  BY DEF Abs!IsFollowing
<1>3. /\ next[b] = None <=> Above(b, On(d)) = {}
      /\ next[b] # None => /\ next[b] \in On(d) /\ b < next[b]
                           /\ \A c \in On(d) : b < c => next[b] <= c
  BY <1>1, LinkedNext
<1>4. ASSUME f \in On(d), b < f, \A c \in On(d) : b < c => f <= c
      PROVE  next[b] # None /\ f = next[b]
  <2>1. next[b] # None
    BY <1>3, <1>4 DEF Above
  <2>2. f <= next[b] /\ next[b] <= f /\ f \in Nat /\ next[b] \in Nat
    BY <1>1, <1>3, <1>4, <2>1
  <2> QED
    BY <2>1, <2>2
<1> QED
  BY <1>2, <1>3, <1>4

LEMMA PreviousNode ==
  ASSUME IInv, NEW d \in Degrees, NEW b \in On(d), NEW p
  PROVE  LET prev == Behind(d, PlaceOf(d, {b})) IN
         /\ Abs!IsPrevious(p, b, d) <=> prev # None /\ p = prev
         /\ prev # None => /\ next[prev] = b
                           /\ IsLast(Behind(d, PlaceOf(d, {b}) - 1), Below(prev, On(d)))
<1> DEFINE prev == Behind(d, PlaceOf(d, {b}))
<1>1. /\ On(d) \in SUBSET HeapBlocks /\ Linked(buddy[d], next, On(d)) /\ Lists(Walk(d), On(d))
      /\ On(d) \subseteq Nat /\ None \notin On(d)
  BY ListFacts, HeapFacts
<1>2. /\ IsLast(prev, Below(b, On(d)))
      /\ prev # None => IsLast(Behind(d, PlaceOf(d, {b}) - 1), Below(prev, On(d)))
  BY <1>1, NodeFacts
<1> HIDE DEF prev
<1>3. /\ prev = None <=> Below(b, On(d)) = {}
      /\ prev # None => /\ prev \in On(d) /\ prev < b
                        /\ \A c \in On(d) : c < b => c <= prev
  BY <1>1, <1>2 DEF IsLast, Below
<1>4. Abs!IsPrevious(p, b, d) <=> p \in On(d) /\ p < b /\ \A c \in On(d) : c < b => c <= p
  BY DEF Abs!IsPrevious
<1>5. ASSUME p \in On(d), p < b, \A c \in On(d) : c < b => c <= p
      PROVE  prev # None /\ p = prev
  <2>1. prev # None
    BY <1>3, <1>5 DEF Below
  <2>2. p <= prev /\ prev <= p /\ p \in Nat /\ prev \in Nat
    BY <1>1, <1>3, <1>5, <2>1
  <2> QED
    BY <2>1, <2>2
<1>6. ASSUME prev # None
      PROVE  next[prev] = b
  <2>1. prev \in On(d) /\ prev < b
    BY <1>3, <1>6
  <2>2. Above(prev, On(d)) # {}
    BY <2>1 DEF Above
  <2>3. next[prev] \in On(d) /\ prev < next[prev] /\ next[prev] <= b
    BY <1>1, <2>1, <2>2, LinkedNext
  <2>4. next[prev] < b => next[prev] <= prev
    BY <1>3, <1>6, <2>3
  <2>5. next[prev] \in Nat /\ prev \in Nat /\ b \in Nat
    BY <1>1, <2>1, <2>3
  <2> QED
    BY <2>3, <2>4, <2>5
<1> QED
  BY <1>2, <1>3, <1>4, <1>5, <1>6 DEF prev

LEMMA JoinFollowingKeeps ==
  ASSUME IInv, JoinFollowing
  PROVE  Abs!JoinFollowing /\ PointersTyped' /\ InOrder'
<1> DEFINE b == join[1]
           d == join[2]
           f == next[b]
           p == Behind(d, PlaceOf(d, {b}))
<1>1. /\ join # None /\ d \in Degrees /\ b \in On(d)
  BY AbsFacts DEF IInv, JoinFollowing
<1>2. /\ ~Abs!TakenAsRight(b, d) /\ f # None /\ b + Size[d] = f
      /\ Merge(b, f, d, p)
  BY DEF JoinFollowing, FollowingTouches, Sets!TakenAsRight, Abs!TakenAsRight
<1>3. Abs!IsFollowing(f, b, d) /\ f \in On(d)
  <2>1. Abs!IsFollowing(f, b, d)
    BY <1>1, <1>2, FollowingNode
  <2>2. f \in On(d)
    BY <1>1, <2>1, FollowingNode
  <2> QED
    BY <2>1, <2>2
<1>4. IsLast(p, Below(b, On(d)))
  BY <1>1, ListFacts, NodeFacts
<1>5. Abs!Merge(b, f, d) /\ PointersTyped' /\ InOrder'
  BY <1>1, <1>2, <1>3, <1>4, MergeKeeps
<1>6. Abs!JoinFollowing
  BY <1>1, <1>2, <1>3, <1>5 DEF Abs!JoinFollowing
<1> QED
  BY <1>5, <1>6

LEMMA JoinPreviousKeeps ==
  ASSUME IInv, JoinPrevious
  PROVE  Abs!JoinPrevious /\ PointersTyped' /\ InOrder'
<1> DEFINE b == join[1]
           d == join[2]
           n == PlaceOf(d, {b})
           p == Behind(d, n)
<1>1. /\ join # None /\ d \in Degrees /\ b \in On(d)
  BY AbsFacts DEF IInv, JoinPrevious
<1>2. /\ Abs!TakenAsRight(b, d) /\ p # None /\ p + Size[d] = b
      /\ Merge(p, b, d, Behind(d, n - 1))
  BY DEF JoinPrevious, PrevTouches, Sets!TakenAsRight, Abs!TakenAsRight
<1>3. /\ Abs!IsPrevious(p, b, d) /\ p \in On(d) /\ next[p] = b
      /\ IsLast(Behind(d, n - 1), Below(p, On(d)))
  BY <1>1, <1>2, PreviousNode DEF Abs!IsPrevious
<1>4. Abs!Merge(p, b, d) /\ PointersTyped' /\ InOrder'
  BY <1>1, <1>2, <1>3, MergeKeeps
<1>5. Abs!JoinPrevious
  BY <1>1, <1>2, <1>3, <1>4 DEF Abs!JoinPrevious
<1> QED
  BY <1>4, <1>5

LEMMA JoinStopIs ==
  ASSUME IInv, JoinStop
  PROVE  Abs!JoinStop
<1> DEFINE b == join[1]
           d == join[2]
           prev == Behind(d, PlaceOf(d, {b}))
<1>1. /\ join # None /\ d \in Degrees /\ b \in On(d)
      /\ join' = None /\ UNCHANGED <<buddy, next, owned, ret>>
  BY AbsFacts DEF IInv, JoinStop
<1>2. /\ ~Abs!TakenAsRight(b, d) => next[b] = None \/ b + Size[d] # next[b]
      /\ Abs!TakenAsRight(b, d) => prev = None \/ prev + Size[d] # b
  BY DEF JoinStop, FollowingTouches, PrevTouches, Sets!TakenAsRight, Abs!TakenAsRight
<1>3. \A f : Abs!IsFollowing(f, b, d) <=> next[b] # None /\ f = next[b]
  BY <1>1, FollowingNode
<1>4. \A p : Abs!IsPrevious(p, b, d) <=> prev # None /\ p = prev
  BY <1>1, PreviousNode
<1>5. [e \in Degrees |-> On(e)]' = [e \in Degrees |-> On(e)]
  BY <1>1 DEF On, Walk
<1> HIDE DEF prev
<1> QED
  BY <1>1, <1>2, <1>3, <1>4, <1>5 DEF Abs!JoinStop

(* Neither heads nor words change. *)
LEMMA NothingMoves ==
  ASSUME IInv, UNCHANGED <<buddy, next>>
  PROVE  /\ PointersTyped' /\ InOrder'
         /\ [e \in Degrees |-> On(e)]' = [e \in Degrees |-> On(e)]
<1>1. \A d \in Degrees : On(d)' = On(d)
  BY DEF On, Walk
<1> QED
  BY <1>1 DEF IInv, PointersTyped, InOrder

LEMMA AllocFailIs ==
  ASSUME IInv, NEW req \in Requests, AllocFail(req)
  PROVE  Abs!AllocFail(req)
<1> DEFINE size == Sets!ceilLog2(req)
<1>1. /\ join = None /\ ret' = None /\ UNCHANGED <<buddy, next, owned, join>>
      /\ \/ size \notin Degrees
         \/ \A e \in size .. Top : buddy[e] = None
      /\ size = Abs!ceilLog2(req)
  BY DEF AllocFail, Sets!ceilLog2, Abs!ceilLog2
<1> HIDE DEF size
<1>2. CASE size \notin Degrees
  BY <1>1, <1>2, NothingMoves, AbsNames DEF Abs!AllocFail
<1>3. CASE size \in Degrees
  <2>1. \A e \in size .. Top : e \in Degrees
    BY <1>3, DegreesAssumption DEF Degrees, Top
  <2>2. \A e \in size .. Top : On(e) = {}
    BY <1>1, <1>3, <2>1, ListFacts, LinkedHead
  <2>3. \A e \in size .. Abs!Top : [d \in Degrees |-> On(d)][e] = {}
    BY <2>1, <2>2, AbsNames
  <2> QED
    BY <1>1, <2>3, NothingMoves DEF Abs!AllocFail
<1> QED
  BY <1>2, <1>3

(* Every step is one of BuddyAllocator or none, and keeps the invariant.   *)
LEMMA NextKeeps ==
  ASSUME IInv, [Next]_vars
  PROVE  [Abs!Next]_(Abs!vars) /\ IInv'
<1>1. [Abs!Next]_(Abs!vars) /\ PointersTyped' /\ InOrder'
  <2>1. CASE \E req \in Requests : AllocExact(req)
    BY <2>1, AllocExactKeeps DEF Abs!Next
  <2>2. CASE \E req \in Requests : AllocSplit(req)
    BY <2>2, AllocSplitKeeps DEF Abs!Next
  <2>3. CASE \E req \in Requests : AllocFail(req)
    <3>1. UNCHANGED <<buddy, next>>
      BY <2>3 DEF AllocFail
    <3> QED
      BY <2>3, <3>1, AllocFailIs, NothingMoves DEF Abs!Next
  <2>4. CASE \E req \in Requests, b \in HeapBlocks : Free(b, req)
    BY <2>4, FreeKeeps, AbsNames DEF Abs!Next
  <2>5. CASE \E req \in Requests, addr \in {0, Sets!KernelHeapEnd} : FreeRefused(addr, req)
    <3>1. PICK req \in Requests, addr \in {0, Sets!KernelHeapEnd} : FreeRefused(addr, req)
      BY <2>5
    <3>2. UNCHANGED <<buddy, next>> /\ addr \in {0, Abs!KernelHeapEnd}
      BY <3>1 DEF FreeRefused, Sets!KernelHeapEnd, Abs!KernelHeapEnd
    <3>3. Abs!FreeRefused(addr, req)
      BY <3>1, <3>2, NothingMoves, AbsNames
         DEF FreeRefused, Sets!FreeRefused, Abs!FreeRefused, Sets!ceilLog2, Abs!ceilLog2,
             Sets!KernelHeapEnd, Abs!KernelHeapEnd, Sets!Degrees, Abs!Degrees
    <3> QED
      BY <3>2, <3>3, NothingMoves DEF Abs!Next
  <2>6. CASE JoinFollowing
    BY <2>6, JoinFollowingKeeps DEF Abs!Next
  <2>7. CASE JoinPrevious
    BY <2>7, JoinPreviousKeeps DEF Abs!Next
  <2>8. CASE JoinStop
    <3>1. UNCHANGED <<buddy, next>>
      BY <2>8 DEF JoinStop
    <3> QED
      BY <2>8, <3>1, JoinStopIs, NothingMoves DEF Abs!Next
  <2>9. CASE UNCHANGED vars
    <3>1. UNCHANGED <<buddy, next, owned, join, ret>>
      BY <2>9 DEF vars
    <3> QED
      BY <3>1, NothingMoves DEF Abs!vars
  <2> QED
    BY <2>1, <2>2, <2>3, <2>4, <2>5, <2>6, <2>7, <2>8, <2>9 DEF Next
<1>2. Abs!IInv'
  BY <1>1, AbsNextInv DEF IInv
<1> QED
  BY <1>1, <1>2 DEF IInv

LEMMA InitKeeps ==
  ASSUME Init
  PROVE  Abs!Init /\ IInv
<1> DEFINE free0 == [d \in Degrees |-> IF d = Top THEN {0} ELSE {}]
<1>1. 0 \in HeapBlocks /\ None \notin HeapBlocks /\ Top \in Degrees
  BY HeapFacts
<1>2. PointersTyped
  BY <1>1 DEF Init, PointersTyped, Ends
<1>3. \A d \in Degrees : Linked(buddy[d], next, free0[d])
  <2>1. next[0] = None
    BY <1>1 DEF Init
  <2>2. Linked(0, next, {0})
    BY <1>1, <2>1, OneNode
  <2>3. Linked(None, next, {})
    BY DEF Linked, IsFirst
  <2> QED
    BY <2>2, <2>3 DEF Init
<1>4. \A d \in Degrees : On(d) = free0[d]
  <2>1. \A d \in Degrees : free0[d] \in SUBSET HeapBlocks
    BY <1>1
  <2> HIDE DEF free0
  <2> QED
    BY <1>2, <1>3, <2>1, LinkedWalk DEF PointersTyped, On, Walk
<1>5. InOrder
  BY <1>3, <1>4 DEF InOrder
<1>6. Abs!Init
  BY <1>4, AbsNames DEF Init, Abs!Init
<1>7. Abs!IInv
  BY <1>6, AbsAssumed, Abs!InitInv
<1> QED
  BY <1>2, <1>5, <1>6, <1>7 DEF IInv

-----------------------------------------------------------------------------
(* The invariant holds throughout. *)
THEOREM Invariance == Spec => []IInv
<1>1. Init => IInv
  BY InitKeeps
<1>2. IInv /\ [Next]_vars => IInv'
  BY NextKeeps
<1> QED
  BY <1>1, <1>2, PTL DEF Spec

(* Every list climbs in address and ends in null, for every number of      *)
(* degrees: no next word outside the list is followed.                     *)
THEOREM ListsInOrder == Spec => []ListsClimb
<1>1. IInv => ListsClimb
  <2> SUFFICES ASSUME IInv, NEW d \in Degrees
               PROVE  /\ Last(Walk(d)) = None
                      /\ \A b \in On(d) : next[b] = None \/ (next[b] \in HeapBlocks /\ b < next[b])
    BY DEF ListsClimb
  <2>1. Last(Walk(d)) = None
    BY ListFacts DEF Lists, Last
  <2>2. \A b \in On(d) : next[b] = None \/ (next[b] \in HeapBlocks /\ b < next[b])
    BY ListFacts, LinkedNext
  <2> QED
    BY <2>1, <2>2
<1> QED
  BY <1>1, Invariance, PTL

(* The pointers implement the sets: every head taken, node inserted and    *)
(* pair unlinked is what BuddyAllocator says.                              *)
THEOREM ImplementsSets == Spec => ImplementsBuddyAllocator
<1>1. Init => Sets!Init
  BY InitKeeps DEF Abs!Init, Sets!Init, Abs!Degrees, Sets!Degrees, Abs!Top, Sets!Top
<1>2. IInv /\ [Next]_vars => [Sets!Next]_(Sets!vars)
  <2>1. Sets!Next <=> Abs!Next
    BY DEF Sets!Next, Abs!Next, Sets!AllocExact, Abs!AllocExact, Sets!AllocSplit, Abs!AllocSplit,
           Sets!AllocFail, Abs!AllocFail, Sets!Free, Abs!Free, Sets!FreeRefused, Abs!FreeRefused,
           Sets!JoinFollowing, Abs!JoinFollowing, Sets!JoinPrevious, Abs!JoinPrevious,
           Sets!JoinStop, Abs!JoinStop, Sets!Merge, Abs!Merge, Sets!Hand, Abs!Hand,
           Sets!IsHead, Abs!IsHead, Sets!IsFollowing, Abs!IsFollowing,
           Sets!IsPrevious, Abs!IsPrevious, Sets!TakenAsRight, Abs!TakenAsRight,
           Sets!UpperHalf, Abs!UpperHalf, Sets!SplitLists, Abs!SplitLists,
           Sets!ceilLog2, Abs!ceilLog2, Sets!KernelHeapEnd, Abs!KernelHeapEnd,
           Sets!HeapBlocks, Abs!HeapBlocks, Sets!Degrees, Abs!Degrees, Sets!Top, Abs!Top
  <2>2. UNCHANGED Sets!vars <=> UNCHANGED Abs!vars
    BY DEF Sets!vars, Abs!vars
  <2> QED
    BY <2>1, <2>2, NextKeeps
<1> QED
  BY <1>1, <1>2, Invariance, PTL DEF Spec, ImplementsBuddyAllocator, Sets!Spec
=============================================================================
