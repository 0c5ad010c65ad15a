----------------------- MODULE MemoryAllocatorProofs -----------------------
(***************************************************************************)
(* Proofs about MemoryAllocator and MemoryLists for every arena, header    *)
(* and block size and every set of requests: the segments always tile the  *)
(* arena, free ones never touch, the allocator implements the promise of   *)
(* BlockHeap, and the words of memory hold the list of the free segments.  *)
(*                                                                         *)
(* A step of mem_alloc or mem_free moves a segment between the free and    *)
(* the held ones, cuts one in two or glues two that touch.  The lemmas on  *)
(* Tiles say that cutting and gluing keep a tiling, whoever holds the      *)
(* pieces; the steps then only account for who does.                       *)
(***************************************************************************)
EXTENDS MemoryLists, Lemmas

Apart(s, t) == End(s) <= t.at \/ End(t) <= s.at

(* The segments of S fill the arena without overlap. *)
Tiles(S) ==
  /\ S \subseteq AllSegments
  /\ \A s, t \in S : s # t => Apart(s, t)
  /\ \A s \in S : End(s) <= HeapSize
  /\ \A a \in 0 .. HeapSize - 1 : \E s \in S : s.at <= a /\ a < End(s)

IInv ==
  /\ Tiles(Segments)
  /\ free \cap used = {}
  /\ Coalesced

-----------------------------------------------------------------------------
(* Facts about tilings. *)

LEMMA SegmentFacts ==
  ASSUME NEW s \in AllSegments
  PROVE  /\ s.at \in Nat /\ s.memSize \in Nat /\ Header \in Nat
         /\ End(s) = s.at + Header + s.memSize
         /\ End(s) \in Nat /\ s.at < End(s)
  BY SizesAssumption DEF AllSegments, End

(* Two segments of a tiling that share a byte are the same. *)
LEMMA TilesShare ==
  ASSUME NEW S, Tiles(S), NEW s \in S, NEW t \in S, s.at < End(t), t.at < End(s)
  PROVE  s = t
<1>1. s \in AllSegments /\ t \in AllSegments
  BY DEF Tiles
<1> QED
  BY <1>1, SegmentFacts DEF Tiles, Apart

LEMMA CutTiles ==
  ASSUME NEW S, Tiles(S), NEW s \in S, NEW n \in Nat, n + Header <= s.memSize,
         NEW part, part = Segment(s.at, n),
         NEW rest, rest = Segment(s.at + Header + n, s.memSize - n - Header)
  PROVE  Tiles((S \ {s}) \cup {part, rest})
<1> DEFINE T == (S \ {s}) \cup {part, rest}
<1>1. /\ s \in AllSegments /\ s.at \in Nat /\ s.memSize \in Nat /\ Header \in Nat
      /\ End(s) = s.at + Header + s.memSize /\ Header > 0
  BY SegmentFacts, SizesAssumption DEF Tiles
<1>2. /\ part \in AllSegments /\ part.at = s.at /\ End(part) = s.at + Header + n
  BY <1>1 DEF Segment, AllSegments, End
<1>3. /\ rest \in AllSegments /\ rest.at = End(part) /\ End(rest) = End(s)
  <2>1. s.at + Header + n \in Nat /\ s.memSize - n - Header \in Nat
    BY <1>1
  <2> QED
    BY <2>1, <1>1, <1>2 DEF Segment, AllSegments, End
<1>4. ASSUME NEW t \in S, t # s
      PROVE  t \in AllSegments /\ Apart(t, s)
  BY <1>4 DEF Tiles
<1>5. ASSUME NEW t \in S, t # s
      PROVE  Apart(t, part) /\ Apart(part, t) /\ Apart(t, rest) /\ Apart(rest, t)
  BY <1>1, <1>2, <1>3, <1>4, <1>5, SegmentFacts DEF Apart
<1>6. \A t, u \in T : t # u => Apart(t, u)
  <2>1. Apart(part, rest) /\ Apart(rest, part)
    BY <1>2, <1>3, SegmentFacts DEF Apart
  <2>2. \A t, u \in S : t # u => Apart(t, u)
    BY DEF Tiles
  <2> QED
    BY <1>5, <2>1, <2>2
<1>7. \A t \in T : t \in AllSegments /\ End(t) <= HeapSize
  BY <1>1, <1>2, <1>3, SizesAssumption DEF Tiles
<1>8. ASSUME NEW a \in 0 .. HeapSize - 1
      PROVE  \E t \in T : t.at <= a /\ a < End(t)
  <2>1. PICK t \in S : t.at <= a /\ a < End(t)
    BY DEF Tiles
  <2>2. CASE t = s
    <3>1. a < End(part) \/ rest.at <= a
      BY <1>1, <1>2, <1>3
    <3> QED
      BY <2>1, <2>2, <3>1, <1>2, <1>3
  <2> QED
    BY <2>1, <2>2
<1> QED
  BY <1>6, <1>7, <1>8 DEF Tiles

LEMMA GlueTiles ==
  ASSUME NEW S, Tiles(S), NEW s \in S, NEW t \in S, Touches(s, t),
         NEW j, j = Joined(s, t)
  PROVE  /\ Tiles((S \ {s, t}) \cup {j})
         /\ j \in AllSegments /\ j.at = s.at /\ End(j) = End(t)
<1> DEFINE T == (S \ {s, t}) \cup {j}
<1>1. s \in AllSegments /\ t \in AllSegments
  BY DEF Tiles
<1>2. /\ s.at \in Nat /\ s.memSize \in Nat /\ t.at \in Nat /\ t.memSize \in Nat
      /\ Header \in Nat /\ End(s) = s.at + Header + s.memSize
      /\ End(t) = t.at + Header + t.memSize /\ End(s) = t.at
  BY <1>1, SegmentFacts DEF Touches
<1>20. j = Segment(s.at, s.memSize + Header + t.memSize)
  BY DEF Joined
<1>3. j \in AllSegments /\ j.at = s.at /\ End(j) = End(t)
  <2>1. s.memSize + Header + t.memSize \in Nat
    BY <1>2
  <2> QED
    BY <2>1, <1>2, <1>20 DEF Segment, AllSegments, End
<1>4. ASSUME NEW u \in S, u # s, u # t
      PROVE  Apart(u, j) /\ Apart(j, u)
  <2>1. u \in AllSegments /\ Apart(u, s) /\ Apart(u, t)
    BY <1>4 DEF Tiles
  <2> QED
    BY <1>2, <1>3, <2>1, SegmentFacts DEF Apart
<1>5. \A u, v \in T : u # v => Apart(u, v)
  <2>1. \A u, v \in S : u # v => Apart(u, v)
    BY DEF Tiles
  <2> QED
    BY <1>4, <2>1
<1>6. \A u \in T : u \in AllSegments /\ End(u) <= HeapSize
  BY <1>3 DEF Tiles
<1>7. ASSUME NEW a \in 0 .. HeapSize - 1
      PROVE  \E u \in T : u.at <= a /\ a < End(u)
  <2>1. PICK u \in S : u.at <= a /\ a < End(u)
    BY DEF Tiles
  <2>2. CASE u = s \/ u = t
    <3>1. j.at <= a /\ a < End(j)
      BY <1>2, <1>3, <2>1, <2>2, SizesAssumption
    <3> QED
      BY <3>1
  <2> QED
    BY <2>1, <2>2
<1>8. Tiles(T)
  BY <1>5, <1>6, <1>7 DEF Tiles
<1> QED
  BY <1>3, <1>8

-----------------------------------------------------------------------------
(* mem_alloc keeps the invariant. *)

LEMMA RequiredNat ==
  ASSUME NEW size \in Requests
  PROVE  requiredSize(size) \in Nat
<1>1. size \in Nat /\ BlockSize \in Nat
  BY SizesAssumption
<1> QED
  BY <1>1 DEF requiredSize

LEMMA InitInv == Init => IInv
<1> SUFFICES ASSUME Init
             PROVE  IInv
  OBVIOUS
<1> DEFINE s == Segment(0, HeapSize - Header)
<1>1. free = {s} /\ used = {} /\ Segments = {s}
  BY DEF Init, Segments
<1>2. HeapSize - Header \in Nat
  BY SizesAssumption
<1>3. s \in AllSegments /\ s.at = 0 /\ End(s) = HeapSize /\ HeapSize > 0
  BY <1>2, SizesAssumption DEF Segment, AllSegments, End
<1> HIDE DEF s
<1>4. Tiles({s})
  BY <1>3, SizesAssumption DEF Tiles
<1> QED
  BY <1>1, <1>3, <1>4 DEF IInv, Coalesced

LEMMA AllocWholeInv ==
  ASSUME IInv, NEW size \in Requests, AllocWhole(size)
  PROVE  IInv'
<1>1. PICK s \in free : free' = free \ {s} /\ used' = used \cup {s}
  BY DEF AllocWhole
<1>2. Segments' = Segments
  BY <1>1 DEF Segments
<1>3. Tiles(Segments')
  BY <1>2 DEF IInv
<1> QED
  BY <1>1, <1>3 DEF IInv, Tiles, Apart, Coalesced, End

LEMMA AllocSplitInv ==
  ASSUME IInv, NEW size \in Requests, AllocSplit(size)
  PROVE  IInv'
<1>0. PICK n \in Nat : n = requiredSize(size)
  BY RequiredNat
<1>1. PICK s \in free :
        /\ n <= s.memSize
        /\ ~(s.memSize - n < Header + BlockSize)
        /\ free' = (free \ {s}) \cup {Rest(s, size)}
        /\ used' = used \cup {Part(s, size)}
  BY <1>0 DEF AllocSplit, IsFirstFit, TakesWhole
<1>20. PICK part, rest : part = Part(s, size) /\ rest = Rest(s, size)
  OBVIOUS
<1>2. part = Segment(s.at, n) /\ rest = Segment(s.at + Header + n, s.memSize - n - Header)
  BY <1>0, <1>20 DEF Part, Rest
<1>3. /\ s \in AllSegments /\ s \in Segments /\ s \notin used
      /\ s.at \in Nat /\ s.memSize \in Nat /\ Header \in Nat /\ Header > 0
      /\ End(s) = s.at + Header + s.memSize
  BY SegmentFacts, SizesAssumption DEF IInv, Tiles, Segments
<1>4. n + Header <= s.memSize
  BY <1>0, <1>1, <1>3, SizesAssumption
<1>5. part \in AllSegments /\ part.at = s.at /\ End(part) = s.at + Header + n
  BY <1>0, <1>2, <1>3 DEF Segment, AllSegments, End
<1>6. rest \in AllSegments /\ rest.at = s.at + Header + n /\ End(rest) = End(s)
  <2>1. s.at + Header + n \in Nat /\ s.memSize - n - Header \in Nat
    BY <1>0, <1>3, <1>4
  <2> QED
    BY <2>1, <1>0, <1>2, <1>3 DEF Segment, AllSegments, End
<1>60. s.at < rest.at /\ rest.at < End(s) /\ part # rest
  BY <1>0, <1>3, <1>4, <1>5, <1>6
<1>7. Tiles((Segments \ {s}) \cup {part, rest})
  BY <1>0, <1>2, <1>3, <1>4, CutTiles DEF IInv
<1>8. free' = (free \ {s}) \cup {rest} /\ used' = used \cup {part}
  BY <1>1, <1>20
<1>9. Segments' = (Segments \ {s}) \cup {part, rest}
  BY <1>3, <1>8 DEF Segments
<1>10. ASSUME NEW t \in Segments, t # s
       PROVE  /\ t # part /\ t # rest
              /\ End(t) # rest.at
  <2>1. t \in AllSegments /\ Apart(t, s)
    BY <1>3, <1>10 DEF IInv, Tiles
  <2> QED
    BY <2>1, <1>3, <1>5, <1>6, <1>60, SegmentFacts DEF Apart
<1>11. free' \cap used' = {}
  BY <1>3, <1>8, <1>10, <1>60 DEF IInv, Segments
<1>12. Coalesced'
  <2> SUFFICES ASSUME NEW t \in free', NEW u \in free'
               PROVE  End(t) # u.at
    BY DEF Coalesced, End
  <2>1. CASE t = rest /\ u = rest
    BY <2>1, <1>6, SegmentFacts
  <2>2. CASE t = rest /\ u # rest
    BY <2>2, <1>1, <1>6, <1>8 DEF IInv, Coalesced
  <2>3. CASE t # rest /\ u = rest
    BY <2>3, <1>8, <1>10 DEF Segments
  <2>4. CASE t # rest /\ u # rest
    BY <2>4, <1>8 DEF IInv, Coalesced
  <2> QED
    BY <2>1, <2>2, <2>3, <2>4
<1>13. Tiles(Segments')
  BY <1>7, <1>9
<1> QED
  BY <1>11, <1>12, <1>13 DEF IInv, Tiles, Apart, End

-----------------------------------------------------------------------------
(* mem_free keeps the invariant. *)

(* The segment before on the list is the only one that can end where the   *)
(* freed one begins; and the one after, the only one that can begin where  *)
(* it ends.                                                                *)
LEMMA TouchingBefore ==
  ASSUME IInv, NEW s \in used, NEW p \in free, End(p) = s.at
  PROVE  JoinsPrevious(p, s)
<1>1. s \in AllSegments /\ p \in AllSegments
  BY DEF IInv, Tiles, Segments
<1>2. ASSUME NEW t \in free, t.at < s.at
      PROVE  t.at <= p.at
  <2>1. t \in AllSegments /\ (t # p => Apart(t, p))
    BY DEF IInv, Tiles, Segments
  <2> QED
    BY <1>1, <1>2, <2>1, SegmentFacts DEF Apart
<1> QED
  BY <1>1, <1>2, SegmentFacts DEF JoinsPrevious, IsPrevious, Touches

LEMMA TouchingAfter ==
  ASSUME IInv, NEW s \in used, NEW n \in free, End(s) = n.at
  PROVE  JoinsNext(n, s)
<1>1. s \in AllSegments /\ n \in AllSegments
  BY DEF IInv, Tiles, Segments
<1>2. ASSUME NEW t \in free, s.at < t.at
      PROVE  n.at <= t.at
  <2>1. t \in AllSegments /\ t # s /\ Apart(t, s)
    BY DEF IInv, Tiles, Segments
  <2> QED
    BY <1>1, <1>2, <2>1, SegmentFacts DEF Apart
<1> QED
  BY <1>1, <1>2, SegmentFacts DEF JoinsNext, IsNext, Touches

LEMMA FreeAloneInv ==
  ASSUME IInv, NEW s \in used, FreeAlone(s)
  PROVE  IInv'
<1>1. free' = free \cup {s} /\ used' = used \ {s}
  BY DEF FreeAlone
<1>2. Segments' = Segments
  BY <1>1 DEF Segments
<1>3. Tiles(Segments')
  BY <1>2 DEF IInv
<1>4. \A t \in free : End(t) # s.at /\ End(s) # t.at
  BY TouchingBefore, TouchingAfter DEF FreeAlone
<1>5. End(s) # s.at
  BY SegmentFacts DEF IInv, Tiles, Segments
<1>6. Coalesced'
  BY <1>1, <1>4, <1>5 DEF IInv, Coalesced, End
<1> QED
  BY <1>1, <1>3, <1>6 DEF IInv, Tiles, Apart, End

(* What gluing segment s does, when the result g begins where b does, ends *)
(* where e does, and no other free segment touches it.                     *)
LEMMA GluedInv ==
  ASSUME IInv, NEW s \in used, NEW F \in SUBSET free, NEW g,
         free' = (free \ F) \cup {g}, used' = used \ {s},
         Tiles((Segments \ (F \cup {s})) \cup {g}),
         \E b \in F \cup {s} : g.at = b.at,
         \A t \in free \ F : End(t) # g.at /\ End(g) # t.at
  PROVE  IInv'
<1>1. F \cap used = {} /\ s \notin free
  BY DEF IInv
<1>2. Segments' = (Segments \ (F \cup {s})) \cup {g}
  BY <1>1 DEF Segments
<1>3. Tiles(Segments')
  BY <1>2
<1>4. g \notin used'
  <2> SUFFICES ASSUME g \in used, g # s
               PROVE  FALSE
    OBVIOUS
  <2>1. PICK b \in F \cup {s} : g.at = b.at
    OBVIOUS
  <2>2. g \in Segments /\ b \in Segments /\ g # b
    BY <1>1, <2>1 DEF Segments
  <2>3. g \in AllSegments /\ b \in AllSegments /\ Apart(g, b)
    BY <2>2 DEF IInv, Tiles
  <2> QED
    BY <2>1, <2>3, SegmentFacts DEF Apart
<1>5. g \in AllSegments /\ End(g) # g.at
  BY SegmentFacts DEF Tiles
<1>6. Coalesced'
  BY <1>5 DEF IInv, Coalesced, End
<1> QED
  BY <1>3, <1>4, <1>6 DEF IInv, Tiles, Apart, End

LEMMA FreeJoinPreviousInv ==
  ASSUME IInv, NEW s \in used, FreeJoinPrevious(s)
  PROVE  IInv'
<1>1. PICK p \in free : JoinsPrevious(p, s) /\ free' = (free \ {p}) \cup {Joined(p, s)}
  BY DEF FreeJoinPrevious
<1>2. PICK g : g = Joined(p, s)
  OBVIOUS
<1>3. Touches(p, s) /\ p \in Segments /\ s \in Segments
  BY <1>1 DEF JoinsPrevious, Segments
<1>4. Tiles((Segments \ {p, s}) \cup {g}) /\ g.at = p.at /\ End(g) = End(s)
  BY <1>2, <1>3, GlueTiles DEF IInv
<1>5. ASSUME NEW t \in free
      PROVE  End(t) # g.at /\ End(g) # t.at
  BY <1>1, <1>4, TouchingAfter DEF IInv, Coalesced, FreeJoinPrevious
<1>6. PICK F \in SUBSET free : F = {p}
  OBVIOUS
<1>7. /\ free' = (free \ F) \cup {g} /\ used' = used \ {s}
      /\ Tiles((Segments \ (F \cup {s})) \cup {g})
      /\ \E b \in F \cup {s} : g.at = b.at
  <2>1. F \cup {s} = {p, s}
    BY <1>6
  <2> QED
    BY <2>1, <1>1, <1>2, <1>4, <1>6 DEF FreeJoinPrevious
<1>8. \A t \in free \ F : End(t) # g.at /\ End(g) # t.at
  BY <1>5
<1> QED
  BY <1>7, <1>8, GluedInv

LEMMA FreeJoinNextInv ==
  ASSUME IInv, NEW s \in used, FreeJoinNext(s)
  PROVE  IInv'
<1>1. PICK n \in free : JoinsNext(n, s) /\ free' = (free \ {n}) \cup {Joined(s, n)}
  BY DEF FreeJoinNext
<1>2. PICK g : g = Joined(s, n)
  OBVIOUS
<1>3. Touches(s, n) /\ n \in Segments /\ s \in Segments
  BY <1>1 DEF JoinsNext, Segments
<1>4. Tiles((Segments \ {s, n}) \cup {g}) /\ g.at = s.at /\ End(g) = End(n)
  BY <1>2, <1>3, GlueTiles DEF IInv
<1>5. ASSUME NEW t \in free
      PROVE  End(t) # g.at /\ End(g) # t.at
  BY <1>1, <1>4, TouchingBefore DEF IInv, Coalesced, FreeJoinNext
<1>6. PICK F \in SUBSET free : F = {n}
  OBVIOUS
<1>7. /\ free' = (free \ F) \cup {g} /\ used' = used \ {s}
      /\ Tiles((Segments \ (F \cup {s})) \cup {g})
      /\ \E b \in F \cup {s} : g.at = b.at
  <2>1. F \cup {s} = {s, n}
    BY <1>6
  <2> QED
    BY <2>1, <1>1, <1>2, <1>4, <1>6 DEF FreeJoinNext
<1>8. \A t \in free \ F : End(t) # g.at /\ End(g) # t.at
  BY <1>5
<1> QED
  BY <1>7, <1>8, GluedInv

LEMMA FreeJoinBothInv ==
  ASSUME IInv, NEW s \in used, FreeJoinBoth(s)
  PROVE  IInv'
<1>1. PICK p \in free : \E n \in free :
        /\ JoinsPrevious(p, s) /\ JoinsNext(n, s)
        /\ free' = (free \ {p, n}) \cup {Joined(Joined(p, s), n)}
  BY DEF FreeJoinBoth
<1>2. PICK n \in free :
        /\ JoinsPrevious(p, s) /\ JoinsNext(n, s)
        /\ free' = (free \ {p, n}) \cup {Joined(Joined(p, s), n)}
  BY <1>1
<1>3. PICK h, g : h = Joined(p, s) /\ g = Joined(h, n)
  OBVIOUS
<1>4. /\ Touches(p, s) /\ Touches(s, n)
      /\ p \in Segments /\ s \in Segments /\ n \in Segments
  BY <1>2 DEF JoinsPrevious, JoinsNext, Segments
<1>5. /\ Tiles((Segments \ {p, s}) \cup {h})
      /\ h \in AllSegments /\ h.at = p.at /\ End(h) = End(s)
  BY <1>3, <1>4, GlueTiles DEF IInv
<1>6. n # s /\ n # p /\ n \in AllSegments /\ p \in AllSegments /\ s \in AllSegments
  <2>1. p \in AllSegments /\ s \in AllSegments /\ n \in AllSegments
    BY <1>4 DEF IInv, Tiles
  <2> QED
    BY <1>4, <2>1, SegmentFacts DEF Touches
<1>7. Touches(h, n)
  BY <1>4, <1>5 DEF Touches
<1>8. PICK S : S = (Segments \ {p, s}) \cup {h}
  OBVIOUS
<1>9. Tiles((S \ {h, n}) \cup {g}) /\ g.at = h.at /\ End(g) = End(n)
  <2>1. h \in S /\ n \in S /\ Tiles(S)
    BY <1>4, <1>5, <1>6, <1>8
  <2> QED
    BY <2>1, <1>3, <1>7, GlueTiles
<1>10. h \notin Segments \/ h = p \/ h = s
  <2> SUFFICES ASSUME h \in Segments, h # p
               PROVE  FALSE
    OBVIOUS
  <2>1. Apart(h, p)
    BY <1>4 DEF IInv, Tiles
  <2> QED
    BY <2>1, <1>5, <1>6, SegmentFacts DEF Apart
<1>11. (S \ {h, n}) \cup {g} = (Segments \ ({p, n} \cup {s})) \cup {g}
  BY <1>8, <1>10
<1>12. ASSUME NEW t \in free
       PROVE  End(t) # g.at /\ End(g) # t.at
  BY <1>2, <1>5, <1>9 DEF IInv, Coalesced
<1>13. used' = used \ {s}
  BY DEF FreeJoinBoth
<1>14. PICK F \in SUBSET free : F = {p, n}
  OBVIOUS
<1>15. /\ free' = (free \ F) \cup {g}
       /\ Tiles((Segments \ (F \cup {s})) \cup {g})
       /\ \E b \in F \cup {s} : g.at = b.at
  BY <1>2, <1>3, <1>5, <1>9, <1>11, <1>14
<1>16. \A t \in free \ F : End(t) # g.at /\ End(g) # t.at
  BY <1>12
<1> QED
  BY <1>13, <1>15, <1>16, GluedInv

-----------------------------------------------------------------------------
(* The invariant holds in every reachable state. *)
THEOREM Invariance == Spec => []IInv
<1>1. Init => IInv
  BY InitInv
<1>2. IInv /\ [Next]_vars => IInv'
  <2> SUFFICES ASSUME IInv, [Next]_vars
               PROVE  IInv'
    OBVIOUS
  <2>1. ASSUME NEW size \in Requests, AllocWhole(size)
        PROVE  IInv'
    BY <2>1, AllocWholeInv
  <2>2. ASSUME NEW size \in Requests, AllocSplit(size)
        PROVE  IInv'
    BY <2>2, AllocSplitInv
  <2>3. CASE UNCHANGED vars
    BY <2>3 DEF vars, IInv, Tiles, Apart, End, Segments, Coalesced
  <2>4. ASSUME NEW size \in Requests, AllocFail(size)
        PROVE  IInv'
    BY <2>3, <2>4 DEF AllocFail
  <2>5. ASSUME NEW s \in used,
               FreeAlone(s) \/ FreeJoinPrevious(s) \/ FreeJoinNext(s) \/ FreeJoinBoth(s)
        PROVE  IInv'
    BY <2>5, FreeAloneInv, FreeJoinPreviousInv, FreeJoinNextInv, FreeJoinBothInv
  <2> QED
    BY <2>1, <2>2, <2>3, <2>4, <2>5 DEF Next
<1> QED
  BY <1>1, <1>2, PTL DEF Spec

(* Segments have natural addresses and lengths: no length a split or a     *)
(* join computes is negative, which in the code would wrap to 2^64.        *)
THEOREM TypeCorrect == Spec => []TypeOK
<1>1. IInv => TypeOK
  BY DEF IInv, TypeOK, Tiles, Segments
<1> QED
  BY <1>1, Invariance, PTL

(* No two segments, free or held, ever share a byte. *)
THEOREM SegmentsDisjoint == Spec => []NoOverlap
<1>1. IInv => NoOverlap
  BY DEF IInv, NoOverlap, Tiles, Apart
<1> QED
  BY <1>1, Invariance, PTL

(* Nothing mem_alloc returns reaches beyond the arena. *)
THEOREM StaysInHeap == Spec => []InHeap
<1>1. IInv => InHeap
  BY DEF IInv, InHeap, Tiles
<1> QED
  BY <1>1, Invariance, PTL

(* Every byte of the arena stays in a segment: neither a split nor a join  *)
(* loses one.                                                              *)
THEOREM NothingLeaks == Spec => []Covered
<1>1. IInv => Covered
  BY DEF IInv, Covered, Tiles
<1> QED
  BY <1>1, Invariance, PTL

(* After every mem_free, no two neighbouring segments are both free. *)
THEOREM FreeSegmentsJoined == Spec => []Coalesced
<1>1. IInv => Coalesced
  BY DEF IInv
<1> QED
  BY <1>1, Invariance, PTL

(* The allocator implements BlockHeap: an allocation grants a run of bytes *)
(* nobody holds, a free returns one run.                                   *)
Held == {<<s.at + Header, s.memSize>> : s \in used}

LEMMA GrantStep ==
  ASSUME IInv, NEW g \in AllSegments, used' = used \cup {g},
         End(g) <= HeapSize, g.at + Header < HeapSize,
         \A u \in used : Apart(u, g)
  PROVE  Heap!Next
<1> DEFINE a == g.at + Header
           n == g.memSize
<1>1. a \in 0 .. HeapSize - 1 /\ n \in 0 .. HeapSize /\ a + n <= HeapSize
  BY SegmentFacts, SizesAssumption
<1>2. Held' = Held \cup {<<a, n>>}
  BY DEF Held
<1>3. ASSUME NEW r \in Held
      PROVE  Heap!Disjoint(r, <<a, n>>)
  <2>1. PICK u \in used : r = <<u.at + Header, u.memSize>>
    BY DEF Held
  <2>2. u \in AllSegments /\ Apart(u, g)
    BY DEF IInv, Tiles, Segments
  <2> QED
    BY <2>1, <2>2, SegmentFacts DEF Heap!Disjoint, Apart
<1>4. Heap!Grant(a, n)
  BY <1>1, <1>2, <1>3 DEF Heap!Grant, Held
<1> QED
  BY <1>1, <1>4 DEF Heap!Next, Heap!Arena

LEMMA ReturnStep ==
  ASSUME IInv, NEW s \in used, used' = used \ {s}
  PROVE  Heap!Next
<1> DEFINE r == <<s.at + Header, s.memSize>>
<1>1. used \subseteq AllSegments /\ Header \in Nat
  BY SizesAssumption DEF IInv, Tiles, Segments
<1>2. ASSUME NEW u \in used, <<u.at + Header, u.memSize>> = r
      PROVE  u = s
  BY <1>1, <1>2 DEF AllSegments
<1>3. r \in Held
  BY DEF Held
<1>4. Held' = Held \ {r}
  BY <1>2 DEF Held
<1>5. {r} \in SUBSET Held /\ Heap!Return({r})
  BY <1>3, <1>4 DEF Heap!Return, Held
<1> QED
  BY <1>5 DEF Heap!Next, Held

THEOREM ImplementsHeap == Spec => HeapPromise
<1>1. Init => Heap!Init
  BY DEF Init, Heap!Init
<1>2. IInv /\ [Next]_vars => [Heap!Next]_Held
  <2> SUFFICES ASSUME IInv, [Next]_vars
               PROVE  [Heap!Next]_Held
    OBVIOUS
  <2>1. ASSUME NEW size \in Requests, AllocWhole(size)
        PROVE  Heap!Next
    <3>1. PICK s \in free :
            /\ used' = used \cup {s}
            /\ ~ReachesEnd(s, size)
      BY <2>1 DEF AllocWhole
    <3>2. s \in AllSegments /\ s \in Segments /\ s \notin used
      BY DEF IInv, Tiles, Segments
    <3>3. requiredSize(size) \in Nat
      BY RequiredNat
    <3>4. End(s) <= HeapSize /\ s.at + Header < HeapSize
      BY <3>1, <3>2, <3>3, SegmentFacts, SizesAssumption DEF IInv, Tiles, ReachesEnd
    <3>5. \A u \in used : Apart(u, s)
      BY <3>2 DEF IInv, Tiles, Segments
    <3> QED
      BY <3>1, <3>2, <3>4, <3>5, GrantStep
  <2>2. ASSUME NEW size \in Requests, AllocSplit(size)
        PROVE  Heap!Next
    <3>1. PICK s \in free :
            /\ requiredSize(size) <= s.memSize
            /\ used' = used \cup {Part(s, size)}
            /\ ~ReachesEnd(s, size)
      BY <2>2 DEF AllocSplit, IsFirstFit
    <3>2. s \in AllSegments /\ s \in Segments /\ s \notin used
      BY DEF IInv, Tiles, Segments
    <3>3. PICK n \in Nat : n = requiredSize(size)
      BY RequiredNat
    <3>4. PICK g : g = Part(s, size)
      OBVIOUS
    <3>5. /\ g \in AllSegments /\ g.at = s.at /\ End(g) = s.at + Header + n
          /\ s.at \in Nat /\ Header \in Nat
      BY <3>2, <3>3, <3>4, SizesAssumption DEF Part, Segment, AllSegments, End
    <3>6. End(g) <= HeapSize /\ g.at + Header < HeapSize /\ End(g) <= End(s)
      BY <3>1, <3>2, <3>3, <3>5, SegmentFacts, SizesAssumption DEF ReachesEnd
    <3>7. ASSUME NEW u \in used
          PROVE  Apart(u, g)
      <4>1. u \in AllSegments /\ Apart(u, s)
        BY <3>2 DEF IInv, Tiles, Segments
      <4> QED
        BY <4>1, <3>2, <3>5, <3>6, SegmentFacts DEF Apart
    <3> QED
      BY <3>1, <3>4, <3>5, <3>6, <3>7, GrantStep
  <2>3. ASSUME NEW s \in used,
               FreeAlone(s) \/ FreeJoinPrevious(s) \/ FreeJoinNext(s) \/ FreeJoinBoth(s)
        PROVE  Heap!Next
    BY <2>3, ReturnStep DEF FreeAlone, FreeJoinPrevious, FreeJoinNext, FreeJoinBoth
  <2>4. CASE UNCHANGED vars
    BY <2>4 DEF vars, Held
  <2> QED
    BY <2>1, <2>2, <2>3, <2>4 DEF Next, AllocFail
<1> QED
  BY <1>1, <1>2, Invariance, PTL DEF Spec, HeapPromise, Heap!Spec, Held

-----------------------------------------------------------------------------
(***************************************************************************)
(* The words of memory: proofs about MemoryLists.  Along the list each     *)
(* word next is the least listed address above, which says of the whole    *)
(* list what a step of the code must keep at one place: it changes next in *)
(* the segment before and in those it makes.  Where a search stops, and    *)
(* what was before, follows by induction along the list.                   *)
(***************************************************************************)
Arena == Words!Arena
Null  == Words!Null

(* The address of the header of a segment. *)
Address(s) == HeapStart + s.at
Addresses(F) == {Address(s) : s \in F}

(* a is the least, or the greatest, of a set of addresses; null if there   *)
(* is none.                                                                *)
IsFirst(a, G) == IF G = {} THEN a = Null ELSE a \in G /\ \A b \in G : a <= b
IsLast(a, G)  == IF G = {} THEN a = Null ELSE a \in G /\ \A b \in G : b <= a

Above(a, G) == {b \in G : a < b}
Below(a, G) == {b \in G : b < a}

(* The list holds the segments at G in order.  The head is the next of     *)
(* null, which is below them all.                                          *)
Linked(m, G) == \A a \in G \cup {Null} : IsFirst(m[a + 1], Above(a, G))

LEMMA ArenaFacts ==
  /\ HeapStart \in Nat /\ HeapSize \in Nat /\ Header \in Nat /\ Header >= 2 /\ BlockSize \in Nat
  /\ HeapStart > 1 /\ Null = 0 /\ Header < HeapSize
  /\ Arena = HeapStart .. HeapStart + HeapSize - 1 /\ Arena \subseteq Nat
  /\ Null \notin Arena /\ Null + 1 \notin Arena
  /\ \A a \in Arena : a > 1
  BY SizesAssumption, WordsAssumption DEF Arena, Null, Words!Arena, Words!Null

(* The recursion of Along can be met, so Along meets it. *)
LEMMA AlongSteps ==
  ASSUME NEW m
  PROVE  /\ Words!Along(m)[0] = m[Null + 1]
         /\ \A n \in 1 .. HeapSize : Words!Along(m)[n] = Words!Onward(m, Words!Along(m)[n - 1])
<1> DEFINE N == HeapSize
           To(k, f) == f = [n \in 0 .. k |-> IF n = 0 THEN m[Null + 1] ELSE Words!Onward(m, f[n - 1])]
           S == {k \in 0 .. N : \E f : To(k, f)}
<1>1. N \in Nat
  BY ArenaFacts
<1>2. 0 \in S
  <2>1. To(0, [n \in 0 .. 0 |-> m[Null + 1]])
    OBVIOUS
  <2> HIDE DEF To
  <2>2. \E f : To(0, f)
    BY <2>1
  <2> QED
    BY <1>1, <2>2
<1>3. ASSUME NEW k \in 0 .. N - 1, k \in S
      PROVE  k + 1 \in S
  <2>1. PICK f : To(k, f)
    BY <1>3
  <2> DEFINE g == [n \in 0 .. k + 1 |-> IF n = k + 1 THEN Words!Onward(m, f[k]) ELSE f[n]]
  <2>2. \A n \in 0 .. k : g[n] = f[n]
    BY <1>1
  <2>3. \A n \in 0 .. k + 1 : g[n] = IF n = 0 THEN m[Null + 1] ELSE Words!Onward(m, g[n - 1])
    <3> SUFFICES ASSUME NEW n \in 0 .. k + 1
                 PROVE  g[n] = IF n = 0 THEN m[Null + 1] ELSE Words!Onward(m, g[n - 1])
      OBVIOUS
    <3>1. CASE n = k + 1
      <4>1. g[k + 1] = Words!Onward(m, f[k]) /\ g[k] = f[k] /\ k + 1 # 0 /\ (k + 1) - 1 = k
        BY <1>1
      <4> QED
        BY <3>1, <4>1
    <3>2. CASE n \in 0 .. k
      <4>1. f[n] = IF n = 0 THEN m[Null + 1] ELSE Words!Onward(m, f[n - 1])
        BY <2>1, <3>2
      <4>2. g[n] = f[n] /\ (n # 0 => n - 1 \in 0 .. k /\ g[n - 1] = f[n - 1])
        BY <1>1, <2>2, <3>2
      <4> HIDE DEF g
      <4> QED
        BY <4>1, <4>2
    <3> QED
      BY <1>1, <3>1, <3>2
  <2>4. To(k + 1, g)
    <3> DEFINE h == [n \in 0 .. k + 1 |-> IF n = 0 THEN m[Null + 1] ELSE Words!Onward(m, g[n - 1])]
    <3>1. \A n \in 0 .. k + 1 : g[n] = h[n]
      BY <2>3
    <3> QED
      BY <3>1
  <2>5. \E h : To(k + 1, h)
    <3> HIDE DEF To, g
    <3> QED
      BY <2>4
  <2>6. k + 1 \in 0 .. N
    BY <1>1
  <2> HIDE DEF To
  <2> QED
    BY <2>5, <2>6
<1>4. \E f : To(N, f)
  <2> HIDE DEF S
  <2>1. 0 .. N \subseteq S
    BY <1>1, <1>2, <1>3, ClimbsTo
  <2> QED
    BY <1>1, <2>1 DEF S
<1> DEFINE along == Words!Along(m)
<1>5. along = CHOOSE f : To(N, f)
  BY DEF Words!Along, Null
<1>6. To(N, along)
  <2> HIDE DEF To, along
  <2> QED
    BY <1>4, <1>5
<1> HIDE DEF along
<1>7. \A n \in 0 .. N : along[n] = IF n = 0 THEN m[Null + 1] ELSE Words!Onward(m, along[n - 1])
  BY <1>6
<1> HIDE DEF To
<1>8. along[0] = m[Null + 1] /\ \A n \in 1 .. N : along[n] = Words!Onward(m, along[n - 1])
  BY <1>1, <1>7
<1> QED
  BY <1>8 DEF along

(* A loop over a linked list meets the segments in order, each once, and   *)
(* is behind the last within the length of the arena.                      *)
LEMMA LinkedWalk ==
  ASSUME NEW m, NEW G \in SUBSET Arena, Linked(m, G), NEW w, w = Words!Along(m)
  PROVE  /\ \A n \in 0 .. HeapSize : w[n] \in G \cup {Null}
         /\ \A n \in 1 .. HeapSize : w[n] \in G => w[n - 1] \in G /\ w[n - 1] < w[n]
         /\ w[HeapSize] = Null
         /\ \A n \in 0 .. HeapSize : \A g \in G :
              w[n] = Null \/ g < w[n] <=> \E k \in 0 .. n - 1 : w[k] = g
<1> DEFINE N == HeapSize
           Met(n) == \A g \in G : w[n] = Null \/ g < w[n] <=> \E k \in 0 .. n - 1 : w[k] = g
           S == {n \in 0 .. N : /\ w[n] \in G \cup {Null}
                                /\ w[n] # Null => w[n] >= HeapStart + n
                                /\ n > 0 /\ w[n] \in G => w[n - 1] \in G /\ w[n - 1] < w[n]
                                /\ Met(n)}
<1>1. /\ N \in Nat /\ G \subseteq Nat /\ Null \notin G /\ Null = 0
      /\ \A g \in G : g >= HeapStart /\ g < HeapStart + N /\ g > 1 /\ g \in Arena
      /\ HeapStart \in Nat
  BY ArenaFacts
<1>2. w[0] = m[Null + 1] /\ \A n \in 1 .. N : w[n] = Words!Onward(m, w[n - 1])
  BY AlongSteps
<1>3. \A a \in G \cup {Null} : IsFirst(m[a + 1], Above(a, G))
  BY DEF Linked
<1>4. \A a \in G \cup {Null} :
        \/ m[a + 1] = Null /\ \A g \in G : ~(a < g)
        \/ m[a + 1] \in G /\ a < m[a + 1] /\ \A g \in G : a < g => m[a + 1] <= g
  BY <1>3 DEF IsFirst, Above
<1>5. 0 \in S
  <2>1. \/ w[0] = Null /\ \A g \in G : ~(Null < g)
        \/ w[0] \in G /\ \A g \in G : Null < g => w[0] <= g
    BY <1>2, <1>4
  <2>2. \A g \in G : Null < g /\ g \in Nat
    BY <1>1
  <2>3. \A g \in G : ~(w[0] = Null \/ g < w[0])
    <3> SUFFICES ASSUME NEW g \in G, w[0] = Null \/ g < w[0]
                 PROVE  FALSE
      OBVIOUS
    <3>1. w[0] \in G /\ w[0] <= g
      BY <2>1, <2>2
    <3>2. w[0] \in Nat /\ g \in Nat /\ w[0] # Null
      BY <1>1, <3>1
    <3> QED
      BY <3>1, <3>2
  <2>4. Met(0)
    BY <2>3
  <2>5. w[0] # Null => w[0] \in G /\ w[0] >= HeapStart
    BY <1>1, <2>1
  <2>6. w[0] \in G \cup {Null} /\ 0 \in 0 .. N /\ HeapStart + 0 = HeapStart
    BY <1>1, <2>1
  <2> HIDE DEF Met
  <2> QED
    BY <2>4, <2>5, <2>6
<1>6. ASSUME NEW n \in 0 .. N - 1, n \in S
      PROVE  n + 1 \in S
  <2> DEFINE a == w[n]
             b == w[n + 1]
  <2>1. /\ a \in G \cup {Null} /\ (a # Null => a >= HeapStart + n) /\ Met(n)
        /\ n + 1 \in 1 .. N /\ n + 1 \in 0 .. N /\ (n + 1) - 1 = n
    BY <1>1, <1>6
  <2>2. b = Words!Onward(m, a)
    BY <1>2, <2>1
  <2>3. CASE a = Null
    <3>1. b = Null
      BY <2>2, <2>3, ArenaFacts DEF Words!Onward, Arena
    <3>2. \A g \in G : \E k \in 0 .. n : w[k] = g
      BY <2>1, <2>3, <1>1
    <3>3. Met(n + 1)
      BY <1>1, <2>1, <3>1, <3>2
    <3> HIDE DEF Met
    <3> QED
      BY <1>1, <2>1, <3>1, <3>3
  <2>4. CASE a \in G
    <3>1. b = m[a + 1]
      BY <2>2, <2>4, <1>1 DEF Words!Onward, Arena
    <3>2. \/ b = Null /\ \A g \in G : ~(a < g)
          \/ b \in G /\ a < b /\ \A g \in G : a < g => b <= g
      BY <1>4, <2>4, <3>1
    <3>0. a \in Nat /\ a # Null /\ a >= HeapStart + n /\ n \in Nat
      <4>1. a \in Nat /\ a # Null
        BY <1>1, <2>4
      <4>2. n \in Nat
        BY <1>1
      <4> HIDE DEF a
      <4> QED
        BY <2>1, <4>1, <4>2
    <3>3. b # Null => b >= HeapStart + (n + 1)
      <4> SUFFICES ASSUME b # Null
                   PROVE  b >= HeapStart + (n + 1)
        OBVIOUS
      <4>1. b \in G /\ a < b
        BY <3>2
      <4>2. b \in Nat /\ HeapStart \in Nat
        BY <1>1, <4>1
      <4> HIDE DEF a, b
      <4> QED
        BY <3>0, <4>1, <4>2
    <3>4. ASSUME NEW g \in G
          PROVE  b = Null \/ g < b <=> \E k \in 0 .. n : w[k] = g
      <4>1. b = Null \/ g < b <=> g < a \/ g = a
        <5>1. g \in Nat
          BY <1>1
        <5>2. CASE b = Null
          <6>1. ~(a < g)
            BY <1>1, <3>2, <5>2
          <6> HIDE DEF a, b
          <6> QED
            BY <3>0, <5>1, <5>2, <6>1
        <5>3. CASE b # Null
          <6>1. b \in G /\ a < b /\ (a < g => b <= g)
            BY <3>2, <5>3
          <6>2. b \in Nat
            BY <1>1, <6>1
          <6> HIDE DEF a, b
          <6> QED
            BY <3>0, <5>1, <5>3, <6>1, <6>2
        <5> QED
          BY <5>2, <5>3
      <4>2. g < a <=> \E k \in 0 .. n - 1 : w[k] = g
        BY <2>1, <3>0
      <4>3. (\E k \in 0 .. n : w[k] = g) <=> (\E k \in 0 .. n - 1 : w[k] = g) \/ w[n] = g
        BY <2>1
      <4> QED
        BY <4>1, <4>2, <4>3
    <3>5. Met(n + 1)
      BY <2>1, <3>4
    <3> HIDE DEF Met
    <3> QED
      BY <1>1, <2>1, <2>4, <3>2, <3>3, <3>5
  <2> QED
    BY <2>1, <2>3, <2>4
<1>7. 0 .. N \subseteq S
  <2> HIDE DEF S
  <2> QED
    BY <1>1, <1>5, <1>6, ClimbsTo
<1>8. \A n \in 0 .. N : n \in S
  BY <1>7
<1>9. w[N] = Null
  <2>1. N \in 0 .. N
    BY <1>1
  <2>2. w[N] \in G \cup {Null} /\ (w[N] # Null => w[N] >= HeapStart + N)
    BY <1>8, <2>1
  <2>3. \A g \in G : ~(g >= HeapStart + N)
    BY <1>1
  <2> QED
    BY <2>2, <2>3
<1>10. \A n \in 0 .. N : w[n] \in G \cup {Null} /\ Met(n)
  BY <1>8
<1>11. \A n \in 1 .. N : w[n] \in G => w[n - 1] \in G /\ w[n - 1] < w[n]
  <2> SUFFICES ASSUME NEW n \in 1 .. N, w[n] \in G
               PROVE  w[n - 1] \in G /\ w[n - 1] < w[n]
    OBVIOUS
  <2>1. n \in 0 .. N /\ n > 0
    BY <1>1
  <2>2. n \in S
    BY <1>8, <2>1
  <2> QED
    BY <2>1, <2>2
<1> QED
  BY <1>9, <1>10, <1>11

(* Where a loop stops that looks for a segment in Stop, and the segment    *)
(* before.                                                                 *)
LEMMA StopsAt ==
  ASSUME NEW m, NEW G \in SUBSET Arena, Linked(m, G), NEW Stop
  PROVE  /\ IsFirst(Words!Found(m, Stop), G \cap Stop)
         /\ IsLast(Words!Before(m, Stop),
                   {g \in G : Words!Found(m, Stop) = Null \/ g < Words!Found(m, Stop)})
<1> DEFINE w == Words!Along(m)
           N == HeapSize
           Ends(n) == n = N \/ w[n] \notin Arena \ Stop
           Is(n) == Ends(n) /\ \A k \in 0 .. n - 1 : w[k] \in Arena \ Stop
<1>1. /\ N \in Nat /\ G \subseteq Nat /\ Null \notin G /\ Null \notin Arena
      /\ \A g \in G : g \in Nat /\ g > 1
  BY ArenaFacts
<1> HIDE DEF w
<1>2. /\ \A n \in 0 .. N : w[n] \in G \cup {Null}
      /\ \A n \in 1 .. N : w[n] \in G => w[n - 1] \in G /\ w[n - 1] < w[n]
      /\ w[N] = Null
      /\ \A n \in 0 .. N : \A g \in G :
           w[n] = Null \/ g < w[n] <=> \E k \in 0 .. n - 1 : w[k] = g
  BY LinkedWalk DEF w
<1>3. \E n \in 0 .. N : Is(n)
  <2> SUFFICES ASSUME \A n \in 0 .. N : ~Is(n)
               PROVE  FALSE
    OBVIOUS
  <2> DEFINE S == {n \in 0 .. N : \A k \in 0 .. n - 1 : w[k] \in Arena \ Stop}
  <2>1. 0 \in S
    BY <1>1
  <2>2. \A n \in 0 .. N - 1 : n \in S => n + 1 \in S
    <3> SUFFICES ASSUME NEW n \in 0 .. N - 1, n \in S
                 PROVE  n + 1 \in S
      OBVIOUS
    <3>1. ~Is(n) /\ n \in 0 .. N
      BY <1>1
    <3>2. w[n] \in Arena \ Stop
      BY <3>1
    <3>3. \A k \in 0 .. (n + 1) - 1 : k = n \/ k \in 0 .. n - 1
      BY <1>1
    <3> QED
      BY <1>1, <3>2, <3>3
  <2> HIDE DEF S
  <2>3. N \in S
    <3>1. 0 .. N \subseteq S
      BY <1>1, <2>1, <2>2, ClimbsTo
    <3> QED
      BY <1>1, <3>1
  <2>4. Is(N)
    BY <2>3 DEF S
  <2>5. N \in 0 .. N
    BY <1>1
  <2> QED
    BY <2>4, <2>5
<1> DEFINE n == Words!StepsTo(m, Stop)
<1>4. n = CHOOSE k \in 0 .. N : Is(k)
  BY DEF Words!StepsTo, Arena, w
<1>5. n \in 0 .. N /\ Is(n)
  <2> HIDE DEF Is, n
  <2> QED
    BY <1>3, <1>4
<1>6. Words!Found(m, Stop) = w[n] /\ Words!Before(m, Stop) = IF n = 0 THEN Null ELSE w[n - 1]
  BY DEF Words!Found, Words!Before, w, Null
<1> HIDE DEF n
<1>7. PICK c, p : c = w[n] /\ p = IF n = 0 THEN Null ELSE w[n - 1]
  OBVIOUS
<1>8. c \in G \cup {Null} /\ (c \in G => c \in Stop)
  BY <1>1, <1>2, <1>5, <1>7
<1>9. \A g \in G : (c = Null \/ g < c) => g \notin Stop
  <2> SUFFICES ASSUME NEW g \in G, c = Null \/ g < c
               PROVE  g \notin Stop
    OBVIOUS
  <2>1. \E k \in 0 .. n - 1 : w[k] = g
    BY <1>2, <1>5, <1>7
  <2> QED
    BY <1>5, <2>1
<1>10. IsFirst(c, G \cap Stop)
  <2>1. CASE c = Null
    BY <1>9, <2>1 DEF IsFirst
  <2>2. CASE c # Null
    <3>1. c \in G \cap Stop
      BY <1>8, <2>2
    <3>2. \A g \in G \cap Stop : c <= g
      <4> SUFFICES ASSUME NEW g \in G \cap Stop
                   PROVE  c <= g
        OBVIOUS
      <4>1. ~(g < c)
        BY <1>9
      <4>2. g \in Nat /\ c \in Nat
        BY <1>1, <3>1
      <4> QED
        BY <4>1, <4>2
    <3> QED
      BY <3>1, <3>2 DEF IsFirst
  <2> QED
    BY <2>1, <2>2
<1> DEFINE L == {g \in G : c = Null \/ g < c}
<1>11. IsLast(p, L)
  <2>1. CASE n = 0
    <3>1. \A g \in G : ~(c = Null \/ g < c)
      <4> SUFFICES ASSUME NEW g \in G, c = Null \/ g < c
                   PROVE  FALSE
        OBVIOUS
      <4>1. \E k \in 0 .. n - 1 : w[k] = g
        BY <1>2, <1>5, <1>7
      <4> QED
        BY <2>1, <4>1
    <3>2. L = {}
      BY <3>1
    <3> QED
      BY <1>7, <2>1, <3>2 DEF IsLast
  <2>2. CASE n # 0
    <3>1. n - 1 \in 0 .. N /\ n - 1 \in 0 .. n - 1 /\ n \in 0 .. N
      BY <1>1, <1>5, <2>2
    <3>2. p = w[n - 1] /\ p \in Arena
      BY <1>5, <1>7, <2>2, <3>1
    <3>3. p \in G
      BY <1>1, <1>2, <3>1, <3>2
    <3>4. p \in L
      BY <1>2, <1>7, <3>1, <3>2, <3>3
    <3>5. \A g \in L : g <= p
      <4> SUFFICES ASSUME NEW g \in L, p < g
                   PROVE  FALSE
        BY <1>1, <3>3
      <4>1. \E k \in 0 .. n - 1 : w[k] = g
        BY <1>2, <1>7, <3>1
      <4>2. ~ \E k \in 0 .. (n - 1) - 1 : w[k] = g
        <5>1. ~(w[n - 1] = Null \/ g < w[n - 1])
          BY <1>1, <3>2, <3>3
        <5> QED
          BY <1>2, <3>1, <5>1
      <4>3. w[n - 1] # g
        BY <1>1, <3>2
      <4> QED
        BY <1>1, <1>5, <4>1, <4>2, <4>3
    <3> QED
      BY <3>4, <3>5 DEF IsLast
  <2> QED
    BY <2>1, <2>2
<1> QED
  BY <1>6, <1>7, <1>10, <1>11


-----------------------------------------------------------------------------
(* Putting segments on a list and taking them off it. *)

LEMMA LinkedMeans ==
  ASSUME NEW m, NEW G \in SUBSET Arena
  PROVE  Linked(m, G) <=>
           \A a \in G \cup {Null} :
             \/ m[a + 1] = Null /\ \A g \in G : ~(a < g)
             \/ m[a + 1] \in G /\ a < m[a + 1] /\ \A g \in G : a < g => m[a + 1] <= g
<1> SUFFICES ASSUME NEW a \in G \cup {Null}
             PROVE  IsFirst(m[a + 1], Above(a, G)) <=>
                      \/ m[a + 1] = Null /\ \A g \in G : ~(a < g)
                      \/ m[a + 1] \in G /\ a < m[a + 1] /\ \A g \in G : a < g => m[a + 1] <= g
  BY DEF Linked
<1>1. Null \notin G
  BY ArenaFacts
<1> QED
  BY <1>1 DEF IsFirst, Above

LEMMA Addressed ==
  ASSUME NEW G \in SUBSET Arena
  PROVE  /\ Null = 0 /\ Null \in Nat /\ Null \notin G
         /\ \A a \in G : a \in Nat /\ Null < a
         /\ \A a \in G \cup {Null} : a \in Nat
<1>1. Null = 0 /\ Null \in Nat /\ \A a \in Arena : a \in Nat /\ 0 < a
  BY ArenaFacts
<1> QED
  BY <1>1

LEMMA LastMeans ==
  ASSUME NEW G \in SUBSET Arena, NEW s, NEW p, IsLast(p, Below(s, G))
  PROVE  /\ p \in G \cup {Null}
         /\ p \in G => p < s
         /\ \A g \in G : g < s => p \in G /\ g <= p
<1>1. CASE Below(s, G) = {}
  BY <1>1, Addressed DEF IsLast, Below
<1>2. CASE Below(s, G) # {}
  BY <1>2 DEF IsLast, Below
<1> QED
  BY <1>1, <1>2

(* The segment before leads to the next one. *)
LEMMA NextOfLast ==
  ASSUME NEW m, NEW G \in SUBSET Arena, Linked(m, G), NEW s \in G,
         NEW p, IsLast(p, Below(s, G))
  PROVE  m[p + 1] = s
<1>1. /\ p \in G \cup {Null} /\ (p \in G => p < s)
      /\ \A g \in G : g < s => p \in G /\ g <= p
  BY LastMeans
<1>2. /\ s \in Nat /\ Null < s /\ p \in Nat /\ p < s /\ \A g \in G : g \in Nat /\ Null < g
  BY <1>1, Addressed
<1>3. \/ m[p + 1] = Null /\ \A g \in G : ~(p < g)
      \/ m[p + 1] \in G /\ p < m[p + 1] /\ \A g \in G : p < g => m[p + 1] <= g
  BY <1>1, LinkedMeans
<1>4. m[p + 1] \in G /\ p < m[p + 1] /\ m[p + 1] <= s
  BY <1>2, <1>3
<1>5. ~(m[p + 1] < s)
  <2> SUFFICES ASSUME m[p + 1] < s
               PROVE  FALSE
    OBVIOUS
  <2>1. m[p + 1] <= p
    BY <1>1, <1>4
  <2>2. m[p + 1] \in Nat
    BY <1>2, <1>4
  <2> QED
    BY <1>2, <1>4, <2>1, <2>2
<1>6. m[p + 1] \in Nat
  BY <1>2, <1>4
<1> QED
  BY <1>2, <1>4, <1>5, <1>6

LEMMA LinkInserted ==
  ASSUME NEW m, NEW G \in SUBSET Arena, Linked(m, G), NEW s \in Arena \ G,
         NEW p, IsLast(p, Below(s, G)),
         NEW n, n[p + 1] = s, n[s + 1] = m[p + 1],
         \A a \in G \cup {Null} : a # p => n[a + 1] = m[a + 1]
  PROVE  Linked(n, G \cup {s})
<1>1. /\ p \in G \cup {Null} /\ (p \in G => p < s)
      /\ \A g \in G : g < s => p \in G /\ g <= p
  BY LastMeans
<1>2. /\ s \in Nat /\ Null < s /\ Null = 0 /\ p \in Nat /\ p < s
      /\ \A g \in G : g \in Nat /\ Null < g
  BY <1>1, Addressed
<1>3. \A a \in G \cup {Null} :
        \/ m[a + 1] = Null /\ \A g \in G : ~(a < g)
        \/ m[a + 1] \in G /\ a < m[a + 1] /\ \A g \in G : a < g => m[a + 1] <= g
  BY LinkedMeans
<1> SUFFICES ASSUME NEW a \in G \cup {s} \cup {Null}
             PROVE  \/ n[a + 1] = Null /\ \A g \in G \cup {s} : ~(a < g)
                    \/ /\ n[a + 1] \in G \cup {s} /\ a < n[a + 1]
                       /\ \A g \in G \cup {s} : a < g => n[a + 1] <= g
  BY LinkedMeans
<1>4. CASE a = p
  <2>1. \A g \in G \cup {s} : p < g => s <= g
    <3> SUFFICES ASSUME NEW g \in G, p < g, g < s
                 PROVE  FALSE
      BY <1>2
    <3> QED
      BY <1>1, <1>2
  <2>2. n[a + 1] = s /\ a < s
    BY <1>2, <1>4
  <2> QED
    BY <1>4, <2>1, <2>2
<1>5. CASE a = s
  <2>1. \A g \in G : p < g <=> s < g
    <3> SUFFICES ASSUME NEW g \in G, p < g
                 PROVE  s < g
      BY <1>2
    <3>1. g \in Nat /\ ~(g < s) /\ g # s
      BY <1>1, <1>2
    <3> QED
      BY <1>2, <3>1
  <2>2. ~(s < s)
    BY <1>2
  <2> QED
    BY <1>1, <1>3, <1>5, <2>1, <2>2
<1>6. CASE a # p /\ a # s
  <2>1. /\ a \in G \cup {Null} /\ n[a + 1] = m[a + 1] /\ a \in Nat
    <3>1. a \in G \cup {Null} /\ n[a + 1] = m[a + 1]
      BY <1>6
    <3> QED
      BY <3>1, Addressed
  <2>2. CASE a < s
    <3>0. p \in G /\ a < p
      <4>1. CASE a \in G
        <5>1. p \in G /\ a <= p
          BY <1>1, <2>2, <4>1
        <5> QED
          BY <1>2, <1>6, <2>1, <5>1
      <4>2. CASE a = Null
        BY <1>1, <1>2, <1>6, <4>2
      <4> QED
        BY <2>1, <4>1, <4>2
    <3>1. m[a + 1] \in G /\ a < m[a + 1] /\ m[a + 1] <= p /\ \A g \in G : a < g => m[a + 1] <= g
      BY <1>3, <2>1, <3>0
    <3>2. m[a + 1] <= s
      <4>1. m[a + 1] \in Nat /\ p \in Nat /\ s \in Nat /\ m[a + 1] <= p /\ p < s
        BY <1>2, <3>1
      <4> QED
        BY <4>1
    <3> QED
      BY <2>1, <3>1, <3>2
  <2>3. CASE ~(a < s)
    BY <1>3, <2>1, <2>3
  <2> QED
    BY <2>2, <2>3
<1> QED
  BY <1>4, <1>5, <1>6

LEMMA LinkRemoved ==
  ASSUME NEW m, NEW G \in SUBSET Arena, Linked(m, G), NEW s \in G,
         NEW p, IsLast(p, Below(s, G)),
         NEW n, n[p + 1] = m[s + 1],
         \A a \in (G \ {s}) \cup {Null} : a # p => n[a + 1] = m[a + 1]
  PROVE  Linked(n, G \ {s})
<1>1. /\ p \in G \cup {Null} /\ (p \in G => p < s)
      /\ \A g \in G : g < s => p \in G /\ g <= p
  BY LastMeans
<1>2. /\ s \in Nat /\ Null < s /\ Null = 0 /\ p \in Nat /\ p < s
      /\ \A g \in G : g \in Nat /\ Null < g
  BY <1>1, Addressed
<1>3. \A a \in G \cup {Null} :
        \/ m[a + 1] = Null /\ \A g \in G : ~(a < g)
        \/ m[a + 1] \in G /\ a < m[a + 1] /\ \A g \in G : a < g => m[a + 1] <= g
  BY LinkedMeans
<1> SUFFICES ASSUME NEW a \in (G \ {s}) \cup {Null}
             PROVE  \/ n[a + 1] = Null /\ \A g \in G \ {s} : ~(a < g)
                    \/ /\ n[a + 1] \in G \ {s} /\ a < n[a + 1]
                       /\ \A g \in G \ {s} : a < g => n[a + 1] <= g
  BY LinkedMeans
<1>4. CASE a = p
  <2>1. \A g \in G \ {s} : p < g => s < g
    <3> SUFFICES ASSUME NEW g \in G \ {s}, p < g
                 PROVE  s < g
      OBVIOUS
    <3>1. g \in Nat /\ ~(g < s) /\ g # s
      BY <1>1, <1>2
    <3> QED
      BY <1>2, <3>1
  <2>2. \/ m[s + 1] = Null /\ \A g \in G : ~(s < g)
        \/ m[s + 1] \in G /\ s < m[s + 1] /\ \A g \in G : s < g => m[s + 1] <= g
    BY <1>3
  <2>3. CASE m[s + 1] = Null /\ \A g \in G : ~(s < g)
    BY <1>4, <2>1, <2>3
  <2>4. CASE m[s + 1] \in G /\ s < m[s + 1] /\ \A g \in G : s < g => m[s + 1] <= g
    <3>1. m[s + 1] \in G \ {s} /\ p < m[s + 1]
      <4>1. m[s + 1] \in Nat /\ s \in Nat /\ p \in Nat /\ p < s /\ s < m[s + 1]
        BY <1>2, <2>4
      <4>2. m[s + 1] # s /\ p < m[s + 1]
        BY <4>1
      <4> QED
        BY <2>4, <4>2
    <3> QED
      BY <1>4, <2>1, <2>4, <3>1
  <2> QED
    BY <2>2, <2>3, <2>4
<1>5. CASE a # p
  <2>1. a \in G \cup {Null} /\ n[a + 1] = m[a + 1] /\ a \in Nat /\ a # s
    <3>1. a \in G \cup {Null} /\ a # s /\ n[a + 1] = m[a + 1]
      BY <1>2, <1>5
    <3> QED
      BY <3>1, Addressed
  <2>2. m[a + 1] # s
    <3> SUFFICES ASSUME m[a + 1] = s
                 PROVE  FALSE
      OBVIOUS
    <3>1. a < s /\ \A g \in G : a < g => s <= g
      BY <1>2, <1>3, <2>1
    <3>2. p \in G /\ a < p
      <4>1. CASE a \in G
        <5>1. p \in G /\ a <= p
          BY <1>1, <3>1, <4>1
        <5> QED
          BY <1>2, <1>5, <2>1, <5>1
      <4>2. CASE a = Null
        BY <1>1, <1>2, <1>5, <4>2
      <4> QED
        BY <2>1, <4>1, <4>2
    <3>3. s <= p
      BY <3>1, <3>2
    <3> QED
      BY <1>2, <3>3
  <2> QED
    BY <1>3, <2>1, <2>2
<1> QED
  BY <1>4, <1>5

(* A list in which r takes the place of c.                                 *)
LEMMA LinkReplaced ==
  ASSUME NEW m, NEW G \in SUBSET Arena, Linked(m, G), NEW c \in G,
         NEW p, IsLast(p, Below(c, G)),
         NEW r \in Arena \ G, c < r, \A g \in G : c < g => r < g,
         NEW n, n[p + 1] = r, n[r + 1] = m[c + 1],
         \A a \in (G \ {c}) \cup {Null} : a # p => n[a + 1] = m[a + 1]
  PROVE  Linked(n, (G \ {c}) \cup {r})
<1> DEFINE k == [a \in {b + 1 : b \in (G \ {c}) \cup {Null}} |->
                   IF a = p + 1 THEN m[c + 1] ELSE m[a]]
<1>0. /\ p \in G \cup {Null} /\ (p \in G => p < c)
      /\ \A g \in G : g < c => p \in G /\ g <= p
  BY LastMeans
<1>2. /\ \A a \in G \cup {Null} : a \in Nat
      /\ r \in Nat /\ c \in Nat /\ Null < c /\ Null \in Nat
  BY Addressed, ArenaFacts
<1>1. p \in (G \ {c}) \cup {Null} /\ p \in Nat /\ p < r
  <2>1. p < c /\ p \in Nat
    BY <1>0, <1>2
  <2> QED
    BY <1>0, <1>2, <2>1
<1>3. k[p + 1] = m[c + 1] /\ \A a \in (G \ {c}) \cup {Null} : a # p => k[a + 1] = m[a + 1]
  BY <1>1, <1>2
<1> HIDE DEF k
<1>4. Linked(k, G \ {c})
  BY <1>3, LinkRemoved
<1>5. IsLast(p, Below(r, G \ {c}))
  <2>1. ASSUME NEW g \in G \ {c}
        PROVE  g < r <=> g < c
    <3>1. g \in Nat /\ g # c
      BY <1>2
    <3>2. g < r => ~(c < g)
      <4> SUFFICES ASSUME g < r, c < g PROVE FALSE
        OBVIOUS
      <4>1. r < g
        OBVIOUS
      <4> QED
        BY <1>2, <3>1, <4>1
    <3> QED
      BY <1>2, <3>1, <3>2
  <2>2. ~(c < c)
    BY <1>2
  <2>3. Below(r, G \ {c}) = Below(c, G)
    BY <2>1, <2>2 DEF Below
  <2> QED
    BY <2>3
<1>6. n[r + 1] = k[p + 1] /\ \A a \in (G \ {c}) \cup {Null} : a # p => n[a + 1] = k[a + 1]
  BY <1>3
<1>7. G \ {c} \in SUBSET Arena /\ r \in Arena \ (G \ {c})
  OBVIOUS
<1> QED
  BY <1>4, <1>5, <1>6, <1>7, LinkInserted


-----------------------------------------------------------------------------
(* What the words stand for. *)

(* The words m say that the segments of F are free and those of U held.    *)
Represents(m, F, U) ==
  /\ Tiles(F \cup U)
  /\ F \cap U = {}
  /\ m \in [Arena \cup {Null + 1} -> Int]
  /\ Linked(m, Addresses(F))
  /\ \A s \in F \cup U : m[Address(s)] = s.memSize
  /\ \A s \in U : m[Address(s) + 1] = Null

(* Headers lie in the arena, each in its own segment.                      *)
LEMMA HeaderFacts ==
  ASSUME NEW S, Tiles(S), NEW s \in S
  PROVE  /\ s \in AllSegments /\ s.at \in Nat /\ s.memSize \in Nat
         /\ Address(s) = HeapStart + s.at
         /\ Address(s) \in Arena /\ Address(s) + 1 \in Arena
         /\ Address(s) \in Nat /\ Address(s) > 1
         /\ Address(s) + Header + s.memSize <= HeapStart + HeapSize
<1>1. s \in AllSegments /\ End(s) <= HeapSize
  BY DEF Tiles
<1>2. /\ s.at \in Nat /\ s.memSize \in Nat /\ s.at + Header + s.memSize <= HeapSize
  BY <1>1, SegmentFacts
<1>3. /\ HeapStart \in Nat /\ HeapSize \in Nat /\ Header \in Nat /\ Header >= 2 /\ HeapStart > 1
      /\ Arena = HeapStart .. HeapStart + HeapSize - 1
  BY ArenaFacts
<1>4. PICK a : a = Address(s)
  OBVIOUS
<1>5. a = HeapStart + s.at
  BY <1>4 DEF Address
<1>6. a \in Nat /\ a > 1 /\ a + Header + s.memSize <= HeapStart + HeapSize
  BY <1>2, <1>3, <1>5
<1>7. a \in Arena /\ a + 1 \in Arena
  <2>1. HeapStart <= a /\ a + 1 <= HeapStart + HeapSize - 1
    BY <1>2, <1>3, <1>5
  <2> QED
    BY <1>3, <1>6, <2>1
<1> QED
  BY <1>1, <1>2, <1>4, <1>5, <1>6, <1>7

LEMMA HeadersApart ==
  ASSUME NEW S, Tiles(S), NEW s \in S, NEW t \in S, s # t
  PROVE  /\ Address(s) # Address(t)
         /\ Address(s) + 1 # Address(t)
         /\ Address(s) < Address(t) =>
              s.at < t.at /\ Address(s) + Header + s.memSize <= Address(t)
<1>1. /\ s.at \in Nat /\ s.memSize \in Nat /\ t.at \in Nat /\ t.memSize \in Nat
      /\ s \in AllSegments /\ t \in AllSegments
      /\ Address(s) = HeapStart + s.at /\ Address(t) = HeapStart + t.at
  BY HeaderFacts
<1>2. End(s) = s.at + Header + s.memSize /\ End(t) = t.at + Header + t.memSize
  BY <1>1, SegmentFacts
<1>3. End(s) <= t.at \/ End(t) <= s.at
  BY DEF Tiles, Apart
<1>4. HeapStart \in Nat /\ Header \in Nat /\ Header >= 2
  BY ArenaFacts
<1>5. CASE End(s) <= t.at
  BY <1>1, <1>2, <1>4, <1>5
<1>6. CASE End(t) <= s.at
  BY <1>1, <1>2, <1>4, <1>6
<1> QED
  BY <1>3, <1>5, <1>6

LEMMA AddressesFacts ==
  ASSUME NEW S, Tiles(S), NEW F \in SUBSET S
  PROVE  /\ Addresses(F) \in SUBSET Arena
         /\ \A s \in S : Address(s) \in Addresses(F) <=> s \in F
<1>1. Addresses(F) \in SUBSET Arena
  BY HeaderFacts DEF Addresses
<1>2. ASSUME NEW s \in S, Address(s) \in Addresses(F)
      PROVE  s \in F
  <2>1. PICK t \in F : Address(t) = Address(s)
    BY <1>2 DEF Addresses
  <2> QED
    BY <2>1, HeadersApart
<1>3. \A s \in F : Address(s) \in Addresses(F)
  BY DEF Addresses
<1> QED
  BY <1>1, <1>2, <1>3

(* The word that leads to a place on the list is that of null or of a free *)
(* segment: no other word of a header.                                     *)
LEMMA LinkWords ==
  ASSUME NEW m, NEW F, NEW U, Represents(m, F, U),
         NEW p \in Addresses(F) \cup {Null}
  PROVE  /\ p \in Nat /\ p + 1 \in DOMAIN m
         /\ \A s \in F \cup U : p + 1 # Address(s)
         /\ \A s \in F \cup U : p # Address(s) => p + 1 # Address(s) + 1
         /\ \A s \in U : p # Address(s) /\ p + 1 # Address(s) + 1
<1>1. Tiles(F \cup U) /\ F \cap U = {} /\ DOMAIN m = Arena \cup {Null + 1}
  BY DEF Represents
<1>2. \A s \in F \cup U : Address(s) \in Nat /\ Address(s) > 1
  BY <1>1, HeaderFacts
<1>3. CASE p = Null
  BY <1>1, <1>2, <1>3, ArenaFacts
<1>4. CASE p \in Addresses(F)
  <2>1. PICK f \in F : p = Address(f)
    BY <1>4 DEF Addresses
  <2>2. p \in Nat /\ p + 1 \in Arena
    BY <1>1, <2>1, HeaderFacts
  <2>3. \A s \in F \cup U : p + 1 # Address(s)
    <3> SUFFICES ASSUME NEW s \in F \cup U
                 PROVE  p + 1 # Address(s)
      OBVIOUS
    <3>1. CASE s = f
      BY <2>1, <2>2, <3>1
    <3>2. CASE s # f
      BY <1>1, <2>1, <3>2, HeadersApart
    <3> QED
      BY <3>1, <3>2
  <2>4. \A s \in U : p # Address(s)
    <3> SUFFICES ASSUME NEW s \in U
                 PROVE  p # Address(s)
      OBVIOUS
    <3>1. s # f
      BY <1>1
    <3> QED
      BY <1>1, <2>1, <3>1, HeadersApart
  <2>5. \A s \in F \cup U : p # Address(s) => p + 1 # Address(s) + 1
    BY <1>2, <2>2
  <2> QED
    BY <1>1, <2>2, <2>3, <2>4, <2>5
<1> QED
  BY <1>3, <1>4


-----------------------------------------------------------------------------
(* Each operation on words, and the segments it leaves. *)

(* A segment is taken off the list and given to a client. *)
LEMMA TakesSegment ==
  ASSUME NEW m, NEW F, NEW U, Represents(m, F, U), NEW s \in F,
         NEW p, IsLast(p, Below(Address(s), Addresses(F))),
         NEW n, n = [m EXCEPT ![p + 1] = m[Address(s) + 1], ![Address(s) + 1] = Null]
  PROVE  Represents(n, F \ {s}, U \cup {s})
<1> DEFINE c == Address(s)
           G == Addresses(F)
<1>1. /\ Tiles(F \cup U) /\ F \cap U = {} /\ m \in [Arena \cup {Null + 1} -> Int]
      /\ Linked(m, G) /\ \A t \in F \cup U : m[Address(t)] = t.memSize
      /\ \A t \in U : m[Address(t) + 1] = Null
  BY DEF Represents
<1>2. /\ G \in SUBSET Arena /\ c \in G
      /\ \A t \in F \cup U : Address(t) \in G <=> t \in F
  BY <1>1, AddressesFacts
<1>3. p \in G \cup {Null} /\ (p \in G => p < c) /\ c \in Nat /\ c > 1
      /\ c \in Arena /\ c + 1 \in Arena /\ Null = 0
  BY <1>1, <1>2, LastMeans, HeaderFacts, ArenaFacts
<1>4. /\ p \in Nat /\ p + 1 \in DOMAIN m /\ p # c
      /\ \A t \in F \cup U : p + 1 # Address(t)
      /\ \A t \in U : p + 1 # Address(t) + 1
  BY <1>3, LinkWords
<1>5. /\ n \in [Arena \cup {Null + 1} -> Int]
      /\ \A a \in DOMAIN m : a # p + 1 /\ a # c + 1 => n[a] = m[a]
      /\ n[c + 1] = Null
      /\ n[p + 1] = m[c + 1]
  <2>1. c + 1 \in DOMAIN m /\ m[c + 1] \in Int /\ Null \in Int /\ p + 1 # c + 1
    BY <1>1, <1>3, <1>4
  <2> QED
    BY <1>1, <1>4, <2>1
<1>6. \A t \in F \cup U : n[Address(t)] = t.memSize
  <2> SUFFICES ASSUME NEW t \in F \cup U
               PROVE  n[Address(t)] = t.memSize
    OBVIOUS
  <2>1. Address(t) \in DOMAIN m /\ Address(t) # p + 1
    BY <1>1, <1>4, HeaderFacts
  <2>2. Address(t) # c + 1
    BY <1>1, <1>3, HeaderFacts, HeadersApart
  <2> QED
    BY <1>1, <1>5, <2>1, <2>2
<1>7. \A t \in U \cup {s} : n[Address(t) + 1] = Null
  <2> SUFFICES ASSUME NEW t \in U
               PROVE  n[Address(t) + 1] = Null
    BY <1>5
  <2>1. Address(t) + 1 \in DOMAIN m /\ Address(t) \in Nat /\ Address(t) + 1 # p + 1
    BY <1>1, <1>4, HeaderFacts
  <2>2. t # s /\ t \in F \cup U /\ s \in F \cup U
    BY <1>1
  <2>3. Address(t) # c
    BY <1>1, <2>2, HeadersApart
  <2> QED
    BY <1>1, <1>3, <1>5, <2>1, <2>3
<1>8. Linked(n, Addresses(F \ {s}))
  <2>1. \A a \in (G \ {c}) \cup {Null} : a # p => n[a + 1] = m[a + 1]
    <3> SUFFICES ASSUME NEW a \in (G \ {c}) \cup {Null}, a # p
                 PROVE  n[a + 1] = m[a + 1]
      OBVIOUS
    <3>1. a \in Nat /\ a + 1 \in DOMAIN m /\ a # c
      BY <1>2, <1>3, LinkWords
    <3>2. a + 1 # p + 1 /\ a + 1 # c + 1
      BY <1>3, <1>4, <3>1
    <3> QED
      BY <1>5, <3>1, <3>2
  <2>2. Linked(n, G \ {c})
    <3>1. Linked(m, G) /\ c \in G /\ G \in SUBSET Arena /\ IsLast(p, Below(c, G)) /\ n[p + 1] = m[c + 1]
      BY <1>1, <1>2, <1>5
    <3> HIDE DEF c, G
    <3> QED
      BY <2>1, <3>1, LinkRemoved
  <2>3. G \ {c} = Addresses(F \ {s})
    <3>1. \A t \in F : t # s => Address(t) # c
      BY <1>1, HeadersApart
    <3> QED
      BY <3>1 DEF Addresses
  <2> QED
    BY <2>2, <2>3
<1>9. (F \ {s}) \cup (U \cup {s}) = F \cup U /\ (F \ {s}) \cap (U \cup {s}) = {}
  BY <1>1
<1>10. \A t \in (F \ {s}) \cup (U \cup {s}) : n[Address(t)] = t.memSize
  BY <1>6
<1>11. Tiles((F \ {s}) \cup (U \cup {s}))
  BY <1>1, <1>9
<1> QED
  BY <1>5, <1>7, <1>8, <1>9, <1>10, <1>11 DEF Represents

(* A segment a client returns is put on the list. *)
LEMMA LinksSegment ==
  ASSUME NEW m, NEW F, NEW U, Represents(m, F, U), NEW s \in U,
         NEW p, IsLast(p, Below(Address(s), Addresses(F)))
  PROVE  Represents(Words!LinkedBehind(m, p, Address(s)), F \cup {s}, U \ {s})
<1> DEFINE c == Address(s)
           G == Addresses(F)
           n == Words!LinkedBehind(m, p, c)
<1>1. /\ Tiles(F \cup U) /\ F \cap U = {} /\ m \in [Arena \cup {Null + 1} -> Int]
      /\ Linked(m, G) /\ \A t \in F \cup U : m[Address(t)] = t.memSize
      /\ \A t \in U : m[Address(t) + 1] = Null
  BY DEF Represents
<1>2. /\ G \in SUBSET Arena /\ c \notin G
      /\ \A t \in F \cup U : Address(t) \in G <=> t \in F
  BY <1>1, AddressesFacts
<1>3. p \in G \cup {Null} /\ (p \in G => p < c) /\ c \in Nat /\ c > 1
      /\ c \in Arena /\ c + 1 \in Arena /\ Null = 0
  BY <1>1, <1>2, LastMeans, HeaderFacts, ArenaFacts
<1>4. /\ p \in Nat /\ p + 1 \in DOMAIN m /\ p # c
      /\ \A t \in F \cup U : p + 1 # Address(t)
      /\ \A t \in U : p + 1 # Address(t) + 1
  BY <1>3, LinkWords
<1>5. /\ n \in [Arena \cup {Null + 1} -> Int]
      /\ \A a \in DOMAIN m : a # p + 1 /\ a # c + 1 => n[a] = m[a]
      /\ n[p + 1] = c
      /\ n[c + 1] = m[p + 1]
  <2>1. c + 1 \in DOMAIN m /\ m[p + 1] \in Int /\ c \in Int /\ p + 1 # c + 1
    BY <1>1, <1>3, <1>4
  <2> HIDE DEF c
  <2> QED
    BY <1>1, <1>4, <2>1 DEF Words!LinkedBehind
<1> HIDE DEF n
<1>6. \A t \in F \cup U : n[Address(t)] = t.memSize
  <2> SUFFICES ASSUME NEW t \in F \cup U
               PROVE  n[Address(t)] = t.memSize
    OBVIOUS
  <2>1. Address(t) \in DOMAIN m /\ Address(t) # p + 1
    BY <1>1, <1>4, HeaderFacts
  <2>2. Address(t) # c + 1
    BY <1>1, <1>3, HeaderFacts, HeadersApart
  <2> QED
    BY <1>1, <1>5, <2>1, <2>2
<1>7. \A t \in U \ {s} : n[Address(t) + 1] = Null
  <2> SUFFICES ASSUME NEW t \in U, t # s
               PROVE  n[Address(t) + 1] = Null
    BY <1>5
  <2>1. Address(t) + 1 \in DOMAIN m /\ Address(t) \in Nat /\ Address(t) + 1 # p + 1
    BY <1>1, <1>4, HeaderFacts
  <2>2. Address(t) # c
    BY <1>1, HeadersApart
  <2> QED
    BY <1>1, <1>3, <1>5, <2>1, <2>2
<1>8. Linked(n, Addresses(F \cup {s}))
  <2>1. \A a \in G \cup {Null} : a # p => n[a + 1] = m[a + 1]
    <3> SUFFICES ASSUME NEW a \in G \cup {Null}, a # p
                 PROVE  n[a + 1] = m[a + 1]
      OBVIOUS
    <3>1. a \in Nat /\ a + 1 \in DOMAIN m /\ a # c
      BY <1>2, <1>3, LinkWords
    <3>2. a + 1 # p + 1 /\ a + 1 # c + 1
      BY <1>3, <1>4, <3>1
    <3> QED
      BY <1>5, <3>1, <3>2
  <2>2. Linked(n, G \cup {c})
    BY <1>1, <1>2, <1>3, <1>5, <2>1, LinkInserted
  <2>3. G \cup {c} = Addresses(F \cup {s})
    BY DEF Addresses
  <2> QED
    BY <2>2, <2>3
<1>9. (F \cup {s}) \cup (U \ {s}) = F \cup U /\ (F \cup {s}) \cap (U \ {s}) = {}
  BY <1>1
<1>10. \A t \in (F \cup {s}) \cup (U \ {s}) : n[Address(t)] = t.memSize
  BY <1>6
<1>11. Tiles((F \cup {s}) \cup (U \ {s}))
  BY <1>1, <1>9
<1>12. Represents(n, F \cup {s}, U \ {s})
  BY <1>5, <1>7, <1>8, <1>9, <1>10, <1>11 DEF Represents
<1> QED
  BY <1>12 DEF n


(* A segment is cut: the rest takes its place on the list, a client gets   *)
(* the part.                                                               *)
LEMMA SplitsSegment ==
  ASSUME NEW m, NEW F, NEW U, Represents(m, F, U), NEW s \in F,
         NEW p, IsLast(p, Below(Address(s), Addresses(F))),
         NEW k \in Nat, k + Header <= s.memSize,
         NEW part, part = Segment(s.at, k),
         NEW rest, rest = Segment(s.at + Header + k, s.memSize - k - Header),
         NEW r, r = Address(s) + Header + k,
         NEW n, n = [m EXCEPT ![p + 1] = r,
                              ![r + 1] = m[Address(s) + 1],
                              ![r] = s.memSize - k - Header,
                              ![Address(s)] = k,
                              ![Address(s) + 1] = Null]
  PROVE  Represents(n, (F \ {s}) \cup {rest}, U \cup {part})
<1> DEFINE c == Address(s)
           G == Addresses(F)
           S == F \cup U
           T == (S \ {s}) \cup {part, rest}
<1>1. /\ Tiles(S) /\ F \cap U = {} /\ m \in [Arena \cup {Null + 1} -> Int]
      /\ Linked(m, G) /\ \A t \in S : m[Address(t)] = t.memSize
      /\ \A t \in U : m[Address(t) + 1] = Null
      /\ s \in S
  BY DEF Represents
<1>2. /\ G \in SUBSET Arena /\ c \in G
      /\ \A t \in S : Address(t) \in G <=> t \in F
  BY <1>1, AddressesFacts
<1>3. /\ c \in Nat /\ c > 1 /\ c \in Arena /\ c + 1 \in Arena
      /\ s.at \in Nat /\ s.memSize \in Nat /\ c = HeapStart + s.at /\ r = c + Header + k
      /\ Header \in Nat /\ Header >= 2 /\ Null = 0 /\ HeapStart \in Nat
  BY <1>1, HeaderFacts, ArenaFacts
<1>4. /\ p \in G \cup {Null} /\ (p \in G => p < c)
      /\ p \in Nat /\ p + 1 \in DOMAIN m
      /\ \A t \in S : p + 1 # Address(t)
      /\ \A t \in U : p + 1 # Address(t) + 1
  <2>1. p \in G \cup {Null} /\ (p \in G => p < c)
    BY <1>2, LastMeans
  <2> QED
    BY <2>1, LinkWords
<1>5. p < c
  BY <1>3, <1>4
<1>6. /\ Tiles(T) /\ part \in T /\ rest \in T /\ part.at = s.at /\ rest.at = s.at + Header + k
      /\ part.memSize = k /\ rest.memSize = s.memSize - k - Header
  <2>1. Tiles(T)
    BY <1>1, CutTiles
  <2> QED
    BY <2>1 DEF Segment
<1>7. Address(part) = c /\ Address(rest) = r
  <2> HIDE DEF T
  <2>1. Address(rest) = HeapStart + (s.at + Header + k)
    BY <1>6 DEF Address
  <2>2. HeapStart + (s.at + Header + k) = (HeapStart + s.at) + Header + k
    BY <1>3
  <2>3. Address(part) = c
    BY <1>6 DEF Address
  <2> QED
    BY <1>3, <2>1, <2>2, <2>3
<1>8. r \in Nat /\ r \in Arena /\ r + 1 \in Arena /\ c + 1 < r /\ r + Header <= c + Header + s.memSize
  <2>1. r \in Nat /\ r \in Arena /\ r + 1 \in Arena
    BY <1>6, <1>7, HeaderFacts
  <2> HIDE DEF c
  <2> QED
    BY <1>3, <2>1
<1>9. ASSUME NEW t \in S, t # s
      PROVE  /\ Address(t) \in Nat /\ Address(t) \in DOMAIN m /\ Address(t) + 1 \in DOMAIN m
             /\ Address(t) < c \/ r < Address(t)
             /\ Address(t) \notin {c, c + 1, r, r + 1}
             /\ Address(t) + 1 \notin {c, c + 1, r, r + 1}
  <2>1. /\ Address(t) \in Nat /\ Address(t) \in DOMAIN m /\ Address(t) + 1 \in DOMAIN m
        /\ t.memSize \in Nat
    BY <1>1, HeaderFacts
  <2>2. /\ Address(t) # c
        /\ Address(t) < c => Address(t) + Header + t.memSize <= c
        /\ c < Address(t) => c + Header + s.memSize <= Address(t)
    BY <1>1, <1>9, HeadersApart
  <2>3. PICK a, b : a = Address(t) /\ b = t.memSize
    OBVIOUS
  <2>4. a \in Nat /\ b \in Nat /\ ((a < c /\ a + Header + b <= c) \/ (c < a /\ c + Header + s.memSize <= a))
    <3>1. a \in Nat /\ b \in Nat /\ a # c /\ c \in Nat
      BY <1>3, <2>1, <2>2, <2>3
    <3>2. (a < c => a + Header + b <= c) /\ (c < a => c + Header + s.memSize <= a)
      BY <2>2, <2>3
    <3> HIDE DEF c
    <3> QED
      BY <3>1, <3>2
  <2>5. a < c \/ r < a
    BY <1>3, <1>8, <2>4
  <2>6. a \notin {c, c + 1, r, r + 1} /\ a + 1 \notin {c, c + 1, r, r + 1}
    <3> HIDE DEF c
    <3>1. CASE a < c /\ a + Header + b <= c
      BY <1>3, <1>8, <2>4, <3>1
    <3>2. CASE c < a /\ c + Header + s.memSize <= a
      BY <1>3, <1>8, <2>4, <3>2
    <3> QED
      BY <2>4, <3>1, <3>2
  <2> QED
    BY <2>1, <2>3, <2>5, <2>6
<1>10. /\ n \in [Arena \cup {Null + 1} -> Int]
       /\ \A a \in DOMAIN m : a \notin {p + 1, r + 1, r, c, c + 1} => n[a] = m[a]
       /\ n[p + 1] = r /\ n[r + 1] = m[c + 1] /\ n[c + 1] = Null
       /\ n[r] = s.memSize - k - Header /\ n[c] = k
  <2>1. /\ r + 1 \in DOMAIN m /\ r \in DOMAIN m /\ c \in DOMAIN m /\ c + 1 \in DOMAIN m
        /\ m[c + 1] \in Int /\ r \in Int /\ Null \in Int /\ k \in Int /\ s.memSize - k - Header \in Int
    BY <1>1, <1>3, <1>8
  <2>2. /\ p + 1 # r + 1 /\ p + 1 # r /\ p + 1 # c /\ p + 1 # c + 1
        /\ r + 1 # r /\ r + 1 # c /\ r + 1 # c + 1 /\ r # c /\ r # c + 1 /\ c # c + 1
    <3>1. p + 1 # c
      BY <1>1, <1>4
    <3> HIDE DEF c
    <3> QED
      BY <1>3, <1>4, <1>5, <1>8, <3>1
  <2> HIDE DEF c
  <2> QED
    BY <1>1, <1>4, <2>1, <2>2 DEF c
<1>11. Linked(n, Addresses((F \ {s}) \cup {rest}))
  <2>1. ASSUME NEW a \in (G \ {c}) \cup {Null}, a # p
        PROVE  n[a + 1] = m[a + 1]
    <3>1. a \in Nat /\ a + 1 \in DOMAIN m
      BY <1>2, <2>1, LinkWords
    <3>2. a + 1 # p + 1
      BY <1>4, <2>1, <3>1
    <3>3. a + 1 \notin {r + 1, r, c, c + 1}
      <4>1. CASE a = Null
        BY <1>3, <1>8, <4>1
      <4>2. CASE a # Null
        <5>1. PICK t \in F : a = Address(t)
          BY <2>1, <4>2 DEF Addresses
        <5>2. t # s /\ t \in S
          BY <2>1, <4>2, <5>1
        <5> QED
          BY <1>9, <5>1, <5>2
      <4> QED
        BY <4>1, <4>2
    <3> QED
      BY <1>10, <3>1, <3>2, <3>3
  <2>2. \A g \in G : g # r /\ (c < g => r < g)
    <3> SUFFICES ASSUME NEW g \in G
                 PROVE  g # r /\ (c < g => r < g)
      OBVIOUS
    <3>1. PICK t \in F : g = Address(t)
      BY DEF Addresses
    <3>2. CASE t = s
      BY <1>3, <1>8, <3>1, <3>2
    <3>3. CASE t # s
      <4>1. g \in Nat /\ (g < c \/ r < g)
        BY <1>9, <3>1, <3>3
      <4> QED
        BY <1>3, <1>8, <4>1
    <3> QED
      BY <3>2, <3>3
  <2>3. /\ Linked(m, G) /\ c \in G /\ G \in SUBSET Arena /\ IsLast(p, Below(c, G))
        /\ n[p + 1] = r /\ n[r + 1] = m[c + 1] /\ r \in Arena \ G /\ c < r
    <3>1. r \notin G
      BY <2>2
    <3>2. c < r
      <4>1. c \in Nat /\ r \in Nat /\ c + 1 < r
        BY <1>3, <1>8
      <4> HIDE DEF c
      <4> QED
        BY <4>1
    <3> QED
      BY <1>1, <1>2, <1>8, <1>10, <3>1, <3>2
  <2>4. Linked(n, (G \ {c}) \cup {r})
    <3>1. \A a \in (G \ {c}) \cup {Null} : a # p => n[a + 1] = m[a + 1]
      BY <2>1
    <3>2. \A g \in G : c < g => r < g
      BY <2>2
    <3> HIDE DEF c, G
    <3> QED
      BY ONLY <2>3, <3>1, <3>2, LinkReplaced
  <2>5. Addresses((F \ {s}) \cup {rest}) = (G \ {c}) \cup {r}
    <3>1. \A t \in F : t # s => Address(t) # c
      BY <1>9
    <3> QED
      BY <1>7, <3>1 DEF Addresses
  <2> QED
    BY <2>4, <2>5
<1>12. \A t \in T : n[Address(t)] = t.memSize
  <2>1. ASSUME NEW t \in S, t # s
        PROVE  n[Address(t)] = t.memSize
    BY <1>1, <1>4, <1>9, <1>10, <2>1
  <2> QED
    BY <1>6, <1>7, <1>10, <2>1
<1>13. \A t \in U \cup {part} : n[Address(t) + 1] = Null
  <2>1. ASSUME NEW t \in U
        PROVE  n[Address(t) + 1] = Null
    <3>1. t # s /\ t \in S
      BY <1>1
    <3> QED
      BY <1>1, <1>4, <1>9, <1>10, <3>1
  <2> QED
    BY <1>7, <1>10, <2>1
<1>14. /\ ((F \ {s}) \cup {rest}) \cup (U \cup {part}) = T
       /\ ((F \ {s}) \cup {rest}) \cap (U \cup {part}) = {}
  <2>1. rest # part
    <3>1. r # c
      BY <1>3, <1>8
    <3> QED
      BY <1>7, <3>1
  <2>2. \A t \in S : t # s => t # rest /\ t # part
    BY <1>7, <1>9
  <2>3. s \notin U
    BY <1>1
  <2> QED
    BY <1>1, <2>1, <2>2, <2>3
<1> HIDE DEF T
<1> QED
  BY <1>6, <1>10, <1>11, <1>12, <1>13, <1>14 DEF Represents

LEMMA TouchesMeans ==
  ASSUME NEW m, NEW F, NEW U, Represents(m, F, U), NEW a \in F \cup U, NEW b \in F \cup U
  PROVE  Words!Touches(m, Address(a), Address(b)) <=> Touches(a, b)
<1>1. Tiles(F \cup U) /\ m[Address(a)] = a.memSize
  BY DEF Represents
<1>2. /\ a \in AllSegments /\ a.at \in Nat /\ a.memSize \in Nat /\ b.at \in Nat
      /\ Address(a) = HeapStart + a.at /\ Address(b) = HeapStart + b.at
      /\ Address(a) > 1 /\ Address(b) > 1 /\ Address(a) \in Nat /\ Address(b) \in Nat
  BY <1>1, HeaderFacts
<1>3. Null = 0 /\ HeapStart \in Nat /\ Header \in Nat
  BY ArenaFacts
<1>4. Address(a) # Null /\ Address(b) # Null
  BY <1>2, <1>3
<1>5. Words!Touches(m, Address(a), Address(b)) <=> Address(a) + Header + a.memSize = Address(b)
  BY <1>1, <1>4 DEF Words!Touches, Null
<1>6. Touches(a, b) <=> a.at + Header + a.memSize = b.at
  BY <1>2, SegmentFacts DEF Touches
<1>7. (HeapStart + a.at) + Header + a.memSize = HeapStart + b.at <=> a.at + Header + a.memSize = b.at
  BY <1>2, <1>3
<1> QED
  BY <1>2, <1>5, <1>6, <1>7

(* Two segments on the list that touch become one. *)
LEMMA JoinsSegments ==
  ASSUME NEW m, NEW F, NEW U, Represents(m, F, U), NEW a \in F, NEW b \in F, Touches(a, b)
  PROVE  Represents(Words!Joined(m, Address(a), Address(b)), (F \ {a, b}) \cup {Joined(a, b)}, U)
<1> DEFINE A == Address(a)
           B == Address(b)
           G == Addresses(F)
           S == F \cup U
           n == Words!Joined(m, A, B)
<1>0. PICK j : j = Joined(a, b)
  OBVIOUS
<1>1. /\ Tiles(S) /\ F \cap U = {} /\ m \in [Arena \cup {Null + 1} -> Int]
      /\ Linked(m, G) /\ \A t \in S : m[Address(t)] = t.memSize
      /\ \A t \in U : m[Address(t) + 1] = Null
      /\ a \in S /\ b \in S
  BY DEF Represents
<1>2. /\ G \in SUBSET Arena /\ A \in G /\ B \in G
  BY <1>1, AddressesFacts
<1>3. /\ A \in Nat /\ A > 1 /\ A \in Arena /\ A + 1 \in Arena /\ a.memSize \in Nat
      /\ B \in Nat /\ B > 1 /\ B \in Arena /\ B + 1 \in Arena /\ b.memSize \in Nat
      /\ a \in AllSegments /\ b \in AllSegments
      /\ Header \in Nat /\ Header >= 2 /\ Null = 0
  BY <1>1, HeaderFacts, ArenaFacts
<1>4. Words!Touches(m, A, B) /\ A + Header + a.memSize = B
  <2>1. Words!Touches(m, A, B)
    BY <1>1, TouchesMeans
  <2> QED
    BY <1>1, <2>1 DEF Words!Touches
<1>5. A + 1 < B /\ a # b
  <2> HIDE DEF A, B
  <2>1. A + 1 < B
    BY <1>3, <1>4
  <2>2. A # B
    BY <1>3, <2>1
  <2> QED
    BY <2>1, <2>2 DEF A, B
<1>6. /\ Tiles((S \ {a, b}) \cup {j}) /\ j.at = a.at /\ j.memSize = a.memSize + Header + b.memSize
  <2>1. Tiles((S \ {a, b}) \cup {j}) /\ j.at = a.at
    BY <1>0, <1>1, GlueTiles
  <2> QED
    BY <1>0, <2>1 DEF Joined, Segment
<1>7. Address(j) = A
  BY <1>6 DEF Address
<1>8. ASSUME NEW t \in S, t # a, t # b
      PROVE  /\ Address(t) \in Nat /\ Address(t) \in DOMAIN m /\ Address(t) + 1 \in DOMAIN m
             /\ Address(t) \notin {A, A + 1, B, B + 1}
             /\ Address(t) + 1 \notin {A, A + 1, B + 1}
             /\ Address(t) < A \/ B < Address(t)
  <2>1. /\ Address(t) \in Nat /\ Address(t) \in DOMAIN m /\ Address(t) + 1 \in DOMAIN m
    BY <1>1, HeaderFacts
  <2>2. /\ Address(t) # A /\ Address(t) # B /\ Address(t) + 1 # A /\ A + 1 # Address(t)
        /\ B + 1 # Address(t)
        /\ A < Address(t) => A + Header + a.memSize <= Address(t)
    BY <1>1, <1>8, HeadersApart
  <2> HIDE DEF A, B
  <2>3. PICK x : x = Address(t)
    OBVIOUS
  <2>4. x \in Nat /\ (x < A \/ B < x) /\ x # A /\ x # B
    BY <1>3, <1>4, <2>1, <2>2, <2>3
  <2>5. x + 1 # A + 1 /\ x + 1 # B + 1
    BY <1>3, <2>4
  <2> QED
    BY <2>1, <2>2, <2>3, <2>4, <2>5
<1>9. /\ n \in [Arena \cup {Null + 1} -> Int]
      /\ \A x \in DOMAIN m : x \notin {A, A + 1, B + 1} => n[x] = m[x]
      /\ n[A] = a.memSize + Header + b.memSize /\ n[A + 1] = m[B + 1]
  <2>1. n = [m EXCEPT ![A] = @ + Header + m[B], ![A + 1] = m[B + 1], ![B + 1] = Words!Null]
    BY <1>4 DEF Words!Joined
  <2>2. m[A] = a.memSize /\ m[B] = b.memSize
    BY <1>1
  <2> HIDE DEF n, A, B
  <2>3. /\ A \in DOMAIN m /\ A + 1 \in DOMAIN m /\ B + 1 \in DOMAIN m
        /\ A # A + 1 /\ A # B + 1 /\ A + 1 # B + 1 /\ m[B + 1] \in Int /\ Words!Null \in Int
        /\ a.memSize + Header + b.memSize \in Int
    BY <1>1, <1>3, <1>5 DEF Null
  <2> QED
    BY <1>1, <2>1, <2>2, <2>3
<1> HIDE DEF n
<1>10. IsLast(A, Below(B, G))
  <2>1. A \in Below(B, G)
    BY <1>2, <1>3, <1>5 DEF Below
  <2>2. \A g \in Below(B, G) : g <= A
    <3> SUFFICES ASSUME NEW t \in F, Address(t) < B
                 PROVE  Address(t) <= A
      BY DEF Below, Addresses
    <3>1. CASE t = a
      BY <1>3, <3>1
    <3>2. CASE t = b
      BY <1>3, <3>2
    <3>3. CASE t # a /\ t # b
      <4>1. Address(t) \in Nat /\ (Address(t) < A \/ B < Address(t))
        BY <1>8, <3>3
      <4> QED
        BY <1>3, <4>1
    <3> QED
      BY <3>1, <3>2, <3>3
  <2> QED
    BY <2>1, <2>2 DEF IsLast
<1>11. Linked(n, Addresses((F \ {a, b}) \cup {j}))
  <2>1. ASSUME NEW x \in (G \ {B}) \cup {Null}, x # A
        PROVE  n[x + 1] = m[x + 1]
    <3>1. x \in Nat /\ x + 1 \in DOMAIN m /\ x + 1 # A
      BY <1>1, <2>1, LinkWords
    <3>2. x + 1 # A + 1 /\ x + 1 # B + 1
      <4>1. x # B
        BY <1>3, <2>1
      <4> HIDE DEF A, B
      <4> QED
        BY <1>3, <2>1, <3>1, <4>1
    <3> QED
      BY <1>9, <3>1, <3>2
  <2>2. Linked(m, G) /\ B \in G /\ G \in SUBSET Arena /\ n[A + 1] = m[B + 1]
    BY <1>1, <1>2, <1>9
  <2>3. Linked(n, G \ {B})
    <3> HIDE DEF A, B, G
    <3> QED
      BY <1>10, <2>1, <2>2, LinkRemoved
  <2>4. Addresses((F \ {a, b}) \cup {j}) = G \ {B}
    <3>1. \A t \in F : t # a /\ t # b => Address(t) # B
      BY <1>8
    <3>2. A # B
      BY <1>3, <1>5
    <3> QED
      BY <1>7, <3>1, <3>2 DEF Addresses
  <2> QED
    BY <2>3, <2>4
<1>12. \A t \in (S \ {a, b}) \cup {j} : n[Address(t)] = t.memSize
  BY <1>1, <1>6, <1>7, <1>8, <1>9
<1>13. \A t \in U : n[Address(t) + 1] = Null
  <2> SUFFICES ASSUME NEW t \in U
               PROVE  n[Address(t) + 1] = Null
    OBVIOUS
  <2>1. t \in S /\ t # a /\ t # b
    BY <1>1
  <2> QED
    BY <1>1, <1>8, <1>9, <2>1
<1>14. ((F \ {a, b}) \cup {j}) \cup U = (S \ {a, b}) \cup {j} /\ ((F \ {a, b}) \cup {j}) \cap U = {}
  <2>1. j \notin U
    BY <1>1, <1>7, <1>8
  <2>2. a \notin U /\ b \notin U
    BY <1>1
  <2> QED
    BY <1>1, <2>1, <2>2
<1>15. Represents(n, (F \ {a, b}) \cup {j}, U)
  BY <1>6, <1>9, <1>11, <1>12, <1>13, <1>14 DEF Represents
<1> QED
  BY <1>0, <1>15 DEF n

(* A client that writes in its own segment changes no header. *)
LEMMA WritesInside ==
  ASSUME NEW m, NEW F, NEW U, Represents(m, F, U), NEW s \in U,
         NEW size \in Nat, size <= s.memSize
  PROVE  Represents(Words!Written(m, Address(s) + Header, size), F, U)
<1> DEFINE c == Address(s)
           n == Words!Written(m, c + Header, size)
           S == F \cup U
<1>1. /\ Tiles(S) /\ F \cap U = {} /\ m \in [Arena \cup {Null + 1} -> Int]
      /\ Linked(m, Addresses(F)) /\ \A t \in S : m[Address(t)] = t.memSize
      /\ \A t \in U : m[Address(t) + 1] = Null
      /\ s \in S
  BY DEF Represents
<1>2. /\ c \in Nat /\ c > 1 /\ s.memSize \in Nat /\ Header \in Nat /\ Header >= 2 /\ Null = 0
  BY <1>1, HeaderFacts, ArenaFacts
<1>3. /\ n \in [Arena \cup {Null + 1} -> Int]
      /\ \A a \in DOMAIN m : a \notin c + Header .. c + Header + size - 1 => n[a] = m[a]
  <2>1. DOMAIN m = Arena \cup {Null + 1} /\ Words!Junk \in Int
    BY <1>1 DEF Words!Junk
  <2> HIDE DEF c
  <2> QED
    BY <1>1, <2>1 DEF Words!Written
<1> HIDE DEF n
<1>4. ASSUME NEW t \in S
      PROVE  /\ Address(t) \in DOMAIN m /\ Address(t) + 1 \in DOMAIN m
             /\ Address(t) \notin c + Header .. c + Header + size - 1
             /\ Address(t) + 1 \notin c + Header .. c + Header + size - 1
  <2>1. Address(t) \in Nat /\ t.memSize \in Nat /\ Address(t) \in DOMAIN m /\ Address(t) + 1 \in DOMAIN m
    BY <1>1, HeaderFacts
  <2>2. PICK x, y : x = Address(t) /\ y = t.memSize
    OBVIOUS
  <2>3. x = c \/ (x < c /\ x + Header + y <= c) \/ c + Header + s.memSize <= x
    <3>1. CASE t = s
      BY <2>2, <3>1
    <3>2. CASE t # s
      <4>1. /\ x # c /\ (x < c => x + Header + y <= c) /\ (c < x => c + Header + s.memSize <= x)
        BY <1>1, <2>2, <3>2, HeadersApart
      <4> QED
        BY <1>2, <2>1, <2>2, <4>1
    <3> QED
      BY <3>1, <3>2
  <2> HIDE DEF c
  <2>4. /\ x \notin c + Header .. c + Header + size - 1
        /\ x + 1 \notin c + Header .. c + Header + size - 1
    BY <1>2, <2>1, <2>2, <2>3
  <2> QED
    BY <2>1, <2>2, <2>4
<1>5. n[Null + 1] = m[Null + 1]
  <2>1. Null + 1 \notin c + Header .. c + Header + size - 1 /\ Null + 1 \in DOMAIN m
    BY <1>1, <1>2
  <2> QED
    BY <1>3, <2>1
<1>6. \A t \in S : n[Address(t)] = m[Address(t)] /\ n[Address(t) + 1] = m[Address(t) + 1]
  BY <1>3, <1>4
<1>7. Linked(n, Addresses(F))
  <2>1. \A a \in Addresses(F) \cup {Null} : n[a + 1] = m[a + 1]
    BY <1>5, <1>6 DEF Addresses
  <2> QED
    BY <1>1, <2>1 DEF Linked
<1>8. Represents(n, F, U)
  BY <1>1, <1>3, <1>6, <1>7 DEF Represents
<1> QED
  BY <1>8 DEF n


-----------------------------------------------------------------------------
(* The calls. *)

(* What a loop over the list finds, and the segment before.                *)
LEMMA FoundFirst ==
  ASSUME NEW m, NEW F, NEW U, Represents(m, F, U), NEW Stop \in SUBSET Arena,
         NEW c, c = Words!Found(m, Stop), NEW p, p = Words!Before(m, Stop)
  PROVE  \/ /\ c = Null
            /\ \A t \in F : Address(t) \notin Stop
            /\ IsLast(p, Addresses(F))
         \/ \E s \in F : /\ c = Address(s) /\ c \in Stop
                         /\ \A t \in F : Address(t) \in Stop => s.at <= t.at
                         /\ IsLast(p, Below(c, Addresses(F)))
<1> DEFINE G == Addresses(F)
<1>1. Tiles(F \cup U) /\ Linked(m, G)
  BY DEF Represents
<1>2. G \in SUBSET Arena /\ Null \notin G /\ Null \notin Stop
  BY <1>1, AddressesFacts, ArenaFacts
<1>3. IsFirst(c, G \cap Stop) /\ IsLast(p, {g \in G : c = Null \/ g < c})
  BY <1>1, <1>2, StopsAt
<1>4. CASE G \cap Stop = {}
  <2>1. c = Null
    BY <1>3, <1>4 DEF IsFirst
  <2>2. {g \in G : c = Null \/ g < c} = G
    BY <2>1
  <2>3. \A t \in F : Address(t) \notin Stop
    BY <1>4 DEF Addresses
  <2> QED
    BY <1>3, <2>1, <2>2, <2>3
<1>5. CASE G \cap Stop # {}
  <2>1. c \in G /\ c \in Stop /\ \A g \in G : g \in Stop => c <= g
    BY <1>3, <1>5 DEF IsFirst
  <2>2. PICK s \in F : c = Address(s)
    BY <2>1 DEF Addresses
  <2>3. {g \in G : c = Null \/ g < c} = Below(c, G)
    BY <1>2, <2>1 DEF Below
  <2>4. ASSUME NEW t \in F, Address(t) \in Stop
        PROVE  s.at <= t.at
    <3>1. Address(s) <= Address(t)
      BY <2>1, <2>2, <2>4 DEF Addresses
    <3>2. /\ s.at \in Nat /\ t.at \in Nat /\ HeapStart \in Nat
          /\ Address(s) = HeapStart + s.at /\ Address(t) = HeapStart + t.at
      BY <1>1, HeaderFacts, ArenaFacts
    <3> QED
      BY <3>1, <3>2
  <2> QED
    BY <1>3, <2>1, <2>2, <2>3, <2>4
<1> QED
  BY <1>4, <1>5

LEMMA PreviousFound ==
  ASSUME NEW m, NEW F, NEW U, Represents(m, F, U), NEW x \in Nat
  PROVE  IsLast(Words!Previous(m, x), Below(x, Addresses(F)))
<1> DEFINE G == Addresses(F)
           Stop == {a \in Arena : x <= a}
           c == Words!Found(m, Stop)
           p == Words!Before(m, Stop)
<1>1. Tiles(F \cup U)
  BY DEF Represents
<1>2. G \in SUBSET Arena /\ \A g \in G : g \in Nat
  BY <1>1, AddressesFacts, ArenaFacts
<1>3. Words!Previous(m, x) = p
  BY DEF Words!Previous, Arena
<1>4. \/ c = Null /\ (\A t \in F : Address(t) \notin Stop) /\ IsLast(p, G)
      \/ \E s \in F : /\ c = Address(s) /\ c \in Stop
                      /\ \A t \in F : Address(t) \in Stop => s.at <= t.at
                      /\ IsLast(p, Below(c, G))
  <2> HIDE DEF G, c, p
  <2>1. Stop \in SUBSET Arena
    OBVIOUS
  <2> HIDE DEF Stop
  <2> QED
    BY <2>1, FoundFirst DEF G, c, p
<1> HIDE DEF c, p
<1>5. CASE c = Null /\ (\A t \in F : Address(t) \notin Stop) /\ IsLast(p, G)
  <2>1. \A g \in G : g < x
    BY <1>2, <1>5 DEF Addresses
  <2>2. Below(x, G) = G
    BY <2>1 DEF Below
  <2> QED
    BY <1>3, <1>5, <2>2
<1>6. ASSUME NEW s \in F, c = Address(s), c \in Stop,
             \A t \in F : Address(t) \in Stop => s.at <= t.at, IsLast(p, Below(c, G))
      PROVE  IsLast(p, Below(x, G))
  <2>1. ASSUME NEW g \in G
        PROVE  g < c <=> g < x
    <3>1. PICK t \in F : g = Address(t)
      BY DEF Addresses
    <3>2. g \in Nat /\ c \in Nat /\ x <= c /\ g \in Arena
      BY <1>2, <1>6, ArenaFacts
    <3>3. x <= g => c <= g
      <4>1. /\ s.at \in Nat /\ t.at \in Nat /\ HeapStart \in Nat
            /\ c = HeapStart + s.at /\ g = HeapStart + t.at
        BY <1>1, <1>6, <3>1, HeaderFacts, ArenaFacts
      <4>2. x <= g => s.at <= t.at
        BY <1>6, <3>1, <3>2
      <4> QED
        BY <4>1, <4>2
    <3> QED
      BY <3>2, <3>3
  <2>2. Below(x, G) = Below(c, G)
    BY <2>1 DEF Below
  <2> QED
    BY <1>6, <2>2
<1> QED
  BY <1>3, <1>4, <1>5, <1>6

(* The wrapper asks for enough. *)
LEMMA RoundedUp ==
  ASSUME NEW size \in Sizes
  PROVE  /\ Words!sizeInBlocks(size) \in Requests
         /\ requiredSize(Words!sizeInBlocks(size)) \in Nat
         /\ size \in Nat /\ size <= requiredSize(Words!sizeInBlocks(size))
<1> DEFINE n == size \div BlockSize
           b == Words!sizeInBlocks(size)
<1>1. size \in Nat /\ BlockSize \in Nat /\ BlockSize > 0 /\ b \in Requests
  BY WordsAssumption, SizesAssumption
<1>2. n \in Int /\ size < n * BlockSize + BlockSize
  BY <1>1
<1>3. b = IF n * BlockSize < size THEN n + 1 ELSE n
  BY DEF Words!sizeInBlocks
<1>4. (n + 1) * BlockSize = n * BlockSize + BlockSize /\ n * BlockSize \in Int
  <2> HIDE DEF n
  <2> QED
    BY <1>1, <1>2
<1>5. size <= b * BlockSize
  <2> HIDE DEF n
  <2>1. CASE n * BlockSize < size
    BY <1>1, <1>2, <1>3, <1>4, <2>1
  <2>2. CASE ~(n * BlockSize < size)
    BY <1>1, <1>2, <1>3, <1>4, <2>2
  <2> QED
    BY <2>1, <2>2
<1> QED
  BY <1>1, <1>5, RequiredNat DEF requiredSize

(* A first fit is found, and nothing else. *)
LEMMA FitFound ==
  ASSUME Represents(mem, free, used), NEW size \in Requests,
         NEW fits, fits = {a \in Arena : requiredSize(size) <= mem[a]},
         NEW c, c = Words!Found(mem, fits), NEW p, p = Words!Before(mem, fits)
  PROVE  /\ c = Null => \A s \in free : ~IsFirstFit(s, size)
         /\ c # Null => \E s \in free : /\ c = Address(s) /\ IsFirstFit(s, size)
                                        /\ c \in fits
                                        /\ IsLast(p, Below(c, Addresses(free)))
         /\ \A s \in free : IsFirstFit(s, size) => c = Address(s)
<1> DEFINE k == requiredSize(size)
<1>1. /\ Tiles(free \cup used) /\ k \in Nat /\ Null \notin Arena /\ fits \in SUBSET Arena
      /\ \A s \in free : /\ mem[Address(s)] = s.memSize /\ Address(s) \in Arena /\ s.at \in Nat
                         /\ Address(s) = HeapStart + s.at
  BY RequiredNat, HeaderFacts, ArenaFacts DEF Represents
<1>2. \A s \in free : Address(s) \in fits <=> k <= s.memSize
  BY <1>1
<1>3. \/ c = Null /\ \A t \in free : Address(t) \notin fits
      \/ \E s \in free : /\ c = Address(s) /\ c \in fits
                         /\ \A t \in free : Address(t) \in fits => s.at <= t.at
                         /\ IsLast(p, Below(c, Addresses(free)))
  BY <1>1, FoundFirst
<1>4. CASE c = Null /\ \A t \in free : Address(t) \notin fits
  BY <1>2, <1>4 DEF IsFirstFit
<1>5. ASSUME NEW s \in free, c = Address(s), c \in fits,
             \A t \in free : Address(t) \in fits => s.at <= t.at,
             IsLast(p, Below(c, Addresses(free)))
      PROVE  /\ c # Null
             /\ IsFirstFit(s, size)
             /\ \A t \in free : IsFirstFit(t, size) => c = Address(t)
  <2>1. IsFirstFit(s, size)
    BY <1>2, <1>5 DEF IsFirstFit
  <2>2. ASSUME NEW t \in free, IsFirstFit(t, size)
        PROVE  Address(t) = c
    <3>1. s.at <= t.at /\ t.at <= s.at
      BY <2>1, <2>2 DEF IsFirstFit
    <3>2. s.at = t.at
      BY <1>1, <3>1
    <3> QED
      BY <1>1, <1>5, <3>2
  <2> QED
    BY <1>1, <1>5, <2>1, <2>2
<1> QED
  BY <1>3, <1>4, <1>5

LEMMA AllocatesKeeps ==
  ASSUME Represents(mem, free, used), NEW size \in Sizes, Allocates(size)
  PROVE  Represents(mem', free', used')
<1> DEFINE b == Words!sizeInBlocks(size)
           k == requiredSize(b)
           result == Words!mem_alloc(mem, b)
           fits == {a \in Arena : k <= mem[a]}
           c == Words!Found(mem, fits)
           p == Words!Before(mem, fits)
           r == c + Header + k
           whole == [mem EXCEPT ![p + 1] = mem[c + 1], ![c + 1] = Null]
           split == [mem EXCEPT ![p + 1] = r, ![r + 1] = mem[c + 1],
                                ![r] = mem[c] - k - Header, ![c] = k, ![c + 1] = Null]
<1>1. b \in Requests /\ k \in Nat /\ size \in Nat /\ size <= k
  BY RoundedUp
<1>2. /\ result.pointer = IF c \notin fits \/ r >= HeapStart + HeapSize THEN Null ELSE c + Header
      /\ result.mem = IF c \notin fits \/ r >= HeapStart + HeapSize THEN mem
                      ELSE IF mem[c] - k < Header + BlockSize THEN whole ELSE split
  BY DEF Words!mem_alloc, requiredSize, Arena, Null
<1>3. mem' = IF result.pointer = Null THEN result.mem
             ELSE Words!Written(result.mem, result.pointer, size)
  BY DEF Allocates, Null
<1>4. /\ Tiles(free \cup used) /\ Null = 0 /\ Null \notin Arena
      /\ HeapStart \in Nat /\ HeapSize \in Nat /\ Header \in Nat /\ Header >= 2 /\ BlockSize \in Nat
  BY ArenaFacts DEF Represents
<1>5. /\ c = Null => \A s \in free : ~IsFirstFit(s, b)
      /\ c # Null => \E s \in free : /\ c = Address(s) /\ IsFirstFit(s, b) /\ c \in fits
                                     /\ IsLast(p, Below(c, Addresses(free)))
      /\ \A s \in free : IsFirstFit(s, b) => c = Address(s)
  <2> HIDE DEF b
  <2> QED
    BY <1>1, FitFound
<1> HIDE DEF b, result, c, p
<1>6. ASSUME NEW s \in free, c = Address(s)
      PROVE  /\ mem[c] = s.memSize /\ c \in Nat /\ c > 1 /\ s.at \in Nat /\ s.memSize \in Nat
             /\ c + Header # Null
             /\ ReachesEnd(s, b) <=> r >= HeapStart + HeapSize
             /\ TakesWhole(s, b) <=> mem[c] - k < Header + BlockSize
  <2>1. mem[c] = s.memSize /\ c \in Nat /\ c > 1 /\ s.at \in Nat /\ s.memSize \in Nat /\ c = HeapStart + s.at
    BY <1>4, <1>6, HeaderFacts DEF Represents
  <2>2. c + Header # Null
    BY <1>4, <2>1
  <2> HIDE DEF k
  <2>3. (HeapStart + s.at) + Header + k >= HeapStart + HeapSize <=> s.at + Header + k >= HeapSize
    BY <1>1, <1>4, <2>1
  <2>4. ReachesEnd(s, b) <=> s.at + Header + k >= HeapSize
    BY DEF ReachesEnd, k
  <2>5. TakesWhole(s, b) <=> s.memSize - k < Header + BlockSize
    BY DEF TakesWhole, k
  <2> QED
    BY <2>1, <2>2, <2>3, <2>4, <2>5
<1>7. CASE AllocFail(b)
  <2>1. c \notin fits \/ r >= HeapStart + HeapSize
    <3>1. CASE c = Null
      BY <1>4, <3>1
    <3>2. CASE c # Null
      <4>1. PICK s \in free : c = Address(s) /\ IsFirstFit(s, b)
        BY <1>5, <3>2
      <4>2. ReachesEnd(s, b)
        BY <1>7, <4>1 DEF AllocFail
      <4> QED
        BY <1>6, <4>1, <4>2
    <3> QED
      BY <3>1, <3>2
  <2>2. mem' = mem
    BY <1>2, <1>3, <2>1
  <2> QED
    BY <1>7, <2>2 DEF AllocFail, vars
<1>8. ASSUME NEW s \in free, IsFirstFit(s, b), ~ReachesEnd(s, b)
      PROVE  /\ c = Address(s) /\ c # Null /\ k <= s.memSize
             /\ IsLast(p, Below(c, Addresses(free)))
             /\ result.mem = IF TakesWhole(s, b) THEN whole ELSE split
             /\ mem' = Words!Written(result.mem, c + Header, size)
  <2>1. c = Address(s)
    BY <1>5, <1>8
  <2>2. c # Null
    BY <1>4, <1>6, <2>1
  <2>3. c \in fits /\ IsLast(p, Below(c, Addresses(free)))
    BY <1>5, <2>2
  <2>4. ~(r >= HeapStart + HeapSize) /\ c + Header # Null
    BY <1>6, <1>8, <2>1
  <2>5. k <= s.memSize
    BY <1>8 DEF IsFirstFit
  <2>6. result.pointer = c + Header /\ result.mem = IF TakesWhole(s, b) THEN whole ELSE split
    BY <1>2, <1>6, <2>1, <2>3, <2>4
  <2> QED
    BY <1>3, <2>1, <2>2, <2>3, <2>4, <2>5, <2>6
<1>9. CASE AllocWhole(b)
  <2>1. PICK s \in free : /\ IsFirstFit(s, b) /\ ~ReachesEnd(s, b) /\ TakesWhole(s, b)
                          /\ free' = free \ {s} /\ used' = used \cup {s}
    BY <1>9 DEF AllocWhole
  <2>2. /\ c = Address(s) /\ k <= s.memSize
        /\ IsLast(p, Below(Address(s), Addresses(free)))
        /\ mem' = Words!Written(whole, Address(s) + Header, size)
    BY <1>8, <2>1
  <2>3. whole = [mem EXCEPT ![p + 1] = mem[Address(s) + 1], ![Address(s) + 1] = Null]
    BY <2>2
  <2> HIDE DEF whole
  <2>4. Represents(whole, free \ {s}, used \cup {s})
    BY <2>2, <2>3, TakesSegment
  <2>5. size <= s.memSize /\ s \in used \cup {s}
    BY <1>1, <1>6, <2>2
  <2>6. Represents(mem', free \ {s}, used \cup {s})
    BY <1>1, <2>2, <2>4, <2>5, WritesInside
  <2> QED
    BY <2>1, <2>6
<1>10. CASE AllocSplit(b)
  <2>1. PICK s \in free : /\ IsFirstFit(s, b) /\ ~ReachesEnd(s, b) /\ ~TakesWhole(s, b)
                          /\ free' = (free \ {s}) \cup {Rest(s, b)}
                          /\ used' = used \cup {Part(s, b)}
    BY <1>10 DEF AllocSplit
  <2>2. /\ c = Address(s) /\ k <= s.memSize
        /\ IsLast(p, Below(Address(s), Addresses(free)))
        /\ mem' = Words!Written(split, Address(s) + Header, size)
    BY <1>8, <2>1
  <2>3. mem[Address(s)] = s.memSize /\ s.memSize \in Nat /\ k + Header <= s.memSize
    <3>1. mem[c] = s.memSize /\ s.memSize \in Nat /\ ~(mem[c] - k < Header + BlockSize)
      BY <1>6, <2>1, <2>2
    <3> QED
      BY <1>1, <1>4, <2>2, <3>1
  <2>4. PICK part, rest : part = Part(s, b) /\ rest = Rest(s, b)
    OBVIOUS
  <2>5. part = Segment(s.at, k) /\ rest = Segment(s.at + Header + k, s.memSize - k - Header)
    BY <2>4 DEF Part, Rest
  <2>6. split = [mem EXCEPT ![p + 1] = Address(s) + Header + k,
                            ![Address(s) + Header + k + 1] = mem[Address(s) + 1],
                            ![Address(s) + Header + k] = s.memSize - k - Header,
                            ![Address(s)] = k,
                            ![Address(s) + 1] = Null]
    BY <2>2, <2>3
  <2> HIDE DEF split, k
  <2>7. Represents(split, (free \ {s}) \cup {rest}, used \cup {part})
    BY <1>1, <2>2, <2>3, <2>5, <2>6, SplitsSegment
  <2>8. Address(part) = Address(s) /\ part.memSize = k /\ part \in used \cup {part}
    BY <2>5 DEF Segment, Address
  <2>9. Represents(mem', (free \ {s}) \cup {rest}, used \cup {part})
    BY <1>1, <2>2, <2>7, <2>8, WritesInside
  <2> QED
    BY <2>1, <2>4, <2>9
<1>11. AllocWhole(b) \/ AllocSplit(b) \/ AllocFail(b)
  BY DEF Allocates, b
<1> QED
  BY <1>7, <1>9, <1>10, <1>11


(* At most one segment ends where another begins, or begins where it ends. *)
LEMMA JoinsOnce ==
  ASSUME IInv, NEW s \in used
  PROVE  /\ \A p, q \in free : JoinsPrevious(p, s) /\ JoinsPrevious(q, s) => p = q
         /\ \A n, q \in free : JoinsNext(n, s) /\ JoinsNext(q, s) => n = q
<1>1. Tiles(Segments)
  BY DEF IInv
<1>2. ASSUME NEW p \in free, NEW q \in free, p.at = q.at
      PROVE  p = q
  <2>1. p \in Segments /\ q \in Segments /\ p \in AllSegments /\ q \in AllSegments
    BY <1>1 DEF Segments, Tiles
  <2> QED
    BY <1>1, <1>2, <2>1, SegmentFacts, TilesShare
<1>3. ASSUME NEW p \in free, NEW q \in free, JoinsPrevious(p, s), JoinsPrevious(q, s)
      PROVE  p.at = q.at
  <2>1. p.at <= q.at /\ q.at <= p.at
    BY <1>3 DEF JoinsPrevious, IsPrevious
  <2>2. p.at \in Nat /\ q.at \in Nat
    BY <1>1, SegmentFacts DEF Segments, Tiles
  <2> QED
    BY <2>1, <2>2
<1>4. ASSUME NEW p \in free, NEW q \in free, JoinsNext(p, s), JoinsNext(q, s)
      PROVE  p.at = q.at
  BY <1>4 DEF JoinsNext, Touches
<1> QED
  BY <1>2, <1>3, <1>4

LEMMA FreesKeeps ==
  ASSUME IInv, Represents(mem, free, used), NEW s \in used, Frees(s)
  PROVE  Represents(mem', free', used')
<1> DEFINE x == Address(s)
           G == Addresses(free)
           p == Words!Previous(mem, x)
           L == Words!LinkedBehind(mem, p, x)
           J == Words!Joined(L, p, x)
           first == IF Words!Touches(L, p, x) THEN p ELSE x
           t == J[first + 1]
           R == Words!Joined(J, first, t)
           U == used \ {s}
           F == free \cup {s}
<1>1. /\ Tiles(free \cup used) /\ free \cap used = {} /\ s \notin free
      /\ x \in Nat /\ x > 1 /\ x = HeapStart + s.at /\ s.at \in Nat /\ s.memSize \in Nat
      /\ x + Header + s.memSize <= HeapStart + HeapSize /\ s \in AllSegments
      /\ HeapStart \in Nat /\ HeapSize \in Nat /\ Header \in Nat /\ Header >= 2 /\ Null = 0
  BY HeaderFacts, ArenaFacts DEF Represents
<1>2. mem' = R
  <2> DEFINE ptr == HeapStart + s.at + Header
  <2>1. ptr - Header = x /\ ptr \in HeapStart .. HeapStart + HeapSize
    <3> HIDE DEF x
    <3> QED
      BY <1>1
  <2>2. mem' = Words!mem_free(mem, ptr)
    BY DEF Frees
  <2> HIDE DEF ptr, x
  <2> QED
    BY <2>1, <2>2 DEF Words!mem_free
<1>3. IsLast(p, Below(x, G))
  <2> HIDE DEF x, G
  <2>1. x \in Nat
    BY <1>1
  <2> QED
    BY <2>1, PreviousFound DEF G
<1>4. Represents(L, F, U)
  <2> HIDE DEF p
  <2> QED
    BY <1>3, LinksSegment
<1>5. /\ G \in SUBSET Arena /\ p \in G \cup {Null}
      /\ p \in G => p < x
      /\ \A g \in G : g < x => p \in G /\ g <= p
  <2>1. G \in SUBSET Arena
    BY <1>1, AddressesFacts
  <2> HIDE DEF p, x, G
  <2> QED
    BY <1>3, <2>1, LastMeans
<1> HIDE DEF p, L
<1>6. /\ Tiles(F \cup U) /\ F \cap U = {}
      /\ Segments = free \cup used
  BY <1>4 DEF Represents, Segments
(* The join with the segment before. *)
<1>7. \E F2 : \E f \in F2 :
        /\ Represents(J, F2, U) /\ first = Address(f) /\ End(f) = End(s)
        /\ \/ \E q \in free : JoinsPrevious(q, s) /\ f = Joined(q, s) /\ F2 = (free \ {q}) \cup {f}
           \/ (~\E q \in free : JoinsPrevious(q, s)) /\ f = s /\ F2 = F
  <2>1. CASE \E q \in free : JoinsPrevious(q, s)
    <3>1. PICK q \in free : JoinsPrevious(q, s)
      BY <2>1
    <3>2. IsPrevious(q, s) /\ Touches(q, s)
      BY <3>1 DEF JoinsPrevious
    <3>3. p = Address(q)
      <4>1. q.at \in Nat /\ Address(q) = HeapStart + q.at /\ Address(q) \in G /\ Address(q) \in Nat
        BY <1>1, HeaderFacts DEF Addresses
      <4>2. q.at < s.at /\ \A u \in free : u.at < s.at => u.at <= q.at
        BY <3>2 DEF IsPrevious
      <4>3. p \in G /\ Address(q) <= p /\ p < x
        BY <1>1, <1>5, <4>1, <4>2
      <4>4. PICK u \in free : p = Address(u)
        BY <4>3 DEF Addresses
      <4>5. u.at \in Nat /\ p = HeapStart + u.at
        BY <1>1, <4>4, HeaderFacts
      <4>6. u.at < s.at
        BY <1>1, <4>3, <4>5
      <4>7. u.at <= q.at
        BY <4>2, <4>6
      <4> QED
        BY <1>1, <4>1, <4>3, <4>5, <4>7
    <3>4. Words!Touches(L, p, x)
      BY <1>4, <3>2, <3>3, TouchesMeans
    <3>5. first = Address(q)
      BY <3>3, <3>4
    <3>6. PICK f : f = Joined(q, s)
      OBVIOUS
    <3>7. Represents(J, (F \ {q, s}) \cup {f}, U)
      BY <1>4, <3>2, <3>3, <3>6, JoinsSegments
    <3>8. (F \ {q, s}) \cup {f} = (free \ {q}) \cup {f}
      BY <1>1
    <3>9. f.at = q.at /\ End(f) = End(s)
      <4>1. q \in AllSegments
        BY <1>1 DEF Tiles
      <4>2. /\ q.at \in Nat /\ q.memSize \in Nat
            /\ End(q) = q.at + Header + q.memSize /\ End(s) = s.at + Header + s.memSize
            /\ End(q) = s.at
        BY <1>1, <3>2, <4>1, SegmentFacts DEF Touches
      <4>3. f.at = q.at /\ f.memSize = q.memSize + Header + s.memSize
        BY <3>6 DEF Joined, Segment
      <4>4. End(f) = f.at + Header + f.memSize
        BY DEF End
      <4> QED
        BY <1>1, <4>2, <4>3, <4>4
    <3>10. Address(f) = Address(q)
      BY <3>9 DEF Address
    <3>11. PICK F2 : F2 = (free \ {q}) \cup {f}
      OBVIOUS
    <3>12. f \in F2 /\ Represents(J, F2, U) /\ first = Address(f)
      BY <3>5, <3>7, <3>8, <3>10, <3>11
    <3> HIDE DEF J, first
    <3> QED
      BY <3>1, <3>6, <3>9, <3>11, <3>12
  <2>2. CASE ~\E q \in free : JoinsPrevious(q, s)
    <3>1. ~Words!Touches(L, p, x)
      <4>1. CASE p = Null
        BY <4>1 DEF Words!Touches, Null
      <4>2. CASE p # Null
        <5>1. PICK q \in free : p = Address(q)
          BY <1>5, <4>2 DEF Addresses
        <5>2. Words!Touches(L, p, x) <=> Touches(q, s)
          BY <1>4, <5>1, TouchesMeans
        <5>3. Touches(q, s) => JoinsPrevious(q, s)
          BY TouchingBefore DEF Touches
        <5> QED
          BY <2>2, <5>2, <5>3
      <4> QED
        BY <4>1, <4>2
    <3>2. J = L /\ first = x
      BY <3>1 DEF Words!Joined
    <3>3. s \in F
      OBVIOUS
    <3> HIDE DEF J, first, F
    <3> QED
      BY <1>4, <2>2, <3>2, <3>3
  <2> QED
    BY <2>1, <2>2
<1> HIDE DEF J, first
<1>8. PICK F2 : \E f \in F2 :
        /\ Represents(J, F2, U) /\ first = Address(f) /\ End(f) = End(s)
        /\ \/ \E q \in free : JoinsPrevious(q, s) /\ f = Joined(q, s) /\ F2 = (free \ {q}) \cup {f}
           \/ (~\E q \in free : JoinsPrevious(q, s)) /\ f = s /\ F2 = F
  BY <1>7
<1>9. PICK f \in F2 :
        /\ Represents(J, F2, U) /\ first = Address(f) /\ End(f) = End(s)
        /\ \/ \E q \in free : JoinsPrevious(q, s) /\ f = Joined(q, s) /\ F2 = (free \ {q}) \cup {f}
           \/ (~\E q \in free : JoinsPrevious(q, s)) /\ f = s /\ F2 = F
  BY <1>8
<1>10. /\ Tiles(F2 \cup U) /\ Linked(J, Addresses(F2)) /\ Addresses(F2) \in SUBSET Arena
       /\ Null \notin Addresses(F2) /\ first \in Addresses(F2)
  <2>1. Tiles(F2 \cup U) /\ Linked(J, Addresses(F2))
    BY <1>9 DEF Represents
  <2>2. first \in Addresses(F2)
    BY <1>9 DEF Addresses
  <2>3. Addresses(F2) \in SUBSET Arena
    <3>1. F2 \in SUBSET (F2 \cup U)
      OBVIOUS
    <3> QED
      BY <2>1, <3>1, AddressesFacts
  <2> QED
    BY <2>1, <2>2, <2>3, ArenaFacts
<1>11. f.at \in Nat /\ f.memSize \in Nat /\ f \in AllSegments /\ first = HeapStart + f.at
       /\ End(f) = f.at + Header + f.memSize /\ End(s) \in Nat /\ s.at < End(s)
  BY <1>1, <1>9, <1>10, HeaderFacts, SegmentFacts
(* The segment behind. *)
<1>12. \/ t = Null /\ \A g \in Addresses(F2) : ~(first < g)
       \/ t \in Addresses(F2) /\ first < t /\ \A g \in Addresses(F2) : first < g => t <= g
  BY <1>10, LinkedMeans
<1>13. ASSUME NEW u \in F2, u # f
       PROVE  u \in free /\ ~JoinsPrevious(u, s)
  <2>1. CASE f = s /\ F2 = F /\ ~\E q \in free : JoinsPrevious(q, s)
    BY <1>13, <2>1
  <2>2. ASSUME NEW q \in free, JoinsPrevious(q, s), F2 = (free \ {q}) \cup {f}
        PROVE  u \in free /\ ~JoinsPrevious(u, s)
    BY <1>13, <2>2, JoinsOnce
  <2> QED
    BY <1>9, <2>1, <2>2
<1>14. CASE \E n \in free : JoinsNext(n, s)
  <2>1. PICK n \in free : JoinsNext(n, s)
    BY <1>14
  <2>2. End(f) = n.at /\ n.at \in Nat /\ Address(n) = HeapStart + n.at
    BY <1>1, <1>9, <2>1, HeaderFacts DEF JoinsNext, Touches
  <2>3. n \in F2 /\ n # f
    <3>1. n # f
      BY <1>1, <1>11, <2>2
    <3>2. ~JoinsPrevious(n, s)
      <4>1. s.at < n.at
        BY <2>1 DEF JoinsNext, IsNext
      <4>2. ~(n.at < s.at)
        BY <1>1, <2>2, <4>1
      <4> QED
        BY <4>2 DEF JoinsPrevious, IsPrevious
    <3> QED
      BY <1>9, <3>1, <3>2
  <2>4. first < Address(n)
    BY <1>1, <1>11, <2>2
  <2>5. \A u \in F2 : first < Address(u) => Address(n) <= Address(u)
    <3> SUFFICES ASSUME NEW u \in F2, first < Address(u)
                 PROVE  Address(n) <= Address(u)
      OBVIOUS
    <3>1. u # f /\ Address(u) \in Nat
      BY <1>1, <1>9, <1>10, <1>11, HeaderFacts
    <3>2. first + Header + f.memSize <= Address(u)
      BY <1>9, <1>10, <3>1, HeadersApart
    <3> QED
      BY <1>1, <1>11, <2>2, <3>1, <3>2
  <2>6. t = Address(n)
    <3>1. Address(n) \in Addresses(F2) /\ Address(n) \in Nat
      BY <1>1, <2>2, <2>3 DEF Addresses
    <3>2. t \in Addresses(F2) /\ first < t /\ t <= Address(n)
      BY <1>12, <2>4, <3>1
    <3>3. Address(n) <= t
      BY <2>5, <3>2 DEF Addresses
    <3>4. t \in Nat
      BY <1>10, <3>2, ArenaFacts
    <3> HIDE DEF t
    <3> QED
      BY <3>1, <3>2, <3>3, <3>4
  <2>7. Represents(R, (F2 \ {f, n}) \cup {Joined(f, n)}, U)
    <3>1. Touches(f, n)
      BY <2>2 DEF Touches
    <3> HIDE DEF t
    <3> QED
      BY <1>9, <2>3, <2>6, <3>1, JoinsSegments
  <2>8. CASE f = s /\ F2 = F /\ ~\E q \in free : JoinsPrevious(q, s)
    <3>1. FreeJoinNext(s)
      BY <1>14, <2>8 DEF Frees, FreeAlone, FreeJoinPrevious, FreeJoinBoth
    <3>2. used' = U /\ free' = (free \ {n}) \cup {Joined(s, n)}
      BY <2>1, <3>1, JoinsOnce DEF FreeJoinNext
    <3>3. (F2 \ {f, n}) = free \ {n}
      BY <1>1, <2>8
    <3> QED
      BY <1>2, <2>7, <2>8, <3>2, <3>3
  <2>9. ASSUME NEW q \in free, JoinsPrevious(q, s), f = Joined(q, s), F2 = (free \ {q}) \cup {f}
        PROVE  Represents(mem', free', used')
    <3>1. FreeJoinBoth(s)
      BY <1>14, <2>9 DEF Frees, FreeAlone, FreeJoinPrevious, FreeJoinNext
    <3>2. used' = U /\ free' = (free \ {q, n}) \cup {Joined(f, n)}
      BY <2>1, <2>9, <3>1, JoinsOnce DEF FreeJoinBoth
    <3>3. f \notin free \ {q}
      <4> SUFFICES ASSUME f \in free, f # q
                   PROVE  FALSE
        OBVIOUS
      <4>1. f.at = q.at
        BY <2>9 DEF Joined, Segment
      <4>2. f \in Segments /\ q \in Segments /\ q \in AllSegments
        BY <1>1, <1>6, HeaderFacts
      <4> QED
        BY <1>1, <1>6, <1>11, <4>1, <4>2, TilesShare, SegmentFacts
    <3>4. F2 \ {f, n} = free \ {q, n}
      BY <2>9, <3>3
    <3> QED
      BY <1>2, <2>7, <3>2, <3>4
  <2> QED
    BY <1>9, <2>8, <2>9
<1>15. CASE ~\E n \in free : JoinsNext(n, s)
  <2>1. ~Words!Touches(J, first, t)
    <3>1. CASE t = Null
      BY <3>1 DEF Words!Touches, Null
    <3>2. CASE t # Null
      <4>1. PICK u \in F2 : t = Address(u) /\ first < Address(u)
        BY <1>12, <3>2 DEF Addresses
      <4>2. u # f
        <5>1. first \in Nat /\ first = Address(f)
          BY <1>1, <1>9, <1>11
        <5>2. ~(first < first)
          BY <5>1
        <5> QED
          BY <4>1, <5>1, <5>2
      <4>3. u \in free
        BY <1>13, <4>2
      <4>4. Words!Touches(J, first, t) <=> Touches(f, u)
        <5> HIDE DEF t
        <5> QED
          BY <1>9, <4>1, TouchesMeans
      <4>5. Touches(f, u) => JoinsNext(u, s)
        BY <1>9, <4>3, TouchingAfter DEF Touches
      <4> QED
        BY <1>15, <4>3, <4>4, <4>5
    <3> QED
      BY <3>1, <3>2
  <2>2. R = J
    BY <2>1 DEF Words!Joined
  <2>3. CASE f = s /\ F2 = F /\ ~\E q \in free : JoinsPrevious(q, s)
    <3>1. FreeAlone(s)
      BY <1>15, <2>3 DEF Frees, FreeJoinNext, FreeJoinPrevious, FreeJoinBoth
    <3> QED
      BY <1>2, <1>9, <2>2, <2>3, <3>1 DEF FreeAlone
  <2>4. ASSUME NEW q \in free, JoinsPrevious(q, s), f = Joined(q, s), F2 = (free \ {q}) \cup {f}
        PROVE  Represents(mem', free', used')
    <3>1. FreeJoinPrevious(s)
      BY <1>15, <2>4 DEF Frees, FreeAlone, FreeJoinBoth, FreeJoinNext
    <3>2. used' = U /\ free' = (free \ {q}) \cup {f}
      BY <2>4, <3>1, JoinsOnce DEF FreeJoinPrevious
    <3> QED
      BY <1>2, <1>9, <2>2, <2>4, <3>2
  <2> QED
    BY <1>9, <2>3, <2>4
<1> QED
  BY <1>14, <1>15


-----------------------------------------------------------------------------
(* The words always stand for the segments. *)

LEMMA InitKeeps == InitWords => Represents(mem, free, used)
<1> SUFFICES ASSUME InitWords
             PROVE  Represents(mem, free, used)
  OBVIOUS
<1> DEFINE s == Segment(0, HeapSize - Header)
<1>1. /\ HeapStart \in Nat /\ HeapSize \in Nat /\ Header \in Nat /\ Header < HeapSize /\ HeapStart > 1
      /\ Arena = HeapStart .. HeapStart + HeapSize - 1 /\ Null = 0 /\ Null + 1 \notin Arena
  BY ArenaFacts
<1>2. free = {s} /\ used = {} /\ IInv
  BY InitInv DEF InitWords, Init
<1>3. Tiles(free \cup used) /\ free \cap used = {}
  BY <1>2 DEF IInv, Segments
<1>4. s.memSize = HeapSize - Header /\ Address(s) = HeapStart
  <2>1. s.memSize = HeapSize - Header /\ s.at = 0
    BY DEF Segment
  <2> HIDE DEF s
  <2> QED
    BY <1>1, <2>1 DEF Address
<1> HIDE DEF s
<1>5. mem = [a \in Arena \cup {Null + 1} |->
               CASE a = Null + 1  -> HeapStart
                 [] a = HeapStart -> HeapSize - Header
                 [] OTHER         -> Null]
  BY DEF InitWords, Words!InitialMemory, Arena, Null
<1>6. HeapStart \in Arena /\ HeapStart # Null + 1 /\ HeapStart + 1 # HeapStart /\ HeapStart + 1 # Null + 1
      /\ HeapStart + 1 \in Arena
  BY <1>1, ArenaFacts
<1>7. /\ mem \in [Arena \cup {Null + 1} -> Int]
      /\ mem[Null + 1] = HeapStart /\ mem[HeapStart] = HeapSize - Header /\ mem[HeapStart + 1] = Null
  BY <1>1, <1>5, <1>6
<1>8. Addresses(free) = {HeapStart}
  BY <1>2, <1>4 DEF Addresses
<1>9. Linked(mem, {HeapStart})
  <2>1. Null < HeapStart /\ ~(HeapStart < HeapStart) /\ {HeapStart} \in SUBSET Arena /\ HeapStart <= HeapStart
    BY <1>1, <1>6
  <2> QED
    BY <1>7, <2>1, LinkedMeans
<1>10. \A t \in free \cup used : mem[Address(t)] = t.memSize
  BY <1>2, <1>4, <1>7
<1> QED
  BY <1>2, <1>3, <1>7, <1>8, <1>9, <1>10 DEF Represents

(* With its words the allocator takes no step it does not take without:    *)
(* what is proved of the segments holds beside the words.                  *)
LEMMA StepsOfWords == SpecWords => Spec
<1>1. InitWords => Init
  BY DEF InitWords
<1>2. [NextWords]_allVars => [Next]_vars
  <2> SUFFICES ASSUME [NextWords]_allVars
               PROVE  [Next]_vars
    OBVIOUS
  <2>1. ASSUME NEW size \in Sizes, Allocates(size)
        PROVE  Next
    BY <2>1, RoundedUp DEF Allocates, Next
  <2>2. ASSUME NEW s \in used, Frees(s)
        PROVE  Next
    BY <2>2 DEF Frees, Next
  <2>3. CASE UNCHANGED allVars
    BY <2>3 DEF allVars, vars
  <2> QED
    BY <2>1, <2>2, <2>3 DEF NextWords
<1> QED
  BY <1>1, <1>2, PTL DEF SpecWords, Spec

WordsInv == Represents(mem, free, used)

(* mem_alloc and mem_free keep the free segments linked in order, and the  *)
(* length of each segment in its header.                                   *)
THEOREM WordsInvariance == SpecWords => []WordsInv
<1>1. InitWords => WordsInv
  BY InitKeeps DEF WordsInv
<1>2. IInv /\ WordsInv /\ [NextWords]_allVars => WordsInv'
  <2> SUFFICES ASSUME IInv, WordsInv, [NextWords]_allVars
               PROVE  Represents(mem', free', used')
    BY DEF WordsInv, Represents, Linked, IsFirst, Above, Addresses, Address
  <2>1. ASSUME NEW size \in Sizes, Allocates(size)
        PROVE  Represents(mem', free', used')
    BY <2>1, AllocatesKeeps DEF WordsInv
  <2>2. ASSUME NEW s \in used, Frees(s)
        PROVE  Represents(mem', free', used')
    BY <2>2, FreesKeeps DEF WordsInv
  <2>3. CASE UNCHANGED allVars
    BY <2>3 DEF allVars, WordsInv
  <2> QED
    BY <2>1, <2>2, <2>3 DEF NextWords
<1> QED
  BY <1>1, <1>2, StepsOfWords, Invariance, PTL DEF SpecWords

(* The list the code threads through free memory is that of the free       *)
(* segments, in order, and the headers of held ones are as mem_alloc left  *)
(* them, however clients fill what they asked for.                         *)
THEOREM ListInMemory == SpecWords => []WordsAgree
<1>1. WordsInv => WordsAgree
  <2> SUFFICES ASSUME WordsInv
               PROVE  WordsAgree
    OBVIOUS
  <2> DEFINE w == Words!Along(mem)
             N == HeapSize
             G == Addresses(free)
             listed == {w[n] : n \in 0 .. N} \cap Arena
  <2>1. /\ Tiles(free \cup used) /\ Linked(mem, G)
        /\ \A s \in free \cup used : mem[Address(s)] = s.memSize
        /\ \A s \in used : mem[Address(s) + 1] = Null
    BY DEF WordsInv, Represents
  <2>2. G \in SUBSET Arena /\ Null \notin G /\ Null \notin Arena /\ N \in Nat /\ HeapStart \in Nat
    BY <2>1, AddressesFacts, ArenaFacts
  <2> HIDE DEF w, G
  <2>3. /\ \A n \in 0 .. N : w[n] \in G \cup {Null}
        /\ \A n \in 1 .. N : w[n] \in G => w[n - 1] \in G /\ w[n - 1] < w[n]
        /\ w[N] = Null
        /\ \A n \in 0 .. N : \A g \in G :
             w[n] = Null \/ g < w[n] <=> \E k \in 0 .. n - 1 : w[k] = g
    BY <2>1, <2>2, LinkedWalk DEF w
  <2>4. listed = G
    <3>1. \A g \in G : \E k \in 0 .. N : w[k] = g
      <4> SUFFICES ASSUME NEW g \in G
                   PROVE  \E k \in 0 .. N : w[k] = g
        OBVIOUS
      <4>1. N \in 0 .. N /\ \A k \in 0 .. N - 1 : k \in 0 .. N
        BY <2>2
      <4>2. \E k \in 0 .. N - 1 : w[k] = g
        BY <2>3, <4>1
      <4> QED
        BY <4>1, <4>2
    <3> QED
      BY <2>2, <2>3, <3>1
  <2>5. free = {Segment(a - HeapStart, mem[a]) : a \in G}
    <3>1. ASSUME NEW s \in free
          PROVE  Segment(Address(s) - HeapStart, mem[Address(s)]) = s
      <4>1. s \in AllSegments /\ s.at \in Nat /\ Address(s) = HeapStart + s.at /\ mem[Address(s)] = s.memSize
        BY <2>1, HeaderFacts
      <4>2. Address(s) - HeapStart = s.at
        BY <2>2, <4>1
      <4>3. s = [at |-> s.at, memSize |-> s.memSize]
        BY <4>1 DEF AllSegments
      <4> QED
        BY <4>1, <4>2, <4>3 DEF Segment
    <3> QED
      BY <3>1 DEF G, Addresses
  <2>6. \A n \in 1 .. N : w[n] \in Arena => w[n - 1] < w[n]
    <3>1. \A n \in 1 .. N : n \in 0 .. N
      BY <2>2
    <3> QED
      BY <2>2, <2>3, <3>1
  <2>7. \A s \in used : mem[HeapStart + s.at] = s.memSize /\ mem[HeapStart + s.at + 1] = Null
    BY <2>1 DEF Address
  <2>8. free = {Segment(a - HeapStart, mem[a]) : a \in listed}
    BY <2>4, <2>5
  <2> QED
    BY <2>3, <2>6, <2>7, <2>8 DEF WordsAgree, w, Arena, Null
<1> QED
  BY <1>1, WordsInvariance, PTL
=============================================================================
