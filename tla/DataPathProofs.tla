--------------------------- MODULE DataPathProofs ---------------------------
(***************************************************************************)
(* Proofs about DataPath: memory that is being written is not reused, a     *)
(* read always has room, and the pool loses no buffer and gives none out    *)
(* twice, for any flows, sizes of frames and buckets.                       *)
(***************************************************************************)
EXTENDS DataPath, FiniteSetTheorems, TLAPS

-----------------------------------------------------------------------------
(* The invariant.                                                          *)

Counter == [alloc : Nat, dealloc : Nat, high : Nat]
HeapType == [pool : [Sources -> Counter], live : SUBSET Memory,
             mem : [Memory -> [from : Nat, to : Nat]]]

\* The buffers of a source that are handed out.
Of(h, src) == {m \in h.live : m[1] = src}

\* The memory of each handle of the flows F.
Data(F) == [k \in Handles |-> IF k[2] = "rd" THEN F[k[1]].rd.data ELSE F[k[1]].wr.data]

\* The memory handed out is what the handles hold, each piece in one of them, and
\* the counters of the pool agree.
Held(h, D) ==
    /\ h \in HeapType /\ D \in [Handles -> Memory \cup {Null}]
    /\ \A g, k \in Handles : D[g] = D[k] => g = k \/ D[g] = Null
    /\ h.live = {D[k] : k \in Handles} \ {Null}
    /\ \A b \in Buckets :
          /\ h.pool[b].alloc = h.pool[b].dealloc + Cardinality(Of(h, b))
          /\ Cardinality(Of(h, b)) <= h.pool[b].high

\* What the peer sent and how far it was read and written.
Position(r) ==
    /\ r \in FlowRecord
    /\ 0 \in r.ends /\ r.out \in r.ends /\ r.mark <= r.got
    /\ \E last \in r.ends : r.got <= last /\ \A e \in r.ends : e <= last

\* What the buffers of a flow hold while a read or a write is pending: the part of
\* a frame that waits for its rest, and the frames that are being written.
Filled(r, m) ==
    r.op \in {"read", "write"} =>
        /\ r.got - r.mark \in r.ends
        /\ r.mark > 0 => /\ r.rd.data # Null
                         /\ m[r.rd.data] = Octets(r.got - r.mark, r.got)
                         /\ r.mark < MaxFrameSize /\ MaxFrameSize <= r.rd.size
        /\ r.op = "read" => r.out = r.got - r.mark
        /\ r.op = "write" => /\ r.w.to = r.got - r.mark
                             /\ r.w.data \in {r.rd.data, r.wr.data} \ {Null}
                             /\ m[r.w.data].from = r.out
                             /\ m[r.w.data].to >= r.w.to

Sound(h, F) ==
    /\ F \in [Flows -> FlowRecord]
    /\ Held(h, Data(F))
    /\ \A f \in Flows : Position(F[f]) /\ Filled(F[f], h.mem)

DataPathInv == Sound(heap, flow) /\ open \in BOOLEAN

-----------------------------------------------------------------------------
(* The least and the largest of a set of numbers.                          *)

\* Numbers of which there are some have a least one.
LEMMA LeastOf ==
    ASSUME NEW S \in SUBSET Nat, S # {}
    PROVE  Min(S) \in S /\ \A y \in S : Min(S) <= y
<1>. DEFINE R == {x \in Nat \X Nat : x[1] < x[2]}
<1>1. IsWellFoundedOn(R, Nat)
  BY NatLessThanWellFounded DEF OpToRel
<1>2. \E x \in S : \A y \in S : ~(<<y, x>> \in R)
  <2>. HIDE DEF R
  <2>. QED  BY <1>1, WFMin, Zenon
<1>3. PICK x \in S : \A y \in S : ~(<<y, x>> \in R)
  BY <1>2
<1>4. ASSUME NEW y \in S PROVE x <= y
  <2>1. x \in Nat /\ y \in Nat /\ ~(<<y, x>> \in R)
    BY <1>3
  <2>. QED  BY <2>1
<1>. QED  BY <1>4 DEF Min

\* Max is the largest if there is one.
LEMMA LargestOf ==
    ASSUME NEW S \in SUBSET Nat, NEW last \in S, \A y \in S : y <= last
    PROVE  Max(S) \in S /\ \A y \in S : y <= Max(S)
<1>1. \A y \in S : last >= y
  OBVIOUS
<1>2. Max(S) \in S /\ \A y \in S : Max(S) >= y
  BY <1>1 DEF Max
<1>. QED  BY <1>2

\* Numbers below a bound have a largest one.
LEMMA LargestBelow ==
    ASSUME NEW S \in SUBSET Nat, S # {}, NEW n \in Nat, \A y \in S : y <= n
    PROVE  Max(S) \in S /\ \A y \in S : y <= Max(S)
<1>. DEFINE T == {n - y : y \in S}
<1>1. T \in SUBSET Nat /\ T # {}
  <2>1. ASSUME NEW y \in S PROVE n - y \in Nat
    OBVIOUS
  <2>. QED  BY <2>1
<1>2. Min(T) \in T /\ \A y \in T : Min(T) <= y
  <2>. HIDE DEF T
  <2>. QED  BY <1>1, LeastOf
<1>3. PICK x \in S : Min(T) = n - x
  BY <1>2
<1>4. ASSUME NEW y \in S PROVE y <= x
  <2>1. n - y \in T
    OBVIOUS
  <2>2. Min(T) <= n - y
    BY <1>2, <2>1
  <2>3. n \in Int /\ x \in Int /\ y \in Int
    OBVIOUS
  <2>. QED  BY <1>3, <2>2, <2>3
<1>. QED  BY <1>4, LargestOf

-----------------------------------------------------------------------------
(* The pool.                                                               *)

\* The constants, as the proofs need them.
LEMMA Facts ==
    /\ IsFiniteSet(Flows) /\ Buckets \in SUBSET Nat /\ 0 \notin Buckets
    /\ Sources \in SUBSET Nat /\ Heap \in Sources /\ Buckets \subseteq Sources
    /\ MaxFrameSize \in Nat /\ FrameOverhead \in Nat /\ FrameOverhead < MaxFrameSize
    /\ FrameSizes \in SUBSET Nat /\ 0 \notin FrameSizes
BY DataPathAssumption DEF Sources, Heap

\* No memory is the null pointer, and each comes from its source.
LEMMA MemoryFacts ==
    /\ Null \notin Memory
    /\ \A m \in Memory : m[1] \in Sources
    /\ Cardinality(Flows) \in Nat /\ Number \in SUBSET Nat
<1>1. Cardinality(Flows) \in Nat
  BY Facts, FS_CardinalityType
<1>2. Number \in SUBSET Nat /\ 0 \notin Number
  BY <1>1 DEF Number
<1>3. Null \notin Memory
  BY <1>2 DEF Null, Memory
<1>. QED  BY <1>1, <1>2, <1>3 DEF Memory

\* There are n numbers from 1 to n.
LEMMA IntervalCounts ==
    ASSUME NEW n \in Nat
    PROVE  IsFiniteSet(1..n) /\ Cardinality(1..n) = n
<1>1. IsFiniteSet(1..n) /\ Cardinality(1..n) = IF 1 > n THEN 0 ELSE n - 1 + 1
  BY FS_Interval
<1>. QED  BY <1>1

\* There are two handles to a flow.
LEMMA HandlesFinite ==
    IsFiniteSet(Handles) /\ Cardinality(Handles) = 2 * Cardinality(Flows)
<1>1. IsFiniteSet({"rd", "wr"}) /\ Cardinality({"rd", "wr"}) = 2
  <2>1. IsFiniteSet({"rd"}) /\ Cardinality({"rd"}) = 1 /\ "wr" \notin {"rd"}
    BY FS_Singleton, Zenon
  <2>2. {"rd", "wr"} = {"rd"} \cup {"wr"}
    OBVIOUS
  <2>3. IsFiniteSet({"rd"} \cup {"wr"}) /\ Cardinality({"rd"} \cup {"wr"}) = 2
    BY <2>1, FS_AddElement
  <2>. QED  BY <2>2, <2>3, Zenon
<1>2. IsFiniteSet(Flows \X {"rd", "wr"})
      /\ Cardinality(Flows \X {"rd", "wr"}) = Cardinality(Flows) * Cardinality({"rd", "wr"})
  BY <1>1, Facts, FS_Product, Zenon
<1>. QED  BY <1>1, <1>2, MemoryFacts DEF Handles

\* acquireBuffer finds a source.
LEMMA SourceExists ==
    ASSUME NEW size
    PROVE  SourceOf(size) \in Sources
<1>. DEFINE fits == {b \in Buckets : size <= b}
<1>1. CASE fits = {}
  BY <1>1, Facts DEF SourceOf
<1>2. CASE fits # {}
  <2>1. fits \in SUBSET Nat
    BY Facts
  <2>2. Min(fits) \in fits
    <3>. HIDE DEF fits
    <3>. QED  BY <1>2, <2>1, LeastOf
  <2>. QED  BY <1>2, <2>2, Facts DEF SourceOf
<1>. QED  BY <1>1, <1>2

\* What is handed out is finite.
LEMMA LiveFinite ==
    ASSUME NEW h, NEW D, Held(h, D)
    PROVE  /\ IsFiniteSet(h.live) /\ Cardinality(h.live) <= 2 * Cardinality(Flows)
           /\ \A src : IsFiniteSet(Of(h, src)) /\ Cardinality(Of(h, src)) \in Nat
<1>. DEFINE R == {D[k] : k \in Handles}
<1>1. IsFiniteSet(R) /\ Cardinality(R) <= Cardinality(Handles)
  <2>1. D \in [Handles -> Memory \cup {Null}]
    BY DEF Held
  <2>2. D \in [Handles -> R]
    BY <2>1
  <2>3. \A y \in R : \E k \in Handles : D[k] = y
    OBVIOUS
  <2>. HIDE DEF R
  <2>4. D \in Surjection(Handles, R)
    BY <2>2, <2>3 DEF Surjection
  <2>. QED  BY <2>4, HandlesFinite, FS_Surjection
<1>2. h.live \subseteq R
  BY DEF Held
<1>3. IsFiniteSet(h.live) /\ Cardinality(h.live) <= Cardinality(R)
  <2>. HIDE DEF R
  <2>. QED  BY <1>1, <1>2, FS_Subset
<1>4. Cardinality(R) \in Nat /\ Cardinality(h.live) \in Nat
  <2>. HIDE DEF R
  <2>. QED  BY <1>1, <1>3, FS_CardinalityType
<1>5. ASSUME NEW src
      PROVE  IsFiniteSet(Of(h, src)) /\ Cardinality(Of(h, src)) \in Nat
  <2>1. Of(h, src) \subseteq h.live
    BY DEF Of
  <2>2. IsFiniteSet(Of(h, src))
    BY <1>3, <2>1, FS_Subset
  <2>. QED  BY <2>2, FS_CardinalityType
<1>. QED  BY <1>1, <1>3, <1>4, <1>5, HandlesFinite, MemoryFacts

\* There is always memory that is not handed out: the handles hold at most two
\* pieces for each flow, and the pool has one more.
LEMMA FreeExists ==
    ASSUME NEW h, NEW D, Held(h, D), NEW src \in Sources
    PROVE  /\ Free(h, src) \in Memory /\ Free(h, src) \notin h.live
           /\ Free(h, src)[1] = src
<1>. DEFINE c == Cardinality(Flows)
            S == {i \in Number : <<src, i>> \notin h.live}
            T == {<<src, i>> : i \in Number}
            g == [i \in Number |-> <<src, i>>]
<1>1. S # {}
  <2>. SUFFICES ASSUME S = {} PROVE FALSE
    OBVIOUS
  <2>1. T \subseteq h.live
    OBVIOUS
  <2>2. c \in Nat /\ IsFiniteSet(Number) /\ Cardinality(Number) = 2 * c + 1
    <3>1. c \in Nat
      BY MemoryFacts
    <3>. HIDE DEF c
    <3>2. 2 * c + 1 \in Nat
      BY <3>1
    <3>3. IsFiniteSet(1..(2 * c + 1)) /\ Cardinality(1..(2 * c + 1)) = 2 * c + 1
      BY <3>2, IntervalCounts, Zenon
    <3>. QED  BY <3>1, <3>3 DEF Number, c
  <2>3. g \in Injection(Number, h.live)
    <3>1. g \in [Number -> h.live]
      BY <2>1
    <3>2. \A i, j \in Number : g[i] = g[j] => i = j
      OBVIOUS
    <3>. HIDE DEF g
    <3>. QED  BY <3>1, <3>2 DEF Injection, IsInjective
  <2>4. IsFiniteSet(h.live) /\ Cardinality(h.live) <= 2 * c
    BY LiveFinite
  <2>5. Cardinality(Number) <= Cardinality(h.live)
    <3>. HIDE DEF g
    <3>. QED  BY <2>3, <2>4, FS_Injection DEF ExistsInjection
  <2>6. Cardinality(h.live) \in Nat
    BY <2>4, FS_CardinalityType
  <2>. QED  BY <2>2, <2>4, <2>5, <2>6
<1>2. S \in SUBSET Nat
  BY MemoryFacts
<1>3. Min(S) \in S
  <2>. HIDE DEF S
  <2>. QED  BY <1>1, <1>2, LeastOf
<1>. QED  BY <1>3 DEF Free, Memory


\* The fields of a heap.
LEMMA HeapFields ==
    ASSUME NEW h \in HeapType
    PROVE  /\ h.pool \in [Sources -> Counter] /\ h.live \in SUBSET Memory
           /\ h.mem \in [Memory -> [from : Nat, to : Nat]]
           /\ \A b \in Sources : /\ h.pool[b].alloc \in Nat
                                 /\ h.pool[b].dealloc \in Nat /\ h.pool[b].high \in Nat
BY DEF HeapType, Counter

\* What BufferHandle::release does to a heap: only the counter of the source moves.
LEMMA ReleaseEffect ==
    ASSUME NEW h \in HeapType, NEW handle, handle.data \in Memory \cup {Null}
    PROVE  LET g == Release(h, handle)
           IN  /\ g \in HeapType /\ g.mem = h.mem /\ g.live = h.live \ {handle.data}
               /\ \A b \in Buckets :
                     /\ g.pool[b].alloc = h.pool[b].alloc
                     /\ g.pool[b].high = h.pool[b].high
                     /\ g.pool[b].dealloc =
                          IF handle.data \in Memory /\ handle.data[1] = b
                          THEN h.pool[b].dealloc + 1 ELSE h.pool[b].dealloc
<1>. DEFINE m == handle.data
            src == m[1]
            g == Release(h, handle)
            c == [h.pool[src] EXCEPT !.dealloc = @ + IF src = Heap THEN 0 ELSE 1]
<1>0. /\ h.pool \in [Sources -> Counter] /\ h.live \in SUBSET Memory
      /\ h.mem \in [Memory -> [from : Nat, to : Nat]]
  BY HeapFields
<1>1. CASE m = Null
  <2>1. g = h /\ m \notin Memory
    BY <1>1, MemoryFacts DEF Release
  <2>2. h.live = h.live \ {m}
    BY <1>0, <2>1
  <2>. HIDE DEF g
  <2>. QED  BY <2>1, <2>2 DEF g
<1>2. CASE m # Null
  <2>1. m \in Memory /\ src \in Sources
    BY <1>2, MemoryFacts
  <2>2. g = [h EXCEPT !.live = @ \ {m}, !.pool[src] = c]
    BY <1>2 DEF Release
  <2>3. /\ c \in Counter /\ c.alloc = h.pool[src].alloc /\ c.high = h.pool[src].high
        /\ c.dealloc = h.pool[src].dealloc + IF src = Heap THEN 0 ELSE 1
    BY <1>0, <2>1 DEF Counter
  <2>. HIDE DEF c, g, m, src
  <2>4. /\ g.live = h.live \ {m} /\ g.mem = h.mem /\ g.pool = [h.pool EXCEPT ![src] = c]
        /\ g = [pool |-> g.pool, live |-> g.live, mem |-> g.mem]
    BY <2>2 DEF HeapType
  <2>5. /\ g.pool \in [Sources -> Counter]
        /\ \A b \in Sources : g.pool[b] = IF b = src THEN c ELSE h.pool[b]
    BY <1>0, <2>3, <2>4
  <2>6. g \in HeapType
    BY <1>0, <2>4, <2>5 DEF HeapType
  <2>7. ASSUME NEW b \in Buckets
        PROVE  /\ g.pool[b].alloc = h.pool[b].alloc
               /\ g.pool[b].high = h.pool[b].high
               /\ g.pool[b].dealloc = IF m \in Memory /\ src = b
                                      THEN h.pool[b].dealloc + 1 ELSE h.pool[b].dealloc
    BY <2>1, <2>3, <2>5, Facts DEF Heap
  <2>. QED  BY <2>4, <2>6, <2>7 DEF g, m, src
<1>. QED  BY <1>1, <1>2

\* BufferHandle::release: the buffer goes back to its source, which counts it, and
\* the handle holds none.
LEMMA ReleaseHeld ==
    ASSUME NEW h, NEW D, Held(h, D), NEW k \in Handles, NEW handle, handle.data = D[k]
    PROVE  /\ Held(Release(h, handle), [D EXCEPT ![k] = Null])
           /\ Release(h, handle).mem = h.mem
<1>. DEFINE m == D[k]
            E == [D EXCEPT ![k] = Null]
            g == Release(h, handle)
<1>0. /\ h \in HeapType /\ D \in [Handles -> Memory \cup {Null}]
      /\ \A x, y \in Handles : D[x] = D[y] => x = y \/ D[x] = Null
      /\ h.live = {D[x] : x \in Handles} \ {Null}
      /\ \A b \in Buckets : /\ h.pool[b].alloc = h.pool[b].dealloc + Cardinality(Of(h, b))
                            /\ Cardinality(Of(h, b)) <= h.pool[b].high
  BY DEF Held
<1>1. m \in Memory \cup {Null}
  BY <1>0
<1>2. /\ g \in HeapType /\ g.mem = h.mem /\ g.live = h.live \ {m}
      /\ \A b \in Buckets :
            /\ g.pool[b].alloc = h.pool[b].alloc /\ g.pool[b].high = h.pool[b].high
            /\ g.pool[b].dealloc = IF m \in Memory /\ m[1] = b
                                   THEN h.pool[b].dealloc + 1 ELSE h.pool[b].dealloc
  BY <1>0, <1>1, ReleaseEffect
<1>3. E \in [Handles -> Memory \cup {Null}]
      /\ \A x \in Handles : E[x] = IF x = k THEN Null ELSE D[x]
  BY <1>0
<1>. HIDE DEF E, g
<1>4. \A x, y \in Handles : E[x] = E[y] => x = y \/ E[x] = Null
  BY <1>0, <1>3, Zenon
<1>5. g.live = {E[x] : x \in Handles} \ {Null}
  BY <1>0, <1>2, <1>3
<1>6. ASSUME NEW b \in Buckets
      PROVE  /\ g.pool[b].alloc = g.pool[b].dealloc + Cardinality(Of(g, b))
             /\ Cardinality(Of(g, b)) <= g.pool[b].high
  <2>0. /\ h.pool[b].alloc = h.pool[b].dealloc + Cardinality(Of(h, b))
        /\ Cardinality(Of(h, b)) <= h.pool[b].high /\ b \in Sources
        /\ IsFiniteSet(Of(h, b)) /\ Cardinality(Of(h, b)) \in Nat
        /\ h.pool[b].alloc \in Nat /\ h.pool[b].dealloc \in Nat /\ h.pool[b].high \in Nat
    BY <1>0, Facts, LiveFinite, HeapFields
  <2>1. CASE m \in Memory /\ m[1] = b
    <3>1. Of(g, b) = Of(h, b) \ {m} /\ m \in Of(h, b)
      BY <1>0, <1>2, <2>1, MemoryFacts DEF Of
    <3>2. Cardinality(Of(g, b)) = Cardinality(Of(h, b)) - 1
      BY <2>0, <3>1, FS_RemoveElement
    <3>. QED  BY <1>2, <2>0, <2>1, <3>2
  <2>2. CASE ~(m \in Memory /\ m[1] = b)
    <3>1. Of(g, b) = Of(h, b)
      <4>1. h.live \subseteq Memory
        BY <1>0, HeapFields
      <4>. QED  BY <1>2, <2>2, <4>1 DEF Of
    <3>. QED  BY <1>2, <2>0, <2>2, <3>1
  <2>. QED  BY <2>1, <2>2
<1>7. Held(g, E)
  BY <1>2, <1>3, <1>4, <1>5, <1>6, Zenon DEF Held
<1>. QED  BY <1>2, <1>7 DEF g, E

\* A handle that holds none gets a buffer m of the source src: nothing else
\* changes but the counters of that source.
LEMMA TakeHeld ==
    ASSUME NEW h, NEW D, Held(h, D), NEW k \in Handles, D[k] = Null,
           NEW m \in Memory, m \notin h.live,
           NEW g \in HeapType, g.live = h.live \cup {m},
           \A b \in Buckets \ {m[1]} : g.pool[b] = h.pool[b],
           \A b \in Buckets : b = m[1] =>
               /\ g.pool[b].alloc = h.pool[b].alloc + 1
               /\ g.pool[b].dealloc = h.pool[b].dealloc
               /\ h.pool[b].high <= g.pool[b].high
               /\ h.pool[b].alloc + 1 - h.pool[b].dealloc <= g.pool[b].high
    PROVE  Held(g, [D EXCEPT ![k] = m])
<1>. DEFINE E == [D EXCEPT ![k] = m]
<1>0. /\ h \in HeapType /\ D \in [Handles -> Memory \cup {Null}]
      /\ \A x, y \in Handles : D[x] = D[y] => x = y \/ D[x] = Null
      /\ h.live = {D[x] : x \in Handles} \ {Null}
      /\ \A b \in Buckets : /\ h.pool[b].alloc = h.pool[b].dealloc + Cardinality(Of(h, b))
                            /\ Cardinality(Of(h, b)) <= h.pool[b].high
  BY DEF Held
<1>1. m # Null
  BY MemoryFacts
<1>2. E \in [Handles -> Memory \cup {Null}]
      /\ \A x \in Handles : E[x] = IF x = k THEN m ELSE D[x]
  BY <1>0
<1>. HIDE DEF E
<1>3. \A x \in Handles : D[x] # m
  BY <1>0, <1>1
<1>4. \A x, y \in Handles : E[x] = E[y] => x = y \/ E[x] = Null
  <2>. SUFFICES ASSUME NEW x \in Handles, NEW y \in Handles, E[x] = E[y], x # y
                PROVE  E[x] = Null
    BY Zenon
  <2>1. CASE x # k /\ y # k
    <3>1. E[x] = D[x] /\ E[y] = D[y]
      BY <1>2, <2>1
    <3>. QED  BY <1>0, <3>1, Zenon
  <2>2. CASE x = k \/ y = k
    BY <1>2, <1>3, <2>2
  <2>. QED  BY <2>1, <2>2
<1>5. g.live = {E[x] : x \in Handles} \ {Null}
  BY <1>0, <1>1, <1>2
<1>6. ASSUME NEW b \in Buckets
      PROVE  /\ g.pool[b].alloc = g.pool[b].dealloc + Cardinality(Of(g, b))
             /\ Cardinality(Of(g, b)) <= g.pool[b].high
  <2>0. /\ h.pool[b].alloc = h.pool[b].dealloc + Cardinality(Of(h, b))
        /\ Cardinality(Of(h, b)) <= h.pool[b].high
        /\ IsFiniteSet(Of(h, b)) /\ Cardinality(Of(h, b)) \in Nat
        /\ h.pool[b].alloc \in Nat /\ h.pool[b].dealloc \in Nat /\ h.pool[b].high \in Nat
        /\ g.pool[b].high \in Nat
    BY <1>0, Facts, LiveFinite, HeapFields
  <2>1. CASE b = m[1]
    <3>1. Of(g, b) = Of(h, b) \cup {m} /\ m \notin Of(h, b)
      BY <2>1 DEF Of
    <3>2. Cardinality(Of(g, b)) = Cardinality(Of(h, b)) + 1
      BY <2>0, <3>1, FS_AddElement
    <3>. QED  BY <2>0, <2>1, <3>2
  <2>2. CASE b # m[1]
    <3>1. Of(g, b) = Of(h, b) /\ g.pool[b] = h.pool[b]
      BY <2>2 DEF Of
    <3>. QED  BY <2>0, <3>1
  <2>. QED  BY <2>1, <2>2
<1>7. Held(g, E)
  BY <1>2, <1>4, <1>5, <1>6, Zenon DEF Held
<1>. QED  BY <1>7 DEF E

\* Count adds one to what a source has given out.
LEMMA CountEffect ==
    ASSUME NEW c \in Counter, NEW src \in Sources,
           src # Heap => c.dealloc <= c.alloc
    PROVE  /\ Count(c, src) \in Counter
           /\ Count(c, src).alloc = c.alloc + 1 /\ Count(c, src).dealloc = c.dealloc
           /\ c.high <= Count(c, src).high
           /\ src # Heap => c.alloc + 1 - c.dealloc <= Count(c, src).high
<1>. DEFINE n == c.alloc + 1 - c.dealloc
            top == Max({c.high, n})
<1>1. /\ c.alloc \in Nat /\ c.dealloc \in Nat /\ c.high \in Nat
      /\ src # Heap => n \in Nat
  BY DEF Counter
<1>2. ASSUME src # Heap
      PROVE  top \in {c.high, n} /\ \A y \in {c.high, n} : y <= top
  <2>. HIDE DEF n
  <2>1. {c.high, n} \in SUBSET Nat /\ {c.high, n} # {}
    BY <1>1, <1>2
  <2>2. c.high + n \in Nat /\ \A y \in {c.high, n} : y <= c.high + n
    BY <1>1, <1>2
  <2>. QED  BY <2>1, <2>2, LargestBelow
<1>. DEFINE high == IF src = Heap THEN c.high ELSE top
<1>3. Count(c, src) = [c EXCEPT !.alloc = c.alloc + 1, !.high = high]
  BY DEF Count
<1>4. high \in Nat /\ c.high <= high /\ (src # Heap => n <= high)
  BY <1>1, <1>2
<1>. HIDE DEF high, n
<1>5. Count(c, src) = [alloc |-> c.alloc + 1, dealloc |-> c.dealloc, high |-> high]
  BY <1>3 DEF Counter
<1>. QED  BY <1>1, <1>4, <1>5 DEF Counter, n

\* acquireBuffer: the handle gets memory that was not handed out, and what it held
\* goes back.
LEMMA AcquireHeld ==
    ASSUME NEW h, NEW D, Held(h, D), NEW k \in Handles, NEW handle, handle.data = D[k],
           NEW size \in Nat
    PROVE  LET a == AcquireBuffer(h, handle, size)
           IN  /\ a.handle.data \in Memory /\ a.handle.data \notin h.live
               /\ a.handle = [data |-> a.handle.data, size |-> size]
               /\ a.heap.mem = h.mem
               /\ Held(a.heap, [D EXCEPT ![k] = a.handle.data])
<1>. DEFINE src == SourceOf(size)
            m == Free(h, src)
            g == [h EXCEPT !.live = @ \cup {m}, !.pool[src] = Count(h.pool[src], src)]
            a == AcquireBuffer(h, handle, size)
            r == Release(h, handle)
            E == [D EXCEPT ![k] = Null]
<1>0. a = [heap |-> Release(g, handle), handle |-> [data |-> m, size |-> size]]
  BY DEF AcquireBuffer
<1>1. src \in Sources
  BY SourceExists
<1>2. m \in Memory /\ m \notin h.live /\ m[1] = src
  BY <1>1, FreeExists
<1>3. h \in HeapType
  BY DEF Held
<1>. HIDE DEF src, m
<1>4. h.pool[src] \in Counter /\ (src # Heap => h.pool[src].dealloc <= h.pool[src].alloc)
  <2>1. h.pool[src] \in Counter
    BY <1>1, <1>3, HeapFields
  <2>2. ASSUME src # Heap PROVE h.pool[src].dealloc <= h.pool[src].alloc
    <3>1. src \in Buckets
      BY <1>1, <2>2 DEF Sources
    <3>2. /\ h.pool[src].alloc = h.pool[src].dealloc + Cardinality(Of(h, src))
          /\ Cardinality(Of(h, src)) \in Nat /\ h.pool[src].dealloc \in Nat
      BY <1>1, <1>3, <3>1, LiveFinite, HeapFields DEF Held
    <3>. QED  BY <3>2
  <2>. QED  BY <2>1, <2>2
<1>5. /\ Count(h.pool[src], src) \in Counter
      /\ Count(h.pool[src], src).alloc = h.pool[src].alloc + 1
      /\ Count(h.pool[src], src).dealloc = h.pool[src].dealloc
      /\ h.pool[src].high <= Count(h.pool[src], src).high
      /\ src # Heap => h.pool[src].alloc + 1 - h.pool[src].dealloc
                          <= Count(h.pool[src], src).high
  BY <1>1, <1>4, CountEffect
<1>. DEFINE c == Count(h.pool[src], src)
<1>6. /\ g.live = h.live \cup {m} /\ g.mem = h.mem
      /\ g.pool = [h.pool EXCEPT ![src] = c]
      /\ g = [pool |-> g.pool, live |-> g.live, mem |-> g.mem]
  <2>1. g = [h EXCEPT !.live = @ \cup {m}, !.pool[src] = c]
    OBVIOUS
  <2>. HIDE DEF c, g
  <2>. QED  BY <1>3, <2>1 DEF HeapType
<1>7. g \in HeapType /\ \A b \in Sources : g.pool[b] = IF b = src THEN c ELSE h.pool[b]
  <2>. HIDE DEF g
  <2>1. /\ h.pool \in [Sources -> Counter] /\ h.live \in SUBSET Memory
        /\ h.mem \in [Memory -> [from : Nat, to : Nat]]
    BY <1>3, HeapFields
  <2>2. c \in Counter
    BY <1>5
  <2>. HIDE DEF c
  <2>3. /\ g.pool \in [Sources -> Counter]
        /\ \A b \in Sources : g.pool[b] = IF b = src THEN c ELSE h.pool[b]
    BY <1>6, <2>1, <2>2
  <2>. QED  BY <1>2, <1>6, <2>1, <2>3 DEF HeapType
<1>8. Held(r, E) /\ r.mem = h.mem
  BY ReleaseHeld
<1>9. E[k] = Null /\ [E EXCEPT ![k] = m] = [D EXCEPT ![k] = m]
  BY DEF Held
<1>10. /\ Release(g, handle) \in HeapType /\ Release(g, handle).mem = h.mem
       /\ Release(g, handle).live = r.live \cup {m} /\ m \notin r.live
       /\ \A b \in Buckets \ {src} : Release(g, handle).pool[b] = r.pool[b]
       /\ \A b \in Buckets : b = src =>
               /\ Release(g, handle).pool[b].alloc = r.pool[b].alloc + 1
               /\ Release(g, handle).pool[b].dealloc = r.pool[b].dealloc
               /\ r.pool[b].high <= Release(g, handle).pool[b].high
               /\ r.pool[b].alloc + 1 - r.pool[b].dealloc
                    <= Release(g, handle).pool[b].high
  <2>1. handle.data \in Memory \cup {Null} /\ m # handle.data
    BY <1>2, MemoryFacts DEF Held
  <2>. DEFINE u == Release(g, handle)
  <2>. HIDE DEF g, c
  <2>2. /\ r.live = h.live \ {handle.data}
        /\ \A b \in Buckets :
              /\ r.pool[b].alloc = h.pool[b].alloc /\ r.pool[b].high = h.pool[b].high
              /\ r.pool[b].dealloc = IF handle.data \in Memory /\ handle.data[1] = b
                                     THEN h.pool[b].dealloc + 1 ELSE h.pool[b].dealloc
    BY <1>3, <2>1, ReleaseEffect
  <2>3. /\ u \in HeapType /\ u.mem = g.mem /\ u.live = g.live \ {handle.data}
        /\ \A b \in Buckets :
              /\ u.pool[b].alloc = g.pool[b].alloc /\ u.pool[b].high = g.pool[b].high
              /\ u.pool[b].dealloc = IF handle.data \in Memory /\ handle.data[1] = b
                                     THEN g.pool[b].dealloc + 1 ELSE g.pool[b].dealloc
    BY <1>7, <2>1, ReleaseEffect
  <2>4. Held(r, E) /\ r \in HeapType
    BY <1>8 DEF Held
  <2>. HIDE DEF r, u
  <2>5. u.mem = h.mem /\ u.live = r.live \cup {m} /\ m \notin r.live
    BY <1>2, <1>6, <2>1, <2>2, <2>3
  <2>6. ASSUME NEW b \in Buckets, b # src PROVE u.pool[b] = r.pool[b]
    <3>1. u.pool[b] \in Counter /\ r.pool[b] \in Counter /\ g.pool[b] = h.pool[b]
      BY <1>7, <2>3, <2>4, <2>6, Facts, HeapFields
    <3>2. /\ u.pool[b].alloc = r.pool[b].alloc /\ u.pool[b].high = r.pool[b].high
          /\ u.pool[b].dealloc = r.pool[b].dealloc
      BY <2>2, <2>3, <3>1
    <3>. QED  BY <3>1, <3>2 DEF Counter
  <2>7. ASSUME NEW b \in Buckets, b = src
        PROVE  /\ u.pool[b].alloc = r.pool[b].alloc + 1
               /\ u.pool[b].dealloc = r.pool[b].dealloc
               /\ r.pool[b].high <= u.pool[b].high
               /\ r.pool[b].alloc + 1 - r.pool[b].dealloc <= u.pool[b].high
    <3>1. g.pool[b] = c /\ b \in Sources /\ b # Heap
      BY <1>7, <2>7, Facts DEF Heap
    <3>2. /\ c.alloc = h.pool[b].alloc + 1 /\ c.dealloc = h.pool[b].dealloc
          /\ h.pool[b].high <= c.high
          /\ h.pool[b].alloc + 1 - h.pool[b].dealloc <= c.high
          /\ c.high \in Nat
      BY <1>5, <2>7, <3>1 DEF c, Counter
    <3>3. h.pool[b].alloc \in Nat /\ h.pool[b].dealloc \in Nat /\ h.pool[b].high \in Nat
      BY <1>3, <3>1, HeapFields
    <3>. QED  BY <2>2, <2>3, <3>1, <3>2, <3>3
  <2>. QED  BY <2>3, <2>5, <2>6, <2>7 DEF u
<1>11. Held(Release(g, handle), [E EXCEPT ![k] = m])
  <2>. HIDE DEF g, r, E, c
  <2>. QED  BY <1>2, <1>8, <1>9, <1>10, TakeHeld
<1>12. /\ a.handle.data = m /\ a.handle = [data |-> m, size |-> size]
       /\ a.heap = Release(g, handle)
  BY <1>0
<1>. HIDE DEF g, r, E, c, a
<1>13. /\ a.handle.data \in Memory /\ a.handle.data \notin h.live
       /\ a.handle = [data |-> a.handle.data, size |-> size]
       /\ a.heap.mem = h.mem /\ Held(a.heap, [D EXCEPT ![k] = a.handle.data])
  BY <1>2, <1>9, <1>10, <1>11, <1>12
<1>. QED  BY <1>13, Zenon DEF a


\* Octets that are put into memory change no other memory and no account.
LEMMA PutHeld ==
    ASSUME NEW h, NEW D, Held(h, D), NEW m \in Memory, NEW from \in Nat, NEW to \in Nat
    PROVE  LET g == [h EXCEPT !.mem[m] = Octets(from, to)]
           IN  /\ Held(g, D) /\ g.mem[m] = Octets(from, to)
               /\ \A x \in Memory \ {m} : g.mem[x] = h.mem[x]
<1>. DEFINE o == Octets(from, to)
            g == [h EXCEPT !.mem[m] = o]
<1>0. h \in HeapType
  BY DEF Held
<1>1. /\ h.pool \in [Sources -> Counter] /\ h.live \in SUBSET Memory
      /\ h.mem \in [Memory -> [from : Nat, to : Nat]]
  BY <1>0, HeapFields
<1>2. o \in [from : Nat, to : Nat]
  BY DEF Octets
<1>. HIDE DEF o
<1>3. /\ g.pool = h.pool /\ g.live = h.live /\ g.mem = [h.mem EXCEPT ![m] = o]
      /\ g = [pool |-> g.pool, live |-> g.live, mem |-> g.mem]
  BY <1>0 DEF HeapType
<1>. HIDE DEF g
<1>4. /\ g.mem \in [Memory -> [from : Nat, to : Nat]] /\ g.mem[m] = o
      /\ \A x \in Memory \ {m} : g.mem[x] = h.mem[x]
  BY <1>1, <1>2, <1>3
<1>5. g \in HeapType
  BY <1>1, <1>3, <1>4 DEF HeapType
<1>6. \A b : Of(g, b) = Of(h, b)
  BY <1>3 DEF Of
<1>7. Held(g, D)
  BY <1>3, <1>5, <1>6, Zenon DEF Held
<1>. QED  BY <1>4, <1>7 DEF g, o

\* Two handles may change places.
LEMMA SwapHeld ==
    ASSUME NEW h, NEW D, Held(h, D), NEW x \in Handles, NEW y \in Handles, x # y,
           NEW E, DOMAIN E = Handles, E = [k \in Handles |-> E[k]],
           E[x] = D[y], E[y] = D[x], \A k \in Handles \ {x, y} : E[k] = D[k]
    PROVE  Held(h, E)
<1>0. /\ h \in HeapType /\ D \in [Handles -> Memory \cup {Null}]
      /\ \A u, v \in Handles : D[u] = D[v] => u = v \/ D[u] = Null
      /\ h.live = {D[u] : u \in Handles} \ {Null}
      /\ \A b \in Buckets : /\ h.pool[b].alloc = h.pool[b].dealloc + Cardinality(Of(h, b))
                            /\ Cardinality(Of(h, b)) <= h.pool[b].high
  BY DEF Held
<1>. DEFINE P(k) == IF k = x THEN y ELSE IF k = y THEN x ELSE k
<1>1. \A k \in Handles : P(k) \in Handles /\ E[k] = D[P(k)] /\ P(P(k)) = k
  OBVIOUS
<1>2. E \in [Handles -> Memory \cup {Null}]
  BY <1>0, <1>1
<1>3. ASSUME NEW u \in Handles, NEW v \in Handles, E[u] = E[v]
      PROVE  u = v \/ E[u] = Null
  <2>. HIDE DEF P
  <2>0. P(u) \in Handles /\ P(v) \in Handles /\ D[P(u)] = D[P(v)] /\ E[u] = D[P(u)]
    BY <1>1, <1>3
  <2>1. P(u) = P(v) \/ E[u] = Null
    BY <1>0, <2>0, Zenon
  <2>. QED  BY <1>1, <2>1, Zenon
<1>4. {E[k] : k \in Handles} = {D[k] : k \in Handles}
  <2>. HIDE DEF P
  <2>1. ASSUME NEW k \in Handles PROVE D[k] = E[P(k)] /\ E[k] = D[P(k)] /\ P(k) \in Handles
    BY <1>1, Zenon
  <2>. QED  BY <2>1
<1>. QED  BY <1>0, <1>2, <1>3, <1>4, Zenon DEF Held

-----------------------------------------------------------------------------
(* One flow.                                                               *)

\* The fields of a flow.
LEMMA FlowFields ==
    ASSUME NEW r \in FlowRecord
    PROVE  /\ r.ends \in SUBSET Nat /\ r.got \in Nat /\ r.mark \in Nat
           /\ r.rd \in Handle /\ r.wr \in Handle
           /\ r.op \in {"read", "write", "failed", "none"}
           /\ r.w \in [data : Memory \cup {Null}, to : Nat] /\ r.out \in Nat
           /\ r.rd.data \in Memory \cup {Null} /\ r.wr.data \in Memory \cup {Null}
           /\ r.rd.size \in Nat /\ r.wr.size \in Nat
BY DEF FlowRecord, Handle

\* The octets sent, and those of them that make whole frames.
LEMMA Extent ==
    ASSUME NEW r, Position(r)
    PROVE  /\ Sent(r) \in r.ends /\ r.got <= Sent(r) /\ \A e \in r.ends : e <= Sent(r)
           /\ Whole(r) \in r.ends /\ Whole(r) <= r.got
           /\ \A e \in r.ends : e <= r.got => e <= Whole(r)
<1>0. r \in FlowRecord /\ r.ends \in SUBSET Nat /\ r.got \in Nat /\ 0 \in r.ends
  BY FlowFields DEF Position
<1>1. PICK last \in r.ends : r.got <= last /\ \A e \in r.ends : e <= last
  BY DEF Position
<1>2. Sent(r) \in r.ends /\ \A e \in r.ends : e <= Sent(r)
  BY <1>0, <1>1, LargestOf DEF Sent
<1>3. r.got <= Sent(r)
  <2>1. last <= Sent(r) /\ last \in Nat /\ Sent(r) \in Nat
    BY <1>0, <1>2
  <2>. QED  BY <1>0, <1>1, <2>1
<1>. DEFINE S == {e \in r.ends : e <= r.got}
<1>4. S \in SUBSET Nat /\ S # {} /\ \A e \in S : e <= r.got
  BY <1>0
<1>5. Max(S) \in S /\ \A e \in S : e <= Max(S)
  <2>. HIDE DEF S
  <2>. QED  BY <1>0, <1>4, LargestBelow
<1>6. Whole(r) = Max(S)
  BY DEF Whole
<1>. QED  BY <1>2, <1>3, <1>5, <1>6

\* What is left of a frame that Frame::decode did not refuse is shorter than the
\* largest frame.
LEMMA RestIsShort ==
    ASSUME NEW r, Position(r), ~TooLarge(r)
    PROVE  r.got - Whole(r) \in Nat /\ r.got - Whole(r) < MaxFrameSize
<1>. DEFINE n == r.got - Whole(r)
            S == {e \in r.ends : e > Whole(r)}
<1>0. r.ends \in SUBSET Nat /\ r.got \in Nat
  BY FlowFields DEF Position
<1>1. /\ Sent(r) \in Nat /\ Sent(r) \in r.ends /\ r.got <= Sent(r)
      /\ Whole(r) \in Nat /\ Whole(r) <= r.got
      /\ \A e \in r.ends : e <= r.got => e <= Whole(r)
  BY <1>0, Extent
<1>2. n \in Nat
  BY <1>0, <1>1
<1>3. CASE n < FrameOverhead
  BY <1>2, <1>3, Facts
<1>4. CASE n >= FrameOverhead
  <2>1. n > 0
    <3>1. FrameOverhead > 0
      BY DataPathAssumption
    <3>. QED  BY <1>2, <1>4, <3>1, Facts
  <2>2. S \in SUBSET Nat /\ Sent(r) \in S
    BY <1>0, <1>1, <2>1
  <2>3. Min(S) \in S
    <3>. HIDE DEF S
    <3>. QED  BY <2>2, LeastOf
  <2>4. Min(S) \in Nat /\ Min(S) > r.got
    BY <1>0, <1>1, <2>3
  <2>5. ~(Min(S) - Whole(r) > n /\ Min(S) - Whole(r) > MaxFrameSize)
    BY <1>4, Zenon DEF TooLarge
  <2>. HIDE DEF S
  <2>. QED  BY <1>0, <1>1, <2>4, <2>5, Facts
<1>. QED  BY <1>2, <1>3, <1>4, Facts

-----------------------------------------------------------------------------
(* The flows and their memory.                                             *)

\* The memory of the flows but f is as it was.
Untouched(h, g, F, f) ==
    \A x \in Flows \ {f} : \A m \in {F[x].rd.data, F[x].wr.data} \ {Null} :
        g.mem[m] = h.mem[m]

\* What the handles of each flow hold.
LEMMA DataFields ==
    ASSUME NEW F, NEW f \in Flows
    PROVE  /\ <<f, "rd">> \in Handles /\ Data(F)[<<f, "rd">>] = F[f].rd.data
           /\ <<f, "wr">> \in Handles /\ Data(F)[<<f, "wr">>] = F[f].wr.data
           /\ <<f, "rd">> # <<f, "wr">>
BY DEF Handles, Data

\* What the handles of the other flows hold stays when a flow changes.
LEMMA OthersHold ==
    ASSUME NEW F \in [Flows -> FlowRecord], NEW f \in Flows, NEW r,
           NEW k \in Handles, k # <<f, "rd">>, k # <<f, "wr">>
    PROVE  Data([F EXCEPT ![f] = r])[k] = Data(F)[k]
<1>. DEFINE G == [F EXCEPT ![f] = r]
<1>1. k[1] \in Flows /\ k[2] \in {"rd", "wr"} /\ k = <<k[1], k[2]>>
  BY DEF Handles
<1>2. k[1] # f
  BY <1>1
<1>3. G[k[1]] = F[k[1]]
  BY <1>1, <1>2
<1>. HIDE DEF G
<1>4. Data(G)[k] = Data(F)[k]
  BY <1>3 DEF Data
<1>. QED  BY <1>4 DEF G

\* A flow that changes changes what its two handles hold.
LEMMA DataChanged ==
    ASSUME NEW F \in [Flows -> FlowRecord], NEW f \in Flows, NEW r
    PROVE  LET D == Data(F)
               E == Data([F EXCEPT ![f] = r])
           IN  /\ E = [[D EXCEPT ![<<f, "rd">>] = r.rd.data] EXCEPT ![<<f, "wr">>] = r.wr.data]
               /\ E[<<f, "rd">>] = r.rd.data /\ E[<<f, "wr">>] = r.wr.data
<1>. DEFINE D == Data(F)
            G == [F EXCEPT ![f] = r]
            E == Data(G)
            x == <<f, "rd">>
            y == <<f, "wr">>
<1>1. G[f] = r /\ \A e \in Flows \ {f} : G[e] = F[e]
  OBVIOUS
<1>2. x \in Handles /\ y \in Handles /\ E[x] = r.rd.data /\ E[y] = r.wr.data /\ x # y
  <2>. HIDE DEF G
  <2>. QED  BY <1>1, DataFields
<1>3. ASSUME NEW k \in Handles, k # x, k # y PROVE E[k] = D[k]
  BY <1>3, OthersHold
<1>4. D = [k \in Handles |-> D[k]] /\ E = [k \in Handles |-> E[k]]
  <2>. HIDE DEF G
  <2>. QED  BY DEF Data
<1>. HIDE DEF D, E, x, y
<1>5. E = [[D EXCEPT ![x] = r.rd.data] EXCEPT ![y] = r.wr.data]
  BY <1>2, <1>3, <1>4
<1>. QED  BY <1>2, <1>5 DEF D, E, x, y

\* Memory that a flow holds, or that nobody holds, is in no handle of another.
LEMMA NotOfOthers ==
    ASSUME NEW h, NEW F, Held(h, Data(F)), NEW f \in Flows, NEW m \in Memory,
           m \notin h.live \/ m = F[f].rd.data,
           NEW x \in Flows, x # f
    PROVE  m \notin {F[x].rd.data, F[x].wr.data}
<1>. DEFINE D == Data(F)
<1>1. /\ \A g, k \in Handles : D[g] = D[k] => g = k \/ D[g] = Null
      /\ h.live = {D[k] : k \in Handles} \ {Null}
  BY DEF Held
<1>2. /\ <<f, "rd">> \in Handles /\ D[<<f, "rd">>] = F[f].rd.data
      /\ <<x, "rd">> \in Handles /\ D[<<x, "rd">>] = F[x].rd.data
      /\ <<x, "wr">> \in Handles /\ D[<<x, "wr">>] = F[x].wr.data
      /\ <<x, "rd">> # <<f, "rd">> /\ <<x, "wr">> # <<f, "rd">>
  BY DataFields
<1>3. m # Null
  BY MemoryFacts
<1>. HIDE DEF D
<1>4. CASE m \notin h.live
  BY <1>1, <1>2, <1>3, <1>4
<1>5. CASE m = F[f].rd.data
  BY <1>1, <1>2, <1>3, <1>5, Zenon
<1>. QED  BY <1>4, <1>5

\* What the buffers of a flow hold depends on its own memory.
LEMMA FilledSame ==
    ASSUME NEW r \in FlowRecord, NEW m, NEW o, Filled(r, m),
           \A x \in {r.rd.data, r.wr.data} \ {Null} : o[x] = m[x]
    PROVE  Filled(r, o)
<1>1. ASSUME r.op \in {"read", "write"}, r.mark > 0
      PROVE  o[r.rd.data] = m[r.rd.data]
  BY <1>1 DEF Filled
<1>2. ASSUME r.op = "write"
      PROVE  o[r.w.data] = m[r.w.data]
  BY <1>2 DEF Filled
<1>. QED  BY <1>1, <1>2 DEF Filled

\* A flow that changes and leaves the memory of the others alone.
LEMMA FlowChanged ==
    ASSUME NEW h, NEW F, Sound(h, F), NEW f \in Flows, NEW g, NEW r,
           Position(r), Filled(r, g.mem), Held(g, Data([F EXCEPT ![f] = r])),
           Untouched(h, g, F, f)
    PROVE  Sound(g, [F EXCEPT ![f] = r])
<1>. DEFINE G == [F EXCEPT ![f] = r]
<1>0. F \in [Flows -> FlowRecord] /\ r \in FlowRecord
  BY DEF Sound, Position
<1>1. G \in [Flows -> FlowRecord] /\ G[f] = r /\ \A e \in Flows \ {f} : G[e] = F[e]
  BY <1>0
<1>2. ASSUME NEW x \in Flows PROVE Position(G[x]) /\ Filled(G[x], g.mem)
  <2>1. CASE x = f
    BY <1>1, <2>1, Zenon
  <2>2. CASE x # f
    <3>1. F[x] \in FlowRecord /\ Position(F[x]) /\ Filled(F[x], h.mem) /\ G[x] = F[x]
      BY <1>0, <1>1, <2>2 DEF Sound
    <3>2. \A m \in {F[x].rd.data, F[x].wr.data} \ {Null} : g.mem[m] = h.mem[m]
      BY <2>2, Zenon DEF Untouched
    <3>3. Filled(F[x], g.mem)
      BY <3>1, <3>2, FilledSame, Zenon
    <3>. QED  BY <3>1, <3>3, Zenon
  <2>. QED  BY <2>1, <2>2
<1>. HIDE DEF G
<1>3. Held(g, Data(G))
  BY DEF G
<1>4. Sound(g, G)
  BY <1>1, <1>2, <1>3, Zenon DEF Sound
<1>. QED  BY <1>4 DEF G

-----------------------------------------------------------------------------
(* What the handlers do to the buffers of their flow.                      *)

\* n octets are read behind the part of a frame, if there is one, and no memory of the
\* other flows is touched.
Appended(h, F, f, n, s) ==
    /\ s.r = [F[f] EXCEPT !.rd = s.r.rd, !.got = F[f].got + n, !.mark = F[f].mark + n]
    /\ s.r.rd \in Handle /\ s.r.rd.data \in Memory
    /\ Held(s.heap, Data([F EXCEPT ![f] = s.r]))
    /\ s.heap.mem[s.r.rd.data] = Octets(F[f].got - F[f].mark, F[f].got + n)
    /\ Untouched(h, s.heap, F, f)

\* A read appends to its flow.
LEMMA ReadSomeEffect ==
    ASSUME NEW h, NEW F, Sound(h, F), NEW f \in Flows, F[f].op = "read",
           NEW n \in Nat, n > 0
    PROVE  Appended(h, F, f, n, ReadSome(h, F[f], n))
<1>. DEFINE r == F[f]
            D == Data(F)
            x == <<f, "rd">>
            a == IF r.mark = 0 THEN AcquireBuffer(h, r.rd, n) ELSE [heap |-> h, handle |-> r.rd]
            from == r.got - r.mark
            to == r.got + n
            q == [r EXCEPT !.rd = a.handle, !.got = @ + n, !.mark = @ + n]
            g == [a.heap EXCEPT !.mem[a.handle.data] = Octets(q.got - q.mark, q.got)]
            s == ReadSome(h, r, n)
            G == [F EXCEPT ![f] = q]
<1>0. /\ F \in [Flows -> FlowRecord] /\ Held(h, D) /\ r \in FlowRecord
      /\ Position(r) /\ Filled(r, h.mem)
  BY DEF Sound
<1>1. /\ r.got \in Nat /\ r.mark \in Nat /\ r.rd \in Handle /\ from \in Nat /\ to \in Nat
  BY <1>0, FlowFields DEF Position
<1>2. /\ x \in Handles /\ D[x] = r.rd.data
  BY DataFields
<1>3. s = [heap |-> g, r |-> q]
  BY DEF ReadSome
<1>4. /\ q.rd = a.handle /\ q.got = to /\ q.mark = r.mark + n /\ q.wr = r.wr
  BY <1>0 DEF FlowRecord
<1>5. q.got - q.mark = from
  BY <1>1, <1>4
<1>6. /\ a.handle \in Handle /\ a.handle.data \in Memory
      /\ a.handle.data \notin h.live \/ a.handle.data = r.rd.data
      /\ a.heap.mem = h.mem /\ Held(a.heap, [D EXCEPT ![x] = a.handle.data])
  <2>1. CASE r.mark = 0
    <3>. DEFINE b == AcquireBuffer(h, r.rd, n)
    <3>1. a = b
      BY <2>1
    <3>2. /\ b.handle.data \in Memory /\ b.handle.data \notin h.live
          /\ b.handle = [data |-> b.handle.data, size |-> n]
          /\ b.heap.mem = h.mem
          /\ Held(b.heap, [D EXCEPT ![x] = b.handle.data])
      <4>. HIDE DEF D, r, x
      <4>. QED  BY <1>0, <1>2, AcquireHeld
    <3>. HIDE DEF b, D, x
    <3>3. b.handle \in Handle
      BY <3>2 DEF Handle
    <3>. QED  BY <3>1, <3>2, <3>3
  <2>2. CASE r.mark # 0
    <3>1. a = [heap |-> h, handle |-> r.rd]
      BY <2>2
    <3>2. r.rd.data # Null /\ r.rd.data \in Memory \cup {Null}
      BY <1>0, <1>1, <2>2, FlowFields DEF Filled
    <3>3. [D EXCEPT ![x] = r.rd.data] = D
      <4>1. D \in [Handles -> Memory \cup {Null}]
        BY <1>0 DEF Held
      <4>. HIDE DEF D, x, r
      <4>. QED  BY <1>2, <4>1
    <3>. QED  BY <1>0, <1>1, <3>1, <3>2, <3>3
  <2>. QED  BY <2>1, <2>2
<1>. DEFINE m == a.handle.data
            E == [D EXCEPT ![x] = m]
<1>7. g = [a.heap EXCEPT !.mem[m] = Octets(from, to)]
  BY <1>4, <1>5, Zenon
<1>8. /\ Held(g, E) /\ g.mem[m] = Octets(from, to)
      /\ \A z \in Memory \ {m} : g.mem[z] = h.mem[z]
  <2>1. Held(a.heap, E) /\ m \in Memory /\ a.heap.mem = h.mem
    BY <1>6
  <2>. HIDE DEF a, E, g, from, to, m
  <2>. QED  BY <1>1, <1>7, <2>1, PutHeld
<1>9. Data(G) = E
  <2>1. Data(G) = [[D EXCEPT ![x] = q.rd.data] EXCEPT ![<<f, "wr">>] = q.wr.data]
    <3>. HIDE DEF q
    <3>. QED  BY <1>0, DataChanged
  <2>2. q.rd.data = m /\ q.wr.data = r.wr.data
    BY <1>4
  <2>3. D \in [Handles -> Memory \cup {Null}]
    BY <1>0 DEF Held
  <2>4. <<f, "wr">> \in Handles /\ D[<<f, "wr">>] = r.wr.data /\ x # <<f, "wr">>
    BY DataFields
  <2>. HIDE DEF D, G, q, m
  <2>5. [E EXCEPT ![<<f, "wr">>] = r.wr.data] = E
    BY <1>2, <2>3, <2>4
  <2>. QED  BY <2>1, <2>2, <2>5
<1>10. Untouched(h, g, F, f)
  <2>. SUFFICES ASSUME NEW y \in Flows \ {f},
                       NEW z \in {F[y].rd.data, F[y].wr.data} \ {Null}
                PROVE  g.mem[z] = h.mem[z]
    BY DEF Untouched
  <2>1. z \in Memory
    BY <1>0, FlowFields
  <2>2. m \notin {F[y].rd.data, F[y].wr.data}
    <3>. HIDE DEF a
    <3>. QED  BY <1>0, <1>6, NotOfOthers
  <2>. HIDE DEF g, m
  <2>. QED  BY <1>8, <2>1, <2>2
<1>11. q = [F[f] EXCEPT !.rd = q.rd, !.got = F[f].got + n, !.mark = F[f].mark + n]
  <2>. HIDE DEF a
  <2>. QED  BY <1>4
<1>12. s.heap = g /\ s.r = q
  BY <1>3
<1>13. /\ q.rd \in Handle /\ q.rd.data \in Memory /\ Held(g, Data([F EXCEPT ![f] = q]))
       /\ g.mem[q.rd.data] = Octets(F[f].got - F[f].mark, F[f].got + n)
  <2>. HIDE DEF a, g, q
  <2>. QED  BY <1>4, <1>6, <1>8, <1>9
<1>. HIDE DEF g, q, s
<1>14. Appended(h, F, f, n, s)
  BY <1>10, <1>11, <1>12, <1>13 DEF Appended
<1>. QED  BY <1>14 DEF s

\* The last n octets of the flow f are in memory that nobody held, with room for any
\* frame, and what was read stays where it is.
Moved(h, F, f, n, c) ==
    /\ c.r = [F[f] EXCEPT !.mark = n, !.rd = c.r.rd, !.wr = F[f].rd]
    /\ c.r.rd \in Handle /\ c.r.rd.data \in Memory /\ c.r.rd.data \notin h.live
    /\ MaxFrameSize <= c.r.rd.size
    /\ Held(c.heap, Data([F EXCEPT ![f] = c.r]))
    /\ c.heap.mem[c.r.rd.data] = Octets(F[f].got - n, F[f].got)
    /\ \A z \in Memory \ {c.r.rd.data} : c.heap.mem[z] = h.mem[z]

\* copyRemaining moves the rest of a frame.
LEMMA CopyRemainingEffect ==
    ASSUME NEW h, NEW F \in [Flows -> FlowRecord], Held(h, Data(F)), NEW f \in Flows,
           NEW n \in Nat, n > 0, n <= F[f].got
    PROVE  Moved(h, F, f, n, CopyRemaining(h, F[f], n))
<1>. DEFINE r == F[f]
            D == Data(F)
            x == <<f, "rd">>
            y == <<f, "wr">>
            size == Max({n, MaxFrameSize})
            a == AcquireBuffer(h, r.wr, size)
            m == a.handle.data
            from == r.got - n
            g == [a.heap EXCEPT !.mem[m] = Octets(from, r.got)]
            q == [r EXCEPT !.mark = n, !.rd = a.handle, !.wr = r.rd]
            c == CopyRemaining(h, r, n)
            E == [D EXCEPT ![y] = m]
            G == [F EXCEPT ![f] = q]
<1>0. r \in FlowRecord /\ r.got \in Nat /\ from \in Nat
  BY FlowFields
<1>1. x \in Handles /\ y \in Handles /\ D[x] = r.rd.data /\ D[y] = r.wr.data /\ x # y
  BY DataFields
<1>2. size \in Nat /\ MaxFrameSize <= size
  <2>. DEFINE S == {n, MaxFrameSize}
  <2>1. S \in SUBSET Nat /\ S # {} /\ \A z \in S : z <= n + MaxFrameSize
    BY Facts
  <2>2. Max(S) \in S /\ \A z \in S : z <= Max(S)
    <3>1. n + MaxFrameSize \in Nat
      BY Facts
    <3>. HIDE DEF S
    <3>. QED  BY <2>1, <3>1, LargestBelow
  <2>. QED  BY <2>1, <2>2
<1>. HIDE DEF size
<1>3. /\ m \in Memory /\ m \notin h.live /\ a.handle = [data |-> m, size |-> size]
      /\ a.heap.mem = h.mem /\ Held(a.heap, E)
  <2>1. Held(h, D)
    OBVIOUS
  <2>. HIDE DEF D, r, y
  <2>. QED  BY <1>1, <1>2, <2>1, AcquireHeld
<1>4. c = [heap |-> g, r |-> q]
  BY DEF CopyRemaining, size
<1>. HIDE DEF a
<1>5. q.rd = a.handle /\ q.wr = r.rd
  BY <1>0 DEF FlowRecord
<1>6. /\ Held(g, E) /\ g.mem[m] = Octets(from, r.got)
      /\ \A z \in Memory \ {m} : g.mem[z] = h.mem[z]
  <2>. HIDE DEF E, m, from, r
  <2>. QED  BY <1>0, <1>3, PutHeld
<1>7. Held(g, Data(G))
  <2>. DEFINE K == Data(G)
  <2>1. K[x] = q.rd.data /\ K[y] = q.wr.data /\ \A k \in Handles \ {x, y} : K[k] = D[k]
    <3>. HIDE DEF q
    <3>1. K[x] = q.rd.data /\ K[y] = q.wr.data
      BY DataChanged
    <3>2. ASSUME NEW k \in Handles, k # x, k # y PROVE K[k] = D[k]
      BY <3>2, OthersHold
    <3>. QED  BY <3>1, <3>2
  <2>2. DOMAIN K = Handles /\ K = [k \in Handles |-> K[k]]
    <3>. HIDE DEF G
    <3>. QED  BY DEF Data
  <2>3. D \in [Handles -> Memory \cup {Null}]
    BY DEF Held
  <2>4. q.rd.data = m /\ q.wr.data = r.rd.data
    BY <1>5
  <2>. HIDE DEF D, K, x, y, r, m, q
  <2>5. K[x] = E[y] /\ K[y] = E[x] /\ \A k \in Handles \ {x, y} : K[k] = E[k]
    BY <1>1, <2>1, <2>3, <2>4
  <2>. HIDE DEF E, g
  <2>6. Held(g, K)
    BY <1>1, <1>6, <2>2, <2>5, SwapHeld
  <2>. QED  BY <2>6 DEF K
<1>8. c.heap = g /\ c.r = q
  BY <1>4
<1>9. q.rd.data = m /\ q.rd.size = size /\ q.rd \in Handle
  <2>. HIDE DEF q, m
  <2>. QED  BY <1>2, <1>3, <1>5 DEF Handle
<1>10. q = [F[f] EXCEPT !.mark = n, !.rd = q.rd, !.wr = F[f].rd]
  BY <1>5
<1>. HIDE DEF g, q, m, c
<1>11. Moved(h, F, f, n, c)
  BY <1>2, <1>3, <1>6, <1>7, <1>8, <1>9, <1>10 DEF Moved
<1>. QED  BY <1>11 DEF c

\* Flows with the same handles hold the same memory.
LEMMA SameHandles ==
    ASSUME NEW F, NEW G,
           \A x \in Flows : F[x].rd.data = G[x].rd.data /\ F[x].wr.data = G[x].wr.data
    PROVE  Data(F) = Data(G)
<1>1. ASSUME NEW k \in Handles
      PROVE  /\ F[k[1]].rd.data = G[k[1]].rd.data
             /\ F[k[1]].wr.data = G[k[1]].wr.data
  BY DEF Handles
<1>. QED  BY <1>1 DEF Data

\* A read moves the flow on, within what the peer sent.
LEMMA ReadPosition ==
    ASSUME NEW r, Position(r), NEW n \in Nat, r.got + n <= Sent(r),
           NEW q \in FlowRecord, q.ends = r.ends, q.out = r.out,
           q.got = r.got + n, q.mark = r.mark + n
    PROVE  Position(q) /\ q.got - q.mark = r.got - r.mark
<1>1. /\ r \in FlowRecord /\ r.got \in Nat /\ r.mark \in Nat /\ r.ends \in SUBSET Nat
      /\ r.mark <= r.got /\ 0 \in r.ends /\ r.out \in r.ends
  BY FlowFields DEF Position
<1>2. Sent(r) \in r.ends /\ \A e \in r.ends : e <= Sent(r)
  BY Extent
<1>3. q.mark <= q.got /\ q.got - q.mark = r.got - r.mark
  BY <1>1
<1>. QED  BY <1>1, <1>2, <1>3 DEF Position

\* What handleData needs of a flow that it is called for, with part of a frame or
\* more in its buffer.
Arrived(h, F, f) ==
    /\ F \in [Flows -> FlowRecord] /\ Held(h, Data(F)) /\ Position(F[f])
    /\ F[f].op = "read" /\ F[f].mark > 0 /\ F[f].rd.data \in Memory
    /\ F[f].out = F[f].got - F[f].mark
    /\ h.mem[F[f].rd.data] = Octets(F[f].out, F[f].got)

\* handleData leaves the part of a frame with room for the rest, and begins to
\* write the whole frames from memory that stays with the flow.
LEMMA HandleDataEffect ==
    ASSUME NEW h, NEW F, NEW f \in Flows, Arrived(h, F, f), ~TooLarge(F[f])
    PROVE  LET d == HandleData(h, F[f])
           IN  /\ Position(d.r) /\ Filled(d.r, d.heap.mem)
               /\ Held(d.heap, Data([F EXCEPT ![f] = d.r]))
               /\ Untouched(h, d.heap, F, f)
<1>. DEFINE q == F[f]
            w == Whole(q)
            k == q.got - w
            c == CopyRemaining(h, q, k)
            d == HandleData(h, q)
<1>0. /\ F \in [Flows -> FlowRecord] /\ Held(h, Data(F)) /\ Position(q) /\ q \in FlowRecord
      /\ q.op = "read" /\ q.mark > 0 /\ q.rd.data \in Memory /\ q.out = q.got - q.mark
      /\ h.mem[q.rd.data] = Octets(q.out, q.got)
  BY DEF Arrived
<1>1. /\ q.got \in Nat /\ q.mark \in Nat /\ q.out \in Nat /\ q.ends \in SUBSET Nat
      /\ q.rd \in Handle /\ q.wr \in Handle /\ q.out \in q.ends
  BY <1>0, FlowFields DEF Position
<1>2. /\ w \in q.ends /\ w \in Nat /\ q.out <= w /\ w <= q.got
  <2>1. w \in q.ends /\ w <= q.got /\ \A e \in q.ends : e <= q.got => e <= w
    <3>. HIDE DEF q
    <3>. QED  BY <1>0, Extent
  <2>2. q.out <= q.got
    BY <1>0, <1>1
  <2>. QED  BY <1>1, <2>1, <2>2
<1>3. k \in Nat /\ k < MaxFrameSize
  <2>. HIDE DEF q
  <2>. QED  BY <1>0, RestIsShort DEF q
<1>4. /\ d.heap = c.heap
      /\ d.r = IF w = q.got - q.mark THEN [c.r EXCEPT !.op = "read"]
               ELSE [c.r EXCEPT !.op = "write", !.w = [data |-> q.rd.data, to |-> w]]
  BY DEF HandleData
<1>5. Null \notin Memory
  BY MemoryFacts
<1>. HIDE DEF d, c, w
<1>6. CASE k = 0
  <2>1. c = [heap |-> h, r |-> [q EXCEPT !.mark = 0]]
    BY <1>6 DEF c, CopyRemaining
  <2>2. w = q.got /\ w # q.got - q.mark
    BY <1>0, <1>1, <1>2, <1>6
  <2>3. d.heap = h /\ d.r = [[q EXCEPT !.mark = 0] EXCEPT !.op = "write",
                                        !.w = [data |-> q.rd.data, to |-> w]]
    BY <1>4, <2>1, <2>2
  <2>. HIDE DEF k
  <2>4. /\ d.r \in FlowRecord /\ d.r.ends = q.ends /\ d.r.got = q.got /\ d.r.mark = 0
        /\ d.r.rd = q.rd /\ d.r.wr = q.wr /\ d.r.op = "write" /\ d.r.out = q.out
        /\ d.r.w = [data |-> q.rd.data, to |-> w]
    <3>1. [data |-> q.rd.data, to |-> w] \in [data : Memory \cup {Null}, to : Nat]
      BY <1>0, <1>2
    <3>. DEFINE v == [data |-> q.rd.data, to |-> w]
    <3>2. d.r = [q EXCEPT !.mark = 0, !.op = "write", !.w = v]
      BY <1>0, <2>3
    <3>. HIDE DEF q, v
    <3>3. /\ d.r.ends = q.ends /\ d.r.got = q.got /\ d.r.mark = 0
          /\ d.r.rd = q.rd /\ d.r.wr = q.wr /\ d.r.op = "write" /\ d.r.out = q.out
          /\ d.r.w = v
      BY <1>0, <3>2 DEF FlowRecord
    <3>4. v \in [data : Memory \cup {Null}, to : Nat]
      BY <3>1 DEF v
    <3>5. d.r \in FlowRecord
      <4>1. q \in FlowRecord
        BY <1>0
      <4>. DEFINE e == [q EXCEPT !.mark = 0, !.op = "write"]
      <4>2. e \in FlowRecord
        BY <4>1 DEF FlowRecord
      <4>3. d.r = [e EXCEPT !.w = v]
        BY <3>2, <4>1 DEF FlowRecord
      <4>. HIDE DEF e
      <4>. QED  BY <3>4, <4>2, <4>3 DEF FlowRecord
    <3>. QED  BY <3>3, <3>5 DEF v
  <2>. HIDE DEF q
  <2>5. Position(d.r)
    BY <1>0, <1>1, <2>4 DEF Position
  <2>6. Filled(d.r, d.heap.mem)
    BY <1>0, <1>1, <1>2, <1>5, <2>2, <2>3, <2>4 DEF Filled, Octets
  <2>7. Held(d.heap, Data([F EXCEPT ![f] = d.r]))
    <3>. DEFINE G == [F EXCEPT ![f] = d.r]
    <3>1. ASSUME NEW x \in Flows
          PROVE  F[x].rd.data = G[x].rd.data /\ F[x].wr.data = G[x].wr.data
      BY <1>0, <2>4 DEF q
    <3>. HIDE DEF G
    <3>2. Data(F) = Data(G)
      BY <3>1, SameHandles, Zenon
    <3>. QED  BY <1>0, <2>3, <3>2 DEF G
  <2>8. Untouched(h, d.heap, F, f)
    BY <2>3 DEF Untouched
  <2>. QED  BY <2>5, <2>6, <2>7, <2>8 DEF d, q
<1>7. CASE k > 0
  <2>. DEFINE m == c.r.rd.data
  <2>1. /\ c.r = [F[f] EXCEPT !.mark = k, !.rd = c.r.rd, !.wr = F[f].rd]
        /\ c.r.rd \in Handle /\ m \in Memory /\ m \notin h.live
        /\ MaxFrameSize <= c.r.rd.size
        /\ Held(c.heap, Data([F EXCEPT ![f] = c.r]))
        /\ c.heap.mem[m] = Octets(F[f].got - k, F[f].got)
        /\ \A z \in Memory \ {m} : c.heap.mem[z] = h.mem[z]
    <3>1. k \in Nat /\ k <= F[f].got
      BY <1>1, <1>2, <1>3
    <3>2. c = CopyRemaining(h, F[f], k)
      BY DEF c
    <3>. HIDE DEF k, q
    <3>3. Moved(h, F, f, k, c)
      BY <1>0, <1>7, <3>1, <3>2, CopyRemainingEffect
    <3>. QED  BY <3>3, Zenon DEF Moved
  <2>2. /\ c.r \in FlowRecord /\ c.r.ends = q.ends /\ c.r.got = q.got /\ c.r.mark = k
        /\ c.r.wr = q.rd /\ c.r.out = q.out
    <3>. HIDE DEF k
    <3>. QED  BY <1>0, <1>1, <1>3, <2>1 DEF FlowRecord
  <2>3. q.got - k = w /\ k <= q.got
    BY <1>1, <1>2
  <2>. HIDE DEF k, m
  <2>4. /\ d.r \in FlowRecord /\ d.r.ends = q.ends /\ d.r.got = q.got /\ d.r.mark = k
        /\ d.r.rd = c.r.rd /\ d.r.wr = q.rd /\ d.r.out = q.out
        /\ w = q.got - q.mark => d.r.op = "read"
        /\ w # q.got - q.mark => /\ d.r.op = "write"
                                 /\ d.r.w = [data |-> q.rd.data, to |-> w]
    <3>1. [data |-> q.rd.data, to |-> w] \in [data : Memory \cup {Null}, to : Nat]
      BY <1>0, <1>2
    <3>2. CASE w = q.got - q.mark
      <4>1. d.r = [c.r EXCEPT !.op = "read"]
        BY <1>4, <3>2
      <4>. HIDE DEF q
      <4>. QED  BY <2>2, <3>2, <4>1 DEF FlowRecord
    <3>3. CASE w # q.got - q.mark
      <4>1. d.r = [c.r EXCEPT !.op = "write", !.w = [data |-> q.rd.data, to |-> w]]
        BY <1>4, <3>3
      <4>. HIDE DEF q
      <4>. QED  BY <2>2, <3>1, <3>3, <4>1 DEF FlowRecord
    <3>. QED  BY <3>2, <3>3
  <2>5. q.rd.data \in h.live
    <3>1. h.live = {Data(F)[g] : g \in Handles} \ {Null}
      BY <1>0 DEF Held
    <3>2. <<f, "rd">> \in Handles /\ Data(F)[<<f, "rd">>] = q.rd.data
      BY DataFields
    <3>. QED  BY <1>0, <1>5, <3>1, <3>2
  <2>6. d.heap.mem[q.rd.data] = Octets(q.out, q.got) /\ d.heap.mem[m] = Octets(w, q.got)
    BY <1>0, <1>4, <2>1, <2>3, <2>5
  <2>7. Position(d.r)
    <3>. HIDE DEF q
    <3>. QED  BY <1>0, <1>1, <2>3, <2>4 DEF Position
  <2>8. Filled(d.r, d.heap.mem)
    <3>1. d.r.rd.data = m /\ m # Null /\ d.r.wr.data = q.rd.data /\ q.rd.data # Null
      BY <1>0, <1>5, <2>1, <2>4 DEF m
    <3>2. MaxFrameSize <= d.r.rd.size /\ d.r.mark < MaxFrameSize
      BY <1>3, <2>1, <2>4
    <3>3. d.r.got - d.r.mark = w
      BY <2>3, <2>4
    <3>4. d.r.mark > 0 => d.heap.mem[d.r.rd.data] = Octets(d.r.got - d.r.mark, d.r.got)
      BY <2>4, <2>6, <3>1, <3>3
    <3>5. CASE w = q.got - q.mark
      <4>1. d.r.op = "read" /\ d.r.out = d.r.got - d.r.mark
        BY <1>0, <2>4, <3>3, <3>5
      <4>. HIDE DEF q
      <4>. QED  BY <1>2, <2>4, <3>1, <3>2, <3>3, <3>4, <4>1 DEF Filled
    <3>6. CASE w # q.got - q.mark
      <4>1. /\ d.r.op = "write" /\ d.r.w.to = w /\ d.r.w.data = q.rd.data
            /\ d.heap.mem[d.r.w.data].from = d.r.out
            /\ d.heap.mem[d.r.w.data].to >= d.r.w.to
        <5>1. d.r.op = "write" /\ d.r.w.to = w /\ d.r.w.data = q.rd.data
          BY <2>4, <3>6
        <5>2. /\ d.heap.mem[q.rd.data].from = q.out /\ d.heap.mem[q.rd.data].to = q.got
              /\ d.r.out = q.out
          BY <2>4, <2>6 DEF Octets
        <5>3. q.got >= w
          BY <1>1, <1>2
        <5>. QED  BY <5>1, <5>2, <5>3
      <4>. HIDE DEF q
      <4>. QED  BY <1>2, <2>4, <3>1, <3>2, <3>3, <3>4, <4>1 DEF Filled
    <3>. QED  BY <3>5, <3>6
  <2>9. Held(d.heap, Data([F EXCEPT ![f] = d.r]))
    <3>. DEFINE G == [F EXCEPT ![f] = d.r]
                H == [F EXCEPT ![f] = c.r]
    <3>1. ASSUME NEW x \in Flows
          PROVE  H[x].rd.data = G[x].rd.data /\ H[x].wr.data = G[x].wr.data
      BY <1>0, <2>2, <2>4
    <3>. HIDE DEF G, H
    <3>2. Data(H) = Data(G)
      BY <3>1, SameHandles, Zenon
    <3>. QED  BY <1>4, <2>1, <3>2 DEF G, H
  <2>10. Untouched(h, d.heap, F, f)
    <3>. SUFFICES ASSUME NEW y \in Flows \ {f},
                         NEW z \in {F[y].rd.data, F[y].wr.data} \ {Null}
                  PROVE  d.heap.mem[z] = h.mem[z]
      BY DEF Untouched
    <3>1. z \in Memory
      BY <1>0, FlowFields
    <3>2. m \notin {F[y].rd.data, F[y].wr.data}
      BY <1>0, <2>1, NotOfOthers DEF m
    <3>. QED  BY <1>4, <2>1, <3>1, <3>2 DEF m
  <2>. QED  BY <2>7, <2>8, <2>9, <2>10 DEF d, q
<1>. QED  BY <1>3, <1>6, <1>7

\* The buffers of the flow f are given back, or kept with the part of a frame.
Returned(h, F, f, b) ==
    /\ b.heap.mem = h.mem /\ Held(b.heap, Data([F EXCEPT ![f] = b.r]))
    /\ Position(b.r) /\ b.r.ends = F[f].ends /\ b.r.got = F[f].got
    /\ b.r.mark = F[f].mark
    /\ b.r.mark # 0 => b.r.rd = F[f].rd

\* What the handler of a write begins with.
LEMMA ReleaseBuffersEffect ==
    ASSUME NEW h, NEW F \in [Flows -> FlowRecord], Held(h, Data(F)), NEW f \in Flows,
           Position(F[f])
    PROVE  Returned(h, F, f, ReleaseBuffers(h, F[f]))
<1>. DEFINE r == F[f]
            D == Data(F)
            b == ReleaseBuffers(h, r)
            x == <<f, "rd">>
            y == <<f, "wr">>
<1>0. r \in FlowRecord /\ x \in Handles /\ y \in Handles /\ x # y
      /\ D[x] = r.rd.data /\ D[y] = r.wr.data /\ D \in [Handles -> Memory \cup {Null}]
  BY DataFields DEF Held
<1>1. CASE r.mark # 0
  <2>1. b = [heap |-> h, r |-> r]
    BY <1>1 DEF ReleaseBuffers
  <2>2. [F EXCEPT ![f] = r] = F
    OBVIOUS
  <2>3. b.heap = h /\ b.r = r
    BY <2>1
  <2>. HIDE DEF b
  <2>4. Returned(h, F, f, b)
    BY <2>2, <2>3 DEF Returned
  <2>. QED  BY <2>4 DEF b
<1>2. CASE r.mark = 0
  <2>. DEFINE g == Release(h, r.rd)
              e == Release(g, r.wr)
              q == [r EXCEPT !.rd = NoHandle, !.wr = NoHandle]
              D1 == [D EXCEPT ![x] = Null]
              D2 == [D1 EXCEPT ![y] = Null]
  <2>1. b = [heap |-> e, r |-> q]
    BY <1>2 DEF ReleaseBuffers
  <2>2. Held(g, D1) /\ g.mem = h.mem
    <3>1. Held(h, D)
      OBVIOUS
    <3>2. r.rd.data = D[x]
      BY <1>0
    <3>. HIDE DEF D, r, x
    <3>3. x \in Handles
      BY <1>0
    <3>. QED  BY <3>1, <3>2, <3>3, ReleaseHeld
  <2>3. Held(e, D2) /\ e.mem = g.mem
    <3>1. D1[y] = r.wr.data
      <4>. HIDE DEF D, r, x, y
      <4>. QED  BY <1>0
    <3>. HIDE DEF D1, g, r, y
    <3>. QED  BY <1>0, <2>2, <3>1, ReleaseHeld
  <2>4. NoHandle \in Handle /\ NoHandle.data = Null
    BY DEF NoHandle, Handle
  <2>5. /\ q \in FlowRecord /\ q.rd = NoHandle /\ q.wr = NoHandle /\ q.ends = r.ends
        /\ q.got = r.got /\ q.mark = r.mark /\ q.out = r.out
    <3>. HIDE DEF r
    <3>. QED  BY <1>0, <2>4 DEF FlowRecord
  <2>6. Data([F EXCEPT ![f] = q]) = D2
    <3>. HIDE DEF q
    <3>1. Data([F EXCEPT ![f] = q])
            = [[D EXCEPT ![x] = q.rd.data] EXCEPT ![y] = q.wr.data]
      BY DataChanged
    <3>. HIDE DEF D, x, y
    <3>. QED  BY <2>4, <2>5, <3>1
  <2>7. Position(q)
    <3>1. Position(r)
      OBVIOUS
    <3>. HIDE DEF q, r
    <3>. QED  BY <2>5, <3>1 DEF Position
  <2>8. b.heap = e /\ b.r = q
    BY <2>1
  <2>. HIDE DEF b, e, q, g, D2
  <2>9. Returned(h, F, f, b)
    BY <1>2, <2>2, <2>3, <2>5, <2>6, <2>7, <2>8 DEF Returned
  <2>. QED  BY <2>9 DEF b
<1>. QED  BY <1>1, <1>2

-----------------------------------------------------------------------------
(* The handlers.                                                           *)

\* A read with a frame that is not too large.
LEMMA ReadSound ==
    ASSUME NEW h, NEW F, Sound(h, F), NEW f \in Flows, F[f].op = "read",
           NEW n \in Nat, n > 0, F[f].got + n <= Sent(F[f]),
           NEW s, s = ReadSome(h, F[f], n), NEW d, d = HandleData(s.heap, s.r),
           ~TooLarge(s.r)
    PROVE  Sound(d.heap, [F EXCEPT ![f] = d.r])
<1>. DEFINE r == F[f]
            q == s.r
            G == [F EXCEPT ![f] = q]
            H == [F EXCEPT ![f] = d.r]
<1>0. F \in [Flows -> FlowRecord] /\ r \in FlowRecord /\ Position(r) /\ Filled(r, h.mem)
  BY DEF Sound
<1>1. /\ q = [r EXCEPT !.rd = q.rd, !.got = r.got + n, !.mark = r.mark + n]
      /\ q.rd \in Handle /\ q.rd.data \in Memory
      /\ Held(s.heap, Data(G))
      /\ s.heap.mem[q.rd.data] = Octets(r.got - r.mark, r.got + n)
      /\ Untouched(h, s.heap, F, f)
  <2>1. Appended(h, F, f, n, s)
    BY ReadSomeEffect
  <2>. QED  BY <2>1, Zenon DEF Appended
<1>2. /\ q \in FlowRecord /\ q.ends = r.ends /\ q.out = r.out /\ q.op = r.op
      /\ q.got = r.got + n /\ q.mark = r.mark + n
  <2>. DEFINE got == r.got + n
              mark == r.mark + n
  <2>1. got \in Nat /\ mark \in Nat
    BY <1>0, FlowFields
  <2>2. q = [r EXCEPT !.rd = q.rd, !.got = got, !.mark = mark] /\ q.rd \in Handle
    BY <1>1
  <2>. HIDE DEF got, mark, q, r
  <2>3. q.ends = r.ends /\ q.out = r.out /\ q.op = r.op /\ q.got = got /\ q.mark = mark
    BY <1>0, <2>2 DEF FlowRecord
  <2>4. q \in FlowRecord
    BY <1>0, <2>1, <2>2 DEF FlowRecord
  <2>. QED  BY <2>3, <2>4 DEF got, mark
<1>3. Position(q) /\ q.got - q.mark = r.got - r.mark
  <2>1. r.got + n <= Sent(r)
    OBVIOUS
  <2>. HIDE DEF q, r
  <2>. QED  BY <1>0, <1>2, <2>1, ReadPosition
<1>4. r.out = r.got - r.mark /\ r.mark \in Nat
  BY <1>0, FlowFields DEF Filled
<1>5. G \in [Flows -> FlowRecord] /\ G[f] = q
  BY <1>0, <1>2
<1>. HIDE DEF G
<1>6. Arrived(s.heap, G, f)
  <2>1. q.mark > 0
    BY <1>2, <1>4
  <2>. HIDE DEF q, r
  <2>. QED  BY <1>1, <1>2, <1>3, <1>4, <1>5, <2>1 DEF Arrived, r
<1>7. d = HandleData(s.heap, G[f]) /\ ~TooLarge(G[f])
  BY <1>5
<1>8. /\ Position(d.r) /\ Filled(d.r, d.heap.mem)
      /\ Held(d.heap, Data([G EXCEPT ![f] = d.r]))
      /\ Untouched(s.heap, d.heap, G, f)
  BY <1>6, <1>7, HandleDataEffect
<1>9. [G EXCEPT ![f] = d.r] = H
  BY <1>0 DEF G
<1>10. Untouched(h, d.heap, F, f)
  <2>1. \A x \in Flows \ {f} : G[x] = F[x]
    BY <1>0 DEF G
  <2>2. ASSUME NEW x \in Flows \ {f}, NEW m \in {F[x].rd.data, F[x].wr.data} \ {Null}
        PROVE  d.heap.mem[m] = h.mem[m]
    <3>1. s.heap.mem[m] = h.mem[m]
      BY <1>1, Zenon DEF Untouched
    <3>2. m \in {G[x].rd.data, G[x].wr.data} \ {Null}
      BY <2>1
    <3>3. d.heap.mem[m] = s.heap.mem[m]
      BY <1>8, <3>2, Zenon DEF Untouched
    <3>. QED  BY <3>1, <3>3
  <2>. QED  BY <2>2, Zenon DEF Untouched
<1>. QED  BY <1>8, <1>9, <1>10, FlowChanged

\* Flows with nothing pending, or with operations that will fail.
LEMMA AllEnded ==
    ASSUME NEW h, NEW F, Held(h, Data(F)), NEW G \in [Flows -> FlowRecord],
           \A x \in Flows : /\ F[x].rd.data = G[x].rd.data /\ F[x].wr.data = G[x].wr.data
                            /\ Position(G[x]) /\ G[x].op \in {"failed", "none"}
    PROVE  Sound(h, G)
<1>1. Data(F) = Data(G)
  BY SameHandles
<1>2. ASSUME NEW x \in Flows PROVE Filled(G[x], h.mem)
  BY DEF Filled
<1>. QED  BY <1>1, <1>2, Zenon DEF Sound

\* What is pending fails when the sockets are closed.
LEMMA AbortedEffect ==
    ASSUME NEW r, Position(r)
    PROVE  /\ Position(Aborted(r)) /\ Aborted(r).op \in {"failed", "none"}
           /\ Aborted(r).rd = r.rd /\ Aborted(r).wr = r.wr
<1>. DEFINE q == Aborted(r)
            op == IF r.op = "none" THEN "none" ELSE "failed"
<1>1. r \in FlowRecord
  BY DEF Position
<1>2. q = [r EXCEPT !.op = op] /\ op \in {"failed", "none"}
  BY DEF Aborted
<1>. HIDE DEF op, q
<1>3. /\ q \in FlowRecord /\ q.op = op /\ q.rd = r.rd /\ q.wr = r.wr
      /\ q.ends = r.ends /\ q.out = r.out /\ q.mark = r.mark /\ q.got = r.got
  BY <1>1, <1>2 DEF FlowRecord
<1>4. Position(q)
  BY <1>3 DEF Position
<1>. QED  BY <1>2, <1>3, <1>4 DEF q

\* The heap of the next state.
LEMMA HeapSet ==
    ASSUME NEW h, NEW D, Held(h, D), SetHeap(h)
    PROVE  heap' = h
<1>1. h \in HeapType
  BY DEF Held
<1>2. h = [pool |-> h.pool, live |-> h.live, mem |-> h.mem]
  BY <1>1 DEF HeapType
<1>. QED  BY <1>2 DEF SetHeap, heap

\* The destructors of the handles give back all that the session holds.
LEMMA ReleaseAllHeld ==
    ASSUME Held(heap, Data(flow))
    PROVE  Held(ReleaseAll, [k \in Handles |-> Null])
<1>. DEFINE D == Data(flow)
            E == [k \in Handles |-> Null]
            g == ReleaseAll
            N(src) == {k \in Handles : DataOf(k) # Null /\ DataOf(k)[1] = src}
<1>0. /\ heap \in HeapType /\ D \in [Handles -> Memory \cup {Null}]
      /\ \A u, v \in Handles : D[u] = D[v] => u = v \/ D[u] = Null
      /\ heap.live = {D[u] : u \in Handles} \ {Null}
      /\ \A b \in Buckets :
            /\ heap.pool[b].alloc = heap.pool[b].dealloc + Cardinality(Of(heap, b))
            /\ Cardinality(Of(heap, b)) <= heap.pool[b].high
  BY DEF Held
<1>1. heap.pool = pool /\ heap.live = live /\ heap.mem = mem
  BY DEF heap
<1>2. /\ pool \in [Sources -> Counter] /\ live \in SUBSET Memory
      /\ mem \in [Memory -> [from : Nat, to : Nat]]
      /\ \A b \in Sources : /\ pool[b].alloc \in Nat /\ pool[b].dealloc \in Nat
                            /\ pool[b].high \in Nat
  BY <1>0, <1>1, HeapFields
<1>3. \A k \in Handles : DataOf(k) = D[k]
  BY DEF DataOf, Data
<1>4. live \ {DataOf(k) : k \in Handles} = {}
  BY <1>0, <1>1, <1>3
<1>5. ASSUME NEW src \in Sources
      PROVE  IsFiniteSet(N(src)) /\ Cardinality(N(src)) \in Nat
             /\ Cardinality(N(src)) = Cardinality(Of(heap, src))
  <2>. DEFINE S == N(src)
              T == Of(heap, src)
              p == [k \in S |-> D[k]]
  <2>1. IsFiniteSet(S)
    <3>1. S \subseteq Handles
      OBVIOUS
    <3>. QED  BY <3>1, HandlesFinite, FS_Subset
  <2>2. IsFiniteSet(T)
    BY LiveFinite
  <2>3. \A k \in S : k \in Handles /\ D[k] # Null /\ D[k][1] = src
    BY <1>3
  <2>4. \A k \in S : D[k] \in T
    BY <1>0, <2>3 DEF Of
  <2>5. \A m \in T : \E k \in S : D[k] = m
    BY <1>0, <1>3 DEF Of
  <2>. HIDE DEF D, S, T
  <2>6. p \in [S -> T] /\ \A k \in S : p[k] = D[k]
    BY <2>4
  <2>. HIDE DEF p
  <2>7. \A u, v \in S : p[u] = p[v] => u = v
    BY <1>0, <2>3, <2>6
  <2>8. p \in Bijection(S, T)
    <3>1. p \in Injection(S, T)
      BY <2>6, <2>7, Zenon DEF Injection, IsInjective
    <3>2. p \in Surjection(S, T)
      BY <2>5, <2>6 DEF Surjection
    <3>. QED  BY <3>1, <3>2 DEF Bijection
  <2>9. ExistsBijection(S, T)
    BY <2>8 DEF ExistsBijection
  <2>10. Cardinality(S) = Cardinality(T)
    BY <2>1, <2>9, FS_Bijection
  <2>11. Cardinality(S) \in Nat
    BY <2>1, FS_CardinalityType
  <2>. QED  BY <2>1, <2>10, <2>11 DEF S, T
<1>. HIDE DEF N
<1>6. /\ g.live = {} /\ g.mem = mem
      /\ g.pool = [src \in Sources |->
                     IF src = Heap THEN pool[src]
                     ELSE [pool[src] EXCEPT !.dealloc = @ + Cardinality(N(src))]]
      /\ g = [live |-> g.live, mem |-> g.mem, pool |-> g.pool]
  BY <1>4 DEF ReleaseAll, N
<1>. HIDE DEF g
<1>7. ASSUME NEW src \in Sources
      PROVE  /\ g.pool[src] \in Counter
             /\ src # Heap => /\ g.pool[src].alloc = pool[src].alloc
                              /\ g.pool[src].high = pool[src].high
                              /\ g.pool[src].dealloc = pool[src].dealloc + Cardinality(N(src))
  <2>. DEFINE c == pool[src]
              n == c.dealloc + Cardinality(N(src))
  <2>1. c \in Counter /\ n \in Nat
    BY <1>2, <1>5
  <2>2. g.pool[src] = IF src = Heap THEN c ELSE [c EXCEPT !.dealloc = n]
    BY <1>6
  <2>. HIDE DEF c, n
  <2>3. CASE src = Heap
    BY <2>1, <2>2, <2>3
  <2>4. CASE src # Heap
    <3>1. g.pool[src] = [c EXCEPT !.dealloc = n]
      BY <2>2, <2>4
    <3>2. g.pool[src] \in Counter /\ g.pool[src].alloc = c.alloc
          /\ g.pool[src].high = c.high /\ g.pool[src].dealloc = n
      BY <2>1, <3>1 DEF Counter
    <3>. QED  BY <3>2 DEF c, n
  <2>. QED  BY <2>3, <2>4
<1>8. g \in HeapType
  <2>1. g.pool \in [Sources -> Counter]
    <3>1. DOMAIN g.pool = Sources /\ g.pool = [src \in Sources |-> g.pool[src]]
      BY <1>6
    <3>. QED  BY <1>7, <3>1
  <2>. QED  BY <1>2, <1>6, <2>1 DEF HeapType
<1>9. ASSUME NEW b \in Buckets
      PROVE  /\ g.pool[b].alloc = g.pool[b].dealloc + Cardinality(Of(g, b))
             /\ Cardinality(Of(g, b)) <= g.pool[b].high
  <2>1. Of(g, b) = {}
    BY <1>6 DEF Of
  <2>2. Cardinality(Of(g, b)) = 0
    BY <2>1, FS_EmptySet
  <2>3. b \in Sources /\ b # Heap
    BY Facts DEF Heap
  <2>. QED  BY <1>0, <1>1, <1>2, <1>5, <1>7, <2>2, <2>3
<1>10. /\ E \in [Handles -> Memory \cup {Null}] /\ g.live = {E[k] : k \in Handles} \ {Null}
       /\ \A u, v \in Handles : E[u] = E[v] => u = v \/ E[u] = Null
  BY <1>6
<1>. HIDE DEF E
<1>11. Held(g, E)
  BY <1>8, <1>9, <1>10, Zenon DEF Held
<1>. QED  BY <1>11 DEF g, E

\* Handlers of the io thread: the read.
LEMMA ReadDataStep ==
    ASSUME DataPathInv, NEW f \in Flows, NEW n \in 1..(Sent(flow[f]) - flow[f].got),
           ReadData(f, n)
    PROVE  DataPathInv'
<1>. DEFINE r == flow[f]
            s == ReadSome(heap, r, n)
            d == HandleData(s.heap, s.r)
            G == [flow EXCEPT ![f] = s.r]
<1>0. /\ Sound(heap, flow) /\ flow \in [Flows -> FlowRecord] /\ Held(heap, Data(flow))
      /\ r \in FlowRecord /\ Position(r) /\ r.op = "read"
      /\ \A x \in Flows : Position(flow[x])
  BY DEF DataPathInv, Sound, ReadData
<1>1. n \in Nat /\ n > 0 /\ r.got + n <= Sent(r)
  <2>1. r.got \in Nat /\ r.ends \in SUBSET Nat
    BY <1>0, FlowFields
  <2>2. Sent(r) \in r.ends
    BY <1>0, Extent
  <2>3. Sent(r) \in Nat
    BY <2>1, <2>2
  <2>. QED  BY <2>1, <2>3
<1>2. CASE TooLarge(s.r)
  <2>. DEFINE q == [s.r EXCEPT !.op = "none"]
  <2>1. /\ SetHeap(s.heap) /\ open' = FALSE
        /\ flow' = [g \in Flows |-> IF g = f THEN q ELSE Aborted(flow[g])]
    BY <1>2 DEF ReadData
  <2>2. Appended(heap, flow, f, n, s)
    BY <1>0, <1>1, ReadSomeEffect
  <2>. HIDE DEF s
  <2>3. Held(s.heap, Data(G))
    BY <2>2 DEF Appended
  <2>. HIDE DEF r
  <2>4. /\ s.r = [r EXCEPT !.rd = s.r.rd, !.got = r.got + n, !.mark = r.mark + n]
        /\ s.r.rd \in Handle
    BY <2>2 DEF Appended, r
  <2>5. /\ s.r \in FlowRecord /\ s.r.ends = r.ends /\ s.r.out = r.out
        /\ s.r.got = r.got + n /\ s.r.mark = r.mark + n
    <3>. DEFINE got == r.got + n
                mark == r.mark + n
    <3>1. got \in Nat /\ mark \in Nat
      BY <1>0, <1>1, FlowFields
    <3>2. s.r = [r EXCEPT !.rd = s.r.rd, !.got = got, !.mark = mark]
      BY <2>4
    <3>. HIDE DEF got, mark
    <3>3. s.r.ends = r.ends /\ s.r.out = r.out /\ s.r.got = got /\ s.r.mark = mark
      BY <1>0, <3>2 DEF FlowRecord
    <3>4. s.r \in FlowRecord
      BY <1>0, <2>4, <3>1, <3>2 DEF FlowRecord
    <3>. QED  BY <3>3, <3>4 DEF got, mark
  <2>6. Position(s.r)
    BY <1>0, <1>1, <2>5, ReadPosition
  <2>7. /\ q \in FlowRecord /\ q.op = "none" /\ q.rd = s.r.rd /\ q.wr = s.r.wr
        /\ q.ends = s.r.ends /\ q.out = s.r.out /\ q.mark = s.r.mark /\ q.got = s.r.got
    BY <2>5 DEF FlowRecord
  <2>. HIDE DEF q
  <2>8. Position(q)
    BY <2>6, <2>7 DEF Position
  <2>9. ASSUME NEW x \in Flows
        PROVE  /\ G[x].rd.data = flow'[x].rd.data /\ G[x].wr.data = flow'[x].wr.data
               /\ Position(flow'[x]) /\ flow'[x].op \in {"failed", "none"}
               /\ flow'[x] \in FlowRecord
    <3>1. CASE x = f
      <4>1. G[x] = s.r /\ flow'[x] = q
        BY <1>0, <2>1, <3>1
      <4>. HIDE DEF G
      <4>. QED  BY <2>7, <2>8, <4>1
    <3>2. CASE x # f
      <4>1. G[x] = flow[x] /\ flow'[x] = Aborted(flow[x])
        BY <1>0, <2>1, <3>2
      <4>. HIDE DEF G
      <4>. QED  BY <1>0, <4>1, AbortedEffect DEF Position
    <3>. QED  BY <3>1, <3>2
  <2>10. flow' \in [Flows -> FlowRecord]
    BY <2>1, <2>9
  <2>. HIDE DEF G
  <2>11. Sound(s.heap, flow')
    BY <2>3, <2>9, <2>10, AllEnded
  <2>12. heap' = s.heap
    BY <2>1, <2>3, HeapSet
  <2>. QED  BY <2>1, <2>11, <2>12 DEF DataPathInv
<1>3. CASE ~TooLarge(s.r)
  <2>1. SetHeap(d.heap) /\ flow' = [flow EXCEPT ![f] = d.r] /\ open' = open
    BY <1>3 DEF ReadData
  <2>2. Sound(d.heap, flow')
    <3>1. Sound(d.heap, [flow EXCEPT ![f] = d.r])
      BY <1>0, <1>1, <1>3, ReadSound
    <3>. QED  BY <2>1, <3>1
  <2>. HIDE DEF d
  <2>3. heap' = d.heap
    BY <2>1, <2>2, HeapSet DEF Sound
  <2>. QED  BY <2>1, <2>2, <2>3 DEF DataPathInv
<1>. QED  BY <1>2, <1>3

\* The end of a write.
LEMMA WriteDataStep ==
    ASSUME DataPathInv, NEW f \in Flows, WriteData(f)
    PROVE  DataPathInv'
<1>. DEFINE r == flow[f]
            b == ReleaseBuffers(heap, r)
            q == [b.r EXCEPT !.op = "read", !.w = NoWrite, !.out = r.w.to]
<1>0. /\ Sound(heap, flow) /\ flow \in [Flows -> FlowRecord] /\ Held(heap, Data(flow))
      /\ r \in FlowRecord /\ Position(r) /\ Filled(r, heap.mem) /\ r.op = "write"
  BY DEF DataPathInv, Sound, WriteData
<1>1. SetHeap(b.heap) /\ flow' = [flow EXCEPT ![f] = q] /\ open' = open
  BY DEF WriteData
<1>2. Returned(heap, flow, f, b)
  BY <1>0, ReleaseBuffersEffect
<1>. HIDE DEF b
<1>3. /\ b.heap.mem = heap.mem /\ Held(b.heap, Data([flow EXCEPT ![f] = b.r]))
      /\ Position(b.r) /\ b.r.ends = r.ends /\ b.r.got = r.got
      /\ b.r.mark = r.mark
      /\ b.r.mark # 0 => b.r.rd = r.rd
  BY <1>2 DEF Returned
<1>4. r.w.to \in Nat /\ NoWrite \in [data : Memory \cup {Null}, to : Nat]
  BY <1>0 DEF FlowRecord, NoWrite
<1>5. b.r \in FlowRecord
  BY <1>3 DEF Position
<1>6. r.w.to = r.got - r.mark /\ r.w.to \in r.ends
  BY <1>0 DEF Filled
<1>7. /\ q \in FlowRecord /\ q.op = "read" /\ q.rd = b.r.rd /\ q.wr = b.r.wr
      /\ q.ends = b.r.ends /\ q.out = r.w.to /\ q.mark = b.r.mark /\ q.got = b.r.got
  <2>. HIDE DEF r
  <2>. QED  BY <1>4, <1>5 DEF FlowRecord
<1>. HIDE DEF q
<1>8. Position(q)
  BY <1>3, <1>6, <1>7 DEF Position
<1>9. Filled(q, b.heap.mem)
  <2>0. b.r.mark \in Nat
    BY <1>5, FlowFields
  <2>1. q.mark > 0 => q.rd = r.rd
    <3>1. b.r.mark # 0 => b.r.rd = r.rd
      BY <1>3
    <3>. QED  BY <1>7, <2>0, <3>1
  <2>. HIDE DEF r
  <2>. QED  BY <1>0, <1>3, <1>6, <1>7, <2>1 DEF Filled
<1>10. Held(b.heap, Data([flow EXCEPT ![f] = q]))
  <2>. DEFINE G == [flow EXCEPT ![f] = b.r]
              H == [flow EXCEPT ![f] = q]
  <2>1. \A x \in Flows : G[x].rd.data = H[x].rd.data /\ G[x].wr.data = H[x].wr.data
    BY <1>0, <1>7
  <2>. HIDE DEF G, H
  <2>2. Data(G) = Data(H)
    BY <2>1, SameHandles, Zenon
  <2>. QED  BY <1>3, <2>2 DEF G, H
<1>11. Untouched(heap, b.heap, flow, f)
  BY <1>3 DEF Untouched
<1>12. Sound(b.heap, [flow EXCEPT ![f] = q])
  BY <1>0, <1>8, <1>9, <1>10, <1>11, FlowChanged
<1>13. heap' = b.heap
  BY <1>1, <1>10, HeapSet
<1>. QED  BY <1>1, <1>12, <1>13 DEF DataPathInv

\* An operation that failed.
LEMMA OperationFailedStep ==
    ASSUME DataPathInv, NEW f \in Flows, OperationFailed(f)
    PROVE  DataPathInv'
<1>. DEFINE r == flow[f]
            b == IF r.w.data = Null THEN [heap |-> heap, r |-> r] ELSE ReleaseBuffers(heap, r)
            q == [b.r EXCEPT !.op = "none", !.w = NoWrite]
<1>0. /\ Sound(heap, flow) /\ flow \in [Flows -> FlowRecord] /\ Held(heap, Data(flow))
      /\ r \in FlowRecord /\ Position(r)
  BY DEF DataPathInv, Sound
<1>1. SetHeap(b.heap) /\ flow' = [flow EXCEPT ![f] = q] /\ open' = open
  BY DEF OperationFailed
<1>2. /\ b.heap.mem = heap.mem /\ Held(b.heap, Data([flow EXCEPT ![f] = b.r]))
      /\ Position(b.r)
  <2>1. CASE r.w.data = Null
    <3>1. [flow EXCEPT ![f] = r] = flow
      BY <1>0
    <3>2. b.heap = heap /\ b.r = r
      BY <2>1
    <3>. HIDE DEF b, r
    <3>. QED  BY <1>0, <3>1, <3>2
  <2>2. CASE r.w.data # Null
    <3>1. Returned(heap, flow, f, ReleaseBuffers(heap, flow[f]))
      BY <1>0, ReleaseBuffersEffect
    <3>2. b = ReleaseBuffers(heap, flow[f])
      BY <2>2
    <3>. HIDE DEF b
    <3>3. Returned(heap, flow, f, b)
      BY <3>1, <3>2
    <3>. QED  BY <3>3 DEF Returned
  <2>. QED  BY <2>1, <2>2
<1>. HIDE DEF b
<1>3. b.r \in FlowRecord /\ NoWrite \in [data : Memory \cup {Null}, to : Nat]
  BY <1>2 DEF Position, NoWrite
<1>4. /\ q \in FlowRecord /\ q.op = "none" /\ q.rd = b.r.rd /\ q.wr = b.r.wr
      /\ q.ends = b.r.ends /\ q.out = b.r.out /\ q.mark = b.r.mark /\ q.got = b.r.got
  BY <1>3 DEF FlowRecord
<1>. HIDE DEF q
<1>5. Position(q)
  BY <1>2, <1>4 DEF Position
<1>6. Filled(q, b.heap.mem)
  BY <1>4 DEF Filled
<1>7. Held(b.heap, Data([flow EXCEPT ![f] = q]))
  <2>. DEFINE G == [flow EXCEPT ![f] = b.r]
              H == [flow EXCEPT ![f] = q]
  <2>1. \A x \in Flows : G[x].rd.data = H[x].rd.data /\ G[x].wr.data = H[x].wr.data
    BY <1>0, <1>4
  <2>. HIDE DEF G, H
  <2>2. Data(G) = Data(H)
    BY <2>1, SameHandles, Zenon
  <2>. QED  BY <1>2, <2>2 DEF G, H
<1>8. Untouched(heap, b.heap, flow, f)
  BY <1>2 DEF Untouched
<1>9. Sound(b.heap, [flow EXCEPT ![f] = q])
  BY <1>0, <1>5, <1>6, <1>7, <1>8, FlowChanged
<1>10. heap' = b.heap
  BY <1>1, <1>7, HeapSet
<1>. QED  BY <1>1, <1>9, <1>10 DEF DataPathInv

\* A peer sends another frame.
LEMMA PeerSendsStep ==
    ASSUME DataPathInv, NEW f \in Flows, NEW n \in FrameSizes, PeerSends(f, n)
    PROVE  DataPathInv'
<1>. DEFINE r == flow[f]
            last == Sent(r) + n
            ends == r.ends \cup {last}
            q == [r EXCEPT !.ends = ends]
<1>0. /\ Sound(heap, flow) /\ flow \in [Flows -> FlowRecord] /\ Held(heap, Data(flow))
      /\ r \in FlowRecord /\ Position(r) /\ Filled(r, heap.mem)
  BY DEF DataPathInv, Sound
<1>1. flow' = [flow EXCEPT ![f] = q] /\ heap' = heap /\ open' = open
  <2>1. flow' = [flow EXCEPT ![f].ends = @ \cup {Sent(flow[f]) + n}]
        /\ pool' = pool /\ live' = live /\ mem' = mem /\ open' = open
    BY DEF PeerSends
  <2>2. heap' = heap
    BY <2>1 DEF heap
  <2>. QED  BY <2>1, <2>2
<1>2. /\ Sent(r) \in r.ends /\ r.got <= Sent(r) /\ \A e \in r.ends : e <= Sent(r)
      /\ r.ends \in SUBSET Nat /\ r.got \in Nat /\ n \in Nat
  BY <1>0, Extent, FlowFields, Facts
<1>3. ends \in SUBSET Nat /\ last \in Nat /\ r.got <= last /\ \A e \in ends : e <= last
  BY <1>2
<1>. HIDE DEF last
<1>4. /\ q \in FlowRecord /\ q.op = r.op /\ q.rd = r.rd /\ q.wr = r.wr /\ q.w = r.w
      /\ q.ends = ends /\ q.out = r.out /\ q.mark = r.mark /\ q.got = r.got
  <2>. HIDE DEF ends
  <2>. QED  BY <1>0, <1>3 DEF FlowRecord
<1>. HIDE DEF q
<1>5. Position(q)
  BY <1>0, <1>3, <1>4 DEF Position
<1>6. Filled(q, heap.mem)
  <2>1. \A e : e \in r.ends => e \in ends
    OBVIOUS
  <2>. HIDE DEF ends, r
  <2>. QED  BY <1>0, <1>4, <2>1 DEF Filled
<1>7. Held(heap, Data([flow EXCEPT ![f] = q]))
  <2>. DEFINE H == [flow EXCEPT ![f] = q]
  <2>1. \A x \in Flows : flow[x].rd.data = H[x].rd.data /\ flow[x].wr.data = H[x].wr.data
    BY <1>0, <1>4
  <2>. HIDE DEF H
  <2>2. Data(flow) = Data(H)
    BY <2>1, SameHandles, Zenon
  <2>. QED  BY <1>0, <2>2 DEF H
<1>8. Untouched(heap, heap, flow, f)
  BY DEF Untouched
<1>9. Sound(heap, [flow EXCEPT ![f] = q])
  BY <1>0, <1>5, <1>6, <1>7, <1>8, FlowChanged
<1>. QED  BY <1>1, <1>9 DEF DataPathInv

\* The session ends.
LEMMA DisconnectStep ==
    ASSUME DataPathInv, Disconnect
    PROVE  DataPathInv'
<1>0. /\ flow \in [Flows -> FlowRecord] /\ Held(heap, Data(flow))
      /\ \A x \in Flows : Position(flow[x])
  BY DEF DataPathInv, Sound
<1>1. /\ flow' = [f \in Flows |-> Aborted(flow[f])] /\ open' = FALSE
      /\ pool' = pool /\ live' = live /\ mem' = mem
  BY DEF Disconnect
<1>2. heap' = heap
  BY <1>1 DEF heap
<1>3. ASSUME NEW x \in Flows
      PROVE  /\ flow[x].rd.data = flow'[x].rd.data /\ flow[x].wr.data = flow'[x].wr.data
             /\ Position(flow'[x]) /\ flow'[x].op \in {"failed", "none"}
             /\ flow'[x] \in FlowRecord
  <2>1. flow'[x] = Aborted(flow[x])
    BY <1>1
  <2>. QED  BY <1>0, <2>1, AbortedEffect DEF Position
<1>4. flow' \in [Flows -> FlowRecord]
  BY <1>1, <1>3
<1>5. Sound(heap, flow')
  BY <1>0, <1>3, <1>4, AllEnded
<1>. QED  BY <1>1, <1>2, <1>5 DEF DataPathInv

\* A flow with nothing read, and the flow of a session that was destroyed.
LEMMA NewFlowFacts ==
    ASSUME NEW op \in {"read", "none"}, NEW r, r = [NewFlow EXCEPT !.op = op]
    PROVE  /\ Position(r) /\ r.rd.data = Null /\ r.wr.data = Null
           /\ r.op = op /\ r.mark = 0 /\ r.got = 0 /\ r.out = 0 /\ r.ends = {0}
<1>1. NoHandle \in Handle /\ NoHandle.data = Null
  BY DEF NoHandle, Handle
<1>2. NoWrite \in [data : Memory \cup {Null}, to : Nat]
  BY DEF NoWrite
<1>3. r = [ends |-> {0}, got |-> 0, mark |-> 0, rd |-> NoHandle,
           wr |-> NoHandle, op |-> op, w |-> NoWrite, out |-> 0]
  BY DEF NewFlow
<1>4. r \in FlowRecord
  <2>1. ASSUME NEW start \in SUBSET Nat, NEW n \in Nat, NEW hd \in Handle,
               NEW o \in {"read", "write", "failed", "none"},
               NEW w \in [data : Memory \cup {Null}, to : Nat]
        PROVE  [ends |-> start, got |-> n, mark |-> n, rd |-> hd,
                wr |-> hd, op |-> o, w |-> w, out |-> n] \in FlowRecord
    BY DEF FlowRecord
  <2>2. {0} \in SUBSET Nat /\ 0 \in Nat /\ op \in {"read", "write", "failed", "none"}
    OBVIOUS
  <2>3. [ends |-> {0}, got |-> 0, mark |-> 0, rd |-> NoHandle,
         wr |-> NoHandle, op |-> op, w |-> NoWrite, out |-> 0] \in FlowRecord
    BY <1>1, <1>2, <2>1, <2>2
  <2>. QED  BY <1>3, <2>3, Zenon
<1>5. /\ r.rd = NoHandle /\ r.wr = NoHandle /\ r.op = op
      /\ r.mark = 0 /\ r.got = 0 /\ r.out = 0 /\ r.ends = {0}
  BY <1>3
<1>6. Position(r)
  BY <1>4, <1>5 DEF Position
<1>. QED  BY <1>1, <1>5, <1>6

\* The memory of flows that hold none.
LEMMA NothingHeld ==
    ASSUME NEW F, \A x \in Flows : F[x].rd.data = Null /\ F[x].wr.data = Null
    PROVE  Data(F) = [k \in Handles |-> Null]
<1>1. \A k \in Handles : F[k[1]].rd.data = Null /\ F[k[1]].wr.data = Null
  BY DEF Handles
<1>. QED  BY <1>1 DEF Data

\* The session is destroyed.
LEMMA DestroyStep ==
    ASSUME DataPathInv, Destroy
    PROVE  DataPathInv'
<1>. DEFINE q == [NewFlow EXCEPT !.op = "none"]
<1>0. Held(heap, Data(flow))
  BY DEF DataPathInv, Sound
<1>1. SetHeap(ReleaseAll) /\ flow' = [f \in Flows |-> q] /\ open' = open
  BY DEF Destroy
<1>2. /\ Position(q) /\ q.rd.data = Null /\ q.wr.data = Null /\ q.op = "none"
      /\ q \in FlowRecord
  <2>1. /\ Position(q) /\ q.rd.data = Null /\ q.wr.data = Null /\ q.op = "none"
    <3>1. q = [NewFlow EXCEPT !.op = "none"] /\ "none" \in {"read", "none"}
      OBVIOUS
    <3>. HIDE DEF q
    <3>. QED  BY <3>1, NewFlowFacts
  <2>. QED  BY <2>1 DEF Position
<1>. HIDE DEF q
<1>3. Held(ReleaseAll, Data(flow'))
  <2>1. \A x \in Flows : flow'[x].rd.data = Null /\ flow'[x].wr.data = Null
    BY <1>1, <1>2
  <2>2. Data(flow') = [k \in Handles |-> Null]
    BY <2>1, NothingHeld, Zenon
  <2>. QED  BY <1>0, <2>2, ReleaseAllHeld
<1>4. flow' \in [Flows -> FlowRecord]
  BY <1>1, <1>2
<1>5. \A x \in Flows : Position(flow'[x]) /\ flow'[x].op \in {"failed", "none"}
  BY <1>1, <1>2
<1>6. Sound(ReleaseAll, flow')
  BY <1>3, <1>4, <1>5, AllEnded
<1>7. heap' = ReleaseAll
  BY <1>1, <1>3, HeapSet
<1>. QED  BY <1>1, <1>6, <1>7 DEF DataPathInv

-----------------------------------------------------------------------------
(* The theorems.                                                           *)

\* A session begins with no buffers.
LEMMA InitSound == Init => DataPathInv
<1>. SUFFICES ASSUME Init PROVE DataPathInv
  OBVIOUS
<1>. DEFINE E == [k \in Handles |-> Null]
<1>1. /\ flow = [f \in Flows |-> NewFlow] /\ open = TRUE
      /\ pool = [b \in Sources |-> [alloc |-> 0, dealloc |-> 0, high |-> 0]]
      /\ live = {} /\ mem = [m \in Memory |-> Octets(0, 0)]
  BY DEF Init
<1>2. /\ Position(NewFlow) /\ NewFlow.rd.data = Null /\ NewFlow.wr.data = Null
      /\ NewFlow.op = "read" /\ NewFlow.mark = 0 /\ NewFlow.got = 0 /\ NewFlow.out = 0
      /\ NewFlow.ends = {0} /\ NewFlow \in FlowRecord
  <2>1. NewFlow = [NewFlow EXCEPT !.op = "read"]
    BY DEF NewFlow
  <2>2. /\ Position(NewFlow) /\ NewFlow.rd.data = Null /\ NewFlow.wr.data = Null
        /\ NewFlow.op = "read" /\ NewFlow.mark = 0 /\ NewFlow.got = 0
        /\ NewFlow.out = 0 /\ NewFlow.ends = {0}
    BY <2>1, NewFlowFacts
  <2>. QED  BY <2>2 DEF Position
<1>3. flow \in [Flows -> FlowRecord] /\ \A x \in Flows : flow[x] = NewFlow
  BY <1>1, <1>2
<1>4. Data(flow) = E
  <2>1. \A x \in Flows : flow[x].rd.data = Null /\ flow[x].wr.data = Null
    BY <1>2, <1>3
  <2>. QED  BY <2>1, NothingHeld, Zenon
<1>5. heap.pool = pool /\ heap.live = {} /\ heap.mem = mem /\ heap \in HeapType
  <2>1. pool \in [Sources -> Counter]
    BY <1>1 DEF Counter
  <2>2. mem \in [Memory -> [from : Nat, to : Nat]]
    BY <1>1 DEF Octets
  <2>. QED  BY <1>1, <2>1, <2>2 DEF heap, HeapType
<1>6. ASSUME NEW b \in Buckets
      PROVE  /\ heap.pool[b].alloc = heap.pool[b].dealloc + Cardinality(Of(heap, b))
             /\ Cardinality(Of(heap, b)) <= heap.pool[b].high
  <2>1. Of(heap, b) = {}
    BY <1>5 DEF Of
  <2>2. Cardinality(Of(heap, b)) = 0
    BY <2>1, FS_EmptySet
  <2>3. heap.pool[b] = [alloc |-> 0, dealloc |-> 0, high |-> 0]
    BY <1>1, <1>5, Facts
  <2>. QED  BY <2>2, <2>3
<1>7. /\ E \in [Handles -> Memory \cup {Null}] /\ heap.live = {E[k] : k \in Handles} \ {Null}
      /\ \A u, v \in Handles : E[u] = E[v] => u = v \/ E[u] = Null
  BY <1>5
<1>. HIDE DEF E
<1>8. Held(heap, E)
  BY <1>5, <1>6, <1>7, Zenon DEF Held
<1>9. ASSUME NEW x \in Flows PROVE Position(flow[x]) /\ Filled(flow[x], heap.mem)
  <2>1. Filled(NewFlow, heap.mem)
    BY <1>2 DEF Filled
  <2>. QED  BY <1>2, <1>3, <2>1
<1>10. Sound(heap, flow)
  BY <1>3, <1>4, <1>8, <1>9, Zenon DEF Sound
<1>. QED  BY <1>1, <1>10 DEF DataPathInv

\* Every handler keeps the invariant, whatever the other flow has pending.
LEMMA StepSound == DataPathInv /\ [Next]_vars => DataPathInv'
<1>. SUFFICES ASSUME DataPathInv, [Next]_vars PROVE DataPathInv'
  OBVIOUS
<1>1. ASSUME NEW f \in Flows, NEW n \in 1..(Sent(flow[f]) - flow[f].got), ReadData(f, n)
      PROVE  DataPathInv'
  BY <1>1, ReadDataStep
<1>2. ASSUME NEW f \in Flows, WriteData(f) PROVE DataPathInv'
  BY <1>2, WriteDataStep
<1>3. ASSUME NEW f \in Flows, OperationFailed(f) PROVE DataPathInv'
  BY <1>3, OperationFailedStep
<1>4. ASSUME NEW f \in Flows, NEW n \in FrameSizes, PeerSends(f, n) PROVE DataPathInv'
  BY <1>4, PeerSendsStep
<1>5. CASE Disconnect
  BY <1>5, DisconnectStep
<1>6. CASE Destroy
  BY <1>6, DestroyStep
<1>7. CASE UNCHANGED vars
  <2>1. flow' = flow /\ pool' = pool /\ live' = live /\ mem' = mem /\ open' = open
    BY <1>7 DEF vars
  <2>2. heap' = heap
    BY <2>1 DEF heap
  <2>. QED  BY <2>1, <2>2 DEF DataPathInv
<1>. QED  BY <1>1, <1>2, <1>3, <1>4, <1>5, <1>6, <1>7, Zenon DEF Next

\* The buffers of an open session, the memory in them and the counters of the pool
\* agree after any sequence of reads, writes, failures and disconnects.
THEOREM DataPathInvariant == Spec => []DataPathInv
BY InitSound, StepSound, PTL DEF Spec

\* The record of each flow and the memory handed out have their types.
THEOREM DataPathTypes == Spec => []TypeOK
<1>1. DataPathInv => TypeOK
  <2>. SUFFICES ASSUME DataPathInv PROVE TypeOK
    OBVIOUS
  <2>1. flow \in [Flows -> FlowRecord] /\ heap \in HeapType
    BY DEF DataPathInv, Sound, Held
  <2>2. heap.live = live
    BY DEF heap
  <2>. QED  BY <2>1, <2>2, HeapFields DEF TypeOK
<1>. QED  BY <1>1, DataPathInvariant, PTL

\* A pending write of Session::handleData always finds its octets: they stay in
\* memory that its flow holds, and each octet is written once and in order.
THEOREM WrittenIntact == Spec => []WritesIntact
<1>1. DataPathInv => WritesIntact
  <2>. SUFFICES ASSUME DataPathInv, NEW f \in Flows
                PROVE  /\ flow[f].out \in flow[f].ends
                       /\ flow[f].op = "write" =>
                             /\ flow[f].w.data \in {flow[f].rd.data, flow[f].wr.data} \cap live
                             /\ flow[f].w.to \in flow[f].ends
                             /\ mem[flow[f].w.data].from = flow[f].out
                             /\ mem[flow[f].w.data].to >= flow[f].w.to
    BY DEF WritesIntact
  <2>1. Held(heap, Data(flow)) /\ Position(flow[f]) /\ Filled(flow[f], heap.mem)
    BY DEF DataPathInv, Sound
  <2>2. heap.mem = mem /\ heap.live = live
    BY DEF heap
  <2>3. flow[f].out \in flow[f].ends
    BY <2>1 DEF Position
  <2>4. live = {Data(flow)[k] : k \in Handles} \ {Null}
    BY <2>1, <2>2 DEF Held
  <2>5. flow[f].rd.data \in live \cup {Null} /\ flow[f].wr.data \in live \cup {Null}
    BY <2>4, DataFields
  <2>. QED  BY <2>1, <2>2, <2>3, <2>5 DEF Filled
<1>. QED  BY <1>1, DataPathInvariant, PTL

\* Session::readData always has room for at least one octet behind the part of a frame
\* that it keeps, whatever sizes the frames and the buckets of the pool have.
THEOREM ReadsHaveRoom == Spec => []ReadHasRoom
<1>1. DataPathInv => ReadHasRoom
  <2>. SUFFICES ASSUME DataPathInv, NEW f \in Flows, flow[f].op = "read", flow[f].mark > 0
                PROVE  /\ flow[f].mark < flow[f].rd.size
                       /\ mem[flow[f].rd.data] = Octets(flow[f].out, flow[f].got)
                       /\ flow[f].got - flow[f].mark = flow[f].out
    BY DEF ReadHasRoom
  <2>1. Filled(flow[f], heap.mem) /\ flow[f] \in FlowRecord
    BY DEF DataPathInv, Sound
  <2>2. heap.mem = mem
    BY DEF heap
  <2>3. flow[f].mark \in Nat /\ flow[f].rd.size \in Nat
    BY <2>1, FlowFields
  <2>4. /\ flow[f].mark < MaxFrameSize /\ MaxFrameSize <= flow[f].rd.size
        /\ heap.mem[flow[f].rd.data] = Octets(flow[f].got - flow[f].mark, flow[f].got)
        /\ flow[f].out = flow[f].got - flow[f].mark
    BY <2>1, Zenon DEF Filled
  <2>5. flow[f].mark < flow[f].rd.size
    BY <2>3, <2>4, Facts
  <2>. QED  BY <2>2, <2>4, <2>5
<1>. QED  BY <1>1, DataPathInvariant, PTL

\* BufferPool hands no memory out twice and loses none, and its statistics count what
\* is handed out, for any buckets.
THEOREM PoolIsAccounted == Spec => []PoolAccounted
<1>1. DataPathInv => PoolAccounted
  <2>. SUFFICES ASSUME DataPathInv PROVE PoolAccounted
    OBVIOUS
  <2>. DEFINE D == Data(flow)
  <2>1. /\ heap \in HeapType
        /\ \A u, v \in Handles : D[u] = D[v] => u = v \/ D[u] = Null
        /\ heap.live = {D[u] : u \in Handles} \ {Null}
        /\ \A b \in Buckets :
              /\ heap.pool[b].alloc = heap.pool[b].dealloc + Cardinality(Of(heap, b))
              /\ Cardinality(Of(heap, b)) <= heap.pool[b].high
    BY DEF DataPathInv, Sound, Held
  <2>2. heap.pool = pool /\ heap.live = live
    BY DEF heap
  <2>3. \A k \in Handles : DataOf(k) = D[k]
    BY DEF DataOf, Data
  <2>. HIDE DEF D
  <2>4. \A g, h \in Handles : DataOf(g) = DataOf(h) => g = h \/ DataOf(g) = Null
    BY <2>1, <2>3
  <2>5. live = {DataOf(h) : h \in Handles} \ {Null}
    BY <2>1, <2>2, <2>3
  <2>6. ASSUME NEW b \in Buckets
        PROVE  LET s == GetPoolStatistics(pool, b)
               IN  /\ s.current = Cardinality({m \in live : m[1] = b})
                   /\ s.current <= s.high
    <3>. DEFINE n == Cardinality(Of(heap, b))
                s == GetPoolStatistics(pool, b)
    <3>1. /\ pool[b].alloc = pool[b].dealloc + n /\ n <= pool[b].high
          /\ pool[b].alloc \in Nat /\ pool[b].dealloc \in Nat /\ pool[b].high \in Nat
      BY <2>1, <2>2, HeapFields, Facts
    <3>2. n \in Nat
      <4>1. Held(heap, Data(flow))
        BY DEF DataPathInv, Sound
      <4>. QED  BY <4>1, LiveFinite
    <3>3. {m \in live : m[1] = b} = Of(heap, b)
      BY <2>2 DEF Of
    <3>. HIDE DEF n
    <3>4. s.current = n /\ s.high = pool[b].high
      BY <3>1, <3>2 DEF GetPoolStatistics
    <3>. HIDE DEF s
    <3>5. s.current = Cardinality({m \in live : m[1] = b}) /\ s.current <= s.high
      BY <3>1, <3>3, <3>4 DEF n
    <3>. QED  BY <3>5 DEF s
  <2>. QED  BY <2>4, <2>5, <2>6, Zenon DEF PoolAccounted
<1>. QED  BY <1>1, DataPathInvariant, PTL

=============================================================================
