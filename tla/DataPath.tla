------------------------------ MODULE DataPath ------------------------------
(***************************************************************************)
(* The memory that the data of an open session passes through: the read    *)
(* buffer of each flow, the second handle that keeps what is being         *)
(* written while the rest of a frame moves to a new buffer, and the pool    *)
(* that all buffers come from (BufferPool, BufferSource, BufferHandle).     *)
(*                                                                         *)
(* The octets of a flow are numbered from 1.  A peer sends whole frames     *)
(* and a read finds any number of their octets, so that a frame arrives in  *)
(* pieces.  What a piece of memory holds is the range of octets last put    *)
(* there.  Every handler of the io thread is one step.                      *)
(***************************************************************************)
EXTENDS Integers, FiniteSetsExt

CONSTANTS
    Flows,         \* the flows, INGRESS and EGRESS
    FrameSizes,    \* the sizes of the frames that a peer may send
    FrameOverhead, \* octets of a frame around its payload (8)
    MaxFrameSize,  \* Frame::getMaxFrameSize()
    Buckets,       \* the sizes of the pool's buffers
    MaxFrames      \* bound on the frames that a peer sends

ASSUME DataPathAssumption ==
    /\ IsFiniteSet(Flows)
    /\ FrameSizes \subseteq Nat \ {0} /\ Buckets \subseteq Nat \ {0}
    /\ FrameOverhead \in Nat \ {0} /\ MaxFrameSize \in Nat
    /\ FrameOverhead < MaxFrameSize /\ MaxFrames \in Nat
    /\ \A n \in FrameSizes : n >= FrameOverhead

VARIABLES
    flow, \* the flows of the session, see FlowRecord
    pool, \* the counters of each BufferSource, and d_spillover under Heap
    live, \* the pieces of memory handed out
    mem,  \* the octets that each of them holds
    open  \* whether the sockets are open
vars == <<flow, pool, live, mem, open>>

Heap == 0
Sources == Buckets \cup {Heap}

\* A piece of memory is a buffer of a source, which gives out no other memory, or
\* comes from the heap.  Each flow has at most two.
Number == 1..(2 * Cardinality(Flows) + 1)
Memory == Sources \X Number
Null == <<Heap, 0>>
Handle == [data : Memory \cup {Null}, size : Nat]
NoHandle == [data |-> Null, size |-> 0]
Octets(from, to) == [from |-> from, to |-> to]

\* ends: the octets with which the frames end that the peer sent, and 0 for the
\* beginning of the first; got: the octets read, mark: the watermark; rd and wr:
\* bufferHandle and bufferWriteDataHandle; op: what is pending; w: the memory and
\* the octets of a pending write; out: the octets written to the other side.
FlowRecord ==
    [ends : SUBSET Nat, got : Nat, mark : Nat, rd : Handle, wr : Handle,
     op : {"read", "write", "failed", "none"},
     w : [data : Memory \cup {Null}, to : Nat], out : Nat]

NoWrite == [data |-> Null, to |-> 0]

-----------------------------------------------------------------------------
(* The pool.  A heap is the part of the state it works on.                  *)

\* The first source whose buffers are large enough, or else the heap.
SourceOf(size) ==
    LET fits == {b \in Buckets : size <= b} IN IF fits = {} THEN Heap ELSE Min(fits)

\* Mutant of Release: the memory is given back and the counter is not moved.
ReleaseUncounted(h, handle) ==
    IF handle.data = Null THEN h ELSE [h EXCEPT !.live = @ \ {handle.data}]

\* BufferHandle::release and BufferSource::release.
Release(h, handle) ==
    IF handle.data = Null THEN h
    ELSE [h EXCEPT !.live = @ \ {handle.data},
                   !.pool[handle.data[1]].dealloc =
                        @ + IF handle.data[1] = Heap THEN 0 ELSE 1]

\* Memory that is free again is handed out first.
Free(h, src) ==
    <<src, Min({i \in Number : <<src, i>> \notin h.live})>>

\* BufferSource::acquire counts, and raises the high watermark; the heap only
\* counts (d_spillover).
Count(c, src) ==
    [c EXCEPT !.alloc = @ + 1,
              !.high = IF src = Heap THEN @ ELSE Max({@, c.alloc + 1 - c.dealloc})]

\* acquireBuffer: the handle gets the memory and releases what it had.
AcquireBuffer(h, handle, size) ==
    LET src == SourceOf(size)
        m   == Free(h, src)
        g   == [h EXCEPT !.live = @ \cup {m}, !.pool[src] = Count(@, src)]
    IN  [heap |-> Release(g, handle), handle |-> [data |-> m, size |-> size]]

\* getPoolStatistics, read when the io thread rests.
GetPoolStatistics(p, b) ==
    [current |-> IF p[b].alloc > p[b].dealloc THEN p[b].alloc - p[b].dealloc ELSE 0,
     high |-> p[b].high]

-----------------------------------------------------------------------------
(* The session.                                                            *)

\* The octets that a peer has sent, and the last of those read with which a frame
\* ends.
Sent(r) == Max(r.ends)
Whole(r) == Max({e \in r.ends : e <= r.got})

\* Mutant of TooLarge: no frame is too large.
TooLargeNever(r) == FALSE

\* Frame::decode throws when the frame that is not whole declares a length that
\* is too large.
TooLarge(r) ==
    LET n    == r.got - Whole(r)
        size == Min({e \in r.ends : e > Whole(r)}) - Whole(r)
    IN  n >= FrameOverhead /\ size > n /\ size > MaxFrameSize

\* Mutant of CopyRemaining: the data that is being written stays in the handle
\* that is assigned to.
CopyRemainingInPlace(h, r, n) ==
    LET a == AcquireBuffer(h, r.rd, Max({n, MaxFrameSize}))
    IN  IF n = 0 THEN [heap |-> h, r |-> [r EXCEPT !.mark = 0]]
        ELSE [heap |-> [a.heap EXCEPT !.mem[a.handle.data] = Octets(r.got - n, r.got)],
              r |-> [r EXCEPT !.mark = n, !.rd = a.handle]]

\* copyRemaining of the n octets that are not a whole frame.
CopyRemaining(h, r, n) ==
    LET a == AcquireBuffer(h, r.wr, Max({n, MaxFrameSize}))
    IN  IF n = 0 THEN [heap |-> h, r |-> [r EXCEPT !.mark = 0]]
        ELSE [heap |-> [a.heap EXCEPT !.mem[a.handle.data] = Octets(r.got - n, r.got)],
              r |-> [r EXCEPT !.mark = n, !.rd = a.handle, !.wr = r.rd]]

heap == [pool |-> pool, live |-> live, mem |-> mem]
SetHeap(h) == pool' = h.pool /\ live' = h.live /\ mem' = h.mem

\* handleData: process finds the whole frames among the octets after r.got - mark,
\* and what it passes through is written from the memory it was read into.
HandleData(h, r) ==
    LET c == CopyRemaining(h, r, r.got - Whole(r))
    IN  [heap |-> c.heap,
         r |-> IF Whole(r) = r.got - r.mark THEN [c.r EXCEPT !.op = "read"]
               ELSE [c.r EXCEPT !.op = "write",
                                !.w = [data |-> r.rd.data, to |-> Whole(r)]]]

Aborted(r) == [r EXCEPT !.op = IF @ = "none" THEN "none" ELSE "failed"]

\* A read: into a new buffer unless there is a part of a frame, then behind it.
ReadSome(h, r, n) ==
    LET a == IF r.mark = 0 THEN AcquireBuffer(h, r.rd, n)
             ELSE [heap |-> h, handle |-> r.rd]
        q == [r EXCEPT !.rd = a.handle, !.got = @ + n, !.mark = @ + n]
    IN  [heap |-> [a.heap EXCEPT !.mem[a.handle.data] = Octets(q.got - q.mark, q.got)],
         r |-> q]

\* The handler of readData: a read of what fits into the buffer, and handleData.  A
\* frame that is too large throws, and the session is disconnected.
ReadData(f, n) ==
    /\ open /\ flow[f].op = "read"
    /\ LET s == ReadSome(heap, flow[f], n)
           d == HandleData(s.heap, s.r)
       IN  /\ s.r.mark <= s.r.rd.size
           /\ IF TooLarge(s.r)
              THEN /\ SetHeap(s.heap)
                   /\ open' = FALSE
                   /\ flow' = [g \in Flows |->
                                  IF g = f THEN [s.r EXCEPT !.op = "none"]
                                  ELSE Aborted(flow[g])]
              ELSE /\ SetHeap(d.heap)
                   /\ flow' = [flow EXCEPT ![f] = d.r]
                   /\ UNCHANGED open

\* What the handler of a write begins with.
ReleaseBuffers(h, r) ==
    IF r.mark # 0 THEN [heap |-> h, r |-> r]
    ELSE [heap |-> Release(Release(h, r.rd), r.wr),
          r |-> [r EXCEPT !.rd = NoHandle, !.wr = NoHandle]]

\* The handler of handleWriteData: the octets went out, and the next are read.
WriteData(f) ==
    /\ open /\ flow[f].op = "write"
    /\ LET b == ReleaseBuffers(heap, flow[f])
       IN  /\ SetHeap(b.heap)
           /\ flow' = [flow EXCEPT ![f] = [b.r EXCEPT !.op = "read", !.w = NoWrite,
                                                      !.out = flow[f].w.to]]
    /\ UNCHANGED open

\* The session ends, by whoever.
Disconnect ==
    /\ open /\ open' = FALSE
    /\ flow' = [f \in Flows |-> Aborted(flow[f])]
    /\ UNCHANGED <<pool, live, mem>>

\* The handler of an operation that failed.
OperationFailed(f) ==
    /\ flow[f].op = "failed"
    /\ LET b == IF flow[f].w.data = Null THEN [heap |-> heap, r |-> flow[f]]
                ELSE ReleaseBuffers(heap, flow[f])
       IN  /\ SetHeap(b.heap)
           /\ flow' = [flow EXCEPT ![f] = [b.r EXCEPT !.op = "none", !.w = NoWrite]]
    /\ UNCHANGED open

NewFlow == [ends |-> {0}, got |-> 0, mark |-> 0, rd |-> NoHandle,
            wr |-> NoHandle, op |-> "read", w |-> NoWrite, out |-> 0]

\* The handles of the session, each a flow and which of its two, and their memory.
Handles == Flows \X {"rd", "wr"}
DataOf(h) == IF h[2] = "rd" THEN flow[h[1]].rd.data ELSE flow[h[1]].wr.data

\* BufferHandle::~BufferHandle of all of them: what Release does to each.
ReleaseAll ==
    [live |-> live \ {DataOf(h) : h \in Handles}, mem |-> mem,
     pool |-> [src \in Sources |->
                 IF src = Heap THEN pool[src]
                 ELSE [pool[src] EXCEPT !.dealloc = @ + Cardinality(
                         {h \in Handles : DataOf(h) # Null /\ DataOf(h)[1] = src})]]]

\* The last handler of a session that ended lets go of it, and the destructors of
\* its handles run.
Destroy ==
    /\ ~open /\ \A f \in Flows : flow[f].op = "none"
    /\ SetHeap(ReleaseAll)
    /\ flow' = [f \in Flows |-> [NewFlow EXCEPT !.op = "none"]]
    /\ UNCHANGED open

PeerSends(f, n) ==
    /\ open /\ Cardinality(flow[f].ends) <= MaxFrames
    /\ flow' = [flow EXCEPT ![f].ends = @ \cup {Sent(flow[f]) + n}]
    /\ UNCHANGED <<pool, live, mem, open>>

-----------------------------------------------------------------------------
Init ==
    /\ flow = [f \in Flows |-> NewFlow]
    /\ pool = [b \in Sources |-> [alloc |-> 0, dealloc |-> 0, high |-> 0]]
    /\ live = {} /\ mem = [m \in Memory |-> Octets(0, 0)] /\ open = TRUE

Next ==
    \/ \E f \in Flows :
          \/ \E n \in 1..(Sent(flow[f]) - flow[f].got) : ReadData(f, n)
          \/ WriteData(f) \/ OperationFailed(f)
          \/ \E n \in FrameSizes : PeerSends(f, n)
    \/ Disconnect \/ Destroy

Spec == Init /\ [][Next]_vars

-----------------------------------------------------------------------------
TypeOK ==
    /\ flow \in [Flows -> FlowRecord]
    /\ live \subseteq Memory

\* What is written to the other side is whole frames, each octet once and in
\* order: while a write is pending its memory is held by a handle of its flow and
\* holds just the octets that follow those written before, although reads and
\* copyRemaining acquire and release buffers meanwhile.
WritesIntact ==
    \A f \in Flows :
        /\ flow[f].out \in flow[f].ends
        /\ flow[f].op = "write" =>
              /\ flow[f].w.data \in {flow[f].rd.data, flow[f].wr.data} \cap live
              /\ flow[f].w.to \in flow[f].ends
              /\ mem[flow[f].w.data].from = flow[f].out
              /\ mem[flow[f].w.data].to >= flow[f].w.to

\* A read always has room in its buffer, and finds the beginning of the frame
\* there: otherwise read_some would be asked for nothing and the session would
\* never come to the end of the frame.
ReadHasRoom ==
    \A f \in Flows :
        flow[f].op = "read" /\ flow[f].mark > 0 =>
            /\ flow[f].mark < flow[f].rd.size
            /\ mem[flow[f].rd.data] = Octets(flow[f].out, flow[f].got)
            /\ flow[f].got - flow[f].mark = flow[f].out

\* The pool loses no buffer and gives none out twice: each piece of memory handed
\* out is in one handle, the statistics count them, and the high watermark is
\* never below them.
PoolAccounted ==
    /\ \A g, h \in Handles : DataOf(g) = DataOf(h) => g = h \/ DataOf(g) = Null
    /\ live = {DataOf(h) : h \in Handles} \ {Null}
    /\ \A b \in Buckets :
          LET s == GetPoolStatistics(pool, b)
          IN  /\ s.current = Cardinality({m \in live : m[1] = b})
              /\ s.current <= s.high

=============================================================================
