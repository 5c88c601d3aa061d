--------------------------- MODULE DataRateProofs ---------------------------
(***************************************************************************)
(* Proofs that reading goes on, that no more than the quota is read, and   *)
(* that the limits reach the session, for every value of the constants.    *)
(***************************************************************************)
EXTENDS DataRate, TLAPS

-----------------------------------------------------------------------------
(* The queue of asio.                                                      *)

\* Handler h is in the queue q.
Contains(q, h) == h \in Range(q)

\* The handlers with which the session goes on: one of them at most is queued.
Work == {"readable", "written", "read"}
AtWork(q) == \E h \in Work : Contains(q, h)
Single(q) == \A i, j \in DOMAIN q : q[i] \in Work /\ q[j] \in Work => i = j

\* What is queued when a handler is put behind the others.
LEMMA Appended ==
    ASSUME NEW q \in Seq(Ready), NEW x \in Ready
    PROVE  /\ Append(q, x) \in Seq(Ready)
           /\ \A h : Contains(Append(q, x), h) <=> Contains(q, h) \/ h = x
           /\ AtWork(Append(q, x)) <=> AtWork(q) \/ x \in Work
           /\ Single(q) /\ ~(x \in Work /\ AtWork(q)) => Single(Append(q, x))
<1>. DEFINE r == Append(q, x)
<1>1. /\ r \in Seq(Ready) /\ Len(r) = Len(q) + 1 /\ r[Len(q) + 1] = x
      /\ \A i \in 1..Len(q) : r[i] = q[i]
      /\ Len(q) \in Nat /\ DOMAIN r = 1..Len(r) /\ DOMAIN q = 1..Len(q)
  OBVIOUS
<1>. HIDE DEF r
<1>2. \A h : Contains(r, h) <=> Contains(q, h) \/ h = x
  BY <1>1 DEF Contains, Range
<1>3. AtWork(r) <=> AtWork(q) \/ x \in Work
  BY <1>2, Zenon DEF AtWork
<1>4. ASSUME Single(q), ~(x \in Work /\ AtWork(q)) PROVE Single(r)
  <2>. SUFFICES ASSUME NEW i \in DOMAIN r, NEW j \in DOMAIN r,
                       r[i] \in Work, r[j] \in Work
                PROVE  i = j
    BY DEF Single
  <2>1. CASE i \in 1..Len(q) /\ j \in 1..Len(q)
    BY <1>1, <1>4, <2>1 DEF Single
  <2>2. CASE i = Len(q) + 1 /\ j = Len(q) + 1
    BY <2>2
  <2>3. ASSUME NEW m \in 1..Len(q), q[m] \in Work, x \in Work PROVE FALSE
    BY <1>4, <2>3 DEF AtWork, Contains, Range
  <2>4. (i \in 1..Len(q) \/ i = Len(q) + 1) /\ (j \in 1..Len(q) \/ j = Len(q) + 1)
    BY <1>1
  <2>. QED  BY <1>1, <2>1, <2>2, <2>3, <2>4, Zenon
<1>. QED  BY <1>1, <1>2, <1>3, <1>4, Zenon DEF r

\* What is queued when a handler is run.
LEMMA Tailed ==
    ASSUME NEW q \in Seq(Ready), q # <<>>
    PROVE  /\ Tail(q) \in Seq(Ready) /\ Head(q) \in Ready
           /\ \A h : Contains(q, h) <=> Contains(Tail(q), h) \/ h = Head(q)
           /\ AtWork(q) <=> AtWork(Tail(q)) \/ Head(q) \in Work
           /\ Single(q) => Single(Tail(q))
           /\ Single(q) /\ Head(q) \in Work => ~AtWork(Tail(q))
<1>. DEFINE r == Tail(q)
            x == Head(q)
<1>1. /\ r \in Seq(Ready) /\ x \in Ready /\ Len(r) = Len(q) - 1 /\ q[1] = x
      /\ \A i \in 1..Len(r) : r[i] = q[i + 1]
      /\ Len(q) \in Nat /\ Len(q) > 0
      /\ DOMAIN r = 1..Len(r) /\ DOMAIN q = 1..Len(q)
  OBVIOUS
<1>. HIDE DEF r, x
<1>2. ASSUME NEW h PROVE Contains(q, h) <=> Contains(r, h) \/ h = x
  <2>1. ASSUME NEW i \in 1..Len(q), q[i] = h, h # x PROVE Contains(r, h)
    <3>1. i - 1 \in 1..Len(r) /\ r[i - 1] = h
      BY <1>1, <2>1
    <3>. QED  BY <3>1 DEF Contains, Range
  <2>2. ASSUME NEW i \in 1..Len(r), r[i] = h PROVE Contains(q, h)
    <3>1. i + 1 \in 1..Len(q) /\ q[i + 1] = h
      BY <1>1, <2>2
    <3>. QED  BY <3>1 DEF Contains, Range
  <2>3. 1 \in 1..Len(q)
    BY <1>1
  <2>. QED  BY <1>1, <2>1, <2>2, <2>3, Zenon DEF Contains, Range
<1>3. AtWork(q) <=> AtWork(r) \/ x \in Work
  BY <1>2, Zenon DEF AtWork
<1>4. ASSUME Single(q) PROVE Single(r)
  <2>. SUFFICES ASSUME NEW i \in DOMAIN r, NEW j \in DOMAIN r,
                       r[i] \in Work, r[j] \in Work
                PROVE  i = j
    BY DEF Single
  <2>1. i + 1 \in DOMAIN q /\ j + 1 \in DOMAIN q /\ q[i + 1] = r[i] /\ q[j + 1] = r[j]
    BY <1>1
  <2>2. i + 1 = j + 1
    BY <1>4, <2>1, Zenon DEF Single
  <2>. QED  BY <1>1, <2>2
<1>5. ASSUME Single(q), x \in Work, AtWork(r) PROVE FALSE
  <2>1. PICK i \in 1..Len(r) : r[i] \in Work
    BY <1>5 DEF AtWork, Contains, Range
  <2>2. i + 1 \in DOMAIN q /\ 1 \in DOMAIN q /\ q[i + 1] \in Work /\ q[1] \in Work
    BY <1>1, <1>5, <2>1
  <2>3. i + 1 = 1
    BY <1>5, <2>2, Zenon DEF Single
  <2>. QED  BY <1>1, <2>3
<1>. QED  BY <1>1, <1>2, <1>3, <1>4, <1>5, Zenon DEF r, x

-----------------------------------------------------------------------------
(* Numbers.                                                                *)

\* The smaller and the larger of two numbers.
LEMMA MinMax ==
    ASSUME NEW m \in Int, NEW n \in Int
    PROVE  /\ Min({m, n}) = IF m <= n THEN m ELSE n
           /\ Max({m, n}) = IF m <= n THEN n ELSE m
<1>1. \E x \in {m, n} : \A y \in {m, n} : x <= y
  <2>1. CASE m <= n  BY <2>1
  <2>2. CASE ~(m <= n)  BY <2>2
  <2>. QED  BY <2>1, <2>2
<1>2. \E x \in {m, n} : \A y \in {m, n} : x >= y
  <2>1. CASE m <= n  BY <2>1
  <2>2. CASE ~(m <= n)  BY <2>2
  <2>. QED  BY <2>1, <2>2
<1>3. Min({m, n}) \in {m, n} /\ \A y \in {m, n} : Min({m, n}) <= y
  BY <1>1 DEF Min
<1>4. Max({m, n}) \in {m, n} /\ \A y \in {m, n} : Max({m, n}) >= y
  BY <1>2 DEF Max
<1>. QED  BY <1>3, <1>4

\* DataRateLimit and its quota.
LimitType == [quota : Quota, left : 0..Unlimited]

\* Every quota that can be set is a number up to the one that means no limit.
LEMMA QuotaTypes ==
    /\ \A x \in Quota : x \in 0..Unlimited /\ x \in Nat /\ x \in Int
    /\ \A x \in 0..Unlimited : x \in Nat /\ x \in Int
    /\ \A x \in 0..MaxUsed : x \in Nat
    /\ Unlimited \in Nat /\ 0 \in 0..MaxUsed
BY DataRateAssumption DEF Quota

\* recordUsage keeps the quota, and counts what is read against what is left of it.
LEMMA RecordUsageEffect ==
    ASSUME NEW l \in LimitType, NEW n \in Nat
    PROVE  /\ RecordUsage(l, n) \in LimitType /\ RecordUsage(l, n).quota = l.quota
           /\ l.quota # Unlimited /\ RecordUsage(l, n).left > 0
                => RecordUsage(l, n).left + n <= l.left
<1>. DEFINE m == Min({l.quota, l.left})
            k == Min({m, n})
            x == m - k
<1>1. /\ l.quota \in Quota /\ l.left \in 0..Unlimited
      /\ l.quota \in 0..Unlimited /\ l.quota \in Int /\ l.left \in Int /\ n \in Int
      /\ Unlimited \in Nat
  <2>1. l.quota \in Quota /\ l.left \in 0..Unlimited
    BY Zenon DEF LimitType
  <2>2. n \in Int
    OBVIOUS
  <2>. QED  BY <2>1, <2>2, QuotaTypes, Zenon
<1>2. m = IF l.quota <= l.left THEN l.quota ELSE l.left
  BY <1>1, MinMax, Zenon
<1>3. m \in Int /\ m \in 0..Unlimited /\ m <= l.left
  BY <1>1, <1>2
<1>. HIDE DEF m
<1>4. k = IF m <= n THEN m ELSE n
  BY <1>1, <1>3, MinMax, Zenon
<1>5. x \in 0..Unlimited /\ (x > 0 => x + n <= l.left)
  BY <1>1, <1>3, <1>4
<1>6. RecordUsage(l, n) = IF l.quota = Unlimited THEN l ELSE [l EXCEPT !.left = x]
  BY Zenon DEF RecordUsage, m, k
<1>. HIDE DEF x
<1>7. [l EXCEPT !.left = x] \in LimitType /\ [l EXCEPT !.left = x].quota = l.quota
      /\ [l EXCEPT !.left = x].left = x
  BY <1>5, Zenon DEF LimitType
<1>. QED  BY <1>5, <1>6, <1>7, Zenon

\* DataRateLimit::onTimer.
LEMMA RenewEffect ==
    ASSUME NEW l \in LimitType
    PROVE  /\ Renew(l) \in LimitType /\ Renew(l).quota = l.quota
           /\ Renew(l).left = l.quota
<1>1. l.quota \in Quota /\ l.quota \in 0..Unlimited
  BY QuotaTypes, Zenon DEF LimitType
<1>. QED  BY <1>1, Zenon DEF LimitType, Renew

-----------------------------------------------------------------------------
(* The adaptor.                                                            *)

\* Once started, the timer never stops while there is an adaptor.
Timed(t) ==
    t.alive /\ t.started =>
        t.wait # "none" \/ Contains(t.queue, "refresh") \/ Contains(t.queue, "read")

\* An open session waits for a read or a write, or its handler is on the way.
Waiting(t) == t.io # "none" \/ t.wait = "read" \/ AtWork(t.queue)
GoesOn(t) == t.open /\ ~t.lost => Waiting(t)

\* It never waits for two of them.
Exclusive(t) ==
    /\ Single(t.queue)
    /\ t.io = "none" \/ ~(t.wait = "read" \/ AtWork(t.queue))
    /\ ~(t.wait = "read" /\ AtWork(t.queue))

\* The bytes that were read since the quota was renewed: what is left of the quota
\* was not read, and a read is begun only when there is something left of it, or
\* when the quota was just renewed.
Limited(t) == t.started /\ t.cap # Unlimited
AtLeastOne(n) == Max({n, 1})
Counted(t) ==
    Limited(t) => /\ t.used < AtLeastOne(t.cap) + MaxRead
                  /\ t.limit.left > 0 => t.used + t.limit.left <= t.cap
MayRead(t) ==
    Limited(t) /\ (t.io = "reading" \/ Contains(t.queue, "readable"))
        => t.used < AtLeastOne(t.cap)
Capped(t) == t.limit.quota = Unlimited => t.cap = Unlimited

\* What no operation of the adaptor changes.
Same(t, u) ==
    /\ u.limit.quota = t.limit.quota /\ u.alarm.quota = t.alarm.quota
    /\ u.open = t.open /\ u.alive = t.alive

\* The fields of an adaptor have their types.
LEMMA AdaptorFields ==
    ASSUME NEW t \in AdaptorType
    PROVE  /\ t.limit \in LimitType /\ t.alarm \in LimitType
           /\ t.alarmed \in BOOLEAN /\ t.started \in BOOLEAN /\ t.open \in BOOLEAN
           /\ t.alive \in BOOLEAN /\ t.wait \in {"none", "refresh", "read"}
           /\ t.expired \in BOOLEAN /\ t.queue \in Seq(Ready)
           /\ t.io \in {"reading", "writing", "none"}
           /\ t.used \in 0..MaxUsed /\ t.cap \in Quota /\ t.lost \in BOOLEAN
           /\ t.limit.quota \in Quota /\ t.limit.left \in 0..Unlimited
BY Zenon DEF AdaptorType, LimitType

\* The bytes of an adaptor are numbers.
LEMMA AdaptorNumbers ==
    ASSUME NEW t \in AdaptorType
    PROVE  /\ t.used \in Nat /\ t.cap \in Nat /\ t.limit.left \in Nat
           /\ t.limit.quota \in Nat /\ AtLeastOne(t.cap) \in Nat \ {0}
           /\ AtLeastOne(t.cap) >= t.cap
<1>1. t.used \in 0..MaxUsed /\ t.cap \in Quota /\ t.limit.quota \in Quota
      /\ t.limit.left \in 0..Unlimited
  BY AdaptorFields, Zenon
<1>2. t.used \in Nat /\ t.cap \in Nat /\ t.limit.quota \in Nat /\ t.limit.left \in Nat
  BY <1>1, QuotaTypes, Zenon
<1>3. AtLeastOne(t.cap) = IF t.cap <= 1 THEN 1 ELSE t.cap
  <2>1. t.cap \in Int /\ 1 \in Int
    BY <1>2
  <2>. QED  BY <2>1, MinMax, Zenon DEF AtLeastOne
<1>. QED  BY <1>2, <1>3

\* cancel(): the wait becomes a handler that does nothing.
LEMMA CancelEffect ==
    ASSUME NEW t \in AdaptorType
    PROVE  LET u == Cancel(t)
           IN  /\ u.queue \in Seq(Ready)
               /\ \A h \in Work \cup {"refresh"} :
                     Contains(u.queue, h) <=> Contains(t.queue, h)
               /\ AtWork(u.queue) <=> AtWork(t.queue)
               /\ Single(t.queue) => Single(u.queue)
               /\ u = [t EXCEPT !.wait = "none", !.queue = u.queue]
<1>. DEFINE q == IF t.wait = "none" THEN t.queue
                 ELSE Append(t.queue, AbortedWait[t.wait])
            u == [t EXCEPT !.wait = "none", !.queue = q]
<1>1. t.queue \in Seq(Ready) /\ t.wait \in {"none", "refresh", "read"}
  BY AdaptorFields, Zenon
<1>2. Cancel(t) = u
  BY DEF Cancel
<1>3. t.wait # "none" => /\ AbortedWait[t.wait] \in Ready
                         /\ AbortedWait[t.wait] \notin Work \cup {"refresh"}
  <2>1. AbortedWait["refresh"] = "refresh aborted" /\ AbortedWait["read"] = "read aborted"
    BY DEF AbortedWait
  <2>2. {"refresh aborted", "read aborted"} \subseteq Ready \ (Work \cup {"refresh"})
    BY DEF Ready, Work
  <2>. QED  BY <1>1, <2>1, <2>2, Zenon
<1>4. u.queue = q
  BY Zenon DEF AdaptorType
<1>5. u = [t EXCEPT !.wait = "none", !.queue = u.queue]
  BY <1>4, Zenon
<1>. HIDE DEF u
<1>6. /\ q \in Seq(Ready)
      /\ \A h \in Work \cup {"refresh"} : Contains(q, h) <=> Contains(t.queue, h)
      /\ AtWork(q) <=> AtWork(t.queue)
      /\ Single(t.queue) => Single(q)
  <2>1. CASE t.wait = "none"
    BY <1>1, <2>1, Zenon
  <2>2. CASE t.wait # "none"
    BY <1>1, <1>3, <2>2, Appended, ZenonT(40)
  <2>. QED  BY <2>1, <2>2, Zenon
<1>. QED  BY <1>2, <1>4, <1>5, <1>6, Zenon

\* onTimer: the quotas are renewed, the timer goes on, and a read that waited in it
\* is lost.
LEMMA OnTimerEffect ==
    ASSUME NEW t \in AdaptorType
    PROVE  LET u == OnTimer(t)
           IN  /\ u \in AdaptorType /\ Same(t, u) /\ u.io = t.io
               /\ u.wait = "refresh" /\ u.started = TRUE
               /\ u.used = 0 /\ u.cap = u.limit.quota /\ u.limit.left = u.limit.quota
               /\ u.lost = (t.lost \/ t.wait = "read")
               /\ \A h \in Work : Contains(u.queue, h) <=> Contains(t.queue, h)
               /\ AtWork(u.queue) <=> AtWork(t.queue)
               /\ Single(t.queue) => Single(u.queue)
<1>. DEFINE c == Cancel(t)
            lost == t.lost \/ t.wait = "read"
            u == [c EXCEPT !.limit = Renew(@), !.alarm = Renew(@), !.alarmed = FALSE,
                           !.expired = FALSE, !.wait = "refresh", !.started = TRUE,
                           !.used = 0, !.cap = t.limit.quota, !.lost = lost]
            v == [t EXCEPT !.limit = Renew(@), !.alarm = Renew(@), !.alarmed = FALSE,
                           !.expired = FALSE, !.wait = "refresh", !.started = TRUE,
                           !.used = 0, !.cap = t.limit.quota, !.lost = lost,
                           !.queue = c.queue]
<1>1. /\ c.queue \in Seq(Ready)
      /\ \A h \in Work : Contains(c.queue, h) <=> Contains(t.queue, h)
      /\ AtWork(c.queue) <=> AtWork(t.queue)
      /\ Single(t.queue) => Single(c.queue)
      /\ c = [t EXCEPT !.wait = "none", !.queue = c.queue]
  BY CancelEffect, Zenon
<1>. HIDE DEF c
<1>2. /\ c.limit = t.limit /\ c.alarm = t.alarm /\ c.lost = t.lost
      /\ c.open = t.open /\ c.alive = t.alive /\ c.io = t.io
      /\ c \in AdaptorType
  BY <1>1, Zenon DEF AdaptorType
<1>3. OnTimer(t) = u
  BY <1>2, Zenon DEF OnTimer, AdaptorType, c
<1>4. /\ t.limit \in LimitType /\ t.alarm \in LimitType /\ t.limit.quota \in Quota
      /\ 0 \in 0..MaxUsed
  BY AdaptorFields, DataRateAssumption
<1>5. /\ Renew(t.limit) \in LimitType /\ Renew(t.alarm) \in LimitType
      /\ Renew(t.limit).quota = t.limit.quota /\ Renew(t.alarm).quota = t.alarm.quota
      /\ Renew(t.limit).left = t.limit.quota
  BY <1>4, RenewEffect, Zenon
<1>6. /\ u.limit = Renew(t.limit) /\ u.alarm = Renew(t.alarm) /\ u.io = t.io
      /\ u.open = t.open /\ u.alive = t.alive /\ u.wait = "refresh"
      /\ u.started = TRUE /\ u.used = 0 /\ u.cap = t.limit.quota /\ u.lost = lost
      /\ u.queue = c.queue
  BY <1>2, Zenon DEF AdaptorType
<1>7. u \in AdaptorType
  <2>1. lost \in BOOLEAN
    OBVIOUS
  <2>. HIDE DEF lost
  <2>. QED  BY <1>2, <1>4, <1>5, <2>1, ZenonT(40) DEF AdaptorType, LimitType
<1>. HIDE DEF u
<1>8. Same(t, u) /\ u.limit.left = u.limit.quota /\ u.cap = u.limit.quota
  BY <1>5, <1>6, Zenon DEF Same
<1>. QED  BY <1>1, <1>3, <1>6, <1>7, <1>8, Zenon

\* What an adaptor promises between two operations.
Sound(t) ==
    /\ t \in AdaptorType /\ Timed(t) /\ Exclusive(t)
    /\ Counted(t) /\ MayRead(t) /\ Capped(t)

\* A second begins with nothing read.
LEMMA OnTimerSound ==
    ASSUME NEW t \in AdaptorType, Exclusive(t)
    PROVE  LET u == OnTimer(t)
           IN  /\ Sound(u) /\ Same(t, u) /\ u.used = 0
               /\ GoesOn(t) => GoesOn(u)
               /\ ~Waiting(t) => ~Waiting(u)
<1>. DEFINE u == OnTimer(t)
<1>1. /\ u \in AdaptorType /\ Same(t, u) /\ u.io = t.io
      /\ u.wait = "refresh" /\ u.started = TRUE
      /\ u.used = 0 /\ u.cap = u.limit.quota /\ u.limit.left = u.limit.quota
      /\ u.lost = (t.lost \/ t.wait = "read")
      /\ AtWork(u.queue) <=> AtWork(t.queue)
      /\ Single(t.queue) => Single(u.queue)
  BY OnTimerEffect, Zenon
<1>. HIDE DEF u
<1>2. "refresh" # "none" /\ "refresh" # "read"
  OBVIOUS
<1>3. Timed(u) /\ Capped(u)
  BY <1>1, <1>2, Zenon DEF Timed, Capped
<1>4. Exclusive(u)
  BY <1>1, <1>2, Zenon DEF Exclusive
<1>5. Counted(u) /\ MayRead(u)
  <2>1. /\ u.used \in Nat /\ u.cap \in Nat /\ u.limit.left \in Nat
        /\ AtLeastOne(u.cap) \in Nat \ {0} /\ MaxRead \in Nat
    BY <1>1, AdaptorNumbers, DataRateAssumption
  <2>2. /\ u.used < AtLeastOne(u.cap) + MaxRead
        /\ u.used + u.limit.left <= u.cap
        /\ u.used < AtLeastOne(u.cap)
    BY <1>1, <2>1
  <2>. QED  BY <2>2, Zenon DEF Counted, MayRead
<1>6. (GoesOn(t) => GoesOn(u)) /\ (~Waiting(t) => ~Waiting(u))
  BY <1>1, <1>2, Zenon DEF GoesOn, Waiting, Same
<1>. QED  BY <1>1, <1>3, <1>4, <1>5, <1>6, Zenon DEF Sound, u

\* The alarm only logs, or begins a second.
LEMMA CheckAlarmSound ==
    ASSUME NEW t, Sound(t), ~Waiting(t)
    PROVE  LET u == CheckAlarm(t)
           IN  Sound(u) /\ Same(t, u) /\ ~Waiting(u)
<1>. DEFINE x == [t EXCEPT !.alarmed = TRUE]
<1>1. t \in AdaptorType /\ Exclusive(t)
  BY Zenon DEF Sound
<1>2. CheckAlarm(t) \in {t, x, OnTimer(t)}
  BY Zenon DEF CheckAlarm
<1>3. /\ x \in AdaptorType /\ x.limit = t.limit /\ x.alarm = t.alarm
      /\ x.started = t.started /\ x.open = t.open /\ x.alive = t.alive
      /\ x.wait = t.wait /\ x.queue = t.queue /\ x.io = t.io
      /\ x.used = t.used /\ x.cap = t.cap /\ x.lost = t.lost
  BY <1>1, Zenon DEF AdaptorType
<1>. HIDE DEF x
<1>4. Sound(x) /\ Same(t, x) /\ ~Waiting(x)
  BY <1>3, Zenon DEF Sound, Same, Waiting, Timed, Exclusive, Counted, Limited,
     MayRead, Capped
<1>5. Same(t, t)
  BY Zenon DEF Same
<1>6. LET u == OnTimer(t) IN Sound(u) /\ Same(t, u) /\ ~Waiting(u)
  BY <1>1, OnTimerSound, Zenon
<1>. QED  BY <1>2, <1>4, <1>5, <1>6, Zenon

\* A read is begun, or fails at once because the socket is closed.
LEMMA ReadSound ==
    ASSUME NEW t, Sound(t), ~Waiting(t), Limited(t) => t.used < AtLeastOne(t.cap)
    PROVE  LET u == Read(t)
           IN  Sound(u) /\ Same(t, u) /\ GoesOn(u)
<1>. DEFINE x == [t EXCEPT !.io = "reading"]
            q == Append(t.queue, "closed")
            y == [t EXCEPT !.queue = q]
<1>0. t \in AdaptorType
  BY Zenon DEF Sound
<1>1. /\ t.queue \in Seq(Ready) /\ t.open \in BOOLEAN
      /\ "closed" \in Ready /\ "closed" \notin Work \cup {"refresh"}
      /\ "reading" # "none"
  <2>1. "closed" \in Ready /\ "closed" \notin Work \cup {"refresh"}
    BY DEF Ready, Work
  <2>. QED  BY <1>0, <2>1, AdaptorFields
<1>2. Read(t) = IF t.open THEN x ELSE y
  BY <1>0, Zenon DEF Read, AdaptorType
<1>3. /\ q \in Seq(Ready)
      /\ \A h \in Work \cup {"refresh"} : Contains(q, h) <=> Contains(t.queue, h)
      /\ AtWork(q) <=> AtWork(t.queue)
      /\ Single(t.queue) => Single(q)
  BY <1>1, Appended, Zenon
<1>. HIDE DEF q
<1>4. /\ x \in AdaptorType /\ x.limit = t.limit /\ x.alarm = t.alarm
      /\ x.started = t.started /\ x.open = t.open /\ x.alive = t.alive
      /\ x.wait = t.wait /\ x.queue = t.queue /\ x.io = "reading"
      /\ x.used = t.used /\ x.cap = t.cap /\ x.lost = t.lost
  BY <1>0, Zenon DEF AdaptorType
<1>5. /\ y \in AdaptorType /\ y.limit = t.limit /\ y.alarm = t.alarm
      /\ y.started = t.started /\ y.open = t.open /\ y.alive = t.alive
      /\ y.wait = t.wait /\ y.queue = q /\ y.io = t.io
      /\ y.used = t.used /\ y.cap = t.cap /\ y.lost = t.lost
  BY <1>0, <1>3, Zenon DEF AdaptorType
<1>. HIDE DEF x, y
<1>6. Same(t, x) /\ GoesOn(x) /\ Same(t, y) /\ (~t.open => GoesOn(y))
  BY <1>1, <1>4, <1>5, Zenon DEF Same, GoesOn, Waiting
<1>7. Timed(x) /\ Exclusive(x) /\ Counted(x) /\ MayRead(x) /\ Capped(x)
  BY <1>4, Zenon DEF Sound, Waiting, Timed, Exclusive, Counted, Limited, MayRead, Capped
<1>8. "readable" \in Work /\ "read" \in Work
  BY DEF Work
<1>9. Timed(y) /\ Exclusive(y) /\ Counted(y) /\ MayRead(y) /\ Capped(y)
  BY <1>3, <1>5, <1>8, Zenon
     DEF Sound, Waiting, Timed, Exclusive, Counted, Limited, MayRead, Capped
<1>. QED  BY <1>1, <1>2, <1>4, <1>5, <1>6, <1>7, <1>9, Zenon DEF Sound

\* async_read_some, with nothing else under way: the read is begun when there is
\* something left of the quota, waits for the timer, or begins a second.
LEMMA AsyncReadSomeSound ==
    ASSUME NEW t, Sound(t), ~Waiting(t)
    PROVE  LET u == AsyncReadSome(t)
           IN  Sound(u) /\ Same(t, u) /\ GoesOn(u)
<1>. DEFINE u == CheckAlarm(t)
            c == Cancel(u)
            w == [c EXCEPT !.wait = "read"]
<1>1. Sound(u) /\ Same(t, u) /\ ~Waiting(u)
  BY CheckAlarmSound, Zenon
<1>2. AsyncReadSome(t) = IF u.limit.left # 0 THEN Read(u)
                         ELSE IF u.started THEN w ELSE Read(OnTimer(u))
  BY Zenon DEF AsyncReadSome
<1>. HIDE DEF u
<1>3. u \in AdaptorType /\ Exclusive(u)
  BY <1>1, Zenon DEF Sound
<1>4. CASE u.limit.left # 0
  <2>1. /\ u.used \in Nat /\ u.cap \in Nat /\ u.limit.left \in Nat
        /\ AtLeastOne(u.cap) \in Nat \ {0} /\ AtLeastOne(u.cap) >= u.cap
    BY <1>3, AdaptorNumbers
  <2>2. Limited(u) /\ u.limit.left > 0 => u.used + u.limit.left <= u.cap
    BY <1>1, Zenon DEF Sound, Counted
  <2>3. Limited(u) => u.used < AtLeastOne(u.cap)
    BY <1>4, <2>1, <2>2
  <2>4. LET v == Read(u) IN Sound(v) /\ Same(u, v) /\ GoesOn(v)
    BY <1>1, <2>3, ReadSound, Zenon
  <2>. QED  BY <1>1, <1>2, <1>4, <2>4, Zenon DEF Same
<1>5. CASE ~(u.limit.left # 0) /\ u.started
  <2>1. /\ c.queue \in Seq(Ready)
        /\ \A h \in Work \cup {"refresh"} : Contains(c.queue, h) <=> Contains(u.queue, h)
        /\ AtWork(c.queue) <=> AtWork(u.queue)
        /\ Single(u.queue) => Single(c.queue)
        /\ c = [u EXCEPT !.wait = "none", !.queue = c.queue]
    BY <1>3, CancelEffect, Zenon
  <2>. HIDE DEF c
  <2>2. /\ c \in AdaptorType /\ c.limit = u.limit /\ c.alarm = u.alarm
        /\ c.started = u.started /\ c.open = u.open /\ c.alive = u.alive
        /\ c.io = u.io /\ c.used = u.used /\ c.cap = u.cap /\ c.lost = u.lost
    BY <1>3, <2>1, Zenon DEF AdaptorType
  <2>3. /\ w \in AdaptorType /\ w.limit = u.limit /\ w.alarm = u.alarm
        /\ w.started = u.started /\ w.open = u.open /\ w.alive = u.alive
        /\ w.io = u.io /\ w.used = u.used /\ w.cap = u.cap /\ w.lost = u.lost
        /\ w.wait = "read" /\ w.queue = c.queue
    BY <2>2, Zenon DEF AdaptorType
  <2>. HIDE DEF w
  <2>4. "readable" \in Work /\ "read" # "none" /\ "reading" # "none"
    BY DEF Work
  <2>5. Timed(w) /\ Exclusive(w) /\ Counted(w) /\ MayRead(w) /\ Capped(w)
    BY <1>1, <2>1, <2>3, <2>4, Zenon
       DEF Sound, Waiting, Timed, Exclusive, Counted, Limited, MayRead, Capped
  <2>6. Same(t, w) /\ GoesOn(w)
    BY <1>1, <2>3, Zenon DEF Same, GoesOn, Waiting
  <2>. QED  BY <1>2, <1>5, <2>3, <2>5, <2>6, Zenon DEF Sound
<1>6. CASE ~(u.limit.left # 0) /\ ~u.started
  <2>. DEFINE n == OnTimer(u)
  <2>1. Sound(n) /\ Same(u, n) /\ n.used = 0 /\ ~Waiting(n)
    BY <1>1, <1>3, OnTimerSound, Zenon
  <2>. HIDE DEF n
  <2>2. Limited(n) => n.used < AtLeastOne(n.cap)
    <3>1. n \in AdaptorType
      BY <2>1, Zenon DEF Sound
    <3>2. AtLeastOne(n.cap) \in Nat \ {0}
      BY <3>1, AdaptorNumbers, Zenon
    <3>. QED  BY <2>1, <3>2
  <2>3. LET v == Read(n) IN Sound(v) /\ Same(n, v) /\ GoesOn(v)
    BY <2>1, <2>2, ReadSound, Zenon
  <2>4. AsyncReadSome(t) = Read(n)
    BY <1>2, <1>6, Zenon DEF n
  <2>. QED  BY <1>1, <2>1, <2>3, <2>4, Zenon DEF Same
<1>. QED  BY <1>4, <1>5, <1>6, Zenon

-----------------------------------------------------------------------------
(* The handlers.                                                           *)

\* While the io thread updates the limits, nothing else of the session is under way.
Busy == io.at \in {"read", "set"}
Ongoing == IF Busy THEN ~Waiting(a) ELSE GoesOn(a)

\* What a handler keeps: the quotas are left to the steps that set them.
Handled == Sound(a') /\ Same(a, a') /\ GoesOn(a')

\* A handler is taken off the queue.
LEMMA PoppedEffect ==
    ASSUME Sound(a), NEW h, Handle(h)
    PROVE  /\ Popped \in AdaptorType /\ Same(a, Popped) /\ Exclusive(Popped)
           /\ Counted(Popped) /\ Capped(Popped) /\ MayRead(Popped)
           /\ h \notin {"refresh", "read"} => Timed(Popped)
           /\ h \in Work => ~Waiting(Popped)
           /\ h \notin Work => (Waiting(Popped) <=> Waiting(a))
           /\ h = "readable" /\ Limited(a) => a.used < AtLeastOne(a.cap)
           /\ Popped.used = a.used /\ Popped.cap = a.cap /\ Popped.started = a.started
           /\ Popped.limit = a.limit /\ Popped.alarm = a.alarm
           /\ Popped.lost = a.lost
<1>. DEFINE p == [a EXCEPT !.queue = Tail(a.queue)]
            q == Tail(a.queue)
<1>0. a \in AdaptorType /\ a.queue \in Seq(Ready) /\ a.queue # <<>> /\ Head(a.queue) = h
  BY AdaptorFields, Zenon DEF Sound, Handle
<1>1. Popped = p
  BY <1>0, Zenon DEF Popped, AdaptorType
<1>2. /\ q \in Seq(Ready)
      /\ \A x : Contains(a.queue, x) <=> Contains(q, x) \/ x = h
      /\ AtWork(a.queue) <=> AtWork(q) \/ h \in Work
      /\ Single(a.queue) => Single(q)
      /\ Single(a.queue) /\ h \in Work => ~AtWork(q)
  BY <1>0, Tailed, Zenon
<1>3. /\ p \in AdaptorType /\ p.limit = a.limit /\ p.alarm = a.alarm
      /\ p.started = a.started /\ p.open = a.open /\ p.alive = a.alive
      /\ p.wait = a.wait /\ p.queue = q /\ p.io = a.io
      /\ p.used = a.used /\ p.cap = a.cap /\ p.lost = a.lost
  BY <1>0, <1>2, Zenon DEF AdaptorType
<1>. HIDE DEF p, q
<1>4. Exclusive(p) /\ Counted(p) /\ Capped(p) /\ MayRead(p)
  BY <1>2, <1>3, Zenon DEF Sound, Exclusive, Counted, Limited, MayRead, Capped
<1>5. h \notin {"refresh", "read"} => Timed(p)
  BY <1>2, <1>3, Zenon DEF Sound, Timed
<1>6. (h \in Work => ~Waiting(p)) /\ (h \notin Work => (Waiting(p) <=> Waiting(a)))
  BY <1>2, <1>3, Zenon DEF Sound, Exclusive, Waiting
<1>7. h = "readable" /\ Limited(a) => a.used < AtLeastOne(a.cap)
  BY <1>2, Zenon DEF Sound, MayRead
<1>. QED  BY <1>1, <1>3, <1>4, <1>5, <1>6, <1>7, Zenon DEF Same

\* The handlers of a write, of the timer and of cancelled operations.
LEMMA HandlersSound ==
    ASSUME Sound(a), GoesOn(a), Written \/ Refresh \/ ResumeRead \/ Aborted
    PROVE  Handled
<1>1. CASE Written
  <2>1. Handle("written") /\ a' = AsyncReadSome(Popped)
    BY <1>1, Zenon DEF Written
  <2>2. "written" \in Work /\ "written" \notin {"refresh", "read"}
    BY DEF Work
  <2>3. Sound(Popped) /\ ~Waiting(Popped) /\ Same(a, Popped)
    BY <2>1, <2>2, PoppedEffect, Zenon DEF Sound
  <2>. HIDE DEF Popped
  <2>. QED  BY <2>1, <2>3, AsyncReadSomeSound, Zenon DEF Handled, Same
<1>2. CASE Refresh
  <2>1. Handle("refresh") /\ a' = IF a.alive THEN OnTimer(Popped) ELSE Popped
    BY <1>2, Zenon DEF Refresh
  <2>2. "refresh" \notin Work
    BY DEF Work
  <2>3. /\ Popped \in AdaptorType /\ Same(a, Popped) /\ Exclusive(Popped)
        /\ Counted(Popped) /\ Capped(Popped) /\ MayRead(Popped)
        /\ (Waiting(Popped) <=> Waiting(a)) /\ Popped.lost = a.lost
    BY <2>1, <2>2, PoppedEffect, Zenon
  <2>4. GoesOn(Popped)
    BY <2>3, Zenon DEF GoesOn, Same
  <2>5. CASE a.alive
    BY <2>1, <2>3, <2>4, <2>5, OnTimerSound, Zenon DEF Handled, Same
  <2>6. CASE ~a.alive
    <3>1. Timed(Popped)
      BY <2>3, <2>6, Zenon DEF Timed, Same
    <3>. QED  BY <2>1, <2>3, <2>4, <2>6, <3>1, Zenon DEF Handled, Sound
  <2>. QED  BY <2>5, <2>6, Zenon
<1>3. CASE ResumeRead
  <2>. DEFINE t == OnTimer(Popped)
  <2>1. Handle("read") /\ a' = AsyncReadSome(t)
    BY <1>3, Zenon DEF ResumeRead
  <2>2. "read" \in Work
    BY DEF Work
  <2>3. Popped \in AdaptorType /\ Exclusive(Popped) /\ ~Waiting(Popped) /\ Same(a, Popped)
    BY <2>1, <2>2, PoppedEffect, Zenon
  <2>4. Sound(t) /\ ~Waiting(t) /\ Same(Popped, t)
    BY <2>3, OnTimerSound, Zenon
  <2>. HIDE DEF t
  <2>. QED  BY <2>1, <2>3, <2>4, AsyncReadSomeSound, Zenon DEF Handled, Same
<1>4. CASE Aborted
  <2>1. PICK h \in {"refresh aborted", "read aborted", "closed"} : Handle(h)
    BY <1>4, Zenon DEF Aborted
  <2>2. a' = Popped
    BY <1>4, Zenon DEF Aborted
  <2>3. h \notin Work /\ h \notin {"refresh", "read"}
    BY DEF Work
  <2>4. /\ Popped \in AdaptorType /\ Same(a, Popped) /\ Exclusive(Popped)
        /\ Counted(Popped) /\ Capped(Popped) /\ MayRead(Popped) /\ Timed(Popped)
        /\ (Waiting(Popped) <=> Waiting(a)) /\ Popped.lost = a.lost
    BY <2>1, <2>3, PoppedEffect, Zenon
  <2>5. GoesOn(Popped)
    BY <2>4, Zenon DEF GoesOn, Same
  <2>. QED  BY <2>2, <2>4, <2>5, Zenon DEF Handled, Sound
<1>. QED  BY <1>1, <1>2, <1>3, <1>4, Zenon

\* read_some: what is read counts against the quota.
LEMMA ReadSomeOfSound ==
    ASSUME NEW t, Sound(t), ~Waiting(t), NEW n \in 1..MaxRead,
           Limited(t) => t.used < AtLeastOne(t.cap)
    PROVE  LET u == ReadSomeOf(t, n)
           IN  Sound(u) /\ Same(t, u) /\ ~Waiting(u)
<1>. DEFINE m == Min({t.used + n, MaxUsed})
            l == RecordUsage(t.limit, n)
            k == RecordUsage(t.alarm, n)
            u == [t EXCEPT !.limit = l, !.alarm = k, !.used = m]
<1>0. t \in AdaptorType /\ MaxRead \in Nat /\ MaxUsed \in Nat /\ n \in Nat
  <2>1. MaxRead \in Nat /\ MaxUsed \in Nat /\ n \in Nat
    BY DataRateAssumption
  <2>. QED  BY <2>1, Zenon DEF Sound
<1>1. ReadSomeOf(t, n) = u
  <2>1. RecordReadUsage(t, n) = [t EXCEPT !.limit = l, !.alarm = k]
    BY <1>0, Zenon DEF RecordReadUsage, AdaptorType
  <2>2. RecordReadUsage(t, n).used = t.used
    BY <1>0, <2>1, Zenon DEF AdaptorType
  <2>3. ReadSomeOf(t, n) = [RecordReadUsage(t, n) EXCEPT !.used = m]
    BY <1>0, <2>1, <2>2, Zenon DEF ReadSomeOf, AdaptorType
  <2>. QED  BY <2>1, <2>3, Zenon
<1>2. /\ t.limit \in LimitType /\ t.alarm \in LimitType
      /\ t.used \in Nat /\ t.cap \in Nat /\ t.limit.left \in Nat
      /\ AtLeastOne(t.cap) \in Nat \ {0}
  BY <1>0, AdaptorFields, AdaptorNumbers, Zenon
<1>3. /\ l \in LimitType /\ k \in LimitType
      /\ l.quota = t.limit.quota /\ k.quota = t.alarm.quota
      /\ t.limit.quota # Unlimited /\ l.left > 0 => l.left + n <= t.limit.left
  BY <1>0, <1>2, RecordUsageEffect, Zenon
<1>. HIDE DEF l, k
<1>4. m \in 0..MaxUsed /\ m <= t.used + n
  <2>1. t.used + n \in Int /\ MaxUsed \in Int
    BY <1>0, <1>2
  <2>2. m = IF t.used + n <= MaxUsed THEN t.used + n ELSE MaxUsed
    BY <2>1, MinMax, Zenon
  <2>. QED  BY <1>0, <1>2, <2>2
<1>. HIDE DEF m
<1>5. /\ u \in AdaptorType /\ u.limit = l /\ u.alarm = k
      /\ u.started = t.started /\ u.open = t.open /\ u.alive = t.alive
      /\ u.wait = t.wait /\ u.queue = t.queue /\ u.io = t.io
      /\ u.used = m /\ u.cap = t.cap /\ u.lost = t.lost
  BY <1>0, <1>3, <1>4, Zenon DEF AdaptorType, LimitType
<1>. HIDE DEF u
<1>6. Timed(u) /\ Exclusive(u) /\ Capped(u) /\ Same(t, u) /\ ~Waiting(u)
  BY <1>3, <1>5, Zenon DEF Sound, Timed, Exclusive, Capped, Same, Waiting
<1>7. MayRead(u)
  <2>1. "reading" # "none" /\ "readable" \in Work
    BY DEF Work
  <2>. QED  BY <1>6, <2>1, Zenon DEF Waiting, AtWork, MayRead
<1>8. Counted(u)
  <2>. SUFFICES ASSUME Limited(u)
                PROVE  /\ u.used < AtLeastOne(u.cap) + MaxRead
                       /\ u.limit.left > 0 => u.used + u.limit.left <= u.cap
    BY Zenon DEF Counted
  <2>1. Limited(t) /\ t.limit.quota # Unlimited
    BY <1>5, Zenon DEF Limited, Sound, Capped
  <2>2. t.used < AtLeastOne(t.cap) /\ (t.limit.left > 0 => t.used + t.limit.left <= t.cap)
    BY <2>1, Zenon DEF Sound, Counted
  <2>3. m \in Nat /\ n <= MaxRead /\ n > 0
    BY <1>0, <1>4
  <2>4. m < AtLeastOne(t.cap) + MaxRead
    BY <1>0, <1>2, <1>4, <2>2, <2>3
  <2>5. l.left \in Nat
    BY <1>3, QuotaTypes, Zenon DEF LimitType
  <2>6. l.left > 0 => m + l.left <= t.cap
    BY <1>0, <1>2, <1>3, <1>4, <2>1, <2>2, <2>3, <2>5
  <2>. QED  BY <1>5, <2>4, <2>6, Zenon
<1>. QED  BY <1>1, <1>5, <1>6, <1>7, <1>8, Zenon DEF Sound

\* The handler of readData: the next read, a write that is done or blocks, or the
\* update of the limits.
LEMMA ReadSomeSound ==
    ASSUME Sound(a), GoesOn(a), ~Busy, io \in Thread, backlog \in Nat, ReadSome
    PROVE  Sound(a') /\ Same(a, a') /\ Ongoing'
<1>0. Handle("readable") /\ "readable" \in Work /\ "readable" \notin {"refresh", "read"}
  <2>1. "readable" \in Work /\ "readable" \notin {"refresh", "read"}
    BY DEF Work
  <2>. QED  BY <2>1, Zenon DEF ReadSome
<1>1. /\ Sound(Popped) /\ Same(a, Popped) /\ ~Waiting(Popped)
      /\ Limited(Popped) => Popped.used < AtLeastOne(Popped.cap)
  BY <1>0, PoppedEffect, Zenon DEF Sound, Limited
<1>2. CASE ~a.open
  <2>1. a' = Popped /\ io' = io
    BY <1>2, Zenon DEF ReadSome
  <2>2. GoesOn(Popped)
    BY <1>1, <1>2, Zenon DEF GoesOn, Same
  <2>. QED  BY <1>1, <2>1, <2>2, Zenon DEF Ongoing, Busy
<1>3. CASE a.open
  <2>1. PICK n \in 1..Min({backlog, MaxRead}) :
           LET t == ReadSomeOf(Popped, n)
           IN  \/ /\ a' \in {AsyncReadSome(t), [t EXCEPT !.io = "writing"],
                             [t EXCEPT !.queue = Append(@, "written")]}
                  /\ UNCHANGED io
               \/ /\ io.at = "unopened"
                  /\ io' = [io EXCEPT !.at = "read"]
                  /\ a' = t
    BY <1>3, Zenon DEF ReadSome
  <2>. DEFINE t == ReadSomeOf(Popped, n)
              w == [t EXCEPT !.io = "writing"]
              q == Append(t.queue, "written")
              d == [t EXCEPT !.queue = q]
  <2>2. n \in 1..MaxRead
    <3>1. backlog \in Int /\ MaxRead \in Int
      BY DataRateAssumption
    <3>2. Min({backlog, MaxRead}) = IF backlog <= MaxRead THEN backlog ELSE MaxRead
      BY <3>1, MinMax, Zenon
    <3>. QED  BY <3>1, <3>2
  <2>3. Sound(t) /\ Same(Popped, t) /\ ~Waiting(t)
    BY <1>1, <2>2, ReadSomeOfSound, Zenon
  <2>4. t \in AdaptorType
    BY <2>3, Zenon DEF Sound
  <2>5. \/ a' \in {AsyncReadSome(t), w, d} /\ io' = io
        \/ a' = t /\ io' = [io EXCEPT !.at = "read"]
    BY <2>1, <2>4, Zenon DEF AdaptorType
  <2>. HIDE DEF t
  <2>6. Same(a, t)
    BY <1>1, <2>3, Zenon DEF Same
  <2>7. CASE a' = AsyncReadSome(t) /\ io' = io
    BY <2>3, <2>6, <2>7, AsyncReadSomeSound, Zenon DEF Ongoing, Busy, Same
  <2>8. CASE a' = w /\ io' = io
    <3>1. /\ w \in AdaptorType /\ w.limit = t.limit /\ w.alarm = t.alarm
          /\ w.started = t.started /\ w.open = t.open /\ w.alive = t.alive
          /\ w.wait = t.wait /\ w.queue = t.queue /\ w.io = "writing"
          /\ w.used = t.used /\ w.cap = t.cap /\ w.lost = t.lost
      BY <2>4, Zenon DEF AdaptorType
    <3>. HIDE DEF w
    <3>2. "writing" # "none" /\ "writing" # "reading" /\ "readable" \in Work
      BY DEF Work
    <3>3. Timed(w) /\ Exclusive(w) /\ Counted(w) /\ MayRead(w) /\ Capped(w)
      BY <2>3, <3>1, <3>2, Zenon
         DEF Sound, Waiting, Timed, Exclusive, Counted, Limited, MayRead, Capped
    <3>4. Same(a, w) /\ GoesOn(w)
      BY <2>6, <3>1, <3>2, Zenon DEF Same, GoesOn, Waiting
    <3>. QED  BY <2>8, <3>1, <3>3, <3>4, Zenon DEF Sound, Ongoing, Busy
  <2>9. CASE a' = d /\ io' = io
    <3>0. "written" \in Ready /\ "written" \in Work /\ "written" # "readable"
          /\ "readable" \in Work /\ t.queue \in Seq(Ready)
      <4>1. "written" \in Ready /\ "written" \in Work /\ "readable" \in Work
        BY DEF Work, Ready
      <4>. QED  BY <2>4, <4>1, AdaptorFields
    <3>1. /\ q \in Seq(Ready)
          /\ \A h : Contains(q, h) <=> Contains(t.queue, h) \/ h = "written"
          /\ AtWork(q)
          /\ Single(t.queue) /\ ~AtWork(t.queue) => Single(q)
      BY <3>0, Appended, Zenon
    <3>. HIDE DEF q
    <3>2. /\ d \in AdaptorType /\ d.limit = t.limit /\ d.alarm = t.alarm
          /\ d.started = t.started /\ d.open = t.open /\ d.alive = t.alive
          /\ d.wait = t.wait /\ d.queue = q /\ d.io = t.io
          /\ d.used = t.used /\ d.cap = t.cap /\ d.lost = t.lost
      BY <2>4, <3>1, Zenon DEF AdaptorType
    <3>. HIDE DEF d
    <3>3. Timed(d) /\ Counted(d) /\ MayRead(d) /\ Capped(d)
      BY <2>3, <3>0, <3>1, <3>2, Zenon
         DEF Sound, Timed, Counted, Limited, MayRead, Capped
    <3>4. Exclusive(d)
      BY <2>3, <3>1, <3>2, Zenon DEF Sound, Exclusive, Waiting
    <3>5. Same(a, d) /\ GoesOn(d)
      BY <2>6, <3>1, <3>2, Zenon DEF Same, GoesOn, Waiting
    <3>. QED  BY <2>9, <3>2, <3>3, <3>4, <3>5, Zenon DEF Sound, Ongoing, Busy
  <2>10. CASE a' = t /\ io' = [io EXCEPT !.at = "read"]
    <3>1. io'.at = "read"
      BY <2>10, Zenon DEF Thread
    <3>. QED  BY <2>3, <2>6, <2>10, <3>1, Zenon DEF Ongoing, Busy
  <2>. QED  BY <2>5, <2>7, <2>8, <2>9, <2>10, Zenon
<1>. QED  BY <1>2, <1>3, AdaptorFields, Zenon DEF Sound

\* Handlers that are queued together, behind those that are queued already.
LEMMA Concatenated ==
    ASSUME NEW q \in Seq(Ready), NEW r \in Seq(Ready)
    PROVE  /\ q \o r \in Seq(Ready)
           /\ \A h : Contains(q \o r, h) <=> Contains(q, h) \/ Contains(r, h)
           /\ AtWork(q \o r) <=> AtWork(q) \/ AtWork(r)
           /\ Single(q) /\ Single(r) /\ ~(AtWork(q) /\ AtWork(r)) => Single(q \o r)
<1>. DEFINE c == q \o r
<1>1. /\ c \in Seq(Ready) /\ Len(c) = Len(q) + Len(r)
      /\ \A i \in 1..Len(q) : c[i] = q[i]
      /\ \A i \in 1..Len(r) : c[Len(q) + i] = r[i]
      /\ Len(q) \in Nat /\ Len(r) \in Nat
      /\ DOMAIN c = 1..Len(c) /\ DOMAIN q = 1..Len(q) /\ DOMAIN r = 1..Len(r)
  OBVIOUS
<1>. HIDE DEF c
<1>2. ASSUME NEW i \in 1..Len(c)
      PROVE  \/ i \in 1..Len(q) /\ c[i] = q[i]
             \/ i - Len(q) \in 1..Len(r) /\ c[i] = r[i - Len(q)]
  <2>1. CASE i <= Len(q)
    BY <1>1, <2>1
  <2>2. CASE i > Len(q)
    <3>1. i - Len(q) \in 1..Len(r) /\ Len(q) + (i - Len(q)) = i
      BY <1>1, <2>2
    <3>. QED  BY <1>1, <3>1
  <2>. QED  BY <1>1, <2>1, <2>2
<1>3. ASSUME NEW h PROVE Contains(c, h) <=> Contains(q, h) \/ Contains(r, h)
  <2>1. ASSUME NEW i \in 1..Len(r), r[i] = h PROVE Contains(c, h)
    <3>1. Len(q) + i \in 1..Len(c) /\ c[Len(q) + i] = h
      BY <1>1, <2>1
    <3>. QED  BY <3>1 DEF Contains, Range
  <2>2. ASSUME NEW i \in 1..Len(q), q[i] = h PROVE Contains(c, h)
    <3>1. i \in 1..Len(c) /\ c[i] = h
      BY <1>1, <2>2
    <3>. QED  BY <3>1 DEF Contains, Range
  <2>3. ASSUME Contains(c, h) PROVE Contains(q, h) \/ Contains(r, h)
    <3>1. PICK i \in 1..Len(c) : c[i] = h
      BY <1>1, <2>3 DEF Contains, Range
    <3>2. CASE i \in 1..Len(q) /\ c[i] = q[i]
      BY <3>1, <3>2 DEF Contains, Range
    <3>3. CASE i - Len(q) \in 1..Len(r) /\ c[i] = r[i - Len(q)]
      BY <3>1, <3>3 DEF Contains, Range
    <3>. QED  BY <1>2, <3>2, <3>3
  <2>. QED  BY <1>1, <2>1, <2>2, <2>3, Zenon DEF Contains, Range
<1>4. AtWork(c) <=> AtWork(q) \/ AtWork(r)
  BY <1>3, Zenon DEF AtWork
<1>5. ASSUME Single(q), Single(r), ~(AtWork(q) /\ AtWork(r)) PROVE Single(c)
  <2>. SUFFICES ASSUME NEW i \in DOMAIN c, NEW j \in DOMAIN c,
                       c[i] \in Work, c[j] \in Work
                PROVE  i = j
    BY DEF Single
  <2>0. i \in 1..Len(c) /\ j \in 1..Len(c)
    BY <1>1, Zenon
  <2>1. ASSUME NEW m \in 1..Len(q), NEW n \in 1..Len(r), q[m] \in Work, r[n] \in Work
        PROVE  FALSE
    BY <1>1, <1>5, <2>1, Zenon DEF AtWork, Contains, Range
  <2>2. CASE i \in 1..Len(q) /\ j \in 1..Len(q) /\ c[i] = q[i] /\ c[j] = q[j]
    BY <1>1, <1>5, <2>2, Zenon DEF Single
  <2>3. CASE /\ i - Len(q) \in 1..Len(r) /\ c[i] = r[i - Len(q)]
             /\ j - Len(q) \in 1..Len(r) /\ c[j] = r[j - Len(q)]
    <3>1. i - Len(q) = j - Len(q)
      BY <1>1, <1>5, <2>3, Zenon DEF Single
    <3>. QED  BY <1>1, <2>0, <3>1
  <2>. QED  BY <1>2, <2>0, <2>1, <2>2, <2>3, Zenon
<1>. QED  BY <1>1, <1>3, <1>4, <1>5, Zenon DEF c

\* The handlers that the reactor can queue: none, or one.
LEMMA ShortQueues ==
    ASSUME NEW x \in Ready
    PROVE  /\ <<>> \in Seq(Ready) /\ <<x>> \in Seq(Ready)
           /\ \A h : ~Contains(<<>>, h) /\ (Contains(<<x>>, h) <=> h = x)
           /\ ~AtWork(<<>>) /\ (AtWork(<<x>>) <=> x \in Work)
           /\ Single(<<>>) /\ Single(<<x>>)
<1>1. <<>> \in Seq(Ready) /\ <<x>> \in Seq(Ready)
  OBVIOUS
<1>2. \A h : ~Contains(<<>>, h) /\ (Contains(<<x>>, h) <=> h = x)
  BY DEF Contains, Range
<1>3. ~AtWork(<<>>) /\ (AtWork(<<x>>) <=> x \in Work)
  BY <1>2, Zenon DEF AtWork
<1>4. Single(<<>>) /\ Single(<<x>>)
  BY DEF Single
<1>. QED  BY <1>1, <1>2, <1>3, <1>4, Zenon


\* The reactor puts what became ready behind the handlers that are queued: what the
\* session waited for, and the wait of the timer, are handlers now.
LEMMA PollSound ==
    ASSUME Sound(a), GoesOn(a), Poll
    PROVE  Handled
<1>. DEFINE S == a.io = "reading" /\ backlog > 0
            T == a.wait # "none" /\ a.expired
            sock == IF S THEN <<"readable">> ELSE <<>>
            timer == IF T THEN <<a.wait>> ELSE <<>>
            q0 == Tail(a.queue)
            q1 == q0 \o sock
<1>0. /\ a \in AdaptorType /\ a.queue \in Seq(Ready) /\ a.queue # <<>>
      /\ Head(a.queue) = "poll" /\ a.wait \in {"none", "refresh", "read"}
      /\ a.io \in {"reading", "writing", "none"}
  BY AdaptorFields, Zenon DEF Sound, Poll, Handle
<1>1. PICK written \in IF a.io = "writing" THEN {<<>>, <<"written">>} ELSE {<<>>} :
         a' = [a EXCEPT !.queue = Tail(@) \o sock \o written \o timer \o <<"poll">>,
                        !.io = IF sock \o written = <<>> THEN @ ELSE "none",
                        !.wait = IF timer = <<>> THEN @ ELSE "none"]
  BY Zenon DEF Poll
<1>. DEFINE W == written = <<"written">>
            q2 == q1 \o written
            q3 == q2 \o timer
            q4 == q3 \o <<"poll">>
            io2 == IF S \/ W THEN "none" ELSE a.io
            wait2 == IF T THEN "none" ELSE a.wait
            u == [a EXCEPT !.queue = q4, !.io = io2, !.wait = wait2]
<1>2. /\ {"readable", "written", "poll", "refresh", "read"} \subseteq Ready
      /\ "readable" \in Work /\ "written" \in Work /\ "read" \in Work
      /\ "poll" \notin Work /\ "refresh" \notin Work
  BY DEF Ready, Work
<1>3. written = IF W THEN <<"written">> ELSE <<>>
  BY <1>1
<1>4. W => a.io = "writing"
  BY <1>1
<1>5. a' = u
  <2>1. (sock \o written = <<>>) <=> ~(S \/ W)
    BY <1>3
  <2>2. (timer = <<>>) <=> ~T
    OBVIOUS
  <2>. HIDE DEF S, T, W, sock, timer
  <2>. QED  BY <1>0, <1>1, <2>1, <2>2, Zenon DEF AdaptorType
<1>6. /\ sock \in Seq(Ready) /\ (\A h : Contains(sock, h) <=> S /\ h = "readable")
      /\ (AtWork(sock) <=> S) /\ Single(sock)
  BY <1>2, ShortQueues, Zenon
<1>7. /\ written \in Seq(Ready) /\ (\A h : Contains(written, h) <=> W /\ h = "written")
      /\ (AtWork(written) <=> W) /\ Single(written)
  <2>1. CASE W
    BY <1>2, <1>3, <2>1, ShortQueues, Zenon
  <2>2. CASE ~W
    <3>1. written = <<>>
      BY <1>3, <2>2, Zenon
    <3>. QED  BY <1>2, <2>2, <3>1, ShortQueues, Zenon
  <2>. QED  BY <2>1, <2>2, Zenon
<1>8. /\ timer \in Seq(Ready) /\ (\A h : Contains(timer, h) <=> T /\ h = a.wait)
      /\ (AtWork(timer) <=> T /\ a.wait = "read") /\ Single(timer)
  <2>1. CASE T
    <3>1. a.wait \in Ready /\ (a.wait \in Work <=> a.wait = "read")
      BY <1>0, <1>2, <2>1, Zenon
    <3>. QED  BY <2>1, <3>1, ShortQueues, Zenon
  <2>2. CASE ~T
    BY <1>2, <2>2, ShortQueues, Zenon
  <2>. QED  BY <2>1, <2>2, Zenon
<1>9. /\ <<"poll">> \in Seq(Ready) /\ \A h : Contains(<<"poll">>, h) <=> h = "poll"
      /\ ~AtWork(<<"poll">>) /\ Single(<<"poll">>)
  BY <1>2, ShortQueues, Zenon
<1>10. /\ q0 \in Seq(Ready)
       /\ \A h : Contains(a.queue, h) <=> Contains(q0, h) \/ h = "poll"
       /\ AtWork(a.queue) <=> AtWork(q0)
       /\ Single(a.queue) => Single(q0)
  <2>1. /\ q0 \in Seq(Ready)
        /\ \A h : Contains(a.queue, h) <=> Contains(q0, h) \/ h = Head(a.queue)
        /\ AtWork(a.queue) <=> AtWork(q0) \/ Head(a.queue) \in Work
        /\ Single(a.queue) => Single(q0)
    BY <1>0, Tailed, Zenon
  <2>. HIDE DEF q0
  <2>. QED  BY <1>0, <1>2, <2>1, Zenon
<1>. HIDE DEF sock, timer, q0
<1>11. /\ q1 \in Seq(Ready)
       /\ \A h : Contains(q1, h) <=> Contains(q0, h) \/ Contains(sock, h)
       /\ AtWork(q1) <=> AtWork(q0) \/ AtWork(sock)
       /\ Single(q0) /\ Single(sock) /\ ~(AtWork(q0) /\ AtWork(sock)) => Single(q1)
  BY <1>6, <1>10, Concatenated, Zenon
<1>. HIDE DEF q1
<1>12. /\ q2 \in Seq(Ready)
       /\ \A h : Contains(q2, h) <=> Contains(q1, h) \/ Contains(written, h)
       /\ AtWork(q2) <=> AtWork(q1) \/ AtWork(written)
       /\ Single(q1) /\ Single(written) /\ ~(AtWork(q1) /\ AtWork(written))
            => Single(q2)
  BY <1>7, <1>11, Concatenated, Zenon
<1>. HIDE DEF q2
<1>13. /\ q3 \in Seq(Ready)
       /\ \A h : Contains(q3, h) <=> Contains(q2, h) \/ Contains(timer, h)
       /\ AtWork(q3) <=> AtWork(q2) \/ AtWork(timer)
       /\ Single(q2) /\ Single(timer) /\ ~(AtWork(q2) /\ AtWork(timer)) => Single(q3)
  BY <1>8, <1>12, Concatenated, Zenon
<1>. HIDE DEF q3
<1>14. /\ q4 \in Seq(Ready)
       /\ \A h : Contains(q4, h) <=> Contains(q3, h) \/ Contains(<<"poll">>, h)
       /\ AtWork(q4) <=> AtWork(q3) \/ AtWork(<<"poll">>)
       /\ Single(q3) /\ Single(<<"poll">>) /\ ~(AtWork(q3) /\ AtWork(<<"poll">>))
            => Single(q4)
  BY <1>9, <1>13, Concatenated, Zenon
<1>. HIDE DEF q4
<1>15. \A h : Contains(q4, h) <=> \/ Contains(q0, h)
                                  \/ S /\ h = "readable"
                                  \/ W /\ h = "written"
                                  \/ T /\ h = a.wait
                                  \/ h = "poll"
  BY <1>6, <1>7, <1>8, <1>9, <1>11, <1>12, <1>13, <1>14, Zenon
<1>16. AtWork(q4) <=> AtWork(q0) \/ S \/ W \/ (T /\ a.wait = "read")
  BY <1>6, <1>7, <1>8, <1>9, <1>11, <1>12, <1>13, <1>14, Zenon
<1>17. /\ S => a.io = "reading" /\ a.io # "none" /\ ~W
       /\ W => a.io # "none"
  BY <1>4
<1>18. /\ a.io = "none" \/ ~(a.wait = "read" \/ AtWork(q0))
       /\ ~(a.wait = "read" /\ AtWork(q0)) /\ Single(q0)
  BY <1>10, Zenon DEF Sound, Exclusive
<1>19. Single(q4)
  BY <1>6, <1>7, <1>8, <1>9, <1>11, <1>12, <1>13, <1>14, <1>17, <1>18, Zenon
<1>20. /\ u \in AdaptorType /\ u.limit = a.limit /\ u.alarm = a.alarm
       /\ u.started = a.started /\ u.open = a.open /\ u.alive = a.alive
       /\ u.wait = wait2 /\ u.queue = q4 /\ u.io = io2
       /\ u.used = a.used /\ u.cap = a.cap /\ u.lost = a.lost
  <2>1. wait2 \in {"none", "refresh", "read"} /\ io2 \in {"reading", "writing", "none"}
    BY <1>0, Zenon
  <2>. HIDE DEF wait2, io2
  <2>. QED  BY <1>0, <1>14, <2>1, Zenon DEF AdaptorType
<1>. HIDE DEF u
<1>21. Exclusive(u)
  <2>1. io2 = "none" \/ (io2 = a.io /\ ~S /\ ~W)
    BY Zenon
  <2>2. wait2 = "read" => a.wait = "read" /\ ~T
    BY DEF wait2
  <2>. HIDE DEF io2, wait2, S, T, W
  <2>. QED  BY <1>16, <1>17, <1>18, <1>19, <1>20, <2>1, <2>2, Zenon DEF Exclusive
<1>22. Timed(u)
  <2>1. wait2 = "none" => a.wait = "none" \/ T
    BY Zenon
  <2>2. T => Contains(q4, "refresh") \/ Contains(q4, "read")
    BY <1>0, <1>15, Zenon
  <2>3. /\ Contains(a.queue, "refresh") => Contains(q4, "refresh")
        /\ Contains(a.queue, "read") => Contains(q4, "read")
    <3>1. "refresh" # "poll" /\ "read" # "poll"
      OBVIOUS
    <3>. QED  BY <1>10, <1>15, <3>1, Zenon
  <2>. HIDE DEF wait2, T
  <2>. QED  BY <1>20, <2>1, <2>2, <2>3, Zenon DEF Sound, Timed
<1>23. MayRead(u) /\ Counted(u) /\ Capped(u)
  <2>1. io2 = "reading" => a.io = "reading"
    BY DEF io2
  <2>2. Contains(q4, "readable") => Contains(a.queue, "readable") \/ a.io = "reading"
    <3>1. "readable" # "written" /\ "readable" # "poll" /\ (T => "readable" # a.wait)
      BY <1>0
    <3>. QED  BY <1>10, <1>15, <1>17, <3>1, Zenon
  <2>. HIDE DEF io2
  <2>. QED  BY <1>20, <2>1, <2>2, Zenon DEF Sound, MayRead, Counted, Limited, Capped
<1>24. Waiting(a) => Waiting(u)
  <2>1. io2 = "none" => a.io = "none" \/ S \/ W
    BY Zenon
  <2>2. a.wait = "read" => wait2 = "read" \/ T
    BY Zenon
  <2>. HIDE DEF io2, wait2, S, T, W
  <2>. QED  BY <1>10, <1>16, <1>20, <2>1, <2>2, Zenon DEF Waiting
<1>25. GoesOn(u) /\ Same(a, u)
  BY <1>20, <1>24, Zenon DEF GoesOn, Same
<1>. QED  BY <1>5, <1>20, <1>21, <1>22, <1>23, <1>25, Zenon DEF Handled, Sound

\* The socket is closed, and at last the session is destroyed: it waits for nothing.
LEMMA EndsSound ==
    ASSUME Sound(a), Close \/ Destroy
    PROVE  /\ Sound(a') /\ GoesOn(a')
           /\ a'.limit = a.limit /\ a'.alarm = a.alarm
           /\ a'.alive => a.alive
<1>0. a \in AdaptorType /\ a.queue \in Seq(Ready)
  BY AdaptorFields, Zenon DEF Sound
<1>1. CASE Close
  <2>. DEFINE q == IF a.io = "none" THEN a.queue ELSE Append(a.queue, "closed")
              u == [a EXCEPT !.open = FALSE, !.io = "none", !.queue = q]
  <2>1. a' = u
    BY <1>0, <1>1, Zenon DEF Close, AdaptorType
  <2>2. "closed" \in Ready /\ "closed" \notin Work \cup {"refresh"}
    BY DEF Ready, Work
  <2>3. /\ q \in Seq(Ready)
        /\ \A h \in Work \cup {"refresh"} : Contains(q, h) <=> Contains(a.queue, h)
        /\ AtWork(q) <=> AtWork(a.queue)
        /\ Single(a.queue) => Single(q)
    <3>1. CASE a.io = "none"  BY <1>0, <3>1, Zenon
    <3>2. CASE a.io # "none"  BY <1>0, <2>2, <3>2, Appended, Zenon
    <3>. QED  BY <3>1, <3>2, Zenon
  <2>. HIDE DEF q
  <2>4. /\ u \in AdaptorType /\ u.limit = a.limit /\ u.alarm = a.alarm
        /\ u.started = a.started /\ u.open = FALSE /\ u.alive = a.alive
        /\ u.wait = a.wait /\ u.queue = q /\ u.io = "none"
        /\ u.used = a.used /\ u.cap = a.cap /\ u.lost = a.lost
    BY <1>0, <2>3, Zenon DEF AdaptorType
  <2>. HIDE DEF u
  <2>5. "none" # "reading" /\ "readable" \in Work /\ "read" \in Work
    BY DEF Work
  <2>6. Timed(u) /\ Exclusive(u) /\ Counted(u) /\ MayRead(u) /\ Capped(u) /\ GoesOn(u)
    BY <2>3, <2>4, <2>5, Zenon
       DEF Sound, Timed, Exclusive, Counted, Limited, MayRead, Capped, GoesOn
  <2>. QED  BY <2>1, <2>4, <2>6, Zenon DEF Sound
<1>2. CASE Destroy
  <2>. DEFINE c == Cancel(a)
              u == [c EXCEPT !.alive = FALSE]
  <2>1. a' = u /\ ~a.open
    BY <1>2, Zenon DEF Destroy
  <2>2. /\ c.queue \in Seq(Ready)
        /\ \A h \in Work \cup {"refresh"} : Contains(c.queue, h) <=> Contains(a.queue, h)
        /\ AtWork(c.queue) <=> AtWork(a.queue)
        /\ Single(a.queue) => Single(c.queue)
        /\ c = [a EXCEPT !.wait = "none", !.queue = c.queue]
    BY <1>0, CancelEffect, Zenon
  <2>. HIDE DEF c
  <2>3. /\ c \in AdaptorType /\ c.limit = a.limit /\ c.alarm = a.alarm
        /\ c.started = a.started /\ c.open = a.open /\ c.wait = "none"
        /\ c.io = a.io /\ c.used = a.used /\ c.cap = a.cap /\ c.lost = a.lost
    BY <1>0, <2>2, Zenon DEF AdaptorType
  <2>4. /\ u \in AdaptorType /\ u.limit = a.limit /\ u.alarm = a.alarm
        /\ u.started = a.started /\ u.open = a.open /\ u.alive = FALSE
        /\ u.wait = "none" /\ u.queue = c.queue /\ u.io = a.io
        /\ u.used = a.used /\ u.cap = a.cap /\ u.lost = a.lost
    BY <2>3, Zenon DEF AdaptorType
  <2>. HIDE DEF u
  <2>5. "none" # "read" /\ "readable" \in Work
    BY DEF Work
  <2>6. Timed(u) /\ Exclusive(u) /\ Counted(u) /\ MayRead(u) /\ Capped(u) /\ GoesOn(u)
    BY <2>1, <2>2, <2>4, <2>5, Zenon
       DEF Sound, Timed, Exclusive, Counted, Limited, MayRead, Capped, GoesOn
  <2>. QED  BY <2>1, <2>4, <2>6, Zenon DEF Sound
<1>. QED  BY <1>1, <1>2, Zenon

\* The expiry of the timer passes, at any moment.
LEMMA ExpireSound ==
    ASSUME Sound(a), Expire
    PROVE  /\ Sound(a') /\ (GoesOn(a) => GoesOn(a')) /\ (Waiting(a') <=> Waiting(a))
           /\ a'.limit = a.limit /\ a'.alarm = a.alarm /\ a'.alive = a.alive
<1>. DEFINE u == [a EXCEPT !.expired = TRUE]
<1>1. a' = u /\ a \in AdaptorType
  BY Zenon DEF Expire, Sound
<1>2. /\ u \in AdaptorType /\ u.limit = a.limit /\ u.alarm = a.alarm
      /\ u.started = a.started /\ u.open = a.open /\ u.alive = a.alive
      /\ u.wait = a.wait /\ u.queue = a.queue /\ u.io = a.io
      /\ u.used = a.used /\ u.cap = a.cap /\ u.lost = a.lost
  BY <1>1, Zenon DEF AdaptorType
<1>. HIDE DEF u
<1>3. /\ Timed(u) /\ Exclusive(u) /\ Counted(u) /\ MayRead(u) /\ Capped(u)
      /\ (GoesOn(a) => GoesOn(u)) /\ (Waiting(u) <=> Waiting(a))
  BY <1>2, Zenon DEF Sound, Timed, Exclusive, Counted, Limited, MayRead, Capped,
     GoesOn, Waiting
<1>. QED  BY <1>1, <1>2, <1>3, Zenon DEF Sound

\* setReadRateLimit and setReadRateAlarm change the quota and nothing that was
\* counted; a limit that is disabled is so for the second that has begun too.
LEMMA SetReadRateSound ==
    ASSUME Sound(a), NEW k \in Kind, NEW q \in Quota
    PROVE  LET u == SetReadRate(k, q)
           IN  /\ Sound(u) /\ (Waiting(u) <=> Waiting(a)) /\ (GoesOn(a) => GoesOn(u))
               /\ u.alive = a.alive /\ u.open = a.open
               /\ u[k].quota = q
               /\ \A j \in Kind \ {k} : u[j].quota = a[j].quota
<1>0. a \in AdaptorType /\ a.limit \in LimitType /\ a.alarm \in LimitType
  BY AdaptorFields, Zenon DEF Sound
<1>. DEFINE l == [a.limit EXCEPT !.quota = q]
            m == [a.alarm EXCEPT !.quota = q]
            cap == IF q = Unlimited THEN Unlimited ELSE a.cap
            x == [a EXCEPT !.limit = l, !.cap = cap]
            y == [a EXCEPT !.alarm = m, !.cap = a.cap]
<1>1. /\ l \in LimitType /\ l.quota = q /\ l.left = a.limit.left
      /\ m \in LimitType /\ m.quota = q /\ m.left = a.alarm.left
  BY <1>0, Zenon DEF LimitType
<1>2. /\ k = "limit" => SetReadRate(k, q) = x
      /\ k = "alarm" => SetReadRate(k, q) = y
  <2>1. CASE k = "limit"
    BY <1>0, <2>1 DEF SetReadRate, SetQuota, AdaptorType
  <2>2. CASE k = "alarm"
    BY <1>0, <2>2 DEF SetReadRate, SetQuota, AdaptorType
  <2>. QED  BY <2>1, <2>2
<1>3. cap \in Quota /\ (cap # Unlimited => cap = a.cap) /\ (q = Unlimited => cap = Unlimited)
  BY <1>0, AdaptorFields, Zenon DEF Quota
<1>. HIDE DEF l, m, cap
<1>4. /\ x \in AdaptorType /\ x.limit = l /\ x.alarm = a.alarm
      /\ x.started = a.started /\ x.open = a.open /\ x.alive = a.alive
      /\ x.wait = a.wait /\ x.queue = a.queue /\ x.io = a.io
      /\ x.used = a.used /\ x.cap = cap /\ x.lost = a.lost
  BY <1>0, <1>1, <1>3, Zenon DEF AdaptorType, LimitType
<1>5. /\ y \in AdaptorType /\ y.limit = a.limit /\ y.alarm = m
      /\ y.started = a.started /\ y.open = a.open /\ y.alive = a.alive
      /\ y.wait = a.wait /\ y.queue = a.queue /\ y.io = a.io
      /\ y.used = a.used /\ y.cap = a.cap /\ y.lost = a.lost
  BY <1>0, <1>1, Zenon DEF AdaptorType, LimitType
<1>. HIDE DEF x, y
<1>6. Timed(x) /\ Exclusive(x) /\ Counted(x) /\ MayRead(x) /\ Capped(x)
  BY <1>1, <1>3, <1>4, Zenon
     DEF Sound, Timed, Exclusive, Counted, Limited, MayRead, Capped
<1>7. Timed(y) /\ Exclusive(y) /\ Counted(y) /\ MayRead(y) /\ Capped(y)
  BY <1>5, Zenon DEF Sound, Timed, Exclusive, Counted, Limited, MayRead, Capped
<1>8. /\ (Waiting(x) <=> Waiting(a)) /\ (GoesOn(a) => GoesOn(x))
      /\ (Waiting(y) <=> Waiting(a)) /\ (GoesOn(a) => GoesOn(y))
  BY <1>4, <1>5, Zenon DEF Waiting, GoesOn
<1>9. /\ x["limit"] = x.limit /\ x["alarm"] = x.alarm
      /\ y["limit"] = y.limit /\ y["alarm"] = y.alarm
      /\ a["limit"] = a.limit /\ a["alarm"] = a.alarm
  OBVIOUS
<1>10. CASE k = "limit"
  <2>1. Kind \ {k} = {"alarm"}
    BY <1>10 DEF Kind
  <2>. QED  BY <1>1, <1>2, <1>4, <1>6, <1>8, <1>9, <1>10, <2>1, Zenon DEF Sound
<1>11. CASE k = "alarm"
  <2>1. Kind \ {k} = {"limit"}
    BY <1>11 DEF Kind
  <2>. QED  BY <1>1, <1>2, <1>5, <1>7, <1>8, <1>9, <1>11, <2>1, Zenon DEF Sound
<1>. QED  BY <1>10, <1>11, Zenon DEF Kind

-----------------------------------------------------------------------------
(* The invariant.                                                          *)

\* A thread inside updateDataRateLimits will set the limit k yet: it sets the limit
\* first and then the alarm.
Sets(th, k) == th.kind = "limit" \/ k = "alarm"

\* Where the threads can be, and that they begin with the limit.
InTurn ==
    /\ io.at \in {"accepting", "unopened", "read", "set", "opened"}
    /\ control.at \in {"idle", "visit all", "visit vhost", "read", "set"}
    /\ io.at \in {"accepting", "unopened"} => io.kind = "limit"
    /\ control.at \in {"idle", "visit all", "visit vhost"} => control.kind = "limit"

\* A limit that was not set to an old value is the one of the manager, or one of the
\* threads is going to set it.
Reaching(k) ==
    \/ io.at # "opened" /\ Sets(io, k)
    \/ control.at # "idle" /\ Sets(control, k)
    \/ a[k].quota = Limit(k)
LimitsReaching == a.alive => \A k \in Kind \ stale : Reaching(k)

RateInv ==
    /\ TypeOK /\ bounds \in Bounds
    /\ Sound(a) /\ Ongoing
    /\ InTurn /\ LimitsReaching

\* The values that the threads bring from the manager to the session are quotas.
LEMMA LimitIsQuota ==
    ASSUME TypeOK, NEW k \in Kind
    PROVE  Limit(k) \in Quota
<1>1. manager[k] \in [default : Quota, vhost : Quotas \cup {NoQuota}]
  BY Zenon DEF TypeOK
<1>2. /\ manager[k].default \in Quota /\ manager[k].vhost \in Quotas \cup {NoQuota}
  BY <1>1, Zenon
<1>. QED  BY <1>2, Zenon DEF Limit, Quota

\* The fields of a thread.
LEMMA ThreadFields ==
    ASSUME NEW th \in Thread
    PROVE  th.kind \in Kind /\ th.value \in Quota
BY Zenon DEF Thread

\* What the steps of updateDataRateLimits make of a thread.
LEMMA ThreadSteps ==
    ASSUME TypeOK, NEW th \in Thread, NEW done \in {"idle", "opened"}
    PROVE  /\ ReadLimit(th) \in Thread /\ ReadLimit(th).at = "set"
           /\ ReadLimit(th).kind = th.kind
           /\ LimitSet(th, done) \in Thread
           /\ th.kind = "limit" => /\ LimitSet(th, done).at = "read"
                                   /\ LimitSet(th, done).kind = "alarm"
           /\ th.kind = "alarm" => /\ LimitSet(th, done).at = done
                                   /\ LimitSet(th, done).kind = "limit"
<1>1. Limit(th.kind) \in Quota
  BY LimitIsQuota, ThreadFields, Zenon
<1>. DEFINE v == Limit(th.kind)
            r == [th EXCEPT !.at = "set", !.value = v]
<1>2. ReadLimit(th) = r
  BY Zenon DEF ReadLimit
<1>. HIDE DEF v
<1>3. r \in Thread /\ r.at = "set" /\ r.kind = th.kind
  BY <1>1, Zenon DEF Thread, v
<1>4. "limit" \in Kind /\ "alarm" \in Kind /\ "limit" # "alarm" /\ Unlimited \in Quota
  BY DEF Kind, Quota
<1>5. CASE th.kind = "limit"
  <2>. DEFINE n == [th EXCEPT !.at = "read", !.kind = "alarm"]
  <2>1. LimitSet(th, done) = n
    BY <1>5, Zenon DEF LimitSet
  <2>2. n \in Thread /\ n.at = "read" /\ n.kind = "alarm"
    BY <1>4, Zenon DEF Thread
  <2>. HIDE DEF n, r
  <2>. QED  BY <1>2, <1>3, <1>4, <1>5, <2>1, <2>2, Zenon
<1>6. CASE th.kind = "alarm"
  <2>. DEFINE n == [at |-> done, kind |-> "limit", value |-> Unlimited]
  <2>1. LimitSet(th, done) = n
    BY <1>4, <1>6, Zenon DEF LimitSet
  <2>2. n \in Thread /\ n.at = done /\ n.kind = "limit"
    BY <1>4, Zenon DEF Thread
  <2>. HIDE DEF n, r
  <2>. QED  BY <1>2, <1>3, <1>4, <1>6, <2>1, <2>2, Zenon
<1>. QED  BY <1>5, <1>6, ThreadFields, Zenon DEF Kind

\* What is known of the limits depends on the quotas of the session only.
LEMMA ReachingKept ==
    ASSUME RateInv, UNCHANGED <<io, control, stale, manager>>, a'.alive => a.alive,
           a'.limit.quota = a.limit.quota, a'.alarm.quota = a.alarm.quota
    PROVE  InTurn' /\ LimitsReaching'
<1>1. InTurn'
  BY Zenon DEF RateInv, InTurn
<1>2. ASSUME NEW k \in Kind
      PROVE  a'[k].quota = a[k].quota /\ Limit(k)' = Limit(k)
  <2>1. a'[k].quota = a[k].quota
    BY DEF Kind
  <2>2. Limit(k)' = Limit(k)
    BY Zenon DEF Limit, VhostKnown
  <2>. QED  BY <2>1, <2>2, Zenon
<1>3. LimitsReaching'
  BY <1>2, Zenon DEF RateInv, LimitsReaching, Reaching, Sets
<1>. QED  BY <1>1, <1>3, Zenon

\* The thread that opens the session moves on, and sets nothing.
LEMMA IoMoves ==
    ASSUME RateInv, UNCHANGED <<a, control, stale, manager>>,
           io'.kind = io.kind,
           \/ io.at = "accepting" /\ io'.at = "unopened"
           \/ io.at = "read" /\ io'.at = "set"
    PROVE  InTurn' /\ LimitsReaching'
<1>1. /\ io'.at \in {"accepting", "unopened", "read", "set", "opened"}
      /\ io'.at \in {"accepting", "unopened"} => io.at = "accepting"
      /\ io.at # "opened" /\ io'.at # "opened"
      /\ VhostKnown' <=> VhostKnown
  BY DEF VhostKnown
<1>2. InTurn'
  <2>1. io.at = "accepting" => io.kind = "limit"
    BY Zenon DEF RateInv, InTurn
  <2>. QED  BY <1>1, <2>1, Zenon DEF RateInv, InTurn
<1>3. \A k : Limit(k)' = Limit(k)
  BY <1>1, Zenon DEF Limit
<1>4. LimitsReaching'
  BY <1>1, <1>3, Zenon DEF RateInv, LimitsReaching, Reaching, Sets
<1>. QED  BY <1>2, <1>4, Zenon

\* The vhost becomes known when the io thread is about to set every limit.
LEMMA IoOpens ==
    ASSUME RateInv, io.at = "unopened", io' = [io EXCEPT !.at = "read"],
           UNCHANGED control
    PROVE  InTurn' /\ LimitsReaching'
<1>1. io'.at = "read" /\ io'.kind = "limit"
  BY Zenon DEF RateInv, InTurn, TypeOK, Thread
<1>2. "read" # "opened" /\ "read" \notin {"accepting", "unopened"}
  OBVIOUS
<1>3. InTurn'
  BY <1>1, <1>2, Zenon DEF RateInv, InTurn
<1>4. LimitsReaching'
  BY <1>1, <1>2, Zenon DEF LimitsReaching, Reaching, Sets
<1>. QED  BY <1>3, <1>4, Zenon

\* A limit that a thread has set is the one of the manager, or is known to be old.
LEMMA SetReaches ==
    ASSUME RateInv, NEW th \in Thread, stale' = NowStale(th),
           UNCHANGED manager, VhostKnown' <=> VhostKnown,
           a'[th.kind].quota = th.value,
           \A j \in Kind \ {th.kind} : a'[j].quota = a[j].quota
    PROVE  /\ \A k : Limit(k)' = Limit(k)
           /\ \A k \in Kind \ stale' :
                \/ a'[k].quota = Limit(k)'
                \/ k # th.kind /\ k \notin stale /\ a'[k].quota = a[k].quota
<1>1. \A k : Limit(k)' = Limit(k)
  BY Zenon DEF Limit
<1>2. ASSUME NEW k \in Kind \ stale', k # th.kind
      PROVE  k \notin stale /\ a'[k].quota = a[k].quota
  BY <1>2, Zenon DEF NowStale
<1>3. ASSUME NEW k \in Kind \ stale', k = th.kind
      PROVE  a'[k].quota = Limit(k)'
  BY <1>1, <1>3, Zenon DEF NowStale
<1>. QED  BY <1>1, <1>2, <1>3, Zenon

\* The io thread sets a limit, and reads on when it has set both.
LEMMA IoSets ==
    ASSUME RateInv, IoSetsLimit
    PROVE  Sound(a') /\ Ongoing' /\ InTurn' /\ LimitsReaching' /\ io' \in Thread
<1>. DEFINE t == SetReadRate(io.kind, io.value)
            k == io.kind
<1>0. /\ io \in Thread /\ control \in Thread /\ io.at = "set" /\ Sound(a)
      /\ k \in Kind /\ io.value \in Quota
  BY ThreadFields, Zenon DEF RateInv, TypeOK, IoSetsLimit
<1>1. ~Waiting(a)
  BY <1>0 DEF RateInv, Ongoing, Busy
<1>2. /\ Sound(t) /\ ~Waiting(t) /\ t.alive = a.alive /\ t.open = a.open
      /\ t[k].quota = io.value
      /\ \A j \in Kind \ {k} : t[j].quota = a[j].quota
  BY <1>0, <1>1, SetReadRateSound, Zenon
<1>. HIDE DEF t
<1>3. a' = IF k = "limit" THEN t ELSE AsyncReadSome(t)
  BY Zenon DEF IoSetsLimit, t
<1>4. /\ Sound(a') /\ a'.alive = a.alive /\ (k # "limit" => GoesOn(a'))
      /\ k = "limit" => ~Waiting(a')
      /\ a'.limit.quota = t.limit.quota /\ a'.alarm.quota = t.alarm.quota
  BY <1>2, <1>3, AsyncReadSomeSound, Zenon DEF Same
<1>5. \A j \in Kind : a'[j].quota = t[j].quota
  BY <1>4 DEF Kind
<1>6. io' = LimitSet(io, "opened") /\ "opened" \in {"idle", "opened"}
  BY Zenon DEF IoSetsLimit
<1>7. /\ io' \in Thread
      /\ k = "limit" => io'.at = "read" /\ io'.kind = "alarm"
      /\ k = "alarm" => io'.at = "opened" /\ io'.kind = "limit"
  BY <1>0, <1>6, ThreadSteps, Zenon DEF RateInv
<1>8. k \in {"limit", "alarm"} /\ "limit" # "alarm"
  BY <1>0 DEF Kind
<1>9. (VhostKnown' <=> VhostKnown) /\ io'.at \in {"read", "opened"}
  BY <1>0, <1>7, <1>8 DEF VhostKnown
<1>10. Ongoing'
  <2>1. /\ k = "limit" => Busy'
        /\ k = "alarm" => ~Busy'
    BY <1>7 DEF Busy
  <2>. QED  BY <1>4, <1>8, <2>1, Zenon DEF Ongoing
<1>11. UNCHANGED <<manager, control>> /\ stale' = NowStale(io)
  BY Zenon DEF IoSetsLimit
<1>12. InTurn'
  <2>1. "read" \notin {"accepting", "unopened"} /\ "opened" \notin {"accepting", "unopened"}
    OBVIOUS
  <2>. QED  BY <1>9, <1>11, <2>1, Zenon DEF RateInv, InTurn
<1>13. /\ \A j : Limit(j)' = Limit(j)
       /\ \A j \in Kind \ stale' :
            \/ a'[j].quota = Limit(j)'
            \/ j # k /\ j \notin stale /\ a'[j].quota = a[j].quota
  BY <1>0, <1>2, <1>5, <1>9, <1>11, SetReaches, Zenon
<1>14. ASSUME NEW j \in Kind \ stale', a.alive, j # k, j \notin stale,
              a'[j].quota = a[j].quota
       PROVE  Reaching(j)'
  <2>1. CASE k = "limit"
    <3>1. j = "alarm" /\ io'.at # "opened"
      BY <1>7, <1>14, <2>1 DEF Kind
    <3>. QED  BY <3>1, Zenon DEF Reaching, Sets
  <2>2. CASE k = "alarm"
    <3>1. ~Sets(io, j)
      BY <1>14, <2>2 DEF Sets
    <3>2. Reaching(j)
      BY <1>14, Zenon DEF RateInv, LimitsReaching
    <3>. QED  BY <1>11, <1>13, <1>14, <3>1, <3>2, Zenon DEF Reaching, Sets
  <2>. QED  BY <1>8, <2>1, <2>2, Zenon
<1>15. LimitsReaching'
  BY <1>4, <1>13, <1>14, Zenon DEF LimitsReaching, Reaching
<1>. QED  BY <1>4, <1>7, <1>10, <1>12, <1>15, Zenon

\* The control thread sets a limit, at any moment.
LEMMA ControlSets ==
    ASSUME RateInv, ControlSetsLimit
    PROVE  Sound(a') /\ Ongoing' /\ InTurn' /\ LimitsReaching' /\ control' \in Thread
<1>. DEFINE t == SetReadRate(control.kind, control.value)
            k == control.kind
<1>0. /\ control \in Thread /\ control.at = "set" /\ Sound(a)
      /\ k \in Kind /\ control.value \in Quota
  BY ThreadFields, Zenon DEF RateInv, TypeOK, ControlSetsLimit
<1>2. /\ Sound(t) /\ (Waiting(t) <=> Waiting(a)) /\ (GoesOn(a) => GoesOn(t))
      /\ t.alive = a.alive /\ t[k].quota = control.value
      /\ \A j \in Kind \ {k} : t[j].quota = a[j].quota
  BY <1>0, SetReadRateSound, Zenon
<1>3. a' = t
  BY Zenon DEF ControlSetsLimit
<1>. HIDE DEF t
<1>6. control' = LimitSet(control, "idle") /\ "idle" \in {"idle", "opened"}
  BY Zenon DEF ControlSetsLimit
<1>7. /\ control' \in Thread
      /\ k = "limit" => control'.at = "read" /\ control'.kind = "alarm"
      /\ k = "alarm" => control'.at = "idle" /\ control'.kind = "limit"
  BY <1>0, <1>6, ThreadSteps, Zenon DEF RateInv
<1>8. k \in {"limit", "alarm"} /\ "limit" # "alarm"
  BY <1>0 DEF Kind
<1>9. UNCHANGED <<manager, io>> /\ stale' = NowStale(control)
  BY Zenon DEF ControlSetsLimit
<1>10. (VhostKnown' <=> VhostKnown) /\ (Busy' <=> Busy)
  BY <1>9, Zenon DEF VhostKnown, Busy
<1>11. Ongoing'
  BY <1>2, <1>3, <1>10, Zenon DEF RateInv, Ongoing
<1>12. InTurn'
  <2>1. /\ control'.at \in {"idle", "visit all", "visit vhost", "read", "set"}
        /\ control'.at \in {"idle", "visit all", "visit vhost"} => control'.kind = "limit"
    BY <1>7, <1>8
  <2>. QED  BY <1>9, <2>1, Zenon DEF RateInv, InTurn
<1>13. /\ \A j : Limit(j)' = Limit(j)
       /\ \A j \in Kind \ stale' :
            \/ a'[j].quota = Limit(j)'
            \/ j # k /\ j \notin stale /\ a'[j].quota = a[j].quota
  BY <1>0, <1>2, <1>3, <1>9, <1>10, SetReaches, Zenon
<1>14. ASSUME NEW j \in Kind \ stale', a.alive, j # k, j \notin stale,
              a'[j].quota = a[j].quota
       PROVE  Reaching(j)'
  <2>1. CASE k = "limit"
    <3>1. j = "alarm" /\ control'.at # "idle"
      BY <1>7, <1>14, <2>1 DEF Kind
    <3>. QED  BY <3>1, Zenon DEF Reaching, Sets
  <2>2. CASE k = "alarm"
    <3>1. ~Sets(control, j)
      BY <1>14, <2>2 DEF Sets
    <3>2. Reaching(j)
      BY <1>14, Zenon DEF RateInv, LimitsReaching
    <3>. QED  BY <1>9, <1>13, <1>14, <3>1, <3>2, Zenon DEF Reaching, Sets
  <2>. QED  BY <1>8, <2>1, <2>2, Zenon
<1>15. LimitsReaching'
  BY <1>2, <1>3, <1>13, <1>14, Zenon DEF LimitsReaching, Reaching
<1>. QED  BY <1>2, <1>3, <1>7, <1>11, <1>12, <1>15, Zenon

\* A command, and the visit of the session by it.
LEMMA Commands ==
    ASSUME RateInv, Command \/ Visit \/ ControlReadsLimit
    PROVE  InTurn' /\ LimitsReaching' /\ control' \in Thread
<1>0. control \in Thread /\ control.kind \in Kind
  BY ThreadFields, Zenon DEF RateInv, TypeOK
<1>1. CASE Command
  <2>1. PICK x \in {"visit all", "visit vhost"} : control' = [control EXCEPT !.at = x]
    BY <1>1, Zenon DEF Command
  <2>2. control.at = "idle" /\ io' = io /\ a' = a
    BY <1>1, Zenon DEF Command
  <2>3. control'.at = x /\ control'.kind = "limit" /\ control' \in Thread
    <3>1. control'.at = x /\ control'.kind = control.kind /\ control' \in Thread
      BY <1>0, <2>1, Zenon DEF Thread
    <3>. QED  BY <2>2, <3>1, Zenon DEF RateInv, InTurn
  <2>4. x # "idle"
    BY <2>1
  <2>5. InTurn'
    BY <2>1, <2>2, <2>3, Zenon DEF RateInv, InTurn
  <2>6. LimitsReaching'
    BY <2>3, <2>4, Zenon DEF LimitsReaching, Reaching, Sets
  <2>. QED  BY <2>3, <2>5, <2>6, Zenon
<1>2. CASE Visit
  <2>. DEFINE visited == /\ a.alive /\ io.at # "accepting"
                         /\ control.at = "visit all" \/ VhostKnown
              x == IF visited THEN "read" ELSE "idle"
  <2>1. /\ control' = [control EXCEPT !.at = x] /\ UNCHANGED <<a, io, manager, stale>>
        /\ control.at \in {"visit all", "visit vhost"}
    BY <1>2, Zenon DEF Visit
  <2>2. x \in {"read", "idle"} /\ (x = "idle" <=> ~visited)
    OBVIOUS
  <2>3. control'.at = x /\ control'.kind = "limit" /\ control' \in Thread
    <3>. HIDE DEF x
    <3>1. control'.at = x /\ control'.kind = control.kind /\ control' \in Thread
      BY <1>0, <2>1, <2>2, Zenon DEF Thread
    <3>. QED  BY <2>1, <3>1, Zenon DEF RateInv, InTurn
  <2>. HIDE DEF x
  <2>4. InTurn'
    BY <2>1, <2>2, <2>3, Zenon DEF RateInv, InTurn
  <2>5. a.alive /\ ~visited => io.at # "opened" /\ io.kind = "limit"
    <3>1. a.alive /\ ~visited => io.at \in {"accepting", "unopened"}
      BY <2>1, Zenon DEF VhostKnown
    <3>2. io.at \in {"accepting", "unopened"} => io.at # "opened"
      OBVIOUS
    <3>. QED  BY <3>1, <3>2, Zenon DEF RateInv, InTurn
  <2>. HIDE DEF visited
  <2>6. LimitsReaching'
    BY <2>1, <2>2, <2>3, <2>5, Zenon DEF LimitsReaching, Reaching, Sets
  <2>. QED  BY <2>3, <2>4, <2>6, Zenon
<1>3. CASE ControlReadsLimit
  <2>1. /\ control' = ReadLimit(control) /\ control.at = "read"
        /\ UNCHANGED <<a, io, manager, stale>>
    BY <1>3, Zenon DEF ControlReadsLimit
  <2>2. control' \in Thread /\ control'.at = "set" /\ control'.kind = control.kind
    BY <1>0, <2>1, ThreadSteps, Zenon DEF RateInv
  <2>3. "read" # "idle" /\ "set" # "idle" /\ "set" \notin {"idle", "visit all", "visit vhost"}
    OBVIOUS
  <2>4. InTurn'
    BY <2>1, <2>2, <2>3, Zenon DEF RateInv, InTurn
  <2>5. \A k : Limit(k)' = Limit(k)
    BY <2>1, Zenon DEF Limit, VhostKnown
  <2>6. LimitsReaching'
    BY <2>1, <2>2, <2>3, <2>5, Zenon DEF RateInv, LimitsReaching, Reaching, Sets
  <2>. QED  BY <2>2, <2>4, <2>6, Zenon
<1>. QED  BY <1>1, <1>2, <1>3, Zenon

\* What the client sends and the session reads, and the limits that an operator
\* sets, keep their types.
LEMMA CountersTyped ==
    ASSUME RateInv, Next
    PROVE  /\ bounds' \in Bounds
           /\ backlog' \in 0..(bounds'.backlog) /\ cmds' \in 0..MaxCommands
           /\ manager' \in [Kind -> [default : Quota, vhost : Quotas \cup {NoQuota}]]
           /\ stale' \subseteq Kind
<1>. DEFINE Entry == [default : Quota, vhost : Quotas \cup {NoQuota}]
<1>0. /\ bounds' = bounds /\ bounds \in Bounds
      /\ backlog \in 0..bounds.backlog /\ cmds \in 0..MaxCommands
      /\ manager \in [Kind -> Entry] /\ stale \subseteq Kind
      /\ io \in Thread /\ control \in Thread
  BY Zenon DEF RateInv, TypeOK, Next
<1>1. bounds.backlog \in Nat /\ MaxCommands \in Nat /\ MaxRead \in Nat \ {0}
  BY <1>0, DataRateAssumption, Zenon
<1>2. backlog' \in 0..(bounds'.backlog)
  <2>1. CASE UNCHANGED backlog
    BY <1>0, <2>1, Zenon
  <2>2. CASE ClientSends
    BY <1>0, <1>1, <2>2 DEF ClientSends
  <2>3. CASE ReadSome
    <3>1. CASE ~a.open
      BY <1>0, <2>3, <3>1, Zenon DEF ReadSome
    <3>2. CASE a.open
      <4>1. PICK n \in 1..Min({backlog, MaxRead}) : backlog' = backlog - n
        BY <2>3, <3>2, Zenon DEF ReadSome
      <4>2. backlog \in Int /\ MaxRead \in Int
        BY <1>0, <1>1
      <4>3. Min({backlog, MaxRead}) = IF backlog <= MaxRead THEN backlog ELSE MaxRead
        BY <4>2, MinMax, Zenon
      <4>. QED  BY <1>0, <1>1, <4>1, <4>2, <4>3
    <3>. QED  BY <3>1, <3>2, Zenon
  <2>. QED
    BY <2>1, <2>2, <2>3, Zenon
       DEF Next, Handlers, Control, Poll, Written, Refresh, ResumeRead, Aborted, Listed,
           IoReadsLimit, IoSetsLimit, Visit, ControlReadsLimit, ControlSetsLimit,
           Command, Close, Destroy, Expire
<1>3. cmds' \in 0..MaxCommands
  <2>1. CASE UNCHANGED cmds
    BY <1>0, <2>1, Zenon
  <2>2. CASE Command
    <3>1. cmds < MaxCommands /\ cmds' = cmds + 1
      BY <2>2, Zenon DEF Command
    <3>. QED  BY <1>0, <1>1, <3>1
  <2>. QED
    BY <2>1, <2>2, Zenon
       DEF Next, Handlers, Control, Handle, Poll, ReadSome, Written, Refresh, ResumeRead,
           Aborted, Listed, IoReadsLimit, IoSetsLimit, Visit, ControlReadsLimit,
           ControlSetsLimit, Close, Destroy, Expire, ClientSends
<1>4. manager' \in [Kind -> Entry]
  <2>1. CASE UNCHANGED manager
    BY <1>0, <2>1, Zenon
  <2>2. CASE Command
    <3>1. PICK k \in Kind :
             \/ \E q \in Quota : manager' = DefaultSet(k, q)
             \/ \E q \in Quotas \cup {NoQuota} : manager' = VhostSet(k, q)
      BY <2>2, Zenon DEF Command
    <3>2. manager[k] \in Entry
      BY <1>0, Zenon
    <3>3. CASE \E q \in Quota : manager' = DefaultSet(k, q)
      <4>1. PICK q \in Quota : manager' = DefaultSet(k, q)
        BY <3>3, Zenon
      <4>2. [manager[k] EXCEPT !.default = q] \in Entry
        BY <3>2, Zenon
      <4>. HIDE DEF Entry
      <4>. QED  BY <1>0, <4>1, <4>2 DEF DefaultSet
    <3>4. CASE \E q \in Quotas \cup {NoQuota} : manager' = VhostSet(k, q)
      <4>1. PICK q \in Quotas \cup {NoQuota} : manager' = VhostSet(k, q)
        BY <3>4, Zenon
      <4>2. [manager[k] EXCEPT !.vhost = q] \in Entry
        BY <3>2, Zenon
      <4>. HIDE DEF Entry
      <4>. QED  BY <1>0, <4>1, <4>2 DEF VhostSet
    <3>. QED  BY <3>1, <3>3, <3>4, Zenon
  <2>. QED
    BY <2>1, <2>2, Zenon
       DEF Next, Handlers, Control, limits, Poll, ReadSome, Written, Refresh, ResumeRead,
           Aborted, Listed, IoReadsLimit, IoSetsLimit, Visit, ControlReadsLimit,
           ControlSetsLimit, Close, Destroy, Expire, ClientSends
<1>5. stale' \subseteq Kind
  <2>1. io.kind \in Kind /\ control.kind \in Kind
    BY <1>0, ThreadFields, Zenon
  <2>2. CASE UNCHANGED stale
    BY <1>0, <2>2, Zenon
  <2>3. CASE IoSetsLimit \/ ControlSetsLimit
    BY <1>0, <2>1, <2>3 DEF IoSetsLimit, ControlSetsLimit, NowStale
  <2>. QED
    BY <2>2, <2>3, Zenon
       DEF Next, Handlers, Control, limits, Poll, ReadSome, Written, Refresh, ResumeRead,
           Aborted, Listed, IoReadsLimit, Visit, ControlReadsLimit,
           Command, Close, Destroy, Expire, ClientSends
<1>. QED  BY <1>0, <1>2, <1>3, <1>4, <1>5, Zenon

\* The invariant holds when the session is accepted.
LEMMA InitRate ==
    ASSUME Init
    PROVE  RateInv
<1>. DEFINE d == bounds.default
<1>0. bounds \in Bounds /\ d \in [Kind -> Quota] /\ bounds.backlog \in Nat
  BY DataRateAssumption, Zenon DEF Init
<1>1. d.limit \in Quota /\ d.alarm \in Quota
  <2>1. "limit" \in Kind /\ "alarm" \in Kind
    BY DEF Kind
  <2>. QED  BY <1>0, <2>1, Zenon
<1>2. /\ manager = [k \in Kind |-> [default |-> d[k], vhost |-> NoQuota]]
      /\ a = [limit |-> [Unused EXCEPT !.quota = d.limit],
              alarm |-> [Unused EXCEPT !.quota = d.alarm],
              alarmed |-> FALSE, started |-> FALSE, open |-> TRUE, alive |-> TRUE,
              wait |-> "none", expired |-> FALSE, queue |-> <<"poll">>,
              io |-> "reading", used |-> 0, cap |-> Unlimited, lost |-> FALSE]
      /\ backlog = 0 /\ cmds = 0
      /\ io = Resting("accepting") /\ control = Resting("idle") /\ stale = {}
  BY Zenon DEF Init
<1>. HIDE DEF d
<1>3. /\ [Unused EXCEPT !.quota = d.limit] \in LimitType
      /\ [Unused EXCEPT !.quota = d.alarm] \in LimitType
  <2>1. Unused \in LimitType
    <3>1. Unlimited \in Quota /\ Unlimited \in 0..Unlimited
      BY DataRateAssumption DEF Quota
    <3>. QED  BY <3>1, Zenon DEF Unused, LimitType
  <2>. QED  BY <1>1, <2>1, Zenon DEF LimitType
<1>4. <<"poll">> \in Seq(Ready) /\ ~AtWork(<<"poll">>) /\ Single(<<"poll">>)
  <2>1. "poll" \in Ready /\ "poll" \notin Work
    BY DEF Ready, Work
  <2>. QED  BY <2>1, ShortQueues, Zenon
<1>5. /\ a.started = FALSE /\ a.wait = "none" /\ a.queue = <<"poll">>
      /\ a.io = "reading" /\ a.cap = Unlimited
  BY <1>2
<1>6. a \in AdaptorType
  <2>1. Unlimited \in Quota /\ 0 \in 0..MaxUsed
    BY QuotaTypes DEF Quota
  <2>2. /\ "none" \in {"none", "refresh", "read"} /\ FALSE \in BOOLEAN /\ TRUE \in BOOLEAN
        /\ "reading" \in {"reading", "writing", "none"}
    OBVIOUS
  <2>. DEFINE l == [Unused EXCEPT !.quota = d.limit]
              m == [Unused EXCEPT !.quota = d.alarm]
  <2>. HIDE DEF l, m
  <2>3. l \in LimitType /\ m \in LimitType
    BY <1>3, Zenon DEF l, m
  <2>4. a = [limit |-> l, alarm |-> m,
             alarmed |-> FALSE, started |-> FALSE, open |-> TRUE, alive |-> TRUE,
             wait |-> "none", expired |-> FALSE, queue |-> <<"poll">>,
             io |-> "reading", used |-> 0, cap |-> Unlimited, lost |-> FALSE]
    BY <1>2, Zenon DEF l, m
  <2>. QED  BY <1>4, <2>1, <2>2, <2>3, <2>4, Zenon DEF AdaptorType, LimitType
<1>7. Sound(a)
  <2>1. "none" # "read" /\ "reading" # "none"
    OBVIOUS
  <2>. QED
    BY <1>4, <1>5, <1>6, <2>1, Zenon
       DEF Sound, Timed, Exclusive, Counted, MayRead, Limited, Capped
<1>8. /\ io.at = "accepting" /\ io.kind = "limit"
      /\ control.at = "idle" /\ control.kind = "limit"
  BY <1>2, Zenon DEF Resting
<1>9. io \in Thread /\ control \in Thread
  <2>1. "limit" \in Kind /\ Unlimited \in Quota
    BY DEF Kind, Quota
  <2>. QED  BY <1>2, <2>1, Zenon DEF Resting, Thread
<1>10. manager \in [Kind -> [default : Quota, vhost : Quotas \cup {NoQuota}]]
  <2>1. \A k \in Kind : d[k] \in Quota
    BY <1>0, Zenon DEF d
  <2>2. \A k \in Kind : [default |-> d[k], vhost |-> NoQuota]
                           \in [default : Quota, vhost : Quotas \cup {NoQuota}]
    BY <2>1, Zenon
  <2>. QED  BY <1>2, <2>2, Zenon
<1>11. TypeOK
  <2>1. backlog \in 0..bounds.backlog /\ cmds \in 0..MaxCommands
    BY <1>0, <1>2, DataRateAssumption
  <2>. QED  BY <1>2, <1>6, <1>9, <1>10, <2>1, Zenon DEF TypeOK
<1>12. Ongoing
  <2>1. "reading" # "none" /\ "accepting" \notin {"read", "set"}
    OBVIOUS
  <2>. QED  BY <1>5, <1>8, <2>1, Zenon DEF Ongoing, Busy, GoesOn, Waiting
<1>13. InTurn /\ LimitsReaching
  <2>1. "accepting" # "opened"
    OBVIOUS
  <2>. QED  BY <1>8, <2>1, Zenon DEF InTurn, LimitsReaching, Reaching, Sets
<1>. QED  BY <1>0, <1>7, <1>11, <1>12, <1>13, Zenon DEF RateInv

\* Every step keeps the invariant.
LEMMA NextRate ==
    ASSUME RateInv, Next
    PROVE  RateInv'
<1>0. /\ TypeOK /\ Sound(a) /\ Ongoing /\ InTurn /\ io \in Thread /\ control \in Thread
      /\ backlog \in 0..bounds.backlog /\ bounds \in Bounds
  BY Zenon DEF RateInv, TypeOK
<1>1. backlog \in Nat
  BY <1>0
<1>3. Free => ~Busy
  BY DEF Free, Busy
<1>4. ~Busy => GoesOn(a)
  BY <1>0, Zenon DEF Ongoing
<1>5. SUFFICES /\ Sound(a') /\ Ongoing' /\ InTurn' /\ LimitsReaching'
               /\ io' \in Thread /\ control' \in Thread
  <2>1. Sound(a') => a' \in AdaptorType
    BY Zenon DEF Sound
  <2>. QED  BY <1>5, <2>1, CountersTyped, Zenon DEF RateInv, TypeOK
<1>6. ASSUME Handled, Free, UNCHANGED <<io, control, stale, manager>>
      PROVE  /\ Sound(a') /\ Ongoing' /\ InTurn' /\ LimitsReaching'
             /\ io' \in Thread /\ control' \in Thread
  <2>1. /\ Sound(a') /\ GoesOn(a') /\ (a'.alive => a.alive)
        /\ a'.limit.quota = a.limit.quota /\ a'.alarm.quota = a.alarm.quota
    BY <1>6, Zenon DEF Handled, Same
  <2>2. InTurn' /\ LimitsReaching'
    BY <1>6, <2>1, ReachingKept, Zenon
  <2>3. Ongoing'
    BY <1>3, <1>6, <2>1, Zenon DEF Ongoing, Busy
  <2>. QED  BY <1>0, <1>6, <2>1, <2>2, <2>3, Zenon
<1>7. CASE Poll
  <2>1. Free /\ UNCHANGED <<io, control, stale, manager>>
    BY <1>7, Zenon DEF Poll, Handle, limits
  <2>. QED  BY <1>0, <1>3, <1>4, <1>6, <1>7, <2>1, PollSound, Zenon
<1>8. CASE Written \/ Refresh \/ ResumeRead \/ Aborted
  <2>1. Free /\ UNCHANGED <<io, control, stale, manager>>
    BY <1>8, Zenon DEF Written, Refresh, ResumeRead, Aborted, Handle, limits
  <2>. QED  BY <1>0, <1>3, <1>4, <1>6, <1>8, <2>1, HandlersSound, Zenon
<1>9. CASE ReadSome
  <2>1. Free /\ UNCHANGED <<control, stale, manager>>
    BY <1>9, Zenon DEF ReadSome, Handle
  <2>2. Sound(a') /\ Same(a, a') /\ Ongoing'
    BY <1>0, <1>1, <1>3, <1>4, <1>9, <2>1, ReadSomeSound, Zenon
  <2>3. io' = io \/ (io.at = "unopened" /\ io' = [io EXCEPT !.at = "read"])
    BY <1>9, Zenon DEF ReadSome
  <2>4. CASE io' = io
    <3>1. InTurn' /\ LimitsReaching'
      BY <2>1, <2>2, <2>4, ReachingKept, Zenon DEF Same
    <3>. QED  BY <1>0, <2>1, <2>2, <2>4, <3>1, Zenon
  <2>5. CASE io.at = "unopened" /\ io' = [io EXCEPT !.at = "read"]
    <3>1. InTurn' /\ LimitsReaching'
      BY <2>1, <2>5, IoOpens, Zenon
    <3>2. io' \in Thread
      BY <1>0, <2>5, Zenon DEF Thread
    <3>. QED  BY <1>0, <2>1, <2>2, <3>1, <3>2, Zenon
  <2>. QED  BY <2>3, <2>4, <2>5, Zenon
<1>10. CASE Listed
  <2>1. /\ io.at = "accepting" /\ io' = [io EXCEPT !.at = "unopened"]
        /\ UNCHANGED <<a, manager, control, stale>>
    BY <1>10, Zenon DEF Listed
  <2>2. io' \in Thread /\ io'.at = "unopened" /\ io'.kind = io.kind
    BY <1>0, <2>1, Zenon DEF Thread
  <2>3. ~Busy /\ ~Busy'
    BY <2>1, <2>2 DEF Busy
  <2>4. InTurn' /\ LimitsReaching'
    BY <2>1, <2>2, IoMoves, Zenon
  <2>5. Ongoing'
    BY <1>4, <2>1, <2>3, Zenon DEF Ongoing
  <2>. QED  BY <1>0, <2>1, <2>2, <2>4, <2>5, Zenon
<1>11. CASE IoReadsLimit
  <2>1. /\ io.at = "read" /\ io' = ReadLimit(io)
        /\ UNCHANGED <<a, manager, control, stale>>
    BY <1>11, Zenon DEF IoReadsLimit
  <2>2. io' \in Thread /\ io'.at = "set" /\ io'.kind = io.kind
    BY <1>0, <2>1, ThreadSteps, Zenon
  <2>3. Busy /\ Busy'
    BY <2>1, <2>2 DEF Busy
  <2>4. InTurn' /\ LimitsReaching'
    BY <2>1, <2>2, IoMoves, Zenon
  <2>5. Ongoing'
    BY <1>0, <2>1, <2>3, Zenon DEF Ongoing
  <2>. QED  BY <1>0, <2>1, <2>2, <2>4, <2>5, Zenon
<1>12. CASE IoSetsLimit
  <2>1. control' = control
    BY <1>12, Zenon DEF IoSetsLimit
  <2>. QED  BY <1>0, <1>12, <2>1, IoSets, Zenon
<1>13. CASE ControlSetsLimit
  <2>1. io' = io
    BY <1>13, Zenon DEF ControlSetsLimit
  <2>. QED  BY <1>0, <1>13, <2>1, ControlSets, Zenon
<1>14. CASE Command \/ Visit \/ ControlReadsLimit
  <2>1. io' = io /\ a' = a
    BY <1>14, Zenon DEF Command, Visit, ControlReadsLimit
  <2>2. Sound(a') /\ Ongoing'
    BY <1>0, <2>1, Zenon DEF Ongoing, Busy
  <2>. QED  BY <1>0, <1>14, <2>1, <2>2, Commands, Zenon
<1>15. CASE ClientSends
  <2>1. a' = a /\ UNCHANGED <<io, control, stale, manager>>
    BY <1>15, Zenon DEF ClientSends, limits
  <2>2. InTurn' /\ LimitsReaching'
    BY <2>1, ReachingKept, Zenon
  <2>3. Sound(a') /\ Ongoing'
    BY <1>0, <2>1, Zenon DEF Ongoing, Busy
  <2>. QED  BY <1>0, <2>1, <2>2, <2>3, Zenon
<1>16. CASE Close \/ Destroy
  <2>1. ~Busy /\ UNCHANGED <<io, control, stale, manager>>
    <3>1. Close \/ Destroy => Free
      BY Zenon DEF Close, Destroy, Held
    <3>. QED  BY <1>3, <1>16, <3>1, Zenon DEF Close, Destroy, limits
  <2>2. /\ Sound(a') /\ GoesOn(a') /\ a'.limit = a.limit /\ a'.alarm = a.alarm
        /\ a'.alive => a.alive
    BY <1>0, <1>4, <1>16, <2>1, EndsSound, Zenon
  <2>3. InTurn' /\ LimitsReaching'
    BY <2>1, <2>2, ReachingKept, Zenon
  <2>4. Ongoing'
    BY <2>1, <2>2, Zenon DEF Ongoing, Busy
  <2>. QED  BY <1>0, <2>1, <2>2, <2>3, <2>4, Zenon
<1>17. CASE Expire
  <2>1. UNCHANGED <<io, control, stale, manager>>
    BY <1>17, Zenon DEF Expire, limits
  <2>2. /\ Sound(a') /\ (GoesOn(a) => GoesOn(a')) /\ (Waiting(a') <=> Waiting(a))
        /\ a'.limit = a.limit /\ a'.alarm = a.alarm /\ a'.alive = a.alive
    BY <1>0, <1>17, ExpireSound, Zenon
  <2>3. InTurn' /\ LimitsReaching'
    BY <2>1, <2>2, ReachingKept, Zenon
  <2>4. Ongoing'
    BY <1>0, <2>1, <2>2, Zenon DEF Ongoing, Busy
  <2>. QED  BY <1>0, <2>1, <2>2, <2>3, <2>4, Zenon
<1>. QED
  BY <1>7, <1>8, <1>9, <1>10, <1>11, <1>12, <1>13, <1>14, <1>15, <1>16, <1>17, Zenon
     DEF Next, Handlers, Control

\* A step that changes nothing keeps it too.
LEMMA StutterRate ==
    ASSUME RateInv, UNCHANGED vars
    PROVE  RateInv'
BY Zenon
   DEF RateInv, vars, TypeOK, Ongoing, Busy, InTurn, LimitsReaching, Reaching, Sets,
       Limit, VhostKnown, Sound

\* The limits, the adaptor, its queue and both threads keep their types, and the
\* invariant that the three properties follow from always holds.
THEOREM RateInvariant == Spec => [](TypeOK /\ RateInv)
<1>1. Init => RateInv
  BY InitRate
<1>2. RateInv /\ [Next]_vars => RateInv'
  BY NextRate, StutterRate
<1>3. RateInv => TypeOK
  BY Zenon DEF RateInv
<1>. QED  BY <1>1, <1>2, <1>3, PTL DEF Spec

\* Reading goes on (async_read_some, onTimer): the timer of a session that has
\* begun to count never stops, and an open session always waits for something,
\* for every quota and however the limits change, except after a refresh that
\* cancelled the paused read.
THEOREM ReadingGoesOn == Spec => []ReadsGoOn
<1>1. RateInv => ReadsGoOn
  <2>. SUFFICES ASSUME RateInv PROVE ReadsGoOn
    OBVIOUS
  <2>1. Sound(a) /\ Ongoing /\ (Free => ~Busy)
    BY DEF RateInv, Free, Busy
  <2>2. Free => GoesOn(a)
    BY <2>1, Zenon DEF Ongoing
  <2>3. AtWork(a.queue) => \/ Contains(a.queue, "readable") \/ Contains(a.queue, "written")
                           \/ Contains(a.queue, "read")
    BY Zenon DEF AtWork, Work
  <2>. QED  BY <2>1, <2>2, <2>3, Zenon
            DEF ReadsGoOn, Queued, Contains, Sound, Timed, GoesOn, Waiting
<1>. QED  BY <1>1, RateInvariant, PTL

\* No more than the quota is read in a second, but for the read that passes it
\* (recordUsage, async_read_some), whatever is set meanwhile.
THEOREM QuotaAlwaysEnforced == Spec => []QuotaEnforced
<1>1. RateInv => QuotaEnforced
  BY Zenon DEF RateInv, Sound, Counted, Limited, AtLeastOne, QuotaEnforced
<1>. QED  BY <1>1, RateInvariant, PTL

\* The limits reach the session (updateDataRateLimits), however LIMIT commands and
\* the opening of the session overlap, unless an old value was set last.
THEOREM LimitsAlwaysReach == Spec => []LimitsReachSession
<1>1. RateInv => LimitsReachSession
  BY Zenon
     DEF RateInv, LimitsReaching, Reaching, LimitsReachSession, PrintVhostLimits
<1>. QED  BY <1>1, RateInvariant, PTL

=============================================================================
