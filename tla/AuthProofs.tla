----------------------------- MODULE AuthProofs -----------------------------
(***************************************************************************)
(* Authentication implements Authority, step by step, for any number of    *)
(* clients, services and backends; and the ages of resolved addresses.     *)
(***************************************************************************)
EXTENDS Auth, TLAPS

-----------------------------------------------------------------------------
(* Sequences *)

\* A handler is queued behind the others.
LEMMA AppendFacts ==
    ASSUME NEW S, NEW q \in Seq(S), NEW e \in S
    PROVE  /\ Append(q, e) \in Seq(S)
           /\ Len(Append(q, e)) = Len(q) + 1
           /\ \A i \in 1..Len(q) : Append(q, e)[i] = q[i]
           /\ Append(q, e)[Len(q) + 1] = e
OBVIOUS

\* The first handler leaves the queue.
LEMMA TailFacts ==
    ASSUME NEW S, NEW q \in Seq(S), q # <<>>
    PROVE  /\ 1 \in 1..Len(q) /\ Head(q) = q[1] /\ Head(q) \in S
           /\ Tail(q) \in Seq(S)
           /\ Len(Tail(q)) + 1 = Len(q) /\ Len(Tail(q)) \in Nat
           /\ \A i \in 1..Len(Tail(q)) : Tail(q)[i] = q[i + 1] /\ i + 1 \in 1..Len(q)
OBVIOUS

-----------------------------------------------------------------------------
(* The invariant *)

\* A handler is for a client that is where the handler expects it.
Fits(h, s) ==
    /\ h.do = "allow" => s[h.x].at = "posted"
    /\ h.do \in {"hit", "lookup"} =>
          s[h.x].at = IF h.then = "onResolve" THEN "resolving" ELSE "routing"

LookupFits(l, s) ==
    s[l.x].at = IF l.then = "onResolve" THEN "resolving" ELSE "routing"

\* A handler that will change the session of a client.
Concerns(h, x) == h.do # "cleanup" /\ h.x = x

\* Nothing is under way for a client.
Free(q, lk, x) ==
    /\ \A i \in 1..Len(q) : ~Concerns(q[i], x)
    /\ \A l \in lk : l.x # x

\* Each handler and lookup finds its client waiting for it, and no client has
\* two of them.
Ordered(q, lk, s) ==
    /\ \A i \in 1..Len(q) : Fits(q[i], s)
    /\ \A i, j \in 1..Len(q) :
          i # j /\ q[i].do # "cleanup" /\ q[j].do # "cleanup" => q[i].x # q[j].x
    /\ \A l \in lk : LookupFits(l, s)
    /\ \A l, m \in lk : l.x = m.x => l = m
    /\ \A l \in lk, i \in 1..Len(q) : ~Concerns(q[i], l.x)

\* What a session remembers agrees with where it is.
SessionOK(s) ==
    /\ s.at \in Waiting \cup {"new", "accepted"} => s.result = "none"
    /\ s.at \in {"routing", "dialing", "connected"} => s.result = "allow"
    /\ s.said # "none" => s.at \in {"writing", "reading"}
    /\ s.at \in {"resolving", "connecting", "writing", "reading"} => s.using # Always
    /\ s.at = "posted" => s.using = Always

\* No answer in the queue is older than its kind may be, and younger still if
\* the one cleanup there can be is ahead of it.
Young(q, tm) ==
    /\ \A i \in 1..Len(q) :
          /\ q[i].do = "lookup" => q[i].ans.age <= 1
          /\ q[i].do = "hit" => q[i].ans.age <= 2
          /\ tm = "armed" => q[i].do # "cleanup"
    /\ \A i, j \in 1..Len(q) : i < j /\ q[i].do = "cleanup" =>
          /\ q[j].do # "cleanup"
          /\ q[j].do = "lookup" => q[j].ans.age = 0
          /\ q[j].do = "hit" => q[j].ans.age <= 1

\* What holds of the queue and of what it refers to.
Queued(q, lk, s, tm) ==
    /\ q \in Seq(Handlers) /\ lk \subseteq Lookups /\ s \in [Clients -> Sessions]
    /\ Ordered(q, lk, s)
    /\ Young(q, tm)

CacheOK(c) == \A h \in DOMAIN c : h \in Hosts /\ c[h] \in Answers /\ c[h].age <= 1

IInv ==
    /\ intercept \in Services \cup {Always}
    /\ \A x \in Clients : SessionOK(session[x])
    /\ Queued(queue, lookups, session, timer)
    /\ CacheOK(cache)
    /\ timer \in {"armed", "idle"} /\ cmds \in 0..MaxCommands

-----------------------------------------------------------------------------
(* The queue *)

\* What a handler that runs leaves behind has nothing more for its client.
LEMMA TailOrdered ==
    ASSUME NEW q \in Seq(Handlers), q # <<>>, NEW lk, NEW s, Ordered(q, lk, s)
    PROVE  /\ Ordered(Tail(q), lk, s) /\ Fits(Head(q), s)
           /\ Head(q).do # "cleanup" => Free(Tail(q), lk, Head(q).x)
<1>1. /\ 1 \in 1..Len(q) /\ Head(q) = q[1] /\ Len(Tail(q)) \in Nat
      /\ \A i \in 1..Len(Tail(q)) :
            Tail(q)[i] = q[i + 1] /\ i + 1 \in 1..Len(q) /\ i \in Nat
  BY TailFacts
<1>2. \A i, j \in 1..Len(Tail(q)) : i # j => i + 1 # j + 1
  BY <1>1
<1>3. \A i \in 1..Len(Tail(q)) : i + 1 # 1
  BY <1>1
<1>4. \A l \in lk : ~Concerns(q[1], l.x)
  BY <1>1 DEF Ordered
<1>5. Ordered(Tail(q), lk, s)
  <2>. DEFINE r == Tail(q)
  <2>1. \A i \in 1..Len(r) : Fits(r[i], s)
    BY <1>1 DEF Ordered
  <2>2. \A i, j \in 1..Len(r) :
           i # j /\ r[i].do # "cleanup" /\ r[j].do # "cleanup" => r[i].x # r[j].x
    BY <1>1, <1>2 DEF Ordered
  <2>3. \A l \in lk, i \in 1..Len(r) : ~Concerns(r[i], l.x)
    BY <1>1 DEF Ordered
  <2>. QED  BY <2>1, <2>2, <2>3 DEF Ordered
<1>6. Head(q).do # "cleanup" => Free(Tail(q), lk, Head(q).x)
  BY <1>1, <1>3, <1>4 DEF Free, Ordered, Concerns
<1>. QED  BY <1>1, <1>5, <1>6 DEF Ordered

\* The session of a client that nothing is under way for may change.
LEMMA ChangeOrdered ==
    ASSUME NEW q \in Seq(Handlers), NEW lk \in SUBSET Lookups,
           NEW s \in [Clients -> Sessions], NEW x \in Clients, NEW t \in Sessions,
           Ordered(q, lk, s), Free(q, lk, x) \/ t.at = s[x].at
    PROVE  Ordered(q, lk, [s EXCEPT ![x] = t])
<1>. DEFINE u == [s EXCEPT ![x] = t]
<1>1. \A y \in Clients : u[y].at = s[y].at \/ (y = x /\ Free(q, lk, x))
  OBVIOUS
<1>2. \A i \in 1..Len(q) : q[i] \in Handlers
  OBVIOUS
<1>3. \A i \in 1..Len(q) : q[i].do = "cleanup" \/ q[i].x \in Clients
  BY <1>2 DEF Handlers
<1>4. \A i \in 1..Len(q) : q[i].do = "cleanup" \/ u[q[i].x].at = s[q[i].x].at
  BY <1>1, <1>3 DEF Free, Concerns
<1>5. \A l \in lk : u[l.x].at = s[l.x].at
  BY <1>1 DEF Free, Lookups
<1>. HIDE DEF u
<1>6. \A i \in 1..Len(q) : Fits(q[i], u)
  BY <1>4 DEF Ordered, Fits
<1>7. \A l \in lk : LookupFits(l, u)
  BY <1>5 DEF Ordered, LookupFits
<1>8. Ordered(q, lk, u)
  BY <1>6, <1>7 DEF Ordered
<1>. QED  BY <1>8 DEF u

\* A handler may be queued for a client that nothing is under way for.
LEMMA AppendOrdered ==
    ASSUME NEW q \in Seq(Handlers), NEW lk, NEW s, NEW h \in Handlers,
           Ordered(q, lk, s), Fits(h, s),
           h.do # "cleanup" => Free(q, lk, h.x)
    PROVE  Ordered(Append(q, h), lk, s)
<1>. DEFINE r == Append(q, h)
            n == Len(q) + 1
<1>1. /\ Len(q) \in Nat /\ Len(r) = n
      /\ \A i \in 1..Len(q) : r[i] = q[i] 
      /\ r[n] = h
  BY AppendFacts
<1>2. \A i \in 1..Len(r) : i \in 1..Len(q) \/ i = n
  BY <1>1
<1>. HIDE DEF r, n
<1>3. \A i \in 1..Len(r) : Fits(r[i], s)
  BY <1>1, <1>2 DEF Ordered
<1>4. \A i, j \in 1..Len(r) :
         i # j /\ r[i].do # "cleanup" /\ r[j].do # "cleanup" => r[i].x # r[j].x
  BY <1>1, <1>2 DEF Ordered, Free, Concerns
<1>5. \A l \in lk, i \in 1..Len(r) : ~Concerns(r[i], l.x)
  BY <1>1, <1>2 DEF Ordered, Free, Concerns
<1>6. Ordered(r, lk, s)
  BY <1>3, <1>4, <1>5 DEF Ordered
<1>. QED  BY <1>6 DEF r

\* So may a lookup.
LEMMA LookupOrdered ==
    ASSUME NEW q, NEW lk, NEW s, NEW l, Ordered(q, lk, s), LookupFits(l, s),
           Free(q, lk, l.x)
    PROVE  Ordered(q, lk \cup {l}, s)
BY DEF Ordered, Free

\* Handlers and lookups are only for clients in three states.
LEMMA NothingUnderWay ==
    ASSUME NEW q \in Seq(Handlers), NEW lk, NEW s, Ordered(q, lk, s), NEW x,
           s[x].at \notin {"posted", "resolving", "routing"}
    PROVE  Free(q, lk, x)
<1>1. \A i \in 1..Len(q) : q[i] \in Handlers
  OBVIOUS
<1>2. \A i \in 1..Len(q) : q[i].do \in {"cleanup", "allow", "hit", "lookup"}
  BY <1>1 DEF Handlers
<1>. QED  BY <1>2 DEF Ordered, Free, Fits, LookupFits, Concerns

\* The others move up.
LEMMA TailYoung ==
    ASSUME NEW q \in Seq(Handlers), q # <<>>, NEW tm, Young(q, tm)
    PROVE  Young(Tail(q), tm)
<1>. DEFINE r == Tail(q)
<1>1. /\ Len(r) \in Nat
      /\ \A i \in 1..Len(r) : r[i] = q[i + 1] /\ i + 1 \in 1..Len(q)
  BY TailFacts
<1>2. \A i, j \in 1..Len(r) : i < j => i + 1 < j + 1
  BY <1>1
<1>. HIDE DEF r
<1>3. Young(r, tm)
  BY <1>1, <1>2, ZenonT(60) DEF Young
<1>. QED  BY <1>3 DEF r

\* A new answer comes behind.
LEMMA AppendYoung ==
    ASSUME NEW q \in Seq(Handlers), NEW h \in Handlers, NEW tm, Young(q, tm),
           h.do # "cleanup",
           h.do = "hit" => h.ans.age <= 1,
           h.do = "lookup" => h.ans.age = 0
    PROVE  Young(Append(q, h), tm)
<1>. DEFINE r == Append(q, h)
            n == Len(q) + 1
<1>1. /\ Len(q) \in Nat /\ Len(r) = n
      /\ \A i \in 1..Len(q) : r[i] = q[i] /\ ~(n < i)
      /\ r[n] = h /\ ~(n < n)
  BY AppendFacts
<1>2. \A i \in 1..Len(r) : i \in 1..Len(q) \/ i = n
  BY <1>1
<1>3. /\ h.do = "hit" => h.ans.age <= 2
      /\ h.do = "lookup" => h.ans.age <= 1
  BY DEF Handlers, Answers
<1>. HIDE DEF r, n
<1>4. Young(r, tm)
  BY <1>1, <1>2, <1>3 DEF Young
<1>. QED  BY <1>4 DEF r

-----------------------------------------------------------------------------
(* The helpers of the actions *)

\* The callback of resolve will find its client where it is now.
LEMMA Resolved ==
    ASSUME NEW x \in Clients, NEW then \in {"onResolve", "backend"},
           NEW host \in Hosts, NEW q, NEW s,
           CacheOK(cache), Queued(q, lookups, s, timer), Free(q, lookups, x),
           s[x].at = IF then = "onResolve" THEN "resolving" ELSE "routing",
           Resolve(x, then, host, q)
    PROVE  Queued(queue', lookups', s, timer)
<1>1. CASE host \in DOMAIN cache
  <2>. DEFINE h == [do |-> "hit", x |-> x, then |-> then, host |-> host,
                    ans |-> cache[host]]
  <2>1. h \in Handlers /\ h.ans.age <= 1
    BY <1>1 DEF Handlers, CacheOK
  <2>2. Fits(h, s)
    BY DEF Fits
  <2>3. queue' = Append(q, h) /\ lookups' = lookups
    BY <1>1 DEF Resolve
  <2>4. h.do = "hit" /\ h.x = x
    OBVIOUS
  <2>. HIDE DEF h
  <2>5. Ordered(Append(q, h), lookups, s)
    BY <2>1, <2>2, <2>4, AppendOrdered DEF Queued
  <2>6. Young(Append(q, h), timer)
    BY <2>1, <2>4, AppendYoung DEF Queued
  <2>7. Append(q, h) \in Seq(Handlers)
    BY <2>1, AppendFacts DEF Queued
  <2>. QED  BY <2>3, <2>5, <2>6, <2>7 DEF Queued
<1>2. CASE host \notin DOMAIN cache
  <2>. DEFINE l == [x |-> x, then |-> then, host |-> host]
  <2>1. l \in Lookups /\ l.x = x /\ LookupFits(l, s)
    BY DEF Lookups, LookupFits
  <2>2. queue' = q /\ lookups' = lookups \cup {l}
    BY <1>2 DEF Resolve
  <2>. HIDE DEF l
  <2>3. Ordered(q, lookups \cup {l}, s)
    BY <2>1, LookupOrdered DEF Queued
  <2>. QED  BY <2>1, <2>2, <2>3 DEF Queued
<1>. QED  BY <1>1, <1>2

\* The session of a client that nothing is under way for may change.
LEMMA ChangeQueued ==
    ASSUME NEW x \in Clients, NEW t \in Sessions, NEW q, NEW lk, NEW s, NEW tm,
           Queued(q, lk, s, tm), Free(q, lk, x) \/ t.at = s[x].at
    PROVE  Queued(q, lk, [s EXCEPT ![x] = t], tm)
BY ChangeOrdered, ZenonT(30) DEF Queued

\* attemptConnection closes the session or has its next backend resolved.
LEMMA Attempted ==
    ASSUME NEW x \in Clients, NEW s \in Sessions, NEW q,
           CacheOK(cache), Queued(q, lookups, session, timer), Free(q, lookups, x),
           s.result = "allow", s.said = "none", AttemptConnection(x, s, q)
    PROVE  /\ Queued(queue', lookups', session', timer)
           /\ \E t \in Sessions :
                 /\ session' = [session EXCEPT ![x] = t]
                 /\ t.result = "allow" /\ t.said = "none" /\ t.using = s.using
                 /\ t.at \in {"closed", "routing"} /\ t.given = NoAnswer
<1>1. CASE s.gone \/ s.retry > Len(Backends)
  <2>1. /\ Closed(s) \in Sessions
        /\ Closed(s).result = "allow" /\ Closed(s).said = "none"
        /\ Closed(s).using = s.using /\ Closed(s).at = "closed"
        /\ Closed(s).given = NoAnswer
    BY ZenonT(30) DEF Closed, Sessions
  <2>2. /\ session' = [session EXCEPT ![x] = Closed(s)]
        /\ queue' = q /\ lookups' = lookups
    BY <1>1 DEF AttemptConnection
  <2>3. Queued(q, lookups, [session EXCEPT ![x] = Closed(s)], timer)
    BY <2>1, ChangeQueued
  <2>. QED  BY <2>1, <2>2, <2>3, ZenonT(30)
<1>2. CASE ~(s.gone \/ s.retry > Len(Backends))
  <2>. DEFINE t == [s EXCEPT !.at = "routing", !.given = NoAnswer]
  <2>1. /\ t \in Sessions
        /\ t.result = "allow" /\ t.said = "none"
        /\ t.using = s.using /\ t.at = "routing" /\ t.given = NoAnswer
    BY ZenonT(30) DEF Sessions
  <2>2. Backends[s.retry] \in Hosts
    BY <1>2, ConstantsAssumption DEF Hosts, Sessions
  <2>3. /\ session' = [session EXCEPT ![x] = t]
        /\ Resolve(x, "backend", Backends[s.retry], q)
    BY <1>2 DEF AttemptConnection
  <2>. HIDE DEF t
  <2>4. Queued(q, lookups, session', timer)
    BY <2>1, <2>3, ChangeQueued, ZenonT(30)
  <2>5. session'[x].at = "routing"
    BY <2>1, <2>3 DEF Queued
  <2>6. Queued(queue', lookups', session', timer)
    BY <2>2, <2>3, <2>4, <2>5, Resolved, ZenonT(30)
  <2>. QED  BY <2>1, <2>3, <2>6, ZenonT(30)
<1>. QED  BY <1>1, <1>2

\* authResponseCb settles the answer.
LEMMA Responded ==
    ASSUME NEW x \in Clients, NEW q, NEW result,
           CacheOK(cache), Queued(q, lookups, session, timer), Free(q, lookups, x),
           AuthResponseCb(x, result, q)
    PROVE  /\ Queued(queue', lookups', session', timer)
           /\ \E t \in Sessions :
                 /\ session' = [session EXCEPT ![x] = t]
                 /\ t.result = IF result = "allow" THEN "allow" ELSE "deny"
                 /\ t.said = "none" /\ t.using = session[x].using
                 /\ t.at \in {"closed", "routing"} /\ t.given = NoAnswer
                 /\ result # "allow" => t.at = "closed"
<1>0. session[x] \in Sessions
  BY DEF Queued
<1>1. CASE result = "allow"
  <2>. DEFINE s == [session[x] EXCEPT !.result = "allow", !.said = "none"]
  <2>1. /\ s \in Sessions /\ s.result = "allow" /\ s.said = "none"
        /\ s.using = session[x].using
    BY <1>0, ZenonT(30) DEF Sessions
  <2>2. AttemptConnection(x, s, q)
    BY <1>1 DEF AuthResponseCb
  <2>. HIDE DEF s
  <2>. QED  BY <1>1, <2>1, <2>2, Attempted
<1>2. CASE result # "allow"
  <2>. DEFINE t == [Closed(session[x]) EXCEPT !.result = "deny", !.said = "none"]
  <2>1. /\ t \in Sessions /\ t.result = "deny" /\ t.said = "none"
        /\ t.using = session[x].using /\ t.at = "closed" /\ t.given = NoAnswer
    BY <1>0, ZenonT(30) DEF Sessions, Closed
  <2>2. session' = [session EXCEPT ![x] = t] /\ queue' = q /\ lookups' = lookups
    BY <1>2 DEF AuthResponseCb, Queued
  <2>. HIDE DEF t
  <2>3. Queued(q, lookups, [session EXCEPT ![x] = t], timer)
    BY <2>1, ChangeQueued
  <2>. QED  BY <1>2, <2>1, <2>2, <2>3, ZenonT(30)
<1>. QED  BY <1>1, <1>2

-----------------------------------------------------------------------------
(* The steps *)

JudgedOf(s) == IF s.at \in Waiting THEN "asked" ELSE s.result

WordOf(s) == IF s.said \in {"none", "allow", "deny"} THEN s.said ELSE "unclear"

\* A session that starts to connect has been given a fresh answer.
FreshlyGiven(s, t) ==
    t.at \in {"connecting", "dialing"} /\ t.at # s.at => t.given.age <= 2

\* The step of Authority, if any, that the change of a session is.
Move(s, t) ==
    \/ JudgedOf(s) = "none" /\ JudgedOf(t) = "none" /\ WordOf(t) = WordOf(s)
    \/ /\ t.using = s.using
       /\ \/ JudgedOf(t) = JudgedOf(s) /\ WordOf(t) = WordOf(s)
          \/ JudgedOf(s) = "none" /\ JudgedOf(t) = "asked" /\ WordOf(t) = WordOf(s)
          \/ /\ JudgedOf(s) = "none" /\ JudgedOf(t) = "deny"
             /\ WordOf(t) = WordOf(s) /\ s.using # Always
          \/ JudgedOf(s) = "asked" /\ JudgedOf(t) = "asked" /\ WordOf(s) = "none"
          \/ /\ JudgedOf(s) = "asked" /\ JudgedOf(t) = "allow" /\ WordOf(t) = "none"
             /\ s.using = Always \/ WordOf(s) = "allow"
          \/ /\ JudgedOf(s) = "asked" /\ JudgedOf(t) = "deny" /\ WordOf(t) = "none"
             /\ s.using # Always

\* The answer a session holds has become older, and nothing else has changed.
OnlyHeld(s, t) ==
    /\ t.at = s.at /\ t.using = s.using /\ t.said = s.said /\ t.result = s.result

\* At most one session changes, and it makes a move, or the answers that the
\* sessions hold become older.
Advances ==
    \/ UNCHANGED session
    \/ \E x \in Clients, t \in Sessions :
          /\ session' = [session EXCEPT ![x] = t]
          /\ SessionOK(t) /\ Move(session[x], t) /\ FreshlyGiven(session[x], t)
    \/ \A x \in Clients : OnlyHeld(session[x], session'[x])

\* Any change of a waiting client to its answer.
LEMMA AnswerMoves ==
    ASSUME NEW s \in Sessions, NEW t \in Sessions, NEW result,
           SessionOK(s), s.at \in Waiting,
           result = "allow" => s.using = Always \/ s.said = "allow",
           result # "allow" => s.using # Always,
           t.result = IF result = "allow" THEN "allow" ELSE "deny",
           t.said = "none", t.using = s.using, t.given = NoAnswer,
           t.at \in {"closed", "routing"}, result # "allow" => t.at = "closed"
    PROVE  SessionOK(t) /\ Move(s, t) /\ FreshlyGiven(s, t)
<1>1. SessionOK(t) /\ FreshlyGiven(s, t)
  BY DEF SessionOK, FreshlyGiven, NoAnswer, Waiting
<1>2. JudgedOf(s) = "asked" /\ JudgedOf(t) = t.result /\ WordOf(t) = "none"
  BY DEF JudgedOf, WordOf, Waiting
<1>3. s.said = "allow" => WordOf(s) = "allow"
  BY DEF WordOf
<1>. QED  BY <1>1, <1>2, <1>3 DEF Move

\* A handler's turn: what its client waits for, and what stays behind.
LEMMA Turn ==
    ASSUME IInv, queue # <<>>, Head(queue).do # "cleanup"
    PROVE  /\ Head(queue) \in Handlers
           /\ Head(queue).x \in Clients
           /\ Queued(Tail(queue), lookups, session, timer)
           /\ Free(Tail(queue), lookups, Head(queue).x)
           /\ Fits(Head(queue), session)
<1>1. /\ queue \in Seq(Handlers) /\ Ordered(queue, lookups, session)
      /\ Young(queue, timer)
  BY DEF IInv, Queued
<1>2. Head(queue) \in Handlers /\ Tail(queue) \in Seq(Handlers)
  BY <1>1, TailFacts
<1>3. Head(queue).x \in Clients
  BY <1>2 DEF Handlers
<1>. QED  BY <1>1, <1>2, <1>3, TailOrdered, TailYoung DEF IInv, Queued

\* What a client waits for that no handler is queued for.
LEMMA Idle ==
    ASSUME IInv, NEW x \in Clients,
           session[x].at \notin {"posted", "resolving", "routing"}
    PROVE  Free(queue, lookups, x)
BY NothingUnderWay DEF IInv, Queued

\* The posted answer of the default.
LEMMA PostedStep ==
    ASSUME IInv, Posted
    PROVE  Queued(queue', lookups', session', timer) /\ Advances
<1>. DEFINE x == Head(queue).x
<1>1. /\ queue # <<>> /\ Head(queue).do = "allow"
      /\ AuthResponseCb(x, "allow", Tail(queue))
  BY DEF Posted
<1>2. /\ x \in Clients /\ Queued(Tail(queue), lookups, session, timer)
      /\ Free(Tail(queue), lookups, x) /\ session[x].at = "posted"
  BY <1>1, Turn DEF Fits
<1>. HIDE DEF x
<1>3. /\ session[x] \in Sessions /\ SessionOK(session[x]) /\ CacheOK(cache)
      /\ session[x].using = Always /\ session[x].at \in Waiting
  BY <1>2 DEF IInv, Queued, SessionOK, Waiting
<1>4. /\ Queued(queue', lookups', session', timer)
      /\ \E t \in Sessions :
            /\ session' = [session EXCEPT ![x] = t]
            /\ t.result = "allow" /\ t.said = "none" /\ t.using = session[x].using
            /\ t.at \in {"closed", "routing"} /\ t.given = NoAnswer
  BY <1>1, <1>2, <1>3, Responded
<1>. QED  BY <1>2, <1>3, <1>4, AnswerMoves, ZenonT(30) DEF Advances

\* The step of an exchange that fails denies.
LEMMA FailedStep ==
    ASSUME IInv, NEW x \in Clients, NEW q, NEW result, session[x].at \in Waiting,
           Queued(q, lookups, session, timer), Free(q, lookups, x),
           session[x].using # Always, result = "allow" => session[x].said = "allow",
           AuthResponseCb(x, result, q)
    PROVE  Queued(queue', lookups', session', timer) /\ Advances
<1>1. session[x] \in Sessions /\ SessionOK(session[x]) /\ CacheOK(cache)
  BY DEF IInv, Queued
<1>2. /\ Queued(queue', lookups', session', timer)
      /\ \E t \in Sessions :
            /\ session' = [session EXCEPT ![x] = t]
            /\ t.result = IF result = "allow" THEN "allow" ELSE "deny"
            /\ t.said = "none" /\ t.using = session[x].using
            /\ t.at \in {"closed", "routing"} /\ t.given = NoAnswer
            /\ result # "allow" => t.at = "closed"
  BY <1>1, Responded
<1>3. PICK t \in Sessions :
            /\ session' = [session EXCEPT ![x] = t]
            /\ t.result = IF result = "allow" THEN "allow" ELSE "deny"
            /\ t.said = "none" /\ t.using = session[x].using
            /\ t.at \in {"closed", "routing"} /\ t.given = NoAnswer
            /\ result # "allow" => t.at = "closed"
  BY <1>2, ZenonT(30)
<1>4. SessionOK(t) /\ Move(session[x], t) /\ FreshlyGiven(session[x], t)
  BY <1>1, <1>3, AnswerMoves
<1>. QED  BY <1>2, <1>3, <1>4, ZenonT(30) DEF Advances

\* A session with its retry counter one up.
LEMMA OneMore ==
    ASSUME NEW s \in Sessions
    PROVE  LET t == [s EXCEPT !.retry = @ + 1]
           IN  /\ t \in Sessions /\ t.said = s.said /\ t.result = s.result
               /\ t.using = s.using
<1>1. s.retry + 1 \in Nat \ {0}
  BY DEF Sessions
<1>2. \A n \in Nat \ {0} : [s EXCEPT !.retry = n] \in Sessions
  BY DEF Sessions
<1>3. [s EXCEPT !.retry = @ + 1] \in Sessions
  BY <1>1, <1>2
<1>. QED  BY <1>3 DEF Sessions

\* The next backend's turn changes nothing about the answer.
LEMMA RetryStep ==
    ASSUME IInv, NEW x \in Clients, NEW q, NEW s \in Sessions,
           session[x].at \in {"routing", "dialing"},
           Queued(q, lookups, session, timer), Free(q, lookups, x),
           s.result = session[x].result, s.said = session[x].said,
           s.using = session[x].using, AttemptConnection(x, s, q)
    PROVE  Queued(queue', lookups', session', timer) /\ Advances
<1>1. session[x] \in Sessions /\ SessionOK(session[x]) /\ CacheOK(cache)
  BY DEF IInv, Queued
<1>2. session[x].result = "allow" /\ session[x].said = "none"
  BY <1>1 DEF SessionOK
<1>3. /\ Queued(queue', lookups', session', timer)
      /\ \E t \in Sessions :
            /\ session' = [session EXCEPT ![x] = t]
            /\ t.result = "allow" /\ t.said = "none" /\ t.using = s.using
            /\ t.at \in {"closed", "routing"} /\ t.given = NoAnswer
  BY <1>1, <1>2, Attempted
<1>4. ASSUME NEW t \in Sessions, t.result = "allow", t.said = "none",
             t.using = s.using, t.at \in {"closed", "routing"}, t.given = NoAnswer
      PROVE  SessionOK(t) /\ Move(session[x], t) /\ FreshlyGiven(session[x], t)
  <2>1. SessionOK(t) /\ FreshlyGiven(session[x], t)
    BY <1>1, <1>2, <1>4, SMTT(30) DEF SessionOK, FreshlyGiven, Waiting, NoAnswer
  <2>2. JudgedOf(t) = "allow" /\ WordOf(t) = "none"
    BY <1>4, SMTT(30) DEF JudgedOf, WordOf, Waiting, NoAnswer
  <2>3. JudgedOf(session[x]) = "allow" /\ WordOf(session[x]) = "none"
    BY <1>1, <1>2, SMTT(30) DEF SessionOK, JudgedOf, WordOf, Waiting, NoAnswer
  <2>. QED  BY <1>1, <1>2, <1>4, <2>1, <2>2, <2>3, SMTT(30) DEF Move
<1>. QED  BY <1>3, <1>4, ZenonT(30) DEF Advances

\* A change that is neither queued nor answered: one session, one move.
LEMMA PlainStep ==
    ASSUME IInv, NEW x \in Clients, NEW t \in Sessions, NEW q,
           Queued(q, lookups, session, timer),
           Free(q, lookups, x) \/ t.at = session[x].at,
           session' = [session EXCEPT ![x] = t], queue' = q, lookups' = lookups,
           SessionOK(t), Move(session[x], t), FreshlyGiven(session[x], t)
    PROVE  Queued(queue', lookups', session', timer) /\ Advances
<1>1. Queued(q, lookups, [session EXCEPT ![x] = t], timer)
  BY ChangeQueued, ZenonT(30)
<1>. QED  BY <1>1, ZenonT(30) DEF Advances

\* The callback of a resolution.
LEMMA CallbackStep ==
    ASSUME IInv, queue # <<>>, Head(queue).do \in {"hit", "lookup"},
           Callback(Head(queue))
    PROVE  Queued(queue', lookups', session', timer) /\ Advances
<1>. DEFINE h == Head(queue)
            x == h.x
            q == Tail(queue)
<1>1. /\ x \in Clients /\ Queued(q, lookups, session, timer)
      /\ Free(q, lookups, x) /\ h \in Handlers
      /\ session[x].at = IF h.then = "onResolve" THEN "resolving" ELSE "routing"
  BY Turn DEF Fits
<1>2. h.ans \in Answers /\ h.ans.age <= 2
  <2>1. h = queue[1] /\ 1 \in 1..Len(queue) /\ Young(queue, timer)
    BY TailFacts DEF IInv, Queued
  <2>2. h.ans \in Answers
    BY <1>1 DEF Handlers
  <2>. QED  BY <2>1, <2>2 DEF Young, Answers
<1>3. /\ session \in [Clients -> Sessions] /\ session[x] \in Sessions
      /\ SessionOK(session[x])
  BY <1>1 DEF IInv, Queued
<1>4. CASE h.then = "onResolve"
  <2>1. session[x].using # Always /\ session[x].at \in Waiting
    BY <1>1, <1>3, <1>4 DEF SessionOK, Waiting
  <2>2. OnResolve(x, h.ans, q)
    BY <1>4 DEF Callback
  <2>. HIDE DEF h, x, q
  <2>3. CASE h.ans.is = "error"
    <3>1. AuthResponseCb(x, "deny", q)
      BY <2>2, <2>3 DEF OnResolve
    <3>. QED  BY <1>1, <2>1, <3>1, FailedStep
  <2>4. CASE h.ans.is # "error"
    <3>. DEFINE t == [session[x] EXCEPT !.at = "connecting", !.given = h.ans]
    <3>1. /\ session' = [session EXCEPT ![x] = t]
          /\ queue' = q /\ lookups' = lookups
      BY <1>1, <1>3, <2>2, <2>4, ZenonT(30) DEF OnResolve, Sessions
    <3>2. t \in Sessions /\ t.at = "connecting" /\ t.said = session[x].said
          /\ t.result = session[x].result /\ t.using = session[x].using
          /\ t.given = h.ans
      BY <1>2, <1>3, ZenonT(30) DEF Sessions
    <3>. HIDE DEF t
    <3>3. SessionOK(t) /\ Move(session[x], t) /\ FreshlyGiven(session[x], t)
      BY <1>1, <1>2, <1>3, <1>4, <3>2
      DEF SessionOK, FreshlyGiven, Move, JudgedOf, WordOf, Waiting
    <3>. QED  BY <1>1, <3>1, <3>2, <3>3, PlainStep, ZenonT(30)
  <2>. QED  BY <2>3, <2>4
<1>5. CASE h.then # "onResolve"
  <2>1. BackendResolved(x, h.ans, q)
    BY <1>5 DEF Callback
  <2>. HIDE DEF h, x, q
  <2>2. CASE h.ans.is = "some"
    <3>1. PICK n \in 0..MaxEndpoints - 1 :
             /\ session' = [session EXCEPT ![x] = [@ EXCEPT !.at = "dialing",
                                                !.given = h.ans, !.left = n]]
             /\ queue' = q /\ lookups' = lookups
      BY <2>1, <2>2, ZenonT(30) DEF BackendResolved
    <3>. DEFINE t == [session[x] EXCEPT !.at = "dialing", !.given = h.ans,
                                        !.left = n]
    <3>2. /\ session' = [session EXCEPT ![x] = t]
          /\ queue' = q /\ lookups' = lookups /\ n \in Nat
      BY <1>1, <1>3, <3>1, ConstantsAssumption
    <3>3. t \in Sessions /\ t.at = "dialing" /\ t.said = session[x].said
          /\ t.result = session[x].result /\ t.using = session[x].using
          /\ t.given = h.ans
      BY <1>2, <1>3, <3>2, ZenonT(30) DEF Sessions
    <3>. HIDE DEF t
    <3>4. SessionOK(t) /\ Move(session[x], t) /\ FreshlyGiven(session[x], t)
      BY <1>1, <1>2, <1>3, <1>5, <3>3
      DEF SessionOK, FreshlyGiven, Move, JudgedOf, WordOf, Waiting
    <3>. QED  BY <1>1, <3>2, <3>3, <3>4, PlainStep, ZenonT(30)
  <2>3. CASE h.ans.is # "some"
    <3>1. AttemptConnection(x, [session[x] EXCEPT !.retry = @ + 1], q)
      BY <2>1, <2>3 DEF BackendResolved
    <3>. QED  BY <1>1, <1>3, <1>5, <3>1, OneMore, RetryStep, ZenonT(30)
  <2>. QED  BY <2>2, <2>3
<1>. QED  BY <1>4, <1>5

\* The cache only gets answers of lookups.
LEMMA CacheStep ==
    ASSUME IInv, queue # <<>>, Head(queue).do = "lookup",
           SetCachedResolution(Head(queue).host, Head(queue).ans)
    PROVE  CacheOK(cache')
<1>. DEFINE h == Head(queue)
<1>1. h = queue[1] /\ 1 \in 1..Len(queue) /\ Young(queue, timer) /\ h \in Handlers
  BY TailFacts DEF IInv, Queued
<1>2. h.ans \in Answers /\ h.host \in Hosts /\ h.ans.age <= 1
  BY <1>1 DEF Handlers, Young
<1>. HIDE DEF h
<1>3. SetCachedResolution(h.host, h.ans) /\ CacheOK(cache)
  BY DEF h, IInv
<1>. QED  BY <1>2, <1>3 DEF SetCachedResolution, CacheOK

\* A lookup ends: its completion is queued in its place.
LEMMA AnsweredStep ==
    ASSUME IInv, Answered
    PROVE  Queued(queue', lookups', session, timer)
<1>1. PICK l \in lookups, is \in {"error", "empty", "some"} :
         /\ lookups' = lookups \ {l}
         /\ queue' = Append(queue, [do |-> "lookup", x |-> l.x, then |-> l.then,
                                    host |-> l.host,
                                    ans |-> [is |-> is, age |-> 0]])
  BY ZenonT(30) DEF Answered
<1>. DEFINE h == [do |-> "lookup", x |-> l.x, then |-> l.then, host |-> l.host,
                  ans |-> [is |-> is, age |-> 0]]
<1>2. l \in Lookups /\ [is |-> is, age |-> 0] \in Answers
  BY ConstantsAssumption DEF IInv, Queued, Answers
<1>3. /\ h \in Handlers /\ h.do = "lookup" /\ h.x = l.x /\ h.then = l.then
      /\ h.ans.age = 0
  BY <1>2 DEF Handlers, Lookups
<1>. HIDE DEF h
<1>4. Ordered(queue, lookups \ {l}, session) /\ Free(queue, lookups \ {l}, l.x)
      /\ LookupFits(l, session)
  BY DEF IInv, Queued, Ordered, Free
<1>5. Fits(h, session)
  BY <1>3, <1>4 DEF Fits, LookupFits
<1>6. Ordered(Append(queue, h), lookups \ {l}, session)
  BY <1>3, <1>4, <1>5, AppendOrdered DEF IInv, Queued
<1>7. Young(Append(queue, h), timer) /\ Append(queue, h) \in Seq(Handlers)
  BY <1>3, AppendYoung, AppendFacts DEF IInv, Queued
<1>8. queue' = Append(queue, h)
  BY <1>1 DEF h
<1>. QED  BY <1>1, <1>6, <1>7, <1>8 DEF IInv, Queued

\* The timer's handler is the only cleanup in the queue.
LEMMA ExpireStep ==
    ASSUME IInv, Expire
    PROVE  Queued(queue', lookups, session, timer')
<1>. DEFINE h == [do |-> "cleanup"]
            r == Append(queue, h)
            n == Len(queue) + 1
<1>1. h \in Handlers /\ h.do = "cleanup"
  BY DEF Handlers
<1>2. /\ Len(queue) \in Nat /\ Len(r) = n
      /\ \A i \in 1..Len(queue) : r[i] = queue[i] /\ ~(n < i)
      /\ r[n] = h /\ ~(n < n) /\ r \in Seq(Handlers)
  BY <1>1, AppendFacts DEF IInv, Queued
<1>3. \A i \in 1..Len(r) : i \in 1..Len(queue) \/ i = n
  BY <1>2
<1>4. Ordered(r, lookups, session)
  <2>1. Fits(h, session)
    BY <1>1 DEF Fits
  <2>. QED  BY <1>1, <2>1, AppendOrdered DEF IInv, Queued
<1>5. timer' = "idle" /\ timer = "armed" /\ queue' = r
  BY DEF Expire
<1>. HIDE DEF h, r, n
<1>6. \A i \in 1..Len(queue) : queue[i].do # "cleanup"
  BY <1>5 DEF IInv, Queued, Young
<1>7. Young(r, "idle")
  BY <1>1, <1>2, <1>3, <1>6 DEF IInv, Queued, Young
<1>. QED  BY <1>2, <1>4, <1>5, <1>7 DEF IInv, Queued

\* A cleanup makes every answer in the queue and with a session one older, and
\* empties the cache.
LEMMA CleanupStep ==
    ASSUME IInv, CleanupCache
    PROVE  /\ Queued(queue', lookups, session', timer') /\ CacheOK(cache')
           /\ \A x \in Clients : OnlyHeld(session[x], session'[x])
<1>. DEFINE q == Tail(queue)
            r == Aged(q)
<1>1. /\ queue \in Seq(Handlers) /\ queue # <<>> /\ queue[1].do = "cleanup"
      /\ Young(queue, timer) /\ Ordered(queue, lookups, session)
  BY TailFacts DEF IInv, Queued, CleanupCache
<1>2. q \in Seq(Handlers) /\ Ordered(q, lookups, session)
  BY <1>1, TailFacts, TailOrdered
<1>3. \A i \in 1..Len(q) :
         /\ q[i] \in Handlers
         /\ q[i].do # "cleanup"
         /\ q[i].do = "lookup" => q[i].ans.age = 0
         /\ q[i].do = "hit" => q[i].ans.age <= 1
  <2>1. /\ 1 \in 1..Len(queue) /\ Len(q) \in Nat
        /\ \A i \in 1..Len(q) : q[i] = queue[i + 1] /\ i + 1 \in 1..Len(queue)
    BY <1>1, TailFacts
  <2>2. \A i \in 1..Len(q) : 1 < i + 1
    BY <2>1
  <2>. QED  BY <1>1, <1>2, <2>1, <2>2 DEF Young
<1>. HIDE DEF q
<1>4. ASSUME NEW h \in Handlers, h.do # "cleanup"
      PROVE  LET g == IF h.do \in {"hit", "lookup"}
                      THEN [h EXCEPT !.ans = Older(@)] ELSE h
             IN  /\ g \in Handlers /\ g.do = h.do /\ g.x = h.x
                 /\ g.do \in {"hit", "lookup"} =>
                       /\ g.then = h.then
                       /\ g.ans.age <= h.ans.age + 1
                       /\ h.ans \in Answers
  <2>1. CASE h.do \in {"hit", "lookup"}
    <3>1. h.ans \in Answers
      BY <2>1 DEF Handlers
    <3>2. Older(h.ans) \in Answers /\ Older(h.ans).age <= h.ans.age + 1
      BY <3>1, ConstantsAssumption DEF Older, Answers
    <3>3. \A a \in Answers : [h EXCEPT !.ans = a] \in Handlers
      BY <2>1 DEF Handlers
    <3>4. [h EXCEPT !.ans = Older(@)] \in Handlers
      BY <3>2, <3>3
    <3>. HIDE DEF Older
    <3>5. /\ [h EXCEPT !.ans = Older(@)].do = h.do
          /\ [h EXCEPT !.ans = Older(@)].x = h.x
          /\ [h EXCEPT !.ans = Older(@)].then = h.then
          /\ [h EXCEPT !.ans = Older(@)].ans = Older(h.ans)
      BY <2>1 DEF Handlers
    <3>. QED  BY <2>1, <3>1, <3>2, <3>4, <3>5
  <2>2. CASE h.do \notin {"hit", "lookup"}
    BY <2>2
  <2>. QED  BY <2>1, <2>2
<1>5. /\ Len(q) \in Nat /\ r \in Seq(Handlers) /\ Len(r) = Len(q)
      /\ \A i \in 1..Len(q) :
            /\ r[i].do = q[i].do /\ r[i].x = q[i].x
            /\ r[i].do \in {"hit", "lookup"} =>
                  /\ r[i].then = q[i].then
                  /\ r[i].ans.age <= q[i].ans.age + 1
                  /\ r[i].ans \in Answers /\ q[i].ans \in Answers
  <2>1. DOMAIN q = 1..Len(q) /\ Len(q) \in Nat
    BY <1>2
  <2>2. r = [i \in 1..Len(q) |-> IF q[i].do \in {"hit", "lookup"}
                                 THEN [q[i] EXCEPT !.ans = Older(@)] ELSE q[i]]
    BY <2>1 DEF Aged
  <2>. HIDE DEF r
  <2>3. \A i \in 1..Len(q) :
            /\ r[i] \in Handlers
            /\ r[i].do = q[i].do /\ r[i].x = q[i].x
            /\ r[i].do \in {"hit", "lookup"} =>
                  /\ r[i].then = q[i].then
                  /\ r[i].ans.age <= q[i].ans.age + 1
                  /\ q[i].ans \in Answers
    <3>1. SUFFICES ASSUME NEW i \in 1..Len(q)
                   PROVE /\ r[i] \in Handlers
                         /\ r[i].do = q[i].do /\ r[i].x = q[i].x
                         /\ r[i].do \in {"hit", "lookup"} =>
                               /\ r[i].then = q[i].then
                               /\ r[i].ans.age <= q[i].ans.age + 1
                               /\ q[i].ans \in Answers
      OBVIOUS
    <3>2. r[i] = IF q[i].do \in {"hit", "lookup"}
                 THEN [q[i] EXCEPT !.ans = Older(@)] ELSE q[i]
      BY <2>2
    <3>. QED  BY <1>3, <1>4, <3>2
  <2>4. \A i \in 1..Len(q) : r[i].do \in {"hit", "lookup"} => r[i].ans \in Answers
    BY <2>3 DEF Handlers
  <2>5. r \in [1..Len(q) -> Handlers]
    BY <2>2, <2>3
  <2>6. r \in Seq(Handlers) /\ Len(r) = Len(q)
    BY <2>1, <2>5
  <2>. QED  BY <2>1, <2>3, <2>4, <2>6
<1>6. queue' = r /\ timer' = "armed" /\ cache' = [h \in {} |-> NoAnswer]
  BY DEF CleanupCache, q
<1>. HIDE DEF r
<1>7. Ordered(r, lookups, session)
  <2>1. \A i \in 1..Len(r) : Fits(r[i], session)
    BY <1>2, <1>5 DEF Ordered, Fits
  <2>. QED  BY <1>2, <1>5, <2>1, SMTT(30) DEF Ordered, Concerns
<1>8. Young(r, "armed")
  <2>1. \A i \in 1..Len(r) : r[i].do = "lookup" => r[i].ans.age <= 1
    BY <1>3, <1>5 DEF Answers
  <2>2. \A i \in 1..Len(r) : r[i].do = "hit" => r[i].ans.age <= 2
    BY <1>3, <1>5 DEF Answers
  <2>. QED  BY <1>3, <1>5, <2>1, <2>2 DEF Young
<1>9. /\ session' \in [Clients -> Sessions]
      /\ \A x \in Clients : OnlyHeld(session[x], session'[x])
  <2>1. session \in [Clients -> Sessions]
    BY DEF IInv, Queued
  <2>2. ASSUME NEW s \in Sessions
        PROVE  Holding(s) \in Sessions /\ OnlyHeld(s, Holding(s))
    <3>1. CASE s.given = NoAnswer
      BY <3>1 DEF Holding, OnlyHeld
    <3>2. CASE s.given # NoAnswer
      <4>1. s.given \in Answers
        BY <3>2 DEF Sessions
      <4>2. Older(s.given) \in Answers
        BY <4>1, ConstantsAssumption DEF Older, Answers
      <4>3. \A a \in Answers : /\ [s EXCEPT !.given = a] \in Sessions
                               /\ OnlyHeld(s, [s EXCEPT !.given = a])
        BY DEF Sessions, OnlyHeld
      <4>4. Holding(s) = [s EXCEPT !.given = Older(s.given)]
        BY <3>2 DEF Holding
      <4>. QED  BY <4>2, <4>3, <4>4
    <3>. QED  BY <3>1, <3>2
  <2>3. session' = [x \in Clients |-> Holding(session[x])]
    BY DEF CleanupCache
  <2>. QED  BY <2>1, <2>2, <2>3
<1>10. Ordered(r, lookups, session')
  <2>1. \A i \in 1..Len(r) : r[i].do = "cleanup" \/ r[i].x \in Clients
    BY <1>5 DEF Handlers
  <2>2. \A i \in 1..Len(r) : Fits(r[i], session')
    BY <1>7, <1>9, <2>1 DEF Ordered, Fits, OnlyHeld
  <2>3. \A l \in lookups : LookupFits(l, session')
    BY <1>7, <1>9 DEF IInv, Queued, Lookups, Ordered, LookupFits, OnlyHeld
  <2>. QED  BY <1>7, <2>2, <2>3 DEF Ordered
<1>. QED  BY <1>5, <1>6, <1>8, <1>9, <1>10 DEF IInv, Queued, CacheOK

\* The completion of an exchange's step that goes well.
LEMMA WentStep ==
    ASSUME IInv, NEW x \in Clients, NEW at, NEW next,
           <<at, next>> \in {<<"connecting", "writing">>, <<"writing", "reading">>},
           Went(x, at, next)
    PROVE  Queued(queue', lookups', session', timer) /\ Advances
<1>. DEFINE t == [session[x] EXCEPT !.at = next, !.given = NoAnswer]
<1>0. /\ at \in {"connecting", "writing"} /\ next \in {"writing", "reading"}
      /\ session[x] \in Sessions /\ session \in [Clients -> Sessions]
      /\ SessionOK(session[x]) /\ Queued(queue, lookups, session, timer)
  BY DEF IInv, Queued
<1>1. /\ session[x].at = at /\ session' = [session EXCEPT ![x] = t]
      /\ queue' = queue /\ lookups' = lookups
  BY <1>0, ZenonT(30) DEF Went, Sessions
<1>2. /\ t \in Sessions /\ t.at = next /\ t.said = session[x].said
      /\ t.result = session[x].result /\ t.using = session[x].using
      /\ t.given = NoAnswer
  BY <1>0, ZenonT(30) DEF Sessions
<1>3. Free(queue, lookups, x)
  BY <1>0, <1>1, Idle
<1>. HIDE DEF t
<1>4. SessionOK(t) /\ Move(session[x], t) /\ FreshlyGiven(session[x], t)
  <2>1. SessionOK(t) /\ FreshlyGiven(session[x], t)
    BY <1>0, <1>1, <1>2, SMTT(30) DEF SessionOK, FreshlyGiven, Waiting, NoAnswer
  <2>2. JudgedOf(t) = JudgedOf(session[x]) /\ WordOf(t) = WordOf(session[x])
    BY <1>0, <1>1, <1>2, SMTT(30) DEF JudgedOf, WordOf, Waiting
  <2>. QED  BY <1>2, <2>1, <2>2 DEF Move
<1>. QED  BY <1>0, <1>1, <1>2, <1>3, <1>4, PlainStep, ZenonT(30)

\* The completions of the exchange with the service.
LEMMA ExchangeStep ==
    ASSUME IInv, NEW x \in Clients, OnConnect(x) \/ OnWrite(x) \/ OnRead(x)
    PROVE  Queued(queue', lookups', session', timer) /\ Advances
<1>1. ASSUME NEW at \in {"connecting", "writing", "reading"}, session[x].at = at,
             NEW result, result = "allow" => session[x].said = "allow",
             AuthResponseCb(x, result, queue)
      PROVE  Queued(queue', lookups', session', timer) /\ Advances
  <2>1. /\ session[x].at \in Waiting /\ session[x].using # Always
        /\ Queued(queue, lookups, session, timer)
    BY <1>1 DEF IInv, SessionOK, Waiting
  <2>2. Free(queue, lookups, x)
    BY <1>1, Idle
  <2>. QED  BY <1>1, <2>1, <2>2, FailedStep
<1>2. ASSUME NEW at \in {"connecting", "writing", "reading"}, Failed(x, at)
      PROVE  Queued(queue', lookups', session', timer) /\ Advances
  BY <1>1, <1>2 DEF Failed
<1>3. CASE OnConnect(x)
  BY <1>2, <1>3, WentStep DEF OnConnect
<1>4. CASE OnWrite(x)
  BY <1>2, <1>4, WentStep DEF OnWrite
<1>5. CASE OnRead(x)
  <2>1. CASE Failed(x, "reading")
    BY <1>2, <2>1
  <2>2. CASE /\ session[x].at = "reading"
             /\ AuthResponseCb(x, IF session[x].said = "garbled" THEN "deny"
                                  ELSE session[x].said, queue)
    <3>. DEFINE result == IF session[x].said = "garbled" THEN "deny"
                          ELSE session[x].said
    <3>1. result = "allow" => session[x].said = "allow"
      OBVIOUS
    <3>2. AuthResponseCb(x, result, queue)
      BY <2>2
    <3>. HIDE DEF result
    <3>. QED  BY <1>1, <2>2, <3>1, <3>2
  <2>. QED  BY <1>5, <2>1, <2>2 DEF OnRead
<1>. QED  BY <1>3, <1>4, <1>5

\* A backend's connection succeeds or fails.
LEMMA DialedStep ==
    ASSUME IInv, NEW x \in Clients, Dialed(x)
    PROVE  Queued(queue', lookups', session', timer) /\ Advances
<1>1. /\ session[x].at = "dialing" /\ session[x] \in Sessions
      /\ session \in [Clients -> Sessions] /\ SessionOK(session[x])
      /\ Queued(queue, lookups, session, timer)
  BY DEF Dialed, IInv, Queued
<1>2. Free(queue, lookups, x)
  BY <1>1, Idle
<1>3. CASE /\ session' = [session EXCEPT ![x] = [@ EXCEPT !.at = "connected",
                                             !.given = NoAnswer, !.left = 0]]
           /\ UNCHANGED <<lookups, queue>>
  <2>. DEFINE t == [session[x] EXCEPT !.at = "connected", !.given = NoAnswer,
                                      !.left = 0]
  <2>1. session' = [session EXCEPT ![x] = t] /\ queue' = queue /\ lookups' = lookups
    BY <1>1, <1>3
  <2>2. /\ t \in Sessions /\ t.at = "connected" /\ t.said = session[x].said
        /\ t.result = session[x].result /\ t.using = session[x].using
        /\ t.given = NoAnswer
    BY <1>1, ZenonT(30) DEF Sessions
  <2>. HIDE DEF t
  <2>3. SessionOK(t) /\ Move(session[x], t) /\ FreshlyGiven(session[x], t)
    <3>1. SessionOK(t) /\ FreshlyGiven(session[x], t)
      BY <1>1, <2>2 DEF SessionOK, FreshlyGiven, Waiting, NoAnswer
    <3>2. JudgedOf(t) = JudgedOf(session[x]) /\ WordOf(t) = WordOf(session[x])
      BY <1>1, <2>2 DEF JudgedOf, WordOf, Waiting
    <3>. QED  BY <2>2, <3>1, <3>2 DEF Move
  <2>. QED  BY <1>1, <1>2, <2>1, <2>2, <2>3, PlainStep, ZenonT(30)
<1>4. CASE AttemptResolvedConnection(x) /\ session[x].left > 0
  <2>. DEFINE t == [session[x] EXCEPT !.left = @ - 1]
  <2>1. session' = [session EXCEPT ![x] = t] /\ queue' = queue /\ lookups' = lookups
    BY <1>1, <1>4 DEF AttemptResolvedConnection
  <2>2. session[x].left - 1 \in Nat
    BY <1>1, <1>4 DEF Sessions
  <2>3. \A n \in Nat : [session[x] EXCEPT !.left = n] \in Sessions
    BY <1>1 DEF Sessions
  <2>4. t \in Sessions
    BY <2>2, <2>3
  <2>5. /\ t.at = session[x].at /\ t.said = session[x].said
        /\ t.result = session[x].result /\ t.using = session[x].using
    BY <1>1 DEF Sessions
  <2>. HIDE DEF t
  <2>6. SessionOK(t) /\ Move(session[x], t) /\ FreshlyGiven(session[x], t)
    BY <1>1, <2>5 DEF SessionOK, FreshlyGiven, Move, JudgedOf, WordOf
  <2>. QED  BY <1>1, <2>1, <2>4, <2>5, <2>6, PlainStep, ZenonT(30)
<1>5. CASE AttemptResolvedConnection(x) /\ ~(session[x].left > 0)
  <2>1. AttemptConnection(x, [session[x] EXCEPT !.retry = @ + 1], queue)
    BY <1>5 DEF AttemptResolvedConnection
  <2>. QED  BY <1>1, <1>2, <2>1, OneMore, RetryStep, ZenonT(30)
<1>. QED  BY <1>3, <1>4, <1>5 DEF Dialed

\* Steps that change one field or two of a session and queue nothing.
LEMMA ClientStep ==
    ASSUME IInv, NEW x \in Clients, Accept(x) \/ Leave(x) \/ ServiceSays(x)
    PROVE  Queued(queue', lookups', session', timer) /\ Advances
<1>1. /\ session[x] \in Sessions /\ session \in [Clients -> Sessions]
      /\ SessionOK(session[x]) /\ Queued(queue, lookups, session, timer)
      /\ intercept \in Services \cup {Always}
  BY DEF IInv, Queued
<1>2. CASE Accept(x)
  <2>. DEFINE t == [session[x] EXCEPT !.at = "accepted", !.using = intercept]
  <2>1. /\ session' = [session EXCEPT ![x] = t] /\ queue' = queue
        /\ lookups' = lookups /\ session[x].at = "new"
    BY <1>1, <1>2, ZenonT(30) DEF Accept, Sessions
  <2>2. /\ t \in Sessions /\ t.at = "accepted" /\ t.said = session[x].said
        /\ t.result = session[x].result /\ t.given = session[x].given
    BY <1>1, ZenonT(30) DEF Sessions
  <2>. HIDE DEF t
  <2>3. SessionOK(t) /\ Move(session[x], t) /\ FreshlyGiven(session[x], t)
    BY <1>1, <2>1, <2>2 DEF SessionOK, FreshlyGiven, Move, JudgedOf, WordOf, Waiting
  <2>4. Free(queue, lookups, x)
    BY <2>1, Idle
  <2>. QED  BY <1>1, <2>1, <2>2, <2>3, <2>4, PlainStep, ZenonT(30)
<1>3. CASE Leave(x)
  <2>. DEFINE t == [session[x] EXCEPT !.gone = TRUE]
  <2>1. session' = [session EXCEPT ![x] = t] /\ queue' = queue /\ lookups' = lookups
    BY <1>1, <1>3 DEF Leave, Sessions
  <2>2. /\ t \in Sessions /\ t.at = session[x].at /\ t.said = session[x].said
        /\ t.result = session[x].result /\ t.using = session[x].using
        /\ t.given = session[x].given
    BY <1>1, ZenonT(30) DEF Sessions
  <2>. HIDE DEF t
  <2>3. SessionOK(t) /\ Move(session[x], t) /\ FreshlyGiven(session[x], t)
    BY <1>1, <2>2 DEF SessionOK, FreshlyGiven, Move, JudgedOf, WordOf
  <2>. QED  BY <1>1, <2>1, <2>2, <2>3, PlainStep, ZenonT(30)
<1>4. CASE ServiceSays(x)
  <2>1. PICK w \in {"allow", "deny", "unknown", "garbled"} :
           session' = [session EXCEPT ![x].said = w]
    BY <1>4, ZenonT(30) DEF ServiceSays
  <2>. DEFINE t == [session[x] EXCEPT !.said = w]
  <2>2. /\ session' = [session EXCEPT ![x] = t] /\ queue' = queue
        /\ lookups' = lookups /\ session[x].at \in {"writing", "reading"}
        /\ session[x].said = "none"
    BY <1>1, <1>4, <2>1, ZenonT(30) DEF ServiceSays, Sessions
  <2>3. /\ t \in Sessions /\ t.at = session[x].at
        /\ t.result = session[x].result /\ t.using = session[x].using
        /\ t.given = session[x].given
    BY <1>1 DEF Sessions
  <2>. HIDE DEF t
  <2>4. SessionOK(t) /\ Move(session[x], t) /\ FreshlyGiven(session[x], t)
    BY <1>1, <2>2, <2>3 DEF SessionOK, FreshlyGiven, Move, JudgedOf, WordOf, Waiting
  <2>. QED  BY <1>1, <2>2, <2>3, <2>4, PlainStep, ZenonT(30)
<1>. QED  BY <1>2, <1>3, <1>4

\* A session asks its mechanism.
LEMMA AuthenticateStep ==
    ASSUME IInv, NEW x \in Clients, Authenticate(x)
    PROVE  Queued(queue', lookups', session', timer) /\ Advances
<1>1. /\ session[x] \in Sessions /\ session \in [Clients -> Sessions]
      /\ SessionOK(session[x]) /\ Queued(queue, lookups, session, timer)
      /\ CacheOK(cache) /\ session[x].at = "accepted"
  BY DEF IInv, Queued, Authenticate
<1>2. /\ Free(queue, lookups, x)
      /\ session[x].result = "none" /\ session[x].said = "none"
  BY <1>1, Idle DEF SessionOK
<1>3. ASSUME NEW at \in {"posted", "resolving"},
             session' = [session EXCEPT ![x].at = at],
             at = "posted" <=> session[x].using = Always
      PROVE  /\ Queued(queue, lookups, session', timer) /\ Advances
             /\ session'[x].at = at
  <2>. DEFINE t == [session[x] EXCEPT !.at = at]
  <2>1. session' = [session EXCEPT ![x] = t]
    BY <1>1, <1>3 DEF Sessions
  <2>2. /\ t \in Sessions /\ t.at = at /\ t.said = session[x].said
        /\ t.result = session[x].result /\ t.using = session[x].using
        /\ t.given = session[x].given
    BY <1>1 DEF Sessions
  <2>. HIDE DEF t
  <2>3. SessionOK(t) /\ Move(session[x], t) /\ FreshlyGiven(session[x], t)
    BY <1>1, <1>2, <1>3, <2>2 DEF SessionOK, FreshlyGiven, Move, JudgedOf, WordOf, Waiting
  <2>4. Queued(queue, lookups, [session EXCEPT ![x] = t], timer)
    BY <1>1, <1>2, <2>2, ChangeQueued, ZenonT(30)
  <2>. QED  BY <1>1, <2>1, <2>2, <2>3, <2>4, ZenonT(30) DEF Advances
<1>4. CASE session[x].using = Always
  <2>. DEFINE h == [do |-> "allow", x |-> x]
  <2>1. /\ session' = [session EXCEPT ![x].at = "posted"]
        /\ queue' = Append(queue, h) /\ lookups' = lookups
    BY <1>4 DEF Authenticate, AuthenticateDefault
  <2>2. /\ Queued(queue, lookups, session', timer) /\ Advances
        /\ session'[x].at = "posted"
    BY <1>3, <1>4, <2>1
  <2>3. h \in Handlers /\ h.do = "allow" /\ h.x = x
    BY DEF Handlers
  <2>. HIDE DEF h
  <2>4. Fits(h, session')
    BY <2>2, <2>3 DEF Fits
  <2>5. Ordered(Append(queue, h), lookups, session')
    BY <1>2, <2>2, <2>3, <2>4, AppendOrdered DEF Queued
  <2>6. Young(Append(queue, h), timer) /\ Append(queue, h) \in Seq(Handlers)
    BY <2>2, <2>3, AppendYoung, AppendFacts DEF Queued
  <2>. QED  BY <2>1, <2>2, <2>5, <2>6 DEF Queued
<1>5. CASE session[x].using # Always
  <2>1. CASE AuthResponseCb(x, "deny", queue)
    <3>1. /\ Queued(queue', lookups', session', timer)
          /\ \E t \in Sessions :
                /\ session' = [session EXCEPT ![x] = t]
                /\ t.result = "deny" /\ t.said = "none"
                /\ t.using = session[x].using
                /\ t.at = "closed" /\ t.given = NoAnswer
      BY <1>1, <1>2, <2>1, Responded
    <3>2. ASSUME NEW t \in Sessions, t.result = "deny", t.said = "none",
                 t.using = session[x].using, t.at = "closed", t.given = NoAnswer
          PROVE  SessionOK(t) /\ Move(session[x], t) /\ FreshlyGiven(session[x], t)
      <4>1. SessionOK(t) /\ FreshlyGiven(session[x], t)
        BY <3>2 DEF SessionOK, FreshlyGiven, Waiting, NoAnswer
      <4>2. JudgedOf(t) = "deny" /\ WordOf(t) = "none"
        BY <3>2 DEF JudgedOf, WordOf, Waiting
      <4>3. JudgedOf(session[x]) = "none" /\ WordOf(session[x]) = "none"
        BY <1>1, <1>2 DEF SessionOK, JudgedOf, WordOf, Waiting
      <4>. QED  BY <1>5, <3>2, <4>1, <4>2, <4>3 DEF Move
    <3>. QED  BY <3>1, <3>2, ZenonT(30) DEF Advances
  <2>2. CASE /\ session' = [session EXCEPT ![x].at = "resolving"]
             /\ Resolve(x, "onResolve", session[x].using, queue)
    <3>1. /\ Queued(queue, lookups, session', timer) /\ Advances
          /\ session'[x].at = "resolving"
      BY <1>3, <1>5, <2>2
    <3>2. session[x].using \in Hosts
      BY <1>1, <1>5 DEF Sessions, Hosts
    <3>3. Queued(queue', lookups', session', timer)
      BY <1>1, <1>2, <2>2, <3>1, <3>2, Resolved, ZenonT(30)
    <3>. QED  BY <3>1, <3>3
  <2>. QED  BY <1>5, <2>1, <2>2 DEF Authenticate, AuthenticateHttp
<1>. QED  BY <1>4, <1>5

\* Every step keeps the invariant and is a move of at most one session.
LEMMA Step ==
    ASSUME IInv, Next
    PROVE  IInv' /\ Advances
<1>1. /\ Queued(queue', lookups', session', timer') /\ CacheOK(cache')
      /\ intercept' \in Services \cup {Always} /\ timer' \in {"armed", "idle"}
      /\ cmds' \in 0..MaxCommands /\ Advances
  <2>0. /\ intercept \in Services \cup {Always} /\ timer \in {"armed", "idle"}
        /\ cmds \in 0..MaxCommands /\ CacheOK(cache)
        /\ Queued(queue, lookups, session, timer)
    BY DEF IInv
  <2>1. CASE Posted
    BY <2>0, <2>1, PostedStep DEF Posted
  <2>2. CASE Hit
    BY <2>0, <2>2, CallbackStep DEF Hit
  <2>3. CASE Lookup
    BY <2>0, <2>3, CallbackStep, CacheStep DEF Lookup
  <2>4. CASE CleanupCache
    BY <2>0, <2>4, CleanupStep DEF CleanupCache, Advances
  <2>5. CASE Answered
    BY <2>0, <2>5, AnsweredStep, ZenonT(30) DEF Answered, Advances
  <2>6. CASE Expire
    BY <2>0, <2>6, ExpireStep DEF Expire, Advances
  <2>7. CASE AuthCommand
    <3>1. intercept' \in Services \cup {Always} /\ cmds' \in 0..MaxCommands
      BY <2>0, <2>7, ConstantsAssumption DEF AuthCommand, SetAuthIntercept
    <3>. QED  BY <2>0, <2>7, <3>1 DEF AuthCommand, Advances
  <2>8. ASSUME NEW x \in Clients, ClientNext(x)
        PROVE  /\ Queued(queue', lookups', session', timer') /\ CacheOK(cache')
               /\ intercept' \in Services \cup {Always}
               /\ timer' \in {"armed", "idle"}
               /\ cmds' \in 0..MaxCommands /\ Advances
    <3>1. UNCHANGED <<intercept, cache, timer, cmds>>
      BY <2>8 DEF ClientNext, Accept, Authenticate, Leave, Dialed, OnConnect,
                  OnWrite, ServiceSays, OnRead, Failed, Went
    <3>2. Queued(queue', lookups', session', timer) /\ Advances
      BY <2>8, AuthenticateStep, ClientStep, DialedStep, ExchangeStep
      DEF ClientNext
    <3>. QED  BY <2>0, <3>1, <3>2
  <2>. QED  BY <2>1, <2>2, <2>3, <2>4, <2>5, <2>6, <2>7, <2>8 DEF Next, Handle
<1>2. \A y \in Clients : SessionOK(session'[y])
  <2>1. CASE UNCHANGED session
    BY <2>1 DEF IInv
  <2>2. CASE \E x \in Clients, t \in Sessions :
                session' = [session EXCEPT ![x] = t] /\ SessionOK(t)
    <3>1. PICK x \in Clients, t \in Sessions :
                session' = [session EXCEPT ![x] = t] /\ SessionOK(t)
      BY <2>2, ZenonT(30)
    <3>2. \A y \in Clients : session'[y] = t \/ session'[y] = session[y]
      BY <3>1 DEF IInv, Queued
    <3>. QED  BY <3>1, <3>2 DEF IInv
  <2>3. CASE \A x \in Clients : OnlyHeld(session[x], session'[x])
    BY <2>3 DEF IInv, SessionOK, OnlyHeld
  <2>. QED  BY <1>1, <2>1, <2>2, <2>3 DEF Advances
<1>. QED  BY <1>1, <1>2 DEF IInv

\* What the server starts with.
LEMMA Start == Init => IInv
<1>. SUFFICES ASSUME Init PROVE IInv
  OBVIOUS
<1>. DEFINE s == [at |-> "new", using |-> Always, said |-> "none",
                  result |-> "none", retry |-> 1, gone |-> FALSE,
                  given |-> NoAnswer, left |-> 0]
<1>1. s \in Sessions /\ SessionOK(s)
  BY DEF Sessions, SessionOK, Waiting, NoAnswer
<1>2. session = [x \in Clients |-> s]
  BY DEF Init
<1>. HIDE DEF s
<1>3. session \in [Clients -> Sessions] /\ \A x \in Clients : SessionOK(session[x])
  BY <1>1, <1>2
<1>4. queue = <<>> /\ lookups = {} /\ queue \in Seq(Handlers) /\ Len(queue) = 0
  BY DEF Init
<1>5. Queued(queue, lookups, session, timer)
  <2>1. 1..Len(queue) = {}
    BY <1>4
  <2>2. Ordered(queue, lookups, session)
    BY <1>4, <2>1, SMTT(30) DEF Ordered
  <2>3. Young(queue, timer)
    BY <2>1, SMTT(30) DEF Young
  <2>. QED  BY <1>3, <1>4, <2>2, <2>3 DEF Queued
<1>6. CacheOK(cache)
  BY DEF Init, CacheOK
<1>7. /\ intercept \in Services \cup {Always}
      /\ timer \in {"armed", "idle"} /\ cmds \in 0..MaxCommands
  BY ConstantsAssumption DEF Init
<1>. QED  BY <1>3, <1>5, <1>6, <1>7 DEF IInv

-----------------------------------------------------------------------------
(* Theorems *)

\* The invariant holds throughout: each handler finds its client waiting for
\* it, no client has two, and what a session remembers fits where it is.
THEOREM Invariance == Spec => []IInv
<1>1. IInv /\ [Next]_vars => IInv'
  <2>. SUFFICES ASSUME IInv, [Next]_vars PROVE IInv'
    OBVIOUS
  <2>1. CASE Next
    BY <2>1, Step
  <2>2. CASE UNCHANGED vars
    BY <2>2 DEF vars, IInv, Queued, CacheOK
  <2>. QED  BY <2>1, <2>2
<1>. QED  BY <1>1, Start, PTL DEF Spec

\* The variables keep their types.
THEOREM TypeCorrect == Spec => []TypeOK
<1>1. IInv => TypeOK
  BY DEF IInv, Queued, CacheOK, TypeOK
<1>. QED  BY <1>1, Invariance, PTL

\* However many clients share the resolver, an answer it hands over is at most
\* two cleanups old (DNSResolver::resolve, resolveCb, cleanupCache).
THEOREM AlwaysFresh == Spec => AddressesFresh
<1>. DEFINE Fresh == \A x \in Clients :
                        /\ session'[x].at \in {"connecting", "dialing"}
                        /\ session'[x].at # session[x].at
                        => session'[x].given.age <= 2
<1>1. IInv /\ [Next]_vars => [Fresh]_vars
  <2>. SUFFICES ASSUME IInv, Next PROVE Fresh
    OBVIOUS
  <2>1. CASE UNCHANGED session
    BY <2>1
  <2>2. CASE \A x \in Clients : OnlyHeld(session[x], session'[x])
    BY <2>2 DEF OnlyHeld
  <2>3. CASE \E x \in Clients, t \in Sessions :
                /\ session' = [session EXCEPT ![x] = t]
                /\ FreshlyGiven(session[x], t)
    <3>1. PICK x \in Clients, t \in Sessions :
             session' = [session EXCEPT ![x] = t] /\ FreshlyGiven(session[x], t)
      BY <2>3, ZenonT(30)
    <3>2. \A y \in Clients :
             (y = x /\ session'[y] = t) \/ session'[y] = session[y]
      BY <3>1 DEF IInv, Queued
    <3>. QED  BY <3>1, <3>2 DEF FreshlyGiven
  <2>. QED  BY <2>1, <2>2, <2>3, Step DEF Advances
<1>. QED  BY <1>1, Invariance, PTL DEF Spec, AddressesFresh

\* A move of one session is a step of Authority or changes nothing there.
LEMMA MoveImplements ==
    ASSUME session \in [Clients -> Sessions], NEW x \in Clients, NEW t \in Sessions,
           session' = [session EXCEPT ![x] = t], Move(session[x], t)
    PROVE  [A!Next]_A!vars
<1>. DEFINE s == session[x]
            ans == [y \in Clients |-> Judged(y)]
            jdg == [y \in Clients |-> session[y].using]
            wrd == [y \in Clients |-> Word(y)]
<1>0. s \in Sessions /\ s.using \in Services \cup {Always}
      /\ t.using \in Services \cup {Always}
  BY DEF Sessions
<1>1. ans[x] = JudgedOf(s) /\ jdg[x] = s.using /\ wrd[x] = WordOf(s)
  BY DEF Judged, JudgedOf, Word, WordOf
<1>2. /\ ans' = [ans EXCEPT ![x] = JudgedOf(t)]
      /\ jdg' = [jdg EXCEPT ![x] = t.using]
      /\ wrd' = [wrd EXCEPT ![x] = WordOf(t)]
  <2>1. session'[x] = t /\ \A y \in Clients \ {x} : session'[y] = session[y]
    OBVIOUS
  <2>2. ans' = [ans EXCEPT ![x] = JudgedOf(t)]
    BY <2>1, ZenonT(30) DEF Judged, JudgedOf
  <2>3. jdg' = [jdg EXCEPT ![x] = t.using]
    BY <2>1, ZenonT(30)
  <2>4. wrd' = [wrd EXCEPT ![x] = WordOf(t)]
    BY <2>1, ZenonT(30) DEF Word, WordOf
  <2>. QED  BY <2>2, <2>3, <2>4
<1>3. /\ JudgedOf(t) = JudgedOf(s) => ans' = ans
      /\ t.using = s.using => jdg' = jdg
      /\ WordOf(t) = WordOf(s) => wrd' = wrd
  <2>1. /\ ans = [ans EXCEPT ![x] = ans[x]] /\ jdg = [jdg EXCEPT ![x] = jdg[x]]
        /\ wrd = [wrd EXCEPT ![x] = wrd[x]]
    BY ZenonT(30)
  <2>. HIDE DEF ans, jdg, wrd, s
  <2>. QED  BY <1>1, <1>2, <2>1
<1>4. WordOf(t) \in {"none", "allow", "deny", "unclear"}
  BY DEF WordOf
<1>5. CASE JudgedOf(s) = "none" /\ JudgedOf(t) = "none" /\ WordOf(t) = WordOf(s)
  <2>1. A!Settle(x)
    BY <1>0, <1>1, <1>2, <1>3, <1>5, ZenonT(30) DEF A!Settle
  <2>. QED  BY <2>1 DEF A!Next
<1>6. CASE /\ t.using = s.using /\ JudgedOf(t) = JudgedOf(s)
           /\ WordOf(t) = WordOf(s)
  BY <1>3, <1>6 DEF A!vars
<1>7. CASE /\ t.using = s.using /\ JudgedOf(s) = "none" /\ JudgedOf(t) = "asked"
           /\ WordOf(t) = WordOf(s)
  <2>1. A!Ask(x)
    BY <1>1, <1>2, <1>3, <1>7 DEF A!Ask
  <2>. QED  BY <2>1 DEF A!Next
<1>8. CASE /\ t.using = s.using /\ JudgedOf(s) = "none" /\ JudgedOf(t) = "deny"
           /\ WordOf(t) = WordOf(s) /\ s.using # Always
  <2>1. A!Refuse(x)
    BY <1>1, <1>2, <1>3, <1>8 DEF A!Refuse
  <2>. QED  BY <2>1 DEF A!Next
<1>9. CASE /\ t.using = s.using /\ JudgedOf(s) = "asked" /\ JudgedOf(t) = "asked"
           /\ WordOf(s) = "none" /\ WordOf(t) # "none"
  <2>1. A!Say(x)
    BY <1>1, <1>2, <1>3, <1>4, <1>9, ZenonT(30) DEF A!Say
  <2>. QED  BY <2>1 DEF A!Next
<1>10. CASE /\ t.using = s.using /\ JudgedOf(s) = "asked" /\ JudgedOf(t) = "allow"
            /\ WordOf(t) = "none" /\ (s.using = Always \/ WordOf(s) = "allow")
  <2>1. A!Allow(x)
    BY <1>1, <1>2, <1>3, <1>10 DEF A!Allow
  <2>. QED  BY <2>1 DEF A!Next
<1>11. CASE /\ t.using = s.using /\ JudgedOf(s) = "asked" /\ JudgedOf(t) = "deny"
            /\ WordOf(t) = "none" /\ s.using # Always
  <2>1. A!Deny(x)
    BY <1>1, <1>2, <1>3, <1>11 DEF A!Deny
  <2>. QED  BY <2>1 DEF A!Next
<1>. QED  BY <1>5, <1>6, <1>7, <1>8, <1>9, <1>10, <1>11 DEF Move

\* For any clients, services and backends, and whatever fails on the way: a
\* request is answered at most once, by the mechanism of the session's accept,
\* and ALLOW only if that mechanism allowed it (HttpAuthIntercept::on*,
\* DefaultAuthIntercept::authenticate, Session's authResponseCb).
THEOREM ImplementsAuthority == Spec => A!Spec
<1>1. Init => A!Init
  <2>. SUFFICES ASSUME Init PROVE A!Init
    OBVIOUS
  <2>1. \A x \in Clients : /\ Judged(x) = "none" /\ Word(x) = "none"
                            /\ session[x].using = Always
    BY DEF Init, Judged, Word, Waiting
  <2>. QED  BY <2>1 DEF A!Init
<1>2. IInv /\ [Next]_vars => [A!Next]_A!vars
  <2>. SUFFICES ASSUME IInv, [Next]_vars PROVE [A!Next]_A!vars
    OBVIOUS
  <2>1. CASE UNCHANGED session
    BY <2>1 DEF A!vars, Judged, Word
  <2>2. CASE \A x \in Clients : OnlyHeld(session[x], session'[x])
    <3>1. \A x \in Clients : /\ Judged(x)' = Judged(x) /\ Word(x)' = Word(x)
                              /\ session'[x].using = session[x].using
      BY <2>2 DEF OnlyHeld, Judged, Word
    <3>. QED  BY <3>1 DEF A!vars
  <2>3. CASE /\ Next /\ ~UNCHANGED session
             /\ ~\A x \in Clients : OnlyHeld(session[x], session'[x])
    <3>1. PICK x \in Clients, t \in Sessions :
             session' = [session EXCEPT ![x] = t] /\ Move(session[x], t)
      BY <2>3, Step DEF Advances
    <3>2. session \in [Clients -> Sessions]
      BY DEF IInv, Queued
    <3>. QED  BY <3>1, <3>2, MoveImplements, ZenonT(30)
  <2>. QED  BY <2>1, <2>2, <2>3 DEF vars
<1>. QED  BY <1>1, <1>2, Invariance, PTL DEF Spec, A!Spec

=============================================================================
