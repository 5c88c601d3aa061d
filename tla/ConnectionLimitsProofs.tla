----------------------- MODULE ConnectionLimitsProofs -----------------------
(***************************************************************************)
(* Which limit is in force is a matter of the commands alone; how many     *)
(* connections it lets through is one of the limiter's window.  Proofs for *)
(* any set of vhosts, limits and times.                                    *)
(***************************************************************************)
EXTENDS ConnectionLimits, TLAPS

\* The limiter l of a vhost for which c was set, when the default is d.
Follows(l, c, d) ==
    IF c # Null THEN l # Null /\ l.specific /\ l.limit = c
    ELSE l = Null \/ (~l.specific /\ d # Null /\ l.limit = d)

\* The inductive invariant: besides the limit also the flag of each limiter is
\* right, from which setDefault and removeDefault tell which ones to touch.
LimitersFollow ==
    \A k \in Kind, v \in Vhosts : Follows(limiters[k][v], chosen[k][v], default[k])

IInv == TypeOK /\ LimitersFollow

\* A limiter that is made is one.
LEMMA NewLimiterType ==
    ASSUME TypeOK, NEW s \in BOOLEAN, NEW n \in Limits
    PROVE  /\ NewLimiter(s, n) \in Limiter
           /\ NewLimiter(s, n).specific = s /\ NewLimiter(s, n).limit = n
           /\ NewLimiter(s, n) # Null
BY ConnectionLimitsAssumption DEF NewLimiter, Limiter, TypeOK

\* A limiter that is asked keeps its limit and its flag.
LEMMA AskedType ==
    ASSUME TypeOK, NEW l \in Limiter
    PROVE  /\ Asked(l) \in Limiter
           /\ Asked(l).specific = l.specific /\ Asked(l).limit = l.limit
           /\ Asked(l) # Null
<1>1. /\ NextWindow(l) \in Limiter
      /\ NextWindow(l).specific = l.specific /\ NextWindow(l).limit = l.limit
  BY ZenonT(30) DEF NextWindow, Limiter, TypeOK
<1>. QED BY <1>1, ConnectionLimitsAssumption DEF Asked, Limiter

\* maybePopulateDefaultLimiters makes only limiters that follow the default.
LEMMA PopulatedFollows ==
    ASSUME IInv, NEW k \in Kind, NEW v \in Vhosts
    PROVE  /\ Populated(k, v) \in Limiter \cup {Null}
           /\ Follows(Populated(k, v), chosen[k][v], default[k])
           /\ default[k] # Null => Populated(k, v) # Null
<1>1. /\ limiters[k][v] \in Limiter \cup {Null}
      /\ default[k] \in Limits \cup {Null}
      /\ Follows(limiters[k][v], chosen[k][v], default[k])
  BY DEF IInv, TypeOK, LimitersFollow
<1>2. CASE limiters[k][v] = Null /\ default[k] # Null
  <2>1. TypeOK /\ FALSE \in BOOLEAN /\ default[k] \in Limits
    BY <1>1, <1>2 DEF IInv
  <2>2. Populated(k, v) = NewLimiter(FALSE, default[k])
    BY <1>2 DEF Populated
  <2>3. chosen[k][v] = Null
    BY <1>1, <1>2 DEF Follows
  <2>. QED BY <1>2, <2>1, <2>2, <2>3, NewLimiterType, ZenonT(30) DEF Follows
<1>3. CASE ~(limiters[k][v] = Null /\ default[k] # Null)
  BY <1>1, <1>3, ZenonT(30) DEF Populated
<1>. QED BY <1>2, <1>3

\* The invariant gives the property: a vhost that has no limiter yet gets one
\* from the default when it is asked.
LEMMA FollowIsInForce == IInv => LimitInForce
<1>. SUFFICES ASSUME IInv, NEW k \in Kind, NEW v \in Vhosts
              PROVE  LET n == IF chosen[k][v] # Null THEN chosen[k][v] ELSE default[k]
                     IN  /\ PrintVhostLimits(k, v) = n
                         /\ IF n = Null THEN Populated(k, v) = Null
                            ELSE Populated(k, v) # Null /\ Populated(k, v).limit = n
  BY DEF LimitInForce, PrintAllLimits, GetDefault
<1>1. Follows(limiters[k][v], chosen[k][v], default[k])
  BY DEF IInv, LimitersFollow
<1>2. PrintVhostLimits(k, v) = IF chosen[k][v] # Null THEN chosen[k][v] ELSE default[k]
  BY <1>1 DEF Follows, PrintVhostLimits, GetLimiter, GetDefault, LimiterToString
<1>. QED BY <1>2, PopulatedFollows DEF Follows

\* Initially nothing is limited.
LEMMA InitFollows == Init => IInv
BY ConnectionLimitsAssumption
   DEF Init, IInv, TypeOK, LimitersFollow, Follows

\* A new limiter of connections starts a new history.
LEMMA Restarted ==
    ASSUME TypeOK, NEW k, NEW vs, Restart(k, vs)
    PROVE  allowed' \in [Vhosts -> Seq(0..MaxTime)]
<1>1. allowed \in [Vhosts -> Seq(0..MaxTime)] /\ <<>> \in Seq(0..MaxTime)
  BY DEF TypeOK
<1>. HIDE DEF TypeOK
<1>2. \A v \in Vhosts : (IF k = "CONN_RATE" /\ v \in vs THEN <<>> ELSE allowed[v])
                            \in Seq(0..MaxTime)
  BY <1>1, Zenon
<1>. QED  BY <1>2, Zenon DEF Restart

\* Each operation keeps the invariant.
LEMMA NextFollows == IInv /\ [Next]_vars => IInv'
<1>. SUFFICES ASSUME IInv, [Next]_vars PROVE IInv'
  OBVIOUS
<1>t. TypeOK /\ LimitersFollow
  BY DEF IInv
<1>1. ASSUME NEW v \in Vhosts, AllowNewConnection(v) PROVE IInv'
  <2>. DEFINE L(k) == IF Populated(k, v) = Null THEN Null ELSE Asked(Populated(k, v))
  <2>1. \A k \in Kind : /\ L(k) \in Limiter \cup {Null}
                        /\ Follows(L(k), chosen[k][v], default[k])
    BY <1>t, PopulatedFollows, AskedType DEF Follows
  <2>. HIDE DEF L
  <2>2. limiters' = [k \in Kind |-> [limiters[k] EXCEPT ![v] = L(k)]]
    BY <1>1 DEF AllowNewConnection, L
  <2>3. UNCHANGED <<default, now, chosen, cmds>> /\ allowed' \in [Vhosts -> Seq(0..MaxTime)]
    <3>1. Append(allowed[v], now) \in Seq(0..MaxTime)
      BY <1>t DEF TypeOK
    <3>2. [allowed EXCEPT ![v] = Append(@, now)] \in [Vhosts -> Seq(0..MaxTime)]
      BY <3>1, <1>t DEF TypeOK
    <3>3. allowed' \in {allowed, [allowed EXCEPT ![v] = Append(@, now)]}
      BY <1>1 DEF AllowNewConnection
    <3>. QED BY <3>2, <3>3, <1>1, <1>t DEF AllowNewConnection, TypeOK
  <2>4. TypeOK'
    BY <2>1, <2>2, <2>3, <1>t DEF TypeOK
  <2>5. LimitersFollow'
    BY <2>1, <2>2, <2>3, <1>t DEF TypeOK, LimitersFollow
  <2>. QED BY <2>4, <2>5 DEF IInv
<1>2. ASSUME NEW k \in Kind, NEW n \in Limits, SetDefault(k, n) PROVE IInv'
  <2>. DEFINE l == NewLimiter(FALSE, n)
  <2>1. l \in Limiter /\ ~l.specific /\ l.limit = n /\ l # Null /\ n # Null
    BY <1>t, NewLimiterType, ConnectionLimitsAssumption, ZenonT(30)
  <2>. HIDE DEF l
  <2>2. /\ default' = [default EXCEPT ![k] = n]
        /\ limiters' = [limiters EXCEPT ![k] = [v \in Vhosts |->
                           IF v \in Defaulted(k) THEN l ELSE limiters[k][v]]]
        /\ UNCHANGED <<now, chosen>> /\ cmds' \in 0..MaxCommands
    BY <1>2, <1>t, ConnectionLimitsAssumption DEF SetDefault, Issue, TypeOK, l
  <2>3. allowed' \in [Vhosts -> Seq(0..MaxTime)]
    BY <1>2, <1>t, Restarted, Zenon DEF SetDefault
  <2>4. TypeOK'
    BY <2>1, <2>2, <2>3, <1>t DEF TypeOK
  <2>5. LimitersFollow'
    BY <2>1, <2>2, <1>t DEF TypeOK, LimitersFollow, Follows, Defaulted
  <2>. QED BY <2>4, <2>5 DEF IInv
<1>3. ASSUME NEW k \in Kind, NEW v \in Vhosts, NEW n \in Limits, AddLimiter(k, v, n)
      PROVE  IInv'
  <2>. DEFINE l == NewLimiter(TRUE, n)
  <2>1. l \in Limiter /\ l.specific /\ l.limit = n /\ l # Null /\ n # Null
    BY <1>t, NewLimiterType, ConnectionLimitsAssumption, ZenonT(30)
  <2>. HIDE DEF l
  <2>2. /\ limiters' = [limiters EXCEPT ![k][v] = l]
        /\ chosen' = [chosen EXCEPT ![k][v] = n]
        /\ UNCHANGED <<now, default>> /\ cmds' \in 0..MaxCommands
    BY <1>3, <1>t, ConnectionLimitsAssumption DEF AddLimiter, Issue, TypeOK, l
  <2>3. allowed' \in [Vhosts -> Seq(0..MaxTime)]
    BY <1>3, <1>t, Restarted, Zenon DEF AddLimiter
  <2>4. TypeOK'
    BY <2>1, <2>2, <2>3, <1>t DEF TypeOK
  <2>5. LimitersFollow'
    BY <2>1, <2>2, <1>t DEF TypeOK, LimitersFollow, Follows
  <2>. QED BY <2>4, <2>5 DEF IInv
<1>4. ASSUME NEW k \in Kind, NEW v \in Vhosts, RemoveLimiter(k, v) PROVE IInv'
  <2>. DEFINE l == IF default[k] = Null THEN Null ELSE NewLimiter(FALSE, default[k])
  <2>0. default[k] \in Limits \cup {Null}
    BY <1>t DEF TypeOK
  <2>1. l \in Limiter \cup {Null} /\ Follows(l, Null, default[k])
    BY <2>0, <1>t, NewLimiterType, ZenonT(30) DEF Follows
  <2>. HIDE DEF l
  <2>2. /\ limiters' = [limiters EXCEPT ![k][v] = l]
        /\ chosen' = [chosen EXCEPT ![k][v] = Null]
        /\ UNCHANGED <<now, default>> /\ cmds' \in 0..MaxCommands
    BY <1>4, <1>t, ConnectionLimitsAssumption DEF RemoveLimiter, Issue, TypeOK, l
  <2>3. allowed' \in [Vhosts -> Seq(0..MaxTime)]
    BY <1>4, <1>t, Restarted, Zenon DEF RemoveLimiter
  <2>4. TypeOK'
    BY <2>1, <2>2, <2>3, <1>t DEF TypeOK
  <2>5. LimitersFollow'
    BY <2>1, <2>2, <1>t DEF TypeOK, LimitersFollow
  <2>. QED BY <2>4, <2>5 DEF IInv
<1>5. ASSUME NEW k \in Kind, RemoveDefault(k) PROVE IInv'
  <2>2. /\ default' = [default EXCEPT ![k] = Null]
        /\ limiters' = [limiters EXCEPT ![k] = [v \in Vhosts |->
                           IF v \in Defaulted(k) THEN Null ELSE limiters[k][v]]]
        /\ UNCHANGED <<now, chosen>> /\ cmds' \in 0..MaxCommands
    BY <1>5, <1>t, ConnectionLimitsAssumption DEF RemoveDefault, Issue, TypeOK
  <2>3. allowed' \in [Vhosts -> Seq(0..MaxTime)]
    BY <1>5, <1>t, Restarted, Zenon DEF RemoveDefault
  <2>4. TypeOK'
    BY <2>2, <2>3, <1>t DEF TypeOK
  <2>5. LimitersFollow'
    BY <2>2, <1>t DEF TypeOK, LimitersFollow, Follows, Defaulted
  <2>. QED BY <2>4, <2>5 DEF IInv
<1>6. CASE Tick
  BY <1>6, <1>t, ConnectionLimitsAssumption DEF Tick, IInv, TypeOK, LimitersFollow
<1>7. CASE UNCHANGED vars
  BY <1>7, <1>t DEF vars, IInv, TypeOK, LimitersFollow
<1>. QED BY <1>1, <1>2, <1>3, <1>4, <1>5, <1>6, <1>7 DEF Next

\* The limit that judges the next connection of a vhost is the one last set for
\* it, or else the default, and LIMIT PRINT shows it, through every sequence of
\* LIMIT commands and connections (ConnectionLimiterManager).
THEOREM LimitAlwaysInForce == Spec => []LimitInForce
<1>1. Init => IInv
  BY InitFollows
<1>2. IInv /\ [Next]_vars => IInv'
  BY NextFollows
<1>3. IInv => LimitInForce
  BY FollowIsInForce
<1>. QED BY <1>1, <1>2, <1>3, PTL DEF Spec

-----------------------------------------------------------------------------
(* The window of a limiter.                                                *)

\* The last connections in q are those counted in the limiter's window, which is full
\* at its limit; of the earlier ones, those that a span of k windows before this one
\* holds are at most k times the limit.
Counted(l, q, t) ==
    /\ l.count <= Len(q) /\ l.count <= l.limit /\ l.last <= t
    /\ \A i \in Len(q) - l.count + 1..Len(q) : l.last <= q[i] /\ q[i] - l.last < Window
    /\ \A i \in 1..Len(q) - l.count, k \in Nat :
          l.last - q[i] <= k * Window => Len(q) - l.count - i < l.limit * k

\* What AverageKept says of a limiter, for any k.
Averaged(l, q) ==
    \A i, j \in 1..Len(q), k \in Nat :
        i <= j /\ q[j] - q[i] <= k * Window => j - i < l.limit * (k + 1)

\* The inductive invariant: the limiters of connections agree with the history.
LimiterOk(l, q, t) == IF l = Null THEN q = <<>> ELSE Counted(l, q, t) /\ Averaged(l, q)
Windowed == \A v \in Vhosts : LimiterOk(limiters["CONN_RATE"][v], allowed[v], now)

\* The fields of a limiter.
LEMMA LimiterFields ==
    ASSUME NEW l \in Limiter
    PROVE  l.count \in Nat /\ l.limit \in Nat /\ l.last \in Nat
<1>1. l.count \in Nat /\ l.limit \in Limits /\ l.last \in 0..MaxTime
  BY Zenon DEF Limiter
<1>2. Limits \subseteq Nat /\ MaxTime \in Nat
  BY ConnectionLimitsAssumption
<1>3. l.limit \in Nat
  BY <1>1, <1>2, Zenon
<1>4. l.last \in Nat
  BY <1>1, <1>2
<1>. QED  BY <1>1, <1>3, <1>4, Zenon

\* The members of a sequence.
LEMMA Members ==
    ASSUME NEW S, NEW q \in Seq(S)
    PROVE  Len(q) \in Nat /\ DOMAIN q = 1..Len(q) /\ \A i \in 1..Len(q) : q[i] \in S
OBVIOUS

\* The times in a history.
LEMMA Times ==
    ASSUME NEW q \in Seq(0..MaxTime)
    PROVE  Len(q) \in Nat /\ DOMAIN q = 1..Len(q) /\ \A i \in 1..Len(q) : q[i] \in Nat
<1>1. /\ Len(q) \in Nat /\ DOMAIN q = 1..Len(q)
      /\ \A i \in 1..Len(q) : q[i] \in 0..MaxTime
  BY Members, Zenon
<1>2. \A t \in 0..MaxTime : t \in Nat
  BY ConnectionLimitsAssumption
<1>. QED  BY <1>1, <1>2, Zenon

\* A product and the next one.
LEMMA Product ==
    ASSUME NEW a \in Nat, NEW b \in Nat
    PROVE  a * b \in Nat /\ a * (b + 1) = a * b + a
OBVIOUS

\* A smaller number of windows, and a product that is not below another.
LEMMA OneLess ==
    ASSUME NEW a \in Nat, NEW k \in Nat \ {0}
    PROVE  /\ k - 1 \in Nat /\ a * (k - 1) \in Nat
           /\ a * k = a * (k - 1) + a
<1>1. k - 1 \in Nat /\ (k - 1) + 1 = k
  OBVIOUS
<1>. QED  BY <1>1, Product

\* A limiter that is made has counted nothing.
LEMMA NewCounted ==
    ASSUME TypeOK, NEW s \in BOOLEAN, NEW n \in Limits
    PROVE  LimiterOk(NewLimiter(s, n), <<>>, now)
<1>. DEFINE l == NewLimiter(s, n)
<1>1. l.count = 0 /\ l.limit = n /\ l.last = now /\ l # Null
  BY NewLimiterType DEF NewLimiter
<1>2. n \in Nat /\ now \in Nat
  BY ConnectionLimitsAssumption DEF TypeOK
<1>. HIDE DEF l
<1>3. Counted(l, <<>>, now)
  BY <1>1, <1>2 DEF Counted
<1>4. Averaged(l, <<>>)
  BY DEF Averaged
<1>. QED  BY <1>1, <1>3, <1>4, Zenon DEF LimiterOk, l

\* The window that is asked, a new one when the last has ended, agrees with the history.
LEMMA NextCounted ==
    ASSUME TypeOK, NEW l \in Limiter, NEW q \in Seq(0..MaxTime), Counted(l, q, now)
    PROVE  Counted(NextWindow(l), q, now) /\ now - NextWindow(l).last < Window
<1>. DEFINE m == NextWindow(l)
            n == Len(q)
<1>0. /\ Window \in Nat \ {0} /\ now \in Nat /\ n \in Nat
      /\ l.count \in Nat /\ l.limit \in Nat /\ l.last \in Nat
      /\ \A i \in 1..n : q[i] \in Nat
  <2>1. Window \in Nat \ {0} /\ MaxTime \in Nat /\ Limits \subseteq Nat
    BY ConnectionLimitsAssumption
  <2>2. now \in Nat
    BY <2>1 DEF TypeOK
  <2>. QED  BY <2>1, <2>2, LimiterFields, Times, Zenon
<1>1. CASE now - l.last >= Window
  <2>1. m.last = now /\ m.count = 0 /\ m.limit = l.limit
    BY <1>1 DEF NextWindow, Limiter
  <2>2. ASSUME NEW i \in 1..n, NEW k \in Nat, now - q[i] <= k * Window
        PROVE  n - i < l.limit * k
    <3>1. CASE i > n - l.count
      <4>1. q[i] - l.last < Window
        BY <1>0, <3>1 DEF Counted
      <4>2. k # 0
        BY <1>0, <1>1, <2>2, <4>1
      <4>3. l.limit * (k - 1) \in Nat /\ l.limit * k = l.limit * (k - 1) + l.limit
        BY <1>0, <4>2, OneLess
      <4>4. n - i < l.count /\ l.count <= l.limit
        BY <1>0, <3>1 DEF Counted
      <4>. HIDE DEF n
      <4>. DEFINE a == l.limit * (k - 1)
                  b == l.limit * k
      <4>. HIDE DEF a, b
      <4>5. a \in Nat /\ b = a + l.limit
        BY <4>3 DEF a, b
      <4>6. n - i < b
        BY <1>0, <4>4, <4>5
      <4>. QED  BY <4>6 DEF b
    <3>2. CASE i <= n - l.count
      <4>1. i \in 1..n - l.count
        BY <1>0, <3>2
      <4>2. \A c \in Nat : l.last - q[i] <= c * Window => n - l.count - i < l.limit * c
        BY <4>1 DEF Counted
      <4>3. l.last > q[i]
        <5>1. l.last - q[i] <= 0 * Window => n - l.count - i < l.limit * 0
          BY <4>2
        <5>2. 0 * Window = 0 /\ l.limit * 0 = 0
          BY <1>0
        <5>. QED  BY <1>0, <3>2, <5>1, <5>2
      <4>4. k # 0
        BY <1>0, <1>1, <2>2, <4>3
      <4>5. /\ k - 1 \in Nat
            /\ l.limit * (k - 1) \in Nat /\ l.limit * k = l.limit * (k - 1) + l.limit
        BY <1>0, <4>4, OneLess
      <4>6. Window * (k - 1) \in Nat /\ Window * k = Window * (k - 1) + Window
        BY <1>0, <4>4, OneLess
      <4>7. l.last - q[i] <= (k - 1) * Window
        <5>1. (k - 1) * Window = Window * (k - 1) /\ k * Window = Window * k
          BY <1>0, <4>5
        <5>. DEFINE a == Window * (k - 1)
                    b == Window * k
        <5>2. a \in Nat /\ b = a + Window /\ (k - 1) * Window = a /\ now - q[i] <= b
          BY <2>2, <4>6, <5>1
        <5>. HIDE DEF a, b
        <5>3. l.last - q[i] <= a
          BY <1>0, <1>1, <5>2
        <5>. QED  BY <5>2, <5>3
      <4>8. n - l.count - i < l.limit * (k - 1)
        BY <4>2, <4>5, <4>7
      <4>9. l.count <= l.limit
        BY DEF Counted
      <4>. DEFINE a == l.limit * (k - 1)
                  b == l.limit * k
      <4>10. a \in Nat /\ b = a + l.limit /\ n - l.count - i < a
        BY <4>5, <4>8
      <4>. HIDE DEF a, b, n
      <4>11. n - i < b
        BY <1>0, <4>9, <4>10
      <4>. QED  BY <4>11 DEF b
    <3>. QED  BY <1>0, <3>1, <3>2
  <2>. HIDE DEF m
  <2>3. now - m.last < Window
    BY <1>0, <2>1
  <2>4. /\ m.count <= n /\ m.count <= m.limit /\ m.last <= now
        /\ n - m.count + 1..n = {} /\ n - m.count = n
    BY <1>0, <2>1
  <2>. QED  BY <1>0, <2>1, <2>2, <2>3, <2>4 DEF Counted, m
<1>2. CASE ~(now - l.last >= Window)
  <2>1. m = l
    BY <1>2, Zenon DEF NextWindow
  <2>2. now - l.last < Window
    BY <1>0, <1>2
  <2>. QED  BY <2>1, <2>2, Zenon
<1>. QED  BY <1>1, <1>2, Zenon

\* allowNewConnection keeps a limiter in agreement with the history, to which the
\* connection is added when it is allowed.
LEMMA AskedOk ==
    ASSUME TypeOK, NEW l \in Limiter, NEW q \in Seq(0..MaxTime),
           Counted(l, q, now), Averaged(l, q)
    PROVE  LimiterOk(Asked(l), IF Allows(l) THEN Append(q, now) ELSE q, now)
<1>. DEFINE m == NextWindow(l)
            a == Asked(l)
            n == Len(q)
            c == m.count
            r == Append(q, now)
<1>1. Counted(m, q, now) /\ now - m.last < Window
  BY NextCounted, Zenon
<1>2. /\ m \in Limiter /\ m.limit = l.limit
  BY ZenonT(30) DEF NextWindow, Limiter, TypeOK
<1>3. /\ Window \in Nat /\ now \in Nat /\ now \in 0..MaxTime /\ n \in Nat
      /\ c \in Nat /\ l.limit \in Nat /\ m.last \in Nat
  <2>1. Window \in Nat /\ now \in Nat /\ now \in 0..MaxTime
    BY ConnectionLimitsAssumption DEF TypeOK
  <2>. QED  BY <1>2, <2>1, LimiterFields, Times, Zenon
<1>4. \A i \in 1..n : q[i] \in Nat
  BY Times, Zenon
<1>5. a # Null
  BY AskedType
<1>6. CASE ~Allows(l)
  <2>1. a = m
    BY <1>6, Zenon DEF Asked
  <2>2. Averaged(m, q)
    BY <1>2, Zenon DEF Averaged
  <2>. QED  BY <1>1, <1>5, <1>6, <2>1, <2>2, Zenon DEF LimiterOk
<1>7. CASE Allows(l)
  <2>1. c < l.limit
    BY <1>7 DEF Allows
  <2>2. a.count = c + 1 /\ a.last = m.last /\ a.limit = l.limit
    BY <1>2, <1>7 DEF Asked, Limiter
  <2>3. Len(r) = n + 1 /\ r[n + 1] = now /\ \A i \in 1..n : r[i] = q[i]
    BY <1>3
  <2>4. /\ c <= n /\ c <= l.limit /\ m.last <= now
        /\ \A i \in n - c + 1..n : m.last <= q[i] /\ q[i] - m.last < Window
        /\ \A i \in 1..n - c, k \in Nat :
              m.last - q[i] <= k * Window => n - c - i < l.limit * k
    BY <1>1, <1>2 DEF Counted
  <2>5. \A i, j \in 1..n, k \in Nat :
            i <= j /\ q[j] - q[i] <= k * Window => j - i < l.limit * (k + 1)
    BY DEF Averaged
  <2>. HIDE DEF a, m, n, c, r
  <2>6. \A i \in n - c + 1..n + 1 : m.last <= r[i] /\ r[i] - m.last < Window
    <3>. SUFFICES ASSUME NEW i \in n - c + 1..n + 1
                  PROVE  m.last <= r[i] /\ r[i] - m.last < Window
      OBVIOUS
    <3>1. CASE i = n + 1
      BY <1>1, <2>3, <2>4, <3>1, Zenon
    <3>2. CASE i # n + 1
      <4>1. i \in n - c + 1..n /\ i \in 1..n
        BY <1>3, <2>4, <3>2
      <4>. QED  BY <2>3, <2>4, <4>1, Zenon
    <3>. QED  BY <3>1, <3>2, Zenon
  <2>7. ASSUME NEW i \in 1..n - c, NEW k \in Nat, m.last - r[i] <= k * Window
        PROVE  n - c - i < l.limit * k
    <3>1. i \in 1..n
      BY <1>3
    <3>. QED  BY <2>3, <2>4, <2>7, <3>1, Zenon
  <2>8. Counted(a, r, now)
    <3>1. /\ a.count <= Len(r) /\ a.count <= a.limit /\ a.last <= now
          /\ Len(r) - a.count + 1 = n - c + 1 /\ Len(r) - a.count = n - c
      BY <1>3, <2>1, <2>2, <2>3, <2>4
    <3>2. \A i \in Len(r) - a.count + 1..Len(r) :
              a.last <= r[i] /\ r[i] - a.last < Window
      BY <2>2, <2>3, <2>6, <3>1, Zenon
    <3>3. \A i \in 1..Len(r) - a.count, k \in Nat :
              a.last - r[i] <= k * Window => Len(r) - a.count - i < a.limit * k
      BY <2>2, <2>7, <3>1, Zenon
    <3>. QED  BY <3>1, <3>2, <3>3, Zenon DEF Counted
  <2>9. ASSUME NEW i \in 1..n + 1, NEW j \in 1..n + 1, NEW k \in Nat,
               i <= j, r[j] - r[i] <= k * Window
        PROVE  j - i < l.limit * (k + 1)
    <3>1. CASE j # n + 1
      <4>1. i \in 1..n /\ j \in 1..n
        BY <1>3, <2>9, <3>1
      <4>. QED  BY <2>3, <2>5, <2>9, <4>1, Zenon
    <3>2. CASE j = n + 1
      <4>. DEFINE b == l.limit * k
      <4>1. b \in Nat /\ l.limit * (k + 1) = b + l.limit
        BY <1>3, Product
      <4>2. n + 1 - i < b + l.limit
        <5>1. CASE i \in 1..n - c
          <6>1. i \in 1..n
            BY <1>3, <5>1
          <6>2. q[i] \in Nat /\ r[i] = q[i]
            BY <1>4, <2>3, <6>1, Zenon
          <6>. DEFINE d == k * Window
          <6>3. d \in Nat /\ now - q[i] <= d
            <7>1. d \in Nat
              BY <1>3
            <7>. QED  BY <2>3, <2>9, <3>2, <6>2, <7>1, Zenon
          <6>. HIDE DEF d
          <6>4. m.last - q[i] <= d
            BY <1>3, <2>4, <6>2, <6>3
          <6>5. n - c - i < b
            BY <2>4, <5>1, <6>4, Zenon DEF d
          <6>. HIDE DEF b
          <6>. QED  BY <1>3, <2>1, <4>1, <6>5
        <5>2. CASE ~(i \in 1..n - c)
          <6>1. n + 1 - i <= c
            BY <1>3, <5>2
          <6>. HIDE DEF b
          <6>. QED  BY <1>3, <2>1, <4>1, <6>1
        <5>. QED  BY <5>1, <5>2, Zenon
      <4>3. j - i = n + 1 - i
        BY <1>3, <3>2
      <4>. QED  BY <4>1, <4>2, <4>3, Zenon
    <3>. QED  BY <3>1, <3>2, Zenon
  <2>10. Averaged(a, r)
    BY <2>2, <2>3, <2>9, Zenon DEF Averaged
  <2>. QED  BY <1>5, <1>7, <2>8, <2>10, Zenon DEF LimiterOk, a, r
<1>. QED  BY <1>6, <1>7, Zenon

\* The window may be older than it was.
LEMMA LaterOk ==
    ASSUME NEW l \in Limiter \cup {Null}, NEW q, NEW t \in Nat, NEW u \in Nat, t <= u,
           LimiterOk(l, q, t)
    PROVE  LimiterOk(l, q, u)
<1>1. CASE l = Null
  BY <1>1, Zenon DEF LimiterOk
<1>2. CASE l # Null
  <2>1. l.last \in Nat
    BY <1>2, ConnectionLimitsAssumption DEF Limiter
  <2>2. Counted(l, q, t) /\ Averaged(l, q)
    BY <1>2, Zenon DEF LimiterOk
  <2>3. l.last <= t
    BY <2>2, Zenon DEF Counted
  <2>4. l.last <= u
    BY <2>1, <2>3
  <2>5. Counted(l, q, u)
    BY <2>2, <2>4, Zenon DEF Counted
  <2>. QED  BY <1>2, <2>2, <2>5, Zenon DEF LimiterOk
<1>. QED  BY <1>1, <1>2, Zenon

\* The limiter of a vhost and its history, when a connection finds one or makes one.
LEMMA PopulatedOk ==
    ASSUME IInv, Windowed, NEW v \in Vhosts
    PROVE  LimiterOk(Populated("CONN_RATE", v), allowed[v], now)
<1>1. TypeOK /\ "CONN_RATE" \in Kind
  BY DEF IInv, Kind
<1>2. LimiterOk(limiters["CONN_RATE"][v], allowed[v], now)
  BY Zenon DEF Windowed
<1>3. CASE limiters["CONN_RATE"][v] = Null /\ default["CONN_RATE"] # Null
  <2>1. default["CONN_RATE"] \in Limits
    BY <1>1, <1>3, Zenon DEF TypeOK
  <2>2. allowed[v] = <<>>
    BY <1>2, <1>3, Zenon DEF LimiterOk
  <2>3. Populated("CONN_RATE", v) = NewLimiter(FALSE, default["CONN_RATE"])
    BY <1>3, Zenon DEF Populated
  <2>4. FALSE \in BOOLEAN
    OBVIOUS
  <2>. QED  BY <1>1, <2>1, <2>2, <2>3, <2>4, NewCounted, Zenon
<1>4. CASE ~(limiters["CONN_RATE"][v] = Null /\ default["CONN_RATE"] # Null)
  BY <1>2, <1>4, Zenon DEF Populated
<1>. QED  BY <1>3, <1>4, Zenon

\* allowNewConnectionForVhost keeps the limiters in agreement with the history.
LEMMA AllowWindowed ==
    ASSUME IInv, Windowed, NEW v \in Vhosts, AllowNewConnection(v)
    PROVE  Windowed'
<1>. DEFINE K == "CONN_RATE"
            p == Populated(K, v)
<1>1. TypeOK /\ K \in Kind
  BY DEF IInv, Kind
<1>2. /\ limiters \in [Kind -> [Vhosts -> Limiter \cup {Null}]]
      /\ allowed \in [Vhosts -> Seq(0..MaxTime)]
  BY <1>1, Zenon DEF TypeOK
<1>3. p \in Limiter \cup {Null} /\ LimiterOk(p, allowed[v], now)
  BY <1>1, PopulatedFollows, PopulatedOk, Zenon
<1>4. now' = now
  BY Zenon DEF AllowNewConnection
<1>. DEFINE a == IF p = Null THEN Null ELSE Asked(p)
            h == IF p # Null /\ Allowed(v) THEN Append(allowed[v], now) ELSE allowed[v]
<1>5. LimiterOk(a, h, now)
  <2>1. CASE p = Null
    BY <1>3, <2>1, Zenon
  <2>2. CASE p # Null
    <3>1. p \in Limiter /\ Counted(p, allowed[v], now) /\ Averaged(p, allowed[v])
      BY <1>3, <2>2, Zenon DEF LimiterOk
    <3>2. Allowed(v) <=> Allows(p)
      BY <2>2, Zenon DEF Allowed
    <3>3. allowed[v] \in Seq(0..MaxTime)
      BY <1>2, Zenon
    <3>4. LimiterOk(Asked(p), IF Allows(p) THEN Append(allowed[v], now) ELSE allowed[v], now)
      BY <1>1, <3>1, <3>3, AskedOk, Zenon
    <3>. QED  BY <2>2, <3>2, <3>4, Zenon
  <2>. QED  BY <2>1, <2>2, Zenon
<1>6. limiters'[K] = [limiters[K] EXCEPT ![v] = a]
  BY <1>1, Zenon DEF AllowNewConnection
<1>7. allowed' = IF p # Null /\ Allowed(v) THEN [allowed EXCEPT ![v] = Append(@, now)]
                 ELSE allowed
  BY Zenon DEF AllowNewConnection
<1>. HIDE DEF p, a
<1>8. allowed'[v] = h /\ \A w \in Vhosts \ {v} : allowed'[w] = allowed[w]
  BY <1>2, <1>7, Zenon
<1>. HIDE DEF h
<1>9. limiters'[K][v] = a /\ \A w \in Vhosts \ {v} : limiters'[K][w] = limiters[K][w]
  BY <1>1, <1>2, <1>6, Zenon
<1>10. ASSUME NEW w \in Vhosts PROVE LimiterOk(limiters'[K][w], allowed'[w], now')
  <2>1. CASE w = v
    BY <1>4, <1>5, <1>8, <1>9, <2>1, Zenon
  <2>2. CASE w # v
    <3>1. limiters'[K][w] = limiters[K][w] /\ allowed'[w] = allowed[w]
      BY <1>8, <1>9, <2>2, Zenon
    <3>. QED  BY <1>4, <3>1, Zenon DEF Windowed
  <2>. QED  BY <2>1, <2>2, Zenon
<1>. QED  BY <1>10, Zenon DEF Windowed

\* A command leaves the limiter of vhost v, removes it, or makes another.
Replaced(v) ==
    \/ limiters'["CONN_RATE"][v] = limiters["CONN_RATE"][v] /\ allowed'[v] = allowed[v]
    \/ limiters'["CONN_RATE"][v] = Null /\ allowed'[v] = <<>>
    \/ /\ \E s \in BOOLEAN, n \in Limits : limiters'["CONN_RATE"][v] = NewLimiter(s, n)
       /\ allowed'[v] = <<>>

\* The history begins anew with every limiter that is made.
LEMMA ReplacedWindowed ==
    ASSUME IInv, Windowed, now' = now, \A v \in Vhosts : Replaced(v)
    PROVE  Windowed'
<1>1. TypeOK
  BY DEF IInv
<1>2. ASSUME NEW v \in Vhosts
      PROVE  LimiterOk(limiters'["CONN_RATE"][v], allowed'[v], now)
  <2>0. Replaced(v)
    BY Zenon
  <2>1. CASE limiters'["CONN_RATE"][v] = limiters["CONN_RATE"][v] /\ allowed'[v] = allowed[v]
    BY <2>1, Zenon DEF Windowed
  <2>2. CASE limiters'["CONN_RATE"][v] = Null /\ allowed'[v] = <<>>
    BY <2>2, Zenon DEF LimiterOk
  <2>3. CASE /\ \E s \in BOOLEAN, n \in Limits :
                    limiters'["CONN_RATE"][v] = NewLimiter(s, n)
             /\ allowed'[v] = <<>>
    BY <1>1, <2>3, NewCounted, Zenon
  <2>. QED  BY <2>0, <2>1, <2>2, <2>3, Zenon DEF Replaced
<1>. QED  BY <1>2, Zenon DEF Windowed

\* The history of the vhosts in vs, for commands on either kind of limiter.
LEMMA RestartedAt ==
    ASSUME NEW k, NEW vs, Restart(k, vs), NEW v \in Vhosts
    PROVE  allowed'[v] = IF k = "CONN_RATE" /\ v \in vs THEN <<>> ELSE allowed[v]
BY Zenon DEF Restart

\* Every step keeps the limiters in agreement with the history.
LEMMA NextWindowed == IInv /\ Windowed /\ [Next]_vars => Windowed'
<1>. SUFFICES ASSUME IInv, Windowed, [Next]_vars PROVE Windowed'
  OBVIOUS
<1>. DEFINE K == "CONN_RATE"
<1>1. TypeOK /\ K \in Kind
  BY DEF IInv, Kind
<1>2. /\ limiters \in [Kind -> [Vhosts -> Limiter \cup {Null}]]
      /\ default \in [Kind -> Limits \cup {Null}] /\ now \in Nat
      /\ FALSE \in BOOLEAN /\ TRUE \in BOOLEAN
  BY <1>1, ConnectionLimitsAssumption DEF TypeOK
<1>3. ASSUME NEW k \in Kind, NEW n \in Limits, SetDefault(k, n) PROVE Windowed'
  <2>1. /\ limiters' = [limiters EXCEPT ![k] = [v \in Vhosts |->
                           IF v \in Defaulted(k) THEN NewLimiter(FALSE, n)
                           ELSE limiters[k][v]]]
        /\ Restart(k, Defaulted(k)) /\ now' = now
    BY <1>3, Zenon DEF SetDefault, Issue
  <2>2. ASSUME NEW v \in Vhosts PROVE Replaced(v)
    <3>1. limiters'[K][v] = IF k = K /\ v \in Defaulted(k) THEN NewLimiter(FALSE, n)
                            ELSE limiters[K][v]
      BY <1>1, <1>2, <2>1, Zenon
    <3>. QED  BY <1>2, <2>1, <3>1, RestartedAt, Zenon DEF Replaced
  <2>. QED  BY <2>1, <2>2, ReplacedWindowed, Zenon
<1>4. ASSUME NEW k \in Kind, NEW v \in Vhosts, NEW n \in Limits, AddLimiter(k, v, n)
      PROVE  Windowed'
  <2>1. /\ limiters' = [limiters EXCEPT ![k][v] = NewLimiter(TRUE, n)]
        /\ Restart(k, {v}) /\ now' = now
    BY <1>4, Zenon DEF AddLimiter, Issue
  <2>2. ASSUME NEW w \in Vhosts PROVE Replaced(w)
    <3>1. limiters'[K][w] = IF k = K /\ w \in {v} THEN NewLimiter(TRUE, n)
                            ELSE limiters[K][w]
      BY <1>1, <1>2, <2>1, Zenon
    <3>. QED  BY <1>2, <2>1, <3>1, RestartedAt, Zenon DEF Replaced
  <2>. QED  BY <2>1, <2>2, ReplacedWindowed, Zenon
<1>5. ASSUME NEW k \in Kind, NEW v \in Vhosts, RemoveLimiter(k, v) PROVE Windowed'
  <2>. DEFINE l == IF default[k] = Null THEN Null ELSE NewLimiter(FALSE, default[k])
  <2>1. /\ limiters' = [limiters EXCEPT ![k][v] = l]
        /\ Restart(k, {v}) /\ now' = now
    BY <1>5, Zenon DEF RemoveLimiter, Issue
  <2>2. l = Null \/ \E s \in BOOLEAN, n \in Limits : l = NewLimiter(s, n)
    BY <1>2, Zenon
  <2>. HIDE DEF l
  <2>3. ASSUME NEW w \in Vhosts PROVE Replaced(w)
    <3>1. limiters'[K][w] = IF k = K /\ w \in {v} THEN l ELSE limiters[K][w]
      BY <1>1, <1>2, <2>1, Zenon
    <3>2. allowed'[w] = IF k = K /\ w \in {v} THEN <<>> ELSE allowed[w]
      BY <2>1, RestartedAt, Zenon
    <3>3. CASE k = K /\ w \in {v}
      <4>1. limiters'[K][w] = l /\ allowed'[w] = <<>>
        BY <3>1, <3>2, <3>3, Zenon
      <4>. QED  BY <2>2, <4>1, Zenon DEF Replaced
    <3>4. CASE ~(k = K /\ w \in {v})
      BY <3>1, <3>2, <3>4, Zenon DEF Replaced
    <3>. QED  BY <3>3, <3>4, Zenon
  <2>. QED  BY <2>1, <2>3, ReplacedWindowed, Zenon
<1>6. ASSUME NEW k \in Kind, RemoveDefault(k) PROVE Windowed'
  <2>1. /\ limiters' = [limiters EXCEPT ![k] = [v \in Vhosts |->
                           IF v \in Defaulted(k) THEN Null ELSE limiters[k][v]]]
        /\ Restart(k, Defaulted(k)) /\ now' = now
    BY <1>6, Zenon DEF RemoveDefault, Issue
  <2>2. ASSUME NEW v \in Vhosts PROVE Replaced(v)
    <3>1. limiters'[K][v] = IF k = K /\ v \in Defaulted(k) THEN Null
                            ELSE limiters[K][v]
      BY <1>1, <1>2, <2>1, Zenon
    <3>. QED  BY <2>1, <3>1, RestartedAt, Zenon DEF Replaced
  <2>. QED  BY <2>1, <2>2, ReplacedWindowed, Zenon
<1>7. CASE Tick
  <2>1. limiters' = limiters /\ allowed' = allowed /\ now' = now + 1
    BY <1>7, Zenon DEF Tick
  <2>2. now' \in Nat /\ now <= now'
    BY <1>2, <2>1
  <2>3. ASSUME NEW v \in Vhosts
        PROVE  LimiterOk(limiters'["CONN_RATE"][v], allowed'[v], now')
    <3>1. LimiterOk(limiters[K][v], allowed[v], now)
      BY Zenon DEF Windowed
    <3>2. limiters[K][v] \in Limiter \cup {Null}
      BY <1>1, <1>2, Zenon
    <3>. QED  BY <1>2, <2>1, <2>2, <3>1, <3>2, LaterOk, Zenon
  <2>. QED  BY <2>3, Zenon DEF Windowed
<1>8. CASE UNCHANGED vars
  <2>1. limiters' = limiters /\ allowed' = allowed /\ now' = now
    BY <1>8, Zenon DEF vars
  <2>. QED  BY <2>1, Zenon DEF Windowed
<1>. QED  BY <1>3, <1>4, <1>5, <1>6, <1>7, <1>8, AllowWindowed, Zenon DEF Next

\* Both hold in every state.
THEOREM WindowsAgree == Spec => [](IInv /\ Windowed)
<1>1. Init => IInv /\ Windowed
  <2>. SUFFICES ASSUME Init PROVE Windowed
    BY InitFollows
  <2>1. \A v \in Vhosts : limiters["CONN_RATE"][v] = Null /\ allowed[v] = <<>>
    BY Zenon DEF Init, Kind
  <2>. QED  BY <2>1, Zenon DEF Windowed, LimiterOk
<1>2. IInv /\ Windowed /\ [Next]_vars => (IInv /\ Windowed)'
  BY NextFollows, NextWindowed
<1>. QED BY <1>1, <1>2, PTL DEF Spec

\* allowNewConnection keeps the average: the connections that a limiter allows in a span
\* of k windows' length are at most k + 1 times its limit, however the windows begin and
\* whatever the limit, the window and the commands are.
THEOREM AverageAlwaysKept == Spec => []AverageKept
<1>1. IInv /\ Windowed => AverageKept
  <2>. SUFFICES ASSUME IInv, Windowed, NEW v \in Vhosts, limiters["CONN_RATE"][v] # Null,
                       NEW i \in DOMAIN allowed[v], NEW j \in DOMAIN allowed[v],
                       NEW k \in 0..MaxTime,
                       i <= j, allowed[v][j] - allowed[v][i] <= k * Window
                PROVE  j - i < limiters["CONN_RATE"][v].limit * (k + 1)
    BY Zenon DEF AverageKept
  <2>1. Averaged(limiters["CONN_RATE"][v], allowed[v])
    BY Zenon DEF Windowed, LimiterOk
  <2>2. allowed[v] \in Seq(0..MaxTime)
    BY Zenon DEF IInv, TypeOK
  <2>3. DOMAIN allowed[v] = 1..Len(allowed[v])
    BY <2>2
  <2>4. k \in Nat
    BY ConnectionLimitsAssumption
  <2>. QED  BY <2>1, <2>3, <2>4, Zenon DEF Averaged
<1>. QED  BY <1>1, WindowsAgree, PTL

\* allowNewConnection refuses a connection only when as many as the limit were allowed
\* within the last window of time: a window that has ended refuses nothing.
THEOREM RefusedAlwaysFull == Spec => []RefusedOnlyWhenFull
<1>1. IInv /\ Windowed => RefusedOnlyWhenFull
  <2>. SUFFICES ASSUME IInv, Windowed, NEW v \in Vhosts, ~Allowed(v)
                PROVE  LET q == allowed[v]
                           n == Populated("CONN_RATE", v).limit
                       IN  /\ n <= Len(q)
                           /\ \A i \in Len(q) - n + 1..Len(q) : now - q[i] < Window
    BY Zenon DEF RefusedOnlyWhenFull
  <2>. DEFINE q == allowed[v]
              p == Populated("CONN_RATE", v)
              m == NextWindow(p)
  <2>1. TypeOK /\ "CONN_RATE" \in Kind
    BY DEF IInv, Kind
  <2>2. q \in Seq(0..MaxTime)
    BY <2>1, Zenon DEF TypeOK
  <2>3. p # Null /\ ~Allows(p)
    BY Zenon DEF Allowed
  <2>4. p \in Limiter /\ Counted(p, q, now)
    BY <2>1, <2>3, PopulatedFollows, PopulatedOk, Zenon DEF LimiterOk
  <2>5. Counted(m, q, now) /\ now - m.last < Window
    BY <2>1, <2>2, <2>4, NextCounted, Zenon
  <2>6. m \in Limiter /\ m.limit = p.limit
    BY <2>1, <2>4, ZenonT(30) DEF NextWindow, Limiter, TypeOK
  <2>7. /\ m.count \in Nat /\ m.limit \in Nat /\ m.last \in Nat /\ Len(q) \in Nat
        /\ now \in Nat /\ Window \in Nat
    <3>1. now \in Nat /\ Window \in Nat
      BY <2>1, ConnectionLimitsAssumption DEF TypeOK
    <3>. QED  BY <2>2, <2>6, <3>1, LimiterFields, Times, Zenon
  <2>8. ~(m.count < p.limit)
    BY <2>3, Zenon DEF Allows
  <2>9. \A i \in 1..Len(q) : q[i] \in Nat
    BY <2>2, Times, Zenon
  <2>. HIDE DEF m, q, p
  <2>10. /\ m.count <= Len(q)
         /\ \A i \in Len(q) - m.count + 1..Len(q) : m.last <= q[i]
    BY <2>5, Zenon DEF Counted
  <2>11. p.limit <= Len(q)
    BY <2>6, <2>7, <2>8, <2>10
  <2>12. ASSUME NEW i \in Len(q) - p.limit + 1..Len(q) PROVE now - q[i] < Window
    <3>1. i \in Len(q) - m.count + 1..Len(q) /\ i \in 1..Len(q)
      BY <2>6, <2>7, <2>8, <2>10
    <3>2. m.last <= q[i] /\ q[i] \in Nat
      BY <2>9, <2>10, <3>1, Zenon
    <3>. QED  BY <2>5, <2>7, <3>2
  <2>. QED  BY <2>11, <2>12, Zenon DEF p, q
<1>. QED  BY <1>1, WindowsAgree, PTL

=============================================================================
