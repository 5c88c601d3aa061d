-------------------------- MODULE ConnectionLimits --------------------------
(***************************************************************************)
(* The limits on new connections per vhost (ConnectionLimiterManager,      *)
(* FixedWindowConnectionRateLimiter) and the LIMIT commands that change    *)
(* them.  Each method holds the manager's mutex and is one step.           *)
(***************************************************************************)
EXTENDS Integers, Sequences, TLC

CONSTANTS
    Vhosts,      \* names of virtual hosts
    Limits,      \* the numbers of connections that an operator may set
    Window,      \* d_timeWindowInMs, in ticks of the clock
    MaxTime,     \* bound on the clock
    MaxCommands, \* bound on the number of commands issued
    Null         \* no limit, and no limiter

\* The limits that refuse connections, and those that only log.
Kind == {"CONN_RATE", "CONN_RATE_ALARM"}

Limiter == [specific : BOOLEAN, limit : Limits, last : 0..MaxTime, count : Nat]

ASSUME ConnectionLimitsAssumption ==
    /\ Limits \subseteq Nat /\ Window \in Nat \ {0} /\ MaxTime \in Nat
    /\ MaxCommands \in Nat /\ Null \notin Nat \cup Limiter

VARIABLES
    limiters, \* d_connectionRateLimitersPerVhost and the alarm only ones
    default,  \* d_defaultConnectionRateLimit and the alarm only one
    now,      \* the clock
    chosen,   \* history: the limits that VHOST commands have set
    allowed,  \* history: the times at which a limiter has allowed connections
    cmds      \* the number of commands issued
vars == <<limiters, default, now, chosen, allowed, cmds>>

-----------------------------------------------------------------------------
(* FixedWindowConnectionRateLimiter.                                       *)

NewLimiter(specific, n) ==
    [specific |-> specific, limit |-> n, last |-> now, count |-> 0]

\* Mutant of NextWindow: the window begins anew with every connection.
NextWindowSlides(l) ==
    IF now - l.last >= Window THEN [l EXCEPT !.last = now, !.count = 0]
    ELSE [l EXCEPT !.last = now]

\* Mutant of NextWindow: the beginning of the window is forgotten.
NextWindowKeeps(l) == IF now - l.last >= Window THEN [l EXCEPT !.count = 0] ELSE l

\* The first connection after the end of a window begins the next.
NextWindow(l) ==
    IF now - l.last >= Window THEN [l EXCEPT !.last = now, !.count = 0] ELSE l

Allows(l) == NextWindow(l).count < l.limit

\* The limiter after allowNewConnection.
Asked(l) ==
    IF Allows(l) THEN [NextWindow(l) EXCEPT !.count = @ + 1] ELSE NextWindow(l)

-----------------------------------------------------------------------------
(* ConnectionLimiterManager.                                               *)

\* maybePopulateDefaultLimiters.
Populated(k, v) ==
    IF limiters[k][v] = Null /\ default[k] # Null
    THEN NewLimiter(FALSE, default[k]) ELSE limiters[k][v]

\* getConnectionRateLimiter and getDefaultConnectionRateLimit, of either kind.
GetLimiter(k, v) == limiters[k][v]
GetDefault(k) == default[k]

\* What allowNewConnectionForVhost returns: the alarm only logs.
Allowed(v) ==
    \/ Populated("CONN_RATE", v) = Null
    \/ Allows(Populated("CONN_RATE", v))

\* allowNewConnectionForVhost asks both limiters.
AllowNewConnection(v) ==
    /\ limiters' = [k \in Kind |-> [limiters[k] EXCEPT ![v] =
                       IF Populated(k, v) = Null THEN Null ELSE Asked(Populated(k, v))]]
    /\ allowed' = IF Populated("CONN_RATE", v) # Null /\ Allowed(v)
                  THEN [allowed EXCEPT ![v] = Append(@, now)] ELSE allowed
    /\ UNCHANGED <<default, now, chosen, cmds>>

\* A new limiter of connections starts a new history.
Restart(k, vs) ==
    allowed' = [v \in Vhosts |->
                  IF k = "CONN_RATE" /\ v \in vs THEN <<>> ELSE allowed[v]]

Issue == cmds < MaxCommands /\ cmds' = cmds + 1 /\ UNCHANGED now

\* addConnectionRateLimiter.
AddLimiter(k, v, n) ==
    /\ Issue
    /\ limiters' = [limiters EXCEPT ![k][v] = NewLimiter(TRUE, n)]
    /\ chosen' = [chosen EXCEPT ![k][v] = n]
    /\ Restart(k, {v})
    /\ UNCHANGED default

\* Mutant of SetDefault: vhosts that have the old default keep it.
SetDefaultNew(k, n) ==
    /\ Issue
    /\ default' = [default EXCEPT ![k] = n]
    /\ UNCHANGED <<limiters, chosen, allowed>>

Defaulted(k) == {v \in Vhosts : limiters[k][v] # Null /\ ~limiters[k][v].specific}

\* setDefaultConnectionRateLimit replaces the limiters made from the old default.
SetDefault(k, n) ==
    /\ Issue
    /\ default' = [default EXCEPT ![k] = n]
    /\ limiters' = [limiters EXCEPT ![k] = [v \in Vhosts |->
                       IF v \in Defaulted(k) THEN NewLimiter(FALSE, n) ELSE @[v]]]
    /\ Restart(k, Defaulted(k))
    /\ UNCHANGED chosen

\* removeConnectionRateLimiter: the default takes its place.
RemoveLimiter(k, v) ==
    /\ Issue
    /\ limiters' = [limiters EXCEPT ![k][v] =
                       IF default[k] = Null THEN Null ELSE NewLimiter(FALSE, default[k])]
    /\ chosen' = [chosen EXCEPT ![k][v] = Null]
    /\ Restart(k, {v})
    /\ UNCHANGED default

\* removeDefaultConnectionRateLimit, with the limiters made from it.
RemoveDefault(k) ==
    /\ Issue
    /\ default' = [default EXCEPT ![k] = Null]
    /\ limiters' = [limiters EXCEPT ![k] = [v \in Vhosts |->
                       IF v \in Defaulted(k) THEN Null ELSE @[v]]]
    /\ Restart(k, Defaulted(k))
    /\ UNCHANGED chosen

\* What LIMIT PRINT shows of a limiter.
LimiterToString(l) == l.limit

\* LIMIT PRINT of one vhost, and of the defaults.
PrintVhostLimits(k, v) ==
    IF GetLimiter(k, v) # Null THEN LimiterToString(GetLimiter(k, v)) ELSE GetDefault(k)

PrintAllLimits(k) == GetDefault(k)

Tick ==
    /\ now < MaxTime
    /\ now' = now + 1
    /\ UNCHANGED <<limiters, default, chosen, allowed, cmds>>

-----------------------------------------------------------------------------
Init ==
    /\ limiters = [k \in Kind |-> [v \in Vhosts |-> Null]]
    /\ default = [k \in Kind |-> Null]
    /\ now = 0 /\ cmds = 0
    /\ chosen = [k \in Kind |-> [v \in Vhosts |-> Null]]
    /\ allowed = [v \in Vhosts |-> <<>>]

Next ==
    \/ \E v \in Vhosts : AllowNewConnection(v)
    \/ \E k \in Kind, n \in Limits : SetDefault(k, n)
    \/ \E k \in Kind, v \in Vhosts, n \in Limits : AddLimiter(k, v, n)
    \/ \E k \in Kind, v \in Vhosts : RemoveLimiter(k, v)
    \/ \E k \in Kind : RemoveDefault(k)
    \/ Tick

Spec == Init /\ [][Next]_vars

Symmetry == Permutations(Vhosts)

-----------------------------------------------------------------------------
TypeOK ==
    /\ limiters \in [Kind -> [Vhosts -> Limiter \cup {Null}]]
    /\ default \in [Kind -> Limits \cup {Null}]
    /\ chosen \in [Kind -> [Vhosts -> Limits \cup {Null}]]
    /\ now \in 0..MaxTime /\ cmds \in 0..MaxCommands
    /\ allowed \in [Vhosts -> Seq(0..MaxTime)]

\* "The specific limit takes priority over the default limit", and "the default
\* limit will be applied" where there is none: the limiter that judges the next
\* connection of a vhost (made on demand by maybePopulateDefaultLimiters, or
\* rewritten by one of the eight commands) has the limit last set for the vhost,
\* or, with none, the default that LIMIT PRINT shows; none when neither is set.
\* LIMIT PRINT of the vhost shows that limit, also before the limiter is made.
LimitInForce ==
    \A k \in Kind, v \in Vhosts :
        LET n == IF chosen[k][v] # Null THEN chosen[k][v] ELSE PrintAllLimits(k)
        IN  /\ PrintVhostLimits(k, v) = n
            /\ IF n = Null THEN Populated(k, v) = Null
               ELSE Populated(k, v) # Null /\ Populated(k, v).limit = n

\* allowNewConnection keeps the average: however the connections fall into its
\* windows, those that a limiter allows in a span of k windows' length are at most
\* as many as the limit for each of them and once more for the window they begin in.
AverageKept ==
    \A v \in Vhosts : limiters["CONN_RATE"][v] # Null =>
        LET q == allowed[v]
        IN  \A i, j \in DOMAIN q, k \in 0..MaxTime :
                i <= j /\ q[j] - q[i] <= k * Window =>
                    j - i < limiters["CONN_RATE"][v].limit * (k + 1)

\* A connection is refused only when as many as the limit were allowed within the
\* last window of time, and never because of an alarm.
RefusedOnlyWhenFull ==
    \A v \in Vhosts : ~Allowed(v) =>
        LET q == allowed[v]
            n == Populated("CONN_RATE", v).limit
        IN  n <= Len(q) /\ \A i \in Len(q) - n + 1..Len(q) : now - q[i] < Window
=============================================================================
