-------------------------------- MODULE Auth --------------------------------
(***************************************************************************)
(* Authentication and name resolution: the mechanism the AUTH command      *)
(* configures, the request each Session makes of the one it was accepted   *)
(* with, HttpAuthIntercept's exchange with the service, and the            *)
(* DNSResolver that it shares with the Sessions' search for a backend.     *)
(*                                                                         *)
(* The io thread runs handlers in the order they were queued.  The queue   *)
(* holds what the resolver and the DefaultAuthIntercept post; the          *)
(* completions of socket operations are actions of their own.  An answer   *)
(* of the DNS is an error, a good code without endpoints, or endpoints;    *)
(* its age counts the cache's cleanups since the DNS gave it.              *)
(***************************************************************************)
EXTENDS Naturals, Sequences, FiniteSets

CONSTANTS
    Clients,        \* the client connections
    Services,       \* the hosts AUTH SERVICE is given (a host stands for its port too)
    Always,         \* AUTH ALWAYS_ALLOW, the DefaultAuthIntercept
    Backends,       \* the hosts of the backends of the clients' vhost, in order
    MaxEndpoints,   \* bound on the endpoints of an answer for a backend
    MaxCommands,    \* bound on AUTH commands
    MaxAge          \* ages are not told apart from here on

ASSUME ConstantsAssumption ==
    /\ Always \notin Services
    /\ Backends \in Seq(STRING)
    /\ MaxAge \in Nat /\ MaxCommands \in Nat /\ MaxEndpoints \in Nat

VARIABLES
    intercept,  \* Server::d_authIntercept
    session,    \* per client, its Session
    cache,      \* DNSResolver::d_cache: host -> Answer, for the hosts it has
    lookups,    \* async_resolve operations that are under way
    queue,      \* the handlers that wait for the io thread
    timer,      \* DNSResolver::d_timer: "armed" or "idle"
    cmds        \* AUTH commands so far

vars == <<intercept, session, cache, lookups, queue, timer, cmds>>

Hosts == Services \cup {Backends[i] : i \in DOMAIN Backends}

Answers == [is : {"error", "empty", "some"}, age : 0..MaxAge]

NoAnswer == [is |-> "none", age |-> 0]

\* A handler: a cleanup, the posted ALLOW of the default, a cached answer, or
\* the completion of a lookup.  For the last two, "then" is the callback.
Handlers ==
    [do : {"cleanup"}]
    \cup [do : {"allow"}, x : Clients]
    \cup [do : {"hit", "lookup"}, x : Clients, then : {"onResolve", "backend"},
          host : Hosts, ans : Answers]

Lookups == [x : Clients, then : {"onResolve", "backend"}, host : Hosts]

Sessions ==
    [at : {"new", "accepted", "posted", "resolving", "connecting", "writing",
           "reading", "routing", "dialing", "connected", "closed"},
     using : Services \cup {Always},           \* d_authIntercept
     said : {"none", "allow", "deny", "unknown", "garbled"},  \* the response
     result : {"none", "allow", "deny"},       \* what responseCb made of it
     retry : Nat \ {0},                        \* d_egressRetryCounter, from 1
     gone : BOOLEAN,                           \* finished()
     given : Answers \cup {NoAnswer},          \* the endpoints it connects to
     left : Nat]                               \* those of them it has not tried

TypeOK ==
    /\ intercept \in Services \cup {Always}
    /\ session \in [Clients -> Sessions]
    /\ \A h \in DOMAIN cache : h \in Hosts /\ cache[h] \in Answers
    /\ lookups \subseteq Lookups
    /\ queue \in Seq(Handlers)
    /\ timer \in {"armed", "idle"}
    /\ cmds \in 0..MaxCommands

\* Server::Server: the default mechanism, and the cleanup timer started.
Init ==
    /\ intercept = Always
    /\ session = [x \in Clients |->
                    [at |-> "new", using |-> Always, said |-> "none",
                     result |-> "none", retry |-> 1, gone |-> FALSE,
                     given |-> NoAnswer, left |-> 0]]
    /\ cache = [h \in {} |-> NoAnswer]
    /\ lookups = {}
    /\ queue = <<>>
    /\ timer = "armed"
    /\ cmds = 0

-----------------------------------------------------------------------------
(* DNSResolver *)

\* resolve: what is in the cache is posted, for anything else a lookup begins.
Resolve(x, then, host, q) ==
    IF host \in DOMAIN cache
    THEN /\ queue' = Append(q, [do |-> "hit", x |-> x, then |-> then,
                                host |-> host, ans |-> cache[host]])
         /\ UNCHANGED lookups
    ELSE /\ lookups' = lookups \cup {[x |-> x, then |-> then, host |-> host]}
         /\ queue' = q

\* setCachedResolution, if there was no error; an empty list counts.
SetCachedResolution(host, ans) ==
    IF ans.is = "error" THEN UNCHANGED cache
    ELSE cache' = [h \in DOMAIN cache \cup {host} |->
                     IF h = host THEN ans ELSE cache[h]]

\* The system's resolver has the answer of a lookup, or has given up.
Answered ==
    /\ \E l \in lookups, is \in {"error", "empty", "some"} :
          /\ lookups' = lookups \ {l}
          /\ queue' = Append(queue, [do |-> "lookup", x |-> l.x, then |-> l.then,
                                     host |-> l.host,
                                     ans |-> [is |-> is, age |-> 0]])
    /\ UNCHANGED <<intercept, session, cache, timer, cmds>>

\* The timer expires.
Expire ==
    /\ timer = "armed"
    /\ timer' = "idle"
    /\ queue' = Append(queue, [do |-> "cleanup"])
    /\ UNCHANGED <<intercept, session, cache, lookups, cmds>>

Older(ans) == IF ans.age < MaxAge THEN [ans EXCEPT !.age = @ + 1] ELSE ans

Aged(q) ==
    [i \in DOMAIN q |-> IF q[i].do \in {"hit", "lookup"}
                        THEN [q[i] EXCEPT !.ans = Older(@)] ELSE q[i]]

\* A session that is connecting holds on to the answer it was given.
Holding(s) == IF s.given = NoAnswer THEN s ELSE [s EXCEPT !.given = Older(@)]

\* cleanupCache: an empty cache, and the timer again.
\* (mutants: the cache is kept; the timer is not started again)
CleanupKeeps ==
    /\ queue # <<>> /\ Head(queue).do = "cleanup"
    /\ cache' = [h \in DOMAIN cache |-> Older(cache[h])]
    /\ queue' = Aged(Tail(queue))
    /\ session' = [x \in Clients |-> Holding(session[x])]
    /\ timer' = "armed"
    /\ UNCHANGED <<intercept, lookups, cmds>>

CleanupOnce ==
    /\ queue # <<>> /\ Head(queue).do = "cleanup"
    /\ cache' = [h \in {} |-> NoAnswer]
    /\ queue' = Aged(Tail(queue))
    /\ session' = [x \in Clients |-> Holding(session[x])]
    /\ UNCHANGED <<intercept, lookups, timer, cmds>>

CleanupCache ==
    /\ queue # <<>> /\ Head(queue).do = "cleanup"
    /\ cache' = [h \in {} |-> NoAnswer]
    /\ queue' = Aged(Tail(queue))
    /\ session' = [x \in Clients |-> Holding(session[x])]
    /\ timer' = "armed"
    /\ UNCHANGED <<intercept, lookups, cmds>>

-----------------------------------------------------------------------------
(* Session *)

\* disconnect.
Closed(s) == [s EXCEPT !.at = "closed", !.gone = TRUE, !.given = NoAnswer]

\* attemptConnection of a session in state s, its turn at a handler that leaves
\* the queue q: nothing if the client has gone, disconnect without a backend.
AttemptConnection(x, s, q) ==
    IF s.gone \/ s.retry > Len(Backends)
    THEN /\ session' = [session EXCEPT ![x] = Closed(s)]
         /\ queue' = q
         /\ UNCHANGED lookups
    ELSE /\ session' = [session EXCEPT ![x] = [s EXCEPT !.at = "routing",
                                                       !.given = NoAnswer]]
         /\ Resolve(x, "backend", Backends[s.retry], q)

\* authResponseCb: only ALLOW goes on, a result that is neither disconnects.
AuthResponseCb(x, result, q) ==
    IF result = "allow"
    THEN AttemptConnection(x, [session[x] EXCEPT !.result = "allow",
                                                 !.said = "none"], q)
    ELSE /\ session' = [session EXCEPT ![x] = [Closed(@) EXCEPT !.result = "deny",
                                                                !.said = "none"]]
         /\ queue' = q
         /\ UNCHANGED lookups

\* The session's callback of resolve dials the first endpoint, and keeps the
\* others if the backend is one of the DNS; no endpoints, and it is the next
\* backend's turn.
BackendResolved(x, ans, q) ==
    IF ans.is = "some"
    THEN /\ \E n \in 0..MaxEndpoints - 1 :
               session' = [session EXCEPT ![x] = [@ EXCEPT !.at = "dialing",
                                                 !.given = ans, !.left = n]]
         /\ queue' = q
         /\ UNCHANGED lookups
    ELSE AttemptConnection(x, [session[x] EXCEPT !.retry = @ + 1], q)

\* attemptResolvedConnection after an endpoint that failed: the next one, even
\* if the client has gone, or the next backend.
AttemptResolvedConnection(x) ==
    IF session[x].left > 0
    THEN /\ session' = [session EXCEPT ![x].left = @ - 1]
         /\ UNCHANGED <<lookups, queue>>
    ELSE AttemptConnection(x, [session[x] EXCEPT !.retry = @ + 1], queue)

\* attemptEndpointConnection's outcome: connected, or handleConnectionError.
Dialed(x) ==
    /\ session[x].at = "dialing"
    /\ \/ /\ session' = [session EXCEPT ![x] = [@ EXCEPT !.at = "connected",
                                              !.given = NoAnswer, !.left = 0]]
          /\ UNCHANGED <<lookups, queue>>
       \/ AttemptResolvedConnection(x)
    /\ UNCHANGED <<intercept, cache, timer, cmds>>

-----------------------------------------------------------------------------
(* HttpAuthIntercept and DefaultAuthIntercept *)

\* onResolve: an error denies; an empty list is left to async_connect.
OnResolve(x, ans, q) ==
    IF ans.is = "error"
    THEN AuthResponseCb(x, "deny", q)
    ELSE /\ session' = [session EXCEPT ![x].at = "connecting", ![x].given = ans]
         /\ queue' = q
         /\ UNCHANGED lookups

\* The completion of an operation that fails or runs into the stream's expiry.
Failed(x, at) ==
    /\ session[x].at = at
    /\ AuthResponseCb(x, "deny", queue)
    /\ UNCHANGED <<intercept, cache, timer, cmds>>

Went(x, at, next) ==
    /\ session[x].at = at
    /\ session' = [session EXCEPT ![x].at = next, ![x].given = NoAnswer]
    /\ UNCHANGED <<intercept, cache, lookups, queue, timer, cmds>>

OnConnect(x) ==
    \/ Failed(x, "connecting")
    \/ session[x].given.is = "some" /\ Went(x, "connecting", "writing")

OnWrite(x) == Failed(x, "writing") \/ Went(x, "writing", "reading")

\* The service answers the request, possibly before the write has completed
\* here, with a body that parses to a result or does not parse.
ServiceSays(x) ==
    /\ session[x].at \in {"writing", "reading"}
    /\ session[x].said = "none"
    /\ \E w \in {"allow", "deny", "unknown", "garbled"} :
          session' = [session EXCEPT ![x].said = w]
    /\ UNCHANGED <<intercept, cache, lookups, queue, timer, cmds>>

\* (a mutant: a body that does not parse is taken for the message's defaults)
OnReadDefaults(x) ==
    \/ Failed(x, "reading")
    \/ /\ session[x].at = "reading" /\ session[x].said # "none"
       /\ AuthResponseCb(x, IF session[x].said = "garbled" THEN "allow"
                            ELSE session[x].said, queue)
       /\ UNCHANGED <<intercept, cache, timer, cmds>>

OnRead(x) ==
    \/ Failed(x, "reading")
    \/ /\ session[x].at = "reading" /\ session[x].said # "none"
       /\ AuthResponseCb(x, IF session[x].said = "garbled" THEN "deny"
                            ELSE session[x].said, queue)
       /\ UNCHANGED <<intercept, cache, timer, cmds>>

\* authenticate of the default: the answer is posted.
AuthenticateDefault(x) ==
    /\ session' = [session EXCEPT ![x].at = "posted"]
    /\ queue' = Append(queue, [do |-> "allow", x |-> x])
    /\ UNCHANGED lookups

\* authenticate of a service: a request that cannot be serialised is denied
\* there and then, otherwise the service's host is resolved.
AuthenticateHttp(x) ==
    \/ AuthResponseCb(x, "deny", queue)
    \/ /\ session' = [session EXCEPT ![x].at = "resolving"]
       /\ Resolve(x, "onResolve", session[x].using, queue)

\* establishConnection asks the mechanism of the session.
Authenticate(x) ==
    /\ session[x].at = "accepted" /\ ~session[x].gone
    /\ IF session[x].using = Always THEN AuthenticateDefault(x)
       ELSE AuthenticateHttp(x)
    /\ UNCHANGED <<intercept, cache, timer, cmds>>

-----------------------------------------------------------------------------
(* Handlers, clients and commands *)

Posted ==
    /\ queue # <<>> /\ Head(queue).do = "allow"
    /\ AuthResponseCb(Head(queue).x, "allow", Tail(queue))
    /\ UNCHANGED <<intercept, cache, timer, cmds>>

Callback(h) ==
    IF h.then = "onResolve" THEN OnResolve(h.x, h.ans, Tail(queue))
    ELSE BackendResolved(h.x, h.ans, Tail(queue))

Hit ==
    /\ queue # <<>> /\ Head(queue).do = "hit"
    /\ Callback(Head(queue))
    /\ UNCHANGED <<intercept, cache, timer, cmds>>

\* resolveCb: the callback first, which may resolve again, then the cache.
Lookup ==
    /\ queue # <<>> /\ Head(queue).do = "lookup"
    /\ Callback(Head(queue))
    /\ SetCachedResolution(Head(queue).host, Head(queue).ans)
    /\ UNCHANGED <<intercept, timer, cmds>>

\* doAccept: the session keeps the mechanism of this moment.
Accept(x) ==
    /\ session[x].at = "new"
    /\ session' = [session EXCEPT ![x].at = "accepted", ![x].using = intercept]
    /\ UNCHANGED <<intercept, cache, lookups, queue, timer, cmds>>

\* The client disconnects while it waits.
Leave(x) ==
    /\ session[x].at \notin {"new", "connected", "closed"} /\ ~session[x].gone
    /\ session' = [session EXCEPT ![x].gone = TRUE]
    /\ UNCHANGED <<intercept, cache, lookups, queue, timer, cmds>>

\* Server::setAuthIntercept.
SetAuthIntercept(a) == intercept' = a

\* AUTH SERVICE and AUTH ALWAYS_ALLOW.
AuthCommand ==
    /\ cmds < MaxCommands
    /\ cmds' = cmds + 1
    /\ \E a \in Services \cup {Always} : SetAuthIntercept(a)
    /\ UNCHANGED <<session, cache, lookups, queue, timer>>

Handle == Posted \/ Hit \/ Lookup \/ CleanupCache

ClientNext(x) ==
    \/ Accept(x) \/ Authenticate(x) \/ Leave(x) \/ Dialed(x)
    \/ OnConnect(x) \/ OnWrite(x) \/ ServiceSays(x) \/ OnRead(x)

Next == Handle \/ Answered \/ Expire \/ AuthCommand \/ \E x \in Clients : ClientNext(x)

Spec == Init /\ [][Next]_vars

\* The io thread runs what is queued, the timer expires, the system's resolver
\* ends each lookup, and the stream's expiry ends each step of the exchange,
\* whether the service ever answers or not.
FairSpec ==
    /\ Spec
    /\ WF_vars(Handle) /\ WF_vars(Expire) /\ WF_vars(Answered)
    /\ \A x \in Clients : WF_vars(OnConnect(x)) /\ WF_vars(OnWrite(x))
                            /\ WF_vars(OnRead(x)) /\ WF_vars(Dialed(x))

-----------------------------------------------------------------------------
(* Properties *)

Waiting == {"posted", "resolving", "connecting", "writing", "reading"}

Judged(x) ==
    IF session[x].at \in Waiting THEN "asked" ELSE session[x].result

Word(x) ==
    IF session[x].said \in {"none", "allow", "deny"} THEN session[x].said
    ELSE "unclear"

A == INSTANCE Authority WITH
        Judges <- Services \cup {Always},
        Lenient <- Always,
        answer <- [x \in Clients |-> Judged(x)],
        judge <- [x \in Clients |-> session[x].using],
        word <- [x \in Clients |-> Word(x)]

\* Whatever fails on the way, and whatever AUTH commands come in between, a
\* request is answered exactly once, ALLOW only if the mechanism of the
\* session's accept allowed it, and always in the end: the interceptors and
\* the session implement Authority (HttpAuthIntercept::on*, authResponseCb).
AnswersLikeAuthority == A!FairSpec

\* No answer is older than two cleanups when the resolver hands it to a session
\* or an interceptor, which starts to connect at once: one cleanup may run
\* between the answer of the DNS and its entry in the cache, and one between a
\* hit and its posted callback (DNSResolver::resolve, cleanupCache).  It may get
\* older after that, while the endpoints are tried one by one.
AddressesFresh ==
    [][\A x \in Clients :
          /\ session'[x].at \in {"connecting", "dialing"}
          /\ session'[x].at # session[x].at
          => session'[x].given.age <= 2]_vars

\* No entry of the cache stays: a cleanup always comes, and a host that no
\* session asks for any more is forgotten (cleanupCache arms its timer again).
EntriesExpire ==
    \A h \in Hosts : h \in DOMAIN cache ~> h \notin DOMAIN cache
=============================================================================
