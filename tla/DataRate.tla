------------------------------ MODULE DataRate ------------------------------
(***************************************************************************)
(* The limit on the bytes per second that are read from a client           *)
(* (MaybeSecureSocketAdaptor, DataRateLimit, DataRateLimitManager): the     *)
(* reads of one session, the timer that renews its quota, and the queue of  *)
(* asio from which one thread runs their handlers; the manager that keeps   *)
(* the limits for the control thread, and the steps in which either thread  *)
(* brings them to the session.                                              *)
(*                                                                         *)
(* A wait that is pending in the timer can be cancelled; one that has      *)
(* expired and whose handler is queued cannot.  The queue holds "poll", the *)
(* place of the reactor, which queues what became ready behind the          *)
(* handlers that are queued already: sockets first, then timers.           *)
(***************************************************************************)
EXTENDS Integers, Sequences, FiniteSetsExt, Functions

CONSTANTS
    Quotas,      \* the bytes per second that an operator may set
    Unlimited,   \* numeric_limits<size_t>::max(): no limit
    MaxRead,     \* bound on the bytes of one read
    MaxUsed,     \* bound on the bytes counted in a second (the history used)
    MaxCommands, \* bound on the number of commands issued
    Bounds       \* bounds of a behaviour, one of which Init picks: default, the
                 \* limits when the session is accepted; issued, the kinds and
                 \* scopes of the commands; backlog, the most unread bytes

Quota == Quotas \cup {Unlimited}
Kind  == {"limit", "alarm"}
NoQuota == 0 - 1   \* no entry for the vhost

ASSUME DataRateAssumption ==
    /\ Quotas \subseteq Nat /\ Unlimited \in Nat
    /\ \A q \in Quotas : q < Unlimited
    /\ MaxRead \in Nat \ {0}
    /\ MaxUsed \in Nat /\ MaxCommands \in Nat
    /\ Bounds \subseteq [default : [Kind -> Quota], backlog : Nat,
                         issued : SUBSET (Kind \X {"default", "vhost"})]

VARIABLES
    a,       \* the adaptor, see AdaptorType
    backlog, \* bytes that can be read from the socket
    cmds,    \* the number of commands issued
    manager, \* DataRateLimitManager: the default and the vhost's own value
    io,      \* the io thread inside the session, see Thread
    control, \* the control thread inside a LIMIT command, see Thread
    stale,   \* history: the kinds of limit that were set to an old value
    bounds   \* the bounds of this behaviour
vars == <<a, backlog, cmds, manager, io, control, stale, bounds>>
limits == <<manager, io, control, stale>>

\* at: the next step of the thread, kind and value: where it is in
\* updateDataRateLimits.  The io thread is "accepting" until the session is in the
\* list of the server, "unopened" until it knows the vhost, "opened" at last.
Thread == [at : {"idle", "visit all", "visit vhost", "read", "set",
                 "accepting", "unopened", "opened"},
           kind : Kind, value : Quota]
Ready == {"readable", "refresh", "read", "refresh aborted", "read aborted",
          "written", "closed", "poll"}

\* limit and alarm: DataRateLimit, wait: the handler waiting in d_dataRateTimer,
\* expired: its expiry has passed, io: what the session waits for, open: the
\* socket, alive: the adaptor exists.  History: used, the bytes read since the
\* quota was renewed, cap, that quota, and lost: the refresh has cancelled a read.
AdaptorType ==
    [limit : [quota : Quota, left : 0..Unlimited],
     alarm : [quota : Quota, left : 0..Unlimited],
     alarmed : BOOLEAN, started : BOOLEAN, open : BOOLEAN, alive : BOOLEAN,
     wait : {"none", "refresh", "read"}, expired : BOOLEAN,
     queue : Seq(Ready), io : {"reading", "writing", "none"},
     used : 0..MaxUsed, cap : Quota, lost : BOOLEAN]

-----------------------------------------------------------------------------
(* DataRateLimit.                                                          *)

\* recordUsage: without a limit nothing is recorded, and a quota that was
\* lowered meanwhile applies at once.
RecordUsage(l, n) ==
    LET left == Min({l.quota, l.left})
    IN  IF l.quota = Unlimited THEN l ELSE [l EXCEPT !.left = left - Min({left, n})]

\* DataRateLimit::onTimer.
Renew(l) == [l EXCEPT !.left = l.quota]

-----------------------------------------------------------------------------
(* The adaptor.                                                            *)

AbortedWait == [refresh |-> "refresh aborted", read |-> "read aborted"]

\* cancel(), and what a new expiry does first: the handler that is waiting is
\* queued with operation_aborted.
Cancel(t) ==
    [t EXCEPT !.wait = "none",
              !.queue = IF t.wait = "none" THEN @ ELSE Append(@, AbortedWait[t.wait])]

\* Mutant of OnTimer: the timer is not started again.
OnTimerOnce(t) ==
    [Cancel(t) EXCEPT !.limit = Renew(@), !.alarm = Renew(@), !.alarmed = FALSE,
                      !.expired = FALSE, !.started = TRUE,
                      !.used = 0, !.cap = t.limit.quota, !.lost = @ \/ t.wait = "read"]

\* onTimer: the quotas are renewed and the timer is started again.
OnTimer(t) ==
    [Cancel(t) EXCEPT !.limit = Renew(@), !.alarm = Renew(@), !.alarmed = FALSE,
                      !.expired = FALSE, !.wait = "refresh", !.started = TRUE,
                      !.used = 0, !.cap = t.limit.quota, !.lost = @ \/ t.wait = "read"]

\* The alarm only logs, and starts the timer when its quota is used up first.
CheckAlarm(t) ==
    IF t.alarmed \/ t.alarm.left # 0 THEN t
    ELSE IF t.started THEN [t EXCEPT !.alarmed = TRUE] ELSE OnTimer(t)

\* async_read_some of the socket, which fails when it is closed.
Read(t) ==
    IF t.open THEN [t EXCEPT !.io = "reading"]
    ELSE [t EXCEPT !.queue = Append(@, "closed")]

RecordReadUsage(t, n) ==
    [t EXCEPT !.limit = RecordUsage(@, n), !.alarm = RecordUsage(@, n)]

\* read_some counts what it read, with the octet that a secured read has taken
\* before.
ReadSomeOf(t, n) == [RecordReadUsage(t, n) EXCEPT !.used = Min({@ + n, MaxUsed})]

\* Mutant of AsyncReadSome: the quota is never enforced.
AsyncReadSomeFree(t) == Read(CheckAlarm(t))

\* async_read_some: with no quota left the read waits for the timer, whose
\* expiry is kept; the first time only the timer is started.
AsyncReadSome(t) ==
    LET u == CheckAlarm(t)
    IN  IF u.limit.left # 0 THEN Read(u)
        ELSE IF u.started THEN [Cancel(u) EXCEPT !.wait = "read"]
        ELSE Read(OnTimer(u))

-----------------------------------------------------------------------------
(* The io thread.                                                          *)

Free == io.at \in {"unopened", "opened"}

Handle(h) == Free /\ a.queue # <<>> /\ Head(a.queue) = h /\ UNCHANGED cmds
Popped == [a EXCEPT !.queue = Tail(@)]

\* The reactor queues what is ready.
Poll ==
    /\ Handle("poll")
    /\ LET sock == IF a.io = "reading" /\ backlog > 0 THEN <<"readable">> ELSE <<>>
           timer == IF a.wait # "none" /\ a.expired THEN <<a.wait>> ELSE <<>>
       IN  \E written \in IF a.io = "writing" THEN {<<>>, <<"written">>} ELSE {<<>>} :
             a' = [a EXCEPT !.queue = Tail(@) \o sock \o written \o timer \o <<"poll">>,
                            !.io = IF sock \o written = <<>> THEN @ ELSE "none",
                            !.wait = IF timer = <<>> THEN @ ELSE "none"]
    /\ UNCHANGED <<backlog, limits>>

\* The handler of readData: read_some, and then the next read when there is no
\* whole frame yet, or else a write, which is done at once or blocks.  The frame
\* that names the vhost makes establishConnection update the limits first.
ReadSome ==
    /\ Handle("readable")
    /\ IF ~a.open THEN a' = Popped /\ UNCHANGED <<backlog, io>>
       ELSE \E n \in 1..Min({backlog, MaxRead}) :
              /\ backlog' = backlog - n
              /\ LET t == ReadSomeOf(Popped, n)
                 IN  \/ /\ a' \in {AsyncReadSome(t), [t EXCEPT !.io = "writing"],
                                   [t EXCEPT !.queue = Append(@, "written")]}
                        /\ UNCHANGED io
                     \/ /\ io.at = "unopened"
                        /\ io' = [io EXCEPT !.at = "read"]
                        /\ a' = t
    /\ UNCHANGED <<manager, control, stale>>

\* The handler of the write begins the next read.
Written ==
    /\ Handle("written")
    /\ a' = AsyncReadSome(Popped)
    /\ UNCHANGED <<backlog, limits>>

\* Mutant of Refresh: the timer is started again for an adaptor that is gone.
RefreshAlways ==
    /\ Handle("refresh")
    /\ a' = OnTimer(Popped)
    /\ UNCHANGED <<backlog, limits>>

\* The handler that onTimer leaves in the timer.
Refresh ==
    /\ Handle("refresh")
    /\ a' = IF a.alive THEN OnTimer(Popped) ELSE Popped
    /\ UNCHANGED <<backlog, limits>>

\* The handler that a paused read leaves in the timer; it holds the session, and
\* with it the adaptor.
ResumeRead ==
    /\ Handle("read")
    /\ a' = AsyncReadSome(OnTimer(Popped))
    /\ UNCHANGED <<backlog, limits>>

\* Either of them, cancelled, does nothing; an operation that failed ends the
\* chain of reads (handleSessionError).
Aborted ==
    /\ Handle("refresh aborted") \/ Handle("read aborted") \/ Handle("closed")
    /\ a' = Popped
    /\ UNCHANGED <<backlog, limits>>

\* The session is ended, by whoever, and closes its socket; the timer goes on.
Close ==
    /\ Free /\ a.open
    /\ a' = [a EXCEPT !.open = FALSE, !.io = "none",
                      !.queue = IF a.io = "none" THEN @ ELSE Append(@, "closed")]
    /\ UNCHANGED <<backlog, cmds, limits>>

Queued(h) == h \in Range(a.queue)

\* The handlers that hold a reference to the session.
Held ==
    \/ ~Free \/ control.at \in {"read", "set"}
    \/ a.io # "none" \/ a.wait = "read"
    \/ \E h \in {"readable", "written", "closed", "read", "read aborted"} : Queued(h)

\* The session, and the adaptor with it, is destroyed when no handler holds it:
\* the destructor cancels the timer.
Destroy ==
    /\ a.alive /\ ~a.open /\ ~Held
    /\ a' = [Cancel(a) EXCEPT !.alive = FALSE]
    /\ UNCHANGED <<backlog, cmds, limits>>

-----------------------------------------------------------------------------
(* The client, the clock and the control thread.                           *)

ClientSends ==
    /\ a.open /\ backlog < bounds.backlog
    /\ backlog' = backlog + 1
    /\ UNCHANGED <<a, cmds, limits>>

Expire ==
    /\ a.wait # "none" /\ ~a.expired
    /\ a' = [a EXCEPT !.expired = TRUE]
    /\ UNCHANGED <<backlog, cmds, limits>>

SetQuota(l, q) == [l EXCEPT !.quota = q]

\* setReadRateLimit, setReadRateAlarm.  Without a limit there is none in the
\* second that has begun either.
SetReadRate(k, q) ==
    [a EXCEPT ![k] = SetQuota(@, q),
              !.cap = IF k = "limit" /\ q = Unlimited THEN Unlimited ELSE @]

-----------------------------------------------------------------------------
(* The limits, from the manager to the session.                            *)

\* getVirtualHost() is empty before the session is opened.
VhostKnown == io.at \notin {"accepting", "unopened"}

\* getDataRateLimit, getDataRateAlarm.
Limit(k) ==
    IF VhostKnown /\ manager[k].vhost # NoQuota THEN manager[k].vhost
    ELSE manager[k].default

\* LIMIT PRINT of a vhost.
PrintVhostLimits(k) == Limit(k)

\* setDefaultDataRateLimit, setVhostDataRateLimit, disableVhostDataRateLimit, and
\* the same for the alarm.
DefaultSet(k, q) == [manager EXCEPT ![k].default = q]
VhostSet(k, q)   == [manager EXCEPT ![k].vhost = q]

\* The session, made with the default limits, enters the list of the server.
Listed ==
    /\ io.at = "accepting"
    /\ io' = [io EXCEPT !.at = "unopened"]
    /\ UNCHANGED <<a, backlog, cmds, manager, control, stale>>

\* The steps of updateDataRateLimits, for the limit and then for the alarm: read
\* it from the manager, set it in the adaptor.
ReadLimit(th) == [th EXCEPT !.at = "set", !.value = Limit(th.kind)]
LimitSet(th, done) ==
    IF th.kind = "limit" THEN [th EXCEPT !.at = "read", !.kind = "alarm"]
    ELSE [at |-> done, kind |-> "limit", value |-> Unlimited]
NowStale(th) ==
    IF th.value = Limit(th.kind) THEN stale \ {th.kind} ELSE stale \cup {th.kind}

\* On the io thread, which goes on to read from the client.
IoReadsLimit ==
    /\ io.at = "read"
    /\ io' = ReadLimit(io)
    /\ UNCHANGED <<a, backlog, cmds, manager, control, stale>>
IoSetsLimit ==
    /\ io.at = "set"
    /\ io' = LimitSet(io, "opened")
    /\ LET t == SetReadRate(io.kind, io.value)
       IN  a' = IF io.kind = "limit" THEN t ELSE AsyncReadSome(t)
    /\ stale' = NowStale(io)
    /\ UNCHANGED <<backlog, cmds, manager, control>>

\* What a command says it is about, out of those that may be issued.
ReadVhostOrDefault(k) == {to \in {"vhost", "default"} : <<k, to>> \in bounds.issued}

\* LIMIT and LIMIT DISABLE of DATA_RATE or DATA_RATE_ALARM: the manager first.
Command ==
    /\ a.alive /\ control.at = "idle" /\ cmds < MaxCommands
    /\ cmds' = cmds + 1
    /\ \E k \in Kind :
          \/ \E q \in Quota :
                /\ "default" \in ReadVhostOrDefault(k)
                /\ manager' = DefaultSet(k, q)
                /\ control' = [control EXCEPT !.at = "visit all"]
          \/ \E q \in Quotas \cup {NoQuota} :
                /\ "vhost" \in ReadVhostOrDefault(k)
                /\ manager' = VhostSet(k, q)
                /\ control' = [control EXCEPT !.at = "visit vhost"]
    /\ UNCHANGED <<a, backlog, io, stale>>

\* Mutant of Visit: a new default reaches only the sessions without a vhost.
VisitUnopened ==
    /\ control.at \in {"visit all", "visit vhost"}
    /\ LET visited == /\ a.alive /\ io.at # "accepting"
                      /\ VhostKnown = (control.at = "visit vhost")
       IN  control' = [control EXCEPT !.at = IF visited THEN "read" ELSE "idle"]
    /\ UNCHANGED <<a, backlog, cmds, manager, io, stale>>

\* updateDefaultLimits and updateVhostLimits visit the sessions in the list, the
\* second those of the vhost.
Visit ==
    /\ control.at \in {"visit all", "visit vhost"}
    /\ LET visited == /\ a.alive /\ io.at # "accepting"
                      /\ control.at = "visit all" \/ VhostKnown
       IN  control' = [control EXCEPT !.at = IF visited THEN "read" ELSE "idle"]
    /\ UNCHANGED <<a, backlog, cmds, manager, io, stale>>

ControlReadsLimit ==
    /\ control.at = "read"
    /\ control' = ReadLimit(control)
    /\ UNCHANGED <<a, backlog, cmds, manager, io, stale>>
ControlSetsLimit ==
    /\ control.at = "set"
    /\ control' = LimitSet(control, "idle")
    /\ a' = SetReadRate(control.kind, control.value)
    /\ stale' = NowStale(control)
    /\ UNCHANGED <<backlog, cmds, manager, io>>

-----------------------------------------------------------------------------
Unused == [quota |-> Unlimited, left |-> Unlimited]

Resting(at) == [at |-> at, kind |-> "limit", value |-> Unlimited]

\* The constructor of the session sets the default limits of that moment.
Init ==
    /\ bounds \in Bounds
    /\ manager = [k \in Kind |-> [default |-> bounds.default[k], vhost |-> NoQuota]]
    /\ a = [limit |-> [Unused EXCEPT !.quota = bounds.default.limit],
            alarm |-> [Unused EXCEPT !.quota = bounds.default.alarm],
            alarmed |-> FALSE, started |-> FALSE, open |-> TRUE, alive |-> TRUE,
            wait |-> "none", expired |-> FALSE, queue |-> <<"poll">>,
            io |-> "reading", used |-> 0, cap |-> Unlimited, lost |-> FALSE]
    /\ backlog = 0 /\ cmds = 0
    /\ io = Resting("accepting") /\ control = Resting("idle") /\ stale = {}

Handlers ==
    \/ Poll \/ ReadSome \/ Written \/ Refresh \/ ResumeRead \/ Aborted
    \/ Listed \/ IoReadsLimit \/ IoSetsLimit
Control == Visit \/ ControlReadsLimit \/ ControlSetsLimit

Next ==
    /\ \/ Handlers \/ Control \/ Command
       \/ Close \/ Destroy \/ ClientSends \/ Expire
    /\ UNCHANGED bounds

Spec == Init /\ [][Next]_vars

\* Both threads run, time passes, and what nobody holds is destroyed.
FairSpec ==
    /\ Spec
    /\ WF_vars(Handlers /\ UNCHANGED bounds) /\ WF_vars(Control /\ UNCHANGED bounds)
    /\ WF_vars(Expire /\ UNCHANGED bounds) /\ WF_vars(Destroy /\ UNCHANGED bounds)

-----------------------------------------------------------------------------
TypeOK ==
    /\ a \in AdaptorType /\ backlog \in 0..bounds.backlog /\ cmds \in 0..MaxCommands
    /\ manager \in [Kind -> [default : Quota, vhost : Quotas \cup {NoQuota}]]
    /\ io \in Thread /\ control \in Thread /\ stale \subseteq Kind

\* "pausing for one second before starting a read operation": reading goes on.
\* Once started, the timer that renews the quota never stops while there is an
\* adaptor, whichever of the paused read and the refresh cancels the other; and an
\* open session always waits for a read or a write, or its handler is on the way.
\* The one exception is known: a refresh that was queued before the read was paused
\* cancels it (async_read_some, onTimer).
ReadsGoOn ==
    /\ a.alive /\ a.started => a.wait # "none" \/ Queued("refresh") \/ Queued("read")
    /\ a.open /\ Free /\ ~a.lost =>
         \/ a.io # "none" \/ a.wait = "read"
         \/ Queued("readable") \/ Queued("written") \/ Queued("read")

\* In a second of the timer no more is read than the quota at its beginning, and
\* what the read that passes the quota takes, however the limit is changed, unless
\* it is disabled.
QuotaEnforced ==
    a.started /\ a.cap # Unlimited /\ a.cap + MaxRead <= MaxUsed
        => a.used < Max({a.cap, 1}) + MaxRead

\* A closed session is not kept by its timer: a read that waits in it is begun,
\* fails and lets go of the session, and then the timer comes to rest.  With a limit
\* of no bytes at all the read waits again each second, for ever.
ClosedIsReleased ==
    ~a.open ~> \/ a.limit.quota = 0
               \/ ~a.alive /\ a.wait = "none" /\ ~Queued("refresh")

\* The limits of an opened session are those of its vhost, or else the defaults,
\* as LIMIT PRINT shows them, whenever no command is under way, however commands
\* and the opening of the session overlap.  The one exception is known: a thread
\* that read a limit before the other changed it, or before the vhost was known,
\* sets it last (updateDataRateLimits, LimitControlCommand).
LimitsReachSession ==
    a.alive /\ io.at = "opened" /\ control.at = "idle" =>
        \A k \in Kind \ stale : a[k].quota = PrintVhostLimits(k)

=============================================================================
