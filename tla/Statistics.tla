----------------------------- MODULE Statistics -----------------------------
(***************************************************************************)
(* The statistics: sessions count what they carry on the io thread; at      *)
(* intervals the control thread collects the totals along four axes,        *)
(* reports what was added since the last round to the clients of the        *)
(* control socket that listen and to the statsd publishers, takes the       *)
(* finished sessions out again and starts the next interval (SessionCleanup,*)
(* StatCollector, StatControlCommand, ControlSession).                      *)
(*                                                                         *)
(* Of the numbers that are kept for a session the model keeps one, the      *)
(* bytes.  Numbers are unsigned and wrap at Width.                          *)
(***************************************************************************)
EXTENDS Integers, FiniteSetsExt, SequencesExt

CONSTANTS
    Sessions,    \* the sessions that may be accepted
    Vhosts,      \* names of virtual hosts
    Brokers,     \* addresses of backends
    Machines,    \* addresses of clients
    Clients,     \* connections to the control socket
    Width,       \* what unsigned numbers are taken modulo (2^64)
    Bounds,      \* bounds, of which a behaviour keeps one, see BoundType
    Null         \* no vhost and no backend yet

Command == {"LISTEN", "SEND", "STOP SEND", "ENABLE", "DISABLE", "MAPHOSTNAME",
            "FORCE_DISCONNECT", "HELP"}

\* The sessions that are accepted, what each of them carries at most, and the
\* commands that are given and how many at most.
BoundType == [sessions : SUBSET Sessions, bytes : Nat, commands : SUBSET Command,
              cmds : Nat]

ASSUME StatisticsAssumption ==
    /\ Width \in Nat
    /\ \A b \in Bounds : /\ b \in BoundType
                         /\ Width > b.bytes * Cardinality(b.sessions)

VARIABLES
    sess,      \* the SessionState of each session
    names,     \* the addresses that the DNSHostnameMapper has a name for
    mapper,    \* whether a hostname mapper was ever set
    perSource, \* StatCollector::d_collectPerSourceStats
    toggled,   \* whether perSource was ever changed
    stat,      \* StatCollector: d_current and d_previous
    rep,       \* the sum of what was reported on each axis
    functors,  \* StatControlCommand::d_functors
    client,    \* the ControlSessions
    ctl,       \* where the control thread is in the cleanup
    cmds,      \* the number of commands given
    bound      \* the bound of this behaviour, which never changes
vars == <<sess, names, mapper, perSource, toggled, stat, rep, functors, client,
          ctl, cmds, bound>>
collector == <<perSource, toggled, stat, rep>>
control == <<functors, client, cmds, bound>>

\* A host is shown by its address or, once the mapper has it, by its name.
Host(as) == {[addr |-> a, named |-> b] : a \in as, b \in BOOLEAN}
Axis == {<<"vhost", v>> : v \in Vhosts \cup {Null}}
            \cup {<<"backend", b>> : b \in Host(Brokers \cup {Null})}
            \cup {<<"source", h>> : h \in Host(Machines)}
            \cup {<<"overall">>}

Snapshot == [val : [Axis -> 0..(Width - 1)], has : SUBSET Axis]
NoStats == 0
Empty == [val |-> [a \in Axis |-> NoStats], has |-> {<<"overall">>}]
Swap(s) == [cur |-> s.prev, prev |-> s.cur]

SessionType ==
    [state : {"new", "here", "removed"}, up : BOOLEAN, fin : BOOLEAN,
     mapped : BOOLEAN, src : Machines, vhost : Vhosts \cup {Null},
     broker : Brokers \cup {Null}, bytes : Nat, seen : Nat]

\* sent: whether output with and without the end of the output is being written.
ClientType ==
    [conn : BOOLEAN, left : BOOLEAN, open : BOOLEAN, finished : BOOLEAN, sent : SUBSET BOOLEAN]
NoClient == [conn |-> FALSE, left |-> FALSE, open |-> FALSE, finished |-> FALSE,
             sent |-> {}]
NewClient == [NoClient EXCEPT !.conn = TRUE, !.open = TRUE]

\* A functor that listens for a client, or sends to a publisher (Null), on an
\* axis; told is what it was given in the round that runs.
Functor == [to : Clients \cup {Null}, axis : Axis \cup {<<"ALL">>},
            told : Nat \cup {-1}]

Idle == [pc |-> "idle", todo |-> {}, x |-> Null, del |-> {}]

-----------------------------------------------------------------------------
(* The io thread.                                                          *)

Up(x) == sess[x].state # "new" /\ sess[x].up

\* prime asks for the names of addresses it does not have, and may fail.
Prime(as, before) == \E found \in SUBSET as : names' = before \cup found

\* A session is accepted (setIngress).
Accept(x, a) ==
    /\ sess[x].state = "new" /\ x \in bound.sessions
    /\ sess' = [sess EXCEPT ![x].state = "here", ![x].up = TRUE, ![x].src = a,
                            ![x].mapped = mapper]
    /\ IF mapper THEN Prime({a}, names) ELSE UNCHANGED names
    /\ UNCHANGED <<mapper, collector, control, ctl>>

SetVirtualHost(x, v) ==
    /\ Up(x) /\ sess[x].vhost = Null
    /\ sess' = [sess EXCEPT ![x].vhost = v]
    /\ UNCHANGED <<names, mapper, collector, control, ctl>>

\* The backend is connected.
SetEgress(x, b) ==
    /\ Up(x) /\ sess[x].vhost # Null /\ sess[x].broker = Null
    /\ sess' = [sess EXCEPT ![x].broker = b]
    /\ IF sess[x].mapped THEN Prime({b}, names) ELSE UNCHANGED names
    /\ UNCHANGED <<mapper, collector, control, ctl>>

\* Data passes through an open session.
IncrementTotals(x) ==
    /\ Up(x) /\ sess[x].broker # Null /\ sess[x].bytes < bound.bytes
    /\ sess' = [sess EXCEPT ![x].bytes = @ + 1]
    /\ UNCHANGED <<names, mapper, collector, control, ctl>>

\* A peer leaves, or the sockets of a session that was disconnected by a command
\* are closed.
Leave(x) ==
    /\ Up(x)
    /\ sess' = [sess EXCEPT ![x].fin = TRUE, ![x].up = FALSE]
    /\ UNCHANGED <<names, mapper, collector, control, ctl>>

-----------------------------------------------------------------------------
(* The control socket.  Its handlers and the cleanup run on one thread.     *)

Handler == ctl.pc = "idle"

\* Control::doAccept, for the clients that will listen.
Connect(c) ==
    /\ Handler /\ ~client[c].conn /\ "LISTEN" \in bound.commands
    /\ client' = [client EXCEPT ![c] = NewClient]
    /\ UNCHANGED <<sess, names, mapper, collector, functors, ctl, cmds, bound>>

\* Clients may leave once they listen, which is all that matters of them.
Listens(c) == \E i \in DOMAIN functors : functors[i].to = c

ClientLeaves(c) ==
    /\ Listens(c) /\ ~client[c].left
    /\ client' = [client EXCEPT ![c].left = TRUE]
    /\ UNCHANGED <<sess, names, mapper, collector, functors, ctl, cmds, bound>>

\* sendOutput refuses when the session is finished.
SendOutput(cl, c, finish) ==
    IF cl[c].finished THEN cl ELSE [cl EXCEPT ![c].sent = @ \cup {finish}]

\* The handler of a write: an error, or the end of the output, finish the session.
WriteDone(c) ==
    /\ Handler
    /\ \E finish \in client[c].sent, failed \in BOOLEAN :
          /\ failed => client[c].left \/ ~client[c].open
          /\ ~failed => client[c].open
          /\ client' = [client EXCEPT ![c].sent = @ \ {finish},
                                      ![c].finished = @ \/ failed \/ finish,
                                      ![c].open = @ /\ (failed \/ ~finish)]
    /\ UNCHANGED <<sess, names, mapper, collector, functors, ctl, cmds, bound>>

\* Mutant of ReadFailed: the loss of the client is left to the next write.
ReadFailedIgnored(c) ==
    /\ Handler /\ client[c].conn /\ ~client[c].finished
    /\ client[c].left \/ ~client[c].open
    /\ UNCHANGED vars

\* The handler of a read that finds no line: the client left or the socket was
\* closed.
ReadFailed(c) ==
    /\ Handler /\ client[c].conn /\ ~client[c].finished
    /\ client[c].left \/ ~client[c].open
    /\ client' = [client EXCEPT ![c].finished = TRUE]
    /\ UNCHANGED <<sess, names, mapper, collector, functors, ctl, cmds, bound>>

\* A line is read and its command is processed.
ProcessInput(command) ==
    /\ Handler /\ command \in bound.commands /\ cmds < bound.cmds
    /\ cmds' = cmds + 1 /\ UNCHANGED bound

\* STAT LISTEN; the output is not ended.
Listen(c, axis) ==
    /\ ProcessInput("LISTEN") /\ client[c].open
    /\ functors' = Append(functors, [to |-> c, axis |-> axis, told |-> -1])
    /\ UNCHANGED <<sess, names, mapper, collector, client, ctl>>

\* Any other command of a client that listens is answered, and ends the output.
\* This one is HELP, which also stands for verbs that are not known.
Help(c) ==
    /\ ProcessInput("HELP") /\ client[c].open /\ Listens(c)
    /\ client' = SendOutput(client, c, TRUE)
    /\ UNCHANGED <<sess, names, mapper, collector, functors, ctl>>

\* The commands from here on are given by clients of which nothing else is heard.
\* STAT SEND, unless the name of its host cannot be resolved: then the exception
\* ends the control thread.
Send ==
    /\ ProcessInput("SEND")
    /\ \/ /\ functors' = Append(functors, [to |-> Null, axis |-> <<"ALL">>,
                                           told |-> -1])
          /\ UNCHANGED ctl
       \/ /\ ctl' = [Idle EXCEPT !.pc = "ended"]
          /\ UNCHANGED functors
    /\ UNCHANGED <<sess, names, mapper, collector, client>>

StopSendStats ==
    /\ ProcessInput("STOP SEND")
    /\ functors' = SelectSeq(functors, LAMBDA f : f.to # Null)
    /\ UNCHANGED <<sess, names, mapper, collector, client, ctl>>

CollectPerSourceStats(enabled) ==
    /\ ProcessInput(IF enabled THEN "ENABLE" ELSE "DISABLE")
    /\ perSource' = enabled
    /\ toggled' = (toggled \/ perSource # enabled)
    /\ UNCHANGED <<sess, names, mapper, stat, rep, functors, client, ctl>>

SetHostnameMapper(xs) ==
    /\ sess' = [x \in Sessions |-> [sess[x] EXCEPT !.mapped = @ \/ x \in xs]]
    /\ Prime({sess[x].src : x \in xs} \cup ({sess[x].broker : x \in xs} \ {Null}), {})

\* Server::setHostnameMapper, for the sessions to come.
ServerSetHostnameMapper == mapper' = TRUE

\* MAPHOSTNAME DNS: a new mapper for all sessions, which it is primed with.
MapHostname ==
    /\ ProcessInput("MAPHOSTNAME")
    /\ LET here == {x \in Sessions : sess[x].state = "here"}
       IN  SetHostnameMapper(here)
    /\ ServerSetHostnameMapper
    /\ UNCHANGED <<collector, functors, client, ctl>>

\* A command that disconnects a session: its sockets are closed later, on the io
\* thread.
ForceDisconnect(x) ==
    /\ ProcessInput("FORCE_DISCONNECT") /\ sess[x].state = "here" /\ ~sess[x].fin
    /\ sess' = [sess EXCEPT ![x].fin = TRUE]
    /\ UNCHANGED <<names, mapper, collector, functors, client, ctl>>

-----------------------------------------------------------------------------
(* The cleanup.                                                            *)

Hostname(x, a) == [addr |-> a, named |-> sess[x].mapped /\ a \in names]

\* getTotals, read at once.
Totals(x) == sess[x].bytes

\* The entries that a session belongs to.
AxesOf(x, sources) ==
    {<<"vhost", sess[x].vhost>>, <<"backend", Hostname(x, sess[x].broker)>>,
     <<"overall">>}
        \cup IF sources THEN {<<"source", Hostname(x, sess[x].src)>>} ELSE {}

\* What collect and deletedSession add; either makes an entry.
AddStats(snap, axes, n) ==
    [val |-> [a \in Axis |-> IF a \in axes THEN (snap.val[a] + n) % Width
                             ELSE snap.val[a]],
     has |-> snap.has \cup axes]

\* The recurring event: visitSessions copies the table.
Cleanup ==
    /\ Handler
    /\ ctl' = [Idle EXCEPT !.pc = "visit",
                           !.todo = {x \in Sessions : sess[x].state = "here"}]
    /\ UNCHANGED <<sess, names, mapper, collector, control>>

Collect(x) ==
    /\ ctl.pc = "visit" /\ ctl.x = Null /\ x \in ctl.todo
    /\ stat' = [stat EXCEPT !.cur = AddStats(@, AxesOf(x, perSource), Totals(x))]
    /\ sess' = [sess EXCEPT ![x].seen = Totals(x)]
    /\ ctl' = [ctl EXCEPT !.x = x, !.todo = @ \ {x}]
    /\ UNCHANGED <<names, mapper, perSource, toggled, rep, control>>

\* finished(), asked after collect.
Finished ==
    /\ ctl.pc = "visit" /\ ctl.x # Null
    /\ ctl' = [ctl EXCEPT !.x = Null,
                          !.del = @ \cup IF sess[ctl.x].fin THEN {ctl.x} ELSE {}]
    /\ UNCHANGED <<sess, names, mapper, collector, control>>

\* Mutant of PopulateMap: an entry that is new is compared with itself.
PopulateMapNew(cur, prev, a) ==
    IF a \in cur.has \cap prev.has THEN (cur.val[a] - prev.val[a]) % Width ELSE 0

\* What was added to an entry since the last round.
PopulateMap(cur, prev, a) ==
    IF a \in cur.has
    THEN (cur.val[a] - IF a \in prev.has THEN prev.val[a] ELSE 0) % Width
    ELSE 0

PopulateProgramStats(cur, prev) ==
    (cur.val[<<"overall">>] - prev.val[<<"overall">>]) % Width

PopulateStats(cur, prev) ==
    [a \in Axis |-> IF a = <<"overall">> THEN PopulateProgramStats(cur, prev)
                    ELSE PopulateMap(cur, prev, a)]

\* What a listener is told: zeros for an entry that is not there.
FormatOutput(report, axis) ==
    IF axis = <<"ALL">> THEN report[<<"overall">>] ELSE report[axis]

\* A publisher sends everything, of which the model keeps the overall number.
Publish(report) == report[<<"overall">>]

Told(report, f) == IF f.to = Null THEN Publish(report) ELSE FormatOutput(report, f.axis)

\* outputStats goes on unless the client is finished; a publisher always does.
OutputStats(cl, f) == f.to = Null \/ ~cl[f.to].finished

\* Mutant of InvokeFrom: the iterator moves on when a functor was erased.
RECURSIVE InvokeFromSkip(_, _, _, _)
InvokeFromSkip(report, fs, cl, i) ==
    IF i > Len(fs) THEN [functors |-> fs, client |-> cl]
    ELSE IF ~OutputStats(cl, fs[i])
         THEN InvokeFromSkip(report, RemoveAt(fs, i), cl, i + 1)
    ELSE InvokeFromSkip(report, [fs EXCEPT ![i].told = Told(report, fs[i])],
                        IF fs[i].to = Null THEN cl ELSE SendOutput(cl, fs[i].to, FALSE),
                        i + 1)

\* invokeHandlers from the i-th functor on, erasing those that do not go on.
RECURSIVE InvokeFrom(_, _, _, _)
InvokeFrom(report, fs, cl, i) ==
    IF i > Len(fs) THEN [functors |-> fs, client |-> cl]
    ELSE IF ~OutputStats(cl, fs[i])
         THEN InvokeFrom(report, RemoveAt(fs, i), cl, i)
    ELSE InvokeFrom(report, [fs EXCEPT ![i].told = Told(report, fs[i])],
                    IF fs[i].to = Null THEN cl ELSE SendOutput(cl, fs[i].to, FALSE),
                    i + 1)

InvokeHandlers(report) == InvokeFrom(report, functors, client, 1)

\* statisticsAvailable is emitted; the handlers are the only subscriber.
Emit ==
    /\ ctl.pc = "visit" /\ ctl.x = Null /\ ctl.todo = {}
    /\ LET report == PopulateStats(stat.cur, stat.prev)
           h == InvokeHandlers(report)
       IN  /\ rep' = [a \in Axis |-> rep[a] + report[a]]
           /\ functors' = h.functors /\ client' = h.client
    /\ ctl' = [ctl EXCEPT !.pc = "delete"]
    /\ UNCHANGED <<sess, names, mapper, perSource, toggled, stat, cmds, bound>>

\* Mutant of DeletedSession: the totals stay in the snapshot.
DeletedSessionStays(x) ==
    /\ ctl.pc = "delete" /\ x \in ctl.del
    /\ sess' = [sess EXCEPT ![x].state = "removed"]
    /\ ctl' = [ctl EXCEPT !.del = @ \ {x}]
    /\ UNCHANGED <<names, mapper, collector, control>>

\* deletedSession, on all axes, and removeSession.
DeletedSession(x) ==
    /\ ctl.pc = "delete" /\ x \in ctl.del
    /\ stat' = [stat EXCEPT !.cur = AddStats(@, AxesOf(x, TRUE), -Totals(x))]
    /\ sess' = [sess EXCEPT ![x].state = "removed"]
    /\ ctl' = [ctl EXCEPT !.del = @ \ {x}]
    /\ UNCHANGED <<names, mapper, perSource, toggled, rep, control>>

\* reset, and the event is scheduled again.
Reset ==
    /\ ctl.pc = "delete" /\ ctl.del = {}
    /\ stat' = [Swap(stat) EXCEPT !.cur = Empty]
    /\ functors' = [i \in DOMAIN functors |-> [functors[i] EXCEPT !.told = -1]]
    /\ ctl' = Idle
    /\ UNCHANGED <<sess, names, mapper, perSource, toggled, rep, client, cmds, bound>>

-----------------------------------------------------------------------------
Init ==
    /\ \E a \in Machines :
          sess = [x \in Sessions |->
                    [state |-> "new", up |-> FALSE, fin |-> FALSE, mapped |-> FALSE,
                     src |-> a, vhost |-> Null, broker |-> Null, bytes |-> 0,
                     seen |-> 0]]
    /\ names = {} /\ mapper = FALSE /\ perSource = TRUE /\ toggled = FALSE
    /\ stat = [cur |-> Empty, prev |-> Empty] /\ rep = Empty.val
    /\ functors = <<>> /\ client = [c \in Clients |-> NoClient]
    /\ ctl = Idle /\ cmds = 0 /\ bound \in Bounds

IoNext ==
    \E x \in Sessions :
        \/ \E a \in Machines : Accept(x, a)
        \/ \E v \in Vhosts : SetVirtualHost(x, v)
        \/ \E b \in Brokers : SetEgress(x, b)
        \/ IncrementTotals(x) \/ Leave(x)

\* A client listens to everything or to one axis.
Filter == {<<"ALL">>} \cup {<<"vhost", v>> : v \in Vhosts}

CommandNext ==
    \/ \E c \in Clients : Help(c) \/ \E a \in Filter : Listen(c, a)
    \/ Send \/ StopSendStats \/ MapHostname
    \/ \E enabled \in BOOLEAN : CollectPerSourceStats(enabled)
    \/ \E x \in Sessions : ForceDisconnect(x)

CleanupStep ==
    \/ \E x \in Sessions : Collect(x) \/ DeletedSession(x)
    \/ Finished \/ Emit \/ Reset

Next ==
    \/ IoNext \/ Cleanup \/ CleanupStep \/ CommandNext
    \/ \E c \in Clients : Connect(c) \/ ClientLeaves(c) \/ WriteDone(c) \/ ReadFailed(c)

Spec == Init /\ [][Next]_vars

\* The control thread goes on, its timer fires again and again, and it handles a
\* read that failed.  Nothing is assumed of sessions, clients and operators.
FairSpec ==
    /\ Spec
    /\ WF_vars(CleanupStep) /\ SF_vars(Cleanup)
    /\ \A c \in Clients : SF_vars(ReadFailed(c))

-----------------------------------------------------------------------------
TypeOK ==
    /\ sess \in [Sessions -> SessionType]
    /\ stat \in [cur : Snapshot, prev : Snapshot]
    /\ client \in [Clients -> ClientType]
    /\ functors \in Seq(Functor)
    /\ rep \in [Axis -> Nat]

\* The axes on which the entry of a session never changes.
Stable(a) ==
    /\ a[1] \in {"backend", "source"} => ~mapper
    /\ a[1] = "source" => ~toggled

SumOf(xs, f(_)) == FoldSet(LAMBDA x, n : n + f(x), 0, xs)
On(a) == {x \in Sessions : sess[x].state # "new" /\ a \in AxesOf(x, TRUE)}

\* No byte is reported twice, and no report wraps to a huge number: what was
\* reported on an axis is never more than what its sessions carried, though the
\* totals of a session that is removed are read twice, may have grown in between,
\* and the next session of its vhost begins from zero (the A-B-A problem that
\* deletedSession describes).
NoByteReportedTwice ==
    \A a \in Axis : Stable(a) => rep[a] <= SumOf(On(a), LAMBDA x : sess[x].bytes)

\* Nothing that was collected is lost: after a round all that the sessions of an
\* axis had carried when they were collected was reported, in the last round of a
\* session that finished too.
CollectedIsReported ==
    ctl.pc = "idle" =>
        \A a \in Axis : Stable(a) => rep[a] >= SumOf(On(a), LAMBDA x : sess[x].seen)

\* A round reaches every listener: each functor but those of finished clients is
\* given what the round reports on its axis and stays, whichever of its neighbours
\* in the list are erased.
ListenersHear ==
    [][ctl.pc = "visit" /\ ctl'.pc = "delete" =>
          LET live == SelectSeq(functors, LAMBDA f : f.to = Null \/
                                                     ~client[f.to].finished)
          IN  functors' = [i \in DOMAIN live |->
                  [live[i] EXCEPT !.told =
                      LET a == IF live[i].axis = <<"ALL">> THEN <<"overall">>
                               ELSE live[i].axis
                      IN  rep'[a] - rep[a]]]]_vars

\* The functors of a client that left are forgotten, and with them the control
\* session, as the comment on ControlSession says ("it is notified by the return
\* code to throw away its reference"), unless the control thread has ended.
ListenerForgotten ==
    \A c \in Clients :
        client[c].left ~> \/ \A i \in DOMAIN functors : functors[i].to # c
                          \/ ctl.pc = "ended"

=============================================================================
