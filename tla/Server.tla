------------------------------- MODULE Server -------------------------------
(***************************************************************************)
(* The threads around the sessions: the io thread accepts them, learns     *)
(* their vhost and carries their data; the control thread pauses, resumes  *)
(* and disconnects them, and at intervals removes the finished ones         *)
(* (SessionCleanup; Statistics models what it collects).  The main thread   *)
(* configures the server, becomes the io thread and waits for the control  *)
(* thread in the end (main).  A step is what one thread does under one     *)
(* lock or with one atomic variable.                                       *)
(*                                                                         *)
(* A session is what the other components see of it (SessionState) and the *)
(* references to it; Session models what happens inside.                   *)
(***************************************************************************)
EXTENDS Integers, FiniteSets, Sequences

CONSTANTS
    Sessions,    \* the sessions that may be accepted
    Vhosts,      \* names of virtual hosts
    Ports,       \* the ports that are listened on
    Commands,    \* the commands that may be issued
    MaxLoad,     \* bound on the sessions accepted and the commands issued
    Null         \* no session, and the vhost before it is known

\* The subcommands of VHOST and of SESSION that change something, and the others.
VhostCommands == {"PAUSE", "UNPAUSE", "FORCE_DISCONNECT", "BACKEND_DISCONNECT"}
SessionCommands ==
    {"SESSION PAUSE", "SESSION DISCONNECT_GRACEFUL", "SESSION FORCE_DISCONNECT"}
Command == VhostCommands \cup SessionCommands
               \cup {"LISTEN START", "LISTEN STOP", "EXIT"}

ASSUME ServerAssumption ==
    /\ Commands \subseteq Command /\ MaxLoad \in Nat
    /\ Null \notin Sessions \cup Vhosts \cup {"visiting"}

VARIABLES
    sess,     \* the sessions
    table,    \* Server::d_sessions
    deleting, \* Server::d_deletingSessions
    vpaused,  \* VhostState: the vhosts that are paused
    listener, \* Server::d_listeningSockets: the ports that are listened on
    accepts,  \* for each port, the number of its pending accepts
    posted,   \* closures and aborted accepts queued for the io thread
    io,       \* where the io thread is in the handler it runs
    ctl,      \* where the control thread is in the command it runs
    cmds,     \* the number of commands issued
    main,     \* where main is: "configure", "run", "join" or "ended"
    stopped   \* the io_contexts that were stopped: "server", "control"
vars == <<sess, table, deleting, vpaused, listener, accepts, posted, io, ctl, cmds,
          main, stopped>>
life == <<main, stopped>>
net == <<listener, accepts>>

\* Of a session: whether it was made, a handler refers to it, the client's socket
\* is open, whether the broker's is or was cut off, and its SessionState.
SessionType ==
    [made : BOOLEAN, held : BOOLEAN, up : BOOLEAN,
     egress : {"none", "connecting", "open", "cut"},
     vhost : Vhosts \cup {Null}, paused : BOOLEAN, ready : BOOLEAN,
     fin : BOOLEAN]

NoSession ==
    [made |-> FALSE, held |-> FALSE, up |-> FALSE, egress |-> "none", vhost |-> Null,
     paused |-> FALSE, ready |-> FALSE, fin |-> FALSE]

\* Both sockets are closed; a connect that is aborted goes on to the next endpoint,
\* which opens the broker's again.
Disconnected(t) ==
    [t EXCEPT !.up = FALSE, !.egress = IF @ = "connecting" THEN @ ELSE "none"]

\* backendDisconnect closes the broker's socket only.
BackendDisconnected(t) == [t EXCEPT !.egress = IF @ = "open" THEN "cut" ELSE @]

IoIdle == [pc |-> "idle", x |-> Null]
CtlIdle == [pc |-> "idle", v |-> Null, x |-> Null, todo |-> {}, copy |-> {},
            del |-> {}]

NoAccepts == [p \in Ports |-> 0]

Closure(k, a) == [kind |-> k, arg |-> a]

\* A session counts for two commands.
Load == cmds + 2 * Cardinality({x \in Sessions : sess[x].made})

-----------------------------------------------------------------------------
(* The io thread.                                                          *)

\* A handler starts when the one before it has returned, while run() runs.
Handler == io.pc = "idle" /\ main = "run" /\ "server" \notin stopped

\* doAccept, with the listeners l and the accepts a: nothing without a listener.
DoAccept(l, a, port) == IF port \in l THEN [a EXCEPT ![port] = @ + 1] ELSE a

\* Mutant of Accept: one connection is accepted.
AcceptOnce(x) ==
    /\ Handler /\ ~sess[x].made /\ Load + 2 <= MaxLoad
    /\ \E p \in Ports : accepts[p] > 0 /\ accepts' = [accepts EXCEPT ![p] = @ - 1]
    /\ sess' = [sess EXCEPT ![x] = [NoSession EXCEPT !.made = TRUE, !.held = TRUE,
                                                     !.up = TRUE]]
    /\ table' = table \cup {x}
    /\ UNCHANGED <<deleting, vpaused, listener, posted, io, ctl, cmds, life>>

\* The handler of async_accept: the session is put into the table and started,
\* and the next accept is begun.
Accept(x) ==
    /\ Handler /\ ~sess[x].made /\ Load + 2 <= MaxLoad
    /\ \E p \in Ports :
          /\ accepts[p] > 0
          /\ accepts' = DoAccept(listener, [accepts EXCEPT ![p] = @ - 1], p)
    /\ sess' = [sess EXCEPT ![x] = [NoSession EXCEPT !.made = TRUE, !.held = TRUE,
                                                     !.up = TRUE]]
    /\ table' = table \cup {x}
    /\ UNCHANGED <<deleting, vpaused, listener, posted, io, ctl, cmds, life>>

\* Open arrives, and is handled unless the session is paused: setVirtualHost,
\* and the event is emitted.
VhostEstablished(x) ==
    /\ Handler /\ sess[x].held /\ sess[x].up /\ ~sess[x].paused /\ sess[x].vhost = Null
    /\ \E v \in Vhosts : sess' = [sess EXCEPT ![x].vhost = v]
    /\ io' = [pc |-> "isPaused", x |-> x]
    /\ UNCHANGED <<table, deleting, vpaused, net, posted, ctl, cmds, life>>

\* vhostEstablishedPauser: isPaused(vhost).
IsPaused ==
    /\ io.pc = "isPaused"
    /\ io' = [io EXCEPT !.pc = IF sess[io.x].vhost \in vpaused THEN "getSession"
                               ELSE "establish"]
    /\ UNCHANGED <<sess, table, deleting, vpaused, net, posted, ctl, cmds, life>>

\* getSession: a session of the table, or none.
GetSession(x) == IF x \in table THEN x ELSE Null

\* getSession(id)->pause(): there may be no such session any more.
PauserPause ==
    /\ io.pc = "getSession"
    /\ IF GetSession(io.x) # Null
       THEN /\ sess' = [sess EXCEPT ![io.x].paused = TRUE]
            /\ io' = [io EXCEPT !.pc = "establish"]
       ELSE io' = [io EXCEPT !.pc = "crashed"] /\ UNCHANGED sess
    /\ UNCHANGED <<table, deleting, vpaused, net, posted, ctl, cmds, life>>

\* establishConnection connects unless the session is paused.
Establish ==
    /\ io.pc = "establish"
    /\ IF sess[io.x].paused
       THEN io' = [io EXCEPT !.pc = "setReady"] /\ UNCHANGED sess
       ELSE io' = IoIdle /\ sess' = [sess EXCEPT ![io.x].egress = "connecting"]
    /\ UNCHANGED <<table, deleting, vpaused, net, posted, ctl, cmds, life>>

SetReady ==
    /\ io.pc = "setReady"
    /\ sess' = [sess EXCEPT ![io.x].ready = TRUE]
    /\ io' = IoIdle
    /\ UNCHANGED <<table, deleting, vpaused, net, posted, ctl, cmds, life>>

\* The search for a broker ends with a connection, also if the client has gone ...
Connected(x) ==
    /\ Handler /\ sess[x].egress = "connecting"
    /\ sess' = [sess EXCEPT ![x].egress = "open"]
    /\ UNCHANGED <<table, deleting, vpaused, net, posted, io, ctl, cmds, life>>

\* ... or with disconnect(true), or because the session is paused or finished.
Unreachable(x) ==
    /\ Handler /\ sess[x].egress = "connecting"
    /\ \/ sess' = [sess EXCEPT ![x] = [@ EXCEPT !.fin = TRUE, !.up = FALSE,
                                                !.egress = "none"]]
       \/ /\ sess[x].paused \/ sess[x].fin
          /\ sess' = [sess EXCEPT ![x].egress = "none"]
    /\ UNCHANGED <<table, deleting, vpaused, net, posted, io, ctl, cmds, life>>

\* A peer leaves: handleSessionError closes both sockets.  (A client that leaves
\* without the CloseOk of a graceful disconnect changes nothing here.)
Leave(x) ==
    /\ Handler /\ sess[x].held /\ (sess[x].up \/ sess[x].egress = "open")
    /\ sess' = [sess EXCEPT ![x] = [Disconnected(@) EXCEPT !.fin = TRUE]]
    /\ UNCHANGED <<table, deleting, vpaused, net, posted, io, ctl, cmds, life>>

\* The peers close the connection with Close and CloseOk: performDisconnectBoth.
CloseOk(x) ==
    /\ Handler /\ sess[x].held /\ sess[x].up /\ sess[x].egress = "open"
    /\ sess' = [sess EXCEPT ![x] = Disconnected(@)]
    /\ UNCHANGED <<table, deleting, vpaused, net, posted, io, ctl, cmds, life>>

\* handleSessionError of an operation that was aborted by closing its socket: the
\* session is finished, the other socket stays as it is.
Aborted(x) ==
    /\ Handler /\ sess[x].held /\ ~sess[x].fin
    /\ ~sess[x].up \/ sess[x].egress = "cut"
    /\ sess' = [sess EXCEPT ![x].fin = TRUE]
    /\ UNCHANGED <<table, deleting, vpaused, net, posted, io, ctl, cmds, life>>

\* What the client of a paused session sends ends the reading from it.
PausedRead(x) ==
    /\ Handler /\ sess[x].held /\ sess[x].up /\ sess[x].paused
    /\ sess[x].egress = "none"
    /\ sess' = [sess EXCEPT ![x].held = FALSE]
    /\ UNCHANGED <<table, deleting, vpaused, net, posted, io, ctl, cmds, life>>

\* The last handler of a finished session returns.  With its client connected and
\* its broker closed that is so if both directions wait for the broker.
Release(x) ==
    /\ Handler /\ sess[x].held /\ sess[x].fin
    /\ sess[x].egress \notin {"connecting", "open"}
    /\ ~sess[x].up \/ sess[x].egress = "cut"
    /\ sess' = [sess EXCEPT ![x].held = FALSE]
    /\ UNCHANGED <<table, deleting, vpaused, net, posted, io, ctl, cmds, life>>

\* Running what was queued.
Run(k) ==
    /\ Handler /\ posted # <<>> /\ Head(posted).kind = k
    /\ UNCHANGED <<table, deleting, vpaused, io, ctl, cmds, life>>

\* The shutdown of the sockets and their closing, which has handlers of its own.
PerformDisconnectBoth ==
    /\ Run("both")
    /\ sess' = [sess EXCEPT ![Head(posted).arg] = [Disconnected(@) EXCEPT !.held = TRUE]]
    /\ posted' = Tail(posted)
    /\ UNCHANGED net

PerformBackendDisconnect ==
    /\ Run("backend")
    /\ sess' = [sess EXCEPT ![Head(posted).arg] =
                   [BackendDisconnected(@) EXCEPT !.held = TRUE]]
    /\ posted' = Tail(posted)
    /\ UNCHANGED net

\* The closure of clearDefunctSessions drops its references.
DropSessions ==
    /\ Run("drop")
    /\ posted' = Tail(posted)
    /\ UNCHANGED <<sess, net>>

StartListening ==
    /\ Run("start")
    /\ LET p == Head(posted).arg
       IN  IF p \in listener THEN UNCHANGED net
           ELSE /\ listener' = listener \cup {p}
                /\ accepts' = DoAccept(listener', accepts, p)
    /\ posted' = Tail(posted)
    /\ UNCHANGED sess

\* The port is taken: the exception leaves run(), which closes the listeners,
\* and main waits for the control thread.
BindFails ==
    /\ Handler /\ posted # <<>> /\ Head(posted).kind = "start"
    /\ Head(posted).arg \notin listener
    /\ posted' = Tail(posted)
    /\ accepts' = NoAccepts
    /\ main' = "join"
    /\ UNCHANGED <<sess, table, deleting, vpaused, listener, io, ctl, cmds, stopped>>

\* Closing the listener queues the handlers of its accepts with an error.
StopListening ==
    /\ Run("stop")
    /\ LET p == Head(posted).arg
       IN  /\ listener' = listener \ {p}
           /\ accepts' = [accepts EXCEPT ![p] = 0]
           /\ posted' = Tail(posted)
                            \o [i \in 1..accepts[p] |-> Closure("failed", p)]
    /\ UNCHANGED sess

\* A failed accept falls through to the next one, whether its listener was closed
\* or not.
AcceptFailed ==
    /\ Run("failed")
    /\ accepts' = DoAccept(listener, accepts, Head(posted).arg)
    /\ posted' = Tail(posted)
    /\ UNCHANGED <<sess, listener>>

AcceptError ==
    /\ Handler
    /\ \E p \in Ports :
          /\ accepts[p] > 0
          /\ accepts' = DoAccept(listener, [accepts EXCEPT ![p] = @ - 1], p)
    /\ UNCHANGED <<sess, table, deleting, vpaused, listener, posted, io, ctl, cmds, life>>

-----------------------------------------------------------------------------
(* The control thread: commands.                                           *)

\* The program ends with a null pointer in the pauser, and its control thread
\* with EXIT.
Running == io.pc # "crashed" /\ "control" \notin stopped
Control(pc) == Running /\ ctl.pc = pc

Issue(c) ==
    Control("idle") /\ c \in Commands /\ Load + 1 <= MaxLoad /\ cmds' = cmds + 1

\* disconnect(true).
Disconnect(x) ==
    /\ sess' = [sess EXCEPT ![x].fin = TRUE]
    /\ posted' = Append(posted, Closure("both", x))

\* disconnect(false) writes Close to the client, and reads again after that.
DisconnectGraceful(x) == sess' = [sess EXCEPT ![x].held = TRUE] /\ UNCHANGED posted

BackendDisconnect(x) ==
    posted' = Append(posted, Closure("backend", x)) /\ UNCHANGED sess

Pause(x) == sess' = [sess EXCEPT ![x].paused = TRUE] /\ UNCHANGED posted

\* unpause() resumes a session that was ready to connect and disconnects any
\* other one that is paused.
Unpause(x) ==
    \/ /\ ~sess[x].paused
       /\ UNCHANGED <<sess, posted>>
    \/ /\ sess[x].paused /\ sess[x].ready
       /\ sess' = [sess EXCEPT ![x] = [@ EXCEPT !.ready = FALSE, !.paused = FALSE,
                                               !.egress = "connecting",
                                               !.held = TRUE]]
       /\ UNCHANGED posted
    \/ /\ sess[x].paused /\ ~sess[x].ready
       /\ Disconnect(x)

\* VhostState::setPaused.
SetPaused(v, paused) == IF paused THEN vpaused \cup {v} ELSE vpaused \ {v}

\* VHOST PAUSE and VHOST UNPAUSE first set the state of the vhost.
VhostCommand(c, v) ==
    /\ Issue(c)
    /\ vpaused' = IF c \in {"PAUSE", "UNPAUSE"} THEN SetPaused(v, c = "PAUSE")
                  ELSE vpaused
    /\ ctl' = [CtlIdle EXCEPT !.pc = c, !.v = v]
    /\ UNCHANGED <<sess, table, deleting, net, posted, io, life>>

\* Mutant of Visitor: VHOST PAUSE leaves out the sessions without a broker.
VisitorOpen(c, v, x) ==
    IF sess[x].vhost # v THEN UNCHANGED <<sess, posted>>
    ELSE \/ c = "PAUSE" /\ sess[x].egress = "open" /\ Pause(x)
         \/ c = "PAUSE" /\ sess[x].egress # "open" /\ UNCHANGED <<sess, posted>>
         \/ c = "UNPAUSE" /\ Unpause(x)
         \/ c = "FORCE_DISCONNECT" /\ Disconnect(x)
         \/ c = "BACKEND_DISCONNECT" /\ BackendDisconnect(x)

Visitor(c, v, x) ==
    IF sess[x].vhost # v THEN UNCHANGED <<sess, posted>>
    ELSE \/ c = "PAUSE" /\ Pause(x)
         \/ c = "UNPAUSE" /\ Unpause(x)
         \/ c = "FORCE_DISCONNECT" /\ Disconnect(x)
         \/ c = "BACKEND_DISCONNECT" /\ BackendDisconnect(x)

\* visitSessions copies the table under the lock ...
VisitSessions ==
    /\ Running /\ ctl.pc \in VhostCommands \cup {"cleanup"}
    /\ ctl.x = Null
    /\ ctl' = [ctl EXCEPT !.copy = table, !.todo = table, !.x = "visiting"]
    /\ UNCHANGED <<sess, table, deleting, vpaused, net, posted, io, cmds, life>>

\* ... and calls the visitor for each, in any order.
VhostVisit(x) ==
    /\ Running /\ ctl.pc \in VhostCommands
    /\ ctl.x = "visiting" /\ x \in ctl.todo
    /\ Visitor(ctl.pc, ctl.v, x)
    /\ ctl' = [ctl EXCEPT !.todo = @ \ {x}]
    /\ UNCHANGED <<table, deleting, vpaused, net, io, cmds, life>>

VhostVisited ==
    /\ Running /\ ctl.pc \in VhostCommands
    /\ ctl.x = "visiting" /\ ctl.todo = {}
    /\ ctl' = CtlIdle
    /\ UNCHANGED <<sess, table, deleting, vpaused, net, posted, io, cmds, life>>

\* The SESSION commands, of a session in the table.
SessionCommand(c, x) ==
    /\ Issue(c) /\ GetSession(x) # Null
    /\ \/ c = "SESSION PAUSE" /\ Pause(x)
       \/ c = "SESSION DISCONNECT_GRACEFUL" /\ DisconnectGraceful(x)
       \/ c = "SESSION FORCE_DISCONNECT" /\ Disconnect(x)
    /\ UNCHANGED <<table, deleting, vpaused, net, io, ctl, life>>

\* LISTEN START, START_SECURE and STOP are dispatched to the io thread.
ListenStart(port) ==
    /\ Issue("LISTEN START")
    /\ posted' = Append(posted, Closure("start", port))
    /\ UNCHANGED <<sess, table, deleting, vpaused, net, io, ctl, life>>

\* stopAllListening dispatches one stop for each port that is listened on.
StopAllListening ==
    LET n == Cardinality(listener)
    IN  \E f \in [1..n -> listener] :
           /\ listener \subseteq {f[i] : i \in 1..n}
           /\ posted' = posted \o [i \in 1..n |-> Closure("stop", f[i])]

\* LISTEN STOP of one port, or of all.
ListenStop ==
    /\ Issue("LISTEN STOP")
    /\ \/ \E port \in Ports : posted' = Append(posted, Closure("stop", port))
       \/ StopAllListening
    /\ UNCHANGED <<sess, table, deleting, vpaused, net, io, ctl, life>>

\* Server::stop.
Stop == stopped' = {"server"}

\* EXIT stops the server's io_context; the handler that is running there goes on
\* to its end ...
Exit ==
    /\ Issue("EXIT")
    /\ Stop
    /\ ctl' = [CtlIdle EXCEPT !.pc = "exit"]
    /\ UNCHANGED <<sess, table, deleting, vpaused, net, posted, io, main>>

\* Mutant of StopControl: the server is stopped a second time.
StopServerAgain ==
    /\ Control("exit")
    /\ ctl' = CtlIdle
    /\ UNCHANGED <<sess, table, deleting, vpaused, net, posted, io, cmds, life>>

\* ... and then its own.
StopControl ==
    /\ Control("exit")
    /\ stopped' = stopped \cup {"control"}
    /\ ctl' = CtlIdle
    /\ UNCHANGED <<sess, table, deleting, vpaused, net, posted, io, cmds, main>>

-----------------------------------------------------------------------------
(* The control thread: SessionCleanup.                                     *)

Cleanup ==
    /\ Control("idle")
    /\ ctl' = [CtlIdle EXCEPT !.pc = "cleanup"]
    /\ UNCHANGED <<sess, table, deleting, vpaused, net, posted, io, cmds, life>>

\* The visitor: a session that is finished will be removed.
Finished(x) ==
    /\ Control("cleanup") /\ ctl.x = "visiting" /\ x \in ctl.todo
    /\ ctl' = [ctl EXCEPT !.todo = @ \ {x},
                          !.del = IF sess[x].fin THEN @ \cup {x} ELSE @]
    /\ UNCHANGED <<sess, table, deleting, vpaused, net, posted, io, cmds, life>>

Visited ==
    /\ Control("cleanup") /\ ctl.x = "visiting" /\ ctl.todo = {}
    /\ ctl' = IF ctl.del = {} THEN CtlIdle
              ELSE [ctl EXCEPT !.pc = "deleting", !.x = Null, !.copy = {},
                               !.todo = ctl.del]
    /\ UNCHANGED <<sess, table, deleting, vpaused, net, posted, io, cmds, life>>

\* removeSession moves the session from the table to those being deleted.
RemoveSession(x) ==
    /\ Control("deleting") /\ x \in ctl.todo
    /\ table' = table \ {x}
    /\ deleting' = deleting \cup ({x} \cap table)
    /\ ctl' = [ctl EXCEPT !.todo = @ \ {x}]
    /\ UNCHANGED <<sess, vpaused, net, posted, io, cmds, life>>

\* sessionsDeleted.clear().
ReleaseDeleted ==
    /\ Control("deleting") /\ ctl.todo = {}
    /\ ctl' = [ctl EXCEPT !.pc = "clear", !.del = {}]
    /\ UNCHANGED <<sess, table, deleting, vpaused, net, posted, io, cmds, life>>

\* Mutant of ClearDefunctSessions: the copy is dropped there and then.
ClearDefunctSessionsHere ==
    /\ Control("clear")
    /\ deleting' = {}
    /\ ctl' = CtlIdle
    /\ UNCHANGED <<sess, table, vpaused, net, posted, io, cmds, life>>

\* Mutant of ClearDefunctSessions: nothing is posted.
ClearDefunctSessionsKeeps ==
    /\ Control("clear")
    /\ ctl' = CtlIdle
    /\ UNCHANGED <<sess, table, deleting, vpaused, net, posted, io, cmds, life>>

ClearDefunctSessions ==
    /\ Control("clear")
    /\ posted' = Append(posted, Closure("drop", deleting))
    /\ deleting' = {}
    /\ ctl' = CtlIdle
    /\ UNCHANGED <<sess, table, vpaused, net, io, cmds, life>>

-----------------------------------------------------------------------------
(* The main thread.                                                        *)

\* The control thread has been started.
Init ==
    /\ sess = [x \in Sessions |-> NoSession]
    /\ table = {} /\ deleting = {} /\ vpaused = {}
    /\ listener = {} /\ accepts = NoAccepts
    /\ posted = <<>> /\ io = IoIdle /\ ctl = CtlIdle
    /\ cmds = 0
    /\ main = "configure" /\ stopped = {}

\* The simple configuration listens on a port; then server.run().
Configure ==
    /\ main = "configure" /\ io.pc # "crashed"
    /\ main' = "run"
    /\ \/ UNCHANGED posted
       \/ \E p \in Ports : posted' = Append(posted, Closure("start", p))
    /\ UNCHANGED <<sess, table, deleting, vpaused, net, io, ctl, cmds, stopped>>

\* run() returns after the handler it is in, or at once if stop() came before it.
RunReturns ==
    /\ main = "run" /\ "server" \in stopped /\ io.pc = "idle"
    /\ main' = "join"
    /\ UNCHANGED <<sess, table, deleting, vpaused, net, posted, io, ctl, cmds, stopped>>

\* ~Server closes the listeners; the members go with it: the sessions and the
\* handlers that are left.
TearDown ==
    /\ sess' = [x \in Sessions |-> [NoSession EXCEPT !.made = sess[x].made]]
    /\ table' = {} /\ deleting' = {} /\ posted' = <<>>
    /\ listener' = {} /\ accepts' = NoAccepts

\* controlThread.join() and the tear down.
Join ==
    /\ main = "join" /\ "control" \in stopped
    /\ main' = "ended"
    /\ TearDown
    /\ UNCHANGED <<vpaused, io, ctl, cmds, stopped>>

MainNext == Configure \/ RunReturns \/ Join

IoNext ==
    \/ \E x \in Sessions : \/ Accept(x) \/ VhostEstablished(x)
                           \/ Connected(x) \/ Unreachable(x)
                           \/ Leave(x) \/ CloseOk(x) \/ Aborted(x)
                           \/ PausedRead(x) \/ Release(x)
    \/ IsPaused \/ PauserPause \/ Establish \/ SetReady
    \/ PerformDisconnectBoth \/ PerformBackendDisconnect \/ DropSessions
    \/ StartListening \/ StopListening \/ AcceptFailed \/ AcceptError \/ BindFails

CommandNext ==
    \/ \E c \in VhostCommands, v \in Vhosts : VhostCommand(c, v)
    \/ \E c \in SessionCommands, x \in Sessions : SessionCommand(c, x)
    \/ \E port \in Ports : ListenStart(port)
    \/ ListenStop \/ Exit

\* The control thread finishes what it has begun.
ControlStep ==
    \/ VisitSessions \/ VhostVisited
    \/ \E x \in Sessions : VhostVisit(x) \/ Finished(x) \/ RemoveSession(x)
    \/ Visited \/ ReleaseDeleted \/ ClearDefunctSessions \/ StopControl

Next == IoNext \/ CommandNext \/ Cleanup \/ ControlStep \/ MainNext

Spec == Init /\ [][Next]_vars

\* What the io thread does by itself: it ends the handler it is in and runs those
\* that are queued; the search for a broker comes to an end (Auth), and a broker
\* whose client has gone leaves or sends something that cannot be forwarded.
IoStep ==
    \/ IsPaused \/ PauserPause \/ Establish \/ SetReady
    \/ PerformDisconnectBoth \/ PerformBackendDisconnect \/ DropSessions
    \/ StartListening \/ StopListening \/ AcceptFailed \/ BindFails
    \/ \E x \in Sessions : \/ Connected(x) \/ Unreachable(x) \/ Aborted(x)
                           \/ ~sess[x].up /\ (Leave(x) \/ Release(x))

\* The threads keep running, and the timer of the cleanup fires again and again.
\* What clients and operators start is not assumed.
FairSpec ==
    /\ Spec
    /\ WF_vars(IoStep) /\ WF_vars(ControlStep) /\ SF_vars(Cleanup) /\ WF_vars(MainNext)

-----------------------------------------------------------------------------
TypeOK ==
    /\ sess \in [Sessions -> SessionType]
    /\ table \subseteq Sessions /\ deleting \subseteq Sessions
    /\ table \cap deleting = {}
    /\ vpaused \subseteq Vhosts
    /\ listener \subseteq Ports /\ accepts \in [Ports -> Nat]
    /\ io.x \in Sessions \cup {Null}
    /\ main \in {"configure", "run", "join", "ended"}
    /\ stopped \subseteq {"server", "control"}
    /\ ctl.del \subseteq Sessions /\ ctl.copy \subseteq Sessions

\* References that live on the io thread or are dropped there.
Refers(c) ==
    IF c.kind = "drop" THEN c.arg
    ELSE IF c.kind \in {"both", "backend"} THEN {c.arg} ELSE {}
Queued == UNION {Refers(posted[i]) : i \in 1..Len(posted)}

Gone(x) ==
    sess[x].made /\ ~sess[x].held
        /\ x \notin table \cup deleting \cup Queued \cup ctl.copy \cup ctl.del

\* A session is destroyed by the io thread only: cleanup releases its references
\* while the Server still has one, and the closure of clearDefunctSessions drops
\* that one on the io thread, whatever is queued or running there.
DestroyedOnIoThread ==
    [][\A x \in Sessions : ~Gone(x) /\ Gone(x)' => ctl' = ctl]_vars

\* VHOST PAUSE misses no session: once the command has returned every session of
\* the vhost is paused or finished, those included that were accepted or learned
\* their vhost while it ran.  The pauser may still be about to pause one.
PausedVhostHolds ==
    \A x \in Sessions :
        sess[x].vhost \in vpaused /\ ctl.pc = "idle"
            /\ ~(io.x = x /\ io.pc \in {"isPaused", "getSession", "crashed"})
        => sess[x].paused \/ sess[x].fin

\* The io thread runs handlers and the control thread commands.
Serving == Running /\ main = "run" /\ stopped = {}

\* The client of a session whose broker was disconnected stays connected.
KeptByClient(x) == sess[x].fin /\ sess[x].up /\ sess[x].egress = "cut"

\* A finished session is removed from the table and destroyed, or its broker was
\* disconnected and its client neither sends anything nor leaves ever after
\* (SessionCleanup::cleanup, Session::backendDisconnect, handleSessionError).
FinishedIsDestroyed ==
    \A x \in Sessions : sess[x].fin ~> (Gone(x) \/ ~Serving \/ []KeptByClient(x))

\* EXIT ends the program, whenever it comes: while main still configures, in the
\* middle of a handler, or after the io thread has ended with an exception
\* (ExitControlCommand::handleCommand, Server::run, main).
ExitEnds == "server" \in stopped ~> main = "ended" \/ io.pc = "crashed"

\* A port that is listened on is always waiting for the next connection, after
\* each accept, after one that failed, and when it is stopped and started while
\* the aborted accept of the old listener is still queued.
PortKeepsAccepting == Serving => \A p \in listener : accepts[p] > 0

=============================================================================
