---------------------------- MODULE ServerProofs ----------------------------
(***************************************************************************)
(* Between the threads, for any sessions, vhosts, ports and commands: a     *)
(* session is destroyed by the io thread only, VHOST PAUSE misses no        *)
(* session, and a port that is listened on keeps accepting.                *)
(***************************************************************************)
EXTENDS Server, FiniteSetTheorems, TLAPS

-----------------------------------------------------------------------------
(* The invariant *)

Closures ==
    [kind : {"both", "backend"}, arg : Sessions]
        \cup [kind : {"drop"}, arg : SUBSET Sessions]
        \cup [kind : {"start", "stop", "failed"}, arg : Ports]

IoType ==
    [pc : {"idle", "isPaused", "getSession", "establish", "setReady", "crashed"},
     x : Sessions \cup {Null}]

CtlType ==
    [pc : VhostCommands \cup {"idle", "exit", "cleanup", "deleting", "clear"},
     v : Vhosts \cup {Null}, x : {Null, "visiting"}, todo : SUBSET Sessions,
     copy : SUBSET Sessions, del : SUBSET Sessions]

Types ==
    /\ sess \in [Sessions -> SessionType]
    /\ table \subseteq Sessions /\ deleting \subseteq Sessions
    /\ vpaused \subseteq Vhosts
    /\ listener \subseteq Ports /\ IsFiniteSet(listener)
    /\ accepts \in [Ports -> Nat]
    /\ posted \in Seq(Closures)
    /\ io \in IoType /\ ctl \in CtlType
    /\ io.pc # "idle" => io.x \in Sessions

\* Whatever the control thread holds, the server holds as well.
References ==
    /\ ctl.copy \subseteq table \cup deleting
    /\ ctl.del \subseteq table \cup deleting
    /\ ctl.todo \subseteq table \cup deleting
    /\ "control" \in stopped => ctl = CtlIdle

\* A session stays in the table until it is finished.
Accounts ==
    /\ \A x \in Sessions :
          /\ x \in table \cup deleting => sess[x].made
          /\ (sess[x].up \/ sess[x].vhost # Null) /\ ~sess[x].fin => x \in table
          /\ x \in ctl.del => sess[x].fin
    /\ ctl.pc = "deleting" => ctl.todo \subseteq ctl.del

\* A session of a paused vhost is paused, or the pauser or the command that
\* paused the vhost has still to come to it.
Covered(x) ==
    \/ sess[x].paused \/ sess[x].fin
    \/ io.x = x /\ io.pc \in {"isPaused", "getSession", "crashed"}
    \/ ctl.pc = "PAUSE" /\ ctl.v = sess[x].vhost /\ (ctl.x = Null \/ x \in ctl.todo)

Pauses ==
    /\ ctl.pc = "UNPAUSE" => ctl.v \notin vpaused
    /\ \A x \in Sessions : sess[x].vhost \in vpaused => Covered(x)

\* Until run() returns, each listener has an accept.
Accepting == main \in {"configure", "run"} => \A p \in listener : accepts[p] > 0

IInv == Types /\ References /\ Accounts /\ Pauses /\ Accepting

-----------------------------------------------------------------------------
(* Listeners and what is queued *)

\* The first closure and the rest of the queue.
LEMMA Queue ==
    ASSUME posted \in Seq(Closures), posted # <<>>
    PROVE  Head(posted) \in Closures /\ Tail(posted) \in Seq(Closures)
OBVIOUS

\* What the closures about ports carry.
LEMMA PortClosure ==
    ASSUME NEW c \in Closures, c.kind \in {"start", "stop", "failed"}
    PROVE  c.arg \in Ports
BY DEF Closures

\* Several closures are queued in a row.
LEMMA QueuedInARow ==
    ASSUME NEW q \in Seq(Closures), NEW n \in Nat, NEW k \in {"stop", "failed"},
           NEW f \in [1..n -> Ports]
    PROVE  q \o [i \in 1..n |-> Closure(k, f[i])] \in Seq(Closures)
<1>1. [i \in 1..n |-> Closure(k, f[i])] \in [1..n -> Closures]
  BY DEF Closure, Closures
<1>2. [i \in 1..n |-> Closure(k, f[i])] \in Seq(Closures)
  BY <1>1
<1>. QED  BY <1>2

\* The accepts after doAccept.
LEMMA AcceptsType ==
    ASSUME NEW l, NEW a \in [Ports -> Nat], NEW p \in Ports
    PROVE  /\ DoAccept(l, a, p) \in [Ports -> Nat]
           /\ \A q \in Ports : DoAccept(l, a, p)[q] >= a[q]
           /\ p \in l => DoAccept(l, a, p)[p] > 0
BY DEF DoAccept

-----------------------------------------------------------------------------
(* Steps of the io thread *)

\* Listeners, accepts and the queue do not bear on the sessions.
LEMMA OnlyTheNet ==
    ASSUME IInv, UNCHANGED <<sess, table, deleting, vpaused, io, ctl, stopped>>
    PROVE  References' /\ Accounts' /\ Pauses'
<1>1. References'  BY DEF IInv, References
<1>2. Accounts'  BY DEF IInv, Accounts
<1>3. Pauses'  BY DEF IInv, Pauses, Covered
<1>. QED  BY <1>1, <1>2, <1>3

\* The handlers of the listeners.
LEMMA ListenerSteps ==
    ASSUME IInv,
           StartListening \/ StopListening \/ AcceptFailed \/ BindFails \/ DropSessions
    PROVE  IInv'
<1>. USE DEF IInv
<1>. DEFINE p == Head(posted).arg
<1>0. Handler /\ posted # <<>> /\ UNCHANGED <<sess, table, deleting, vpaused, io, ctl, stopped>>
  BY DEF StartListening, StopListening, AcceptFailed, BindFails, DropSessions, Run, life
<1>1. posted \in Seq(Closures) /\ Head(posted) \in Closures /\ Tail(posted) \in Seq(Closures)
  BY <1>0, Queue DEF Types
<1>2. CASE StartListening
  <2>1. p \in Ports
    BY <1>1, <1>2, PortClosure DEF StartListening, Run
  <2>2. CASE p \in listener
    BY <1>0, <1>1, <1>2, <2>2, OnlyTheNet DEF StartListening, Run, Types, Accepting, net, life
  <2>3. CASE p \notin listener
    <3>1. /\ listener' = listener \cup {p} /\ accepts' = DoAccept(listener', accepts, p)
          /\ posted' = Tail(posted) /\ main' = main
      BY <1>2, <2>3 DEF StartListening, Run, life
    <3>2. IsFiniteSet(listener')
      BY <3>1, FS_AddElement, ZenonT(30) DEF Types
    <3>3. /\ accepts' \in [Ports -> Nat] /\ accepts'[p] > 0
          /\ \A q \in Ports : accepts'[q] >= accepts[q]
      BY <2>1, <3>1, AcceptsType, ZenonT(30) DEF Types
    <3>4. Types'
      BY <1>0, <1>1, <2>1, <3>1, <3>2, <3>3, ZenonT(30) DEF Types
    <3>5. Accepting'
      <4>1. SUFFICES ASSUME main \in {"configure", "run"}, NEW q \in listener \cup {p}
                     PROVE  accepts'[q] > 0
        BY <3>1, ZenonT(30) DEF Accepting
      <4>2. CASE q = p
        BY <3>3, <4>2
      <4>3. CASE q \in listener
        <5>1. q \in Ports /\ accepts[q] > 0 /\ accepts[q] \in Nat /\ accepts'[q] \in Nat
          BY <3>3, <4>1, <4>3 DEF Types, Accepting
        <5>. QED  BY <3>3, <5>1
      <4>. QED  BY <4>2, <4>3
    <3>. QED  BY <1>0, <3>4, <3>5, OnlyTheNet
  <2>. QED  BY <2>2, <2>3
<1>3. CASE StopListening
  <2>1. p \in Ports
    BY <1>1, <1>3, PortClosure DEF StartListening, StopListening, Run
  <2>2. /\ listener' = listener \ {p} /\ accepts' = [accepts EXCEPT ![p] = 0]
        /\ posted' = Tail(posted) \o [i \in 1..accepts[p] |-> Closure("failed", p)]
        /\ main' = main
    BY <1>3 DEF StopListening, Run, life
  <2>3. posted' \in Seq(Closures)
    <3>. DEFINE f == [i \in 1..accepts[p] |-> p]
    <3>1. accepts[p] \in Nat /\ f \in [1..accepts[p] -> Ports]
      BY <2>1 DEF Types
    <3>2. Tail(posted) \o [i \in 1..accepts[p] |-> Closure("failed", f[i])] \in Seq(Closures)
      BY <1>1, <3>1, QueuedInARow, ZenonT(30)
    <3>3. [i \in 1..accepts[p] |-> Closure("failed", f[i])]
             = [i \in 1..accepts[p] |-> Closure("failed", p)]
      OBVIOUS
    <3>. QED  BY <2>2, <3>2, <3>3, ZenonT(30)
  <2>4. IsFiniteSet(listener')
    BY <2>2, FS_RemoveElement, ZenonT(30) DEF Types
  <2>5. Types'
    BY <1>0, <2>1, <2>2, <2>3, <2>4 DEF Types
  <2>6. Accepting'
    BY <2>1, <2>2 DEF Types, Accepting
  <2>. QED  BY <1>0, <2>5, <2>6, OnlyTheNet
<1>4. CASE AcceptFailed
  <2>1. p \in Ports
    BY <1>1, <1>4, PortClosure DEF AcceptFailed, Run
  <2>2. /\ listener' = listener /\ accepts' = DoAccept(listener, accepts, p)
        /\ posted' = Tail(posted) /\ main' = main
    BY <1>4 DEF AcceptFailed, Run, life
  <2>3. accepts' \in [Ports -> Nat] /\ \A q \in Ports : accepts'[q] >= accepts[q]
    BY <2>1, <2>2, AcceptsType, ZenonT(30) DEF Types
  <2>4. Types' /\ Accepting'
    BY <1>0, <1>1, <2>2, <2>3 DEF Types, Accepting
  <2>. QED  BY <1>0, <2>4, OnlyTheNet
<1>5. CASE BindFails
  <2>1. Types' /\ Accepting'
    BY <1>0, <1>1, <1>5 DEF BindFails, NoAccepts, Types, Accepting
  <2>. QED  BY <1>0, <2>1, OnlyTheNet
<1>6. CASE DropSessions
  <2>1. Types' /\ Accepting'
    BY <1>0, <1>1, <1>6 DEF DropSessions, Run, net, life, Types, Accepting
  <2>. QED  BY <1>0, <2>1, OnlyTheNet
<1>. QED  BY <1>2, <1>3, <1>4, <1>5, <1>6

\* A handler of async_accept takes an accept of one port and begins the next.
LEMMA AcceptsAgain ==
    ASSUME IInv, UNCHANGED <<listener, main>>, NEW p \in Ports, accepts[p] > 0,
           accepts' = DoAccept(listener, [accepts EXCEPT ![p] = @ - 1], p)
    PROVE  accepts' \in [Ports -> Nat] /\ Accepting'
<1>. USE DEF IInv
<1>. DEFINE a == [accepts EXCEPT ![p] = @ - 1]
<1>1. a \in [Ports -> Nat] /\ \A q \in Ports \ {p} : a[q] = accepts[q]
  BY DEF Types
<1>2. /\ accepts' \in [Ports -> Nat] /\ (p \in listener => accepts'[p] > 0)
      /\ \A q \in Ports : accepts'[q] >= a[q]
  BY <1>1, AcceptsType, ZenonT(30)
<1>3. \A q \in Ports \ {p} : accepts'[q] >= accepts[q]
  BY <1>1, <1>2
<1>. HIDE DEF a
<1>4. ASSUME main \in {"configure", "run"}, NEW q \in listener
      PROVE  accepts'[q] > 0
  <2>1. q \in Ports /\ accepts[q] > 0 /\ accepts[q] \in Nat /\ accepts'[q] \in Nat
    BY <1>2, <1>4 DEF Types, Accepting
  <2>2. CASE q = p
    BY <1>2, <1>4, <2>2, Zenon
  <2>3. CASE q # p
    <3>1. accepts'[q] >= accepts[q]
      BY <1>3, <2>1, <2>3, Zenon
    <3>. QED  BY <2>1, <3>1
  <2>. QED  BY <2>2, <2>3
<1>. QED  BY <1>2, <1>4, Zenon DEF Accepting

\* A connection is accepted.
LEMMA AcceptStep ==
    ASSUME IInv, NEW x \in Sessions, Accept(x)
    PROVE  IInv'
<1>. USE DEF IInv
<1>0. /\ io.pc = "idle" /\ ~sess[x].made /\ table' = table \cup {x}
      /\ UNCHANGED <<deleting, vpaused, listener, posted, io, ctl, main, stopped>>
      /\ sess' = [sess EXCEPT ![x] = [NoSession EXCEPT !.made = TRUE, !.held = TRUE,
                                                       !.up = TRUE]]
  BY DEF Accept, Handler, life
<1>1. PICK p \in Ports : /\ accepts[p] > 0
                         /\ accepts' = DoAccept(listener, [accepts EXCEPT ![p] = @ - 1], p)
  BY ZenonT(30) DEF Accept
<1>2. accepts' \in [Ports -> Nat] /\ Accepting'
  BY <1>0, <1>1, AcceptsAgain, ZenonT(30)
<1>3. /\ sess'[x] \in SessionType /\ sess'[x].made /\ sess'[x].vhost = Null /\ ~sess'[x].fin
      /\ \A y \in Sessions \ {x} : sess'[y] = sess[y]
      /\ sess' \in [Sessions -> SessionType]
  BY <1>0, ZenonT(30) DEF Types, SessionType, NoSession
<1>4. Types'
  BY <1>0, <1>2, <1>3 DEF Types
<1>5. References'
  BY <1>0 DEF References
<1>6. Accounts'
  BY <1>0, <1>3 DEF Accounts, References
<1>7. Pauses'
  <2>1. Null \notin vpaused
    BY ServerAssumption DEF Types
  <2>. QED  BY <1>0, <1>3, <2>1 DEF Pauses, Covered
<1>. QED  BY <1>2, <1>4, <1>5, <1>6, <1>7

\* An accept fails while its port is listened on.
LEMMA AcceptErrorStep ==
    ASSUME IInv, AcceptError
    PROVE  IInv'
<1>0. /\ UNCHANGED <<sess, table, deleting, vpaused, io, ctl, stopped>>
      /\ UNCHANGED <<listener, posted, main>>
  BY DEF AcceptError, life
<1>1. PICK p \in Ports : /\ accepts[p] > 0
                         /\ accepts' = DoAccept(listener, [accepts EXCEPT ![p] = @ - 1], p)
  BY ZenonT(30) DEF AcceptError
<1>2. accepts' \in [Ports -> Nat] /\ Accepting'
  BY <1>0, <1>1, AcceptsAgain, ZenonT(30)
<1>3. Types'
  BY <1>0, <1>2 DEF IInv, Types
<1>. QED  BY <1>0, <1>2, <1>3, OnlyTheNet DEF IInv

\* One session changes, or none, and what the control thread does stays.  Its
\* vhost stays, or it was not known and the pauser is about to look at it; it
\* stays paused and finished; it is not connected again.
LEMMA OneSession ==
    ASSUME IInv, NEW x \in Sessions, NEW t \in SessionType,
           sess' = [sess EXCEPT ![x] = t],
           UNCHANGED <<table, deleting, vpaused, listener, accepts, ctl, main, stopped>>,
           posted' \in Seq(Closures), io' \in IoType, io'.pc # "idle" => io'.x \in Sessions,
           t.made = sess[x].made, t.up => sess[x].up, sess[x].fin => t.fin,
           t.vhost # Null => sess[x].vhost = t.vhost \/ sess[x].up,
           t.vhost \in vpaused => Covered(x)',
           \A y \in Sessions \ {x} :
               io.x = y => io' = io \/ io.pc \notin {"isPaused", "getSession", "crashed"}
    PROVE  IInv'
<1>. USE DEF IInv
<1>1. sess'[x] = t /\ \A y \in Sessions \ {x} : sess'[y] = sess[y]
  BY DEF Types
<1>2. Types'
  BY DEF Types
<1>3. References'
  BY DEF References
<1>4. Accounts'
  BY <1>1 DEF Accounts
<1>5. Pauses'
  <2>1. ASSUME NEW y \in Sessions \ {x}, sess[y].vhost \in vpaused
        PROVE  Covered(y)'
    BY <1>1, <2>1 DEF Pauses, Covered
  <2>. QED  BY <1>1, <2>1 DEF Pauses
<1>6. Accepting'
  BY DEF Accepting
<1>. QED  BY <1>2, <1>3, <1>4, <1>5, <1>6

\* What a handler of a session may do to it: it keeps its vhost and its state of
\* pause, opens no socket of the client, and what is finished stays so.
Handled(x, t) ==
    /\ t \in SessionType /\ sess' = [sess EXCEPT ![x] = t]
    /\ t.made = sess[x].made /\ (t.up => sess[x].up) /\ (sess[x].fin => t.fin)
    /\ t.vhost = sess[x].vhost /\ t.paused = sess[x].paused

\* Such a handler keeps the invariant.
LEMMA HandledStep ==
    ASSUME IInv, NEW x \in Sessions, NEW t, Handled(x, t),
           UNCHANGED <<table, deleting, vpaused, listener, accepts, io, ctl, main, stopped>>,
           posted' \in Seq(Closures)
    PROVE  IInv'
<1>. USE DEF IInv
<1>1. /\ t \in SessionType /\ sess' = [sess EXCEPT ![x] = t] /\ sess'[x] = t
      /\ t.made = sess[x].made /\ (t.up => sess[x].up) /\ (sess[x].fin => t.fin)
      /\ t.vhost = sess[x].vhost /\ t.paused = sess[x].paused
  BY DEF Handled, Types
<1>2. io' = io /\ io' \in IoType /\ (io'.pc # "idle" => io'.x \in Sessions)
  BY DEF Types
<1>3. t.vhost \in vpaused => Covered(x)'
  BY <1>1 DEF Pauses, Covered
<1>. QED  BY <1>1, <1>2, <1>3, OneSession, ZenonT(30)

\* Closing both sockets.
LEMMA DisconnectedType ==
    ASSUME NEW t \in SessionType
    PROVE  /\ Disconnected(t) \in SessionType /\ ~Disconnected(t).up
           /\ Disconnected(t).made = t.made /\ Disconnected(t).vhost = t.vhost
           /\ Disconnected(t).paused = t.paused /\ Disconnected(t).fin = t.fin
BY DEF Disconnected, SessionType

\* Closing the broker's socket.
LEMMA BackendDisconnectedType ==
    ASSUME NEW t \in SessionType
    PROVE  /\ BackendDisconnected(t) \in SessionType
           /\ \A f \in {"made", "up", "vhost", "paused", "fin"} :
                 BackendDisconnected(t)[f] = t[f]
BY DEF BackendDisconnected, SessionType

\* The handlers of a session that start while no other one runs.
LEMMA SessionSteps ==
    ASSUME IInv, NEW x \in Sessions,
           \/ VhostEstablished(x) \/ Connected(x) \/ Unreachable(x) \/ Leave(x)
           \/ CloseOk(x) \/ Aborted(x) \/ PausedRead(x) \/ Release(x)
    PROVE  IInv'
<1>. USE DEF IInv
<1>0. /\ io.pc = "idle" /\ sess[x] \in SessionType /\ posted' \in Seq(Closures)
      /\ UNCHANGED <<table, deleting, vpaused, listener, accepts, ctl, main, stopped>>
  BY DEF VhostEstablished, Connected, Unreachable, Leave, CloseOk, Aborted, PausedRead,
         Release, Handler, Types, net, life
<1>1. CASE VhostEstablished(x)
  <2>1. PICK v \in Vhosts : sess' = [sess EXCEPT ![x].vhost = v]
    BY <1>1, ZenonT(30) DEF VhostEstablished
  <2>. DEFINE t == [sess[x] EXCEPT !.vhost = v]
  <2>2. /\ t \in SessionType /\ t.made = sess[x].made /\ t.up = sess[x].up
        /\ t.fin = sess[x].fin /\ t.vhost = v /\ sess' = [sess EXCEPT ![x] = t]
    BY <1>0, <2>1, ZenonT(30) DEF Types, SessionType
  <2>3. sess[x].up
    BY <1>1 DEF VhostEstablished
  <2>4. /\ io' = [pc |-> "isPaused", x |-> x] /\ io' \in IoType
        /\ io'.x = x /\ io'.pc = "isPaused" /\ Covered(x)'
    BY <1>1 DEF VhostEstablished, IoType, Covered
  <2>. HIDE DEF t
  <2>. QED  BY <1>0, <2>2, <2>3, <2>4, OneSession, ZenonT(30)
<1>2. ASSUME ~VhostEstablished(x)
      PROVE  \E t \in SessionType : Handled(x, t)
  <2>1. CASE Connected(x)
    <3>. DEFINE t == [sess[x] EXCEPT !.egress = "open"]
    <3>1. t \in SessionType /\ Handled(x, t)
      BY <1>0, <2>1, ZenonT(60) DEF Connected, Handled, Types, SessionType
    <3>. QED  BY <3>1, ZenonT(30)
  <2>2. CASE Unreachable(x)
    <3>1. CASE sess' = [sess EXCEPT ![x] = [@ EXCEPT !.fin = TRUE, !.up = FALSE,
                                                     !.egress = "none"]]
      <4>. DEFINE t == [sess[x] EXCEPT !.fin = TRUE, !.up = FALSE, !.egress = "none"]
      <4>1. t \in SessionType /\ Handled(x, t)
        BY <1>0, <3>1 DEF Handled, Types, SessionType
      <4>. QED  BY <4>1, ZenonT(30)
    <3>2. CASE sess' = [sess EXCEPT ![x].egress = "none"]
      <4>. DEFINE t == [sess[x] EXCEPT !.egress = "none"]
      <4>1. t \in SessionType /\ Handled(x, t)
        BY <1>0, <3>2, ZenonT(60) DEF Handled, Types, SessionType
      <4>. QED  BY <4>1, ZenonT(30)
    <3>. QED  BY <2>2, <3>1, <3>2 DEF Unreachable
  <2>3. CASE Leave(x)
    <3>. DEFINE d == Disconnected(sess[x])
                t == [d EXCEPT !.fin = TRUE]
    <3>1. /\ d \in SessionType /\ ~d.up /\ d.made = sess[x].made
          /\ d.vhost = sess[x].vhost /\ d.paused = sess[x].paused
      BY <1>0, DisconnectedType
    <3>2. sess' = [sess EXCEPT ![x] = t]
      BY <1>0, <2>3 DEF Leave, Types
    <3>. HIDE DEF d
    <3>3. t \in SessionType /\ Handled(x, t)
      BY <3>1, <3>2 DEF Handled, SessionType
    <3>. QED  BY <3>3, ZenonT(30)
  <2>4. CASE CloseOk(x)
    <3>. DEFINE t == Disconnected(sess[x])
    <3>1. sess' = [sess EXCEPT ![x] = t]
      BY <1>0, <2>4 DEF CloseOk, Types
    <3>2. t \in SessionType /\ Handled(x, t)
      BY <1>0, <3>1, DisconnectedType DEF Handled
    <3>. QED  BY <3>2, ZenonT(30)
  <2>5. CASE Aborted(x)
    <3>. DEFINE t == [sess[x] EXCEPT !.fin = TRUE]
    <3>1. t \in SessionType /\ Handled(x, t)
      BY <1>0, <2>5, ZenonT(60) DEF Aborted, Handled, Types, SessionType
    <3>. QED  BY <3>1, ZenonT(30)
  <2>6. CASE PausedRead(x) \/ Release(x)
    <3>. DEFINE t == [sess[x] EXCEPT !.held = FALSE]
    <3>1. t \in SessionType /\ Handled(x, t)
      BY <1>0, <2>6, ZenonT(60) DEF PausedRead, Release, Handled, Types, SessionType
    <3>. QED  BY <3>1, ZenonT(30)
  <2>. QED  BY <1>2, <2>1, <2>2, <2>3, <2>4, <2>5, <2>6
<1>3. CASE ~VhostEstablished(x)
  <2>1. io' = io
    BY <1>3 DEF Connected, Unreachable, Leave, CloseOk, Aborted, PausedRead, Release
  <2>. QED  BY <1>0, <1>2, <1>3, <2>1, HandledStep
<1>. QED  BY <1>1, <1>3

\* The rest of the handler of Open: the pauser, and the connection.
LEMMA PauserSteps ==
    ASSUME IInv, IsPaused \/ PauserPause \/ Establish \/ SetReady
    PROVE  IInv'
<1>. USE DEF IInv
<1>. PICK x \in Sessions : x = io.x
  BY DEF IsPaused, PauserPause, Establish, SetReady, Types
<1>0. /\ io \in IoType /\ io.pc # "idle" /\ io.x = x /\ sess[x] \in SessionType
      /\ UNCHANGED <<table, deleting, vpaused, listener, accepts, posted, ctl, main, stopped>>
  BY DEF IsPaused, PauserPause, Establish, SetReady, Types, net, life
<1>1. sess[x].vhost \in vpaused => Covered(x)
  BY <1>0 DEF Pauses
<1>2. \A y \in Sessions \ {x} : io.x # y
  OBVIOUS
<1>3. posted' \in Seq(Closures)
  BY <1>0 DEF Types
<1>4. sess = [sess EXCEPT ![x] = sess[x]]
  BY <1>0 DEF Types
<1>5. CASE IsPaused
  <2>1. /\ sess' = [sess EXCEPT ![x] = sess[x]] /\ io' \in IoType /\ io'.x = x /\ sess' = sess
        /\ io'.pc = IF sess[x].vhost \in vpaused THEN "getSession" ELSE "establish"
    BY <1>0, <1>4, <1>5 DEF IsPaused, IoType
  <2>2. sess[x].vhost \in vpaused => Covered(x)'
    BY <2>1 DEF Covered
  <2>. QED  BY <1>0, <1>2, <1>3, <2>1, <2>2, OneSession
<1>6. CASE PauserPause
  <2>1. CASE x \in table
    <3>. DEFINE t == [sess[x] EXCEPT !.paused = TRUE]
    <3>1. /\ t \in SessionType /\ t.made = sess[x].made /\ t.up = sess[x].up /\ t.paused
          /\ t.fin = sess[x].fin /\ t.vhost = sess[x].vhost
      BY <1>0, ZenonT(30) DEF SessionType
    <3>2. /\ sess' = [sess EXCEPT ![x] = t] /\ sess'[x] = t
          /\ io' = [io EXCEPT !.pc = "establish"] /\ io' \in IoType /\ io'.x = x
      BY <1>0, <1>6, <2>1, ServerAssumption, ZenonT(30)
          DEF PauserPause, GetSession, Types, IoType
    <3>. HIDE DEF t
    <3>3. Covered(x)'
      BY <1>0, <3>1, <3>2 DEF Covered
    <3>. QED  BY <1>0, <1>2, <1>3, <3>1, <3>2, <3>3, OneSession, ZenonT(30)
  <2>2. CASE x \notin table
    <3>1. /\ sess' = [sess EXCEPT ![x] = sess[x]] /\ io' \in IoType /\ io'.x = x
          /\ io'.pc = "crashed"
      BY <1>0, <1>4, <1>6, <2>2 DEF PauserPause, GetSession, IoType
    <3>2. Covered(x)'
      BY <1>0, <3>1 DEF Covered
    <3>. QED  BY <1>0, <1>2, <1>3, <3>1, <3>2, OneSession, ZenonT(30)
  <2>. QED  BY <2>1, <2>2
<1>7. CASE Establish
  <2>0. io.pc = "establish"
    BY <1>7 DEF Establish
  <2>1. CASE sess[x].paused
    <3>1. /\ sess' = sess /\ sess' = [sess EXCEPT ![x] = sess[x]]
          /\ io' \in IoType /\ io'.x = x /\ sess'[x].paused
      BY <1>0, <1>4, <1>7, <2>1 DEF Establish, IoType
    <3>2. Covered(x)'
      BY <1>0, <3>1 DEF Covered
    <3>. QED  BY <1>0, <1>2, <1>3, <3>1, <3>2, OneSession, ZenonT(30)
  <2>2. CASE ~sess[x].paused
    <3>. DEFINE t == [sess[x] EXCEPT !.egress = "connecting"]
    <3>1. /\ t \in SessionType /\ t.made = sess[x].made /\ t.up = sess[x].up
          /\ t.paused = sess[x].paused /\ t.fin = sess[x].fin /\ t.vhost = sess[x].vhost
      BY <1>0, ZenonT(30) DEF SessionType
    <3>2. /\ sess' = [sess EXCEPT ![x] = t] /\ sess'[x] = t
          /\ io' = IoIdle /\ io' \in IoType /\ io'.pc = "idle"
      BY <1>0, <1>7, <2>2 DEF Establish, IoIdle, IoType, Types
    <3>. HIDE DEF t
    <3>3. t.vhost \in vpaused => Covered(x)'
      BY <1>0, <1>1, <2>0, <3>1, <3>2 DEF Covered
    <3>. QED  BY <1>0, <1>2, <1>3, <3>1, <3>2, <3>3, OneSession, ZenonT(30)
  <2>. QED  BY <2>1, <2>2
<1>8. CASE SetReady
  <2>0. io.pc = "setReady"
    BY <1>8 DEF SetReady
  <2>. DEFINE t == [sess[x] EXCEPT !.ready = TRUE]
  <2>1. /\ t \in SessionType /\ t.made = sess[x].made /\ t.up = sess[x].up
        /\ t.paused = sess[x].paused /\ t.fin = sess[x].fin /\ t.vhost = sess[x].vhost
    BY <1>0, ZenonT(30) DEF SessionType
  <2>2. /\ sess' = [sess EXCEPT ![x] = t] /\ sess'[x] = t
        /\ io' = IoIdle /\ io' \in IoType /\ io'.pc = "idle"
    BY <1>0, <1>8 DEF SetReady, IoIdle, IoType, Types
  <2>. HIDE DEF t
  <2>3. t.vhost \in vpaused => Covered(x)'
    BY <1>0, <1>1, <2>0, <2>1, <2>2 DEF Covered
  <2>. QED  BY <1>0, <1>2, <1>3, <2>1, <2>2, <2>3, OneSession, ZenonT(30)
<1>. QED  BY <1>5, <1>6, <1>7, <1>8

\* disconnect(true) and backendDisconnect as the io thread runs them.
LEMMA DisconnectStep ==
    ASSUME IInv, PerformDisconnectBoth \/ PerformBackendDisconnect
    PROVE  IInv'
<1>. USE DEF IInv
<1>1. posted # <<>> /\ Head(posted) \in Closures /\ Tail(posted) \in Seq(Closures)
  BY Queue DEF PerformDisconnectBoth, PerformBackendDisconnect, Run, Types
<1>. PICK x \in Sessions : x = Head(posted).arg
  BY <1>1 DEF PerformDisconnectBoth, PerformBackendDisconnect, Run, Closures
<1>2. /\ posted' \in Seq(Closures) /\ sess[x] \in SessionType
      /\ UNCHANGED <<table, deleting, vpaused, listener, accepts, io, ctl, main, stopped>>
  BY <1>1 DEF PerformDisconnectBoth, PerformBackendDisconnect, Run, Types, net, life
<1>3. CASE PerformDisconnectBoth
  <2>. DEFINE d == Disconnected(sess[x])
              t == [d EXCEPT !.held = TRUE]
  <2>1. /\ d \in SessionType /\ ~d.up /\ d.made = sess[x].made /\ d.fin = sess[x].fin
        /\ d.vhost = sess[x].vhost /\ d.paused = sess[x].paused
    BY <1>2, DisconnectedType
  <2>2. sess' = [sess EXCEPT ![x] = t]
    BY <1>3 DEF PerformDisconnectBoth, Types
  <2>. HIDE DEF d
  <2>3. t \in SessionType /\ Handled(x, t)
    BY <2>1, <2>2 DEF Handled, SessionType
  <2>. QED  BY <1>2, <2>3, HandledStep
<1>4. CASE PerformBackendDisconnect
  <2>. DEFINE d == BackendDisconnected(sess[x])
              t == [d EXCEPT !.held = TRUE]
  <2>1. /\ d \in SessionType /\ d.up = sess[x].up /\ d.made = sess[x].made
        /\ d.fin = sess[x].fin /\ d.vhost = sess[x].vhost /\ d.paused = sess[x].paused
    BY <1>2, BackendDisconnectedType
  <2>2. sess' = [sess EXCEPT ![x] = t]
    BY <1>4 DEF PerformBackendDisconnect, Types
  <2>. HIDE DEF d
  <2>3. t \in SessionType /\ Handled(x, t)
    BY <2>1, <2>2 DEF Handled, SessionType
  <2>. QED  BY <1>2, <2>3, HandledStep
<1>. QED  BY <1>3, <1>4

-----------------------------------------------------------------------------
(* Steps of the control thread *)

\* What a command may do to a session at once: it keeps its vhost and the client's
\* connection, and what is finished, or held by a handler, stays so.
Commanded(x, t) ==
    /\ t \in SessionType /\ sess' = [sess EXCEPT ![x] = t]
    /\ t.made = sess[x].made /\ (sess[x].held => t.held) /\ t.up = sess[x].up
    /\ t.vhost = sess[x].vhost /\ (sess[x].fin => t.fin)

\* disconnect(true).
LEMMA DisconnectDoes ==
    ASSUME Types, NEW x \in Sessions, Disconnect(x)
    PROVE  /\ \E t \in SessionType : Commanded(x, t) /\ t.paused = sess[x].paused /\ t.fin
           /\ \E c \in Closures : posted' = Append(posted, c)
<1>. DEFINE t == [sess[x] EXCEPT !.fin = TRUE]
<1>1. t \in SessionType /\ t.paused = sess[x].paused /\ t.fin /\ Commanded(x, t)
  BY ZenonT(60) DEF Types, SessionType, Disconnect, Commanded
<1>2. Closure("both", x) \in Closures /\ posted' = Append(posted, Closure("both", x))
  BY DEF Closure, Closures, Disconnect
<1>. QED  BY <1>1, <1>2, ZenonT(30)

\* pause().
LEMMA PauseDoes ==
    ASSUME Types, NEW x \in Sessions, Pause(x)
    PROVE  posted' = posted /\ \E t \in SessionType : Commanded(x, t) /\ t.paused
<1>. DEFINE t == [sess[x] EXCEPT !.paused = TRUE]
<1>1. t \in SessionType /\ t.paused /\ Commanded(x, t)
  BY ZenonT(60) DEF Types, SessionType, Pause, Commanded
<1>. QED  BY <1>1, ZenonT(30) DEF Pause

\* disconnect(false).
LEMMA DisconnectGracefulDoes ==
    ASSUME Types, NEW x \in Sessions, DisconnectGraceful(x)
    PROVE  /\ \E t \in SessionType : Commanded(x, t) /\ t.paused = sess[x].paused
           /\ posted' = posted
<1>. DEFINE t == [sess[x] EXCEPT !.held = TRUE]
<1>1. t \in SessionType /\ t.paused = sess[x].paused /\ Commanded(x, t)
  BY ZenonT(60) DEF Types, SessionType, DisconnectGraceful, Commanded
<1>. QED  BY <1>1, ZenonT(30) DEF DisconnectGraceful

\* backendDisconnect(), until the io thread runs it.
LEMMA BackendDisconnectDoes ==
    ASSUME Types, NEW x \in Sessions, BackendDisconnect(x)
    PROVE  /\ \E t \in SessionType : Commanded(x, t) /\ t.paused = sess[x].paused
           /\ \E c \in Closures : posted' = Append(posted, c)
<1>1. sess[x] \in SessionType /\ Commanded(x, sess[x])
  BY DEF Types, BackendDisconnect, Commanded
<1>2. /\ Closure("backend", x) \in Closures
      /\ posted' = Append(posted, Closure("backend", x))
  BY DEF Closure, Closures, BackendDisconnect
<1>. QED  BY <1>1, <1>2, ZenonT(30)

\* unpause().
LEMMA UnpauseDoes ==
    ASSUME Types, NEW x \in Sessions, Unpause(x)
    PROVE  /\ \E t \in SessionType : Commanded(x, t)
           /\ posted' = posted \/ \E c \in Closures : posted' = Append(posted, c)
<1>1. CASE ~sess[x].paused
  <2>1. Commanded(x, sess[x]) /\ posted' = posted
    BY <1>1 DEF Types, Unpause, Commanded
  <2>. QED  BY <2>1, ZenonT(30) DEF Commanded
<1>2. CASE sess[x].paused /\ sess[x].ready
  <2>. DEFINE t == [sess[x] EXCEPT !.ready = FALSE, !.paused = FALSE,
                                   !.egress = "connecting", !.held = TRUE]
  <2>1. sess' = [sess EXCEPT ![x] = t] /\ posted' = posted
    BY <1>2 DEF Unpause, Disconnect, Types
  <2>2. /\ t \in SessionType /\ t.made = sess[x].made /\ t.held
        /\ t.up = sess[x].up /\ t.vhost = sess[x].vhost /\ t.fin = sess[x].fin
    BY DEF Types, SessionType
  <2>. HIDE DEF t
  <2>. QED  BY <2>1, <2>2, ZenonT(30) DEF Commanded
<1>3. CASE sess[x].paused /\ ~sess[x].ready
  BY <1>3, DisconnectDoes DEF Unpause
<1>. QED  BY <1>1, <1>2, <1>3 DEF Unpause

\* The visitor of a VHOST command: a session is resumed only by VHOST UNPAUSE, if
\* it is one of the vhost.
LEMMA VisitorDoes ==
    ASSUME Types, NEW c \in VhostCommands, NEW v,
           NEW x \in Sessions, Visitor(c, v, x)
    PROVE  /\ \E t \in SessionType :
                 /\ Commanded(x, t)
                 /\ c # "UNPAUSE" \/ v # sess[x].vhost => (sess[x].paused => t.paused)
                 /\ c = "PAUSE" /\ v = sess[x].vhost => t.paused
           /\ posted' = posted \/ \E e \in Closures : posted' = Append(posted, e)
<1>1. CASE sess[x].vhost # v
  <2>1. Commanded(x, sess[x]) /\ posted' = posted
    BY <1>1 DEF Types, Visitor, Commanded
  <2>. QED  BY <1>1, <2>1, ZenonT(30) DEF Commanded
<1>2. CASE sess[x].vhost = v /\ c = "PAUSE"
  BY <1>2, PauseDoes DEF Visitor
<1>3. CASE sess[x].vhost = v /\ c = "UNPAUSE"
  BY <1>3, UnpauseDoes DEF Visitor
<1>4. CASE sess[x].vhost = v /\ c = "FORCE_DISCONNECT"
  BY <1>4, DisconnectDoes DEF Visitor
<1>5. CASE sess[x].vhost = v /\ c = "BACKEND_DISCONNECT"
  BY <1>5, BackendDisconnectDoes DEF Visitor
<1>. QED  BY <1>1, <1>2, <1>3, <1>4, <1>5 DEF VhostCommands

\* Commands for a vhost or a listener, EXIT, and the timer.
LEMMA BeginCommand ==
    ASSUME IInv,
           \/ \E c \in VhostCommands, v \in Vhosts :
                 VhostCommand(c, v)
           \/ Exit \/ Cleanup
    PROVE  IInv'
<1>. USE DEF IInv
<1>0. /\ ctl.pc = "idle" /\ "control" \notin stopped
      /\ UNCHANGED <<sess, table, deleting, listener, accepts, posted, io, main>>
  BY ZenonT(30) DEF VhostCommand, Exit, Cleanup, Issue, Control, Running, net, life
<1>1. Accepting'
  BY <1>0 DEF Accepting
<1>2. ASSUME NEW c \in VhostCommands, NEW v \in Vhosts,
             VhostCommand(c, v)
      PROVE  IInv'
  <2>1. /\ ctl' \in CtlType /\ ctl'.pc = c /\ ctl'.v = v /\ ctl'.x = Null /\ ctl'.todo = {}
        /\ ctl'.copy = {} /\ ctl'.del = {} /\ stopped' = stopped
    BY <1>2, ZenonT(30) DEF VhostCommand, CtlIdle, CtlType, VhostCommands, life
  <2>2. /\ vpaused' \subseteq Vhosts /\ vpaused' \subseteq vpaused \cup {v}
        /\ (c = "UNPAUSE" => v \notin vpaused') /\ (c # "PAUSE" => vpaused' \subseteq vpaused)
    BY <1>2, ZenonT(30) DEF VhostCommand, SetPaused, Types
  <2>3. Types'  BY <1>0, <2>1, <2>2 DEF Types
  <2>4. References'  BY <1>0, <2>1 DEF References
  <2>5. Accounts'  BY <1>0, <2>1 DEF Accounts
  <2>6. Pauses'  BY <1>0, <2>1, <2>2 DEF Pauses, Covered
  <2>. QED  BY <1>1, <2>3, <2>4, <2>5, <2>6
<1>3. CASE Exit \/ Cleanup
  <2>1. /\ ctl' \in CtlType /\ ctl'.pc \in {"exit", "cleanup"} /\ ctl'.todo = {}
        /\ ctl'.copy = {} /\ ctl'.del = {} /\ "control" \notin stopped' /\ vpaused' = vpaused
    BY <1>0, <1>3 DEF Exit, Stop, Cleanup, CtlIdle, CtlType, life
  <2>2. Types'  BY <1>0, <2>1 DEF Types
  <2>3. References'  BY <1>0, <2>1 DEF References
  <2>4. Accounts'  BY <1>0, <2>1 DEF Accounts
  <2>5. Pauses'  BY <1>0, <2>1 DEF Pauses, Covered
  <2>. QED  BY <1>1, <2>2, <2>3, <2>4, <2>5
<1>. QED  BY <1>2, <1>3

\* SESSION PAUSE, DISCONNECT_GRACEFUL and FORCE_DISCONNECT.
LEMMA SessionCommandStep ==
    ASSUME IInv, NEW c, NEW x \in Sessions, SessionCommand(c, x)
    PROVE  IInv'
<1>. USE DEF IInv
<1>0. /\ x \in table /\ sess[x].made
      /\ UNCHANGED <<table, deleting, vpaused, listener, accepts, io, ctl, main, stopped>>
  BY ZenonT(30) DEF SessionCommand, GetSession, Accounts, net, life
<1>1. /\ \E t \in SessionType : Commanded(x, t) /\ (sess[x].paused => t.paused)
      /\ posted' = posted \/ \E e \in Closures : posted' = Append(posted, e)
  BY PauseDoes, DisconnectGracefulDoes, DisconnectDoes, ZenonT(30) DEF SessionCommand
<1>2. PICK t \in SessionType : Commanded(x, t) /\ (sess[x].paused => t.paused)
  BY <1>1
<1>3. posted' \in Seq(Closures)
  BY <1>1 DEF Types
<1>4. sess'[x] = t
  BY <1>2 DEF Commanded, Types
<1>5. t.vhost \in vpaused => Covered(x)'
  BY <1>0, <1>2, <1>4 DEF Commanded, Covered, Pauses
<1>6. io' = io /\ io' \in IoType /\ (io'.pc # "idle" => io'.x \in Sessions)
  BY <1>0 DEF Types
<1>. QED  BY <1>0, <1>2, <1>3, <1>5, <1>6, OneSession, ZenonT(30) DEF Commanded

\* LISTEN START and LISTEN STOP, and what main configures.
LEMMA ListenSteps ==
    ASSUME IInv, (\E p \in Ports : ListenStart(p)) \/ ListenStop \/ Configure
    PROVE  IInv'
<1>. USE DEF IInv
<1>0. /\ UNCHANGED <<sess, table, deleting, vpaused, io, ctl, stopped>>
      /\ UNCHANGED <<listener, accepts>>
      /\ main' \in {"configure", "run"} => main \in {"configure", "run"}
  BY ZenonT(30) DEF ListenStart, ListenStop, Configure, net, life
<1>1. posted' \in Seq(Closures)
  <2>0. \A p \in Ports : Append(posted, Closure("start", p)) \in Seq(Closures)
    <3>1. \A p \in Ports : Closure("start", p) \in Closures
      BY DEF Closure, Closures
    <3>. QED  BY <3>1 DEF Types
  <2>1. CASE \E p \in Ports : ListenStart(p)
    BY <2>0, <2>1, ZenonT(30) DEF ListenStart
  <2>2. CASE ListenStop
    <3>1. CASE \E p \in Ports : posted' = Append(posted, Closure("stop", p))
      BY <3>1 DEF Closure, Closures, Types
    <3>2. CASE StopAllListening
      <4>. DEFINE n == Cardinality(listener)
      <4>1. n \in Nat
        BY FS_CardinalityType DEF Types
      <4>2. PICK f \in [1..n -> listener] :
               posted' = posted \o [i \in 1..n |-> Closure("stop", f[i])]
        BY <3>2, ZenonT(30) DEF StopAllListening
      <4>. HIDE DEF n
      <4>3. f \in [1..n -> Ports]
        BY <4>2 DEF Types
      <4>. QED  BY <4>1, <4>2, <4>3, QueuedInARow, ZenonT(30) DEF Types
    <3>. QED  BY <2>2, <3>1, <3>2, ZenonT(30) DEF ListenStop
  <2>3. CASE Configure
    BY <2>0, <2>3 DEF Configure, Types
  <2>. QED  BY <2>1, <2>2, <2>3
<1>2. Types' /\ Accepting'
  BY <1>0, <1>1 DEF Types, Accepting
<1>. QED  BY <1>0, <1>2, OnlyTheNet

\* The control thread goes on, the sessions and the server stay.
LEMMA OnlyControl ==
    ASSUME IInv, UNCHANGED <<sess, table, deleting, vpaused, listener, accepts, posted,
                             io, main>>,
           ctl' \in CtlType, References', Accounts', Pauses'
    PROVE  IInv'
BY DEF IInv, Types, Accepting

\* visitSessions: what is not in the table needs no visit.
LEMMA VisitSessionsStep ==
    ASSUME IInv, VisitSessions
    PROVE  IInv'
<1>. USE DEF IInv
<1>0. UNCHANGED <<sess, table, deleting, vpaused, listener, accepts, posted, io, main, stopped>>
  BY DEF VisitSessions, net, life
<1>1. /\ ctl' \in CtlType /\ ctl'.pc = ctl.pc /\ ctl'.v = ctl.v /\ ctl'.del = ctl.del
      /\ ctl'.todo = table /\ ctl'.copy = table /\ ctl.pc # "deleting"
      /\ "control" \notin stopped
  BY DEF VisitSessions, VhostCommands, Running, Types, CtlType
<1>2. References'  BY <1>0, <1>1 DEF References
<1>3. Accounts'  BY <1>0, <1>1 DEF Accounts
<1>4. Pauses'
  <2>1. ASSUME NEW y \in Sessions, sess[y].vhost \in vpaused
        PROVE  Covered(y)'
    <3>1. sess[y].fin \/ y \in table
      BY <2>1, ServerAssumption DEF Accounts, Types
    <3>. QED  BY <1>0, <1>1, <2>1, <3>1 DEF Pauses, Covered
  <2>. QED  BY <1>0, <1>1, <2>1 DEF Pauses
<1>. QED  BY <1>0, <1>1, <1>2, <1>3, <1>4, OnlyControl

\* One session is visited by a VHOST command.
LEMMA VhostVisitStep ==
    ASSUME IInv, NEW x \in Sessions, VhostVisit(x)
    PROVE  IInv'
<1>. USE DEF IInv
<1>0. /\ UNCHANGED <<table, deleting, vpaused, listener, accepts, io, main, stopped>>
      /\ ctl.pc \in VhostCommands /\ "control" \notin stopped
      /\ x \in ctl.todo /\ Visitor(ctl.pc, ctl.v, x)
  BY DEF VhostVisit, Running, net, life
<1>1. /\ ctl' \in CtlType /\ ctl'.pc = ctl.pc /\ ctl'.v = ctl.v /\ ctl'.x = ctl.x
      /\ ctl'.todo = ctl.todo \ {x} /\ ctl'.copy = ctl.copy /\ ctl'.del = ctl.del
  BY DEF VhostVisit, Types, CtlType
<1>1x. ctl.x # Null
  BY ServerAssumption DEF VhostVisit
<1>2. /\ \E t \in SessionType :
            /\ Commanded(x, t)
            /\ ctl.pc # "UNPAUSE" \/ ctl.v # sess[x].vhost => (sess[x].paused => t.paused)
            /\ ctl.pc = "PAUSE" /\ ctl.v = sess[x].vhost => t.paused
      /\ posted' = posted \/ \E e \in Closures : posted' = Append(posted, e)
  BY <1>0, VisitorDoes
<1>3. PICK t \in SessionType :
         /\ Commanded(x, t)
         /\ ctl.pc # "UNPAUSE" \/ ctl.v # sess[x].vhost => (sess[x].paused => t.paused)
         /\ ctl.pc = "PAUSE" /\ ctl.v = sess[x].vhost => t.paused
  BY <1>2
<1>4. sess'[x] = t /\ (\A y \in Sessions \ {x} : sess'[y] = sess[y])
      /\ sess' \in [Sessions -> SessionType]
  BY <1>3 DEF Commanded, Types
<1>5. posted' \in Seq(Closures)
  BY <1>2 DEF Types
<1>6. Types'
  BY <1>0, <1>1, <1>4, <1>5 DEF Types
<1>7. References'
  BY <1>0, <1>1 DEF References
<1>8. Accounts'
  <2>1. sess[x].made
    BY <1>0 DEF References, Accounts
  <2>. QED  BY <1>0, <1>1, <1>3, <1>4, <2>1, ZenonT(60) DEF Accounts, Commanded
<1>9. Pauses'
  <2>1. ASSUME sess[x].vhost \in vpaused
        PROVE  Covered(x)'
    <3>1. Covered(x) /\ (ctl.pc = "UNPAUSE" => ctl.v # sess[x].vhost)
      BY <2>1 DEF Pauses
    <3>. QED  BY <1>0, <1>1, <1>1x, <1>3, <1>4, <3>1 DEF Covered, Commanded
  <2>2. ASSUME NEW y \in Sessions \ {x}, sess[y].vhost \in vpaused
        PROVE  Covered(y)'
    BY <1>0, <1>1, <1>4, <2>2 DEF Pauses, Covered
  <2>. QED  BY <1>0, <1>1, <1>3, <1>4, <2>1, <2>2 DEF Pauses, Commanded
<1>10. Accepting'
  BY <1>0 DEF Accepting
<1>. QED  BY <1>6, <1>7, <1>8, <1>9, <1>10

\* A command ends, or a round of the cleanup.
LEMMA BackToIdle ==
    ASSUME IInv, ctl' = CtlIdle,
           UNCHANGED <<sess, table, vpaused, listener, accepts, io, main>>,
           posted' \in Seq(Closures), deleting' \subseteq deleting,
           \/ ctl.pc # "PAUSE"
           \/ ctl.x # Null /\ ctl.todo = {}
    PROVE  IInv'
<1>. USE DEF IInv
<1>1. /\ ctl' \in CtlType /\ ctl'.pc = "idle" /\ ctl'.todo = {} /\ ctl'.copy = {}
      /\ ctl'.del = {}
  BY DEF CtlIdle, CtlType
<1>2. Types'  BY <1>1 DEF Types
<1>3. References'  BY <1>1 DEF References
<1>4. Accounts'  BY <1>1 DEF Accounts
<1>5. Pauses'  BY <1>1 DEF Pauses, Covered
<1>6. Accepting'  BY DEF Accepting
<1>. QED  BY <1>2, <1>3, <1>4, <1>5, <1>6

\* The other steps of the control thread.
LEMMA ControlSteps ==
    ASSUME IInv,
           \/ VhostVisited \/ Visited \/ ReleaseDeleted \/ ClearDefunctSessions
           \/ StopControl
           \/ \E x \in Sessions : Finished(x) \/ RemoveSession(x)
    PROVE  IInv'
<1>. USE DEF IInv
<1>0. /\ UNCHANGED <<sess, vpaused, listener, accepts, io, main>>
      /\ "control" \notin stopped /\ ctl \in CtlType
  BY ZenonT(30)
      DEF VhostVisited, Visited, ReleaseDeleted, ClearDefunctSessions, StopControl,
         Finished, RemoveSession, Control, Running, Types, net, life
<1>1. CASE VhostVisited
  BY <1>1, BackToIdle, ServerAssumption DEF VhostVisited, net, life, Types
<1>2. CASE StopControl
  BY <1>2, BackToIdle DEF StopControl, Control, net, Types
<1>3. CASE ClearDefunctSessions
  <2>1. Closure("drop", deleting) \in Closures
    BY DEF Closure, Closures, Types
  <2>2. posted' \in Seq(Closures)
    BY <1>3, <2>1 DEF ClearDefunctSessions, Types
  <2>. QED  BY <1>3, <2>2, BackToIdle DEF ClearDefunctSessions, Control, net, life
<1>4. CASE Visited
  <2>0. UNCHANGED <<table, deleting, posted, stopped>> /\ ctl.pc = "cleanup"
    BY <1>4 DEF Visited, Control, life
  <2>1. CASE ctl.del = {}
    BY <1>0, <1>4, <2>0, <2>1, BackToIdle DEF Visited, Types
  <2>2. CASE ctl.del # {}
    <3>1. /\ ctl' \in CtlType /\ ctl'.pc = "deleting" /\ ctl'.todo = ctl.del
          /\ ctl'.copy = {} /\ ctl'.del = ctl.del
      BY <1>0, <1>4, <2>2, ZenonT(30) DEF Visited, CtlType
    <3>2. References'  BY <1>0, <2>0, <3>1 DEF References
    <3>3. Accounts'  BY <1>0, <2>0, <3>1 DEF Accounts
    <3>4. Pauses'  BY <1>0, <2>0, <3>1 DEF Pauses, Covered
    <3>. QED  BY <1>0, <2>0, <3>1, <3>2, <3>3, <3>4, OnlyControl
  <2>. QED  BY <2>1, <2>2
<1>5. CASE ReleaseDeleted
  <2>0. UNCHANGED <<table, deleting, posted, stopped>> /\ ctl.pc = "deleting"
    BY <1>5 DEF ReleaseDeleted, Control, life
  <2>1. /\ ctl' \in CtlType /\ ctl'.pc = "clear" /\ ctl'.todo = ctl.todo
        /\ ctl'.copy = ctl.copy /\ ctl'.del = {}
    BY <1>0, <1>5, ZenonT(30) DEF ReleaseDeleted, CtlType
  <2>2. References'  BY <1>0, <2>0, <2>1 DEF References
  <2>3. Accounts'  BY <1>0, <2>0, <2>1 DEF Accounts
  <2>4. Pauses'  BY <1>0, <2>0, <2>1 DEF Pauses, Covered
  <2>. QED  BY <1>0, <2>0, <2>1, <2>2, <2>3, <2>4, OnlyControl
<1>6. ASSUME NEW x \in Sessions, Finished(x)
      PROVE  IInv'
  <2>0. UNCHANGED <<table, deleting, posted, stopped>> /\ ctl.pc = "cleanup" /\ x \in ctl.todo
    BY <1>6, ZenonT(30) DEF Finished, Control, life
  <2>1. /\ ctl' \in CtlType /\ ctl'.pc = "cleanup" /\ ctl'.todo = ctl.todo \ {x}
        /\ ctl'.copy = ctl.copy
        /\ ctl'.del = IF sess[x].fin THEN ctl.del \cup {x} ELSE ctl.del
    BY <1>0, <1>6, <2>0, ZenonT(30) DEF Finished, CtlType
  <2>2. References'  BY <1>0, <2>0, <2>1 DEF References
  <2>3. Accounts'  BY <1>0, <2>0, <2>1 DEF Accounts
  <2>4. Pauses'  BY <1>0, <2>0, <2>1 DEF Pauses, Covered
  <2>. QED  BY <1>0, <2>0, <2>1, <2>2, <2>3, <2>4, OnlyControl
<1>7. ASSUME NEW x \in Sessions, RemoveSession(x)
      PROVE  IInv'
  <2>0. /\ UNCHANGED <<posted, stopped>> /\ ctl.pc = "deleting" /\ x \in ctl.todo
        /\ table' = table \ {x} /\ deleting' = deleting \cup ({x} \cap table)
    BY <1>7 DEF RemoveSession, Control, life
  <2>1. /\ ctl' \in CtlType /\ ctl'.pc = "deleting" /\ ctl'.todo = ctl.todo \ {x}
        /\ ctl'.copy = ctl.copy /\ ctl'.del = ctl.del
    BY <1>0, <1>7, <2>0 DEF RemoveSession, CtlType
  <2>2. table' \cup deleting' = table \cup deleting
    BY <2>0
  <2>3. Types'  BY <1>0, <2>0, <2>1 DEF Types
  <2>4. References'  BY <1>0, <2>0, <2>1, <2>2 DEF References
  <2>5. Accounts'
    <3>1. sess[x].fin
      BY <2>0 DEF Accounts
    <3>. QED  BY <1>0, <2>0, <2>1, <2>2, <3>1 DEF Accounts
  <2>6. Pauses'  BY <1>0, <2>0, <2>1 DEF Pauses, Covered
  <2>7. Accepting'  BY <1>0 DEF Accepting
  <2>. QED  BY <2>3, <2>4, <2>5, <2>6, <2>7
<1>. QED  BY <1>1, <1>2, <1>3, <1>4, <1>5, <1>6, <1>7

-----------------------------------------------------------------------------
(* Steps of the main thread *)

\* run() returns.
LEMMA RunReturnsStep ==
    ASSUME IInv, RunReturns
    PROVE  IInv'
<1>. USE DEF IInv
<1>0. /\ UNCHANGED <<sess, table, deleting, vpaused, io, ctl, stopped>>
      /\ UNCHANGED <<listener, accepts, posted>> /\ main' = "join"
  BY DEF RunReturns, net
<1>1. Types' /\ Accepting'
  BY <1>0 DEF Types, Accepting
<1>. QED  BY <1>0, <1>1, OnlyTheNet

\* The tear down comes after the control thread has ended.
LEMMA JoinStep ==
    ASSUME IInv, Join
    PROVE  IInv'
<1>. USE DEF IInv
<1>0. /\ ctl = CtlIdle /\ UNCHANGED <<vpaused, io, ctl, stopped>> /\ main' = "ended"
      /\ table' = {} /\ deleting' = {} /\ posted' = <<>> /\ listener' = {}
      /\ accepts' = NoAccepts
  BY DEF Join, TearDown, References
<1>1. ctl.todo = {} /\ ctl.copy = {} /\ ctl.del = {} /\ ctl.pc = "idle"
  BY <1>0 DEF CtlIdle
<1>2. \A x \in Sessions : /\ sess'[x] \in SessionType /\ ~sess'[x].up /\ ~sess'[x].fin
                          /\ sess'[x].vhost = Null
  BY ZenonT(30) DEF Join, TearDown, NoSession, SessionType, Types
<1>3. sess' \in [Sessions -> SessionType]
  BY <1>2 DEF Join, TearDown
<1>4. IsFiniteSet(listener')
  BY <1>0, FS_EmptySet
<1>5. Types'
  BY <1>0, <1>3, <1>4 DEF Types, NoAccepts
<1>6. References'
  BY <1>0, <1>1 DEF References
<1>7. Accounts'
  BY <1>0, <1>1, <1>2 DEF Accounts
<1>8. Pauses'
  BY <1>0, <1>1, <1>2, ServerAssumption DEF Pauses, Types
<1>9. Accepting'
  BY <1>0 DEF Accepting
<1>. QED  BY <1>5, <1>6, <1>7, <1>8, <1>9

-----------------------------------------------------------------------------
(* The theorems *)

LEMMA Initially ==
    ASSUME Init
    PROVE  IInv
<1>1. /\ ctl \in CtlType /\ ctl.pc = "idle" /\ ctl.todo = {} /\ ctl.copy = {} /\ ctl.del = {}
      /\ io \in IoType /\ io.pc = "idle"
  BY DEF Init, CtlIdle, CtlType, IoIdle, IoType
<1>2. /\ sess \in [Sessions -> SessionType]
      /\ \A x \in Sessions : ~sess[x].up /\ ~sess[x].fin /\ sess[x].vhost = Null
  BY DEF Init, NoSession, SessionType
<1>3. Types
  BY <1>1, <1>2, FS_EmptySet DEF Init, Types, NoAccepts
<1>4. References /\ Accounts /\ Accepting
  BY <1>1, <1>2 DEF Init, References, Accounts, Accepting
<1>5. Pauses
  BY <1>1 DEF Init, Pauses
<1>. QED  BY <1>3, <1>4, <1>5 DEF IInv

LEMMA Stutter ==
    ASSUME IInv, UNCHANGED vars
    PROVE  IInv'
<1>1. UNCHANGED <<sess, table, deleting, vpaused, listener, accepts, posted, io, ctl, main,
                  stopped>>
  BY DEF vars
<1>2. Types' /\ Accepting'
  BY <1>1 DEF IInv, Types, Accepting
<1>. QED  BY <1>1, <1>2, OnlyTheNet DEF IInv

LEMMA Step ==
    ASSUME IInv, Next
    PROVE  IInv'
<1>1. CASE IoNext
  BY <1>1, AcceptStep, AcceptErrorStep, SessionSteps, PauserSteps, DisconnectStep,
     ListenerSteps DEF IoNext
<1>2. CASE CommandNext
  <2>1. CASE \E c \in VhostCommands, v \in Vhosts :
                VhostCommand(c, v)
    BY <2>1, BeginCommand
  <2>2. CASE \E c \in SessionCommands, x \in Sessions :
                SessionCommand(c, x)
    BY <2>2, SessionCommandStep, ZenonT(30)
  <2>3. CASE (\E port \in Ports : ListenStart(port)) \/ ListenStop
    BY <2>3, ListenSteps
  <2>4. CASE Exit
    BY <2>4, BeginCommand
  <2>. QED  BY <1>2, <2>1, <2>2, <2>3, <2>4, ZenonT(30) DEF CommandNext
<1>3. CASE Cleanup
  BY <1>3, BeginCommand
<1>4. CASE ControlStep
  BY <1>4, VisitSessionsStep, VhostVisitStep, ControlSteps DEF ControlStep
<1>5. CASE MainNext
  BY <1>5, ListenSteps, RunReturnsStep, JoinStep DEF MainNext
<1>. QED  BY <1>1, <1>2, <1>3, <1>4, <1>5 DEF Next

\* The invariant holds in every reachable state, whatever the threads do in
\* which order.
THEOREM Invariance == Spec => []IInv
<1>1. Init => IInv
  BY Initially
<1>2. IInv /\ [Next]_vars => IInv'
  BY Step, Stutter
<1>. QED  BY <1>1, <1>2, PTL DEF Spec

\* VHOST PAUSE misses no session: with no command under way every session of a
\* paused vhost is paused, finished, or about to be paused by the pauser
\* (PauseVhostControlCommand, VhostEstablishedPauser).
THEOREM NoneMissed == Spec => []PausedVhostHolds
<1>1. IInv => PausedVhostHolds
  BY DEF IInv, Pauses, Covered, PausedVhostHolds
<1>. QED  BY <1>1, Invariance, PTL

\* A port that is listened on waits for the next connection (Server::doAccept).
THEOREM KeepsAccepting == Spec => []PortKeepsAccepting
<1>1. IInv => PortKeepsAccepting
  BY DEF IInv, Accepting, PortKeepsAccepting, Serving
<1>. QED  BY <1>1, Invariance, PTL

-----------------------------------------------------------------------------
(* Where sessions are destroyed *)

\* What is queued stays queued when a closure is added.
LEMMA QueuedMore ==
    ASSUME posted \in Seq(Closures), NEW c \in Closures, posted' = Append(posted, c)
    PROVE  Queued \subseteq Queued' /\ Refers(c) \subseteq Queued'
<1>1. /\ Len(posted) \in Nat /\ Len(posted') = Len(posted) + 1
      /\ posted'[Len(posted) + 1] = c
      /\ \A i \in 1..Len(posted) : posted'[i] = posted[i]
  OBVIOUS
<1>2. \A i \in 1..Len(posted) : i \in 1..Len(posted') /\ Refers(posted'[i]) = Refers(posted[i])
  BY <1>1
<1>3. Len(posted') \in 1..Len(posted') /\ posted'[Len(posted')] = c
  BY <1>1
<1>. QED  BY <1>2, <1>3 DEF Queued

\* A session that the server, the queue or a handler refers to is not destroyed.
LEMMA StillHeld ==
    ASSUME IInv, NEW x \in Sessions, ~Gone(x),
           sess'[x].made = sess[x].made, sess[x].held => sess'[x].held,
           table \cup deleting \cup Queued \subseteq table' \cup deleting' \cup Queued'
    PROVE  ~Gone(x)'
<1>1. ctl.copy \subseteq table \cup deleting /\ ctl.del \subseteq table \cup deleting
  BY DEF IInv, References
<1>. QED  BY <1>1 DEF Gone

\* A step of the control thread destroys no session.
LEMMA ControlDestroysNone ==
    ASSUME IInv, Next, ctl' # ctl, NEW x \in Sessions, ~Gone(x)
    PROVE  ~Gone(x)'
<1>0. posted \in Seq(Closures)
  BY DEF IInv, Types
<1>1. ~IoNext /\ ~MainNext
  BY ZenonT(30) DEF IoNext, Accept, VhostEstablished, Connected, Unreachable, Leave, CloseOk,
         Aborted, PausedRead, Release, IsPaused, PauserPause, Establish, SetReady,
         PerformDisconnectBoth, PerformBackendDisconnect, DropSessions, StartListening,
         StopListening, AcceptFailed, AcceptError, BindFails, Run, MainNext, Configure,
         RunReturns, Join
<1>2. CASE \E y \in Sessions : VhostVisit(y)
  <2>1. PICK y \in Sessions : VhostVisit(y)
    BY <1>2
  <2>2. /\ \E t \in SessionType : Commanded(y, t)
        /\ posted' = posted \/ \E e \in Closures : posted' = Append(posted, e)
    BY <2>1, VisitorDoes DEF VhostVisit, IInv
  <2>3. sess'[x].made = sess[x].made /\ (sess[x].held => sess'[x].held)
    BY <2>2 DEF Commanded, IInv, Types
  <2>4. Queued \subseteq Queued'
    <3>1. CASE posted' = posted
      BY <3>1 DEF Queued
    <3>. QED  BY <1>0, <2>2, <3>1, QueuedMore
  <2>5. table' = table /\ deleting' = deleting
    BY <2>1 DEF VhostVisit
  <2>. QED  BY <2>3, <2>4, <2>5, StillHeld
<1>3. CASE ClearDefunctSessions
  <2>1. /\ Closure("drop", deleting) \in Closures
        /\ Refers(Closure("drop", deleting)) = deleting
    BY DEF Closure, Closures, Refers, IInv, Types
  <2>2. /\ posted' = Append(posted, Closure("drop", deleting))
        /\ table' = table /\ sess' = sess
    BY <1>3 DEF ClearDefunctSessions
  <2>3. Queued \subseteq Queued' /\ deleting \subseteq Queued'
    <3>1. PICK c \in Closures : c = Closure("drop", deleting)
      BY <2>1
    <3>2. posted' = Append(posted, c) /\ Refers(c) = deleting
      BY <2>1, <2>2, <3>1
    <3>3. Queued \subseteq Queued' /\ Refers(c) \subseteq Queued'
      BY <1>0, <3>2, QueuedMore
    <3>. QED  BY <3>2, <3>3
  <2>. QED  BY <2>2, <2>3, StillHeld
<1>4. CASE \E y \in Sessions : RemoveSession(y)
  <2>1. posted' = posted /\ sess' = sess /\ table \cup deleting \subseteq table' \cup deleting'
    BY <1>4 DEF RemoveSession
  <2>2. Queued' = Queued
    BY <2>1 DEF Queued
  <2>. QED  BY <2>1, <2>2, StillHeld
<1>5. CASE \/ \E c \in VhostCommands, v \in Vhosts :
                 VhostCommand(c, v)
           \/ Exit \/ Cleanup \/ VisitSessions \/ VhostVisited \/ Visited \/ ReleaseDeleted
           \/ StopControl \/ \E y \in Sessions : Finished(y)
  <2>1. posted' = posted /\ sess' = sess /\ table' = table /\ deleting' = deleting
    BY <1>5, ZenonT(30)
        DEF VhostCommand, Exit, Cleanup, VisitSessions, VhostVisited, Visited,
                ReleaseDeleted, StopControl, Finished
  <2>2. Queued' = Queued
    BY <2>1 DEF Queued
  <2>. QED  BY <2>1, <2>2, StillHeld
<1>6. CASE \/ \E c \in SessionCommands, y \in Sessions :
                 SessionCommand(c, y)
           \/ (\E port \in Ports : ListenStart(port)) \/ ListenStop
  BY <1>6, ZenonT(30) DEF SessionCommand, ListenStart, ListenStop
<1>. QED  BY <1>1, <1>2, <1>3, <1>4, <1>5, <1>6, ZenonT(30)
              DEF Next, CommandNext, ControlStep

\* A session is destroyed on the io thread only (SessionCleanup::cleanup,
\* Server::clearDefunctSessions), or in the tear down after the control thread.
THEOREM OnIoThread == Spec => DestroyedOnIoThread
<1>1. ASSUME IInv, [Next]_vars
      PROVE  [\A x \in Sessions : ~Gone(x) /\ Gone(x)' => ctl' = ctl]_vars
  BY <1>1, ControlDestroysNone
<1>2. IInv /\ [Next]_vars => [\A x \in Sessions : ~Gone(x) /\ Gone(x)' => ctl' = ctl]_vars
  BY <1>1
<1>. QED  BY <1>2, Invariance, PTL DEF Spec, DestroyedOnIoThread

=============================================================================
