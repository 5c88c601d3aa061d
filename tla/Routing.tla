------------------------------ MODULE Routing ------------------------------
(***************************************************************************)
(* How a session gets its broker: the resource map, the farms and their    *)
(* backend sets, the round robin selector and the connection manager of    *)
(* each session, while the operator changes the configuration.             *)
(*                                                                         *)
(* A backend is an object: deleting and adding one of the same name makes  *)
(* another object (gen).  A backend set is shared by its farm and by the   *)
(* connection managers made from it, so the sets live in a heap (sets) and *)
(* are referred to by their index; a set's partitions never change, its    *)
(* markers do.  Handlers of the io thread and commands are atomic.         *)
(***************************************************************************)
EXTENDS Naturals, FiniteSets, Sequences, Functions, TLC

CONSTANTS
    Backends,     \* names of backends
    Configured,   \* the sets of backends that may be known at first
    Dns,          \* those added with ADD_DNS
    Farms,        \* names of farms
    Vhosts,       \* names of virtual hosts
    Datacenters,  \* datacenter tags
    Sessions,     \* the sessions that look for a broker
    Commands,     \* the commands that may be issued
    MaxCommands,  \* bound on the number of commands issued
    MaxEndpoints, \* bound on the endpoints that a name resolves to
    Null          \* the null pointer, and what a map does not hold

Command == {"backend_add", "backend_delete", "farm_add", "farm_partition",
            "farm_delete", "datacenter_set", "map", "unmap", "default"}

Backend == [name : Backends, dc : Datacenters, gen : Nat]

ASSUME RoutingAssumption ==
    /\ IsFiniteSet(Backends) /\ IsFiniteSet(Farms)
    /\ Backends # {} /\ Farms # {} /\ Vhosts # {} /\ Datacenters # {}
    /\ Commands \subseteq Command /\ MaxCommands \in Nat
    /\ Configured \subseteq SUBSET Backends \ {{}}
    /\ Dns \subseteq Backends /\ MaxEndpoints \in Nat \ {0}
    /\ Null \notin Backends \cup Farms \cup Backend

VARIABLES
    store,   \* BackendStore: the backend of each name
    farms,   \* FarmStore: the farm of each name
    sets,    \* the backend sets made so far
    map,     \* ResourceMapper: what each vhost is mapped to
    default, \* ConnectionSelector: the default farm
    dc,      \* Datacenter: where the proxy is
    sess,    \* the sessions and their connection managers
    cmds,    \* the number of commands issued
    ub       \* whether a pointer to no backend was dereferenced
config == <<store, farms, map, default, dc>>
vars == <<store, farms, sets, map, default, dc, sess, cmds, ub>>

Resource == [farm : {TRUE}, name : Farms] \cup [farm : {FALSE}, name : Backends]
Farm == [members : SUBSET Backends, policies : Nat, set : Nat]
Partition == Seq(Backend \cup {Null})
BackendSet == [parts : Seq(Partition), markers : Seq(Nat)]

-----------------------------------------------------------------------------
(* Selecting a backend.                                                    *)

\* How many backends the first i partitions have, for every i.
Skipped(parts) ==
    LET f[i \in 0..Len(parts)] ==
            IF i = 0 THEN 0 ELSE f[i - 1] + Len(parts[i])
    IN  f

\* Mutant of PartitionOf: the last partitions come first.
PartitionOfLast(parts, retry) ==
    LET n == Skipped(parts)
        all == n[Len(parts)]
    IN  {i \in DOMAIN parts : all - n[i] <= retry /\ retry < all - n[i - 1]}

\* The partition in which a retry count falls.
PartitionOf(parts, retry) ==
    LET n == Skipped(parts)
    IN  {i \in DOMAIN parts : n[i - 1] <= retry /\ retry < n[i]}

\* Mutant of Select: the retry count does not move on in the partition.
SelectStays(parts, markers, retry) ==
    IF PartitionOf(parts, retry) = {} THEN Null
    ELSE LET i == CHOOSE j \in PartitionOf(parts, retry) : TRUE
         IN  parts[i][(markers[i] % Len(parts[i])) + 1]

\* RobinBackendSelector::select without its marking.
Select(parts, markers, retry) ==
    LET I == PartitionOf(parts, retry)
    IN  IF I = {} THEN Null
        ELSE LET i == CHOOSE j \in I : TRUE
                 r == retry - Skipped(parts)[i - 1]
             IN  parts[i][((markers[i] + r) % Len(parts[i])) + 1]

\* Mutant of GetConnection: the markers are those of now.
GetConnectionNow(heap, m, retry) ==
    Select(heap[m.set].parts, heap[m.set].markers, retry)

\* ConnectionManager::getConnection.  A vhost mapped to a backend has no
\* selector and one backend that is not retried.
GetConnection(heap, m, retry) ==
    IF m.selector THEN Select(heap[m.set].parts, m.snapshot, retry)
    ELSE IF retry > 0 THEN Null ELSE heap[m.set].parts[1][1]

\* Each call of it marks the partition it selects from.
Mark(heap, m, retry) ==
    IF ~m.selector THEN heap
    ELSE [heap EXCEPT ![m.set].markers =
             [i \in DOMAIN @ |->
                 IF i \in PartitionOf(heap[m.set].parts, retry)
                 THEN @[i] + 1 ELSE @[i]]]

-----------------------------------------------------------------------------
(* Farms.                                                                  *)

\* The positions in K, ascending, and what s has there, in its order.
Ascending(K) ==
    CHOOSE e \in [1..Cardinality(K) -> K] : \A i, j \in DOMAIN e : i < j => e[i] < e[j]
Kept(s, K) == LET e == Ascending(K) IN [i \in DOMAIN e |-> s[e[i]]]

\* AffinityPartitionPolicy::partition: each partition is split into the
\* backends of the proxy's datacenter and the others, without empty parts.
Local(p, here) == {j \in DOMAIN p : p[j].dc = here}
Half(parts, here, n) ==
    LET p == parts[(n + 1) \div 2]
    IN  Kept(p, IF n % 2 = 1 THEN Local(p, here) ELSE DOMAIN p \ Local(p, here))
Affinity(parts, here) ==
    LET halves == [n \in 1..2 * Len(parts) |-> Half(parts, here, n)]
    IN  Kept(halves, {n \in DOMAIN halves : halves[n] # <<>>})

\* BackendStore::lookup.
Lookup(st, b) == st[b]

\* The elements of a hash set, in the order in which it lists them.
Listing(S) == CHOOSE q \in [1..Cardinality(S) -> S] : IsInjective(q)

\* The first partition of a farm: its members, in the order of the hash set,
\* looked up in the backend store.
Members(farm, st) ==
    LET q == Listing(farm.members) IN [i \in DOMAIN q |-> Lookup(st, q[i])]

\* doRepartitionWhileLocked: the policies are applied one after the other.
Repartition(farm, st, here) ==
    LET f[n \in 0..farm.policies] ==
            IF n = 0 THEN <<Members(farm, st)>> ELSE Affinity(f[n - 1], here)
    IN  f[farm.policies]

\* A policy dereferences every member.
Dereferences(farm, st) ==
    farm.policies > 0 /\ \E b \in farm.members : st[b] = Null

NewSet(parts) ==
    [parts |-> parts, markers |-> [i \in DOMAIN parts |-> 0]]

\* The farms fs with those in F repartitioned, each with a new backend set.
Repartitioned(fs, F, st, here) ==
    LET q  == Listing(F)
        At(f) == Len(sets) + (CHOOSE i \in DOMAIN q : q[i] = f)
    IN  IF \E f \in F : Dereferences(fs[f], st)
        THEN ub' = TRUE /\ UNCHANGED <<farms, sets>>
        ELSE /\ farms' = [f \in Farms |->
                             IF f \in F THEN [fs[f] EXCEPT !.set = At(f)]
                                        ELSE fs[f]]
             /\ sets' = sets \o [i \in DOMAIN q |->
                                    NewSet(Repartition(fs[q[i]], st, here))]
             /\ UNCHANGED ub

-----------------------------------------------------------------------------
(* Commands.                                                               *)

Issue(c) ==
    /\ ~ub /\ c \in Commands /\ cmds < MaxCommands
    /\ cmds' = cmds + 1
    /\ UNCHANGED sess

NewBackend(b, d, n) == [name |-> b, dc |-> d, gen |-> n]

\* BackendStore::insert and remove; another command fails.
InsertBackend(backend) ==
    /\ Lookup(store, backend.name) = Null
    /\ store' = [store EXCEPT ![backend.name] = backend]
RemoveBackend(b) ==
    /\ Lookup(store, b) # Null
    /\ store' = [store EXCEPT ![b] = Null]

\* FarmStore::addFarm replaces a farm of the same name.
AddFarm(f, farm) == [farms EXCEPT ![f] = farm]
RemoveFarmByName(f) == farms' = [farms EXCEPT ![f] = Null]

BackendAdd ==
    /\ Issue("backend_add")
    /\ \E b \in Backends, d \in Datacenters : InsertBackend(NewBackend(b, d, cmds'))
    /\ UNCHANGED <<farms, sets, map, default, dc, ub>>

BackendDelete ==
    /\ Issue("backend_delete")
    /\ \E b \in Backends : RemoveBackend(b)
    /\ UNCHANGED <<farms, sets, map, default, dc, ub>>

\* FARM ADD: refused when a backend is missing, and replacing a farm otherwise.
FarmAdd ==
    /\ Issue("farm_add")
    /\ \E f \in Farms, M \in SUBSET Backends \ {{}} :
          /\ \A b \in M : Lookup(store, b) # Null
          /\ Repartitioned(AddFarm(f, [members |-> M, policies |-> 0, set |-> 0]),
                           {f}, store, dc)
    /\ UNCHANGED <<store, map, default, dc>>

FarmPartition ==
    /\ Issue("farm_partition")
    /\ \E f \in Farms :
          /\ farms[f] # Null
          /\ Repartitioned([farms EXCEPT ![f].policies = @ + 1], {f}, store, dc)
    /\ UNCHANGED <<store, map, default, dc>>

FarmDelete ==
    /\ Issue("farm_delete")
    /\ \E f \in Farms : farms[f] # Null /\ RemoveFarmByName(f)
    /\ UNCHANGED <<store, sets, map, default, dc, ub>>

\* Mutant of DatacenterSet: the farms are left as they are.
DatacenterSetOnly ==
    /\ Issue("datacenter_set")
    /\ dc' \in Datacenters
    /\ UNCHANGED <<store, farms, sets, map, default, ub>>

\* FarmStore::repartitionAll.
RepartitionAll(here) ==
    Repartitioned(farms, {f \in Farms : farms[f] # Null}, store, here)

\* DATACENTER SET.
DatacenterSet ==
    /\ Issue("datacenter_set")
    /\ dc' \in Datacenters
    /\ RepartitionAll(dc')
    /\ UNCHANGED <<store, map, default>>

Map ==
    /\ Issue("map")
    /\ \E v \in Vhosts :
          \/ \E f \in Farms : map' = [map EXCEPT ![v] = [farm |-> TRUE, name |-> f]]
          \/ \E b \in Backends :
                map' = [map EXCEPT ![v] = [farm |-> FALSE, name |-> b]]
    /\ UNCHANGED <<store, farms, sets, default, dc, ub>>

Unmap ==
    /\ Issue("unmap")
    /\ \E v \in Vhosts : map' = [map EXCEPT ![v] = Null]
    /\ UNCHANGED <<store, farms, sets, default, dc, ub>>

\* MAP DEFAULT and MAP REMOVE_DEFAULT.
MapDefault ==
    /\ Issue("default")
    /\ default' \in Farms \cup {Null}
    /\ UNCHANGED <<store, farms, sets, map, dc, ub>>

-----------------------------------------------------------------------------
(* The sessions.                                                           *)

\* getResourceMap, with the default farm for a vhost without a mapping.
ResourceOf(v) ==
    IF map[v] # Null THEN map[v]
    ELSE IF default = Null THEN Null ELSE [farm |-> TRUE, name |-> default]

\* getFarmByName, which throws for a farm that is not there, and its backendSet.
GetFarmByName(f) == farms[f]
BackendSetOf(farm) == farm.set

Manager(set, heap, selector) ==
    [set |-> set, snapshot |-> heap[set].markers, selector |-> selector]

\* A session that knows its vhost and has no connection manager yet.
NewSession(v) ==
    [st |-> "new", vhost |-> v, mgr |-> Null, retry |-> 0, tried |-> <<>>,
     left |-> 0, using |-> Null]

\* attemptConnection: getConnection, and the backend is resolved.  It does
\* nothing for a session that was paused or finished in the meantime, which gives
\* up its connection manager.
Attempt(x, retry, heap) ==
    LET m == sess[x].mgr
        b == GetConnection(heap, m, retry)
        h == Mark(heap, m, retry)
        To(st) == [sess EXCEPT ![x].st = st, ![x].retry = retry]
    IN  \/ /\ sess' = [sess EXCEPT ![x] = [NewSession(@.vhost) EXCEPT !.st = "stopped"]]
           /\ sets' = heap /\ UNCHANGED ub
        \/ b = Null /\ sess' = To("failed") /\ sets' = h /\ UNCHANGED ub
        \/ /\ b # Null
           /\ sess' = [To("resolving") EXCEPT ![x].tried = Append(@, b)]
           /\ sets' = h
           /\ ub' = (store[b.name] # b)

\* acquireConnection refuses a session that a connection limit stops.
Limited(x) ==
    /\ ~ub /\ sess[x].st = "new"
    /\ sess' = [sess EXCEPT ![x].st = "LIMIT"]
    /\ UNCHANGED <<config, sets, cmds, ub>>

\* acquireConnection for a session that no limit stops.
Acquire(x) ==
    /\ ~ub /\ sess[x].st = "new"
    /\ LET r == ResourceOf(sess[x].vhost)
           End(st) == /\ sess' = [sess EXCEPT ![x].st = st]
                      /\ UNCHANGED <<sets, ub>>
           Go(m, heap) == /\ sess' = [sess EXCEPT ![x].st = "acquired",
                                                  ![x].mgr = m]
                          /\ sets' = heap /\ UNCHANGED ub
       IN  CASE r = Null -> End("NO_FARM")
             [] r # Null /\ r.farm /\ GetFarmByName(r.name) = Null -> End("ERROR_FARM")
             [] r # Null /\ r.farm /\ GetFarmByName(r.name) # Null ->
                   Go(Manager(BackendSetOf(GetFarmByName(r.name)), sets, TRUE), sets)
             [] r # Null /\ ~r.farm /\ Lookup(store, r.name) = Null -> End("NO_BACKEND")
             [] OTHER ->
                   LET h == Append(sets, NewSet(<<<<store[r.name]>>>>))
                   IN  Go(Manager(Len(h), h, FALSE), h)
    /\ UNCHANGED <<config, cmds>>

\* The callback of authenticate starts the first attempt.
FirstAttempt(x) ==
    /\ ~ub /\ sess[x].st = "acquired"
    /\ Attempt(x, 0, sets)
    /\ UNCHANGED <<config, cmds>>

\* A later handler asks for the current backend again.
Current(x) == GetConnection(sets, sess[x].mgr, sess[x].retry)
Marked(x) == Mark(sets, sess[x].mgr, sess[x].retry)
Dangling(b) == b # Null /\ store[b.name] # b

\* How many endpoints are used: all of them only for a DNS based entry.
Endpoints(b) == IF b # Null /\ b.name \in Dns THEN 0..MaxEndpoints ELSE 0..1

\* The callback of resolve with n endpoints; with none the next backend is
\* tried.
Resolved(x) ==
    /\ ~ub /\ sess[x].st = "resolving"
    /\ \E n \in Endpoints(Current(x)) :
          IF Dangling(Current(x)) THEN ub' = TRUE /\ UNCHANGED <<sess, sets>>
          ELSE IF n = 0 THEN Attempt(x, sess[x].retry + 1, Marked(x))
          ELSE /\ sess' = [sess EXCEPT ![x].st = "connecting", ![x].left = n - 1]
               /\ sets' = Marked(x) /\ UNCHANGED ub
    /\ UNCHANGED <<config, cmds>>

\* The callback of async_connect, which reads the settings of the backend and
\* has no use for the connection manager after that.
Connected(x) ==
    /\ ~ub /\ sess[x].st = "connecting"
    /\ sess' = [sess EXCEPT ![x].st = "connected", ![x].mgr = Null,
                            ![x].using = Current(x)]
    /\ sets' = Marked(x)
    /\ ub' = (Current(x) = Null \/ Dangling(Current(x)))
    /\ UNCHANGED <<config, cmds>>

\* handleConnectionError: the next endpoint, or the next backend.
ConnectFailed(x) ==
    /\ ~ub /\ sess[x].st = "connecting"
    /\ IF Dangling(Current(x)) THEN ub' = TRUE /\ UNCHANGED <<sess, sets>>
       ELSE IF sess[x].left = 0 THEN Attempt(x, sess[x].retry + 1, Marked(x))
       ELSE /\ sess' = [sess EXCEPT ![x].left = @ - 1]
            /\ sets' = Marked(x) /\ UNCHANGED ub
    /\ UNCHANGED <<config, cmds>>

-----------------------------------------------------------------------------
\* A proxy configured with every backend, one farm of all of them, partitioned
\* or not, and the vhosts mapped to it.
Init ==
    /\ dc \in Datacenters
    /\ \E known \in Configured, f \in Farms, n \in 0..1 :
          LET farm == [members |-> known, policies |-> n, set |-> 1]
          IN  /\ \E d \in [known -> Datacenters] :
                    store = [b \in Backends |->
                                IF b \in known THEN NewBackend(b, d[b], 0) ELSE Null]
              /\ farms = [g \in Farms |-> IF g = f THEN farm ELSE Null]
              /\ sets = <<NewSet(Repartition(farm, store, dc))>>
              /\ map = [v \in Vhosts |-> [farm |-> TRUE, name |-> f]]
    /\ default = Null /\ cmds = 0 /\ ub = FALSE
    /\ sess \in [Sessions -> {NewSession(v) : v \in Vhosts}]

Configure ==
    \/ BackendAdd \/ BackendDelete \/ FarmAdd \/ FarmPartition \/ FarmDelete
    \/ DatacenterSet \/ Map \/ Unmap \/ MapDefault

Connect ==
    \E x \in Sessions :
        \/ Limited(x) \/ Acquire(x) \/ FirstAttempt(x) \/ Resolved(x)
        \/ Connected(x) \/ ConnectFailed(x)

Next == Configure \/ Connect

Spec == Init /\ [][Next]_vars

\* Sessions are interchangeable, and so are datacenters.
Symmetry == Permutations(Sessions) \cup Permutations(Datacenters)

-----------------------------------------------------------------------------
(* Properties.                                                             *)

ManagerType(heap) ==
    [set : DOMAIN heap, snapshot : Seq(Nat), selector : BOOLEAN]

SessionType(heap) ==
    [st : {"new", "acquired", "resolving", "connecting", "connected", "failed",
           "stopped", "LIMIT", "NO_FARM", "ERROR_FARM", "NO_BACKEND"},
     vhost : Vhosts, mgr : ManagerType(heap) \cup {Null}, retry : Nat,
     tried : Seq(Backend), left : 0..(MaxEndpoints - 1), using : Backend \cup {Null}]

\* The stores, the sets and the sessions keep their types, and every farm and
\* every connection manager refers to a set that exists.
TypeOK ==
    /\ store \in [Backends -> Backend \cup {Null}]
    /\ farms \in [Farms -> Farm \cup {Null}]
    /\ \A f \in Farms : farms[f] # Null => farms[f].set \in DOMAIN sets
    /\ sets \in Seq(BackendSet)
    /\ map \in [Vhosts -> Resource \cup {Null}]
    /\ default \in Farms \cup {Null} /\ dc \in Datacenters
    /\ sess \in [Sessions -> SessionType(sets)]
    /\ cmds \in Nat /\ ub \in BOOLEAN

Manages(x) == sess[x].mgr # Null
PartitionsOf(x) == sets[sess[x].mgr.set].parts
Tried(x) == Range(sess[x].tried)
LastTried(x) == sess[x].tried[Len(sess[x].tried)]

\* The contract of a selector: a backend is never selected by two retry counts
\* of a session, however often other sessions move the markers of the set and
\* whatever happens to the farm in the meantime.
NeverTwice == \A x \in Sessions : IsInjective(sess[x].tried)

\* All backends of a partition are attempted before any of a later one.
PartitionsInOrder ==
    \A x \in Sessions : Manages(x) =>
        \A i, j \in DOMAIN PartitionsOf(x) :
            i < j /\ Range(PartitionsOf(x)[j]) \cap Tried(x) # {}
            => Range(PartitionsOf(x)[i]) \subseteq Tried(x)

\* The handlers that ask for the current backend again get the one that was
\* attempted: TLS and proxy protocol are those of the broker connected to.
SameBackend ==
    \A x \in Sessions :
        /\ sess[x].st \in {"resolving", "connecting"} =>
              Current(x) = LastTried(x)
        /\ sess[x].st = "connected" => sess[x].using = LastTried(x)

\* A partitioned farm prefers the backends of the datacenter that the proxy is
\* in now.
LocalFirst ==
    \A f \in Farms : ~ub /\ farms[f] # Null /\ farms[f].policies > 0 =>
        LET parts == sets[farms[f].set].parts
        IN  \A i, j \in DOMAIN parts : i <= j =>
                \A b \in Range(parts[i]), c \in Range(parts[j]) :
                    c.dc = dc => b.dc = dc

-----------------------------------------------------------------------------
(* What the documentation says of the selector and the code does not do.   *)

\* docs/sessions.md: while a backend of its set was not attempted, a session is
\* given one, so that it gives up only when every backend of its set was
\* attempted.  BACKEND DELETE followed by DATACENTER SET puts a null pointer
\* into the set of a farm without policies, and a session that is given the null
\* takes it for the end of the set.
AllTriedBeforeGivingUp ==
    \A x \in Sessions : sess[x].st = "failed" =>
        \A i \in DOMAIN PartitionsOf(x) :
            Range(PartitionsOf(x)[i]) \ {Null} \subseteq Tried(x)

=============================================================================
