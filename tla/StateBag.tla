------------------------------ MODULE StateBag ------------------------------
(***************************************************************************)
(* Replication of one state bag between the server and its clients         *)
(* (StateBagImpl and the parts of StateBagComponentImpl that act on every  *)
(* bag).  Keys of a bag do not touch each other in this code, so one key   *)
(* is modelled: data is its value, Absent when m_data does not have it.    *)
(*                                                                         *)
(* Two threads of the server act on the bag.  "main" runs scripts, the     *)
(* tasks of QueueTask and (Un)RegisterTarget; "sync" handles the packets   *)
(* of clients and the routing of entities.  A lock that is released and    *)
(* taken again is a point where the other thread may step in: SetKey       *)
(* writes under m_dataMutex and sends later under another lock (pending),  *)
(* RegisterTarget inserts and then sends (joining), the sync tick decides  *)
(* to route a client and then does it (entering).                          *)
(*                                                                         *)
(* Packets of one direction of one client are reliable and ordered.        *)
(***************************************************************************)
EXTENDS Naturals, Sequences

CONSTANTS
    Client,             \* slots of the server's clients
    Value,              \* values a key may have
    Absent,             \* MsgPackNil on the wire, no entry in m_data
    None,               \* no thread, update or value
    Nobody,             \* the peer -1: as owner, no client may write
    Anyone,             \* no owning peer: every client may write
    Handlers,           \* a change handler is connected on the server
    Scripts,            \* scripts of the server write to the bag
    Queueing,           \* the client's bag starts with replication disabled
    MaxWrites,          \* bound: writes of scripts, server and clients
    MaxEvents           \* bound: changes of routing, owner and connections

Data == Value \cup {Absent}
Thread == {"main", "sync"}

\* An update in flight.  version numbers the changes of data and is history: the
\* code sends only the value.
Update == [value : Data, version : Nat]

\* What QueueTask captures.
Task == [source : Client, value : Data]

ASSUME DistinctAssumption ==
    /\ Absent \notin Value
    /\ None \notin Client \cup Data \cup Update
    /\ {Nobody, Anyone} \cap Client = {}
    /\ Nobody # Anyone
ASSUME FlagAssumption ==
    {Handlers, Scripts, Queueing} \subseteq BOOLEAN
ASSUME BoundAssumption == MaxWrites \in Nat /\ MaxEvents \in Nat

VARIABLES
    useParentTargets,       \* m_useParentTargets: "global" goes to all targets
    data, version,          \* the server's m_data entry, numbered
    owner,                  \* m_owningPeer
    targets,                \* m_targets of the component
    routing,                \* m_routingTargets
    online,                 \* clients the registry knows
    pending,                \* what SetKeyInternal of a thread has yet to send
    joining, entering,      \* the client RegisterTarget / the tick is busy with
    tasks,                  \* QueueTask: writes of clients waiting for main
    down, up,               \* packets to and from each client
    copy,                   \* each client's m_data entry
    seen,                   \* history: version of the last update applied
    immediate, queued,      \* the client's m_replicationEnabled, m_replicateData
    wanted,                 \* history: the last value set while queueing
    excused,                \* history: the copy may differ, see Excuses
    writes, events

server == <<data, version>>
membership == <<owner, targets, routing, online>>
threads == <<pending, joining, entering, tasks>>
clients == <<copy, seen, immediate, queued, wanted>>
vars == <<useParentTargets, server, membership, threads, down, up, clients, excused,
          writes, events>>

TypeOK ==
    /\ useParentTargets \in BOOLEAN
    /\ data \in Data /\ version \in Nat
    /\ owner \in Client \cup {Nobody, Anyone}
    /\ targets \subseteq Client /\ online \subseteq Client
    /\ routing \subseteq Client \cup {Nobody}
    /\ pending \in [Thread -> Update \cup {None}]
    /\ joining \in Client \cup {None} /\ entering \in Client \cup {None}
    /\ tasks \in Seq(Task)
    /\ down \in [Client -> Seq(Update)] /\ up \in [Client -> Seq(Data)]
    /\ copy \in [Client -> Data] /\ seen \in [Client -> Nat]
    /\ immediate \in [Client -> BOOLEAN]
    /\ queued \in [Client -> Data \cup {None}] /\ wanted \in [Client -> Data \cup {None}]
    /\ excused \in [Client -> BOOLEAN]
    /\ writes \in Nat /\ events \in Nat

-----------------------------------------------------------------------------
(* Helpers *)

\* Only the bag of an entity starts with replication disabled.
Queues == Queueing /\ ~useParentTargets

Targets == IF useParentTargets THEN targets ELSE routing

MainIdle == pending["main"] = None /\ joining = None
SyncIdle == pending["sync"] = None /\ entering = None

Write == writes < MaxWrites /\ writes' = writes + 1
Event == events < MaxEvents /\ events' = events + 1

\* SendPacket finds the client by its slot and drops the packet otherwise.
Deliver(S, u) ==
    down' = [c \in Client |-> IF c \in S \cap online THEN Append(down[c], u) ELSE down[c]]

\* Excuses: why a routed client's copy may differ from data for good.
\*  - the server refused or dropped a write the client had made locally
\*  - the client or the server wrote with replicated = false
\*  - the key was deleted while the client was not routed
\*  - the client took over a slot that was still routed
\*  - the client set the key again while the first change was queued
\* An update sent to the client settles all of them.
Settled(S) == [c \in Client |-> excused[c] /\ c \notin S]
Excuse(S) == [c \in Client |-> excused[c] \/ c \in S]

\* SendAll under the lock on m_data, for each client of S.
SendAll(S) ==
    IF data = Absent THEN UNCHANGED <<down, excused>>
    ELSE /\ Deliver(S, [value |-> data, version |-> version])
         /\ excused' = Settled(S)

-----------------------------------------------------------------------------
(* Writes on the server *)

\* The part of SetKeyInternal under m_dataMutex.  The same value again changes
\* nothing and is not replicated either.
SetKeyInternal(t, v, replicated) ==
    \/ /\ v = data
       /\ UNCHANGED <<server, pending, excused>>
    \/ /\ v # data
       /\ data' = v /\ version' = version + 1
       /\ IF replicated
          THEN /\ pending' = [pending EXCEPT ![t] =
                     [value |-> v, version |-> version + 1]]
               /\ UNCHANGED excused
          ELSE excused' = Excuse(Client) /\ UNCHANGED pending

\* The rest of SetKeyInternal: SendKeyValueToAllTargets under the lock on the
\* targets.
SendToTargets(t) ==
    /\ pending[t] # None
    /\ Deliver(Targets, pending[t])
    /\ pending' = [pending EXCEPT ![t] = None]
    /\ excused' = [c \in Client |->
                     IF c \in Targets THEN excused[c] /\ pending[t].version # version
                     ELSE excused[c] \/ pending[t].value = Absent]
    /\ UNCHANGED <<useParentTargets, server, membership, joining, entering, tasks, up,
                   clients, writes, events>>

\* SET_STATE_BAG_VALUE.  A task queued from the main thread runs at once, so a
\* script's write does not pass through tasks.
ScriptSet(v, replicated) ==
    /\ Scripts /\ MainIdle /\ Write
    /\ SetKeyInternal("main", v, replicated)
    /\ UNCHANGED <<useParentTargets, membership, joining, entering, tasks, down, up,
                   clients, events>>

\* Mutant: the write is not marshaled to the main thread.
WriteOnSyncThread(c) ==
    /\ SyncIdle /\ up[c] # <<>>
    /\ owner \in {Anyone, c}
    /\ up' = [up EXCEPT ![c] = Tail(@)]
    /\ SetKeyInternal("sync", Head(up[c]), TRUE)
    /\ UNCHANGED <<useParentTargets, membership, joining, entering, tasks, down,
                   clients, writes, events>>

\* A client's packet passes the owner check and becomes a write of the sync
\* thread, or a task of the main thread when somebody listens for changes.
HandlePacket(c) ==
    /\ SyncIdle /\ up[c] # <<>>
    /\ owner \in {Anyone, c}
    /\ up' = [up EXCEPT ![c] = Tail(@)]
    /\ IF Handlers
       THEN /\ tasks' = Append(tasks, [source |-> c, value |-> Head(up[c])])
            /\ UNCHANGED <<server, pending, excused>>
       ELSE SetKeyInternal("sync", Head(up[c]), TRUE) /\ UNCHANGED tasks
    /\ UNCHANGED <<useParentTargets, membership, joining, entering, down, clients,
                   writes, events>>

\* A client's packet fails the owner check or exceeds a rate limit.
RefusePacket(c) ==
    /\ SyncIdle /\ up[c] # <<>>
    /\ up' = [up EXCEPT ![c] = Tail(@)]
    /\ excused' = Excuse({c})
    /\ UNCHANGED <<useParentTargets, server, membership, threads, down, clients, writes,
                   events>>

\* The task HandlePacket queued.  The owner is not looked at again.
RunTask ==
    /\ MainIdle /\ tasks # <<>>
    /\ tasks' = Tail(tasks)
    /\ SetKeyInternal("main", Head(tasks).value, TRUE)
    /\ UNCHANGED <<useParentTargets, membership, joining, entering, down, up, clients,
                   writes, events>>

-----------------------------------------------------------------------------
(* Routing, ownership and connections *)

\* Mutant: the new targets are not sent what the bag has.
RouteWithoutSending(S) ==
    /\ ~useParentTargets /\ MainIdle /\ Nobody \notin routing /\ Event
    /\ routing' = S \cup {Nobody}
    /\ UNCHANGED <<useParentTargets, server, owner, targets, online, threads, down, up,
                   clients, excused, writes>>

\* ENSURE_ENTITY_STATE_BAG on a bag that may have been registered before.  The
\* set it routes to has the peer -1, so it happens once.
SetRoutingTargets(S) ==
    /\ ~useParentTargets /\ MainIdle /\ Nobody \notin routing /\ Event
    /\ routing' = S \cup {Nobody}
    /\ SendAll(S \ routing)
    /\ UNCHANGED <<useParentTargets, server, owner, targets, online, threads, up,
                   clients, writes>>

\* The sync tick finds that a client it is serving must be routed ...
EnterScope(c) ==
    /\ ~useParentTargets /\ SyncIdle /\ c \in online /\ c \notin routing /\ Event
    /\ entering' = c
    /\ UNCHANGED <<useParentTargets, server, membership, pending, joining, tasks, down,
                   up, clients, excused, writes>>

\* ... and routes it, whatever has become of the client.
AddRoutingTarget ==
    /\ entering # None
    /\ routing' = routing \cup {entering}
    /\ SendAll({entering} \ routing)
    /\ entering' = None
    /\ UNCHANGED <<useParentTargets, server, owner, targets, online, pending, joining,
                   tasks, up, clients, writes, events>>

RemoveRoutingTarget(c) ==
    /\ SyncIdle /\ c \in routing /\ Event
    /\ routing' = routing \ {c}
    /\ UNCHANGED <<useParentTargets, server, owner, targets, online, threads, down, up,
                   clients, excused, writes>>

\* By the creator of the bag, or because the entity migrates.
SetOwningPeer(p) ==
    /\ ~useParentTargets /\ (MainIdle \/ SyncIdle) /\ p # owner /\ Event
    /\ owner' = p
    /\ UNCHANGED <<useParentTargets, server, targets, routing, online, threads, down,
                   up, clients, excused, writes>>

\* A client gets a slot.  It starts with an empty bag, and nothing tells it what
\* a slot that is routed already has been sent.
Connect(c) ==
    /\ c \notin online /\ Event
    /\ online' = online \cup {c}
    /\ excused' = [excused EXCEPT ![c] = c \in Targets]
    /\ UNCHANGED <<useParentTargets, server, owner, targets, routing, threads, down, up,
                   clients, writes>>

RegisterTarget(c) ==
    /\ MainIdle /\ c \in online /\ c \notin targets
    /\ targets' = targets \cup {c}
    /\ joining' = c
    /\ UNCHANGED <<useParentTargets, server, owner, routing, online, pending, entering,
                   tasks, down, up, clients, excused, writes, events>>

\* Mutant: a bag nobody is routed to is not sent either.
SendIfRouted ==
    /\ joining # None
    /\ IF joining \in routing THEN SendAll({joining}) ELSE UNCHANGED <<down, excused>>
    /\ joining' = None
    /\ UNCHANGED <<useParentTargets, server, membership, pending, entering, tasks, up,
                   clients, writes, events>>

\* A bag with routing targets is not sent to a target that is not among them.
SendAllInitial ==
    /\ joining # None
    /\ IF routing = {} \/ joining \in routing THEN SendAll({joining})
       ELSE UNCHANGED <<down, excused>>
    /\ joining' = None
    /\ UNCHANGED <<useParentTargets, server, membership, pending, entering, tasks, up,
                   clients, writes, events>>

\* The client drops: UnregisterTarget if it had been registered, then the registry
\* forgets it.  The packets still on their way to it are lost, those it sent may
\* have reached the sync thread's queue, and the slot may be given to another client.
Drop(c) ==
    /\ MainIdle /\ c \in online /\ Event
    /\ online' = online \ {c}
    /\ IF c \in targets THEN targets' = targets \ {c} /\ routing' = routing \ {c}
       ELSE UNCHANGED <<targets, routing>>
    /\ down' = [down EXCEPT ![c] = <<>>]
    /\ \E n \in 0 .. Len(up[c]) : up' = [up EXCEPT ![c] = SubSeq(@, 1, n)]
    /\ copy' = [copy EXCEPT ![c] = Absent] /\ seen' = [seen EXCEPT ![c] = 0]
    /\ immediate' = [immediate EXCEPT ![c] = ~Queues]
    /\ queued' = [queued EXCEPT ![c] = None] /\ wanted' = [wanted EXCEPT ![c] = None]
    /\ UNCHANGED <<useParentTargets, server, owner, threads, excused, writes>>

-----------------------------------------------------------------------------
(* Clients.  One thread; a client's own targets are {server}. *)

\* SetKey of a client's script.  While replication is disabled the first value
\* of a key stays in m_replicateData (emplace).
ClientSet(c, v, replicated) ==
    /\ c \in online /\ v # copy[c] /\ Write
    /\ copy' = [copy EXCEPT ![c] = v]
    /\ up' = IF replicated /\ immediate[c] THEN [up EXCEPT ![c] = Append(@, v)] ELSE up
    /\ queued' = IF replicated /\ ~immediate[c] /\ queued[c] = None
                 THEN [queued EXCEPT ![c] = v] ELSE queued
    /\ wanted' = IF replicated /\ ~immediate[c] THEN [wanted EXCEPT ![c] = v] ELSE wanted
    /\ excused' = IF replicated THEN excused ELSE Excuse({c})
    /\ UNCHANGED <<useParentTargets, server, membership, threads, down, seen, immediate,
                   events>>

\* HandlePacket of a client: it has no owner to check and does not replicate.
ClientReceive(c) ==
    /\ down[c] # <<>>
    /\ down' = [down EXCEPT ![c] = Tail(@)]
    /\ copy' = [copy EXCEPT ![c] = Head(down[c]).value]
    /\ seen' = [seen EXCEPT ![c] = Head(down[c]).version]
    /\ UNCHANGED <<useParentTargets, server, membership, threads, up, immediate, queued,
                   wanted, excused, writes, events>>

\* ProcessCreateAck: EnableImmediateReplication(true), then SendQueuedUpdates.
ProcessCreateAck(c) ==
    /\ c \in online /\ ~immediate[c]
    /\ immediate' = [immediate EXCEPT ![c] = TRUE]
    /\ up' = IF queued[c] = None THEN up ELSE [up EXCEPT ![c] = Append(@, queued[c])]
    /\ queued' = [queued EXCEPT ![c] = None] /\ wanted' = [wanted EXCEPT ![c] = None]
    /\ excused' = IF queued[c] = wanted[c] THEN excused ELSE Excuse({c})
    /\ UNCHANGED <<useParentTargets, server, membership, threads, down, copy, seen,
                   writes, events>>

\* The entity leaves the client's scope and takes its bag along.
Forget(c) ==
    /\ ~useParentTargets /\ c \in online /\ c \notin routing
    /\ copy[c] # Absent \/ immediate[c] = Queues
    /\ copy' = [copy EXCEPT ![c] = Absent]
    /\ immediate' = [immediate EXCEPT ![c] = ~Queues]
    /\ queued' = [queued EXCEPT ![c] = None] /\ wanted' = [wanted EXCEPT ![c] = None]
    /\ UNCHANGED <<useParentTargets, server, membership, threads, down, up, seen,
                   excused, writes, events>>

-----------------------------------------------------------------------------
\* A bag as RegisterStateBag makes it; "global" gets its owner before there is
\* anybody to connect.
Init ==
    /\ useParentTargets \in BOOLEAN
    /\ data = Absent /\ version = 0
    /\ owner = IF useParentTargets THEN Nobody ELSE Anyone
    /\ targets = {} /\ routing = {} /\ online = {}
    /\ pending = [t \in Thread |-> None] /\ joining = None /\ entering = None
    /\ tasks = <<>>
    /\ down = [c \in Client |-> <<>>] /\ up = [c \in Client |-> <<>>]
    /\ copy = [c \in Client |-> Absent] /\ seen = [c \in Client |-> 0]
    /\ immediate = [c \in Client |-> ~Queues]
    /\ queued = [c \in Client |-> None] /\ wanted = [c \in Client |-> None]
    /\ excused = [c \in Client |-> FALSE]
    /\ writes = 0 /\ events = 0

Next ==
    \/ \E v \in Data, replicated \in BOOLEAN :
          \/ ScriptSet(v, replicated)
          \/ \E c \in Client : ClientSet(c, v, replicated)
    \/ \E t \in Thread : SendToTargets(t)
    \/ RunTask \/ AddRoutingTarget \/ SendAllInitial
    \/ \E S \in SUBSET online : SetRoutingTargets(S)
    \/ \E p \in Client \cup {Nobody, Anyone} : SetOwningPeer(p)
    \/ \E c \in Client :
          \/ HandlePacket(c) \/ RefusePacket(c)
          \/ EnterScope(c) \/ RemoveRoutingTarget(c)
          \/ Connect(c) \/ RegisterTarget(c) \/ Drop(c)
          \/ ClientReceive(c) \/ ProcessCreateAck(c) \/ Forget(c)

Spec == Init /\ [][Next]_vars

\* The threads run what is theirs to finish, and reliable packets arrive.  Nobody
\* has to write, come into scope, connect or drop.
Fairness ==
    /\ WF_vars(SendToTargets("main")) /\ WF_vars(SendToTargets("sync"))
    /\ WF_vars(RunTask) /\ WF_vars(AddRoutingTarget) /\ WF_vars(SendAllInitial)
    /\ \A c \in Client : /\ WF_vars(HandlePacket(c) \/ RefusePacket(c))
                          /\ WF_vars(ClientReceive(c)) /\ WF_vars(ProcessCreateAck(c))

FairSpec == Spec /\ Fairness

-----------------------------------------------------------------------------
(* Properties *)

\* Nothing that concerns client c is under way.
Quiet(c) ==
    /\ \A t \in Thread : pending[t] = None
    /\ joining # c
    /\ down[c] = <<>> /\ up[c] = <<>> /\ queued[c] = None
    /\ \A i \in DOMAIN tasks : tasks[i].source # c

\* A client that is to have the bag has the server's value once nothing is under
\* way, whatever was written by whom and however it came to be routed, save for the
\* differences Excuses lists.
Agreement ==
    \A c \in Targets \cap online : Quiet(c) => excused[c] \/ copy[c] = data

\* While a client stays connected, the changes of the server's value reach it in
\* the order they were made: an update never brings an older value back.
NeverBackwards ==
    [][\A c \in online \cap online' : seen[c] <= seen'[c]]_vars

\* When writes and scopes come to rest, so do the copies: they end up with the
\* server's value and keep it.
Converges ==
    <>[](\A c \in Targets \cap online : excused[c] \/ copy[c] = data)

\* SendQueuedUpdates "will send all queued replicating state bag updates": what is
\* queued for a key is the last of the changes made to it while queueing.
QueueHoldsLatest == \A c \in Client : queued[c] = wanted[c]
=============================================================================
