# TLA+ models of Cfx.re (FiveM / RedM / FXServer)

This directory holds TLA+ specifications of parts of this repository, the TLC
configurations that check them on small instances, and TLAPS proofs of the
properties that matter most. Paths below are relative to the repository;
`resources-core` stands for `src/code/components/citizen-resources-core` and
`server-impl` for `src/code/components/citizen-server-impl`.

    tlc -config reassembly_safety.cfg MCEventReassembly.tla
    tlapm EventReassemblySafety_proofs.tla

## 1. The system

A server (`FXServer`) runs *resources*: folders of scripts in Lua, JavaScript or
C#. A game client connects, downloads the client half of the resources and runs
them inside the game. Server and clients exchange events, replicate key-value
stores (*state bags*) and, with OneSync, the entities of the game world.

Three kinds of thread matter. The **main thread** (`svMain`, the game thread on
a client) runs scripts, resource ticks and most packet handlers; the **network
thread** (`svNetwork`) reads packets and runs `GameServer::Run`/`OnNetworkTick`;
the **sync thread** (`svSync`) runs OneSync and the server's state-bag packets.
They hand work to one another with `gscomms_execute_callback_on_*`.

### Inventory

| component | state it keeps | operations | talks to | what is hard | what makes it correct |
|---|---|---|---|---|---|
| **Latent events** `resources-core/src/EventReassemblyComponent.cpp` | targets and their pending counters, send list with bits per target, receive list with bits per source | register and unregister a target, trigger, tick, packet, acknowledgement | transport (unreliable channel), event queue, client registry (drop, net id) | loss, repetition, reordering; two threads; time-outs; a lock released in the middle; bytes and 16-bit counts | an event arrives whole, once while its target remembers it, and in the end; slots are neither lost nor invented |
| **State bags** `resources-core/src/StateBagComponent.cpp` | bags by name (weak), erasure list, data, routing targets, queued updates | register, destroy, tick, set key, set/add/remove targets, packet, reset | scripts, OneSync (entity bags, routing), transport | main and sync thread on the same bag; erasure deferred to a tick; replication put off | a held bag can be found; peers agree with the owner in the end |
| **Resource lifecycle** `Resource.cpp`, `ResourceManager.cpp`, `ResourceDependencyLoader.cpp` | state per resource, dependants, pending dependencies, provides | load, start, stop, remove, reset | metadata, script runtimes through `OnStart`/`OnStop` | nested starts and stops, cycles, failures half-way, copies of lists that change | a started resource has its dependencies started |
| **Client registry** `server-impl`: `ClientRegistry`, `Client`, `GameServer` | clients by guid, net id, slot, peer, token; connected count | make, connect, drop, remove, time out | HTTP connect, network thread, scripts | drops queued for the main thread while the network thread goes on; weak entries; id reuse | no two live clients share an id or a slot; a drop is signalled once |
| **Connection deferrals** `ClientDeferral.cpp`, `InitConnectMethod.cpp` | one state per resource, held-back updates | defer, update, done, present card | scripts, HTTP response | callbacks after completion, disconnects | one answer per connection |
| **Resource events** `ResourceEventComponent.cpp` | event queue, cancel stack | trigger, queue, cancel | scripts, latent events | nested triggers, queueing from other threads | order and cancellation per event |
| **OneSync** `server-impl/src/state` | entities, object ids, per-client sync data, frames | create, update, acknowledge, remove, migrate | clients, state bags | several threads, deltas against acknowledged frames | object ids in use are not given out again; every entity has one owner |
| **Rate limiters** `TokenBucket.h`, `KeyedRateLimiter.h` | buckets | consume, clean up | packet handlers | time, concurrency | the rate is kept |

The others - script runtimes, client network library, HTTP and TCP servers, file
system, caches, voice, game hooks, user interface, launchers, tools, vendored
code - are listed with the reason they are left out in `PROJECT.json`.

## 2. Plan

1. **Latent events**: `SendBurst`, `SendLoop`, `EventReassembly` against
   `EventChannel`. *Done* (section 3).
2. **State bags**: `StateBag`, the replication of one bag (main and sync thread,
   owner and routing targets, queued updates), and `StateBagRegistry`, bags by name,
   destroyed, listed for erasure and made anew. *Done* (section 4).
3. **Connecting**: `ClientRegistry`, clients from the HTTP request to their removal,
   and `ClientDeferral`, the deferral that holds such a request back. *Done*
   (section 5).
4. **Resource lifecycle**: `ResourceLifecycle`, start and stop as an explicit stack of
   nested calls. *Done* (section 6). Left: adding, removing and resetting resources.
5. **Resource events**, then **OneSync** object ids and clones.
6. More proofs. *Done* for every invariant, action property and refinement that the runs
   check. What is left to TLC is liveness, which the prover cannot show.

The project keeps to a dozen runs of a few minutes each and asks of each component
the questions that a test would hardly reach.

## 3. Latent events

`TriggerLatentClientEvent` and its server counterpart send events that may be
large. The component cuts an event into fragments, sends them at a rate over an
unreliable channel, repeats each until it is acknowledged, and puts them together
on the other side.

| module | models |
|---|---|
| `EventChannel` | what the component promises: an event handed to it is forgotten only when it was received or one side let the other go, and received once, or again only after the target's memory of it lapsed |
| `SendBurst` | the outcome of one pass of `NetworkTickSendList` for one target: which fragments go out and where `lastBit` is left |
| `SendLoop` | that pass step by step, with its clock, its rate and its latency |
| `EventReassembly` | the component on a server and its clients, with the network between |
| `MCEventReassembly` | instances for TLC |

**State.** `targets` and `pending` are `m_targets` and `Target::maxPendingEvents`;
`sendTargets` and `sending` are `SendEvent::targets` and `SendEvent::targetData`,
flattened over events: a *transfer* is an event on its way to one target, named
by source, event id and target; `receiving` is `m_receiveList`; `net` is the set
of packets in flight. `thread` says where the main thread is: idle, between the
two locks of `TriggerEventV2`, or between the unlock at the end of
`HandlePacketV2` and the event queue. `accepted`, `delivered`, `completions`, `early` and
`closed` are history: what was sent, what was handed over, how often an event was put
together, how often its record went too early, and which ids were dropped.

**Actions.** `RegisterTarget`, `UnregisterTarget`; `TriggerEventV2` (reads the
targets under the shared lock) and `InsertSendEvent` (inserts under a lock taken
anew); `NetworkTick` (a pass over the whole send list, then the clean-up of
completed records); `HandlePacketV2` as `HandleAck`, `RefusePacket` (every early
return), `AckAgain` and `AcceptFragment`; `HandleReceivedPacket` (with the
server's rate limiter as a choice). `LosePacket` and the copies that stay in
flight (`keep`) are the transport. The content of an event is left out: a
fragment is known by its transfer and its index.

**Threads.** Triggering and packets run on the main thread
(`ReassembledEventPacketHandler.cpp:88` posts packets there); ticks run on the
network thread; targets are registered by the network thread
(`GameServer::ProcessPacket`) and unregistered by either (`OnDrop`). On a client
all run on one thread; the model allows it more interleavings than it has.

**Net ids** are handed out in sequence and come round again after 65534 clients;
a client that reconnects gets a new one. So the model registers an id once.

**Time.** The resend timers are not in `EventReassembly`: a tick serves any
subset of the targets that may be served, with any outcome of `SendBurst`.
`SendLoop` shows that the loop, with its timers, yields only those outcomes.

The clean-up removes a completed record two minutes after its last acknowledgement
(`EventReassemblyComponent.cpp:658-679`) and does not ask whether the sender is done.
At common rates the sender repeats a fragment about four times a second, and all copies
have come by then. At 17 bytes per second or less its latency (line 496) is longer than
the two minutes: if an acknowledgement is lost, the next copy finds no record and opens
the event again. So the model lets a completed record go at any time (`Expirable`). Of
such a removal `Quiet` says whether it was harmless - no fragment is in flight, and the
sender has all its acknowledgements or is gone - and if not, it is counted in `early`. What follows:

- the event may be handed over once more for each such removal, and not more often
  (`DeliveredOnce`; `RecordsTell` is the exact count);
- an event that is opened again may never be completed, as its sender does not repeat the
  fragments that were acknowledged. Its record is not a completed one, so no clean-up
  removes it, and on a server it keeps a slot of the client. `Reopenable` exempts these
  sources from the two liveness properties.

The comment at line 1069, that the clean-up is late enough "to prevent any lingering packets
from recreating the ReceiveEvent", thus holds of a sender that is not so slow.

### Runs

| run | instance | shows |
|---|---|---|
| `reassembly_safety` | the server sends an event of two fragments to one or both of two clients, and may drop either; one record may go too early | events are whole (`WholeEvents`), delivered once (`DeliveredOnce`), acknowledged only if received (`AckedMeansReceived`), forgotten only if completed (`ForgottenMeansCompleted`); the component implements the channel (`ImplementsChannel`) |
| `reassembly_live` | a client with one pending slot sends an event of two fragments and one of a single fragment, and may drop the server; `FairSpec` | slots add up (`PendingAccounting`); both events arrive, also the one that was refused while the other had the slot (`EventuallyReceived`), and are forgotten (`EventuallyForgotten`) |
| `send_loop` | up to three fragments, several rates and tick lengths | the loop yields the outcomes of `SendBurst`, keeps its rate, sends a fragment once per burst and passes none over |
| `reassembly_unlimited` | violation | see findings |

**Bounds.** Three fragments, in `send_loop`, are a first, a middle and a last one; two, in
the others, are enough for an event that is half there, and the proofs have any number.
`PacketCounts` gives the fragment counts of each event. Two targets are enough to differ,
and two events to compete for the one slot. `Leaving` names the nodes that unregister a
target: in each run the side whose drop the properties look at from the other end.
`MaxEarly` bounds the events that lose a record too early, and how often each does: one is an event
that is delivered twice. It is 0 in `reassembly_live`, whose liveness properties exempt
such events anyway. `Unlimited` = 3 stands for
0xFF and `TotalPacketsMod` = 4 for 2^16: what matters is that a counter can wrap. In `SendLoop`,
`Sizes`, `Latencies`, `Steps`, `Delay` and `AgeCap` bound fragments, latencies,
clock steps, tick lengths and the counter that ages a waiting fragment.

**Fairness** (`FairSpec`): the network thread keeps ticking and serves every
target whose timer runs out again and again; the main thread finishes what it
began; a client that connects gets registered; a packet that is sent again and
again arrives now and then (strong fairness on arrival of each fragment and each
acknowledgement). Nothing is assumed of triggering, dropping or losing.

### Proofs

`EventReassembly_proofs` proves `Spec => []TypeOK`. `EventReassemblySafety_proofs`
proves `Spec => []IInv` and from it `WholeEvents`, `DeliveredOnce`,
`AckedMeansReceived` and `ForgottenMeansCompleted`, for any number of clients,
events and fragments, any limit, any width and any `MaxEarly`. The safety properties are not
inductive; `IInv` adds

- `NoTrace`: an id not yet given out has left no trace;
- `TargetsKnown`: whoever is sent to is or was registered;
- `SizesAgree`: sender, packets and receiver agree on the fragment count;
- `WholeEventInHand`: what the main thread is about to hand over is a whole event;
- `RecordsTell`: how often an event was completed is one more than its early removals while
  its record is completed, and as many while it is not;
- `AckPacketsTrue`: an acknowledgement in flight is for a fragment that is there;
- `NothingLingers`: once an event has lost its record in due time, nothing of it
  comes any more. With `RecordsTell` this carries `DeliveredOnce` over the clean-up.

From that invariant follows `Spec => Channel!Spec` (`ReassemblyImplementsChannel`): each action is a step of the abstract channel or leaves its state alone.
The channel counts what is received, so a second delivery is a step of its own, which it
allows only after a lapse. The
assumptions are those named in `EventReassembly`: the server is not a client,
there are finitely many clients, fragment counts are at most the modulus, the
limits are natural numbers.

`PendingAccounting` is proved beside it, with `IInv` as the invariant. It counts the open events of a client, one lemma for each way
a slot is taken or given back; it assumes that the server has a limit (`Limited`), since
with 255 the counter does not add up - the first finding below.

`SendLoop_proofs` proves the three safety properties of `SendLoop` for any number of
fragments, any latencies, clock steps and delays. `LoopOutcomes` is the step from the loop
to the burst: `EventReassembly` takes a tick for an outcome of `SendBurst`, and the loop has
no other. `LoopInv` says what holds in the middle of a burst (`Under`): what was sent is
what lay between the bit it began at and the bit it is at, and the time for it was taken
off what there was. Only the first fragment is sent without a look at the time; that is why
`PacedByRate` allows one fragment whatever the age, and why the invariant keeps the two
cases apart. `LoopAssumption` asks that `AgeCap` exceeds every latency and clock step: it
bounds a counter of the model that the code does not bound.

Only model-checked, as the prover cannot show liveness: `EventuallyReceived`,
`EventuallyForgotten` and `EveryFragmentServed`.

### Findings

- **`reassembly_unlimited`.** `EventReassemblyComponent.cpp:968` says that a target
  registered with 255 "has infinite amount of events". No slot is taken from it, but
  line 1063 gives one back; the byte wraps to 0 and all its later events are refused.

The size check at line 340 lets through an event of exactly 65536 fragments (128 MB),
whose count is announced as 0 (line 573): the receiver discards each of its packets
and the sender repeats them for ever. The runs have smaller events; the proofs allow
for this one, as it breaks no safety property.

## 4. State bags

A state bag is a key-value store that scripts of the server and of clients write
and that the component copies between them: the bag of an entity to the clients
the entity is in scope of, the `global` bag to every client.

| module | models |
|---|---|
| `StateBag` | one key of one bag: writes, queueing, routing, delivery |
| `MCStateBag` | instances for TLC |
| `StateBagRegistry` | one name of the registry: registration, lookup, destruction, erasure |

### A bag

`StateBag` models one key of one bag, on the server and on all clients. Keys do
not touch each other in this code, so nothing is lost by taking one.

**State.** `data` is the entry of `m_data` on the server and `copy` the one on each
client; `Absent` is a key that is not there, which on the wire is nil. `owner` is
`m_owningPeer`, `targets` the component's `m_targets`, `routing` the bag's
`m_routingTargets` (with the peer -1, `Nobody`, that `ENSURE_ENTITY_STATE_BAG` puts
there), `useParentTargets` the flag of the constructor. `pending`, `joining` and
`entering` are what a thread still has to do after it let a lock go; `tasks` are the
closures of `QueueTask`; `down` and `up` are the packets under way, reliable and in
order for each client. `immediate` and `queued` are a client's
`m_replicationEnabled` and `m_replicateData`. `version`, `seen`, `wanted` and
`excused` are history.

**Threads.** The server's main thread runs scripts, tasks and the (un)registration of
targets; its sync thread handles the clients' packets and routes entities.
`SetKeyInternal` writes under `m_dataMutex` and sends under another lock:
`SetKeyInternal`, then `SendToTargets`. `RegisterTarget` inserts and, under the lock
taken anew, sends every bag: `RegisterTarget`, then `SendAllInitial`. The sync tick
finds that a client must be routed and then routes it: `EnterScope`, then
`AddRoutingTarget`. `AddRoutingTarget` and `SetRoutingTargets` hold the lock on the
targets while they send, so each is one step. A task queued from the main thread
runs at once (`GameServer.cpp:813`); packets to clients pass through one queue
(`GameServer.cpp:606`), which keeps the order in which they were sent.

**What the code does not promise.** Some copies differ from the server's value for
good, and the module names the cases (`excused`) instead of hiding them: a client's
own write that the server refused or dropped over a rate limit; a write with
`replicated = false`; a key deleted while the client was out of scope (`SetKey` tells
those in scope only, and `SendAll` sends what is there); a client that took over a
slot which was still routed because the sync tick routed it after the drop; a second
write while the first is queued (a finding, below). The next update sent to the
client ends the excuse.

| run | instance | shows |
|---|---|---|
| `bag_main` | one client, two values, global and entity bag, the latter with replication disabled on the client until the entity is acknowledged; scripts and the client write; a handler is connected, so all writes are made on the main thread; `FairSpec` | copies agree with the server once nothing is under way (`Agreement`), never go back (`NeverBackwards`), and come to agree (`Converges`) |
| `bag_first_only` | violation | see findings |

**Bounds.** `MaxWrites` bounds writes of scripts and clients, `MaxEvents` changes of
routing, owner and connections: three writes are a value, another and a deletion (or
the first again); five events let a client connect, come into scope, drop, be
replaced and come into scope. One client suffices where the server writes as well, as
the copies of two clients do not touch each other. The server whose sync thread makes
all writes (`Handlers = FALSE`, `Scripts = FALSE`), with two clients that compete,
was checked with `bag_main.cfg` so changed: 3.5 million states, no error.
Writes are bounded, so a run may end: deadlock is not checked.

**Two writing threads.** `bag_main` has one thread of the server that writes, and
`UpdatesInOrder` assumes it (`SingleWriter`). It is what a server has whose scripts
listen for changes of any bag (then `SetKey` marshals all writes to the main thread)
or leave the entity bags to clients. Without a handler and with scripts that write to
the same keys, the two threads may release `m_dataMutex` in one order and send in
the other: with `Handlers = FALSE`, `Scripts = TRUE` TLC finds `Agreement` violated,
and every routed client keeps the older value. No document promises otherwise, so this
is no finding; it is the first hazard listed for the component.

**Fairness** (`FairSpec`): each thread of the server finishes what it began and runs its
tasks and packets; packets under way arrive; an entity's creation is acknowledged.
Nobody has to write, connect, drop or come into scope.

### Bags by name

`StateBagRegistry` models the entry of one name. Names do not touch each other.

**State.** `entry` is the weak reference in `m_stateBags`, `listed` whether the name is
in `m_erasureList`, `preCreated` the owning references of `m_preCreatedStateBags`.
`current` is the entity that has the object id and `bag` the bag each entity holds. Of
each thread, `pc`, `purpose`, `entity`, `ref` and `wasBeingErased` are where it is and its
local variables, and `dying` the bags whose last reference it dropped and whose
destructor has not run yet. A bag exists while somebody refers to it (`Alive`); the
weak reference leads to it as long (`Found`).

**Actions.** A lock that is let go ends a step. `RegisterStateBag` is `TakeOffList` (under
`m_erasureMutex`), then `RegisterStateBag` (under `m_mapMutex`; taking the bag out of the
pre-created ones, under a third lock, changes nothing another thread of this model looks
at and is part of the step). The tick is `TakeList`, then `EraseEntries`.
`HandlePacket` looks the bag up; if there is none a client pre-creates it
(`PreCreateStateBag`) and a server registers it for the entity (`SetStateBag`) and looks
again (`Retry`); `Release` ends it. `EnsureStateBag` is `ENSURE_ENTITY_STATE_BAG` on the
server and the registration of a network object or of the global bag on a client.
`UnregisterStateBag` is the destructor. `Reset` is a client's end of session; the name is
that of the global bag (`global`), which `Reset` unsets, or of a bag of a network object. It
leaves the objects' bags alone (`CloneManager.cpp:466-487` does not touch
`m_trackedObjects`): the game has destroyed its objects, one by one, before it calls
`OnKillNetworkDone`. That is not in this repository and is an assumption of the model. Entities
get and lose the id by `CreateEntity` and `RemoveEntity`, and `DestroyEntity` is the drop
of the last reference, by whichever thread has it.

| run | instance | shows |
|---|---|---|
| `bag_registry` | server (two threads) and client (one), two entities, five bags; `FairSpec` | an entry whose bag is gone is on its way out (`ExpiredIsListed`) and goes (`ExpiredIsErased`); a client finds the bag an entity holds (`HeldIsFound`) |
| `bag_second_attempt` | violation | see findings |

**Bounds.** `Bag` is the number of bags that may exist, or be about to be destroyed, at
once. Five are enough for two entities with a bag, one for each thread and one to be
destroyed; no run waits for a bag. Two entities are one that goes and one that takes
over its id. Nothing else is bounded: bags are taken again when they are gone, so a
run goes on for ever.

**Fairness** (`FairSpec`): threads finish what they began, destructors run, the main
thread goes on ticking. Nobody has to register, send or destroy anything.

### Proofs

`StateBag_proofs` proves `Spec => []TypeOK` and, under `SingleWriter`,
`Spec => NeverBackwards`, for any clients and values and any bounds. `NeverBackwards` needs
the order of everything between the lock on `m_data` and a client's copy
(`WriteOrder`): only one thread has a pending update (`OneWriter`); that update is the
last change made (`PendingIsLast`); and what a client has applied, what is under way to
it and the pending update carry versions that do not decrease (`InOrder`). The
second part is where a second writer would break the proof.

`Spec => []Agreement` is proved under `SingleWriter` too. `Agreement` speaks of clients with
nothing under way, and is not inductive; `AgreeInv` says what is under way to the others.
While no change is pending (`Rests`), a client that is connected, not excused and due the
bag (`Due`: routed and sent to, or the bag has no value) has the server's value last on its
way to it, or has it already, or its own last change is still queued, in a packet or a task
(`Told`). A pending change is the value of `data` (`PendingIsData`), so sending it tells
every client it is sent to; that needs the one writer of `WriteOrder`. `Connections` adds
that a slot without a client has an empty bag, that nothing stays queued once replication
is immediate, and that the "global" bag is never routed.

`StateBagRegistry_proofs` proves `Spec => []TypeOK`, `Spec => []ExpiredIsListed` and
`Spec => []HeldIsFound`, for any entities and bags. `ExpiredIsListed` is inductive with
`RefsMatch` (a thread has a reference while it works on a bag, and only then).
`HeldIsFound` is not: it follows from `OneThread`, that on a client the bag in the map is
the only one that exists, and that none exists while anything is under way that will
erase the entry (`Erasing`). The assumption is that the threads differ and that `None`
is no bag and no entity.

Only model-checked: `Converges` and `ExpiredIsErased`, which are liveness.

### Findings

- **`bag_first_only`.** While replication is disabled, `SetKeyInternal` queues with
  `m_replicateData.emplace` (`StateBagComponent.cpp:318`), which keeps an entry that is
  there. A client that sets a key twice before its new entity is acknowledged sends the
  first value and keeps the second; `StateBagComponent.h:104` speaks of "all queued
  replicating state bag updates".

- **`bag_second_attempt`.** The tick moves the erasure list away under one lock and
  erases the entries by name under another (`StateBagComponent.cpp:658-671`). If the sync
  thread registers the name in between, the name is no longer listed, the new bag goes
  into the map, and the tick erases its entry. The same happens when an old bag's
  destructor lists the name after the new one is registered. The "second attempt", that
  "should go through now" (`StateBagPacketHandler.cpp:339`), finds no bag. It does not
  mend itself: the entity holds a bag, so `ENSURE_ENTITY_STATE_BAG` registers none, and
  the next packet registers another, whose predecessor lists the name once more.

A value set with `replicated = false` is stored with the others, and `SendAll` sends it to
every client routed later. `AddStateBagChangeHandler.md` only says that the flag tells
"whether the set is meant to be replicated", so the models take it as it is.

## 5. Connecting

A client asks over HTTP to be let in (`initConnect`), scripts may defer or refuse it,
it connects over UDP, and it is dropped in the end.

| module | models |
|---|---|
| `ClientRegistry` | all clients from the request to their removal |
| `MCClientRegistry` | instances for TLC |
| `ClientDeferral` | one request while resources hold it back |
| `MCClientDeferral` | an instance for TLC |

### Clients

**State.** `byGuid`, `byNetId`, `bySlot` and `known` are the maps of `ClientRegistry`
(`m_clients`, `m_clientsByNetId`, `m_clientsBySlotId`, `m_clientsByPeer`); `netId` and
`slot` are the client's; `curNetId` and `count` are `m_curNetId` and
`m_amountConnectedClients`; `dropping` is `m_dropping`. `dropQueue` and `joinQueue` are
the main thread's tasks, `sweep` the dead clients a frame has found. `targets` and
`bagTargets` are what the drop's listeners have to give up: the targets of the event
reassembly and of the state bags. `phase` is how far the HTTP request is, `work` what a
thread is at and the client it holds. `taken` and `occupied` are the ids and slots of
players who are not modelled. `signalled`, `removals`, `turned`, `announced` and
`withdrawn` are history; `turned` tells how far a client was when a `connect` packet had it
removed. Only `m_clients` owns a client: the other maps lead to one as
long as it lives (`Alive`, `Lock`).

**Actions.** An HTTP thread drops an older client of its player (`InitConnect`), makes
its own (`MakeClient`), and the request is refused, deferred or allowed. The net
thread handles `connect` in steps, as locks are taken and let go: `Connect`,
`AssignSlot`, `RefuseSlot` or `HandleConnectingClient`, `CountConnected`. A `connect` packet
from a peer without a client may carry the guid of any registered client. If its token is not that
client's, or the request was not let in, the net thread calls `RemoveClient` on
it, connected or not, dropping or not (`GameServer.cpp:673-691`). Any other packet may
lead to a drop, which is two steps: `DropClient` sets the flag, `QueueDrop` tells the main
thread. `RemoveClient` runs on any thread, holds no lock throughout and is five steps:
`SignalRemoved`, `ResetAliases`, `FreeSlot`, `EraseClient`, `UnassignSlot`; the slot id, which
the third reads twice, is read once. On the main thread are `RunDrop`,
`ScriptDrop`, `HandleConnectedClient`, and the frame that finds silent clients and
drops them one by one.

| run | instance | shows |
|---|---|---|
| `client_registry` | two requests, of one player or of two; two slots that may be given out and ids 1 and 2, beginning with the last, of which others may have one; a count modulo 8 | a connected client keeps its guid, slot and id (`ConnectedHasSlot`, `ConnectedHasId`); the count and the targets are exact when no thread is inside a handler (`CountExact`, `TargetsExact`, `BagTargetsExact`); a client that was announced is withdrawn (`Withdrawn`); whoever is dropped or silent is removed (`EventuallyRemoved`) |

**Bounds.** Two clients are one that takes what the other had. `Settings` says whose the
requests are and what others have: where the others have the second id, or the second
slot, the two clients can only follow one another on the one that is left, so that an id
is skipped, comes round and is used again. With no free id the search of
`HandleConnectingClient` goes on, in the code and in the model (`FreeIds`). `Erring` names
the clients that fall silent, are dropped for what they send, or whose guid comes with a
wrong token; one of two is enough for the harm to be another's.

**Fairness.** The main thread goes on, and a thread that has set the flag of `DropClientv`
goes on to queue the drop, its next statement. Every other thread may stop anywhere, for
removal does not depend on them. Requests and the net thread may stop for good, so
deadlock is not checked.

**What the code does not promise.** The properties name what they leave out.

- *Two requests of one player at once* (`Distinct` excludes them). Both HTTP threads find
  the guid free or in the same hands; one client stays in `m_clients`, and removing the
  other erases the entry by guid, whoever has it. `ClientRegistry.h:94` says that "some
  code expects OnDrop to follow any OnClientCreated"; the client that never got into
  `m_clients` has it only if its request is refused.
- *A client dropped between two steps of its connection* (`Late`). Its `OnDrop` comes
  before it has a net id; the target registered afterwards and its share of the count
  stay.
- *A client removed twice*, by two threads that both found it not being dropped, or by the
  net thread and a drop: the unsigned count goes down twice (`CountExact`), and the second
  removal resets the entry of the client's net id, which may be the next client's by then
  (`IdUndisturbed`).
- *A client removed for a `connect` packet* (`turned`). The removal is not a drop: the players are not
  told (`Withdrawn`). If it comes before the client is announced, or while
  it is being dropped, the state bags register the target -1, or keep one that nobody gives up
  (`BagTargetsExact`); `assert(client->GetSlotId() != -1)` in
  `ServerGameState.cpp:4595` takes the first for impossible. If it comes while the main thread has freed the
  client's slot and not yet taken it from the client, it resets the slot's entry again,
  which another client may have got in between (`SlotsUndisturbed`).

OneSync is on; host election, which is for servers without, is left out, as are end
points and tokens as keys.

### Deferrals

**State.** `pc` is where `done` and its main-thread closure are: the checks before, the
closure queued, inside `playerConnecting`, between the steps of `RanEvents`, over.
`shared` and `local` are the two references to the deferral, `cbRef` that to the
callback which writes the response. `entry` is what each resource has said,
`ranEvents`, `pending`, `completed` and `nextCard` are the members of `ClientDeferral`.
`response` is what was written: the last item, which kinds of progress, the answers.
`replaced` and `closed` are what happens outside: a newer request of the player removed
the client, the connection was closed.

**Actions.** The calls of the resources (`Defer`, `UpdateMessage`, `Touch`,
`PresentCard`, `Done`, `DoneWithReason`) come in a handler of the event or in any later
frame. The closure goes `Trigger`, `RanEvents`, `RanEventsCard`, and then `RefuseNow`,
`LeaveDeferred` or `AllowNow`. `CancelRequest` runs on an HTTP thread, so it comes
between any two of these; a race inside one operation on the shared pointers is left out.

| run | instance | shows |
|---|---|---|
| `client_deferral` | three resources | a player is allowed only if all who spoke up are done (`AllowedOnlyIfDone`); no request is left for which nobody has anything to say (`FinishedIsAnswered`); answers are what was decided and nothing follows them (`AnswerTellsVerdict`, `SilentOnceEnded`); progress given in a handler is shown later (`ProgressIsShown`); the deferral is let go (`GivenUp`) |
| `deferral_canceled` | one resource; violation | see the finding |

**Bounds.** None but the resources: two that disagree and one that stays out of it. A
request ends, so deadlock is not checked.

**Finding.** `deferral_canceled`: `InitConnectMethod.cpp:1109` says that the event
`playerConnecting` "can be canceled to reject the player *instantly*, assuming you haven't
yielded". Where a resource has deferred and is done within its handler, `RanEvents` (line
1175) resolves the deferral before the closure looks at the outcome of the event (line
1178): the player is allowed and answered, and the error comes after. `AnswerTellsVerdict`
exempts this case and no other: an error is read by a player who was allowed only if the event was canceled and the
resources were done before it had run (`DoneFirst`).

**What the model shows besides.**

- The closure tests its own reference (line 1192), not the shared one. A reason given in a
  handler is thus answered twice, and a connection that is closed during the event, with
  nobody deferring, leads to a use of the null `*deferrals`: the model's `"crashed"`.
  `NeededIsThere`, which is proved, says that this is the only way there.
- A client that was replaced is not told of a rejection; its connection stays open until
  it is closed by the other side.

### Proofs

`ClientRegistry_proofs` proves every invariant of the run, for any clients, players, slots
and ids; ids may come round any number of times. What is behind them comes in five parts.

- `Control` and `History`, for any two requests: an HTTP thread removes only its own client
  and only when its request is over; whoever is let in was allowed; every removal is
  counted; what somebody holds was made (`AliveBegun`); and why a client was removed can be told from its
  flags (`Reasons`): a drop, a request that is over, or a `connect` packet (`turned`).
- `Keeps`, for `ConnectedHasSlot`: a living client with a slot has the slot to itself, and
  stays in `m_clients` while it is connected or being connected. The step that could
  break it is `AssignSlot`, which may take a slot whose entry has expired: hence the part
  about living clients. That the net thread's own removals free only what is the client's
  (`NetFrees`) needs no hypothesis; that the main thread's do (`MainFrees`), and that
  clients keep their slots (`KeepsSlot`), holds under `SlotsUndisturbed`.
- `Found`, for `ConnectedHasId`: a client with a net id has its entry until a removal resets it.
  As `FreeIds` has no id whose entry leads to a living client, whoever had the id
  before was past `ResetAliases`, and only a second removal can reset the entry again.
- `IdsOwned`, `IdsServed`, `BagsServed` and `BagsOwned`: whose the targets are, at
  every moment, also inside a handler. A target has an owner who is not removed or has a
  drop to come. The `OnDrop` of a client that was not removed before takes a target whose id
  is still its own, by `Found`; that of a client that was is its second removal, which
  the properties name. `BagsOwned` holds while no
  `connect` packet disturbs an announcement (`Clean`). `Withdrawn` follows from `History` and `Keeps`.
- `CountFollows`: the count, where the client that the net thread has numbered and not
  counted, and those being removed, make the difference.

`RemovedWereDropped` says of every client, under no hypothesis, that whoever `RemoveClient` has
reached had its `OnDrop` or has a drop queued: no run checks it, it is what the comment
in `RemoveClient` asks for (`ClientRegistry.h`, line 94).

`Distinct` stands only before what needs that nobody else has the guid: `KeepsEntry`, `Found`,
`IdsServed` and `BagsServed`. `Late`, a client removed twice and the cases of `turned` are
excused in the proofs exactly where the properties excuse them.

`ClientDeferral_proofs` proves `TypeOK` and all six properties of the run, for any set of
resources, each by a theorem of its own. `IInv` is one invariant of six parts: who refers to the deferral at each step
(`References`), how far `RanEvents` is (`Stages`), what the entries may say by then
(`Entries`), that a decision is final (`Verdicts`), and what may have been written
(`Responses`, `Shown`).

Only model-checked: `EventuallyRemoved`, which is liveness.

## 6. Resource lifecycle

| module | models |
|---|---|
| `ResourceLifecycle` | `Start` and `Stop` of all resources of a server, handler by handler |
| `MCResourceLifecycle` | instances for TLC |

All of it is one thread, and yet steps of different calls interleave: a start starts its
dependencies and whoever waited for it, a stop stops its dependants, and every event
gives scripts the chance to start and stop anything, also what is being started.

**State.** `stack` holds the calls that have not returned: the operation, the resource,
the handler it is at and the resources that handler has left of the set it copied.
`returned` is what the last call returned. `state` is `m_state`; `dependants` and
`waiting` are the two maps of the dependency loader, `announced` and `before` the list clients
are told to start from: how often a resource is on it, and who stands before whom. `running` counts how often the scripts of a resource are loaded.
`crossed` and `relied` are history.

**Actions.** One per handler, in the order in which they are connected: `Starting`,
`TakeDependency`, `StartDependency`, `DependencyReturned`, `MissDependency` (a dependency
that does not exist, wherever in the list), `Build`, `Built`,
`LoadScripts`, `StartEvent`, `StartWaiting`, `Started`; `StopDependant`,
`DependantsStopped`, `Stopped`. `StartCommand` and `StopCommand` come from the console,
`ScriptCall` from a running script at the three events and when build tasks are
asked whether, and told, to build (`ScriptsCalled`). A handler may fail where the
code lets it.

| run | instance | shows |
|---|---|---|
| `resource_lifecycle` | three resources in a chain, a fan or a triangle, one call by a script; `FairSpec` | nothing is left starting (`NoneLeftStarting`); state, scripts and the clients' list agree (`StateIsTrue`); dependencies of a started resource are started (`DependenciesStarted`); who waits does so for a resource that is not started (`NobodyWaitsInVain`); clients start dependencies first (`AnnouncedInOrder`); every command ends (`EventuallyIdle`) |

**Bounds.** Three resources are the smallest with a dependency of a dependency and with two
dependants. `MaxCalls` bounds the calls of scripts; two, on the chain and the fan, were
checked with the same properties (6.2 million states, no error). Commands are not
bounded, and deadlock is checked.

**Fairness.** The main thread goes on with the call it is in.

**What the code does not promise.** Two kinds of nesting leave the resources in a state
that only a new start puts right; the properties name them.

- `crossed`: a call met another one of the same resource on the stack. A script that
  stops a resource from within its `onResourceStart` destroys the scripts, returns, and
  the outer call goes on to mark the resource started. One that starts a resource which is
  starting skips the first handlers and loads the scripts once more than the outer call
  does. A build task that finishes at once is such a start, within the call it was to
  put off.
- `relied`: a dependency was taken that had itself an unfinished call: it counts as there
  once it is starting, and while it is stopping. If that call fails, or goes on to stop
  it, the dependant stays.

Resources that waited are announced to clients before the one they waited for, as its
own handler is connected after theirs (order 99999999 after 9999999): this too is
`relied`. Circular dependencies are left to the proof: `Stop` recurses along them
without end (`ResourceDependencyLoader.cpp:134` speaks of it), so `EventuallyIdle` needs
them to be acyclic.

**Proof.** `ResourceLifecycle_proofs` proves the five invariants of the run, for any resources and dependencies, circles included, and any number
of calls. The invariant of the first is
`Covers`: a resource is starting only while a call of its `Start` is on the stack.
Each way out of a call sets the state of its resource, and the calls below stay as they
are; the crossing calls are why it is not enough to look at the innermost one.

`WaitInv` carries the second: two calls of one resource on the stack make it `crossed`, so a
`Start` that is not crossed finds its resource starting, and whoever waits waits for a
resource that is not started. `DepInv` carries the third, and looks at the stack as a whole:

- `Kept`: a dependency that its dependant has taken is started and linked to it, and every
  call of the dependency on the stack is a `Stop` that still has the dependant to stop, or is
  just stopping it;
- `Linked`: the dependency a `Start` waits for is linked to it, so that its `Stop` will not
  pass the dependant by;
- `Above` and `Good`: the call above a waiting `Start` is the `Start` it waits for, and when
  that one returns true, its resource is started.

`ShowInv` carries `StateIsTrue`. `Ghosts` is of all resources, also of those whose calls
crossed: only what is started is on the list, and scripts run only of that and of what has
a start behind its point of no return. `Shown` is of the resources that did not cross, for
which the call on the stack and the handler it is at tell how often they run and stand on
the list. `OrderInv` carries `AnnouncedInOrder`: whoever stands before a resource of which it
depends has relied on a call that was not over, or its calls have crossed. It needs `DepInv`
and `WaitInv` as well as `ShowInv`, as a resource comes on the list after the
handlers that started its dependencies and those that waited for it.

Only model-checked: `EventuallyIdle`, which is liveness.

## 7. Not modelled

`PROJECT.json` lists every component with its reason. In short:

- *Third-party and generated code*: Mumble and its protocol buffers, runtime headers,
  certificates, data tables. This is the larger part of the lines under `src/code`.
- *Hooks into the games*, for each of their versions: what they call is not in this
  repository, and most of the rest is offsets and layouts.
- *Input and output*: files, downloads, HTTP, windows, the browser. State there is in
  libraries, and what could go wrong is in their contracts.
- *Data without a protocol*: packet layouts, sync trees, bindings of natives and of
  script runtimes.
- *Planned*: queued and nested events, object ids and ownership of OneSync entities, rate
  limiters, script scheduling.
- *Parts of modelled components*: the old event protocol (V1) and the old state-bag
  packets; adding, removing and resetting resources and names they provide; host election;
  change handlers that write; cards' answers and handover data.
