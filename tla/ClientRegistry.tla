--------------------------- MODULE ClientRegistry ---------------------------
(***************************************************************************)
(* The clients of a server, from the HTTP request `initConnect` to their   *)
(* removal (ClientRegistry, GameServer and the initConnect method).  A     *)
(* client is made on an HTTP thread, the net thread gives it a slot and a  *)
(* net id when its `connect` packet comes in, and it is dropped by any     *)
(* thread and removed, as a rule, on the main thread.  Three kinds of      *)
(* thread work on the same client, and RemoveClient holds no lock from     *)
(* its first step to its last.                                             *)
(*                                                                         *)
(* A client object exists while somebody refers to it: m_clients, a queued *)
(* task or a local variable.  The other maps keep weak references, which   *)
(* count as absent once the object is gone.  OneSync is on: there are      *)
(* slots, and no host is elected.                                          *)
(***************************************************************************)
EXTENDS Integers, FiniteSets

CONSTANTS
    Client,         \* client objects; each is made once
    Guid,           \* of the players; two requests of one player have the same guid
    Settings,       \* bound: whose requests they may be, and what others have meanwhile
    Erring,         \* bound: clients that fall silent, are dropped for what they send, or
                    \* whose guid comes with a token that is not theirs
    Net, Main,      \* threads; an HTTP thread is named after its request's client
    None,
    Slot,           \* numbers of the slots
    ReservedSlot,   \* the one that is never given out
    MaxNetId,       \* the ids 1..MaxNetId are given out in turn, 0 stands for a temporary one
    FirstId,        \* the one whose turn it is in the beginning
    CountMod        \* the width of m_amountConnectedClients

Thread == Client \cup {Net, Main}
NetId == 1..MaxNetId
NoSlot == -1

ASSUME ClientAssumption ==
    /\ IsFiniteSet(Client) /\ None \notin Client
    /\ Settings \subseteq [Client -> Guid] \X (SUBSET (1..MaxNetId)) \X (SUBSET Slot)
    /\ {Net, Main} \cap Client = {} /\ Net # Main
ASSUME NumberAssumption ==
    /\ Slot \subseteq Nat
    /\ MaxNetId \in Nat /\ FirstId \in NetId
    /\ CountMod \in Nat /\ CountMod > Cardinality(Client)

VARIABLES
    guid,           \* whose request the client is made for
    taken, occupied,    \* net ids and slots of players who are not modelled and stay
    phase,          \* how far the client's initConnect request is
    byGuid,         \* m_clients
    byNetId, bySlot, known,     \* m_clientsByNetId, m_clientsBySlotId, m_clientsByPeer
    netId, slot,    \* of the client
    curNetId, count,            \* m_curNetId, m_amountConnectedClients
    dropping,       \* m_dropping
    silent,         \* registered clients that were last seen too long ago
    dropQueue, joinQueue,       \* main-thread tasks: drops of a client, HandleConnectedClient
    sweep,          \* toRemove of the running frame
    work,           \* what a thread is at, and the client it holds meanwhile
    targets,        \* net ids registered with the event reassembly
    bagTargets,     \* slots registered with the state bags
    signalled, removals,    \* history: who had OnDrop called, calls of RemoveClient
    turned,         \* history: how far a client was when a `connect` packet had it removed
    announced, withdrawn        \* history: players were told that the client joined, then that it left

maps == <<byGuid, byNetId, bySlot, known>>
numbers == <<netId, slot, curNetId, count>>
queues == <<dropQueue, joinQueue, sweep>>
listeners == <<targets, bagTargets, signalled, withdrawn>>
removed == <<removals, turned>>
others == <<taken, occupied>>
vars == <<guid, others, phase, maps, numbers, dropping, silent, queues, work, listeners,
          removed, announced>>

-----------------------------------------------------------------------------
(* Helpers *)

Registered(c) == byGuid[guid[c]] = c

\* Somebody holds the client.  The holder of a waiting request has a weak reference.
Alive(c) ==
    \/ phase[c] = "made"
    \/ Registered(c)
    \/ dropQueue[c] > 0 \/ c \in joinQueue \/ c \in sweep
    \/ \E t \in Thread : work[t].client = c

Idle == [at |-> "idle", client |-> None]
At(t, step) == work[t].at = step
Become(t, step, c) == work' = [work EXCEPT ![t] = [at |-> step, client |-> c]]

HasConnected(c) == netId[c] # 0

\* m_amountConnectedClients is unsigned.
Up(n) == IF n = CountMod - 1 THEN 0 ELSE n + 1
Down(n) == IF n = 0 THEN CountMod - 1 ELSE n - 1

\* What the weak reference in an entry leads to.
Lock(entry) == IF entry # None /\ Alive(entry) THEN entry ELSE None

\* The main thread is between two tasks.
MainFree == At(Main, "idle") /\ sweep = {}

\* Mutant: both targets are given up only if the client was announced.
OnDropAnnounced(c) ==
    /\ signalled' = signalled \cup {c}
    /\ targets' = IF c \in announced THEN targets \ {netId[c]} ELSE targets
    /\ bagTargets' = IF c \in announced THEN bagTargets \ {slot[c]} ELSE bagTargets

\* The listeners of OnDrop: a target is given up if the client was numbered, and
\* one of the state bags if it was announced.
OnDrop(c) ==
    /\ signalled' = signalled \cup {c}
    /\ targets' = targets \ {netId[c]}
    /\ bagTargets' = IF c \in announced THEN bagTargets \ {slot[c]} ELSE bagTargets

-----------------------------------------------------------------------------
(* The initConnect request, on an HTTP thread *)

\* It drops the client that has the guid.
InitConnect(c) ==
    /\ phase[c] = "none"
    /\ phase' = [phase EXCEPT ![c] = "asking"]
    /\ LET old == byGuid[guid[c]] IN
          IF old # None /\ old \notin dropping
          THEN Become(c, "drop", old)
          ELSE UNCHANGED work
    /\ UNCHANGED <<guid, others, maps, numbers, dropping, silent, queues, listeners, removed, announced>>

\* DropClientv on a thread other than the main thread, after its check that the
\* client is not being dropped: it sets the flag ...
DropClient(t) ==
    /\ At(t, "drop")
    /\ dropping' = dropping \cup {work[t].client}
    /\ Become(t, "queue", work[t].client)
    /\ UNCHANGED <<guid, others, phase, maps, numbers, silent, queues, listeners, removed, announced>>

\* ... and has the main thread do the rest.
QueueDrop(t) ==
    /\ At(t, "queue")
    /\ dropQueue' = [dropQueue EXCEPT ![work[t].client] = @ + 1]
    /\ work' = [work EXCEPT ![t] = Idle]
    /\ UNCHANGED <<guid, others, phase, maps, numbers, dropping, silent, joinQueue, sweep, listeners,
                   removed, announced>>

\* A client that has the guid already stays in m_clients.
MakeClient(c) ==
    /\ phase[c] = "asking" /\ At(c, "idle")
    /\ phase' = [phase EXCEPT ![c] = "made"]
    /\ byGuid' = [byGuid EXCEPT ![guid[c]] = IF @ = None THEN c ELSE @]
    /\ UNCHANGED <<guid, others, byNetId, bySlot, known, numbers, dropping, silent, queues, work, listeners,
                   removed, announced>>

\* The ticket is for another game or server: the request ends before there is a
\* ClientHolder, and the client stays.
RefuseTicket(c) ==
    /\ phase[c] = "made"
    /\ phase' = [phase EXCEPT ![c] = "over"]
    /\ UNCHANGED <<guid, others, maps, numbers, dropping, silent, queues, work, listeners, removed, announced>>

\* A script defers the connection: only the deferral goes on.
Defer(c) ==
    /\ phase[c] = "made" /\ MainFree
    /\ phase' = [phase EXCEPT ![c] = "waiting"]
    /\ UNCHANGED <<guid, others, maps, numbers, dropping, silent, queues, work, listeners, removed, announced>>

\* allowClient: the holder disowns the client.
Allow(c) ==
    /\ phase[c] \in {"made", "waiting"} /\ MainFree
    /\ phase' = [phase EXCEPT ![c] = "allowed"]
    /\ UNCHANGED <<guid, others, maps, numbers, dropping, silent, queues, work, listeners, removed, announced>>

\* The request is refused or canceled: the thread that lets go of the holder
\* last removes the client if it is still there.
Refuse(c) ==
    /\ phase[c] \in {"made", "waiting"}
    /\ phase' = [phase EXCEPT ![c] = "over"]
    /\ IF Alive(c) THEN Become(c, "signal", c) ELSE UNCHANGED work
    /\ UNCHANGED <<guid, others, maps, numbers, dropping, silent, queues, listeners, removed, announced>>

-----------------------------------------------------------------------------
(* RemoveClient, on thread t *)

\* The main thread has freed the slot of the client, but not taken it from it.
Freed(c) == work[Main].at \in {"erase", "unassign"} /\ work[Main].client = c

\* How far the client is.
Stage(c) ==
    IF Freed(c) THEN "freed"
    ELSE IF c \in dropping THEN "dropping"
    ELSE IF c \in announced THEN "announced" ELSE "new"

\* Some code expects OnDrop to follow any OnClientCreated: a client that is
\* being dropped has it called, or will have.
SignalRemoved(t) ==
    /\ At(t, "signal")
    /\ LET c == work[t].client IN
          /\ IF c \in dropping THEN UNCHANGED <<signalled, targets, bagTargets>> ELSE OnDrop(c)
          /\ removals' = [removals EXCEPT ![c] = @ + 1]
          /\ turned' = IF t = Net THEN [turned EXCEPT ![c] = @ \cup {Stage(c)}] ELSE turned
          /\ Become(t, "aliases", c)
    /\ UNCHANGED <<guid, others, phase, maps, numbers, dropping, silent, queues, withdrawn, announced>>

\* Its entries by peer and net id go.
ResetAliases(t) ==
    /\ At(t, "aliases")
    /\ LET c == work[t].client IN
          /\ known' = known \ {c}
          /\ byNetId' = IF HasConnected(c) THEN [byNetId EXCEPT ![netId[c]] = None] ELSE byNetId
          /\ Become(t, "slot", c)
    /\ UNCHANGED <<guid, others, phase, byGuid, bySlot, numbers, dropping, silent, queues, listeners,
                   removed, announced>>

\* Its slot is free, under m_clientSlotMutex.
FreeSlot(t) ==
    /\ At(t, "slot")
    /\ LET c == work[t].client IN
          /\ bySlot' = IF slot[c] \in Slot THEN [bySlot EXCEPT ![slot[c]] = None] ELSE bySlot
          /\ Become(t, "erase", c)
    /\ UNCHANGED <<guid, others, phase, byGuid, byNetId, known, numbers, dropping, silent, queues,
                   listeners, removed, announced>>

\* m_clients loses the entry of its guid, whoever that is.
EraseClient(t) ==
    /\ At(t, "erase")
    /\ LET g == guid[work[t].client] IN
          /\ byGuid' = [byGuid EXCEPT ![g] = None]
          /\ silent' = silent \ {byGuid[g]}
    /\ Become(t, "unassign", work[t].client)
    /\ UNCHANGED <<guid, others, phase, byNetId, bySlot, known, numbers, dropping, queues, listeners,
                   removed, announced>>

\* Mutant: every removal is taken off the count.
UnassignCounted(t) ==
    /\ At(t, "unassign")
    /\ slot' = [slot EXCEPT ![work[t].client] = NoSlot]
    /\ count' = Down(count)
    /\ work' = [work EXCEPT ![t] = Idle]
    /\ UNCHANGED <<guid, others, phase, maps, netId, curNetId, dropping, silent, queues, listeners,
                   removed, announced>>

\* The client has no slot any more, and is taken off the count if it had connected.
UnassignSlot(t) ==
    /\ At(t, "unassign")
    /\ slot' = [slot EXCEPT ![work[t].client] = NoSlot]
    /\ count' = IF HasConnected(work[t].client) THEN Down(count) ELSE count
    /\ work' = [work EXCEPT ![t] = Idle]
    /\ UNCHANGED <<guid, others, phase, maps, netId, curNetId, dropping, silent, queues, listeners,
                   removed, announced>>

RemoveClient(t) ==
    SignalRemoved(t) \/ ResetAliases(t) \/ FreeSlot(t) \/ EraseClient(t) \/ UnassignSlot(t)

-----------------------------------------------------------------------------
(* The net thread: ProcessPacket *)

\* A `connect` packet from a peer without a client, with the guid of a registered
\* one.  It has that one removed, whatever state it is in, if the token is not the
\* client's or the request has not been let in.
Connect(c) ==
    /\ At(Net, "idle") /\ Registered(c)
    /\ \/ /\ c \in Erring
          /\ Become(Net, "signal", c)
          /\ UNCHANGED <<known, silent>>
       \/ /\ phase[c] = "allowed"
          /\ Become(Net, "peer", c)
          /\ known' = known \cup {c}
          /\ silent' = silent \ {c}
    /\ UNCHANGED <<guid, others, phase, byGuid, byNetId, bySlot, numbers, dropping, queues, listeners,
                   removed, announced>>

\* Mutant: a slot is taken for free although a client has it.
AnySlots == Slot \ ({ReservedSlot} \cup occupied)

FreeSlots == {s \in Slot \ ({ReservedSlot} \cup occupied) : Lock(bySlot[s]) = None}

\* SetPeer: the client takes the last free slot, unless it has one.
AssignSlot ==
    /\ At(Net, "peer")
    /\ LET c == work[Net].client IN
          /\ \/ /\ slot[c] # NoSlot \/ FreeSlots = {}
                /\ UNCHANGED <<slot, bySlot>>
             \/ /\ slot[c] = NoSlot
                /\ \E s \in FreeSlots :
                      /\ \A r \in FreeSlots : r <= s
                      /\ slot' = [slot EXCEPT ![c] = s]
                      /\ bySlot' = [bySlot EXCEPT ![s] = c]
          /\ Become(Net, "assigned", c)
    /\ UNCHANGED <<guid, others, phase, byGuid, byNetId, known, netId, curNetId, count, dropping, silent,
                   queues, listeners, removed, announced>>

\* There are not enough slots.
RefuseSlot ==
    /\ At(Net, "assigned") /\ slot[work[Net].client] = NoSlot
    /\ Become(Net, "signal", work[Net].client)
    /\ UNCHANGED <<guid, others, phase, maps, numbers, dropping, silent, queues, listeners, removed, announced>>

\* Mutant: the ids do not come round.
NextIdOn(n) == n + 1

NextId(n) == IF n = MaxNetId THEN 1 ELSE n + 1

\* Mutant: an id in use is given out again when its turn comes.
AnyIds == NetId \ taken

\* The ids nobody uses, how long until it is the turn of one, and the first of them:
\* the search goes on for ever if there is none.
FreeIds == {n \in NetId \ taken : Lock(byNetId[n]) = None}
Turn(n) == (n - curNetId) % MaxNetId
IsNext(n) == n \in FreeIds /\ \A m \in FreeIds : Turn(n) <= Turn(m)

\* HandleConnectingClient gives a new client its net id, under m_curNetIdMutex,
\* and the event reassembly gets a target for it.
HandleConnectingClient ==
    /\ At(Net, "assigned")
    /\ LET c == work[Net].client IN
          /\ slot[c] # NoSlot
          /\ \/ /\ HasConnected(c)
                /\ work' = [work EXCEPT ![Net] = Idle]
                /\ UNCHANGED <<netId, byNetId, targets, curNetId>>
             \/ /\ ~HasConnected(c)
                /\ \E n \in NetId :
                      /\ IsNext(n)
                      /\ netId' = [netId EXCEPT ![c] = n]
                      /\ byNetId' = [byNetId EXCEPT ![n] = c]
                      /\ targets' = targets \cup {n}
                      /\ curNetId' = NextId(n)
                /\ Become(Net, "numbered", c)
    /\ UNCHANGED <<guid, others, phase, byGuid, bySlot, known, slot, count, dropping, silent, queues,
                   bagTargets, signalled, withdrawn, removed, announced>>

\* The client is counted, and the main thread is told.
CountConnected ==
    /\ At(Net, "numbered")
    /\ count' = Up(count)
    /\ joinQueue' = joinQueue \cup {work[Net].client}
    /\ work' = [work EXCEPT ![Net] = Idle]
    /\ UNCHANGED <<guid, others, phase, maps, netId, slot, curNetId, dropping, silent, dropQueue, sweep,
                   listeners, removed, announced>>

\* Any other packet of the client; a handler may drop it for what it sends.
Packet(c) ==
    /\ At(Net, "idle") /\ c \in known /\ Alive(c)
    /\ \/ /\ c \in silent
          /\ UNCHANGED work
       \/ /\ c \in Erring \ dropping
          /\ Become(Net, "drop", c)
    /\ silent' = silent \ {c}
    /\ UNCHANGED <<guid, others, phase, maps, numbers, dropping, queues, listeners, removed, announced>>

-----------------------------------------------------------------------------
(* The main thread *)

\* Mutant: a client that had OnDrop called already is taken for removed.
DropInternalOnce(c) ==
    IF c \in signalled
    THEN UNCHANGED <<listeners, removed, work>>
    ELSE /\ withdrawn' = IF HasConnected(c) THEN withdrawn \cup {c} ELSE withdrawn
         /\ OnDrop(c)
         /\ removals' = [removals EXCEPT ![c] = @ + 1]
         /\ UNCHANGED turned
         /\ Become(Main, "aliases", c)

\* DropClientInternal, up to RemoveClient's first check, which the flag decides.
DropClientInternal(c) ==
    /\ withdrawn' = IF HasConnected(c) THEN withdrawn \cup {c} ELSE withdrawn
    /\ OnDrop(c)
    /\ removals' = [removals EXCEPT ![c] = @ + 1]
    /\ UNCHANGED turned
    /\ Become(Main, "aliases", c)

\* A drop that another thread asked for.
RunDrop(c) ==
    /\ MainFree /\ dropQueue[c] > 0
    /\ dropQueue' = [dropQueue EXCEPT ![c] = @ - 1]
    /\ DropClientInternal(c)
    /\ UNCHANGED <<guid, others, phase, maps, numbers, dropping, silent, joinQueue, sweep, announced>>

\* DropClientv on the main thread, where the task runs at once.
DropNow(c) ==
    /\ c \notin dropping
    /\ dropping' = dropping \cup {c}
    /\ DropClientInternal(c)
    /\ UNCHANGED <<guid, others, phase, maps, numbers, silent, dropQueue, joinQueue, announced>>

\* DROP_PLAYER, for a client that has connected.
ScriptDrop(c) ==
    /\ MainFree /\ HasConnected(c) /\ byNetId[netId[c]] = c /\ Alive(c)
    /\ DropNow(c)
    /\ UNCHANGED sweep

\* Mutant: a client that is being dropped is announced too.
AnnounceAlways(c) ==
    /\ MainFree /\ c \in joinQueue
    /\ joinQueue' = joinQueue \ {c}
    /\ announced' = announced \cup {c} /\ withdrawn' = withdrawn \ {c}
    /\ bagTargets' = bagTargets \cup {slot[c]}
    /\ UNCHANGED <<guid, others, phase, maps, numbers, dropping, silent, dropQueue, sweep, work, targets,
                   signalled, removed>>

\* HandleConnectedClient: scripts see playerJoining; the players are told of the
\* client, and the state bags get a target, unless it is being dropped.
HandleConnectedClient(c) ==
    /\ MainFree /\ c \in joinQueue
    /\ joinQueue' = joinQueue \ {c}
    /\ IF c \in dropping
       THEN UNCHANGED <<announced, withdrawn, bagTargets>>
       ELSE /\ announced' = announced \cup {c}
            /\ withdrawn' = withdrawn \ {c}
            /\ bagTargets' = bagTargets \cup {slot[c]}
    /\ UNCHANGED <<guid, others, phase, maps, numbers, dropping, silent, dropQueue, sweep, work, targets,
                   signalled, removed>>

\* A frame finds the clients that are dead.
FindDead ==
    /\ MainFree
    /\ sweep' = {c \in Client : Registered(c) /\ c \notin dropping /\ c \in silent}
    /\ sweep' # {}
    /\ UNCHANGED <<guid, others, phase, maps, numbers, dropping, silent, dropQueue, joinQueue, work, listeners,
                   removed, announced>>

\* It drops one of those it has found.
DropDead(c) ==
    /\ At(Main, "idle") /\ c \in sweep
    /\ sweep' = sweep \ {c}
    /\ IF c \in dropping
       THEN UNCHANGED <<guid, others, phase, maps, numbers, dropping, silent, dropQueue, joinQueue, work,
                        listeners, removed, announced>>
       ELSE DropNow(c)

-----------------------------------------------------------------------------
(* Specification *)

\* The client has not been heard of for long; a deferral touches it every frame.
FallSilent(c) ==
    /\ Registered(c) /\ c \in Erring \ (silent \cup dropping)
    /\ phase[c] # "waiting" /\ work[Net].client # c
    /\ silent' = silent \cup {c}
    /\ UNCHANGED <<guid, others, phase, maps, numbers, dropping, queues, work, listeners, removed, announced>>

Init ==
    /\ \E w \in Settings : guid = w[1] /\ taken = w[2] /\ occupied = w[3]
    /\ phase = [c \in Client |-> "none"]
    /\ byGuid = [g \in Guid |-> None] /\ byNetId = [n \in NetId |-> None]
    /\ bySlot = [s \in Slot |-> None] /\ known = {}
    /\ netId = [c \in Client |-> 0] /\ slot = [c \in Client |-> NoSlot]
    /\ curNetId = FirstId /\ count = 0
    /\ dropping = {} /\ silent = {}
    /\ dropQueue = [c \in Client |-> 0] /\ joinQueue = {} /\ sweep = {}
    /\ work = [t \in Thread |-> Idle]
    /\ targets = {} /\ bagTargets = {}
    /\ signalled = {} /\ removals = [c \in Client |-> 0] /\ turned = [c \in Client |-> {}]
    /\ announced = {} /\ withdrawn = {}

Next ==
    \/ \E c \in Client :
          \/ InitConnect(c) \/ MakeClient(c) \/ RefuseTicket(c) \/ Defer(c)
          \/ Allow(c) \/ Refuse(c)
          \/ Connect(c) \/ Packet(c)
          \/ RunDrop(c) \/ ScriptDrop(c) \/ HandleConnectedClient(c) \/ DropDead(c)
          \/ FallSilent(c)
    \/ \E t \in Thread : DropClient(t) \/ QueueDrop(t) \/ RemoveClient(t)
    \/ AssignSlot \/ RefuseSlot \/ HandleConnectingClient \/ CountConnected
    \/ FindDead

Spec == Init /\ [][Next]_vars

\* The main thread goes on with what it has begun, its tasks and its frames.  The
\* other threads may stop anywhere but between the two statements of DropClientv.
MainWork ==
    \/ RemoveClient(Main)
    \/ \E c \in Client : RunDrop(c) \/ HandleConnectedClient(c) \/ DropDead(c)
    \/ FindDead

FairSpec == Spec /\ WF_vars(MainWork) /\ \A t \in Thread : WF_vars(QueueDrop(t))

-----------------------------------------------------------------------------
(* Properties *)

TypeOK ==
    /\ guid \in [Client -> Guid] /\ taken \subseteq NetId /\ occupied \subseteq Slot
    /\ phase \in [Client -> {"none", "asking", "made", "waiting", "allowed", "over"}]
    /\ byGuid \in [Guid -> Client \cup {None}]
    /\ byNetId \in [NetId -> Client \cup {None}]
    /\ bySlot \in [Slot -> Client \cup {None}]
    /\ known \subseteq Client
    /\ netId \in [Client -> 0..MaxNetId] /\ slot \in [Client -> Slot \cup {NoSlot}]
    /\ curNetId \in NetId /\ count \in 0..(CountMod - 1)
    /\ dropping \subseteq Client /\ silent \subseteq Client
    /\ dropQueue \in [Client -> Nat] /\ joinQueue \subseteq Client /\ sweep \subseteq Client
    /\ work \in [Thread -> [at : {"idle", "drop", "queue", "signal", "aliases", "slot", "erase",
                                  "unassign", "peer", "assigned", "numbered"},
                            client : Client \cup {None}]]
    /\ targets \subseteq NetId /\ bagTargets \subseteq Slot \cup {NoSlot}
    /\ signalled \subseteq Client /\ removals \in [Client -> Nat]
    /\ turned \in [Client -> SUBSET {"new", "announced", "dropping", "freed"}]
    /\ announced \subseteq Client /\ withdrawn \subseteq Client

\* No two requests are of one player.
Distinct == \A c, d \in Client :
    phase[c] # "none" /\ phase[d] # "none" /\ guid[c] = guid[d] => c = d

\* No thread is inside a handler.
Quiet == \A t \in Thread : At(t, "idle")

\* The net thread numbered the client after its OnDrop: the drop of a client that
\* has not connected yet came between two steps of its connection.
Late(c) ==
    /\ HasConnected(c) /\ c \in signalled \ withdrawn
    /\ turned[c] \cap {"new", "announced"} = {}

\* No `connect` packet had a client removed while the main thread had freed its slot,
\* but not taken it from the client: that removal resets the slot's entry once more,
\* which may be another client's by then (ClientRegistry.h:108-117).
SlotsUndisturbed == \A c \in Client : "freed" \notin turned[c]

\* A client that has a net id and that no RemoveClient has reached is found by its
\* guid and has a slot: no other client has taken either, and no removal of another
\* one has reset them, though slots are used again and a client may be removed by two
\* threads at once.
ConnectedHasSlot == Distinct /\ SlotsUndisturbed => \A c \in Client :
    HasConnected(c) /\ removals[c] = 0 =>
        Registered(c) /\ slot[c] \in Slot /\ bySlot[slot[c]] = c

\* No client with c's net id was removed twice.  The second removal resets the id's
\* entry, whose client may be another one by then (ClientRegistry.h:99).
IdUndisturbed(c) == \A d \in Client \ {c} : netId[d] = netId[c] => removals[d] <= 1

\* A client that has a net id is found by it until it is removed, although ids come
\* round: one that is in use is skipped, and a client has lost its entry before the id
\* is free (ClientRegistry.cpp:164-182).
ConnectedHasId == Distinct => \A c \in Client :
    HasConnected(c) /\ removals[c] = 0 /\ IdUndisturbed(c) => byNetId[netId[c]] = c

\* When no handler is half way, m_amountConnectedClients is the number of the
\* clients that have a net id and are not removed, provided none was removed twice.
CountExact == Quiet /\ (\A c \in Client : removals[c] <= 1 /\ ~Late(c)) =>
    count = Cardinality({c \in Client : HasConnected(c) /\ removals[c] = 0})

\* Whom a target of the event reassembly belongs to: he has not been removed, or the
\* drop that gives it up is still to come.  That of a client that was numbered after
\* its OnDrop stays for good.
Rightful(c) == removals[c] = 0 \/ dropQueue[c] > 0 \/ Late(c)

\* The event reassembly has no target that is left behind, and one for each client
\* with a net id that is not removed: the drop of one client does not take the target
\* of the next one with its id, unless the first was removed twice
\* (ServerResources.cpp:460-472).
TargetsExact == Distinct /\ Quiet =>
    /\ \A n \in targets : \E c \in Client : netId[c] = n /\ Rightful(c)
    /\ \A c \in Client :
          HasConnected(c) /\ removals[c] = 0 /\ IdUndisturbed(c) => netId[c] \in targets

\* The state bags have a target for each announced player that is not removed, which
\* are slots, and no other: the target that OnConnectedClient registers is the one
\* OnDrop gives up, although the slot may be taken away in between
\* (ServerGameState.cpp:4588-4603).  Only a player whom a `connect` packet had removed
\* before he was announced, or while he was being dropped, leaves one behind.
BagTargetsExact == Distinct /\ Quiet /\ SlotsUndisturbed =>
    /\ \A c \in announced : removals[c] = 0 => slot[c] \in bagTargets
    /\ (\A c \in announced : turned[c] \subseteq {"announced"}) =>
           bagTargets = {slot[c] : c \in announced \ signalled}

\* The players that are told of a joining client are told when it has left, unless a
\* `connect` packet had it removed before anybody dropped it: the drop and the
\* announcement are tasks of one thread, but the flag that decides between them is set
\* by any (ClientRegistry.cpp:207-211).
Withdrawn == Distinct => \A c \in announced :
    ~Alive(c) => c \in withdrawn \/ turned[c] \cap {"new", "announced"} # {}

\* A client that is being dropped leaves the registry, and none that has fallen
\* silent stays, although the other threads may stop in the middle of a removal.
EventuallyRemoved == \A c \in Client :
    /\ c \in dropping ~> ~Registered(c)
    /\ []<>~(Registered(c) /\ c \in silent)

=============================================================================
