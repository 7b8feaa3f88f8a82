--------------------------- MODULE EventReassembly ---------------------------
(***************************************************************************)
(* EventReassemblyComponent, protocol V2, on a server and its clients.     *)
(* Every node runs the same component: it cuts an event into fragments,    *)
(* resends each one until it is acknowledged, puts together the fragments  *)
(* it receives and hands the whole event to the event queue.  Packets are  *)
(* sent unreliably: they get lost, overtake each other, and a resend puts  *)
(* a second copy of a fragment in flight.                                  *)
(*                                                                         *)
(* A client is named by the net id the server knows it by; ids are handed  *)
(* out in sequence, so an id is registered once.  On a client the server   *)
(* is target 0 (constant Server).                                          *)
(*                                                                         *)
(* Threads.  TriggerEventV2 and HandlePacketV2 run on a node's main thread *)
(* and each has two parts with m_listMutex released in between; `thread'   *)
(* says where the main thread is.  NetworkTick runs on the network thread, *)
(* and targets are registered and unregistered by either.                  *)
(***************************************************************************)
EXTENDS SendBurst, FiniteSets

CONSTANTS
    Server,                  \* the server's net id (0)
    Client,                  \* the clients' net ids
    MaxEvents,               \* bound: how many events each node triggers
    Leaving,                 \* bound: the nodes that unregister a target
    MaxEarly,                \* bound: how many events lose a record that is needed,
                             \* and how often each of them
    PacketCounts,            \* by event id: fragment counts that pass the size check
    TotalPacketsMod,         \* 2^kPacketSizeBits, the width of totalPackets
    Unlimited,               \* 0xFF
    MaxPendingEvents,        \* sv_netEventReassemblyMaxPendingEvents
    UnlimitedPendingEvents   \* sv_netEventReassemblyUnlimitedPendingEvents

Node == Client \cup {Server}

\* A client's only target is the server; the server's are its clients.
Peers(n) == IF n = Server THEN Client ELSE {Server}

\* A transfer is one event on its way to one of its targets.
Transfer == UNION {[src: {n}, id: 0 .. (MaxEvents[n] - 1), dst: Peers(n)] : n \in Node}

ASSUME NodeAssumption == Server \notin Client

ASSUME BoundAssumption ==
    /\ MaxEvents \in [Node -> Nat]
    /\ MaxEarly \in Nat
    /\ IsFiniteSet(Client)

\* kMaxPacketSize lets through an event of exactly 2^kPacketSizeBits fragments.
ASSUME WidthAssumption ==
    /\ TotalPacketsMod \in Nat \ {0}
    /\ \A n \in Node : \A id \in 0 .. (MaxEvents[n] - 1) :
            PacketCounts[id] \subseteq 1 .. TotalPacketsMod

ASSUME LimitAssumption ==
    /\ Unlimited \in Nat \ {0}
    /\ MaxPendingEvents \in Nat
    /\ UnlimitedPendingEvents \in BOOLEAN

VARIABLES
    targets,      \* m_targets: the ids registered at each node
    pending,      \* Target::maxPendingEvents of each registered id
    eventId,      \* m_eventId
    sendTargets,  \* the transfers whose target is in SendEvent::targets
    sending,      \* SendEvent::targetData of each transfer
    receiving,    \* m_receiveList[src][id] at the transfer's target
    thread,       \* what the node's main thread is in the middle of
    net,          \* packets in flight
    accepted,     \* history: fragments of each transfer triggered, 0 if none
    delivered,    \* history: what HandleReceivedPacket was given
    completions,  \* history: how often each transfer was put together
    early,        \* history: how often its record went too early
    closed        \* history: ids each node has unregistered

vars == <<targets, pending, eventId, sendTargets, sending, receiving, thread,
          net, accepted, delivered, completions, early, closed>>

senderVars   == <<eventId, sendTargets, sending, accepted>>
receiverVars == <<receiving, pending, thread, delivered, completions, early>>
targetVars   == <<targets, closed>>
countVars    == <<completions, early>>

-----------------------------------------------------------------------------
(* Data.                                                                   *)

Byte == 0 .. Unlimited

\* A ReceiveEvent: ackedBits.size(), the bits set, the fragments kept in
\* packetData, and whether all of them have arrived.
ReceiveEvent == [size: Nat, acked: SUBSET Nat, data: SUBSET Nat, completed: BOOLEAN]

NoEvent == [size |-> 0, acked |-> {}, data |-> {}, completed |-> FALSE]

\* A fragment is named by the transfer it belongs to and its index; a packet
\* without payload is an acknowledgement.
Message == [type: {"data", "ack"}, x: Transfer, idx: Nat, total: Nat]

DataPacket(x, i) == [type |-> "data", x |-> x, idx |-> i,
                     total |-> sending[x].size % TotalPacketsMod]

\* Mutant: acknowledges the last fragment instead of the one that came.
AckPacketOfLast(m) == [m EXCEPT !.type = "ack", !.idx = m.total - 1]

\* Mutant: acknowledges the fragment before, as if they were counted from one.
AckPacketFromOne(m) == [m EXCEPT !.type = "ack", !.idx = @ - 1]

AckPacket(m) == [m EXCEPT !.type = "ack"]

Addressee(m) == IF m.type = "ack" THEN m.x.src ELSE m.x.dst

Idle == [op |-> "idle"]

Trigger == [op: {"trigger"}, to: SUBSET Node, count: 1 .. TotalPacketsMod]
Deliver == [op: {"deliver"}, x: Transfer, fragments: SUBSET Nat]

\* Registered with a byte: a setting above 255 is cut to its low byte.
InitialPending(n) ==
    IF n # Server \/ UnlimitedPendingEvents
        THEN Unlimited
        ELSE MaxPendingEvents % (Unlimited + 1)
-----------------------------------------------------------------------------
Init ==
    /\ targets = [n \in Node |-> {}]
    /\ pending = [n \in Node |-> [p \in Node |-> 0]]
    /\ eventId = [n \in Node |-> 0]
    /\ sendTargets = {}
    /\ sending = [x \in Transfer |-> NoData]
    /\ receiving = [x \in Transfer |-> NoEvent]
    /\ thread = [n \in Node |-> Idle]
    /\ net = {}
    /\ accepted = [x \in Transfer |-> 0]
    /\ delivered = {}
    /\ completions = [x \in Transfer |-> 0]
    /\ early = [x \in Transfer |-> 0]
    /\ closed = [n \in Node |-> {}]

-----------------------------------------------------------------------------
(* Targets.                                                                *)

RegisterTarget(n, p) ==
    /\ p \in Peers(n) \ (targets[n] \cup closed[n])
    /\ targets' = [targets EXCEPT ![n] = @ \cup {p}]
    /\ pending' = [pending EXCEPT ![n][p] = InitialPending(n)]
    /\ UNCHANGED <<senderVars, receiving, thread, net, delivered, countVars, closed>>

\* The client is dropped, or the client leaves this server: whatever was being
\* sent to the target or received from it is forgotten.
UnregisterTarget(n, p) ==
    /\ n \in Leaving
    /\ p \in targets[n]
    /\ targets' = [targets EXCEPT ![n] = @ \ {p}]
    /\ pending' = [pending EXCEPT ![n][p] = 0]
    /\ receiving' = [x \in Transfer |->
                        IF x.dst = n /\ x.src = p THEN NoEvent ELSE receiving[x]]
    /\ sending' = [x \in Transfer |->
                        IF x.src = n /\ x.dst = p THEN NoData ELSE sending[x]]
    /\ sendTargets' = {x \in sendTargets : ~(x.src = n /\ x.dst = p)}
    /\ closed' = [closed EXCEPT ![n] = @ \cup {p}]
    /\ UNCHANGED <<eventId, thread, net, accepted, delivered, countVars>>

-----------------------------------------------------------------------------
(* TriggerEventV2.                                                         *)

\* Under the shared lock: target -1 is everyone registered.  An event for an
\* id that is not registered is dropped here.
TriggerEventV2(n, to, count) ==
    /\ thread[n] = Idle
    /\ eventId[n] < MaxEvents[n]
    /\ count \in PacketCounts[eventId[n]]
    /\ \/ to = targets[n]
       \/ \E p \in targets[n] : to = {p}
    /\ thread' = [thread EXCEPT ![n] = [op |-> "trigger", to |-> to, count |-> count]]
    /\ UNCHANGED <<targetVars, senderVars, receiving, pending, delivered, countVars, net>>

\* Under the unique lock, taken anew: the targets are those seen before.
InsertSendEvent(n) ==
    LET new == {x \in Transfer : /\ x.src = n
                                 /\ x.id = eventId[n]
                                 /\ x.dst \in thread[n].to}
    IN  /\ thread[n].op = "trigger"
        /\ sendTargets' = sendTargets \cup new
        /\ sending' = [x \in Transfer |->
                          IF x \in new
                            THEN [size |-> thread[n].count, acked |-> {}, lastBit |-> 0]
                            ELSE sending[x]]
        /\ accepted' = [x \in Transfer |->
                          IF x \in new THEN thread[n].count ELSE accepted[x]]
        /\ eventId' = [eventId EXCEPT ![n] = @ + 1]
        /\ thread' = [thread EXCEPT ![n] = Idle]
        /\ UNCHANGED <<targetVars, receiving, pending, delivered, countVars, net>>

-----------------------------------------------------------------------------
(* NetworkTick.                                                            *)

\* The transfers whose timers let node n send to their target now.
Sendable(n) == {x \in sendTargets : /\ x.src = n
                                   /\ x.dst \in targets[n]
                                   /\ sending[x] # NoData}

\* Mutant: one target that is gone takes the others of its event along.
GoneTogether(n) ==
    {x \in sendTargets : /\ x.src = n
                         /\ \E y \in sendTargets : /\ y.src = n /\ y.id = x.id
                                                   /\ y.dst \notin targets[n]}

\* The target has been unregistered since the event was triggered.
Gone(n) == {x \in sendTargets : x.src = n /\ x.dst \notin targets[n]}

\* Mutant: the early fragments, before lastBit, are not looked at.
AllAckedAhead(x) == Ahead(sending[x]) = {}

AllAcked(x) == Unacked(sending[x]) = {}

\* Nothing of x can reach its target any more.
Quiet(x) ==
    /\ x \notin sendTargets \/ AllAcked(x)
    /\ \A m \in net : m.type = "data" => m.x # x

\* The records two minutes may have passed for since the event was completed
\* and last acknowledged.  Nobody asks whether the sender is done with it: at a
\* rate of a few bytes per second it sends its next copy later than that.  Such
\* removals are counted; MaxEarly bounds them.
MoreEarly(x) == /\ early[x] < MaxEarly
                /\ Cardinality({y \in Transfer \ {x} : early[y] > 0}) < MaxEarly

Expirable(n) == {x \in Transfer : /\ x.dst = n
                                  /\ receiving[x].completed
                                  /\ Quiet(x) \/ MoreEarly(x)}

\* One burst outcome for each target of `due' that is not done yet.
Bursts(due) ==
    LET send == {x \in due : ~AllAcked(x)}
    IN  {b \in [send -> UNION {BurstOutcomes(sending[x]) : x \in send}] :
            \A x \in send : b[x] \in BurstOutcomes(sending[x])}

\* Who is still to be served after a tick.
Left(n, done) == sendTargets \ (done \cup Gone(n))

NetworkTickSendList(n, due, burst) ==
    LET done  == {x \in due : AllAcked(x)}
        send  == due \ done
        left  == Left(n, done)
        erased(x) == x.src = n /\ ~\E y \in left : y.src = n /\ y.id = x.id
    IN  /\ sendTargets' = left
        /\ sending' = [x \in Transfer |->
                          CASE x \in done \/ erased(x) -> NoData
                            [] x \in send -> [sending[x] EXCEPT !.lastBit = burst[x].lastBit]
                            [] OTHER -> sending[x]]
        /\ net' = net \cup UNION {{DataPacket(x, i) : i \in burst[x].sends} : x \in send}

\* One tick of the network thread: the whole send list, then the cleanup.
NetworkTick(n, due, burst, expired) ==
    /\ due \subseteq Sendable(n)
    /\ expired \subseteq Expirable(n)
    /\ NetworkTickSendList(n, due, burst)
    /\ receiving' = [x \in Transfer |-> IF x \in expired THEN NoEvent ELSE receiving[x]]
    /\ early' = [x \in Transfer |->
                    IF x \in expired /\ ~Quiet(x) THEN early[x] + 1 ELSE early[x]]
    /\ UNCHANGED <<targetVars, eventId, pending, thread, delivered, completions, accepted>>

-----------------------------------------------------------------------------
(* HandlePacketV2, under the lock.                                         *)

Malformed(m) == m.total = 0 \/ m.idx >= m.total

\* The packet leaves the network, or `keep': a copy of it, sent again before
\* this one was acknowledged, is still on its way.
Take(m, keep) == IF keep THEN net ELSE net \ {m}

Addressed(n, m) == /\ m \in net
                   /\ Addressee(m) = n
                   /\ thread[n] = Idle

\* The remote side has the fragment.
HandleAck(n, m, keep) ==
    LET d == sending[m.x]
    IN  /\ Addressed(n, m)
        /\ m.type = "ack"
        /\ ~Malformed(m)
        /\ sending' = [sending EXCEPT ![m.x].acked =
                          IF m.idx < d.size THEN @ \cup {m.idx} ELSE @]
        /\ net' = Take(m, keep)
        /\ UNCHANGED <<targetVars, receiverVars, eventId, sendTargets, accepted>>

\* The record the packet belongs to: the one there is, or a new one of the
\* size the remote side gives.
Opened(m) ==
    IF receiving[m.x] # NoEvent
        THEN receiving[m.x]
        ELSE [NoEvent EXCEPT !.size = m.total]

\* A new event comes from a registered id that still has an event to spare.
MayOpen(n, x) ==
    receiving[x] # NoEvent \/ (x.src \in targets[n] /\ pending[n][x.src] # 0)

\* maxPendingEvents after a new record took one, and after a completed one
\* gave it back.  It is a byte.
Taken(x, v) == IF receiving[x] = NoEvent /\ v # Unlimited THEN v - 1 ELSE v

\* Mutant: a completed event keeps its slot.
NotReturned(x, v) == v

Returned(x, v) ==
    IF x.src # Server /\ x.src \in targets[x.dst] THEN (v + 1) % (Unlimited + 1) ELSE v

\* Mutant: the last fragment is taken for all of them.
HasLast(acked, size) == size - 1 \in acked

HasAll(acked, size) == acked = 0 .. (size - 1)

\* Mutant: a completed record is erased at once, as the code once did.
KeptUntilWhole(r, i) ==
    LET acked == r.acked \cup {i}
    IN  IF HasAll(acked, r.size)
            THEN NoEvent
            ELSE [r EXCEPT !.acked = acked, !.data = @ \cup {i}]

\* The record once fragment i is noted down and its payload copied.
Kept(r, i) ==
    LET acked == r.acked \cup {i}
    IN  [size |-> r.size, acked |-> acked, data |-> r.data \cup {i},
         completed |-> HasAll(acked, r.size)]

\* The early returns: nothing is answered and nothing is kept.
RefusePacket(n, m, keep) ==
    /\ Addressed(n, m)
    /\ \/ Malformed(m)
       \/ m.type = "data" /\ ~MayOpen(n, m.x)
       \/ m.type = "data" /\ m.total # Opened(m).size
    /\ net' = Take(m, keep)
    /\ UNCHANGED <<targetVars, senderVars, receiverVars>>

\* Mutant: a repeated fragment is not acknowledged again.
AckOnce(n, m, keep) ==
    /\ Addressed(n, m)
    /\ m.type = "data"
    /\ ~Malformed(m)
    /\ receiving[m.x].completed \/ m.idx \in receiving[m.x].acked
    /\ net' = Take(m, keep)
    /\ UNCHANGED <<targetVars, senderVars, receiverVars>>

\* A fragment that is here already: the acknowledgement was lost or is late.
AckAgain(n, m, keep) ==
    /\ Addressed(n, m)
    /\ m.type = "data"
    /\ ~Malformed(m)
    /\ receiving[m.x] # NoEvent
    /\ m.total = receiving[m.x].size
    /\ receiving[m.x].completed \/ m.idx \in receiving[m.x].acked
    /\ net' = Take(m, keep) \cup {AckPacket(m)}
    /\ UNCHANGED <<targetVars, senderVars, receiverVars>>

\* A fragment that was missing.  The last one completes the event, and the
\* main thread goes on to HandleReceivedPacket with the lock released.
AcceptFragment(n, m, keep) ==
    LET x      == m.x
        r      == Opened(m)
        hasAll == HasAll(r.acked \cup {m.idx}, r.size)
        taken  == Taken(x, pending[n][x.src])
    IN  /\ Addressed(n, m)
        /\ m.type = "data"
        /\ ~Malformed(m)
        /\ MayOpen(n, x)
        /\ m.total = r.size
        /\ ~r.completed /\ m.idx \notin r.acked
        /\ receiving' = [receiving EXCEPT ![x] = Kept(r, m.idx)]
        /\ pending' = [pending EXCEPT ![n][x.src] =
                          IF hasAll THEN Returned(x, taken) ELSE taken]
        /\ thread' = IF hasAll
                        THEN [thread EXCEPT ![n] = [op |-> "deliver", x |-> x,
                                                    fragments |-> r.data \cup {m.idx}]]
                        ELSE thread
        /\ completions' = IF hasAll THEN [completions EXCEPT ![x] = @ + 1] ELSE completions
        /\ net' = Take(m, keep) \cup {AckPacket(m)}
        /\ UNCHANGED <<targetVars, senderVars, delivered, early>>

HandlePacketV2(n, m, keep) ==
    \/ HandleAck(n, m, keep)
    \/ RefusePacket(n, m, keep)
    \/ AckAgain(n, m, keep)
    \/ AcceptFragment(n, m, keep)

\* HandleReceivedPacket: the fragments, in order, become the event the queue
\* gets.  (Events that the server's rate limiter then throws away count too.)
HandleReceivedPacket(n) ==
    /\ thread[n].op = "deliver"
    /\ delivered' = delivered \cup {[x |-> thread[n].x,
                                     fragments |-> thread[n].fragments]}
    /\ thread' = [thread EXCEPT ![n] = Idle]
    /\ UNCHANGED <<targetVars, senderVars, receiving, pending, countVars, net>>

-----------------------------------------------------------------------------
\* External: the transport, which promises nothing for these packets.
LosePacket(m) ==
    /\ net' = net \ {m}
    /\ UNCHANGED <<targetVars, senderVars, receiverVars>>

Next ==
    \/ \E n \in Node :
          \/ \E p \in Peers(n) : RegisterTarget(n, p) \/ UnregisterTarget(n, p)
          \/ \E to \in SUBSET targets[n], count \in 1 .. TotalPacketsMod :
                TriggerEventV2(n, to, count)
          \/ InsertSendEvent(n)
          \/ \E due \in SUBSET Sendable(n) :
                \E burst \in Bursts(due), expired \in SUBSET Expirable(n) :
                    NetworkTick(n, due, burst, expired)
          \/ \E m \in net, keep \in BOOLEAN : HandlePacketV2(n, m, keep)
          \/ HandleReceivedPacket(n)
    \/ \E m \in net : LosePacket(m)

Spec == Init /\ [][Next]_vars

\* The network thread ticks again and again, and each time the timers of a
\* target have run out it is served.
ServeTarget(x) ==
    \E due \in SUBSET Sendable(x.src) :
        /\ x \in due
        /\ \E burst \in Bursts(due), expired \in SUBSET Expirable(x.src) :
              NetworkTick(x.src, due, burst, expired)

\* A tick in which no timer has run out still removes who is gone.
DropGone(n) == Gone(n) # {} /\ NetworkTick(n, {}, << >>, {})

\* A fragment, or its acknowledgement, that is sent again and again arrives
\* now and then.
Arrives(type, x, i) ==
    \E m \in net : /\ m.type = type /\ m.x = x /\ m.idx = i
                   /\ HandlePacketV2(Addressee(m), m, FALSE)

\* The indices a fragment of x can have.
Fragments(x) == UNION {0 .. (count - 1) : count \in PacketCounts[x.id]}

\* The threads keep running, a connecting client gets registered, and the
\* transport loses no packet for ever.
Fairness ==
    /\ \A n \in Node :
          /\ WF_vars(InsertSendEvent(n))
          /\ WF_vars(HandleReceivedPacket(n))
          /\ WF_vars(DropGone(n))
          /\ \A p \in Peers(n) : WF_vars(RegisterTarget(n, p))
    /\ \A x \in Transfer :
          /\ WF_vars(ServeTarget(x))
          /\ \A type \in {"data", "ack"}, i \in Fragments(x) : SF_vars(Arrives(type, x, i))

FairSpec == Spec /\ Fairness

-----------------------------------------------------------------------------
(* Properties.                                                             *)

\* Every variable keeps its type; a pending counter is a byte.
TypeOK ==
    /\ targets \in [Node -> SUBSET Node]
    /\ pending \in [Node -> [Node -> Byte]]
    /\ eventId \in [Node -> Nat]
    /\ sendTargets \subseteq Transfer
    /\ sending \in [Transfer -> PerTargetData]
    /\ receiving \in [Transfer -> ReceiveEvent]
    /\ thread \in [Node -> {Idle} \cup Trigger \cup Deliver]
    /\ net \subseteq Message
    /\ accepted \in [Transfer -> Nat]
    /\ delivered \subseteq [x: Transfer, fragments: SUBSET Nat]
    /\ completions \in [Transfer -> Nat]
    /\ early \in [Transfer -> Nat]
    /\ closed \in [Node -> SUBSET Node]

\* x was put together at its target, and so given to HandleReceivedPacket.
Completed(x) == completions[x] > 0

\* Either side has let go of the other.
Severed(x) == x.src \in closed[x.dst] \/ x.dst \in closed[x.src]

\* The target has fragment i of x: in the record, or it had all of them.
HasFragment(x, i) == i \in receiving[x].acked \/ Completed(x)

\* What is handed to the event queue is the whole event: each fragment the
\* sender cut it into and nothing else, however the packets were reordered,
\* repeated or lost on the way.
WholeEvents ==
    \A d \in delivered : accepted[d.x] > 0 /\ d.fragments = 0 .. (accepted[d.x] - 1)

\* An event is put together, and so handed over, once, however its fragments
\* are repeated; and once more only each time the two minutes ran out on its
\* record while a fragment of it was still to come.
DeliveredOnce == \A x \in Transfer : completions[x] <= 1 + early[x]

\* A fragment counts as acknowledged only if the target has it (or has
\* dropped the source since): the sender skips no fragment that is missing.
AckedMeansReceived ==
    \A x \in Transfer : \A i \in sending[x].acked :
        HasFragment(x, i) \/ x.src \in closed[x.dst]

\* The sender forgets a target only when the target has the whole event or
\* one of the two has unregistered the other.
ForgottenMeansCompleted ==
    \A x \in Transfer :
        accepted[x] > 0 /\ x \notin sendTargets => Completed(x) \/ Severed(x)

\* Nothing is kept of an id that is not registered, so an id cannot inherit
\* half an event.
NothingOfUnregistered ==
    \A x \in Transfer : receiving[x] # NoEvent => x.src \in targets[x.dst]

\* The events of client p the server is still putting together.
Open(p) == {x \in Transfer : /\ x.dst = Server /\ x.src = p
                             /\ receiving[x] # NoEvent /\ ~receiving[x].completed}

\* The pending counter neither leaks nor invents slots: free slots and open
\* events of a client always add up to the configured limit.
PendingAccounting ==
    \A p \in targets[Server] :
        pending[Server][p] + Cardinality(Open(p)) = InitialPending(Server)

\* A record of an event from the same source went too early: what a late
\* fragment opens again may lack the acknowledged ones, and then keeps a slot
\* of the source for good.
Reopenable(x) == \E y \in Transfer : y.src = x.src /\ y.dst = x.dst /\ early[y] > 0

\* Every event triggered for a registered target is received by it, unless
\* one side drops the other or a record of the same source went too early: no
\* pattern of losses holds an event back for ever, and one that was refused at
\* the limit of pending events gets its turn.
EventuallyReceived ==
    \A x \in Transfer : accepted[x] > 0 ~> Completed(x) \/ Severed(x) \/ Reopenable(x)

\* The sender is rid of every target in the end, acknowledged or gone; only a
\* target that has dropped the sender without its knowing, or whose slots are
\* kept by records opened again, is served on.
EventuallyForgotten ==
    \A x \in Transfer :
        x \in sendTargets ~> x \notin sendTargets \/ x.src \in closed[x.dst] \/ Reopenable(x)

-----------------------------------------------------------------------------
(* What the component promises, abstractly.                                *)

Channel == INSTANCE EventChannel WITH
    sent     <- {x \in Transfer : accepted[x] > 0},
    held     <- sendTargets,
    received <- completions,
    lapses   <- early,
    severed  <- {x \in Transfer : Severed(x)}

\* The fragments, acknowledgements, resends and clean-ups of the component
\* implement a channel that forgets no event and hands each over once, and again
\* only after a lapse of its target's memory.
ImplementsChannel == Channel!Spec

-----------------------------------------------------------------------------
(* What a comment of the code says, and the code does not do.              *)

\* "when maxPendingEvents is set to 255 the target has infinite amount of
\* events": a target registered as unlimited is never out of slots.
UnlimitedNeverRunsOut ==
    \A n \in Node : \A p \in targets[n] :
        InitialPending(n) = Unlimited => pending[n][p] # 0

-----------------------------------------------------------------------------
(* The inductive invariant behind the safety properties.                   *)

\* Ids not given out yet have no trace anywhere.
NoTrace ==
    \A x \in Transfer :
        /\ x.id >= eventId[x.src] => accepted[x] = 0
        /\ accepted[x] = 0 => /\ x \notin sendTargets
                              /\ sending[x] = NoData
                              /\ receiving[x] = NoEvent
                              /\ ~Completed(x)
                              /\ early[x] = 0

\* An id is registered before it is closed, and whoever is being sent to was.
TargetsKnown ==
    /\ \A n \in Node : targets[n] \subseteq Peers(n) /\ targets[n] \cap closed[n] = {}
    /\ \A n \in Node : thread[n].op = "trigger" => thread[n].to \subseteq targets[n] \cup closed[n]
    /\ \A x \in sendTargets : x.dst \in targets[x.src] \cup closed[x.src]

\* Sender, packets and receiver agree on how an event is cut.
SizesAgree ==
    /\ \A x \in Transfer : accepted[x] <= TotalPacketsMod
    /\ \A x \in Transfer : sending[x] # NoData =>
            sending[x].size = accepted[x] /\ sending[x].acked \subseteq 0 .. (accepted[x] - 1)
    /\ \A m \in net : m.idx < accepted[m.x] /\ m.total = accepted[m.x] % TotalPacketsMod
    /\ \A x \in Transfer : receiving[x] # NoEvent =>
            /\ receiving[x].size = accepted[x]
            /\ receiving[x].acked \subseteq 0 .. (accepted[x] - 1)
            /\ receiving[x].data = receiving[x].acked
            /\ receiving[x].completed <=> receiving[x].acked = 0 .. (accepted[x] - 1)

\* What the main thread is about to hand over is a whole event of its own.
WholeEventInHand ==
    \A n \in Node : thread[n].op = "deliver" =>
        /\ thread[n].x.dst = n
        /\ accepted[thread[n].x] > 0
        /\ thread[n].fragments = 0 .. (accepted[thread[n].x] - 1)

\* A record says whether its event was put together since the last lapse.
RecordsTell ==
    \A x \in Transfer : receiving[x] # NoEvent =>
        completions[x] = IF receiving[x].completed THEN early[x] + 1 ELSE early[x]

\* An acknowledgement in flight is for a fragment that is there.
AckPacketsTrue ==
    \A m \in net : m.type = "ack" => HasFragment(m.x, m.idx) \/ m.x.src \in closed[m.x.dst]

\* With no record left, either nothing of the event comes any more or the lapse
\* was counted.
NothingLingers ==
    \A x \in Transfer : receiving[x] = NoEvent =>
        \/ completions[x] = early[x]
        \/ completions[x] = early[x] + 1 /\ (Quiet(x) \/ x.src \in closed[x.dst])

IInv ==
    /\ TypeOK
    /\ NoTrace
    /\ TargetsKnown
    /\ SizesAgree
    /\ WholeEventInHand
    /\ RecordsTell
    /\ AckPacketsTrue
    /\ NothingLingers
    /\ NothingOfUnregistered
    /\ WholeEvents
    /\ DeliveredOnce
    /\ AckedMeansReceived
    /\ ForgottenMeansCompleted
=============================================================================
