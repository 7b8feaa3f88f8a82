------------------------ MODULE EventReassembly_proofs ------------------------
(* Proofs about EventReassembly, for any number of clients, events, fragments *)
(* and any width of totalPackets and of the pending counter.                  *)
EXTENDS EventReassembly, TLAPS

\* A transfer goes from a node to one of its peers.
LEMMA TransferType ==
    ASSUME NEW x \in Transfer
    PROVE  x.src \in Node /\ x.dst \in Node /\ x.dst \in Peers(x.src) /\ x.id \in Nat
<1>1. PICK n \in Node : x \in [src: {n}, id: 0 .. (MaxEvents[n] - 1), dst: Peers(n)]
  BY DEF Transfer
<1>2. Peers(n) \subseteq Node
  BY DEF Peers, Node
<1>. QED
  BY <1>1, <1>2

\* The constants of the data have the types of the data.
LEMMA ConstantTypes ==
    /\ NoData \in PerTargetData
    /\ NoEvent \in ReceiveEvent
    /\ \A n \in Node : InitialPending(n) \in Byte
<1>1. NoData \in PerTargetData /\ NoEvent \in ReceiveEvent
  BY DEF NoData, NoEvent, PerTargetData, ReceiveEvent
<1>2. ASSUME NEW n \in Node PROVE InitialPending(n) \in Byte
  BY LimitAssumption DEF InitialPending, Byte
<1>. QED
  BY <1>1, <1>2

LEMMA Modulus ==
    ASSUME NEW c \in Nat, NEW k \in Nat \ {0}, c < k
    PROVE  c % k = c
OBVIOUS

\* Whatever the burst, it leaves lastBit a number and sends fragments that are
\* not acknowledged.
LEMMA BurstType ==
    ASSUME NEW d \in PerTargetData, NEW b \in BurstOutcomes(d)
    PROVE  b.lastBit \in Nat /\ b.sends \subseteq Unacked(d) /\ Unacked(d) \subseteq Nat
<1>1. Unacked(d) \subseteq Nat
  BY DEF Unacked, PerTargetData
<1>2. CASE \E i \in Ahead(d) : b = StopAfter(d, i)
  <2>1. PICK i \in Ahead(d) : b = StopAfter(d, i)
    BY <1>2
  <2>2. d.size \in Nat \ {0} /\ i \in Nat
    BY <1>1 DEF Ahead, Unacked, PerTargetData
  <2>3. (i + 1) % d.size \in Nat
    BY <2>2
  <2>. QED
    BY <1>1, <2>1, <2>3 DEF StopAfter, Ahead
<1>3. CASE \E i \in RewindPoints(d) : b = Rewind(d, i)
  BY <1>1, <1>3 DEF Rewind, RewindPoints, Ahead
<1>. QED
  BY <1>2, <1>3 DEF BurstOutcomes

-----------------------------------------------------------------------------
(* Type correctness, one lemma for the actions with more than one idea.     *)

\* The main thread's op tells what it is in the middle of.
LEMMA ThreadType ==
    ASSUME TypeOK, NEW n \in Node
    PROVE  /\ thread[n].op = "trigger" => thread[n] \in Trigger
           /\ thread[n].op = "deliver" => thread[n] \in Deliver
<1>1. thread[n] \in {Idle} \cup Trigger \cup Deliver
  BY DEF TypeOK
<1>2. \A t \in Trigger : t.op = "trigger"
  BY DEF Trigger
<1>3. \A t \in Deliver : t.op = "deliver"
  BY DEF Deliver
<1>4. Idle.op = "idle"
  BY DEF Idle
<1>. QED
  BY <1>1, <1>2, <1>3, <1>4

LEMMA TypeInsert ==
    ASSUME TypeOK, NEW n \in Node, InsertSendEvent(n)
    PROVE  TypeOK'
<1>1. thread[n] \in Trigger
  BY ThreadType DEF InsertSendEvent
<1>2. thread[n].count \in Nat
  BY <1>1, WidthAssumption DEF Trigger
<1>3. [size |-> thread[n].count, acked |-> {}, lastBit |-> 0] \in PerTargetData
  BY <1>2 DEF PerTargetData
<1>4. sending' \in [Transfer -> PerTargetData] /\ accepted' \in [Transfer -> Nat]
  BY <1>2, <1>3 DEF InsertSendEvent, TypeOK
<1>5. sendTargets' \subseteq Transfer /\ eventId' \in [Node -> Nat]
  BY DEF InsertSendEvent, TypeOK
<1>6. thread' \in [Node -> {Idle} \cup Trigger \cup Deliver]
  BY DEF InsertSendEvent, TypeOK
<1>. QED
  BY <1>4, <1>5, <1>6 DEF InsertSendEvent, TypeOK, targetVars, countVars

\* The packets a tick sends are packets of the transfers that are served.
LEMMA TypeTick ==
    ASSUME TypeOK, NEW n \in Node, NEW due \in SUBSET Sendable(n),
           NEW burst \in Bursts(due), NEW expired \in SUBSET Expirable(n),
           NetworkTick(n, due, burst, expired)
    PROVE  TypeOK'
<1>. DEFINE send == {x \in due : ~AllAcked(x)}
<1>1. send \subseteq Transfer /\ \A x \in send : burst[x] \in BurstOutcomes(sending[x])
  BY DEF Sendable, TypeOK, Bursts
<1>2. \A x \in send : /\ burst[x].lastBit \in Nat
                      /\ burst[x].sends \subseteq Nat
  BY <1>1, BurstType DEF TypeOK
<1>3. sending' \in [Transfer -> PerTargetData]
  <2>1. \A x \in send : [sending[x] EXCEPT !.lastBit = burst[x].lastBit] \in PerTargetData
    BY <1>1, <1>2 DEF TypeOK, PerTargetData
  <2>2. due \ {x \in due : AllAcked(x)} = send
    OBVIOUS
  <2>. QED
    BY <2>1, <2>2, ConstantTypes DEF NetworkTick, NetworkTickSendList, Left, TypeOK
<1>4. net' \subseteq Message
  <2>1. ASSUME NEW x \in send, NEW i \in burst[x].sends
        PROVE  DataPacket(x, i) \in Message
    <3>1. sending[x].size % TotalPacketsMod \in Nat
      BY <1>1, WidthAssumption DEF TypeOK, PerTargetData
    <3>. QED
      BY <1>1, <1>2, <3>1 DEF DataPacket, Message
  <2>2. due \ {x \in due : AllAcked(x)} = send
    OBVIOUS
  <2>3. net' = net \cup UNION {{DataPacket(x, i) : i \in burst[x].sends} : x \in send}
    BY <2>2 DEF NetworkTick, NetworkTickSendList
  <2>. QED
    BY <2>1, <2>3 DEF TypeOK
<1>5. receiving' \in [Transfer -> ReceiveEvent]
  BY ConstantTypes DEF NetworkTick, TypeOK
<1>6. sendTargets' \subseteq Transfer
  BY DEF NetworkTick, NetworkTickSendList, Left, TypeOK
<1>7. early' \in [Transfer -> Nat]
  BY DEF NetworkTick, TypeOK
<1>. QED
  BY <1>3, <1>4, <1>5, <1>6, <1>7 DEF NetworkTick, TypeOK, targetVars

LEMMA TypeAccept ==
    ASSUME TypeOK, NEW n \in Node, NEW m \in net, NEW keep \in BOOLEAN,
           AcceptFragment(n, m, keep)
    PROVE  TypeOK'
<1>. DEFINE x == m.x
            r == Opened(m)
            data == r.data \cup {m.idx}
            taken == Taken(x, pending[n][x.src])
<1>1. m \in Message /\ x \in Transfer /\ m.idx \in Nat /\ m.total \in Nat
  BY DEF TypeOK, Message
<1>2. x.dst = n /\ x.src \in Node
  BY <1>1, TransferType DEF AcceptFragment, Addressed, Addressee
<1>3. r \in ReceiveEvent
  BY <1>1, ConstantTypes DEF Opened, TypeOK, ReceiveEvent, NoEvent
<1>4. receiving' \in [Transfer -> ReceiveEvent]
  <2>1. [size |-> r.size, acked |-> r.acked \cup {m.idx}, data |-> data,
         completed |-> (r.acked \cup {m.idx} = 0 .. (r.size - 1))] \in ReceiveEvent
    BY <1>1, <1>3 DEF ReceiveEvent
  <2>. QED
    BY <2>1 DEF AcceptFragment, Kept, HasAll, TypeOK
<1>5. taken \in Byte /\ Returned(x, taken) \in Byte
  <2>1. pending[n][x.src] \in Byte
    BY <1>2 DEF TypeOK
  <2>2. receiving[x] = NoEvent => pending[n][x.src] # 0
    BY DEF AcceptFragment, MayOpen
  <2>3. taken \in Byte
    BY <2>1, <2>2, LimitAssumption DEF Taken, Byte
  <2>. QED
    BY <2>3, LimitAssumption DEF Returned, Byte
<1>6. pending' \in [Node -> [Node -> Byte]]
  BY <1>2, <1>5 DEF AcceptFragment, TypeOK
<1>7. thread' \in [Node -> {Idle} \cup Trigger \cup Deliver]
  <2>1. [op |-> "deliver", x |-> x, fragments |-> data] \in Deliver
    BY <1>1, <1>3 DEF Deliver, ReceiveEvent
  <2>. QED
    BY <2>1 DEF AcceptFragment, TypeOK
<1>8. net' \subseteq Message
  BY <1>1 DEF AcceptFragment, Take, AckPacket, Message, TypeOK
<1>9. completions' \in [Transfer -> Nat]
  BY <1>1 DEF AcceptFragment, TypeOK
<1>. QED
  BY <1>4, <1>6, <1>7, <1>8, <1>9 DEF AcceptFragment, TypeOK, targetVars, senderVars

LEMMA TypeStep ==
    ASSUME TypeOK, [Next]_vars
    PROVE  TypeOK'
<1>1. ASSUME NEW n \in Node, NEW p \in Peers(n), RegisterTarget(n, p)
      PROVE  TypeOK'
  <2>1. p \in Node
    BY DEF Peers, Node
  <2>2. targets' \in [Node -> SUBSET Node] /\ pending' \in [Node -> [Node -> Byte]]
    BY <1>1, <2>1, ConstantTypes DEF RegisterTarget, TypeOK
  <2>. QED
    BY <1>1, <2>2 DEF RegisterTarget, TypeOK, senderVars, countVars
<1>2. ASSUME NEW n \in Node, NEW p \in Peers(n), UnregisterTarget(n, p)
      PROVE  TypeOK'
  <2>1. p \in Node /\ 0 \in Byte
    BY LimitAssumption DEF Peers, Node, Byte
  <2>2. targets' \in [Node -> SUBSET Node] /\ closed' \in [Node -> SUBSET Node]
        /\ pending' \in [Node -> [Node -> Byte]]
    BY <1>2, <2>1 DEF UnregisterTarget, TypeOK
  <2>3. receiving' \in [Transfer -> ReceiveEvent] /\ sending' \in [Transfer -> PerTargetData]
        /\ sendTargets' \subseteq Transfer
    BY <1>2, ConstantTypes DEF UnregisterTarget, TypeOK
  <2>. QED
    BY <1>2, <2>2, <2>3 DEF UnregisterTarget, TypeOK, countVars
<1>3. ASSUME NEW n \in Node, NEW to \in SUBSET targets[n], NEW count \in 1 .. TotalPacketsMod,
             TriggerEventV2(n, to, count)
      PROVE  TypeOK'
  <2>1. [op |-> "trigger", to |-> to, count |-> count] \in Trigger
    BY DEF Trigger, TypeOK
  <2>2. thread' \in [Node -> {Idle} \cup Trigger \cup Deliver]
    BY <1>3, <2>1 DEF TriggerEventV2, TypeOK
  <2>. QED
    BY <1>3, <2>2 DEF TriggerEventV2, TypeOK, targetVars, senderVars, countVars
<1>4. ASSUME NEW n \in Node, InsertSendEvent(n) PROVE TypeOK'
  BY <1>4, TypeInsert
<1>5. ASSUME NEW n \in Node, NEW due \in SUBSET Sendable(n), NEW burst \in Bursts(due),
             NEW expired \in SUBSET Expirable(n), NetworkTick(n, due, burst, expired)
      PROVE  TypeOK'
  BY <1>5, TypeTick
<1>6. ASSUME NEW n \in Node, NEW m \in net, NEW keep \in BOOLEAN, HandlePacketV2(n, m, keep)
      PROVE  TypeOK'
  <2>1. m \in Message /\ m.x \in Transfer /\ m.idx \in Nat
    BY DEF TypeOK, Message
  <2>2. CASE HandleAck(n, m, keep)
    <3>1. sending' \in [Transfer -> PerTargetData]
      <4>1. sending[m.x] \in PerTargetData
        BY <2>1 DEF TypeOK
      <4>2. [sending[m.x] EXCEPT !.acked =
                IF m.idx < sending[m.x].size THEN @ \cup {m.idx} ELSE @] \in PerTargetData
        BY <2>1, <4>1 DEF PerTargetData
      <4>. QED
        BY <2>2, <4>2 DEF HandleAck, TypeOK
    <3>. QED
      BY <2>2, <3>1 DEF HandleAck, Take, TypeOK, targetVars, receiverVars
  <2>3. CASE RefusePacket(n, m, keep)
    BY <2>3 DEF RefusePacket, Take, TypeOK, targetVars, senderVars, receiverVars
  <2>4. CASE AckAgain(n, m, keep)
    <3>1. AckPacket(m) \in Message
      BY <2>1 DEF AckPacket, Message
    <3>. QED
      BY <2>4, <3>1 DEF AckAgain, Take, TypeOK, targetVars, senderVars, receiverVars
  <2>5. CASE AcceptFragment(n, m, keep)
    BY <2>5, TypeAccept
  <2>. QED
    BY <1>6, <2>2, <2>3, <2>4, <2>5 DEF HandlePacketV2
<1>7. ASSUME NEW n \in Node, HandleReceivedPacket(n)
      PROVE  TypeOK'
  <2>1. thread[n] \in Deliver
    BY <1>7, ThreadType DEF HandleReceivedPacket
  <2>2. delivered' \subseteq [x: Transfer, fragments: SUBSET Nat]
    BY <1>7, <2>1 DEF HandleReceivedPacket, TypeOK, Deliver
  <2>3. thread' \in [Node -> {Idle} \cup Trigger \cup Deliver]
    BY <1>7 DEF HandleReceivedPacket, TypeOK
  <2>. QED
    BY <1>7, <2>2, <2>3 DEF HandleReceivedPacket, TypeOK, targetVars, senderVars, countVars
<1>8. ASSUME NEW m \in net, LosePacket(m) PROVE TypeOK'
  BY <1>8 DEF LosePacket, TypeOK, targetVars, senderVars, receiverVars
<1>9. CASE UNCHANGED vars
  BY <1>9 DEF vars, TypeOK
<1>. QED
  BY <1>1, <1>2, <1>3, <1>4, <1>5, <1>6, <1>7, <1>8, <1>9 DEF Next

LEMMA InitType == Init => TypeOK
<1>1. Init => /\ sending \in [Transfer -> PerTargetData]
              /\ receiving \in [Transfer -> ReceiveEvent]
  BY ConstantTypes DEF Init
<1>2. 0 \in Byte
  BY LimitAssumption DEF Byte
<1>. QED
  BY <1>1, <1>2 DEF Init, TypeOK

\* Every reachable state is well typed; in particular a pending counter stays
\* a byte through every increment and decrement.
THEOREM TypeCorrect == Spec => []TypeOK
  BY InitType, TypeStep, PTL DEF Spec
=============================================================================
