--------------------------- MODULE StateBag_proofs ---------------------------
(***************************************************************************)
(* Proofs about StateBag: the type invariant, and that, as long as one     *)
(* thread of the server writes, updates reach a client in the order of the *)
(* changes, and copies agree once nothing is under way.                    *)
(***************************************************************************)
EXTENDS StateBag, TLAPS

LEMMA UpdateType ==
    ASSUME TypeOK
    PROVE  [value |-> data, version |-> version] \in Update
  BY DEF TypeOK, Update

\* Sending an update appends it to channels and leaves them channels.
LEMMA DeliverType ==
    ASSUME TypeOK, NEW S, NEW u \in Update, Deliver(S, u)
    PROVE  down' \in [Client -> Seq(Update)]
  BY DEF TypeOK, Deliver

LEMMA SendAllType ==
    ASSUME TypeOK, NEW S, SendAll(S)
    PROVE  down' \in [Client -> Seq(Update)] /\ excused' \in [Client -> BOOLEAN]
<1>1. CASE data = Absent
  BY <1>1 DEF SendAll, TypeOK
<1>2. CASE data # Absent
  <2>1. down' \in [Client -> Seq(Update)]
    BY <1>2, UpdateType, DeliverType DEF SendAll
  <2>2. excused' \in [Client -> BOOLEAN]
    BY <1>2 DEF SendAll, Settled, TypeOK
  <2> QED BY <2>1, <2>2
<1> QED BY <1>1, <1>2

LEMMA SetKeyInternalType ==
    ASSUME TypeOK, NEW t \in Thread, NEW v \in Data, NEW r \in BOOLEAN, SetKeyInternal(t, v, r)
    PROVE  /\ data' \in Data /\ version' \in Nat
           /\ pending' \in [Thread -> Update \cup {None}]
           /\ excused' \in [Client -> BOOLEAN]
<1>1. CASE v = data /\ UNCHANGED <<server, pending, excused>>
  BY <1>1 DEF TypeOK, server
<1>2. CASE v # data /\ SetKeyInternal(t, v, r)
  <2>1. data' \in Data /\ version' \in Nat
    BY <1>2 DEF SetKeyInternal, TypeOK
  <2>2. [value |-> v, version |-> version + 1] \in Update
    BY DEF Update, TypeOK
  <2>3. pending' \in [Thread -> Update \cup {None}]
    BY <1>2, <2>2 DEF SetKeyInternal, TypeOK
  <2>4. excused' \in [Client -> BOOLEAN]
    BY <1>2 DEF SetKeyInternal, TypeOK, Excuse
  <2> QED BY <2>1, <2>3, <2>4
<1> QED BY <1>1, <1>2 DEF SetKeyInternal

-----------------------------------------------------------------------------
(* The type invariant, one lemma for each group of actions. *)

LEMMA WriteActionsType ==
    ASSUME TypeOK,
           \/ \E v \in Data, r \in BOOLEAN : ScriptSet(v, r)
           \/ \E t \in Thread : SendToTargets(t)
           \/ \E c \in Client : HandlePacket(c) \/ RefusePacket(c)
           \/ RunTask
    PROVE  TypeOK'
<1>1. ASSUME NEW v \in Data, NEW r \in BOOLEAN, ScriptSet(v, r) PROVE TypeOK'
  <2>1. writes' \in Nat
    BY <1>1 DEF ScriptSet, Write, TypeOK
  <2>2. /\ data' \in Data /\ version' \in Nat
        /\ pending' \in [Thread -> Update \cup {None}]
        /\ excused' \in [Client -> BOOLEAN]
    BY <1>1, SetKeyInternalType DEF ScriptSet, Thread
  <2> QED BY <1>1, <2>1, <2>2 DEF ScriptSet, TypeOK, membership, clients
<1>2. ASSUME NEW t \in Thread, SendToTargets(t) PROVE TypeOK'
  <2>1. down' \in [Client -> Seq(Update)]
    BY <1>2, DeliverType DEF SendToTargets, TypeOK
  <2>2. excused' \in [Client -> BOOLEAN]
    BY <1>2 DEF SendToTargets, TypeOK
  <2>3. pending' \in [Thread -> Update \cup {None}]
    BY <1>2 DEF SendToTargets, TypeOK
  <2> QED BY <1>2, <2>1, <2>2, <2>3 DEF SendToTargets, TypeOK, server, membership, clients
<1>3. ASSUME NEW c \in Client, HandlePacket(c) PROVE TypeOK'
  <2>1. Head(up[c]) \in Data /\ up' \in [Client -> Seq(Data)]
    BY <1>3 DEF HandlePacket, TypeOK
  <2>2. CASE Handlers
    <3>1. [source |-> c, value |-> Head(up[c])] \in Task
      BY <2>1 DEF Task
    <3>2. tasks' = Append(tasks, [source |-> c, value |-> Head(up[c])])
      BY <1>3, <2>2 DEF HandlePacket
    <3>3. tasks' \in Seq(Task)
      BY <3>1, <3>2 DEF TypeOK
    <3> QED BY <1>3, <2>1, <2>2, <3>3 DEF HandlePacket, TypeOK, server, membership, clients
  <2>3. CASE ~Handlers
    BY <1>3, <2>1, <2>3, SetKeyInternalType DEF HandlePacket, Thread, TypeOK, membership, clients
  <2> QED BY <2>2, <2>3
<1>4. ASSUME NEW c \in Client, RefusePacket(c) PROVE TypeOK'
  <2>1. up' \in [Client -> Seq(Data)]
    BY <1>4 DEF RefusePacket, TypeOK
  <2> QED BY <1>4, <2>1 DEF RefusePacket, Excuse, TypeOK, server, membership, threads, clients
<1>5. CASE RunTask
  <2>1. /\ Head(tasks) \in Task
        /\ tasks' \in Seq(Task)
    BY <1>5 DEF RunTask, TypeOK
  <2>2. Head(tasks).value \in Data
    BY <2>1 DEF Task
  <2> QED BY <1>5, <2>1, <2>2, SetKeyInternalType DEF RunTask, Thread, TypeOK, membership, clients
<1> QED BY <1>1, <1>2, <1>3, <1>4, <1>5

LEMMA MembershipActionsType ==
    ASSUME TypeOK,
           \/ \E S \in SUBSET online : SetRoutingTargets(S)
           \/ \E p \in Client \cup {Nobody, Anyone} : SetOwningPeer(p)
           \/ \E c \in Client : \/ EnterScope(c) \/ RemoveRoutingTarget(c) \/ Connect(c)
                               \/ RegisterTarget(c) \/ Drop(c)
           \/ AddRoutingTarget \/ SendAllInitial
    PROVE  TypeOK'
<1>1. ASSUME NEW S \in SUBSET online, SetRoutingTargets(S) PROVE TypeOK'
  <2>1. down' \in [Client -> Seq(Update)] /\ excused' \in [Client -> BOOLEAN]
    BY <1>1, SendAllType DEF SetRoutingTargets
  <2>2. routing' \subseteq Client \cup {Nobody} /\ events' \in Nat
    BY <1>1 DEF SetRoutingTargets, Event, TypeOK
  <2> QED BY <1>1, <2>1, <2>2 DEF SetRoutingTargets, TypeOK, server, threads, clients
<1>2. ASSUME NEW c \in Client, EnterScope(c) PROVE TypeOK'
  <2>1. events' \in Nat
    BY <1>2 DEF EnterScope, Event, TypeOK
  <2> QED BY <1>2, <2>1 DEF EnterScope, TypeOK, server, membership, clients
<1>3. CASE AddRoutingTarget
  BY <1>3, SendAllType DEF AddRoutingTarget, TypeOK, server, clients
<1>4. ASSUME NEW c \in Client, RemoveRoutingTarget(c) PROVE TypeOK'
  <2>1. routing' \subseteq Client \cup {Nobody} /\ events' \in Nat
    BY <1>4 DEF RemoveRoutingTarget, Event, TypeOK
  <2> QED BY <1>4, <2>1 DEF RemoveRoutingTarget, TypeOK, server, threads, clients
<1>5. ASSUME NEW p \in Client \cup {Nobody, Anyone}, SetOwningPeer(p) PROVE TypeOK'
  BY <1>5 DEF SetOwningPeer, Event, TypeOK, server, threads, clients
<1>6. ASSUME NEW c \in Client, Connect(c) PROVE TypeOK'
  <2>1. excused' \in [Client -> BOOLEAN]
    <3> DEFINE routed == c \in Targets
    <3>1. routed \in BOOLEAN /\ excused' = [excused EXCEPT ![c] = routed]
      BY <1>6 DEF Connect
    <3> HIDE DEF routed
    <3> QED BY <3>1 DEF TypeOK
  <2>2. online' \subseteq Client /\ events' \in Nat
    BY <1>6 DEF Connect, Event, TypeOK
  <2> QED BY <1>6, <2>1, <2>2 DEF Connect, TypeOK, server, threads, clients
<1>7. ASSUME NEW c \in Client, RegisterTarget(c) PROVE TypeOK'
  BY <1>7 DEF RegisterTarget, TypeOK, server, clients
<1>8. CASE SendAllInitial
  <2>1. down' \in [Client -> Seq(Update)] /\ excused' \in [Client -> BOOLEAN]
    BY <1>8, SendAllType DEF SendAllInitial, TypeOK
  <2> QED BY <1>8, <2>1 DEF SendAllInitial, TypeOK, server, membership, clients
<1>9. ASSUME NEW c \in Client, Drop(c) PROVE TypeOK'
  <2>1. down' \in [Client -> Seq(Update)] /\ up' \in [Client -> Seq(Data)]
    BY <1>9 DEF Drop, TypeOK
  <2>2. targets' \subseteq Client /\ routing' \subseteq Client \cup {Nobody}
    BY <1>9 DEF Drop, TypeOK
  <2>3. /\ copy' \in [Client -> Data] /\ seen' \in [Client -> Nat]
        /\ immediate' \in [Client -> BOOLEAN]
        /\ queued' \in [Client -> Data \cup {None}] /\ wanted' \in [Client -> Data \cup {None}]
    BY <1>9, FlagAssumption DEF Drop, TypeOK, Data
  <2>4. excused' \in [Client -> BOOLEAN] /\ online' \subseteq Client /\ events' \in Nat
    BY <1>9 DEF Drop, Event, TypeOK
  <2> QED BY <1>9, <2>1, <2>2, <2>3, <2>4 DEF Drop, TypeOK, server, threads
<1> QED BY <1>1, <1>2, <1>3, <1>4, <1>5, <1>6, <1>7, <1>8, <1>9

LEMMA ClientActionsType ==
    ASSUME TypeOK, NEW c \in Client,
           \/ \E v \in Data, r \in BOOLEAN : ClientSet(c, v, r)
           \/ ClientReceive(c) \/ ProcessCreateAck(c) \/ Forget(c)
    PROVE  TypeOK'
<1>1. ASSUME NEW v \in Data, NEW r \in BOOLEAN, ClientSet(c, v, r) PROVE TypeOK'
  <2>1. up' \in [Client -> Seq(Data)]
    BY <1>1 DEF ClientSet, TypeOK
  <2>2. queued' \in [Client -> Data \cup {None}] /\ wanted' \in [Client -> Data \cup {None}]
    BY <1>1 DEF ClientSet, TypeOK
  <2>3. copy' \in [Client -> Data] /\ excused' \in [Client -> BOOLEAN]
    BY <1>1 DEF ClientSet, Excuse, TypeOK
  <2>4. writes' \in Nat
    BY <1>1 DEF ClientSet, Write, TypeOK
  <2> QED BY <1>1, <2>1, <2>2, <2>3, <2>4 DEF ClientSet, TypeOK, server, membership, threads
<1>2. CASE ClientReceive(c)
  <2>1. Head(down[c]) \in Update /\ down' \in [Client -> Seq(Update)]
    BY <1>2 DEF ClientReceive, TypeOK
  <2>2. copy' \in [Client -> Data] /\ seen' \in [Client -> Nat]
    BY <1>2, <2>1 DEF ClientReceive, TypeOK, Update
  <2> QED BY <1>2, <2>1, <2>2 DEF ClientReceive, TypeOK, server, membership, threads
<1>3. CASE ProcessCreateAck(c)
  <2>1. up' \in [Client -> Seq(Data)]
    BY <1>3 DEF ProcessCreateAck, TypeOK
  <2> QED BY <1>3, <2>1 DEF ProcessCreateAck, Excuse, TypeOK, server, membership, threads
<1>4. CASE Forget(c)
  BY <1>4, FlagAssumption DEF Forget, Data, TypeOK, server, membership, threads
<1> QED BY <1>1, <1>2, <1>3, <1>4

LEMMA NextType == TypeOK /\ [Next]_vars => TypeOK'
<1> SUFFICES ASSUME TypeOK, [Next]_vars PROVE TypeOK'
  OBVIOUS
<1>1. CASE Next
  BY <1>1, WriteActionsType, MembershipActionsType, ClientActionsType, Zenon DEF Next
<1>2. CASE UNCHANGED vars
  BY <1>2 DEF vars, server, membership, threads, clients, TypeOK
<1> QED BY <1>1, <1>2

\* Every variable keeps its type, in the threads' intermediate states too.
THEOREM TypeInvariance == Spec => []TypeOK
<1>1. Init => TypeOK
  BY FlagAssumption DEF Init, TypeOK, Data
<1> QED BY <1>1, NextType, PTL DEF Spec

-----------------------------------------------------------------------------
(* The order of updates.  The argument: one thread writes, and it sends each *)
(* change before it makes the next; so whatever is sent, by it or by SendAll,*)
(* is the latest change, and nothing later can be in a channel already.      *)

\* Either every write is a task or script of the main thread, or scripts only read.
SingleWriter == Handlers \/ ~Scripts

OneWriter ==
    /\ Handlers => pending["sync"] = None
    /\ ~Handlers => pending["main"] = None /\ tasks = <<>>

PendingIsLast == \A t \in Thread : pending[t] # None => pending[t].version = version

Ordered(s, low, high) ==
    \A i \in 1 .. Len(s) : /\ low <= s[i].version /\ s[i].version <= high
                           /\ \A j \in 1 .. i : s[j].version <= s[i].version

InOrder == \A c \in Client : seen[c] <= version /\ Ordered(down[c], seen[c], version)

WriteOrder == OneWriter /\ PendingIsLast /\ InOrder

\* The version of an update is a number.
LEMMA VersionsAreNumbers ==
    ASSUME NEW s \in Seq(Update), NEW i \in 1 .. Len(s)
    PROVE  s[i].version \in Nat
<1>1. s[i] \in Update
  OBVIOUS
<1> QED BY <1>1 DEF Update

\* The latest version may be appended.
LEMMA AppendOrdered ==
    ASSUME NEW s \in Seq(Update), NEW low \in Nat, NEW high \in Nat,
           low <= high, Ordered(s, low, high), NEW u \in Update, u.version = high
    PROVE  Ordered(Append(s, u), low, high)
<1> DEFINE a == Append(s, u)
<1>1. /\ Len(s) \in Nat /\ Len(a) = Len(s) + 1 /\ a[Len(s) + 1] = u
      /\ \A i \in 1 .. Len(s) : a[i] = s[i]
  OBVIOUS
<1> HIDE DEF a
<1>2. ASSUME NEW i \in 1 .. Len(s)
      PROVE  /\ low <= a[i].version /\ a[i].version <= high
             /\ \A j \in 1 .. i : a[j].version <= a[i].version
  BY <1>1 DEF Ordered
<1>3. /\ low <= a[Len(s) + 1].version /\ a[Len(s) + 1].version <= high
      /\ \A j \in 1 .. Len(s) + 1 : a[j].version <= a[Len(s) + 1].version
  BY <1>1 DEF Ordered
<1> QED BY <1>1, <1>2, <1>3 DEF Ordered, a

\* What is left when the first update has been applied follows that update.
LEMMA TailOrdered ==
    ASSUME NEW s \in Seq(Update), s # <<>>, NEW low \in Nat, NEW high \in Nat,
           Ordered(s, low, high)
    PROVE  /\ low <= Head(s).version /\ Head(s).version <= high
           /\ Ordered(Tail(s), Head(s).version, high)
<1> DEFINE r == Tail(s)
<1>1. /\ Len(s) \in Nat \ {0} /\ Len(r) = Len(s) - 1 /\ Head(s) = s[1]
      /\ \A i \in 1 .. Len(s) - 1 : r[i] = s[i + 1]
  OBVIOUS
<1>2. \A i \in 1 .. Len(s) : s[i].version \in Nat
  BY VersionsAreNumbers
<1> HIDE DEF r
<1>3. low <= s[1].version /\ s[1].version <= high
  BY <1>1 DEF Ordered
<1>4. ASSUME NEW i \in 1 .. Len(r)
      PROVE  /\ s[1].version <= r[i].version /\ r[i].version <= high
             /\ \A j \in 1 .. i : r[j].version <= r[i].version
  <2>1. i \in 1 .. Len(s) /\ i + 1 \in 1 .. Len(s) /\ r[i] = s[i + 1]
    BY <1>1
  <2>2. s[1].version <= s[i + 1].version /\ s[i + 1].version <= high
    BY <2>1, <1>1 DEF Ordered
  <2>3. ASSUME NEW j \in 1 .. i PROVE r[j].version <= r[i].version
    <3>1. j + 1 \in 1 .. i + 1 /\ r[j] = s[j + 1]
      BY <1>1, <2>1
    <3> QED BY <2>1, <3>1 DEF Ordered
  <2> QED BY <2>1, <2>2, <2>3
<1> QED BY <1>1, <1>3, <1>4 DEF Ordered, r

\* Sending the latest change keeps every channel in order.
LEMMA DeliverOrdered ==
    ASSUME TypeOK, InOrder, NEW S, NEW u \in Update, u.version = version, Deliver(S, u),
           UNCHANGED <<seen, version>>
    PROVE  InOrder'
<1> SUFFICES ASSUME NEW c \in Client
             PROVE  seen[c] <= version /\ Ordered(down'[c], seen[c], version)
  BY DEF InOrder
<1>1. /\ seen[c] \in Nat /\ version \in Nat /\ down[c] \in Seq(Update)
      /\ seen[c] <= version /\ Ordered(down[c], seen[c], version)
  BY DEF TypeOK, InOrder
<1>2. Ordered(Append(down[c], u), seen[c], version)
  BY <1>1, AppendOrdered
<1>3. down'[c] = Append(down[c], u) \/ down'[c] = down[c]
  BY DEF Deliver
<1> QED BY <1>1, <1>2, <1>3

LEMMA SendAllOrdered ==
    ASSUME TypeOK, InOrder, NEW S, SendAll(S), UNCHANGED <<seen, version>>
    PROVE  InOrder'
<1>1. CASE data = Absent
  BY <1>1 DEF SendAll, InOrder
<1>2. CASE data # Absent
  BY <1>2, UpdateType, DeliverOrdered DEF SendAll
<1> QED BY <1>1, <1>2

\* A change that has not been sent is not in a channel.
LEMMA ChangeOrdered ==
    ASSUME TypeOK, InOrder, NEW t \in Thread, NEW v \in Data, NEW r \in BOOLEAN,
           SetKeyInternal(t, v, r), UNCHANGED <<seen, down>>
    PROVE  InOrder'
<1>1. version' = version \/ version' = version + 1
  BY DEF SetKeyInternal, server
<1> SUFFICES ASSUME NEW c \in Client
             PROVE  seen[c] <= version' /\ Ordered(down[c], seen[c], version')
  BY DEF InOrder
<1>2. /\ seen[c] \in Nat /\ version \in Nat /\ down[c] \in Seq(Update)
      /\ seen[c] <= version /\ Ordered(down[c], seen[c], version)
  BY DEF TypeOK, InOrder
<1>3. \A i \in 1 .. Len(down[c]) : down[c][i].version \in Nat
  BY <1>2, VersionsAreNumbers
<1> QED BY <1>1, <1>2, <1>3 DEF Ordered

\* The writer has nothing else to send when it writes, and the other thread never has.
LEMMA ChangePending ==
    ASSUME TypeOK, PendingIsLast, NEW t \in Thread, NEW v \in Data, NEW r \in BOOLEAN,
           SetKeyInternal(t, v, r), \A w \in Thread : pending[w] = None
    PROVE  PendingIsLast' /\ \A w \in Thread \ {t} : pending'[w] = None
<1>1. CASE UNCHANGED pending
  BY <1>1 DEF PendingIsLast
<1>2. CASE /\ version' = version + 1
           /\ pending' = [pending EXCEPT ![t] =
                 [value |-> v, version |-> version + 1]]
  BY <1>2 DEF PendingIsLast, TypeOK
<1> QED BY <1>1, <1>2 DEF SetKeyInternal

\* Steps that change none of what the invariant speaks of.
LEMMA OrderUntouched ==
    ASSUME WriteOrder, UNCHANGED <<version, pending, tasks, down, seen>>
    PROVE  WriteOrder'
  BY DEF WriteOrder, OneWriter, PendingIsLast, InOrder

\* Steps that send what the bag has.
LEMMA OrderSendAll ==
    ASSUME TypeOK, WriteOrder, NEW S, SendAll(S), UNCHANGED <<version, pending, tasks, seen>>
    PROVE  WriteOrder'
  BY SendAllOrdered DEF WriteOrder, OneWriter, PendingIsLast

LEMMA OrderWrites ==
    ASSUME SingleWriter, TypeOK, WriteOrder,
           \/ \E v \in Data, r \in BOOLEAN : ScriptSet(v, r)
           \/ \E t \in Thread : SendToTargets(t)
           \/ \E c \in Client : HandlePacket(c) \/ RefusePacket(c)
           \/ RunTask
    PROVE  WriteOrder'
<1>1. ASSUME NEW v \in Data, NEW r \in BOOLEAN, ScriptSet(v, r) PROVE WriteOrder'
  <2>1. Handlers /\ \A w \in Thread : pending[w] = None
    BY <1>1 DEF ScriptSet, MainIdle, SingleWriter, WriteOrder, OneWriter, Thread
  <2>2. InOrder'
    BY <1>1, ChangeOrdered DEF ScriptSet, WriteOrder, Thread, clients
  <2>3. PendingIsLast' /\ pending'["sync"] = None
    BY <1>1, <2>1, ChangePending DEF ScriptSet, WriteOrder, Thread
  <2> QED BY <2>1, <2>2, <2>3 DEF WriteOrder, OneWriter
<1>2. ASSUME NEW t \in Thread, SendToTargets(t) PROVE WriteOrder'
  <2>1. pending[t] \in Update /\ pending[t].version = version
    BY <1>2 DEF SendToTargets, TypeOK, WriteOrder, PendingIsLast
  <2>2. InOrder'
    BY <1>2, <2>1, DeliverOrdered DEF SendToTargets, WriteOrder, server, clients
  <2>3. pending' = [pending EXCEPT ![t] = None] /\ UNCHANGED <<version, tasks>>
    BY <1>2 DEF SendToTargets, server
  <2>4. PendingIsLast' /\ OneWriter'
    BY <2>3 DEF PendingIsLast, OneWriter, WriteOrder, TypeOK, Thread
  <2> QED BY <2>2, <2>4 DEF WriteOrder
<1>3. ASSUME NEW c \in Client, HandlePacket(c) PROVE WriteOrder'
  <2>1. CASE Handlers
    BY <1>3, <2>1 DEF HandlePacket, WriteOrder, OneWriter, PendingIsLast, InOrder, server, clients
  <2>2. CASE ~Handlers
    <3>1. Head(up[c]) \in Data
      BY <1>3 DEF HandlePacket, TypeOK
    <3>2. SetKeyInternal("sync", Head(up[c]), TRUE) /\ UNCHANGED <<tasks, down, seen>>
      BY <1>3, <2>2 DEF HandlePacket, clients
    <3>3. (\A w \in Thread : pending[w] = None) /\ tasks = <<>>
      BY <1>3, <2>2 DEF HandlePacket, SyncIdle, WriteOrder, OneWriter, Thread
    <3>4. InOrder'
      BY <3>1, <3>2, ChangeOrdered DEF WriteOrder, Thread
    <3>5. PendingIsLast' /\ pending'["main"] = None
      BY <3>1, <3>2, <3>3, ChangePending DEF WriteOrder, Thread
    <3> QED BY <2>2, <3>2, <3>3, <3>4, <3>5 DEF WriteOrder, OneWriter
  <2> QED BY <2>1, <2>2
<1>4. ASSUME NEW c \in Client, RefusePacket(c) PROVE WriteOrder'
  BY <1>4, OrderUntouched DEF RefusePacket, server, threads, clients
<1>5. CASE RunTask
  <2>1. Handlers /\ \A w \in Thread : pending[w] = None
    BY <1>5 DEF RunTask, MainIdle, WriteOrder, OneWriter, Thread
  <2>2. Head(tasks) \in Task
    BY <1>5 DEF RunTask, TypeOK
  <2>3. Head(tasks).value \in Data
    BY <2>2 DEF Task
  <2>4. InOrder'
    BY <1>5, <2>3, ChangeOrdered DEF RunTask, WriteOrder, Thread, clients
  <2>5. PendingIsLast' /\ pending'["sync"] = None
    BY <1>5, <2>1, <2>3, ChangePending DEF RunTask, WriteOrder, Thread
  <2> QED BY <2>1, <2>4, <2>5 DEF WriteOrder, OneWriter
<1> QED BY <1>1, <1>2, <1>3, <1>4, <1>5

LEMMA OrderMembership ==
    ASSUME TypeOK, WriteOrder,
           \/ \E S \in SUBSET online : SetRoutingTargets(S)
           \/ \E p \in Client \cup {Nobody, Anyone} : SetOwningPeer(p)
           \/ \E c \in Client : \/ EnterScope(c) \/ RemoveRoutingTarget(c) \/ Connect(c)
                               \/ RegisterTarget(c) \/ Drop(c)
           \/ AddRoutingTarget \/ SendAllInitial
    PROVE  WriteOrder'
<1>1. ASSUME NEW S \in SUBSET online, SetRoutingTargets(S) PROVE WriteOrder'
  BY <1>1, OrderSendAll DEF SetRoutingTargets, server, threads, clients
<1>2. CASE AddRoutingTarget
  BY <1>2, OrderSendAll DEF AddRoutingTarget, server, clients
<1>3. CASE SendAllInitial
  <2>1. UNCHANGED <<version, pending, tasks, seen>>
    BY <1>3 DEF SendAllInitial, server, clients
  <2>2. SendAll({joining}) \/ UNCHANGED down
    BY <1>3 DEF SendAllInitial
  <2> QED BY <2>1, <2>2, OrderSendAll, OrderUntouched
<1>4. ASSUME NEW c \in Client, Drop(c) PROVE WriteOrder'
  <2>1. UNCHANGED <<version, pending, tasks>>
    BY <1>4 DEF Drop, server, threads
  <2>2. InOrder'
    <3> SUFFICES ASSUME NEW d \in Client
                 PROVE  seen'[d] <= version /\ Ordered(down'[d], seen'[d], version)
      BY <2>1 DEF InOrder
    <3>1. CASE d = c
      <4>1. seen'[d] = 0 /\ down'[d] = <<>> /\ version \in Nat
        BY <1>4, <3>1 DEF Drop, TypeOK
      <4> QED BY <4>1 DEF Ordered
    <3>2. CASE d # c
      <4>1. seen'[d] = seen[d] /\ down'[d] = down[d]
        BY <1>4, <3>2 DEF Drop, TypeOK
      <4> QED BY <4>1 DEF WriteOrder, InOrder
    <3> QED BY <3>1, <3>2
  <2> QED BY <2>1, <2>2 DEF WriteOrder, OneWriter, PendingIsLast
<1>5. ASSUME NEW p \in Client \cup {Nobody, Anyone}, SetOwningPeer(p) PROVE WriteOrder'
  BY <1>5, OrderUntouched DEF SetOwningPeer, server, threads, clients
<1>6. ASSUME NEW c \in Client,
             EnterScope(c) \/ RemoveRoutingTarget(c) \/ Connect(c) \/ RegisterTarget(c)
      PROVE WriteOrder'
  BY <1>6, OrderUntouched
     DEF EnterScope, RemoveRoutingTarget, Connect, RegisterTarget, server, threads, clients
<1> QED BY <1>1, <1>2, <1>3, <1>4, <1>5, <1>6

\* The client applies the oldest update on its way.
LEMMA ReceiveFacts ==
    ASSUME TypeOK, WriteOrder, NEW c \in Client, ClientReceive(c)
    PROVE  /\ seen[c] <= seen'[c] /\ seen'[c] <= version
           /\ Ordered(down'[c], seen'[c], version)
           /\ \A d \in Client \ {c} : seen'[d] = seen[d] /\ down'[d] = down[d]
<1>1. /\ down[c] \in Seq(Update) /\ down[c] # <<>> /\ seen[c] \in Nat /\ version \in Nat
      /\ seen'[c] = Head(down[c]).version /\ down'[c] = Tail(down[c])
      /\ \A d \in Client \ {c} : seen'[d] = seen[d] /\ down'[d] = down[d]
  BY DEF ClientReceive, TypeOK
<1>2. Ordered(down[c], seen[c], version)
  BY DEF WriteOrder, InOrder
<1> QED BY <1>1, <1>2, TailOrdered

LEMMA OrderClients ==
    ASSUME TypeOK, WriteOrder, NEW c \in Client,
           \/ \E v \in Data, r \in BOOLEAN : ClientSet(c, v, r)
           \/ ClientReceive(c) \/ ProcessCreateAck(c) \/ Forget(c)
    PROVE  WriteOrder'
<1>1. ASSUME NEW v \in Data, NEW r \in BOOLEAN, ClientSet(c, v, r) PROVE WriteOrder'
  BY <1>1, OrderUntouched DEF ClientSet, server, threads
<1>2. CASE ClientReceive(c)
  <2>1. UNCHANGED <<version, pending, tasks>>
    BY <1>2 DEF ClientReceive, server, threads
  <2>2. InOrder'
    BY <1>2, <2>1, ReceiveFacts DEF InOrder, WriteOrder
  <2> QED BY <2>1, <2>2 DEF WriteOrder, OneWriter, PendingIsLast
<1>3. CASE ProcessCreateAck(c) \/ Forget(c)
  BY <1>3, OrderUntouched DEF ProcessCreateAck, Forget, server, threads
<1> QED BY <1>1, <1>2, <1>3

LEMMA OrderNext == SingleWriter /\ TypeOK /\ WriteOrder /\ [Next]_vars => WriteOrder'
<1> SUFFICES ASSUME SingleWriter, TypeOK, WriteOrder, [Next]_vars PROVE WriteOrder'
  OBVIOUS
<1>1. CASE Next
  BY <1>1, OrderWrites, OrderMembership, OrderClients, Zenon DEF Next
<1>2. CASE UNCHANGED vars
  BY <1>2, OrderUntouched DEF vars, server, threads, clients
<1> QED BY <1>1, <1>2

\* Only receiving and dropping change what a client has seen.
LEMMA SeenChanges ==
    ASSUME [Next]_vars
    PROVE  \/ UNCHANGED seen
           \/ \E c \in Client : Drop(c) \/ ClientReceive(c)
<1>1. CASE Next
  <2>1. ASSUME NEW v \in Data, NEW r \in BOOLEAN, ScriptSet(v, r) PROVE UNCHANGED seen
    BY <2>1 DEF ScriptSet, clients
  <2>2. ASSUME NEW v \in Data, NEW r \in BOOLEAN, NEW c \in Client, ClientSet(c, v, r)
        PROVE  UNCHANGED seen
    BY <2>2 DEF ClientSet
  <2>3. ASSUME NEW t \in Thread, SendToTargets(t) PROVE UNCHANGED seen
    BY <2>3 DEF SendToTargets, clients
  <2>4. ASSUME RunTask \/ AddRoutingTarget \/ SendAllInitial PROVE UNCHANGED seen
    BY <2>4 DEF RunTask, AddRoutingTarget, SendAllInitial, clients
  <2>5. ASSUME NEW S \in SUBSET online, SetRoutingTargets(S) PROVE UNCHANGED seen
    BY <2>5 DEF SetRoutingTargets, clients
  <2>6. ASSUME NEW p \in Client \cup {Nobody, Anyone}, SetOwningPeer(p) PROVE UNCHANGED seen
    BY <2>6 DEF SetOwningPeer, clients
  <2>7. ASSUME NEW c \in Client,
               \/ HandlePacket(c) \/ RefusePacket(c) \/ EnterScope(c)
               \/ RemoveRoutingTarget(c) \/ Connect(c) \/ RegisterTarget(c)
               \/ ProcessCreateAck(c) \/ Forget(c)
        PROVE  UNCHANGED seen
    BY <2>7 DEF HandlePacket, RefusePacket, EnterScope, RemoveRoutingTarget, Connect,
                RegisterTarget, ProcessCreateAck, Forget, clients
  <2> QED BY <1>1, <2>1, <2>2, <2>3, <2>4, <2>5, <2>6, <2>7, Zenon DEF Next
<1>2. CASE UNCHANGED vars
  BY <1>2 DEF vars, clients
<1> QED BY <1>1, <1>2

\* While one thread of the server writes, no client is ever taken back to an older
\* value, whatever the routing, the connections and the other thread do meanwhile.
THEOREM UpdatesInOrder == SingleWriter => (Spec => NeverBackwards)
<1> SUFFICES ASSUME SingleWriter PROVE Spec => NeverBackwards
  OBVIOUS
<1>1. Init => TypeOK /\ WriteOrder
  <2> SUFFICES ASSUME Init PROVE TypeOK /\ WriteOrder
    OBVIOUS
  <2>1. TypeOK
    BY FlagAssumption DEF Init, TypeOK, Data
  <2>2. WriteOrder
    BY DEF Init, WriteOrder, OneWriter, PendingIsLast, InOrder, Ordered, Thread
  <2> QED BY <2>1, <2>2
<1>2. TypeOK /\ WriteOrder /\ [Next]_vars => (TypeOK /\ WriteOrder)'
  BY NextType, OrderNext
<1>3. TypeOK /\ WriteOrder /\ [Next]_vars
        => [\A c \in online \cap online' : seen[c] <= seen'[c]]_vars
  <2> SUFFICES ASSUME TypeOK, WriteOrder, [Next]_vars, NEW c \in online \cap online'
               PROVE  seen[c] <= seen'[c]
    OBVIOUS
  <2>1. c \in Client /\ seen[c] \in Nat
    BY DEF TypeOK
  <2>2. CASE UNCHANGED seen
    BY <2>1, <2>2
  <2>3. ASSUME NEW d \in Client, Drop(d) PROVE seen[c] <= seen'[c]
    <3>1. c # d
      BY <2>3 DEF Drop
    <3> QED BY <2>1, <2>3, <3>1 DEF Drop, TypeOK
  <2>4. ASSUME NEW d \in Client, ClientReceive(d) PROVE seen[c] <= seen'[c]
    BY <2>1, <2>4, ReceiveFacts
  <2> QED BY <2>2, <2>3, <2>4, SeenChanges
<1> QED BY <1>1, <1>2, <1>3, PTL DEF Spec, NeverBackwards
-----------------------------------------------------------------------------
(* Agreement.  The argument: once the writer has sent its change, a client   *)
(* the bag is for has the server's value, or has it last on its way, or made *)
(* a change that is still on its way to the server (Told).                   *)

\* What the channels and queues of a client may hold.
Connections ==
    /\ \A c \in Client : c \notin online => copy[c] = Absent /\ down[c] = <<>>
    /\ \A c \in Client : immediate[c] => queued[c] = None
    /\ useParentTargets => routing = {} /\ entering = None

PendingIsData == \A t \in Thread : pending[t] # None => pending[t].value = data

Rests == \A t \in Thread : pending[t] = None

\* Whom the bag is for; a bag that has no value is for everybody.
Due(c) == /\ c \in online /\ ~excused[c]
          /\ data = Absent \/ (c \in Targets /\ joining # c)

\* The last of the client's tasks is its last change.
LastTask(c, list) ==
    \E i \in 1 .. Len(list) : /\ list[i].source = c /\ list[i].value = copy[c]
                              /\ \A j \in i + 1 .. Len(list) : list[j].source # c

\* The last change of the client is queued, or on its way, or a task.
Underway(c) == IF queued[c] # None THEN wanted[c] = copy[c]
               ELSE IF up[c] # <<>> THEN up[c][Len(up[c])] = copy[c]
               ELSE LastTask(c, tasks)

Told(c) == IF down[c] # <<>> THEN down[c][Len(down[c])].value = data
           ELSE copy[c] = data \/ Underway(c)

Agreeing == Rests => \A c \in Client : Due(c) => Told(c)

AgreeInv == Connections /\ PendingIsData /\ Agreeing

\* The last of a sequence, when something is appended or taken from its front.
LEMMA AppendEnds ==
    ASSUME NEW T, NEW s \in Seq(T), NEW x \in T
    PROVE  Append(s, x) # <<>> /\ Append(s, x)[Len(Append(s, x))] = x
<1> DEFINE a == Append(s, x)
<1>1. Len(s) \in Nat /\ Len(a) = Len(s) + 1 /\ a[Len(s) + 1] = x
  OBVIOUS
<1>2. a = <<>> => Len(a) = 0
  OBVIOUS
<1> HIDE DEF a
<1> QED BY <1>1, <1>2 DEF a

LEMMA TailEnds ==
    ASSUME NEW T, NEW s \in Seq(T), s # <<>>
    PROVE  /\ Head(s) \in T
           /\ Tail(s) # <<>> => Tail(s)[Len(Tail(s))] = s[Len(s)]
           /\ Tail(s) = <<>> => s[Len(s)] = Head(s)
<1> DEFINE r == Tail(s)
<1>1. /\ Len(s) \in Nat \ {0} /\ Head(s) = s[1] /\ s[1] \in T /\ r \in Seq(T)
      /\ Len(r) = Len(s) - 1 /\ \A i \in 1 .. Len(s) - 1 : r[i] = s[i + 1]
  OBVIOUS
<1> HIDE DEF r
<1>2. r = <<>> <=> Len(r) = 0
  BY <1>1
<1>3. Len(s) \in Nat /\ (r # <<>> => Len(r) \in 1 .. Len(s) - 1 /\ Len(r) + 1 = Len(s))
  BY <1>1, <1>2
<1> QED BY <1>1, <1>2, <1>3 DEF r

\* What is sent to a client is the last on its way.
LEMMA DeliverTells ==
    ASSUME TypeOK, NEW S, NEW u \in Update, u.value = data, Deliver(S, u), data' = data,
           NEW c \in S \cap online, c \in Client
    PROVE  Told(c)'
<1>1. down'[c] = Append(down[c], u) /\ down[c] \in Seq(Update)
  BY DEF Deliver, TypeOK
<1>2. down'[c] # <<>> /\ down'[c][Len(down'[c])] = u
  BY <1>1, AppendEnds
<1> QED BY <1>2 DEF Told

\* Steps that change nothing of what Told says of a client.
LEMMA ToldKept ==
    ASSUME NEW c \in Client, Told(c), down'[c] = down[c], data' = data, copy'[c] = copy[c],
           queued'[c] = queued[c], wanted'[c] = wanted[c], up'[c] = up[c], tasks' = tasks
    PROVE  Told(c)'
  BY DEF Told, Underway, LastTask

\* Steps after which nobody has become due and no channel or value changed.
LEMMA AgreeUntouched ==
    ASSUME AgreeInv, UNCHANGED <<useParentTargets, data, pending, tasks, down, up, copy,
                                 immediate, queued, wanted, online>>,
           useParentTargets => UNCHANGED <<routing, entering>>,
           \A c \in Client : Due(c)' => Due(c)
    PROVE  AgreeInv'
<1>1. Connections' /\ PendingIsData'
  BY DEF AgreeInv, Connections, PendingIsData
<1>2. Agreeing'
  <2> SUFFICES ASSUME Rests', NEW c \in Client, Due(c)' PROVE Told(c)'
    BY DEF Agreeing
  <2>1. Told(c)
    BY DEF AgreeInv, Agreeing, Rests
  <2> QED BY <2>1, ToldKept
<1> QED BY <1>1, <1>2 DEF AgreeInv

\* SendAll: who becomes due by it is told by it.
LEMMA AgreeSendAll ==
    ASSUME TypeOK, AgreeInv, NEW S, SendAll(S),
           UNCHANGED <<useParentTargets, data, pending, tasks, up, copy, immediate, queued,
                       wanted, online>>,
           useParentTargets => routing' = {} /\ entering' = None,
           \A c \in Client : c \in Targets' /\ joining' # c =>
               c \in S \/ (c \in Targets /\ joining # c)
    PROVE  AgreeInv'
<1>1. CASE data = Absent
  <2>1. UNCHANGED <<down, excused>>
    BY <1>1 DEF SendAll
  <2>2. Connections' /\ PendingIsData'
    BY <2>1 DEF AgreeInv, Connections, PendingIsData
  <2>3. Agreeing'
    <3> SUFFICES ASSUME Rests', NEW c \in Client, Due(c)' PROVE Told(c)'
      BY DEF Agreeing
    <3>1. Due(c) /\ Rests
      BY <1>1, <2>1 DEF Due, Rests
    <3> QED BY <2>1, <3>1, ToldKept DEF AgreeInv, Agreeing
  <2> QED BY <2>2, <2>3 DEF AgreeInv
<1>2. CASE data # Absent
  <2> DEFINE u == [value |-> data, version |-> version]
  <2>1. Deliver(S, u) /\ u.value = data /\ u \in Update /\ excused' = Settled(S)
    BY <1>2, UpdateType DEF SendAll
  <2> HIDE DEF u
  <2>2. PendingIsData'
    BY DEF AgreeInv, PendingIsData
  <2>3. Connections'
    BY <2>1 DEF AgreeInv, Connections, Deliver
  <2>4. Agreeing'
    <3> SUFFICES ASSUME Rests', NEW c \in Client, Due(c)' PROVE Told(c)'
      BY DEF Agreeing
    <3>1. c \in online /\ (c \in S \/ (c \in Targets /\ joining # c))
      BY <1>2 DEF Due
    <3>2. CASE c \in S
      BY <2>1, <3>1, <3>2, DeliverTells
    <3>3. CASE c \notin S
      <4>1. excused'[c] = excused[c] /\ down'[c] = down[c]
        BY <2>1, <3>3 DEF Settled, Deliver, TypeOK
      <4>2. Due(c) /\ Rests
        BY <3>1, <3>3, <4>1 DEF Due, Rests
      <4> QED BY <4>1, <4>2, ToldKept DEF AgreeInv, Agreeing
    <3> QED BY <3>2, <3>3
  <2> QED BY <2>2, <2>3, <2>4 DEF AgreeInv
<1> QED BY <1>1, <1>2

\* A write of the server: the change is pending, or everybody is excused, or there is
\* none.  `c' has told the value that is written.
LEMMA AgreeWrite ==
    ASSUME TypeOK, AgreeInv, Rests, NEW t \in Thread, NEW v \in Data, NEW r \in BOOLEAN,
           SetKeyInternal(t, v, r),
           UNCHANGED <<useParentTargets, routing, entering, joining, targets, online, down,
                       copy, immediate, queued, wanted>>,
           \A c \in Client : UNCHANGED <<data, excused>> /\ Told(c) => Told(c)'
    PROVE  AgreeInv'
<1>1. Connections'
  BY DEF AgreeInv, Connections
<1>2. CASE UNCHANGED <<server, pending, excused>>
  <2>1. PendingIsData'
    BY <1>2 DEF AgreeInv, PendingIsData, server
  <2>2. Agreeing'
    <3> SUFFICES ASSUME Rests', NEW c \in Client, Due(c)' PROVE Told(c)'
      BY DEF Agreeing
    <3>1. Due(c)
      BY <1>2 DEF Due, Targets, server
    <3> QED BY <1>2, <3>1 DEF AgreeInv, Agreeing, server
  <2> QED BY <1>1, <2>1, <2>2 DEF AgreeInv
<1>3. CASE data' = v /\ pending' = [pending EXCEPT ![t] = [value |-> v, version |-> version + 1]]
  <2>1. pending'[t] = [value |-> v, version |-> version + 1]
        /\ \A w \in Thread : w # t => pending'[w] = None
    BY <1>3 DEF TypeOK, Rests
  <2>2. PendingIsData'
    BY <1>3, <2>1 DEF PendingIsData
  <2>3. pending'[t] \in Update
    BY <2>1 DEF Update, TypeOK
  <2>4. ~Rests'
    BY <2>3, DistinctAssumption DEF Rests
  <2> QED BY <1>1, <2>2, <2>4 DEF AgreeInv, Agreeing
<1>4. CASE excused' = Excuse(Client) /\ UNCHANGED pending
  <2>1. \A c \in Client : excused'[c]
    BY <1>4 DEF Excuse
  <2> QED BY <1>1, <1>4, <2>1 DEF AgreeInv, Agreeing, Due, PendingIsData, Rests
<1> QED BY <1>2, <1>3, <1>4 DEF SetKeyInternal

\* The change is sent: to whom the bag is for, and who is not told is excused.
LEMMA AgreeSend ==
    ASSUME TypeOK, AgreeInv, NEW t \in Thread, SendToTargets(t)
    PROVE  AgreeInv'
<1>1. pending[t] \in Update /\ pending[t].value = data
  BY DEF SendToTargets, TypeOK, AgreeInv, PendingIsData
<1>2. /\ Deliver(Targets, pending[t]) /\ pending' = [pending EXCEPT ![t] = None]
      /\ UNCHANGED <<useParentTargets, data, targets, routing, online, joining, entering, copy,
                     immediate, queued, wanted>>
  BY DEF SendToTargets, server, membership, clients
<1>3. PendingIsData'
  BY <1>2 DEF AgreeInv, PendingIsData, TypeOK
<1>4. Connections'
  BY <1>2 DEF AgreeInv, Connections, Deliver
<1>5. Agreeing'
  <2> SUFFICES ASSUME NEW c \in Client, Due(c)' PROVE Told(c)'
    BY DEF Agreeing
  <2>1. c \in online /\ ~excused'[c] /\ (data = Absent \/ c \in Targets)
    BY <1>2 DEF Due, Targets
  <2>2. c \in Targets
    BY <1>1, <2>1 DEF SendToTargets
  <2> QED BY <1>1, <1>2, <2>1, <2>2, DeliverTells
<1> QED BY <1>3, <1>4, <1>5 DEF AgreeInv

\* The server takes the oldest packet of a client.
LEMMA PacketTaken ==
    ASSUME TypeOK, NEW c \in Client, up[c] # <<>>, up' = [up EXCEPT ![c] = Tail(@)]
    PROVE  /\ Head(up[c]) \in Data
           /\ up'[c] # <<>> => up'[c][Len(up'[c])] = up[c][Len(up[c])]
           /\ up'[c] = <<>> => up[c][Len(up[c])] = Head(up[c])
           /\ \A d \in Client : d # c => up'[d] = up[d]
<1>1. up[c] \in Seq(Data) /\ up'[c] = Tail(up[c]) /\ \A d \in Client : d # c => up'[d] = up[d]
  BY DEF TypeOK
<1> QED BY <1>1, TailEnds

\* ... and makes it a task: the last task of the client, if it was its last packet.
LEMMA TaskAppended ==
    ASSUME TypeOK, NEW c \in Client, NEW v \in Data,
           tasks' = Append(tasks, [source |-> c, value |-> v])
    PROVE  /\ v = copy[c] => LastTask(c, tasks')
           /\ \A d \in Client : d # c /\ LastTask(d, tasks) => LastTask(d, tasks')
<1> DEFINE n == Len(tasks)
<1>1. /\ tasks \in Seq(Task) /\ n \in Nat /\ Len(tasks') = n + 1
      /\ tasks'[n + 1] = [source |-> c, value |-> v] /\ \A i \in 1 .. n : tasks'[i] = tasks[i]
  BY DEF TypeOK, Task
<1>2. ASSUME v = copy[c] PROVE LastTask(c, tasks')
  BY <1>1, <1>2 DEF LastTask
<1>3. ASSUME NEW d \in Client, d # c, LastTask(d, tasks) PROVE LastTask(d, tasks')
  <2>1. PICK i \in 1 .. n : /\ tasks[i].source = d /\ tasks[i].value = copy[d]
                            /\ \A j \in i + 1 .. n : tasks[j].source # d
    BY <1>3 DEF LastTask
  <2>2. i \in 1 .. n + 1 /\ tasks'[i] = tasks[i]
    BY <1>1
  <2>3. ASSUME NEW j \in i + 1 .. n + 1 PROVE tasks'[j].source # d
    <3>1. CASE j = n + 1
      BY <1>1, <1>3, <3>1
    <3>2. CASE j # n + 1
      <4>1. j \in 1 .. n /\ j \in i + 1 .. n
        BY <1>1, <3>2
      <4> QED BY <1>1, <2>1, <4>1
    <3> QED BY <3>1, <3>2
  <2> QED BY <1>1, <2>1, <2>2, <2>3 DEF LastTask
<1> QED BY <1>2, <1>3

\* The oldest task is taken: nobody else's last one.
LEMMA TaskTaken ==
    ASSUME TypeOK, tasks # <<>>, tasks' = Tail(tasks), UNCHANGED copy, NEW c \in Client,
           LastTask(c, tasks), Head(tasks).value # copy[c]
    PROVE  LastTask(c, tasks')
<1> DEFINE n == Len(tasks)
<1>1. /\ tasks \in Seq(Task) /\ n \in Nat \ {0} /\ Len(tasks') = n - 1 /\ Head(tasks) = tasks[1]
      /\ \A i \in 1 .. n - 1 : tasks'[i] = tasks[i + 1]
  BY DEF TypeOK
<1>2. PICK i \in 1 .. n : /\ tasks[i].source = c /\ tasks[i].value = copy[c]
                          /\ \A j \in i + 1 .. n : tasks[j].source # c
  BY DEF LastTask
<1>3. i # 1
  BY <1>1, <1>2
<1>4. i - 1 \in 1 .. n - 1 /\ tasks'[i - 1] = tasks[i]
  BY <1>1, <1>3
<1>5. ASSUME NEW j \in (i - 1) + 1 .. n - 1 PROVE tasks'[j].source # c
  <2>1. j \in 1 .. n - 1 /\ j + 1 \in i + 1 .. n
    BY <1>1
  <2> QED BY <1>1, <1>2, <2>1
<1> QED BY <1>1, <1>2, <1>4, <1>5 DEF LastTask

\* A packet of a client becomes a task, or is written at once.
LEMMA AgreeHandle ==
    ASSUME TypeOK, AgreeInv, WriteOrder, NEW c \in Client, HandlePacket(c)
    PROVE  AgreeInv'
<1>1. /\ up[c] # <<>> /\ up' = [up EXCEPT ![c] = Tail(@)]
      /\ UNCHANGED <<useParentTargets, targets, routing, online, joining, entering, down, copy,
                     immediate, queued, wanted>>
  BY DEF HandlePacket, membership, clients
<1>2. CASE Handlers
  <2>1. /\ tasks' = Append(tasks, [source |-> c, value |-> Head(up[c])])
        /\ UNCHANGED <<data, pending, excused>>
    BY <1>2 DEF HandlePacket, server
  <2>2. ASSUME NEW d \in Client, Told(d) PROVE Told(d)'
    <3>1. CASE d = c
      <4>1. CASE up'[c] = <<>>
        <5>1. up[c][Len(up[c])] = copy[c] => LastTask(c, tasks')
          BY <1>1, <2>1, <4>1, PacketTaken, TaskAppended
        <5>2. LastTask(c, tasks)' = LastTask(c, tasks')
          BY <1>1 DEF LastTask
        <5> QED BY <1>1, <2>1, <2>2, <3>1, <4>1, <5>1, <5>2 DEF Told, Underway
      <4>2. CASE up'[c] # <<>>
        BY <1>1, <2>1, <2>2, <3>1, <4>2, PacketTaken DEF Told, Underway
      <4> QED BY <4>1, <4>2
    <3>2. CASE d # c
      <4>1. up'[d] = up[d] /\ (LastTask(d, tasks) => LastTask(d, tasks'))
        BY <1>1, <2>1, <3>2, PacketTaken, TaskAppended
      <4>2. LastTask(d, tasks)' = LastTask(d, tasks')
        BY <1>1 DEF LastTask
      <4> QED BY <1>1, <2>1, <2>2, <4>1, <4>2 DEF Told, Underway
    <3> QED BY <3>1, <3>2
  <2>3. Connections' /\ PendingIsData'
    BY <1>1, <2>1 DEF AgreeInv, Connections, PendingIsData
  <2>4. Agreeing'
    BY <1>1, <2>1, <2>2 DEF AgreeInv, Agreeing, Rests, Due, Targets
  <2> QED BY <2>3, <2>4 DEF AgreeInv
<1>3. CASE ~Handlers
  <2>1. SetKeyInternal("sync", Head(up[c]), TRUE) /\ UNCHANGED tasks
    BY <1>3 DEF HandlePacket
  <2>2. Rests
    BY <1>3 DEF HandlePacket, SyncIdle, WriteOrder, OneWriter, Thread, Rests
  <2>3. Head(up[c]) \in Data
    BY <1>1, PacketTaken
  <2>4. ASSUME NEW d \in Client, UNCHANGED <<data, excused>>, Told(d) PROVE Told(d)'
    <3>1. data = Head(up[c])
      BY <2>1, <2>4 DEF SetKeyInternal
    <3>2. CASE d = c
      <4>1. CASE up'[c] = <<>>
        <5>1. up[c][Len(up[c])] = data
          BY <1>1, <3>1, <4>1, PacketTaken
        <5> QED BY <1>1, <2>1, <2>4, <3>2, <4>1, <5>1 DEF Told, Underway, LastTask
      <4>2. CASE up'[c] # <<>>
        BY <1>1, <2>1, <2>4, <3>2, <4>2, PacketTaken DEF Told, Underway
      <4> QED BY <4>1, <4>2
    <3>3. CASE d # c
      <4>1. up'[d] = up[d]
        BY <1>1, <3>3, PacketTaken
      <4> QED BY <1>1, <2>1, <2>4, <4>1, ToldKept
    <3> QED BY <3>2, <3>3
  <2> QED BY <1>1, <2>1, <2>2, <2>3, <2>4, AgreeWrite DEF Thread
<1> QED BY <1>2, <1>3

\* A task is done.
LEMMA AgreeTask ==
    ASSUME TypeOK, AgreeInv, WriteOrder, RunTask
    PROVE  AgreeInv'
<1>1. /\ tasks # <<>> /\ tasks' = Tail(tasks) /\ SetKeyInternal("main", Head(tasks).value, TRUE)
      /\ UNCHANGED <<useParentTargets, targets, routing, online, joining, entering, down, up,
                     copy, immediate, queued, wanted>>
  BY DEF RunTask, membership, clients
<1>2. Rests
  BY DEF RunTask, MainIdle, WriteOrder, OneWriter, Thread, Rests
<1>3. Head(tasks).value \in Data
  <2>1. Head(tasks) \in Task
    BY <1>1 DEF TypeOK
  <2> QED BY <2>1 DEF Task
<1>4. ASSUME NEW d \in Client, UNCHANGED <<data, excused>>, Told(d) PROVE Told(d)'
  <2>1. data = Head(tasks).value
    BY <1>1, <1>4 DEF SetKeyInternal
  <2>2. copy[d] = data \/ (LastTask(d, tasks) => LastTask(d, tasks'))
    BY <1>1, <2>1, TaskTaken
  <2>3. LastTask(d, tasks)' = LastTask(d, tasks')
    BY <1>1 DEF LastTask
  <2> QED BY <1>1, <1>4, <2>2, <2>3 DEF Told, Underway
<1> QED BY <1>1, <1>2, <1>3, <1>4, AgreeWrite DEF Thread

\* A packet is refused, and its client excused.
LEMMA AgreeRefuse ==
    ASSUME TypeOK, AgreeInv, NEW c \in Client, RefusePacket(c)
    PROVE  AgreeInv'
<1>1. /\ up[c] # <<>> /\ up' = [up EXCEPT ![c] = Tail(@)] /\ excused' = Excuse({c})
      /\ UNCHANGED <<useParentTargets, data, pending, tasks, targets, routing, online, joining,
                     entering, down, copy, immediate, queued, wanted>>
  BY DEF RefusePacket, membership, clients, server, threads
<1>2. Connections' /\ PendingIsData'
  BY <1>1 DEF AgreeInv, Connections, PendingIsData
<1>3. Agreeing'
  <2> SUFFICES ASSUME Rests', NEW d \in Client, Due(d)' PROVE Told(d)'
    BY DEF Agreeing
  <2>1. d # c /\ ~excused[d]
    BY <1>1 DEF Due, Excuse
  <2>2. up'[d] = up[d]
    BY <1>1, <2>1, PacketTaken
  <2>3. Told(d)
    BY <1>1, <2>1 DEF AgreeInv, Agreeing, Rests, Due, Targets
  <2> QED BY <1>1, <2>2, <2>3, ToldKept
<1> QED BY <1>2, <1>3 DEF AgreeInv

LEMMA AgreeWrites ==
    ASSUME SingleWriter, TypeOK, AgreeInv, WriteOrder,
           \/ \E v \in Data, r \in BOOLEAN : ScriptSet(v, r)
           \/ \E t \in Thread : SendToTargets(t)
           \/ \E c \in Client : HandlePacket(c) \/ RefusePacket(c)
           \/ RunTask
    PROVE  AgreeInv'
<1>1. ASSUME NEW v \in Data, NEW r \in BOOLEAN, ScriptSet(v, r) PROVE AgreeInv'
  <2>1. Rests
    BY <1>1 DEF ScriptSet, MainIdle, SingleWriter, WriteOrder, OneWriter, Thread, Rests
  <2>2. /\ SetKeyInternal("main", v, r) /\ UNCHANGED <<tasks, up>>
        /\ UNCHANGED <<useParentTargets, targets, routing, online, joining, entering, down,
                       copy, immediate, queued, wanted>>
    BY <1>1 DEF ScriptSet, membership, clients
  <2>3. \A d \in Client : UNCHANGED <<data, excused>> /\ Told(d) => Told(d)'
    BY <2>2, ToldKept
  <2> QED BY <2>1, <2>2, <2>3, AgreeWrite DEF Thread
<1> QED BY <1>1, AgreeSend, AgreeHandle, AgreeRefuse, AgreeTask

-----------------------------------------------------------------------------

\* Somebody connects to an empty bag, or to a slot that was routed already.
LEMMA AgreeConnect ==
    ASSUME TypeOK, AgreeInv, NEW c \in Client, Connect(c)
    PROVE  AgreeInv'
<1>1. /\ c \notin online /\ online' = online \cup {c}
      /\ excused' = [excused EXCEPT ![c] = c \in Targets]
      /\ UNCHANGED <<useParentTargets, data, pending, tasks, targets, routing, joining,
                     entering, down, up, copy, immediate, queued, wanted>>
  BY DEF Connect, server, threads, clients
<1>2. Connections' /\ PendingIsData'
  BY <1>1 DEF AgreeInv, Connections, PendingIsData
<1>3. Agreeing'
  <2> SUFFICES ASSUME Rests', NEW d \in Client, Due(d)' PROVE Told(d)'
    BY DEF Agreeing
  <2>1. CASE d = c
    <3>1. copy[c] = Absent /\ down[c] = <<>>
      BY <1>1 DEF AgreeInv, Connections
    <3>2. c \notin Targets
      BY <1>1, <2>1 DEF Due, TypeOK
    <3>3. data = Absent
      BY <1>1, <2>1, <3>2 DEF Due, Targets
    <3> QED BY <1>1, <2>1, <3>1, <3>3 DEF Told
  <2>2. CASE d # c
    <3>1. excused'[d] = excused[d]
      BY <1>1, <2>2 DEF TypeOK
    <3>2. Told(d)
      BY <1>1, <2>2, <3>1 DEF AgreeInv, Agreeing, Rests, Due, Targets
    <3> QED BY <1>1, <3>2, ToldKept
  <2> QED BY <2>1, <2>2
<1> QED BY <1>2, <1>3 DEF AgreeInv

\* Somebody drops: nothing changes for the others.
LEMMA AgreeDrop ==
    ASSUME TypeOK, AgreeInv, NEW c \in Client, Drop(c)
    PROVE  AgreeInv'
<1>1. /\ online' = online \ {c} /\ targets' \subseteq targets /\ routing' \subseteq routing
      /\ down' = [down EXCEPT ![c] = <<>>] /\ copy' = [copy EXCEPT ![c] = Absent]
      /\ queued' = [queued EXCEPT ![c] = None] /\ wanted' = [wanted EXCEPT ![c] = None]
      /\ UNCHANGED <<useParentTargets, data, pending, tasks, joining, entering, excused>>
  BY DEF Drop, server, threads
<1>2. \A d \in Client : d # c => up'[d] = up[d]
  BY DEF Drop, TypeOK
<1>3. \A d \in Client : immediate'[d] => queued'[d] = None
  BY DEF Drop, TypeOK, AgreeInv, Connections
<1>4. Connections' /\ PendingIsData'
  BY <1>1, <1>3 DEF AgreeInv, Connections, PendingIsData, TypeOK
<1>5. Agreeing'
  <2> SUFFICES ASSUME Rests', NEW d \in Client, Due(d)' PROVE Told(d)'
    BY DEF Agreeing
  <2>1. d # c
    BY <1>1 DEF Due
  <2>2. Told(d)
    BY <1>1 DEF AgreeInv, Agreeing, Rests, Due, Targets
  <2> QED BY <1>1, <1>2, <2>1, <2>2, ToldKept DEF TypeOK
<1> QED BY <1>4, <1>5 DEF AgreeInv

LEMMA AgreeMembership ==
    ASSUME TypeOK, AgreeInv,
           \/ \E S \in SUBSET online : SetRoutingTargets(S)
           \/ \E p \in Client \cup {Nobody, Anyone} : SetOwningPeer(p)
           \/ \E c \in Client : \/ EnterScope(c) \/ RemoveRoutingTarget(c) \/ Connect(c)
                               \/ RegisterTarget(c) \/ Drop(c)
           \/ AddRoutingTarget \/ SendAllInitial
    PROVE  AgreeInv'
<1>1. ASSUME NEW S \in SUBSET online, SetRoutingTargets(S) PROVE AgreeInv'
  <2>1. /\ SendAll(S \ routing) /\ ~useParentTargets /\ joining = None
        /\ routing' = S \cup {Nobody}
        /\ UNCHANGED <<useParentTargets, data, pending, tasks, up, copy, immediate, queued,
                       wanted, online, joining>>
    BY <1>1 DEF SetRoutingTargets, server, threads, clients, MainIdle
  <2>2. \A c \in Client : joining # c /\ Nobody # c
    BY <2>1, DistinctAssumption
  <2>3. \A c \in Client : c \in Targets' => c \in S \ routing \/ c \in Targets
    BY <2>1, <2>2 DEF Targets
  <2> QED BY <2>1, <2>2, <2>3, AgreeSendAll
<1>2. CASE AddRoutingTarget
  <2>1. /\ SendAll({entering} \ routing) /\ entering # None
        /\ routing' = routing \cup {entering}
        /\ UNCHANGED <<useParentTargets, data, pending, tasks, up, copy, immediate, queued,
                       wanted, online, joining>>
    BY <1>2 DEF AddRoutingTarget, server, clients
  <2>2. ~useParentTargets
    BY <2>1 DEF AgreeInv, Connections
  <2>3. \A c \in Client : c \in Targets' => c \in {entering} \ routing \/ c \in Targets
    BY <2>1, <2>2 DEF Targets
  <2> QED BY <2>1, <2>2, <2>3, AgreeSendAll
<1>3. CASE SendAllInitial
  <2>1. /\ UNCHANGED <<useParentTargets, data, pending, tasks, up, copy, immediate, queued,
                       wanted, online, targets, routing, entering>>
        /\ joining' = None /\ Targets' = Targets
    BY <1>3 DEF SendAllInitial, server, membership, clients, Targets
  <2>2. CASE SendAll({joining})
    BY <2>1, <2>2, AgreeSendAll DEF AgreeInv, Connections
  <2>3. CASE routing # {} /\ joining \notin routing /\ UNCHANGED <<down, excused>>
    <3>1. ~useParentTargets /\ joining \notin Targets
      BY <2>3 DEF AgreeInv, Connections, Targets
    <3>2. \A c \in Client : Due(c)' => Due(c)
      BY <2>1, <2>3, <3>1 DEF Due
    <3> QED BY <2>1, <2>3, <3>2, AgreeUntouched
  <2> QED BY <1>3, <2>2, <2>3 DEF SendAllInitial
<1>4. ASSUME NEW p \in Client \cup {Nobody, Anyone}, SetOwningPeer(p) PROVE AgreeInv'
  <2>1. /\ UNCHANGED <<useParentTargets, data, pending, tasks, down, up, copy, immediate,
                       queued, wanted, online, routing, entering>>
        /\ \A c \in Client : Due(c)' => Due(c)
    BY <1>4 DEF SetOwningPeer, server, threads, clients, Due, Targets
  <2> QED BY <2>1, AgreeUntouched
<1>5. ASSUME NEW c \in Client, EnterScope(c) PROVE AgreeInv'
  <2>1. /\ UNCHANGED <<useParentTargets, data, pending, tasks, down, up, copy, immediate,
                       queued, wanted, online, routing>>
        /\ ~useParentTargets /\ \A d \in Client : Due(d)' => Due(d)
    BY <1>5 DEF EnterScope, server, membership, clients, Due, Targets
  <2> QED BY <2>1, AgreeUntouched
<1>6. ASSUME NEW c \in Client, RemoveRoutingTarget(c) PROVE AgreeInv'
  <2>1. /\ UNCHANGED <<useParentTargets, data, pending, tasks, down, up, copy, immediate,
                       queued, wanted, online, entering>>
        /\ c \in routing /\ \A d \in Client : Due(d)' => Due(d)
    BY <1>6 DEF RemoveRoutingTarget, server, threads, clients, Due, Targets
  <2>2. ~useParentTargets
    BY <2>1 DEF AgreeInv, Connections
  <2> QED BY <2>1, <2>2, AgreeUntouched
<1>7. ASSUME NEW c \in Client, RegisterTarget(c) PROVE AgreeInv'
  <2>1. /\ UNCHANGED <<useParentTargets, data, pending, tasks, down, up, copy, immediate,
                       queued, wanted, online, routing, entering, excused>>
        /\ joining = None /\ joining' = c /\ targets' = targets \cup {c}
    BY <1>7 DEF RegisterTarget, server, clients, MainIdle
  <2>2. \A d \in Client : joining # d
    BY <2>1, DistinctAssumption
  <2>3. \A d \in Client : Due(d)' => Due(d)
    BY <2>1, <2>2 DEF Due, Targets
  <2> QED BY <2>1, <2>3, AgreeUntouched
<1> QED BY <1>1, <1>2, <1>3, <1>4, <1>5, <1>6, <1>7, AgreeConnect, AgreeDrop

-----------------------------------------------------------------------------

\* A client changes its copy: the change is under way, or it is excused.
LEMMA AgreeClientSet ==
    ASSUME TypeOK, AgreeInv, NEW c \in Client, NEW v \in Data, NEW r \in BOOLEAN,
           ClientSet(c, v, r)
    PROVE  AgreeInv'
<1>1. /\ c \in online /\ copy' = [copy EXCEPT ![c] = v]
      /\ UNCHANGED <<useParentTargets, data, pending, tasks, targets, routing, online, joining,
                     entering, down, immediate>>
  BY DEF ClientSet, server, membership, threads
<1>2. \A d \in Client : d # c =>
          /\ copy'[d] = copy[d] /\ up'[d] = up[d] /\ queued'[d] = queued[d]
          /\ wanted'[d] = wanted[d]
  BY DEF ClientSet, TypeOK
<1>3. PendingIsData'
  BY <1>1 DEF AgreeInv, PendingIsData
<1>4. Connections'
  <2>1. \A d \in Client : immediate[d] => queued'[d] = None
    BY DEF ClientSet, TypeOK, AgreeInv, Connections
  <2> QED BY <1>1, <1>2, <2>1 DEF AgreeInv, Connections
<1>5. r => Underway(c)'
  <2> SUFFICES ASSUME r PROVE Underway(c)'
    OBVIOUS
  <2>1. copy'[c] = v
    BY <1>1 DEF TypeOK
  <2>2. CASE immediate[c]
    <3>1. up'[c] = Append(up[c], v) /\ up[c] \in Seq(Data) /\ queued'[c] = None
      BY <2>2 DEF ClientSet, TypeOK, AgreeInv, Connections
    <3>2. up'[c] # <<>> /\ up'[c][Len(up'[c])] = v
      BY <3>1, AppendEnds
    <3> QED BY <2>1, <3>1, <3>2 DEF Underway
  <2>3. CASE ~immediate[c]
    <3>1. wanted'[c] = v /\ queued'[c] # None
      BY <2>3, DistinctAssumption DEF ClientSet, TypeOK
    <3> QED BY <2>1, <3>1 DEF Underway
  <2> QED BY <2>2, <2>3
<1>6. \A d \in Client : (~excused'[d] => ~excused[d]) /\ (~r => excused'[c])
  BY DEF ClientSet, Excuse, TypeOK
<1>7. Agreeing'
  <2> SUFFICES ASSUME Rests', NEW d \in Client, Due(d)' PROVE Told(d)'
    BY DEF Agreeing
  <2>1. Told(d)
    BY <1>1, <1>6 DEF AgreeInv, Agreeing, Rests, Due, Targets
  <2>2. CASE d = c
    <3>1. r
      BY <1>6, <2>2 DEF Due
    <3> QED BY <1>1, <1>5, <2>1, <2>2, <3>1 DEF Told
  <2>3. CASE d # c
    BY <1>1, <1>2, <2>1, <2>3, ToldKept
  <2> QED BY <2>2, <2>3
<1> QED BY <1>3, <1>4, <1>7 DEF AgreeInv

\* A client applies an update; after the last one it has the server's value.
LEMMA AgreeReceive ==
    ASSUME TypeOK, AgreeInv, NEW c \in Client, ClientReceive(c)
    PROVE  AgreeInv'
<1>1. /\ down[c] # <<>> /\ down[c] \in Seq(Update) /\ down'[c] = Tail(down[c])
      /\ copy'[c] = Head(down[c]).value
      /\ \A d \in Client : d # c => down'[d] = down[d] /\ copy'[d] = copy[d]
      /\ UNCHANGED <<useParentTargets, data, pending, tasks, targets, routing, online, joining,
                     entering, up, immediate, queued, wanted, excused>>
  BY DEF ClientReceive, TypeOK, server, membership, threads
<1>2. PendingIsData' /\ Connections'
  BY <1>1 DEF AgreeInv, PendingIsData, Connections
<1>3. /\ down'[c] # <<>> => down'[c][Len(down'[c])] = down[c][Len(down[c])]
      /\ down'[c] = <<>> => copy'[c] = down[c][Len(down[c])].value
  BY <1>1, TailEnds
<1>4. Agreeing'
  <2> SUFFICES ASSUME Rests', NEW d \in Client, Due(d)' PROVE Told(d)'
    BY DEF Agreeing
  <2>1. Told(d)
    BY <1>1 DEF AgreeInv, Agreeing, Rests, Due, Targets
  <2>2. CASE d = c
    <3>1. down[c][Len(down[c])].value = data
      BY <1>1, <2>1, <2>2 DEF Told
    <3> QED BY <1>1, <1>3, <2>2, <3>1 DEF Told
  <2>3. CASE d # c
    BY <1>1, <2>1, <2>3, ToldKept
  <2> QED BY <2>2, <2>3
<1> QED BY <1>2, <1>4 DEF AgreeInv

\* A client sends what it has queued: its last change, or it is excused.
LEMMA AgreeCreateAck ==
    ASSUME TypeOK, AgreeInv, NEW c \in Client, ProcessCreateAck(c)
    PROVE  AgreeInv'
<1>1. UNCHANGED <<useParentTargets, data, pending, tasks, targets, routing, online, joining,
                  entering, down, copy>>
  BY DEF ProcessCreateAck, server, membership, threads
<1>2. /\ queued'[c] = None
      /\ \A d \in Client : d # c => /\ up'[d] = up[d] /\ queued'[d] = queued[d]
                                    /\ wanted'[d] = wanted[d] /\ immediate'[d] = immediate[d]
  BY DEF ProcessCreateAck, TypeOK
<1>3. \A d \in Client : immediate'[d] => queued'[d] = None
  BY <1>2 DEF AgreeInv, Connections
<1>4. PendingIsData' /\ Connections'
  BY <1>1, <1>3 DEF AgreeInv, PendingIsData, Connections
<1>5. \A d \in Client : ~excused'[d] => ~excused[d]
  BY DEF ProcessCreateAck, Excuse, TypeOK
<1>6. ASSUME ~excused'[c], Underway(c) PROVE Underway(c)'
  <2>1. CASE queued[c] = None
    <3>1. up' = up
      BY <2>1 DEF ProcessCreateAck
    <3> QED BY <1>1, <1>2, <1>6, <2>1, <3>1 DEF Underway, LastTask
  <2>2. CASE queued[c] # None
    <3>1. queued[c] = wanted[c]
      BY <1>6 DEF ProcessCreateAck, Excuse
    <3>2. queued[c] = copy[c]
      BY <1>6, <2>2, <3>1 DEF Underway
    <3>3. queued[c] \in Data /\ up[c] \in Seq(Data) /\ up'[c] = Append(up[c], queued[c])
      BY <2>2 DEF ProcessCreateAck, TypeOK
    <3>4. up'[c] # <<>> /\ up'[c][Len(up'[c])] = queued[c]
      BY <3>3, AppendEnds
    <3> QED BY <1>1, <1>2, <3>2, <3>4 DEF Underway
  <2> QED BY <2>1, <2>2
<1>7. Agreeing'
  <2> SUFFICES ASSUME Rests', NEW d \in Client, Due(d)' PROVE Told(d)'
    BY DEF Agreeing
  <2>1. Told(d)
    BY <1>1, <1>5 DEF AgreeInv, Agreeing, Rests, Due, Targets
  <2>2. CASE d = c
    <3>1. ~excused'[c]
      BY <2>2 DEF Due
    <3> QED BY <1>1, <1>6, <2>1, <2>2, <3>1 DEF Told
  <2>3. CASE d # c
    BY <1>1, <1>2, <2>1, <2>3, ToldKept
  <2> QED BY <2>2, <2>3
<1> QED BY <1>4, <1>7 DEF AgreeInv

\* A client that the bag is not for loses it; if it was due, there was no value.
LEMMA AgreeForget ==
    ASSUME TypeOK, AgreeInv, NEW c \in Client, Forget(c)
    PROVE  AgreeInv'
<1>1. /\ c \notin Targets /\ copy'[c] = Absent /\ queued'[c] = None /\ c \in online
      /\ \A d \in Client : d # c => /\ copy'[d] = copy[d] /\ queued'[d] = queued[d]
                                    /\ wanted'[d] = wanted[d] /\ immediate'[d] = immediate[d]
      /\ UNCHANGED <<useParentTargets, data, pending, tasks, targets, routing, online, joining,
                     entering, down, up, excused>>
  BY DEF Forget, TypeOK, Targets, server, membership, threads
<1>2. PendingIsData' /\ Connections'
  BY <1>1 DEF AgreeInv, PendingIsData, Connections
<1>3. Agreeing'
  <2> SUFFICES ASSUME Rests', NEW d \in Client, Due(d)' PROVE Told(d)'
    BY DEF Agreeing
  <2>1. Told(d) /\ (d = c => data = Absent)
    BY <1>1 DEF AgreeInv, Agreeing, Rests, Due, Targets
  <2>2. CASE d = c
    BY <1>1, <2>1, <2>2 DEF Told
  <2>3. CASE d # c
    BY <1>1, <2>1, <2>3, ToldKept
  <2> QED BY <2>2, <2>3
<1> QED BY <1>2, <1>3 DEF AgreeInv

LEMMA AgreeNext == SingleWriter /\ TypeOK /\ WriteOrder /\ AgreeInv /\ [Next]_vars => AgreeInv'
<1> SUFFICES ASSUME SingleWriter, TypeOK, WriteOrder, AgreeInv, [Next]_vars PROVE AgreeInv'
  OBVIOUS
<1>1. CASE Next
  BY <1>1, AgreeWrites, AgreeMembership, AgreeClientSet, AgreeReceive, AgreeCreateAck,
     AgreeForget, Zenon DEF Next
<1>2. CASE UNCHANGED vars
  <2>1. \A c \in Client : Due(c)' => Due(c)
    BY <1>2 DEF vars, server, membership, threads, Due, Targets
  <2> QED BY <1>2, <2>1, AgreeUntouched DEF vars, server, membership, threads, clients
<1> QED BY <1>1, <1>2

\* While one thread of the server writes, a client that is to have the bag has the
\* server's value once nothing is under way, unless Excuses names the difference:
\* the gaps between inserting and sending, and between deciding to route and
\* routing, lose nothing.
THEOREM CopiesAgree == SingleWriter => (Spec => []Agreement)
<1> SUFFICES ASSUME SingleWriter PROVE Spec => []Agreement
  OBVIOUS
<1>1. Init => TypeOK /\ WriteOrder /\ AgreeInv
  <2> SUFFICES ASSUME Init PROVE TypeOK /\ WriteOrder /\ AgreeInv
    OBVIOUS
  <2>1. TypeOK
    BY FlagAssumption DEF Init, TypeOK, Data
  <2>2. WriteOrder
    BY DEF Init, WriteOrder, OneWriter, PendingIsLast, InOrder, Ordered, Thread
  <2>3. AgreeInv
    BY DEF Init, AgreeInv, Connections, PendingIsData, Agreeing, Due
  <2> QED BY <2>1, <2>2, <2>3
<1>2. TypeOK /\ WriteOrder /\ AgreeInv /\ [Next]_vars => (TypeOK /\ WriteOrder /\ AgreeInv)'
  BY NextType, OrderNext, AgreeNext
<1>3. TypeOK /\ AgreeInv => Agreement
  <2> SUFFICES ASSUME TypeOK, AgreeInv, NEW c \in Targets \cap online, Quiet(c), ~excused[c]
               PROVE  copy[c] = data
    BY DEF Agreement
  <2>1. c \in Client /\ Rests /\ Due(c)
    BY DEF TypeOK, Quiet, Rests, Due
  <2>2. Told(c) /\ down[c] = <<>> /\ ~Underway(c)
    <3>1. ~LastTask(c, tasks)
      <4>1. DOMAIN tasks = 1 .. Len(tasks)
        BY DEF TypeOK
      <4> QED BY <4>1 DEF Quiet, LastTask
    <3> QED BY <2>1, <3>1 DEF AgreeInv, Agreeing, Quiet, Underway
  <2> QED BY <2>2 DEF Told
<1> QED BY <1>1, <1>2, <1>3, PTL DEF Spec
=============================================================================
