------------------------ MODULE ClientRegistry_proofs ------------------------
(***************************************************************************)
(* Type correctness of ClientRegistry, and its invariants, in five parts.  *)
(*                                                                         *)
(* Control and History: where a thread can be, and what the history of a   *)
(* client says of how it was removed, for any two requests.                *)
(*                                                                         *)
(* Keeps: a client with a slot has it to itself, and a connected one has   *)
(* its place in m_clients, until it is removed (SlotsAreKept).             *)
(*                                                                         *)
(* Found: who has a net id is found by it, though ids come round           *)
(* (IdsAreKept).                                                           *)
(*                                                                         *)
(* IdsOwned, IdsServed, BagsServed, BagsOwned: whose the targets are       *)
(* (TargetsAreGivenUp, BagTargetsAreGivenUp).  What the players are told   *)
(* follows from History and Keeps (LeavingIsTold).                         *)
(*                                                                         *)
(* CountFollows: m_amountConnectedClients (CountIsRight).                  *)
(***************************************************************************)
EXTENDS ClientRegistry, FiniteSetTheorems, TLAPS

\* A thread that is at something holds a client.
WorkMatch == \A t \in Thread : work[t].at # "idle" => work[t].client \in Client

TypeInv == TypeOK /\ WorkMatch

Steps == {"idle", "drop", "queue", "signal", "aliases", "slot", "erase", "unassign",
          "peer", "assigned", "numbered"}

LEMMA WorkType ==
    ASSUME TypeInv, NEW t \in Thread, NEW s \in Steps, NEW c \in Client,
           work' = [work EXCEPT ![t] = [at |-> s, client |-> c]]
    PROVE  /\ work' \in [Thread -> [at : Steps, client : Client \cup {None}]]
           /\ WorkMatch'
  BY DEF TypeInv, TypeOK, WorkMatch, Steps

LEMMA IdleType ==
    ASSUME TypeInv, NEW t \in Thread, work' = [work EXCEPT ![t] = Idle]
    PROVE  /\ work' \in [Thread -> [at : Steps, client : Client \cup {None}]]
           /\ WorkMatch'
  BY DEF TypeInv, TypeOK, WorkMatch, Steps, Idle

LEMMA BumpType ==
    ASSUME NEW f \in [Client -> Nat], NEW c \in Client
    PROVE  [f EXCEPT ![c] = @ + 1] \in [Client -> Nat]
  OBVIOUS

LEMMA NextIdType == \A n \in NetId : NextId(n) \in NetId
  BY NumberAssumption DEF NextId, NetId

LEMMA CountType ==
    ASSUME NEW n \in 0..(CountMod - 1)
    PROVE  Up(n) \in 0..(CountMod - 1) /\ Down(n) \in 0..(CountMod - 1)
<1>1. Cardinality(Client) \in Nat
  BY ClientAssumption, FS_CardinalityType
<1> QED BY <1>1, NumberAssumption DEF Up, Down

LEMMA OnDropType ==
    ASSUME TypeOK, NEW c \in Client, OnDrop(c)
    PROVE  /\ signalled' \subseteq Client /\ targets' \subseteq NetId
           /\ bagTargets' \subseteq Slot \cup {NoSlot}
  BY DEF TypeOK, OnDrop

LEMMA RequestType ==
    ASSUME TypeInv, NEW c \in Client,
           InitConnect(c) \/ MakeClient(c) \/ RefuseTicket(c) \/ Defer(c) \/ Allow(c) \/ Refuse(c)
    PROVE  TypeInv'
<1> USE DEF TypeInv, TypeOK, WorkMatch, maps, numbers, queues, listeners, removed, others
<1>0. c \in Thread
  BY DEF Thread
<1>1. CASE InitConnect(c)
  <2>1. byGuid[guid[c]] \in Client \cup {None}
    BY DEF TypeOK
  <2> QED BY <1>0, <1>1, <2>1, WorkType DEF InitConnect, Become, Steps
<1>2. CASE MakeClient(c)
  BY <1>2 DEF MakeClient
<1>3. CASE RefuseTicket(c)
  BY <1>3 DEF RefuseTicket
<1>4. CASE Defer(c)
  BY <1>4 DEF Defer
<1>5. CASE Allow(c)
  BY <1>5 DEF Allow
<1>6. CASE Refuse(c)
  BY <1>0, <1>6, WorkType DEF Refuse, Become, Steps
<1> QED BY <1>1, <1>2, <1>3, <1>4, <1>5, <1>6

LEMMA RemovalType ==
    ASSUME TypeInv, NEW t \in Thread, DropClient(t) \/ QueueDrop(t) \/ RemoveClient(t)
    PROVE  TypeInv'
<1> USE DEF TypeInv, TypeOK, maps, numbers, queues, listeners, removed, others, At
<1> DEFINE c == work[t].client
<1>0. c \in Client
  BY DEF DropClient, QueueDrop, RemoveClient, SignalRemoved, ResetAliases, FreeSlot, EraseClient,
         UnassignSlot, WorkMatch
<1>1. CASE DropClient(t)
  BY <1>0, <1>1, WorkType DEF DropClient, Become, Steps
<1>2. CASE QueueDrop(t)
  BY <1>0, <1>2, IdleType, BumpType DEF QueueDrop, Steps
<1>3. CASE SignalRemoved(t)
  <2>1. turned' \in [Client -> SUBSET {"new", "announced", "dropping", "freed"}]
    BY <1>0, <1>3 DEF SignalRemoved, Stage
  <2> QED BY <1>0, <1>3, <2>1, OnDropType, WorkType, BumpType DEF SignalRemoved, Become, Steps
<1>4. CASE ResetAliases(t)
  BY <1>0, <1>4, WorkType DEF ResetAliases, Become, Steps
<1>5. CASE FreeSlot(t)
  BY <1>0, <1>5, WorkType DEF FreeSlot, Become, Steps
<1>6. CASE EraseClient(t)
  BY <1>0, <1>6, WorkType DEF EraseClient, Become, Steps
<1>7. CASE UnassignSlot(t)
  <2>1. count' \in 0..(CountMod - 1)
    BY <1>0, <1>7, CountType, NumberAssumption DEF UnassignSlot
  <2> QED BY <1>0, <1>7, <2>1, IdleType DEF UnassignSlot, Steps
<1> QED BY <1>1, <1>2, <1>3, <1>4, <1>5, <1>6, <1>7 DEF RemoveClient

LEMMA NetType ==
    ASSUME TypeInv,
           \/ AssignSlot \/ RefuseSlot \/ HandleConnectingClient \/ CountConnected
           \/ \E c \in Client : Connect(c) \/ Packet(c)
    PROVE  TypeInv'
<1> USE DEF TypeInv, TypeOK, maps, numbers, queues, listeners, removed, others, At
<1>0. Net \in Thread
  BY DEF Thread
<1>1. CASE AssignSlot
  <2> DEFINE c == work[Net].client
  <2>0. c \in Client
    BY <1>0, <1>1 DEF AssignSlot, WorkMatch
  <2>1. slot' \in [Client -> Slot \cup {NoSlot}] /\ bySlot' \in [Slot -> Client \cup {None}]
    BY <2>0, <1>1 DEF AssignSlot, FreeSlots
  <2> QED BY <1>0, <1>1, <2>0, <2>1, WorkType DEF AssignSlot, Become, Steps
<1>2. CASE RefuseSlot
  <2>0. work[Net].client \in Client
    BY <1>0, <1>2 DEF RefuseSlot, WorkMatch
  <2> QED BY <1>0, <1>2, <2>0, WorkType DEF RefuseSlot, Become, Steps
<1>3. CASE HandleConnectingClient
  <2> DEFINE c == work[Net].client
  <2>0. c \in Client
    BY <1>0, <1>3 DEF HandleConnectingClient, WorkMatch
  <2>1. CASE HasConnected(c)
    BY <1>0, <1>3, <2>0, <2>1, IdleType DEF HandleConnectingClient, Steps
  <2>2. CASE ~HasConnected(c)
    <3>1. PICK n \in NetId :
             /\ netId' = [netId EXCEPT ![c] = n]
             /\ byNetId' = [byNetId EXCEPT ![n] = c]
             /\ targets' = targets \cup {n}
             /\ curNetId' = NextId(n)
      BY <1>3, <2>2 DEF HandleConnectingClient
    <3>2. n \in NetId /\ n \in 0..MaxNetId
      BY NumberAssumption DEF NetId
    <3>3. /\ netId' \in [Client -> 0..MaxNetId] /\ byNetId' \in [NetId -> Client \cup {None}]
          /\ targets' \subseteq NetId
      BY <2>0, <3>1, <3>2
    <3> QED BY <1>0, <1>3, <2>0, <2>2, <3>1, <3>2, <3>3, NextIdType, WorkType
            DEF HandleConnectingClient, Become, Steps
  <2> QED BY <2>1, <2>2
<1>4. CASE CountConnected
  <2>0. work[Net].client \in Client
    BY <1>0, <1>4 DEF CountConnected, WorkMatch
  <2>1. count' \in 0..(CountMod - 1)
    BY <1>4, CountType, NumberAssumption DEF CountConnected
  <2> QED BY <1>0, <1>4, <2>0, <2>1, IdleType DEF CountConnected, Steps
<1>5. ASSUME NEW c \in Client, Connect(c) PROVE TypeInv'
  <2>1. \E s \in {"signal", "peer"} : work' = [work EXCEPT ![Net] = [at |-> s, client |-> c]]
    BY <1>5 DEF Connect, Become
  <2> QED BY <1>0, <1>5, <2>1, WorkType DEF Connect, Steps
<1>6. ASSUME NEW c \in Client, Packet(c) PROVE TypeInv'
  BY <1>0, <1>6, WorkType DEF Packet, Become, Steps, WorkMatch
<1> QED BY <1>1, <1>2, <1>3, <1>4, <1>5, <1>6

LEMMA DropInternalType ==
    ASSUME TypeInv, NEW c \in Client, DropClientInternal(c)
    PROVE  /\ withdrawn' \subseteq Client
           /\ signalled' \subseteq Client /\ targets' \subseteq NetId
           /\ bagTargets' \subseteq Slot \cup {NoSlot}
           /\ removals' \in [Client -> Nat] /\ turned' = turned
           /\ work' \in [Thread -> [at : Steps, client : Client \cup {None}]]
           /\ WorkMatch'
<1>1. Main \in Thread /\ "aliases" \in Steps
  BY DEF Thread, Steps
<1> QED BY <1>1, OnDropType, WorkType, BumpType DEF DropClientInternal, Become, TypeInv, TypeOK

LEMMA MainType ==
    ASSUME TypeInv, NEW c \in Client,
           RunDrop(c) \/ ScriptDrop(c) \/ HandleConnectedClient(c) \/ DropDead(c)
    PROVE  TypeInv'
<1> USE DEF TypeInv, TypeOK, maps, numbers, queues, listeners, removed, others
<1>1. CASE RunDrop(c)
  BY <1>1, DropInternalType DEF RunDrop, Steps
<1>2. CASE ScriptDrop(c)
  BY <1>2, DropInternalType DEF ScriptDrop, DropNow, Steps
<1>3. CASE HandleConnectedClient(c)
  BY <1>3 DEF HandleConnectedClient, WorkMatch
<1>4. CASE DropDead(c)
  BY <1>4, DropInternalType DEF DropDead, DropNow, Steps, WorkMatch
<1> QED BY <1>1, <1>2, <1>3, <1>4

LEMMA TypeInit == Init => TypeInv
<1> SUFFICES ASSUME Init PROVE TypeInv
  OBVIOUS
<1>1. Cardinality(Client) \in Nat
  BY ClientAssumption, FS_CardinalityType
<1>2. count \in 0..(CountMod - 1) /\ curNetId \in NetId /\ 0 \in 0..MaxNetId
  BY <1>1, NumberAssumption DEF Init
<1>3. guid \in [Client -> Guid] /\ taken \subseteq NetId /\ occupied \subseteq Slot
  BY ClientAssumption DEF Init, NetId
<1>4. work \in [Thread -> [at : Steps, client : Client \cup {None}]] /\ WorkMatch
  BY DEF Init, Idle, Steps, WorkMatch
<1> QED BY <1>2, <1>3, <1>4 DEF Init, TypeInv, TypeOK, Steps

LEMMA TypeStep == TypeInv /\ [Next]_vars => TypeInv'
<1> SUFFICES ASSUME TypeInv, [Next]_vars PROVE TypeInv'
  OBVIOUS
<1>1. CASE UNCHANGED vars
  BY <1>1 DEF vars, maps, numbers, queues, listeners, removed, others, TypeInv, TypeOK, WorkMatch
<1>2. ASSUME NEW c \in Client, FallSilent(c) PROVE TypeInv'
  BY <1>2 DEF FallSilent, maps, numbers, queues, listeners, removed, others, TypeInv, TypeOK, WorkMatch
<1>3. CASE FindDead
  BY <1>3 DEF FindDead, maps, numbers, queues, listeners, removed, others, TypeInv, TypeOK, WorkMatch
<1> QED BY <1>1, <1>2, <1>3, RequestType, RemovalType, NetType, MainType DEF Next

\* Every variable keeps its type, and a thread that is inside a handler holds a client.
THEOREM TypeCorrect == Spec => []TypeOK
<1>1. TypeInv => TypeOK
  BY DEF TypeInv
<1> QED BY <1>1, TypeInit, TypeStep, PTL DEF Spec

-----------------------------------------------------------------------------
(* Control *)

Begun(c) == phase[c] \notin {"none", "asking"}

Removal == {"signal", "aliases", "slot", "erase", "unassign"}
Reset == {"aliases", "slot", "erase", "unassign"}
Handshake == {"peer", "assigned", "numbered"}

\* m_clients has a client under its own guid.
EntriesMatch == \A q \in Guid : byGuid[q] # None => Begun(byGuid[q]) /\ guid[byGuid[q]] = q

\* An HTTP thread removes its own client, and only when its request is over.
HolderRemovesOwn ==
    \A t \in Client : work[t].at \in Removal => work[t].client = t /\ phase[t] = "over"

\* Only a client that was let in has a slot or a net id, or is about to.
LetIn ==
    /\ work[Net].at \in Handshake => phase[work[Net].client] = "allowed"
    /\ \A c \in Client : slot[c] # NoSlot \/ HasConnected(c) => phase[c] = "allowed"

RemovalCounted == \A t \in Thread : work[t].at \in Reset => removals[work[t].client] # 0

NumberedHasSlot == \A c \in Client : HasConnected(c) /\ removals[c] = 0 => slot[c] # NoSlot

Control == EntriesMatch /\ HolderRemovesOwn /\ LetIn /\ RemovalCounted /\ NumberedHasSlot

Connecting(c) == work[Net].at \in Handshake /\ work[Net].client = c

\* A step that begins no removal.
LEMMA CountedStep ==
    ASSUME TypeInv, RemovalCounted, NEW t \in Thread, NEW s, NEW d, s \notin Reset,
           work' = work \/ work' = [work EXCEPT ![t] = [at |-> s, client |-> d]],
           removals' = removals
    PROVE  RemovalCounted'
<1> SUFFICES ASSUME NEW u \in Thread, work'[u].at \in Reset
             PROVE  removals'[work'[u].client] # 0
  BY DEF RemovalCounted
<1>1. work'[u] = work[u] \/ work'[u].at = s
  BY DEF TypeInv, TypeOK
<1> QED BY <1>1 DEF RemovalCounted

\* A step of another thread, or one that leads to no connection but a permitted one.
LEMMA LetInStep ==
    ASSUME TypeInv, LetIn, NEW t \in Thread, NEW s, NEW d,
           work' = work \/ work' = [work EXCEPT ![t] = [at |-> s, client |-> d]],
           t = Net => s \notin Handshake \/ phase'[d] = "allowed",
           slot' = slot, netId' = netId,
           \A c \in Client : phase[c] = "allowed" => phase'[c] = "allowed"
    PROVE  LetIn'
<1>1. Net \in Thread
  BY DEF Thread
<1>2. work'[Net] = work[Net] \/ (t = Net /\ work'[Net] = [at |-> s, client |-> d])
  BY <1>1 DEF TypeInv, TypeOK
<1>3. work[Net].at \in Handshake => work[Net].client \in Client
  BY <1>1 DEF TypeInv, WorkMatch, Handshake
<1>4. work'[Net].at \in Handshake => phase'[work'[Net].client] = "allowed"
  <2>1. CASE work'[Net] = work[Net]
    BY <1>3, <2>1 DEF LetIn
  <2>2. CASE t = Net /\ work'[Net] = [at |-> s, client |-> d]
    BY <2>2
  <2> QED BY <1>2, <2>1, <2>2
<1> QED BY <1>4 DEF LetIn, HasConnected

\* A step of another thread, or one that begins no removal but that of its own client.
LEMMA HolderStep ==
    ASSUME TypeInv, HolderRemovesOwn, NEW t \in Thread, NEW s, NEW d,
           work' = work \/ work' = [work EXCEPT ![t] = [at |-> s, client |-> d]],
           t \in Client => s \notin Removal \/ (d = t /\ phase'[t] = "over"),
           \A c \in Client : phase[c] = "over" => phase'[c] = "over"
    PROVE  HolderRemovesOwn'
<1> SUFFICES ASSUME NEW u \in Client, work'[u].at \in Removal
             PROVE  work'[u].client = u /\ phase'[u] = "over"
  BY DEF HolderRemovesOwn
<1>1. work'[u] = work[u] \/ (u = t /\ work'[u] = [at |-> s, client |-> d])
  BY DEF TypeInv, TypeOK, Thread
<1>2. CASE work'[u] = work[u]
  BY <1>2 DEF HolderRemovesOwn
<1>3. CASE u = t /\ work'[u] = [at |-> s, client |-> d]
  BY <1>3
<1> QED BY <1>1, <1>2, <1>3

\* A step that leaves the maps, the slots, the ids and the removals alone.
LEMMA ControlKept ==
    ASSUME TypeInv, Control, NEW t \in Thread, NEW s, NEW d, s \notin Reset,
           work' = work \/ work' = [work EXCEPT ![t] = [at |-> s, client |-> d]],
           t = Net => s \notin Handshake \/ phase'[d] = "allowed",
           t \in Client => s \notin Removal \/ (d = t /\ phase'[t] = "over"),
           UNCHANGED <<guid, byGuid, slot, netId, removals>>,
           \A c \in Client : /\ phase[c] = "allowed" => phase'[c] = "allowed"
                             /\ phase[c] = "over" => phase'[c] = "over"
                             /\ Begun(c) => Begun(c)'
    PROVE  Control'
<1>1. TypeInv /\ LetIn /\ HolderRemovesOwn /\ RemovalCounted /\ EntriesMatch /\ NumberedHasSlot
  BY DEF Control
<1>2. EntriesMatch'
  <2>1. \A q \in Guid : byGuid[q] \in Client \cup {None}
    BY DEF TypeInv, TypeOK
  <2> QED BY <1>1, <2>1 DEF EntriesMatch
<1>3. NumberedHasSlot'
  BY <1>1 DEF NumberedHasSlot, HasConnected
<1>4. HolderRemovesOwn'
  BY <1>1, HolderStep
<1>5. LetIn'
  <2>1. \A c \in Client : phase[c] = "allowed" => phase'[c] = "allowed"
    OBVIOUS
  <2>2. slot' = slot /\ netId' = netId
    OBVIOUS
  <2> QED BY <1>1, <2>1, <2>2, LetInStep
<1>6. RemovalCounted'
  BY <1>1, CountedStep
<1> QED BY <1>2, <1>3, <1>4, <1>5, <1>6 DEF Control

LEMMA ControlInitConnect ==
    ASSUME TypeInv, Control, NEW c \in Client, InitConnect(c)
    PROVE  Control'
<1>1. UNCHANGED <<guid, byGuid, slot, netId, removals>>
  BY DEF InitConnect, maps, numbers, queues, listeners, removed, others
<1>2. \/ work' = work
      \/ work' = [work EXCEPT ![c] = [at |-> "drop", client |-> byGuid[guid[c]]]]
  BY DEF InitConnect, Become
<1>3. \A d \in Client : /\ phase[d] = "allowed" => phase'[d] = "allowed"
                        /\ phase[d] = "over" => phase'[d] = "over"
                        /\ Begun(d) => Begun(d)'
  BY DEF InitConnect, Begun, TypeInv, TypeOK
<1>4. c \in Thread /\ "drop" \notin Removal /\ "drop" \notin Reset /\ "drop" \notin Handshake
  BY DEF Thread, Removal, Reset, Handshake
<1>5. CASE work' = work
  BY <1>1, <1>3, <1>4, <1>5, ControlKept
<1>6. CASE work' = [work EXCEPT ![c] = [at |-> "drop", client |-> byGuid[guid[c]]]]
  BY <1>1, <1>3, <1>4, <1>6, ControlKept
<1> QED BY <1>2, <1>5, <1>6

LEMMA ControlRefuse ==
    ASSUME TypeInv, Control, NEW c \in Client, Refuse(c)
    PROVE  Control'
<1>1. UNCHANGED <<guid, byGuid, slot, netId, removals>>
  BY DEF Refuse, maps, numbers, queues, listeners, removed, others
<1>2. work' = work \/ work' = [work EXCEPT ![c] = [at |-> "signal", client |-> c]]
  BY DEF Refuse, Become
<1>3. phase'[c] = "over" /\
      \A d \in Client : /\ phase[d] = "allowed" => phase'[d] = "allowed"
                        /\ phase[d] = "over" => phase'[d] = "over"
                        /\ Begun(d) => Begun(d)'
  BY DEF Refuse, Begun, TypeInv, TypeOK
<1>4. c \in Thread /\ "signal" \notin Reset /\ "signal" \notin Handshake
  BY DEF Thread, Reset, Handshake
<1> QED BY <1>1, <1>2, <1>3, <1>4, ControlKept

LEMMA ControlConnect ==
    ASSUME TypeInv, Control, NEW c \in Client, Connect(c)
    PROVE  Control'
<1>1. UNCHANGED <<guid, byGuid, phase, slot, netId, removals>>
  BY DEF Connect, maps, numbers, queues, listeners, removed, others
<1>2. \/ work' = [work EXCEPT ![Net] = [at |-> "signal", client |-> c]]
      \/ phase[c] = "allowed" /\ work' = [work EXCEPT ![Net] = [at |-> "peer", client |-> c]]
  BY DEF Connect, Become
<1>3. /\ Net \in Thread /\ Net \notin Client
      /\ "signal" \notin Reset /\ "signal" \notin Handshake /\ "peer" \notin Reset
  BY ClientAssumption DEF Thread, Reset, Handshake
<1>4. \A d \in Client : Begun(d) => Begun(d)'
  BY <1>1 DEF Begun
<1>5. CASE work' = [work EXCEPT ![Net] = [at |-> "signal", client |-> c]]
  BY <1>1, <1>3, <1>4, <1>5, ControlKept
<1>6. CASE phase[c] = "allowed" /\ work' = [work EXCEPT ![Net] = [at |-> "peer", client |-> c]]
  BY <1>1, <1>3, <1>4, <1>6, ControlKept
<1> QED BY <1>2, <1>5, <1>6

LEMMA ControlPacket ==
    ASSUME TypeInv, Control, NEW c \in Client, Packet(c)
    PROVE  Control'
<1>1. UNCHANGED <<guid, byGuid, phase, slot, netId, removals>>
  BY DEF Packet, maps, numbers, queues, listeners, removed, others
<1>2. work' = work \/ work' = [work EXCEPT ![Net] = [at |-> "drop", client |-> c]]
  BY DEF Packet, Become
<1>3. Net \in Thread /\ "drop" \notin Removal /\ "drop" \notin Reset /\ "drop" \notin Handshake
  BY DEF Thread, Removal, Reset, Handshake
<1>4. \A d \in Client : Begun(d) => Begun(d)'
  BY <1>1 DEF Begun
<1>5. CASE work' = work
  BY <1>1, <1>3, <1>4, <1>5, ControlKept
<1>6. CASE work' = [work EXCEPT ![Net] = [at |-> "drop", client |-> c]]
  BY <1>1, <1>3, <1>4, <1>6, ControlKept
<1> QED BY <1>2, <1>5, <1>6

LEMMA ControlRequest ==
    ASSUME TypeInv, Control, NEW c \in Client,
           InitConnect(c) \/ MakeClient(c) \/ RefuseTicket(c) \/ Defer(c) \/ Allow(c) \/ Refuse(c)
    PROVE  Control'
<1> USE DEF TypeInv, TypeOK, WorkMatch, maps, numbers, queues, listeners, removed, others, Control, EntriesMatch,
            HolderRemovesOwn, LetIn, RemovalCounted, NumberedHasSlot, Begun, HasConnected,
            Removal, Reset, Handshake
<1>0. c \in Thread /\ Net \in Thread /\ Net \notin Client /\ Client \subseteq Thread
  BY ClientAssumption DEF Thread
<1>1. CASE InitConnect(c)
  BY <1>1, ControlInitConnect
<1>2. CASE MakeClient(c)
  BY <1>0, <1>2 DEF MakeClient, At
<1>3. CASE RefuseTicket(c)
  BY <1>0, <1>3 DEF RefuseTicket
<1>4. CASE Defer(c)
  BY <1>0, <1>4 DEF Defer
<1>5. CASE Allow(c)
  BY <1>0, <1>5 DEF Allow
<1>6. CASE Refuse(c)
  BY <1>6, ControlRefuse
<1> QED BY <1>1, <1>2, <1>3, <1>4, <1>5, <1>6

LEMMA ControlRemoval ==
    ASSUME TypeInv, Control, NEW t \in Thread, DropClient(t) \/ QueueDrop(t) \/ RemoveClient(t)
    PROVE  Control'
<1> USE DEF TypeInv, TypeOK, maps, numbers, queues, listeners, removed, others, At, Control, EntriesMatch,
            HolderRemovesOwn, LetIn, RemovalCounted, NumberedHasSlot, Begun, HasConnected,
            Removal, Reset, Handshake
<1> DEFINE c == work[t].client
<1>0. c \in Client /\ Net \in Thread /\ Client \subseteq Thread
  BY DEF DropClient, QueueDrop, RemoveClient, SignalRemoved, ResetAliases, FreeSlot, EraseClient,
         UnassignSlot, WorkMatch,
         Thread
<1>1. CASE DropClient(t)
  BY <1>0, <1>1 DEF DropClient, Become
<1>2. CASE QueueDrop(t)
  BY <1>0, <1>2 DEF QueueDrop, Idle
<1>3. CASE SignalRemoved(t)
  BY <1>0, <1>3 DEF SignalRemoved, Become
<1>4. CASE ResetAliases(t)
  BY <1>0, <1>4 DEF ResetAliases, Become
<1>5. CASE FreeSlot(t)
  BY <1>0, <1>5 DEF FreeSlot, Become
<1>6. CASE EraseClient(t)
  BY <1>0, <1>6 DEF EraseClient, Become
<1>7. CASE UnassignSlot(t)
  BY <1>0, <1>7 DEF UnassignSlot, Idle
<1> QED BY <1>1, <1>2, <1>3, <1>4, <1>5, <1>6, <1>7 DEF RemoveClient

LEMMA ControlNet ==
    ASSUME TypeInv, Control,
           \/ AssignSlot \/ RefuseSlot \/ HandleConnectingClient \/ CountConnected
           \/ \E c \in Client : Connect(c) \/ Packet(c)
    PROVE  Control'
<1> USE DEF TypeInv, TypeOK, maps, numbers, queues, listeners, removed, others, At, Control, EntriesMatch,
            HolderRemovesOwn, LetIn, RemovalCounted, NumberedHasSlot, Begun, HasConnected,
            Removal, Reset, Handshake
<1>0. Net \in Thread /\ Net \notin Client /\ Client \subseteq Thread
  BY ClientAssumption DEF Thread
<1> DEFINE c == work[Net].client
<1>1. CASE AssignSlot
  BY <1>0, <1>1 DEF AssignSlot, Become, WorkMatch
<1>2. CASE RefuseSlot
  BY <1>0, <1>2 DEF RefuseSlot, Become, WorkMatch
<1>3. CASE HandleConnectingClient
  <2>1. UNCHANGED <<guid, byGuid, phase, slot, removals>> /\ work[Net].at = "assigned" /\ slot[c] # NoSlot
    BY <1>3 DEF HandleConnectingClient
  <2>2. c \in Client /\ phase[c] = "allowed"
    BY <1>0, <2>1 DEF WorkMatch
  <2>3. netId' = netId \/ \E n \in Nat : netId' = [netId EXCEPT ![c] = n]
    BY <1>3, NumberAssumption DEF HandleConnectingClient, NetId
  <2>4. work' = [work EXCEPT ![Net] = Idle] \/ work' = [work EXCEPT ![Net] = [at |-> "numbered", client |-> c]]
    BY <1>3 DEF HandleConnectingClient, Become
  <2>5. EntriesMatch' /\ NumberedHasSlot'
    BY <2>1, <2>2, <2>3
  <2>6. \A u \in Thread : work'[u] = work[u] \/ (u = Net /\ work'[u].at \in {"idle", "numbered"})
    BY <1>0, <2>4 DEF Idle
  <2>8. HolderRemovesOwn'
    BY <1>0, <2>1, <2>6
  <2>9. RemovalCounted'
    BY <1>0, <2>1, <2>6
  <2>7. LetIn'
    BY <1>0, <2>1, <2>2, <2>3, <2>4 DEF Idle
  <2> QED BY <2>5, <2>7, <2>8, <2>9
<1>4. CASE CountConnected
  BY <1>0, <1>4 DEF CountConnected, WorkMatch, Idle
<1>5. ASSUME NEW d \in Client, Connect(d) PROVE Control'
  BY <1>5, ControlConnect
<1>6. ASSUME NEW d \in Client, Packet(d) PROVE Control'
  BY <1>6, ControlPacket
<1> QED BY <1>1, <1>2, <1>3, <1>4, <1>5, <1>6

LEMMA ControlMain ==
    ASSUME TypeInv, Control, NEW c \in Client,
           \/ RunDrop(c) \/ ScriptDrop(c) \/ HandleConnectedClient(c) \/ DropDead(c)
           \/ FallSilent(c) \/ FindDead
    PROVE  Control'
<1> USE DEF TypeInv, TypeOK, maps, numbers, queues, listeners, removed, others, At, Control, EntriesMatch,
            HolderRemovesOwn, LetIn, RemovalCounted, NumberedHasSlot, Begun, HasConnected,
            Removal, Reset, Handshake
<1>0. Main \in Thread /\ Main \notin Client /\ Net # Main /\ Client \subseteq Thread
  BY ClientAssumption DEF Thread
<1>1. ASSUME DropClientInternal(c),
             UNCHANGED <<guid, phase, byGuid, slot, netId>>
      PROVE  Control'
  BY <1>0, <1>1 DEF DropClientInternal, Become
<1>2. CASE RunDrop(c)
  BY <1>1, <1>2 DEF RunDrop
<1>3. CASE ScriptDrop(c)
  BY <1>1, <1>3 DEF ScriptDrop, DropNow
<1>4. CASE HandleConnectedClient(c)
  BY <1>4 DEF HandleConnectedClient
<1>5. CASE DropDead(c)
  BY <1>1, <1>5 DEF DropDead, DropNow
<1>6. CASE FallSilent(c) \/ FindDead
  BY <1>6 DEF FallSilent, FindDead
<1> QED BY <1>2, <1>3, <1>4, <1>5, <1>6

LEMMA ControlStep == TypeInv /\ Control /\ [Next]_vars => Control'
<1> SUFFICES ASSUME TypeInv, Control, [Next]_vars PROVE Control'
  OBVIOUS
<1>1. CASE UNCHANGED vars
  BY <1>1 DEF vars, maps, numbers, queues, listeners, removed, others, Control, EntriesMatch, HolderRemovesOwn,
              LetIn, RemovalCounted, NumberedHasSlot, Begun, HasConnected
<1>2. CASE FindDead
  <2>1. CASE Client = {}
    BY <1>2, <2>1 DEF FindDead
  <2>2. CASE Client # {}
    BY <1>2, <2>2, ControlMain
  <2> QED BY <2>1, <2>2
<1> QED BY <1>1, <1>2, ControlRequest, ControlRemoval, ControlNet, ControlMain DEF Next

\* Requests are only made, never taken back.
OnlyForward ==
    /\ guid' = guid
    /\ \A c \in Client : phase[c] # "none" => phase'[c] # "none"
    /\ \A c \in Client : phase[c] \notin {"none", "asking"} => phase'[c] \notin {"none", "asking"}

LEMMA RequestsStay == TypeInv /\ [Next]_vars => OnlyForward
<1> SUFFICES ASSUME TypeInv, [Next]_vars PROVE OnlyForward
  OBVIOUS
<1>1. OnlyForward
  <2> USE DEF OnlyForward
  <2> USE DEF TypeInv, TypeOK, maps, numbers, queues, listeners, removed, others
  <2>1. CASE UNCHANGED vars
    BY <2>1 DEF vars
  <2>2. CASE UNCHANGED <<guid, phase>>
    BY <2>2
  <2>3. ASSUME NEW c \in Client,
               \/ InitConnect(c) \/ MakeClient(c) \/ RefuseTicket(c) \/ Defer(c)
               \/ Allow(c) \/ Refuse(c)
        PROVE  OnlyForward
    BY <2>3 DEF InitConnect, MakeClient, RefuseTicket, Defer, Allow, Refuse
  <2> QED
    BY <2>1, <2>2, <2>3
       DEF Next, RemoveClient, DropClient, QueueDrop, SignalRemoved, ResetAliases, FreeSlot, EraseClient,
           UnassignSlot,
           Connect, Packet, AssignSlot, RefuseSlot, HandleConnectingClient, CountConnected,
           RunDrop, ScriptDrop, HandleConnectedClient, DropDead, DropNow, FindDead, FallSilent
<1> QED BY <1>1

LEMMA DistinctBefore ==
    ASSUME TypeInv, [Next]_vars, Distinct'
    PROVE  Distinct
  BY RequestsStay DEF OnlyForward, Distinct
\* Whom a thread holds after a step that moves it on.
LEMMA HeldAfter ==
    ASSUME TypeInv, NEW t \in Thread, NEW r, work' = [work EXCEPT ![t] = r],
           NEW c \in Client, NEW u \in Thread, work'[u].client = c
    PROVE  r.client = c \/ \E v \in Thread : work[v].client = c
<1>1. work'[u] = IF u = t THEN r ELSE work[u]
  BY DEF TypeInv, TypeOK
<1> QED BY <1>1

LEMMA GoneInRequest ==
    ASSUME TypeInv, Control, NEW c \in Client, Begun(c) \/ ~Begun(c)', Alive(c)', NEW d \in Client,
           InitConnect(d) \/ MakeClient(d) \/ RefuseTicket(d) \/ Defer(d) \/ Allow(d) \/ Refuse(d)
    PROVE  Alive(c)
<1> USE DEF TypeInv, TypeOK, maps, queues, removed, others, Begun, Registered
<1>0. d \in Thread
  BY DEF Thread
<1>1. CASE InitConnect(d)
  <2> DEFINE old == byGuid[guid[d]]
  <2>1. work' = work \/ (old \in Client /\ work' = [work EXCEPT ![d] = [at |-> "drop", client |-> old]])
    BY <1>1 DEF InitConnect, Become
  <2>2. old \in Client => Alive(old)
    BY ClientAssumption DEF Control, EntriesMatch, Alive
  <2>3. \A u \in Thread : work'[u].client = c => Alive(c)
    BY <1>0, <2>1, <2>2, HeldAfter DEF Alive
  <2> QED BY <1>1, <2>3 DEF InitConnect, Alive
<1>2. CASE MakeClient(d)
  BY <1>2 DEF MakeClient, Alive
<1>3. CASE RefuseTicket(d) \/ Defer(d) \/ Allow(d)
  BY <1>3 DEF RefuseTicket, Defer, Allow, Alive
<1>4. CASE Refuse(d)
  <2>1. \A u \in Thread : work'[u].client = c => Alive(c)
    BY <1>0, <1>4, HeldAfter DEF Refuse, Become, Alive
  <2> QED BY <1>4, <2>1 DEF Refuse, Alive
<1> QED BY <1>1, <1>2, <1>3, <1>4

LEMMA GoneInRemoval ==
    ASSUME TypeInv, NEW c \in Client, Begun(c) \/ ~Begun(c)', Alive(c)', NEW t \in Thread,
           DropClient(t) \/ QueueDrop(t) \/ RemoveClient(t)
    PROVE  Alive(c)
<1> USE DEF TypeInv, TypeOK, maps, queues, numbers, removed, others, Begun, Registered
<1>0. work[t].client \in Client /\ None \notin Client
  BY ClientAssumption
     DEF DropClient, QueueDrop, RemoveClient, SignalRemoved, ResetAliases, FreeSlot, EraseClient,
         UnassignSlot, WorkMatch, At
<1>1. \A u \in Thread : work'[u].client = c => Alive(c)
  <2>1. \/ \E s \in Steps : work' = [work EXCEPT ![t] = [at |-> s, client |-> work[t].client]]
        \/ work' = [work EXCEPT ![t] = Idle]
    BY DEF DropClient, QueueDrop, RemoveClient, SignalRemoved, ResetAliases, FreeSlot, EraseClient,
         UnassignSlot, Become, Steps
  <2> QED BY <1>0, <2>1, HeldAfter DEF Alive, Idle
<1>2. CASE QueueDrop(t)
  BY <1>0, <1>1, <1>2 DEF QueueDrop, Alive
<1>3. CASE DropClient(t) \/ SignalRemoved(t) \/ ResetAliases(t) \/ FreeSlot(t) \/ UnassignSlot(t)
  BY <1>1, <1>3 DEF DropClient, SignalRemoved, ResetAliases, FreeSlot, UnassignSlot, Alive
<1>4. CASE EraseClient(t)
  BY <1>0, <1>1, <1>4 DEF EraseClient, Alive
<1> QED BY <1>2, <1>3, <1>4 DEF RemoveClient

LEMMA GoneInNet ==
    ASSUME TypeInv, Control, NEW c \in Client, Begun(c) \/ ~Begun(c)', Alive(c)',
           \/ AssignSlot \/ RefuseSlot \/ HandleConnectingClient \/ CountConnected
           \/ \E d \in Client : Connect(d) \/ Packet(d)
    PROVE  Alive(c)
<1> USE DEF TypeInv, TypeOK, maps, queues, numbers, removed, others, Begun, Registered
<1>0. Net \in Thread /\ None \notin Client
  BY ClientAssumption DEF Thread
<1>1. CASE AssignSlot \/ RefuseSlot \/ HandleConnectingClient \/ CountConnected
  <2>1. \/ \E s \in Steps : work' = [work EXCEPT ![Net] = [at |-> s, client |-> work[Net].client]]
        \/ work' = [work EXCEPT ![Net] = Idle]
    BY <1>1 DEF AssignSlot, RefuseSlot, HandleConnectingClient, CountConnected, Become, Steps
  <2>2. \A u \in Thread : work'[u].client = c => Alive(c)
    BY <1>0, <2>1, HeldAfter DEF Alive, Idle
  <2>3. UNCHANGED <<guid, phase, byGuid, dropQueue, sweep>>
    BY <1>1 DEF AssignSlot, RefuseSlot, HandleConnectingClient, CountConnected
  <2>4. joinQueue' \subseteq joinQueue \cup {work[Net].client}
    BY <1>1 DEF AssignSlot, RefuseSlot, HandleConnectingClient, CountConnected
  <2> QED BY <1>0, <2>2, <2>3, <2>4 DEF Alive
<1>2. ASSUME NEW d \in Client, Connect(d) PROVE Alive(c)
  <2>1. Alive(d)
    BY <1>2 DEF Connect, Alive
  <2>2. \E s \in Steps : work' = [work EXCEPT ![Net] = [at |-> s, client |-> d]]
    BY <1>2 DEF Connect, Become, Steps
  <2>3. \A u \in Thread : work'[u].client = c => Alive(c)
    BY <1>0, <2>1, <2>2, HeldAfter DEF Alive
  <2> QED BY <1>2, <2>3 DEF Connect, Alive
<1>3. ASSUME NEW d \in Client, Packet(d) PROVE Alive(c)
  <2>1. work' = work \/ work' = [work EXCEPT ![Net] = [at |-> "drop", client |-> d]]
    BY <1>3 DEF Packet, Become
  <2>2. \A u \in Thread : work'[u].client = c => Alive(c)
    BY <1>0, <1>3, <2>1, HeldAfter DEF Packet, Alive
  <2> QED BY <1>3, <2>2 DEF Packet, Alive
<1> QED BY <1>1, <1>2, <1>3

LEMMA GoneInMain ==
    ASSUME TypeInv, Control, NEW c \in Client, Begun(c) \/ ~Begun(c)', Alive(c)', NEW d \in Client,
           \/ RunDrop(d) \/ ScriptDrop(d) \/ HandleConnectedClient(d) \/ DropDead(d)
           \/ FallSilent(d) \/ FindDead
    PROVE  Alive(c)
<1> USE DEF TypeInv, TypeOK, maps, queues, numbers, removed, others, Begun, Registered
<1>0. Main \in Thread
  BY DEF Thread
<1>1. CASE FindDead
  BY <1>1 DEF FindDead, Alive
<1>2. CASE HandleConnectedClient(d) \/ FallSilent(d)
  BY <1>2 DEF HandleConnectedClient, FallSilent, Alive
<1>3. ASSUME DropClientInternal(d), Alive(d),
             UNCHANGED <<guid, phase, byGuid, joinQueue>>,
             dropQueue'[c] > 0 => dropQueue[c] > 0, sweep' \subseteq sweep
      PROVE  Alive(c)
  <2>1. \A u \in Thread : work'[u].client = c => Alive(c)
    BY <1>0, <1>3, HeldAfter DEF DropClientInternal, Become, Alive
  <2> QED BY <1>3, <2>1 DEF Alive
<1>4. CASE RunDrop(d)
  BY <1>3, <1>4 DEF RunDrop, Alive
<1>5. CASE ScriptDrop(d)
  BY <1>3, <1>5 DEF ScriptDrop, DropNow
<1>6. CASE DropDead(d)
  <2>1. CASE d \in dropping
    BY <1>6, <2>1 DEF DropDead, Alive
  <2>2. CASE d \notin dropping
    BY <1>3, <1>6, <2>2 DEF DropDead, DropNow, Alive
  <2> QED BY <2>1, <2>2
<1> QED BY <1>1, <1>2, <1>4, <1>5, <1>6

\* A client that is gone is not found again: what leads to it is weak.
LEMMA GoneStaysGone ==
    ASSUME TypeInv, Control, Next, NEW c \in Client, Begun(c) \/ ~Begun(c)', Alive(c)'
    PROVE  Alive(c)
  BY GoneInRequest, GoneInRemoval, GoneInNet, GoneInMain DEF Next
AliveBegun == \A c \in Client : Alive(c) => Begun(c)

LEMMA AliveBegunStep == TypeInv /\ Control /\ AliveBegun /\ [Next]_vars => AliveBegun'
<1> SUFFICES ASSUME TypeInv, Control, AliveBegun, [Next]_vars, NEW c \in Client, Alive(c)'
             PROVE  Begun(c)'
  BY DEF AliveBegun
<1>1. CASE UNCHANGED vars
  BY <1>1 DEF AliveBegun, Alive, Begun, Registered, vars, maps, queues, removed, others
<1>2. CASE Next
  <2>1. Begun(c) => Begun(c)'
    BY RequestsStay DEF OnlyForward, Begun
  <2>2. CASE Begun(c)
    BY <2>1, <2>2
  <2>3. CASE ~Begun(c)'
    <3>1. Alive(c)
      BY <1>2, <2>3, GoneStaysGone
    <3> QED BY <2>1, <3>1 DEF AliveBegun
  <2> QED BY <2>2, <2>3
<1> QED BY <1>1, <1>2
-----------------------------------------------------------------------------
(* The steps by what they change *)

\* What the listeners and the count depend on.
rest == <<netId, slot, count, targets, bagTargets, signalled, removals, turned, announced, withdrawn>>

\* A drop of the client is to come.
Pending(c) ==
    dropQueue[c] > 0 \/ \E t \in Thread : work[t].at = "queue" /\ work[t].client = c

PendingDropping == \A c \in Client : Pending(c) => c \in dropping

\* The thread of a request is busy only before it makes the client, and after the end.
RequestIdle == \A c \in Client : phase[c] \notin {"asking", "over"} => work[c].at = "idle"

\* A drop on the main thread, with what leads up to it.
MainDrop(c) ==
    /\ At(Main, "idle") /\ Alive(c)
    /\ dropping' = dropping \cup {c} /\ DropClientInternal(c)
    /\ \A d \in Client \ {c} : dropQueue'[d] = dropQueue[d]
    /\ dropQueue'[c] > 0 => dropQueue[c] > 0
    /\ UNCHANGED <<guid, phase, maps, numbers, joinQueue, announced>>

\* A client gets its net id.
Numbers == HandleConnectingClient /\ ~HasConnected(work[Net].client)

\* A thread other than the main thread turns to a client.
TurnsTo(t, s, c) ==
    /\ t # Main /\ work[t].at = "idle" /\ s \in {"drop", "signal", "peer"}
    /\ work' = [work EXCEPT ![t] = [at |-> s, client |-> c]]
    /\ t \in Client /\ s = "signal" => c = t /\ phase'[t] = "over"
    /\ t \in Client => s # "peer"
    /\ t = Net /\ s # "drop" => Registered(c)

\* The net thread is through with a client that has a net id, or cannot get a slot.
LeavesOff ==
    /\ work[Net].at = "assigned"
    /\ \/ work' = [work EXCEPT ![Net] = Idle]
       \/ work' = [work EXCEPT ![Net] = [at |-> "signal", client |-> work[Net].client]]

\* A step that changes none of what is said below.
Quietly ==
    /\ UNCHANGED <<rest, dropping, dropQueue, joinQueue, byNetId, bySlot>>
    /\ \/ work' = work
       \/ \E t \in Thread, s \in Steps, c \in Client : TurnsTo(t, s, c)
       \/ LeavesOff

LEMMA MainDrops ==
    ASSUME TypeInv, PendingDropping, NEW c \in Client, RunDrop(c) \/ ScriptDrop(c) \/ DropDead(c)
    PROVE  MainDrop(c) \/ Quietly
<1> USE DEF maps, numbers, listeners, removed, rest
<1>1. CASE RunDrop(c)
  <2>1. dropping' = dropping \cup {c} /\ Alive(c)
    BY <1>1 DEF RunDrop, PendingDropping, Pending, Alive
  <2>2. /\ \A d \in Client \ {c} : dropQueue'[d] = dropQueue[d]
        /\ dropQueue'[c] > 0 => dropQueue[c] > 0
    BY <1>1 DEF RunDrop, TypeInv, TypeOK
  <2> QED BY <1>1, <2>1, <2>2 DEF RunDrop, MainDrop, MainFree
<1>2. CASE ScriptDrop(c)
  BY <1>2 DEF ScriptDrop, DropNow, MainDrop, MainFree
<1>3. CASE DropDead(c)
  BY <1>3 DEF DropDead, DropNow, MainDrop, Alive, Quietly
<1> QED BY <1>1, <1>2, <1>3

LEMMA RequestKinds ==
    ASSUME TypeInv, RequestIdle, NEW c \in Client,
           \/ InitConnect(c) \/ MakeClient(c) \/ RefuseTicket(c) \/ Defer(c)
           \/ Allow(c) \/ Refuse(c) \/ FallSilent(c)
    PROVE  Quietly
<1> USE DEF maps, numbers, queues, listeners, removed, rest
<1>0. c \in Thread /\ c # Main /\ c # Net
  BY ClientAssumption DEF Thread
<1>1. UNCHANGED <<rest, dropping, dropQueue, joinQueue, byNetId, bySlot>>
  BY DEF InitConnect, MakeClient, RefuseTicket, Defer, Allow, Refuse, FallSilent
<1>2. CASE InitConnect(c)
  <2>1. \/ work' = work
        \/ /\ byGuid[guid[c]] \in Client
           /\ work' = [work EXCEPT ![c] = [at |-> "drop", client |-> byGuid[guid[c]]]]
    BY <1>2 DEF InitConnect, Become, TypeInv, TypeOK
  <2>2. work[c].at = "idle"
    BY <1>2 DEF InitConnect, RequestIdle
  <2>3. ASSUME NEW d \in Client, work' = [work EXCEPT ![c] = [at |-> "drop", client |-> d]]
        PROVE  TurnsTo(c, "drop", d)
    BY <1>0, <2>2, <2>3 DEF TurnsTo
  <2> QED BY <1>0, <1>1, <2>1, <2>3 DEF Quietly, Steps
<1>3. CASE Refuse(c)
  <2>1. work' = work \/ work' = [work EXCEPT ![c] = [at |-> "signal", client |-> c]]
    BY <1>3 DEF Refuse, Become
  <2>2. work[c].at = "idle" /\ phase'[c] = "over"
    BY <1>3 DEF Refuse, RequestIdle, TypeInv, TypeOK
  <2>3. ASSUME work' = [work EXCEPT ![c] = [at |-> "signal", client |-> c]]
        PROVE  TurnsTo(c, "signal", c)
    BY <1>0, <2>2, <2>3 DEF TurnsTo
  <2> QED BY <1>0, <1>1, <2>1, <2>3 DEF Quietly, Steps
<1>4. CASE MakeClient(c) \/ RefuseTicket(c) \/ Defer(c) \/ Allow(c) \/ FallSilent(c)
  BY <1>1, <1>4 DEF MakeClient, RefuseTicket, Defer, Allow, FallSilent, Quietly
<1> QED BY <1>2, <1>3, <1>4

LEMMA PacketKinds ==
    ASSUME TypeInv, NEW c \in Client, Connect(c) \/ Packet(c)
    PROVE  Quietly
<1> USE DEF maps, numbers, queues, listeners, removed, rest
<1>0. Net \in Thread /\ Net # Main /\ Net \notin Client
  BY ClientAssumption DEF Thread
<1>1. UNCHANGED <<rest, dropping, dropQueue, joinQueue, byNetId, bySlot>> /\ work[Net].at = "idle"
  BY DEF Connect, Packet, At
<1>2. CASE Connect(c)
  <2>1. \/ work' = [work EXCEPT ![Net] = [at |-> "signal", client |-> c]]
        \/ work' = [work EXCEPT ![Net] = [at |-> "peer", client |-> c]]
    BY <1>2 DEF Connect, Become
  <2>2. TurnsTo(Net, "signal", c) \/ TurnsTo(Net, "peer", c)
    BY <1>0, <1>1, <1>2, <2>1 DEF TurnsTo, Connect
  <2> QED BY <1>0, <1>1, <2>2 DEF Quietly, Steps
<1>3. CASE Packet(c)
  <2>1. work' = work \/ TurnsTo(Net, "drop", c)
    BY <1>0, <1>1, <1>3 DEF TurnsTo, Packet, Become
  <2> QED BY <1>0, <1>1, <2>1 DEF Quietly, Steps
<1> QED BY <1>2, <1>3

LEMMA Kinds ==
    ASSUME TypeInv, RequestIdle, PendingDropping, [Next]_vars
    PROVE  \/ Quietly
           \/ \E t \in Thread :
                 \/ DropClient(t) \/ QueueDrop(t)
                 \/ SignalRemoved(t) \/ ResetAliases(t) \/ FreeSlot(t) \/ EraseClient(t)
                 \/ UnassignSlot(t)
           \/ AssignSlot \/ Numbers \/ CountConnected
           \/ \E c \in Client : MainDrop(c) \/ HandleConnectedClient(c)
<1>1. CASE UNCHANGED vars
  BY <1>1 DEF vars, maps, numbers, queues, listeners, removed, rest, Quietly
<1>2. CASE RefuseSlot
  BY <1>2 DEF RefuseSlot, At, Become, maps, numbers, queues, listeners, removed, rest, Quietly, LeavesOff
<1>3. CASE FindDead
  BY <1>3 DEF FindDead, maps, numbers, listeners, removed, rest, Quietly
<1>4. CASE HandleConnectingClient
  BY <1>4 DEF HandleConnectingClient, Numbers, At, queues, removed, rest, Quietly, LeavesOff
<1> QED BY <1>1, <1>2, <1>3, <1>4, MainDrops, RequestKinds, PacketKinds DEF Next, RemoveClient

\* Where another thread's step leaves a thread.
LEMMA Elsewhere ==
    ASSUME TypeInv, NEW t \in Thread, NEW u \in Thread, t # u, NEW r, work' = [work EXCEPT ![t] = r]
    PROVE  work'[u] = work[u]
  BY DEF TypeInv, TypeOK

LEMMA NumbersWhom ==
    ASSUME TypeInv, Numbers
    PROVE  \E n \in NetId :
           LET c == work[Net].client IN
           /\ IsNext(n)
           /\ netId' = [netId EXCEPT ![c] = n] /\ byNetId' = [byNetId EXCEPT ![n] = c]
           /\ targets' = targets \cup {n}
           /\ work' = [work EXCEPT ![Net] = [at |-> "numbered", client |-> c]]
  BY DEF Numbers, HandleConnectingClient, Become

\* Who has a net id keeps it.
LEMMA IdStays ==
    ASSUME TypeInv, RequestIdle, PendingDropping, [Next]_vars, NEW c \in Client, HasConnected(c)
    PROVE  HasConnected(c)' /\ netId'[c] = netId[c]
<1>1. CASE netId' = netId
  BY <1>1 DEF HasConnected
<1>2. CASE Numbers
  <2>1. c # work[Net].client /\ \E n : netId' = [netId EXCEPT ![work[Net].client] = n]
    BY <1>2, NumbersWhom DEF Numbers
  <2> QED BY <2>1 DEF HasConnected, TypeInv, TypeOK
<1>3. netId' = netId \/ Numbers
  BY Kinds DEF Quietly, rest, DropClient, QueueDrop, SignalRemoved, ResetAliases, FreeSlot,
               EraseClient, UnassignSlot, AssignSlot, CountConnected, MainDrop, HandleConnectedClient,
               numbers
<1> QED BY <1>1, <1>2, <1>3

\* A client that is being dropped stays so, and what is counted is counted up.
LEMMA OnlyMore ==
    ASSUME TypeInv, RequestIdle, PendingDropping, [Next]_vars
    PROVE  /\ dropping \subseteq dropping' /\ signalled \subseteq signalled'
           /\ announced \subseteq announced'
           /\ \A c \in Client : /\ removals'[c] \in Nat /\ removals[c] \in Nat
                                /\ removals'[c] >= removals[c]
                                /\ turned[c] \subseteq turned'[c]
<1> USE DEF maps, numbers, listeners, removed
<1>0. TypeOK /\ TypeOK'
  BY TypeStep DEF TypeInv
<1>1. CASE UNCHANGED <<dropping, signalled, announced, removals, turned>>
  BY <1>0, <1>1 DEF TypeOK
<1>2. ASSUME NEW t \in Thread, DropClient(t) \/ SignalRemoved(t)
      PROVE  /\ dropping \subseteq dropping' /\ signalled \subseteq signalled'
             /\ announced \subseteq announced'
             /\ \A c \in Client : removals'[c] >= removals[c] /\ turned[c] \subseteq turned'[c]
  <2>1. CASE DropClient(t)
    BY <1>0, <2>1 DEF DropClient, TypeOK
  <2>2. CASE SignalRemoved(t)
    BY <1>0, <2>2 DEF SignalRemoved, OnDrop, TypeOK
  <2> QED BY <1>2, <2>1, <2>2
<1>3. ASSUME NEW c \in Client, MainDrop(c) \/ HandleConnectedClient(c)
      PROVE  /\ dropping \subseteq dropping' /\ signalled \subseteq signalled'
             /\ announced \subseteq announced'
             /\ \A d \in Client : removals'[d] >= removals[d] /\ turned[d] \subseteq turned'[d]
  <2>1. CASE MainDrop(c)
    BY <1>0, <2>1 DEF MainDrop, DropClientInternal, OnDrop, TypeOK
  <2>2. CASE HandleConnectedClient(c)
    BY <1>0, <2>2 DEF HandleConnectedClient, TypeOK
  <2> QED BY <1>3, <2>1, <2>2
<1>4. \/ UNCHANGED <<dropping, signalled, announced, removals, turned>>
      \/ \E t \in Thread : DropClient(t) \/ SignalRemoved(t)
      \/ \E c \in Client : MainDrop(c) \/ HandleConnectedClient(c)
  BY Kinds DEF Quietly, rest, QueueDrop, ResetAliases, FreeSlot, EraseClient, UnassignSlot, AssignSlot,
               Numbers, HandleConnectingClient, CountConnected
<1> QED BY <1>0, <1>1, <1>2, <1>3, <1>4 DEF TypeOK

-----------------------------------------------------------------------------
(* History: who is where, and what that tells of a client *)

\* The main thread removes only those that it drops.
MainOnlyDrops ==
    work[Main].at \in {"idle"} \cup Reset /\ (work[Main].at # "idle" => work[Main].client \in dropping)

\* A client that two threads remove is removed twice.
RemovedApart == \A t, u \in Thread :
    t # u /\ work[t].at \in Reset /\ work[u].at \in Reset /\ work[t].client = work[u].client
        => removals[work[t].client] > 1

Marks ==
    /\ \A c \in signalled : removals[c] # 0
    /\ \A c \in joinQueue \cup announced \cup withdrawn : HasConnected(c)
    /\ work[Net].at = "numbered" => HasConnected(work[Net].client)

\* A client is announced once.
JoinsOnce ==
    /\ joinQueue \cap announced = {}
    /\ work[Net].at = "numbered" => work[Net].client \notin joinQueue \cup announced
    /\ \A c \in Client : "announced" \in turned[c] => c \in announced

\* A client that a `connect` packet had removed is not connected any more.
TurnedForGood == \A c \in Client : turned[c] # {} =>
    /\ Begun(c) /\ ~Connecting(c)
    /\ ~Registered(c) \/ (work[Net].at \in Reset \ {"unassign"} /\ work[Net].client = c)

\* Why a client was removed, and who has heard of it.
Reasons == \A c \in Client : removals[c] # 0 =>
    /\ c \in signalled \cup dropping
    /\ phase[c] = "over" \/ c \in dropping \/ turned[c] \cap {"new", "announced"} # {}
    /\ phase[c] = "over" \/ c \in signalled \/ turned[c] \cap {"dropping", "freed"} # {}

\* A client that is being dropped had OnDrop called, or will have.
DropsToCome ==
    /\ \A c \in dropping : Pending(c) \/ c \in signalled
    /\ \A c \in dropping \cap announced : Pending(c) \/ c \in withdrawn

LEMMA RequestIdleStep ==
    ASSUME TypeInv, RequestIdle, PendingDropping, [Next]_vars
    PROVE  RequestIdle'
<1> SUFFICES ASSUME NEW c \in Client, phase'[c] \notin {"asking", "over"}
             PROVE  work'[c].at = "idle"
  BY DEF RequestIdle
<1> USE DEF TypeInv, TypeOK
<1>0. c \in Thread /\ c # Main /\ c # Net /\ Net \in Thread /\ Main \in Thread
  BY ClientAssumption DEF Thread
<1>1. phase[c] \notin {"asking", "over"} \/ (MakeClient(c) /\ work[c].at = "idle")
  <2>1. CASE phase' = phase
    BY <2>1
  <2>2. ASSUME NEW d \in Client,
               \/ InitConnect(d) \/ MakeClient(d) \/ RefuseTicket(d) \/ Defer(d)
               \/ Allow(d) \/ Refuse(d)
        PROVE  phase[c] \notin {"asking", "over"} \/ (MakeClient(c) /\ work[c].at = "idle")
    BY <2>2 DEF InitConnect, MakeClient, RefuseTicket, Defer, Allow, Refuse, At
  <2>3. \/ phase' = phase
        \/ \E d \in Client :
              \/ InitConnect(d) \/ MakeClient(d) \/ RefuseTicket(d) \/ Defer(d)
              \/ Allow(d) \/ Refuse(d)
    BY DEF Next, vars, RemoveClient, DropClient, QueueDrop, SignalRemoved, ResetAliases, FreeSlot,
           EraseClient, UnassignSlot, Connect, Packet, AssignSlot, RefuseSlot, HandleConnectingClient,
           CountConnected, RunDrop, ScriptDrop, HandleConnectedClient, DropDead, DropNow, FindDead,
           FallSilent
  <2> QED BY <2>1, <2>2, <2>3
<1>2. work[c].at = "idle"
  BY <1>1 DEF RequestIdle
<1>3. CASE work' = work
  BY <1>2, <1>3
<1>4. CASE \E d \in Client : MainDrop(d)
  BY <1>0, <1>2, <1>4, Elsewhere DEF MainDrop, DropClientInternal, Become
<1>5. ASSUME NEW t \in Thread,
             \/ DropClient(t) \/ QueueDrop(t)
             \/ SignalRemoved(t) \/ ResetAliases(t) \/ FreeSlot(t) \/ EraseClient(t) \/ UnassignSlot(t)
      PROVE  work'[c].at = "idle"
  <2>1. t # c
    BY <1>2, <1>5 DEF DropClient, QueueDrop, SignalRemoved, ResetAliases, FreeSlot, EraseClient,
                      UnassignSlot, At
  <2>2. \E r : work' = [work EXCEPT ![t] = r]
    BY <1>5 DEF DropClient, QueueDrop, SignalRemoved, ResetAliases, FreeSlot, EraseClient,
                UnassignSlot, Become
  <2> QED BY <1>0, <1>2, <2>1, <2>2, Elsewhere
<1>6. CASE AssignSlot \/ Numbers \/ CountConnected \/ LeavesOff
  <2>1. \E r : work' = [work EXCEPT ![Net] = r]
    BY <1>6, NumbersWhom DEF AssignSlot, CountConnected, LeavesOff, Become
  <2> QED BY <1>0, <1>2, <2>1, Elsewhere
<1>7. ASSUME NEW t \in Thread, NEW s \in Steps, NEW d \in Client, TurnsTo(t, s, d)
      PROVE  work'[c].at = "idle"
  <2>1. CASE t # c
    BY <1>0, <1>2, <1>7, <2>1, Elsewhere DEF TurnsTo
  <2>2. CASE t = c
    <3>1. InitConnect(c) \/ Refuse(c)
      <4>1. work' # work
        BY <1>7, <2>2 DEF TurnsTo
      <4>2. ASSUME NEW u \in Thread, u # c, NEW r, work' = [work EXCEPT ![u] = r] PROVE FALSE
        BY <1>0, <1>7, <2>2, <4>2, Elsewhere DEF TurnsTo
      <4>3. ASSUME NEW e \in Client, InitConnect(e) \/ Refuse(e) PROVE e = c
        <5>1. e \in Thread
          BY DEF Thread
        <5>2. work' = work \/ \E r : work' = [work EXCEPT ![e] = r]
          BY <4>3 DEF InitConnect, Refuse, Become
        <5> QED BY <4>1, <4>2, <5>1, <5>2
      <4>4. ASSUME NEW e \in Client,
                   \/ MakeClient(e) \/ RefuseTicket(e) \/ Defer(e) \/ Allow(e)
                   \/ HandleConnectedClient(e) \/ FallSilent(e) \/ FindDead
            PROVE  FALSE
        BY <4>1, <4>4 DEF MakeClient, RefuseTicket, Defer, Allow, HandleConnectedClient, FallSilent,
                          FindDead
      <4>5. ASSUME NEW e \in Client, RunDrop(e) \/ ScriptDrop(e) \/ DropDead(e) PROVE FALSE
        <5>1. work' = work \/ \E r : work' = [work EXCEPT ![Main] = r]
          BY <4>5 DEF RunDrop, ScriptDrop, DropDead, DropNow, DropClientInternal, Become
        <5> QED BY <1>0, <4>1, <4>2, <5>1
      <4>6. ASSUME NEW e \in Client, Connect(e) \/ Packet(e) PROVE FALSE
        <5>1. work' = work \/ \E r : work' = [work EXCEPT ![Net] = r]
          BY <4>6 DEF Connect, Packet, Become
        <5> QED BY <1>0, <4>1, <4>2, <5>1
      <4>7. CASE AssignSlot \/ RefuseSlot \/ HandleConnectingClient \/ CountConnected
        <5>1. work' = work \/ \E r : work' = [work EXCEPT ![Net] = r]
          BY <4>7 DEF AssignSlot, RefuseSlot, HandleConnectingClient, CountConnected, Become
        <5> QED BY <1>0, <4>1, <4>2, <5>1
      <4>8. ASSUME NEW u \in Thread, DropClient(u) \/ QueueDrop(u) \/ RemoveClient(u) PROVE FALSE
        <5>1. u # c
          BY <1>2, <4>8 DEF DropClient, QueueDrop, RemoveClient, SignalRemoved, ResetAliases,
                            FreeSlot, EraseClient, UnassignSlot, At
        <5>2. \E r : work' = [work EXCEPT ![u] = r]
          BY <4>8 DEF DropClient, QueueDrop, RemoveClient, SignalRemoved, ResetAliases, FreeSlot,
                      EraseClient, UnassignSlot, Become
        <5> QED BY <4>2, <5>1, <5>2
      <4> QED BY <4>1, <4>3, <4>4, <4>5, <4>6, <4>7, <4>8 DEF Next, vars
    <3> QED BY <3>1 DEF InitConnect, Refuse
  <2> QED BY <2>1, <2>2
<1>8. ASSUME NEW d \in Client, HandleConnectedClient(d) PROVE work' = work
  BY <1>8 DEF HandleConnectedClient
<1> QED BY <1>3, <1>4, <1>5, <1>6, <1>7, <1>8, Kinds DEF Quietly

LEMMA PendingElsewhere ==
    ASSUME TypeInv, dropQueue' = dropQueue, NEW t \in Thread, work[t].at # "queue",
           NEW r, r.at # "queue", work' = [work EXCEPT ![t] = r]
    PROVE  \A c \in Client : Pending(c) <=> Pending(c)'
  BY DEF TypeInv, TypeOK, Pending

\* A drop that is to come stays so until it runs, and a new one comes of DropClient.
LEMMA PendingKept ==
    ASSUME TypeInv, RequestIdle, PendingDropping, [Next]_vars
    PROVE  \/ \A c \in Client : Pending(c) <=> Pending(c)'
           \/ \E t \in Thread, d \in Client :
                 /\ DropClient(t) /\ work[t].client = d /\ Pending(d)'
                 /\ \A c \in Client \ {d} : Pending(c) <=> Pending(c)'
           \/ \E d \in Client : /\ MainDrop(d) /\ (Pending(d)' => Pending(d))
                                /\ \A c \in Client \ {d} : Pending(c) <=> Pending(c)'
<1>0. Net \in Thread /\ Main \in Thread /\ Net # Main
  BY ClientAssumption DEF Thread
<1> DEFINE Same == \A c \in Client : Pending(c) <=> Pending(c)'
<1>1. ASSUME UNCHANGED <<dropQueue, work>> PROVE Same
  BY <1>1 DEF Pending
<1>2. ASSUME NEW t \in Thread, dropQueue' = dropQueue, work[t].at # "queue",
             NEW s \in Steps \ {"queue"}, NEW d, work' = [work EXCEPT ![t] = [at |-> s, client |-> d]]
      PROVE  Same
  <2>1. [at |-> s, client |-> d].at # "queue"
    BY <1>2
  <2> QED BY <1>2, <2>1, PendingElsewhere
<1>3. ASSUME NEW t \in Thread, dropQueue' = dropQueue, work[t].at # "queue",
             work' = [work EXCEPT ![t] = Idle]
      PROVE  Same
  <2>1. Idle.at # "queue"
    BY DEF Idle
  <2> QED BY <1>3, <2>1, PendingElsewhere
<1>4. CASE Quietly
  <2>1. dropQueue' = dropQueue
    BY <1>4 DEF Quietly
  <2>2. ASSUME NEW t \in Thread, NEW s \in Steps, NEW c \in Client, TurnsTo(t, s, c) PROVE Same
    <3>1. work[t].at # "queue" /\ s # "queue" /\ work' = [work EXCEPT ![t] = [at |-> s, client |-> c]]
      BY <2>2 DEF TurnsTo
    <3> QED BY <1>2, <2>1, <3>1
  <2>3. CASE LeavesOff
    <3>1. work[Net].at # "queue" /\ "signal" \in Steps \ {"queue"}
      BY <2>3 DEF LeavesOff, Steps
    <3> QED BY <1>0, <1>2, <1>3, <2>1, <2>3, <3>1 DEF LeavesOff
  <2> QED BY <1>1, <1>4, <2>2, <2>3 DEF Quietly
<1>5. ASSUME NEW t \in Thread,
             SignalRemoved(t) \/ ResetAliases(t) \/ FreeSlot(t) \/ EraseClient(t) \/ UnassignSlot(t)
      PROVE  Same
  <2>1. dropQueue' = dropQueue /\ work[t].at # "queue"
    BY <1>5 DEF SignalRemoved, ResetAliases, FreeSlot, EraseClient, UnassignSlot, At, queues
  <2>2. \/ work' = [work EXCEPT ![t] = Idle]
        \/ \E s \in Reset : work' = [work EXCEPT ![t] = [at |-> s, client |-> work[t].client]]
    BY <1>5 DEF SignalRemoved, ResetAliases, FreeSlot, EraseClient, UnassignSlot, Become, Reset
  <2>3. Reset \subseteq Steps \ {"queue"}
    BY DEF Reset, Steps
  <2> QED BY <1>2, <1>3, <2>1, <2>2, <2>3
<1>6. CASE AssignSlot \/ Numbers \/ CountConnected
  <2>1. dropQueue' = dropQueue /\ work[Net].at # "queue"
    BY <1>6 DEF AssignSlot, Numbers, HandleConnectingClient, CountConnected, At, queues
  <2>2. \/ work' = [work EXCEPT ![Net] = Idle]
        \/ \E s \in {"assigned", "numbered"} :
              work' = [work EXCEPT ![Net] = [at |-> s, client |-> work[Net].client]]
    BY <1>6, NumbersWhom DEF AssignSlot, CountConnected, Become
  <2>3. {"assigned", "numbered"} \subseteq Steps \ {"queue"}
    BY DEF Steps
  <2> QED BY <1>0, <1>2, <1>3, <2>1, <2>2, <2>3
<1>7. ASSUME NEW t \in Thread, QueueDrop(t) PROVE Same
  <2>1. /\ work[t].at = "queue" /\ work[t].client \in Client
        /\ dropQueue' = [dropQueue EXCEPT ![work[t].client] = @ + 1]
        /\ work' = [work EXCEPT ![t] = Idle]
    BY <1>7 DEF QueueDrop, At, TypeInv, WorkMatch
  <2> QED BY <2>1 DEF Pending, Idle, TypeInv, TypeOK
<1>8. ASSUME NEW t \in Thread, DropClient(t)
      PROVE  \E d \in Client : /\ DropClient(t) /\ work[t].client = d /\ Pending(d)'
                              /\ \A c \in Client \ {d} : Pending(c) <=> Pending(c)'
  <2> DEFINE d == work[t].client
  <2>1. /\ work[t].at = "drop" /\ dropQueue' = dropQueue /\ d \in Client
        /\ work' = [work EXCEPT ![t] = [at |-> "queue", client |-> d]]
    BY <1>8 DEF DropClient, At, Become, queues, TypeInv, WorkMatch
  <2>2. \A e \in Client : e = d => Pending(e)'
    BY <2>1 DEF Pending, TypeInv, TypeOK
  <2>3. \A c \in Client : c # d => (Pending(c) <=> Pending(c)')
    BY <2>1 DEF Pending, TypeInv, TypeOK
  <2>4. PICK e \in Client : e = d
    BY <2>1
  <2> HIDE DEF d
  <2>5. d = work[t].client
    BY DEF d
  <2> QED BY <1>8, <2>2, <2>3, <2>4, <2>5
<1>9. ASSUME NEW d \in Client, MainDrop(d)
      PROVE  /\ Pending(d)' => Pending(d)
             /\ \A c \in Client \ {d} : Pending(c) <=> Pending(c)'
  <2>1. /\ \A c \in Client \ {d} : dropQueue'[c] = dropQueue[c]
        /\ dropQueue'[d] > 0 => dropQueue[d] > 0
        /\ work[Main].at = "idle" /\ work' = [work EXCEPT ![Main] = [at |-> "aliases", client |-> d]]
    BY <1>9 DEF MainDrop, DropClientInternal, At, Become
  <2> QED BY <1>0, <2>1 DEF Pending, TypeInv, TypeOK
<1>10. ASSUME NEW c \in Client, HandleConnectedClient(c) PROVE Same
  BY <1>1, <1>10 DEF HandleConnectedClient
<1> QED BY <1>4, <1>5, <1>6, <1>7, <1>8, <1>9, <1>10, Kinds

LEMMA PendingDroppingStep ==
    ASSUME TypeInv, RequestIdle, PendingDropping, [Next]_vars
    PROVE  PendingDropping'
<1>1. ASSUME NEW t \in Thread, DropClient(t) PROVE work[t].client \in dropping'
  BY <1>1 DEF DropClient
<1> QED BY <1>1, PendingKept, OnlyMore DEF PendingDropping

\* What a thread goes on to.
Goes(u, from, to) == work[u].at = from /\ work'[u] = [at |-> to, client |-> work[u].client]

Ends(u, from) == work[u].at = from /\ work'[u] = Idle
Begins(u) == \E s \in {"drop", "signal", "peer"}, c \in Client :
    TurnsTo(u, s, c) /\ work'[u] = [at |-> s, client |-> c]
MainBegins(u) == \E c \in Client :
    u = Main /\ MainDrop(c) /\ work[u].at = "idle" /\ work'[u] = [at |-> "aliases", client |-> c]

ThreadStep(u) ==
    \/ work'[u] = work[u]
    \/ Begins(u)
    \/ u = Net /\ Ends(u, "assigned")
    \/ u = Net /\ Goes(u, "assigned", "signal")
    \/ u = Net /\ AssignSlot /\ Goes(u, "peer", "assigned")
    \/ u = Net /\ Numbers /\ Goes(u, "assigned", "numbered")
    \/ u = Net /\ CountConnected /\ Ends(u, "numbered")
    \/ DropClient(u) /\ Goes(u, "drop", "queue")
    \/ QueueDrop(u) /\ Ends(u, "queue")
    \/ SignalRemoved(u) /\ Goes(u, "signal", "aliases")
    \/ ResetAliases(u) /\ Goes(u, "aliases", "slot")
    \/ FreeSlot(u) /\ Goes(u, "slot", "erase")
    \/ EraseClient(u) /\ Goes(u, "erase", "unassign")
    \/ UnassignSlot(u) /\ Ends(u, "unassign")
    \/ MainBegins(u)

LEMMA ThreadKinds ==
    ASSUME TypeInv, RequestIdle, PendingDropping, [Next]_vars, NEW u \in Thread
    PROVE  ThreadStep(u)
<1> USE DEF ThreadStep
<1>0. Net \in Thread /\ Main \in Thread /\ Net # Main /\ Net \notin Client /\ Main \notin Client
  BY ClientAssumption DEF Thread
<1>1. ASSUME NEW t \in Thread, NEW r, work' = [work EXCEPT ![t] = r]
      PROVE  work'[u] = IF u = t THEN r ELSE work[u]
  BY <1>1 DEF TypeInv, TypeOK
<1>2. CASE Quietly
  <2>1. ASSUME NEW t \in Thread, NEW s \in Steps, NEW c \in Client, TurnsTo(t, s, c), u = t
        PROVE  Begins(u)
    <3>1. work'[u] = [at |-> s, client |-> c] /\ s \in {"drop", "signal", "peer"}
      BY <1>1, <2>1 DEF TurnsTo
    <3>2. TurnsTo(u, s, c)
      BY <2>1
    <3> QED BY <3>1, <3>2 DEF Begins
  <2>2. ASSUME NEW t \in Thread, NEW s \in Steps, NEW c \in Client, TurnsTo(t, s, c), u # t
        PROVE  work'[u] = work[u]
    BY <1>1, <2>2 DEF TurnsTo
  <2>3. CASE LeavesOff /\ u = Net
    BY <1>0, <1>1, <2>3 DEF LeavesOff, Goes, Ends
  <2>4. CASE LeavesOff /\ u # Net
    BY <1>0, <1>1, <2>4 DEF LeavesOff
  <2> QED BY <1>2, <2>1, <2>2, <2>3, <2>4 DEF Quietly
<1>3. ASSUME NEW t \in Thread,
             \/ DropClient(t) \/ QueueDrop(t)
             \/ SignalRemoved(t) \/ ResetAliases(t) \/ FreeSlot(t) \/ EraseClient(t) \/ UnassignSlot(t)
      PROVE  \/ u # t /\ work'[u] = work[u]
             \/ DropClient(u) /\ Goes(u, "drop", "queue")
             \/ QueueDrop(u) /\ Ends(u, "queue")
             \/ SignalRemoved(u) /\ Goes(u, "signal", "aliases")
             \/ ResetAliases(u) /\ Goes(u, "aliases", "slot")
             \/ FreeSlot(u) /\ Goes(u, "slot", "erase")
             \/ EraseClient(u) /\ Goes(u, "erase", "unassign")
             \/ UnassignSlot(u) /\ Ends(u, "unassign")
  <2> DEFINE c == work[t].client
  <2>1. CASE DropClient(t)
    <3>1. work[t].at = "drop" /\ work' = [work EXCEPT ![t] = [at |-> "queue", client |-> c]]
      BY <2>1 DEF DropClient, At, Become
    <3>2. work'[u] = IF u = t THEN [at |-> "queue", client |-> c] ELSE work[u]
      BY <1>1, <3>1
    <3> QED BY <2>1, <3>1, <3>2 DEF Goes
  <2>2. CASE QueueDrop(t)
    <3>1. work[t].at = "queue" /\ work' = [work EXCEPT ![t] = Idle]
      BY <2>2 DEF QueueDrop, At
    <3>2. work'[u] = IF u = t THEN Idle ELSE work[u]
      BY <1>1, <3>1
    <3> QED BY <2>2, <3>1, <3>2 DEF Ends
  <2>3. CASE SignalRemoved(t)
    <3>1. work[t].at = "signal" /\ work' = [work EXCEPT ![t] = [at |-> "aliases", client |-> c]]
      BY <2>3 DEF SignalRemoved, At, Become
    <3>2. work'[u] = IF u = t THEN [at |-> "aliases", client |-> c] ELSE work[u]
      BY <1>1, <3>1
    <3> QED BY <2>3, <3>1, <3>2 DEF Goes
  <2>4. CASE ResetAliases(t)
    <3>1. work[t].at = "aliases" /\ work' = [work EXCEPT ![t] = [at |-> "slot", client |-> c]]
      BY <2>4 DEF ResetAliases, At, Become
    <3>2. work'[u] = IF u = t THEN [at |-> "slot", client |-> c] ELSE work[u]
      BY <1>1, <3>1
    <3> QED BY <2>4, <3>1, <3>2 DEF Goes
  <2>5. CASE FreeSlot(t)
    <3>1. work[t].at = "slot" /\ work' = [work EXCEPT ![t] = [at |-> "erase", client |-> c]]
      BY <2>5 DEF FreeSlot, At, Become
    <3>2. work'[u] = IF u = t THEN [at |-> "erase", client |-> c] ELSE work[u]
      BY <1>1, <3>1
    <3> QED BY <2>5, <3>1, <3>2 DEF Goes
  <2>6. CASE EraseClient(t)
    <3>1. work[t].at = "erase" /\ work' = [work EXCEPT ![t] = [at |-> "unassign", client |-> c]]
      BY <2>6 DEF EraseClient, At, Become
    <3>2. work'[u] = IF u = t THEN [at |-> "unassign", client |-> c] ELSE work[u]
      BY <1>1, <3>1
    <3> QED BY <2>6, <3>1, <3>2 DEF Goes
  <2>7. CASE UnassignSlot(t)
    <3>1. work[t].at = "unassign" /\ work' = [work EXCEPT ![t] = Idle]
      BY <2>7 DEF UnassignSlot, At
    <3>2. work'[u] = IF u = t THEN Idle ELSE work[u]
      BY <1>1, <3>1
    <3> QED BY <2>7, <3>1, <3>2 DEF Ends
  <2> QED BY <1>3, <2>1, <2>2, <2>3, <2>4, <2>5, <2>6, <2>7
<1>4. CASE AssignSlot
  BY <1>0, <1>1, <1>4 DEF AssignSlot, At, Become, Goes
<1>5. CASE Numbers
  <2>1. /\ work[Net].at = "assigned"
        /\ work' = [work EXCEPT ![Net] = [at |-> "numbered", client |-> work[Net].client]]
    BY <1>5, NumbersWhom DEF Numbers, HandleConnectingClient, At
  <2> QED BY <1>0, <1>1, <1>5, <2>1 DEF Goes
<1>6. CASE CountConnected
  BY <1>0, <1>1, <1>6 DEF CountConnected, At, Ends
<1>7. ASSUME NEW c \in Client, MainDrop(c)
      PROVE  work'[u] = work[u] \/ MainBegins(u)
  <2>1. work[Main].at = "idle" /\ work' = [work EXCEPT ![Main] = [at |-> "aliases", client |-> c]]
    BY <1>7 DEF MainDrop, DropClientInternal, At, Become
  <2>2. u # Main => work'[u] = work[u]
    BY <1>0, <1>1, <2>1
  <2>3. u = Main => work'[u] = [at |-> "aliases", client |-> c]
    BY <1>0, <1>1, <2>1
  <2> QED BY <1>7, <2>1, <2>2, <2>3 DEF MainBegins
<1>8. ASSUME NEW c \in Client, HandleConnectedClient(c) PROVE work'[u] = work[u]
  BY <1>8 DEF HandleConnectedClient
<1> QED BY <1>2, <1>3, <1>4, <1>5, <1>6, <1>7, <1>8, Kinds

\* Who is inside a removal, after a step and before it.
LEMMA ResetKinds ==
    ASSUME TypeInv, RequestIdle, PendingDropping, [Next]_vars, NEW u \in Thread
    PROVE  /\ work'[u].at \in Reset =>
                 \/ work[u].at \in Reset /\ work'[u].client = work[u].client
                 \/ SignalRemoved(u) /\ Goes(u, "signal", "aliases")
                 \/ MainBegins(u)
           /\ work[u].at \in Reset =>
                 \/ work'[u].at \in Reset /\ work'[u].client = work[u].client
                 \/ UnassignSlot(u) /\ Ends(u, "unassign")
<1>1. CASE work'[u] = work[u]
  BY <1>1
<1>2. CASE Begins(u)
  BY <1>2 DEF Begins, TurnsTo, Reset
<1>3. CASE \E s \in {"signal", "assigned", "numbered"} : Goes(u, "assigned", s) \/ Goes(u, "peer", s)
  BY <1>3 DEF Goes, Reset
<1>4. CASE Ends(u, "assigned") \/ Ends(u, "numbered") \/ Ends(u, "queue") \/ Goes(u, "drop", "queue")
  BY <1>4 DEF Goes, Ends, Idle, Reset
<1>5. CASE Goes(u, "aliases", "slot") \/ Goes(u, "slot", "erase") \/ Goes(u, "erase", "unassign")
  BY <1>5 DEF Goes, Reset
<1>6. CASE SignalRemoved(u) /\ Goes(u, "signal", "aliases")
  BY <1>6 DEF Goes, Reset
<1>7. CASE UnassignSlot(u) /\ Ends(u, "unassign")
  BY <1>7 DEF Ends, Idle, Reset
<1>8. CASE MainBegins(u)
  BY <1>8 DEF MainBegins, Reset
<1>9. ThreadStep(u)
  BY ThreadKinds
<1> QED BY <1>1, <1>2, <1>3, <1>4, <1>5, <1>6, <1>7, <1>8, <1>9 DEF ThreadStep

LEMMA MainOnlyDropsStep ==
    ASSUME TypeInv, RequestIdle, PendingDropping, MainOnlyDrops, [Next]_vars
    PROVE  MainOnlyDrops'
<1>0. Main \in Thread /\ Net # Main
  BY ClientAssumption DEF Thread
<1>1. CASE work'[Main] = work[Main]
  BY <1>1, OnlyMore DEF MainOnlyDrops
<1>2. CASE \E from \in {"aliases", "slot", "erase"}, to \in Reset : Goes(Main, from, to)
  BY <1>2, OnlyMore DEF MainOnlyDrops, Goes, Reset
<1>3. CASE Ends(Main, "unassign")
  BY <1>3 DEF MainOnlyDrops, Ends, Idle
<1>4. CASE MainBegins(Main)
  BY <1>4 DEF MainOnlyDrops, MainBegins, MainDrop, Reset
<1>5. ~Begins(Main)
  BY DEF Begins, TurnsTo
<1>6. work[Main].at \in {"idle"} \cup Reset
  BY DEF MainOnlyDrops
<1>7. ThreadStep(Main)
  BY <1>0, ThreadKinds
<1>8. {"slot", "erase", "unassign"} \subseteq Reset
  BY DEF Reset
<1>9. /\ ~(Goes(Main, "drop", "queue") \/ Ends(Main, "queue") \/ Goes(Main, "signal", "aliases"))
  BY <1>6 DEF Goes, Ends, Reset
<1> QED BY <1>0, <1>1, <1>2, <1>3, <1>4, <1>5, <1>7, <1>8, <1>9 DEF ThreadStep

\* The steps that the history of a client knows of.
LEMMA HistoryKinds ==
    ASSUME TypeInv, RequestIdle, PendingDropping, [Next]_vars
    PROVE  \/ UNCHANGED <<removals, signalled, withdrawn, announced, turned, joinQueue>>
           \/ \E t \in Thread : SignalRemoved(t)
           \/ CountConnected
           \/ \E c \in Client : MainDrop(c) \/ HandleConnectedClient(c)
  BY Kinds DEF Quietly, rest, DropClient, QueueDrop, ResetAliases, FreeSlot, EraseClient, UnassignSlot,
               AssignSlot, Numbers, HandleConnectingClient, listeners, queues, removed

\* A removal counts once more for its client, and for no other.
LEMMA RemovalAdds ==
    ASSUME TypeInv, NEW t \in Thread, SignalRemoved(t)
    PROVE  /\ work[t].client \in Client /\ work[t].at = "signal"
           /\ removals'[work[t].client] = removals[work[t].client] + 1
           /\ \A d \in Client \ {work[t].client} : removals'[d] = removals[d] /\ turned'[d] = turned[d]
           /\ signalled' \subseteq signalled \cup {work[t].client}
           /\ work[t].client \in dropping \/ work[t].client \in signalled'
           /\ work' = [work EXCEPT ![t] = [at |-> "aliases", client |-> work[t].client]]
  BY DEF SignalRemoved, At, Become, OnDrop, TypeInv, TypeOK, WorkMatch

LEMMA DropAdds ==
    ASSUME TypeInv, NEW c \in Client, MainDrop(c)
    PROVE  /\ removals'[c] = removals[c] + 1
           /\ \A d \in Client \ {c} : removals'[d] = removals[d]
           /\ turned' = turned /\ signalled' = signalled \cup {c} /\ c \in dropping'
           /\ dropping' = dropping \cup {c}
           /\ withdrawn' = IF HasConnected(c) THEN withdrawn \cup {c} ELSE withdrawn
           /\ announced' = announced /\ joinQueue' = joinQueue
           /\ work[Main].at = "idle"
           /\ work' = [work EXCEPT ![Main] = [at |-> "aliases", client |-> c]]
  BY DEF MainDrop, DropClientInternal, At, Become, OnDrop, TypeInv, TypeOK

\* A thread that comes to a removal finds the other one there.
LEMMA ComesSecond ==
    ASSUME TypeInv, RequestIdle, PendingDropping, RemovalCounted, [Next]_vars,
           NEW t \in Thread, NEW u \in Thread, t # u,
           work'[t].at \in Reset, work'[u].at \in Reset, work'[t].client = work'[u].client,
           (SignalRemoved(t) /\ Goes(t, "signal", "aliases")) \/ MainBegins(t)
    PROVE  removals'[work'[t].client] > 1
<1>0. Main \in Thread
  BY DEF Thread
<1>1. \A c \in Client : removals[c] \in Nat
  BY DEF TypeInv, TypeOK
<1>2. CASE SignalRemoved(t) /\ Goes(t, "signal", "aliases")
  <2>1. work'[u] = work[u] /\ work'[t].client = work[t].client
    BY <1>2, RemovalAdds, Elsewhere DEF Goes
  <2>2. removals[work[t].client] # 0
    BY <2>1 DEF RemovalCounted
  <2>3. work[t].client \in Client /\ removals'[work[t].client] = removals[work[t].client] + 1
    BY <1>2, RemovalAdds
  <2> QED BY <1>1, <2>1, <2>2, <2>3
<1>3. CASE MainBegins(t)
  <2>1. PICK c \in Client : t = Main /\ MainDrop(c) /\ work'[t] = [at |-> "aliases", client |-> c]
    BY <1>3 DEF MainBegins
  <2>2. work'[u] = work[u] /\ work'[t].client = c
    BY <1>0, <2>1, DropAdds, Elsewhere
  <2>3. removals[c] # 0
    BY <2>2 DEF RemovalCounted
  <2>4. removals'[c] = removals[c] + 1
    BY <2>1, DropAdds
  <2> QED BY <1>1, <2>2, <2>3, <2>4
<1> QED BY <1>2, <1>3

LEMMA RemovedApartStep ==
    ASSUME TypeInv, RequestIdle, PendingDropping, RemovalCounted, RemovedApart, [Next]_vars
    PROVE  RemovedApart'
<1> SUFFICES ASSUME NEW t \in Thread, NEW u \in Thread, t # u,
                    work'[t].at \in Reset, work'[u].at \in Reset, work'[t].client = work'[u].client
             PROVE  removals'[work'[t].client] > 1
  BY DEF RemovedApart
<1> DEFINE Before(w) == work[w].at \in Reset /\ work'[w].client = work[w].client
           Comes(w) == (SignalRemoved(w) /\ Goes(w, "signal", "aliases")) \/ MainBegins(w)
<1>1. Before(t) \/ Comes(t)
  BY ResetKinds
<1>2. Before(u) \/ Comes(u)
  BY ResetKinds
<1>3. CASE Before(t) /\ Before(u)
  <2>1. removals[work[t].client] > 1
    BY <1>3 DEF RemovedApart
  <2>2. work[t].client \in Client
    BY <1>3 DEF Reset, TypeInv, WorkMatch
  <2>3. removals'[work[t].client] >= removals[work[t].client] /\ removals[work[t].client] \in Nat
        /\ removals'[work[t].client] \in Nat
    BY <2>2, OnlyMore
  <2> QED BY <1>3, <2>1, <2>3
<1>4. CASE Comes(t)
  BY <1>4, ComesSecond
<1>5. CASE Comes(u)
  <2>1. removals'[work'[u].client] > 1
    BY <1>5, ComesSecond
  <2> QED BY <2>1
<1> QED BY <1>1, <1>2, <1>3, <1>4, <1>5

LEMMA MarksStep ==
    ASSUME TypeInv, RequestIdle, PendingDropping, Marks, [Next]_vars
    PROVE  Marks'
<1> DEFINE Connected == joinQueue \cup announced \cup withdrawn
<1>0. Net \in Thread /\ Connected \subseteq Client /\ signalled \subseteq Client
  BY DEF Thread, TypeInv, TypeOK
<1>1. \A c \in signalled' : removals'[c] # 0
  <2>1. \A c \in signalled : removals'[c] # 0
    BY <1>0, OnlyMore DEF Marks
  <2>2. ASSUME NEW t \in Thread, SignalRemoved(t) PROVE \A c \in signalled' : removals'[c] # 0
    <3>1. removals[work[t].client] \in Nat /\ removals'[work[t].client] = removals[work[t].client] + 1
      BY <2>2, RemovalAdds DEF TypeInv, TypeOK
    <3>2. signalled' \subseteq signalled \cup {work[t].client}
      BY <2>2, RemovalAdds
    <3> QED BY <2>1, <3>1, <3>2
  <2>3. ASSUME NEW d \in Client, MainDrop(d) PROVE \A c \in signalled' : removals'[c] # 0
    <3>1. removals[d] \in Nat /\ removals'[d] = removals[d] + 1 /\ signalled' = signalled \cup {d}
      BY <2>3, DropAdds DEF TypeInv, TypeOK
    <3> QED BY <2>1, <3>1
  <2>4. \/ signalled' = signalled
        \/ \E t \in Thread : SignalRemoved(t)
        \/ \E d \in Client : MainDrop(d)
    BY HistoryKinds DEF CountConnected, HandleConnectedClient, listeners
  <2> QED BY <2>1, <2>2, <2>3, <2>4
<1>2. \A c \in Connected : HasConnected(c)'
  BY <1>0, IdStays DEF Marks
<1>3. \A c \in Connected' : HasConnected(c)'
  <2>1. CASE CountConnected
    <3>1. work[Net].client \in Client /\ HasConnected(work[Net].client)
      BY <1>0, <2>1 DEF CountConnected, At, Marks, TypeInv, WorkMatch
    <3>2. Connected' \subseteq Connected \cup {work[Net].client}
      BY <2>1 DEF CountConnected, listeners
    <3> QED BY <1>2, <3>1, <3>2, IdStays
  <2>2. ASSUME NEW d \in Client, MainDrop(d) PROVE \A c \in Connected' : HasConnected(c)'
    <3>1. CASE HasConnected(d)
      <4>1. Connected' \subseteq Connected \cup {d}
        BY <2>2, <3>1, DropAdds
      <4>2. HasConnected(d)'
        BY <3>1, IdStays
      <4> QED BY <1>2, <4>1, <4>2
    <3>2. CASE ~HasConnected(d)
      <4>1. Connected' \subseteq Connected
        BY <2>2, <3>2, DropAdds
      <4> QED BY <1>2, <4>1
    <3> QED BY <3>1, <3>2
  <2>3. ASSUME NEW d \in Client, HandleConnectedClient(d) PROVE Connected' \subseteq Connected
    BY <2>3 DEF HandleConnectedClient
  <2>4. ASSUME NEW t \in Thread, SignalRemoved(t) PROVE Connected' \subseteq Connected
    BY <2>4 DEF SignalRemoved, queues
  <2>5. ASSUME UNCHANGED <<withdrawn, announced, joinQueue>> PROVE Connected' \subseteq Connected
    BY <2>5
  <2> QED BY <1>2, <2>1, <2>2, <2>3, <2>4, <2>5, HistoryKinds
<1>4. work'[Net].at = "numbered" => netId'[work'[Net].client] # 0
  <2>1. CASE work'[Net] = work[Net]
    <3>1. work[Net].at = "numbered" =>
              work[Net].client \in Client /\ HasConnected(work[Net].client)
      BY <1>0 DEF Marks, TypeInv, WorkMatch
    <3> QED BY <2>1, <3>1, IdStays DEF HasConnected
  <2>2. CASE Numbers
    <3>1. PICK n \in NetId : /\ netId' = [netId EXCEPT ![work[Net].client] = n]
                             /\ work' = [work EXCEPT ![Net] = [at |-> "numbered", client |-> work[Net].client]]
      BY <2>2, NumbersWhom
    <3>2. work[Net].client \in Client
      BY <1>0, <2>2 DEF Numbers, HandleConnectingClient, At, TypeInv, WorkMatch
    <3>3. netId'[work[Net].client] = n /\ work'[Net].client = work[Net].client
      BY <1>0, <3>1, <3>2 DEF TypeInv, TypeOK
    <3>4. n # 0
      BY DEF NetId
    <3> QED BY <3>3, <3>4
  <2>3. work'[Net] = work[Net] \/ work'[Net].at # "numbered" \/ Numbers
    <3>1. ThreadStep(Net)
      BY <1>0, ThreadKinds
    <3>2. ~MainBegins(Net)
      BY ClientAssumption DEF MainBegins
    <3>3. Begins(Net) => work'[Net].at # "numbered"
      BY DEF Begins
    <3> QED BY <3>1, <3>2, <3>3 DEF ThreadStep, Goes, Ends, Idle
  <2> QED BY <2>1, <2>2, <2>3
<1> QED BY <1>1, <1>3, <1>4 DEF Marks, HasConnected

LEMMA JoinsOnceStep ==
    ASSUME TypeInv, RequestIdle, PendingDropping, Marks, JoinsOnce, [Next]_vars
    PROVE  JoinsOnce'
<1>0. Net \in Thread /\ Net # Main
  BY ClientAssumption DEF Thread
<1>1. (joinQueue \cap announced)' = {}
  <2>1. CASE CountConnected
    BY <2>1 DEF CountConnected, At, JoinsOnce
  <2>2. ASSUME NEW d \in Client, HandleConnectedClient(d) PROVE (joinQueue \cap announced)' = {}
    BY <2>2 DEF HandleConnectedClient, JoinsOnce
  <2>3. ASSUME NEW d \in Client, MainDrop(d) PROVE (joinQueue \cap announced)' = {}
    BY <2>3, DropAdds DEF JoinsOnce
  <2>4. ASSUME NEW t \in Thread, SignalRemoved(t) PROVE (joinQueue \cap announced)' = {}
    BY <2>4 DEF SignalRemoved, queues, JoinsOnce
  <2>5. ASSUME UNCHANGED <<announced, joinQueue>> PROVE (joinQueue \cap announced)' = {}
    BY <2>5 DEF JoinsOnce
  <2> QED BY <2>1, <2>2, <2>3, <2>4, <2>5, HistoryKinds
<1>2. \A c \in Client : "announced" \in turned'[c] => c \in announced'
  <2>1. ASSUME NEW t \in Thread, SignalRemoved(t)
        PROVE  \A c \in Client : "announced" \in turned'[c] => c \in announced'
    <3>1. announced' = announced
      BY <2>1 DEF SignalRemoved
    <3>2. "announced" \in turned'[work[t].client] =>
              "announced" \in turned[work[t].client] \/ work[t].client \in announced
      <4>1. Stage(work[t].client) = "announced" => work[t].client \in announced
        BY DEF Stage
      <4>2. turned'[work[t].client] \subseteq turned[work[t].client] \cup {Stage(work[t].client)}
        BY <2>1, RemovalAdds DEF SignalRemoved, TypeInv, TypeOK
      <4> QED BY <4>1, <4>2
    <3>3. \A c \in Client \ {work[t].client} : turned'[c] = turned[c]
      BY <2>1, RemovalAdds
    <3>4. work[t].client \in Client
      BY <2>1, RemovalAdds
    <3> QED BY <3>1, <3>2, <3>3, <3>4 DEF JoinsOnce
  <2>2. turned' = turned \/ \E t \in Thread : SignalRemoved(t)
    BY HistoryKinds, DropAdds DEF CountConnected, HandleConnectedClient, removed
  <2> QED BY <2>1, <2>2, OnlyMore DEF JoinsOnce
<1>3. work'[Net].at = "numbered" => work'[Net].client \notin joinQueue' \cup announced'
  <2>1. CASE Numbers
    <3>1. work[Net].client \in Client /\ ~HasConnected(work[Net].client)
      BY <1>0, <2>1 DEF Numbers, HandleConnectingClient, At, TypeInv, WorkMatch
    <3>2. work'[Net].client = work[Net].client
      BY <1>0, <2>1, NumbersWhom DEF TypeInv, TypeOK
    <3>3. joinQueue' = joinQueue /\ announced' = announced
      BY <2>1 DEF Numbers, HandleConnectingClient, queues
    <3> QED BY <3>1, <3>2, <3>3 DEF Marks
  <2>2. CASE work'[Net] = work[Net] /\ work[Net].at = "numbered"
    <3>1. joinQueue' \cup announced' \subseteq joinQueue \cup announced
      <4>1. ~CountConnected
        BY <1>0, <2>2 DEF CountConnected, At, Idle, TypeInv, TypeOK
      <4>2. ASSUME NEW d \in Client, HandleConnectedClient(d)
            PROVE joinQueue' \cup announced' \subseteq joinQueue \cup announced
        BY <4>2 DEF HandleConnectedClient
      <4>3. ASSUME NEW d \in Client, MainDrop(d)
            PROVE joinQueue' \cup announced' \subseteq joinQueue \cup announced
        BY <4>3, DropAdds
      <4>4. ASSUME NEW t \in Thread, SignalRemoved(t)
            PROVE joinQueue' \cup announced' \subseteq joinQueue \cup announced
        BY <4>4 DEF SignalRemoved, queues
      <4> QED BY <4>1, <4>2, <4>3, <4>4, HistoryKinds
    <3> QED BY <2>2, <3>1 DEF JoinsOnce
  <2>3. work'[Net] = work[Net] \/ work'[Net].at # "numbered" \/ Numbers
    <3>1. ThreadStep(Net)
      BY <1>0, ThreadKinds
    <3>2. ~MainBegins(Net)
      BY <1>0 DEF MainBegins
    <3>3. Begins(Net) => work'[Net].at # "numbered"
      BY DEF Begins
    <3> QED BY <3>1, <3>2, <3>3 DEF ThreadStep, Goes, Ends, Idle
  <2> QED BY <2>1, <2>2, <2>3
<1> QED BY <1>1, <1>2, <1>3 DEF JoinsOnce

LEMMA NotRegisteredStays ==
    ASSUME TypeInv, [Next]_vars, NEW c \in Client, Begun(c), ~Registered(c)
    PROVE  ~Registered(c)'
<1> USE DEF TypeInv, TypeOK, Registered, Begun, maps
<1>1. CASE UNCHANGED <<guid, byGuid>>
  BY <1>1
<1>2. ASSUME NEW d \in Client, MakeClient(d) PROVE ~Registered(c)'
  BY <1>2 DEF MakeClient
<1>3. ASSUME NEW t \in Thread, EraseClient(t) PROVE ~Registered(c)'
  BY <1>3, ClientAssumption DEF EraseClient
<1>4. CASE UNCHANGED vars
  BY <1>1, <1>4 DEF vars
<1> QED
  BY <1>1, <1>2, <1>3, <1>4
     DEF Next, RemoveClient, DropClient, QueueDrop, SignalRemoved, ResetAliases, FreeSlot, UnassignSlot,
         InitConnect, RefuseTicket, Defer, Allow, Refuse, Connect, Packet, AssignSlot, RefuseSlot,
         HandleConnectingClient, CountConnected, RunDrop, ScriptDrop, HandleConnectedClient, DropDead,
         DropNow, FindDead, FallSilent

\* Where the net thread goes from where it is.
LEMMA NetStep ==
    ASSUME TypeInv, RequestIdle, PendingDropping, [Next]_vars
    PROVE  \/ work'[Net] = work[Net]
           \/ /\ work[Net].at = "idle" /\ work'[Net].at \in {"drop", "signal", "peer"}
              /\ work'[Net].at # "drop" => Registered(work'[Net].client)
           \/ work'[Net] = Idle /\ work[Net].at # "erase"
           \/ EraseClient(Net) /\ work'[Net] = [at |-> "unassign", client |-> work[Net].client]
           \/ /\ work[Net].at \in Handshake \cup {"drop"} /\ work'[Net].client = work[Net].client
              /\ work'[Net].at \notin Reset
           \/ /\ work[Net].at \in {"signal", "aliases", "slot"}
              /\ work'[Net].at \in Reset \ {"unassign"} /\ work'[Net].client = work[Net].client
<1>0. Net \in Thread /\ ~MainBegins(Net)
  BY ClientAssumption DEF Thread, MainBegins
<1>1. ThreadStep(Net)
  BY <1>0, ThreadKinds
<1>2. ASSUME Begins(Net)
      PROVE  /\ work[Net].at = "idle" /\ work'[Net].at \in {"drop", "signal", "peer"}
             /\ work'[Net].at # "drop" => Registered(work'[Net].client)
  <2>1. PICK s \in {"drop", "signal", "peer"}, c \in Client :
            TurnsTo(Net, s, c) /\ work'[Net] = [at |-> s, client |-> c]
    BY <1>2 DEF Begins
  <2>2. work'[Net].at = s /\ work'[Net].client = c
    BY <2>1
  <2>3. work[Net].at = "idle" /\ (s # "drop" => Registered(c))
    BY <2>1 DEF TurnsTo
  <2> QED BY <2>2, <2>3
<1> QED BY <1>0, <1>1, <1>2 DEF ThreadStep, Goes, Ends, Handshake, Reset

LEMMA TurnedForGoodStep ==
    ASSUME TypeInv, RequestIdle, PendingDropping, AliveBegun, TurnedForGood, [Next]_vars
    PROVE  TurnedForGood'
<1> SUFFICES ASSUME NEW c \in Client, turned'[c] # {}
             PROVE  /\ Begun(c)' /\ ~Connecting(c)'
                    /\ ~Registered(c)' \/ (work'[Net].at \in Reset \ {"unassign"} /\ work'[Net].client = c)
  BY DEF TurnedForGood
<1>0. Net \in Thread
  BY DEF Thread
<1>1. Begun(c) => Begun(c)'
  BY RequestsStay DEF OnlyForward, Begun
<1>2. CASE turned[c] # {}
  <2>1. /\ Begun(c) /\ ~Connecting(c)
        /\ ~Registered(c) \/ (work[Net].at \in Reset \ {"unassign"} /\ work[Net].client = c)
    BY <1>2 DEF TurnedForGood
  <2>2. ~Registered(c) => ~Registered(c)'
    BY <2>1, NotRegisteredStays
  <2>3. CASE work'[Net] = work[Net]
    BY <1>1, <2>1, <2>2, <2>3 DEF Connecting
  <2>4. CASE /\ work[Net].at = "idle" /\ work'[Net].at \in {"drop", "signal", "peer"}
             /\ work'[Net].at # "drop" => Registered(work'[Net].client)
    <3>1. ~Registered(c)
      BY <2>1, <2>4 DEF Reset
    <3>2. work'[Net].at = "drop" \/ work'[Net].client # c
      BY <2>4, <3>1
    <3> QED BY <1>1, <2>1, <2>2, <3>1, <3>2 DEF Connecting, Handshake
  <2>5. CASE work'[Net] = Idle /\ work[Net].at # "erase"
    <3>1. ~Connecting(c)'
      BY <2>5 DEF Connecting, Handshake, Idle
    <3>2. ~Registered(c)
      <4>1. CASE work[Net].at \in {"aliases", "slot"}
        <5>1. ThreadStep(Net) /\ ~MainBegins(Net) /\ ~Begins(Net)
          BY <1>0, <4>1, ThreadKinds, ClientAssumption DEF MainBegins, Begins, TurnsTo
        <5> QED BY <2>5, <4>1, <5>1 DEF ThreadStep, Goes, Ends, Idle
      <4> QED BY <2>1, <2>5, <4>1 DEF Reset
    <3> QED BY <1>1, <2>1, <2>2, <3>1, <3>2
  <2>6. CASE EraseClient(Net) /\ work'[Net] = [at |-> "unassign", client |-> work[Net].client]
    <3>1. ~Connecting(c)'
      BY <2>6 DEF Connecting, Handshake
    <3>2. work[Net].client = c => ~Registered(c)'
      BY <2>6, ClientAssumption DEF EraseClient, Registered, TypeInv, TypeOK
    <3> QED BY <1>1, <2>1, <2>2, <3>1, <3>2
  <2>7. CASE /\ work[Net].at \in Handshake \cup {"drop"} /\ work'[Net].client = work[Net].client
             /\ work'[Net].at \notin Reset
    <3>1. ~Registered(c)
      BY <2>1, <2>7 DEF Handshake, Reset
    <3>2. ~Connecting(c)'
      <4>1. CASE work[Net].at = "drop"
        <5>1. ThreadStep(Net) /\ ~MainBegins(Net) /\ ~Begins(Net)
          BY <1>0, <4>1, ThreadKinds, ClientAssumption DEF MainBegins, Begins, TurnsTo
        <5>2. work'[Net] = work[Net] \/ work'[Net].at = "queue"
          BY <4>1, <5>1 DEF ThreadStep, Goes, Ends
        <5> QED BY <4>1, <5>2 DEF Connecting, Handshake
      <4>2. CASE work[Net].at \in Handshake
        BY <2>1, <2>7, <4>2 DEF Connecting
      <4> QED BY <2>7, <4>1, <4>2
    <3> QED BY <1>1, <2>1, <2>2, <3>1, <3>2
  <2>8. CASE /\ work[Net].at \in {"signal", "aliases", "slot"}
             /\ work'[Net].at \in Reset \ {"unassign"} /\ work'[Net].client = work[Net].client
    <3>1. ~Connecting(c)'
      BY <2>8 DEF Connecting, Handshake, Reset
    <3> QED BY <1>1, <2>1, <2>2, <2>8, <3>1
  <2> QED BY <2>3, <2>4, <2>5, <2>6, <2>7, <2>8, NetStep
<1>3. CASE turned[c] = {}
  <2>1. SignalRemoved(Net) /\ work[Net].client = c
    <3>1. \E t \in Thread : SignalRemoved(t)
      <4>1. turned' # turned
        BY <1>3
      <4> QED BY <4>1, HistoryKinds, DropAdds DEF CountConnected, HandleConnectedClient, removed
    <3>2. PICK t \in Thread : SignalRemoved(t)
      BY <3>1
    <3>3. work[t].client = c
      BY <1>3, <3>2, RemovalAdds
    <3>4. t = Net
      BY <1>3, <3>2 DEF SignalRemoved
    <3> QED BY <3>2, <3>3, <3>4
  <2>2. work'[Net] = [at |-> "aliases", client |-> c]
    BY <1>0, <2>1, RemovalAdds DEF TypeInv, TypeOK
  <2>3. Begun(c)
    BY <1>0, <2>1 DEF AliveBegun, Alive
  <2> QED BY <1>1, <2>2, <2>3 DEF Connecting, Handshake, Reset
<1> QED BY <1>2, <1>3

LEMMA OverStays ==
    ASSUME TypeInv, [Next]_vars, NEW c \in Client, phase[c] = "over"
    PROVE  phase'[c] = "over"
<1> USE DEF TypeInv, TypeOK
<1>1. CASE phase' = phase
  BY <1>1
<1>2. ASSUME NEW d \in Client,
             InitConnect(d) \/ MakeClient(d) \/ RefuseTicket(d) \/ Defer(d) \/ Allow(d) \/ Refuse(d)
      PROVE  phase'[c] = "over"
  BY <1>2 DEF InitConnect, MakeClient, RefuseTicket, Defer, Allow, Refuse
<1> QED
  BY <1>1, <1>2
     DEF Next, vars, RemoveClient, DropClient, QueueDrop, SignalRemoved, ResetAliases, FreeSlot,
         EraseClient, UnassignSlot, Connect, Packet, AssignSlot, RefuseSlot, HandleConnectingClient,
         CountConnected, RunDrop, ScriptDrop, HandleConnectedClient, DropDead, DropNow, FindDead,
         FallSilent

LEMMA ReasonsStep ==
    ASSUME TypeInv, RequestIdle, PendingDropping, HolderRemovesOwn, MainOnlyDrops, Reasons, [Next]_vars
    PROVE  Reasons'
<1> SUFFICES ASSUME NEW c \in Client, removals'[c] # 0
             PROVE  /\ c \in signalled' \cup dropping'
                    /\ \/ phase'[c] = "over" \/ c \in dropping'
                       \/ turned'[c] \cap {"new", "announced"} # {}
                    /\ \/ phase'[c] = "over" \/ c \in signalled'
                       \/ turned'[c] \cap {"dropping", "freed"} # {}
  BY DEF Reasons
<1>1. CASE removals[c] # 0
  BY <1>1, OverStays, OnlyMore DEF Reasons
<1>2. CASE removals[c] = 0
  <2>1. \/ \E t \in Thread : SignalRemoved(t) /\ work[t].client = c
        \/ MainDrop(c)
    <3>1. removals' # removals
      BY <1>2
    <3>2. \/ \E t \in Thread : SignalRemoved(t)
          \/ \E d \in Client : MainDrop(d)
      BY <3>1, HistoryKinds DEF CountConnected, HandleConnectedClient, removed
    <3>3. ASSUME NEW t \in Thread, SignalRemoved(t) PROVE work[t].client = c
      BY <1>2, <3>3, RemovalAdds
    <3>4. ASSUME NEW d \in Client, MainDrop(d) PROVE d = c
      BY <1>2, <3>4, DropAdds
    <3> QED BY <3>2, <3>3, <3>4
  <2>2. CASE MainDrop(c)
    BY <2>2, DropAdds
  <2>3. ASSUME NEW t \in Thread, SignalRemoved(t), work[t].client = c
        PROVE  /\ c \in signalled' \cup dropping'
               /\ \/ phase'[c] = "over" \/ c \in dropping'
                  \/ turned'[c] \cap {"new", "announced"} # {}
               /\ \/ phase'[c] = "over" \/ c \in signalled'
                  \/ turned'[c] \cap {"dropping", "freed"} # {}
    <3>1. c \in dropping \/ c \in signalled'
      BY <2>3, RemovalAdds
    <3>2. CASE t = Net
      <4>1. Stage(c) \in turned'[c]
        BY <2>3, <3>2 DEF SignalRemoved, TypeInv, TypeOK
      <4>2. c \in dropping => Stage(c) \in {"dropping", "freed"}
        BY DEF Stage
      <4>3. c \notin dropping => Stage(c) \in {"new", "announced"}
        BY DEF Stage, Freed, MainOnlyDrops
      <4> QED BY <3>1, <4>1, <4>2, <4>3, OnlyMore
    <3>3. CASE t \in Client
      <4>1. phase[c] = "over"
        BY <2>3, <3>3 DEF SignalRemoved, At, HolderRemovesOwn, Removal
      <4>2. phase'[c] = "over"
        BY <4>1, OverStays
      <4> QED BY <3>1, <4>2, OnlyMore
    <3>4. CASE t = Main
      BY <2>3, <3>4 DEF SignalRemoved, At, MainOnlyDrops, Reset
    <3> QED BY <3>2, <3>3, <3>4 DEF Thread
  <2> QED BY <2>1, <2>2, <2>3
<1> QED BY <1>1, <1>2

LEMMA DropsToComeStep ==
    ASSUME TypeInv, RequestIdle, PendingDropping, Marks, DropsToCome, [Next]_vars
    PROVE  DropsToCome'
<1>0. dropping \subseteq Client /\ announced \subseteq Client
  BY DEF TypeInv, TypeOK
<1>1. ASSUME NEW c \in Client, Pending(c) PROVE Pending(c)' \/ MainDrop(c)
  BY <1>1, PendingKept DEF DropClient
<1>2. ASSUME NEW c \in Client, MainDrop(c)
      PROVE  c \in signalled' /\ (c \in announced' => c \in withdrawn')
  BY <1>2, DropAdds DEF Marks
<1>3. ASSUME NEW c \in Client, c \in dropping' \ dropping
      PROVE  Pending(c)' \/ MainDrop(c)
  <2>1. CASE \E t \in Thread : DropClient(t)
    <3>1. PICK t \in Thread : DropClient(t)
      BY <2>1
    <3>2. c = work[t].client /\ work[t].at = "drop"
      BY <1>3, <3>1 DEF DropClient, At
    <3>3. dropQueue' = dropQueue /\ work' = [work EXCEPT ![t] = [at |-> "queue", client |-> c]]
      BY <3>1, <3>2 DEF DropClient, Become, queues
    <3>4. work'[t].at = "queue" /\ work'[t].client = c
      BY <3>3 DEF TypeInv, TypeOK
    <3> QED BY <3>4 DEF Pending
  <2>2. CASE \E d \in Client : MainDrop(d)
    BY <1>3, <2>2, DropAdds
  <2>3. \/ dropping' = dropping \/ \E t \in Thread : DropClient(t)
        \/ \E d \in Client : MainDrop(d)
    BY Kinds DEF Quietly, QueueDrop, SignalRemoved, ResetAliases, FreeSlot, EraseClient, UnassignSlot,
                 AssignSlot, Numbers, HandleConnectingClient, CountConnected, HandleConnectedClient
  <2> QED BY <1>3, <2>1, <2>2, <2>3
<1>4. \A c \in dropping' : Pending(c)' \/ c \in signalled'
  <2> SUFFICES ASSUME NEW c \in Client, c \in dropping' PROVE Pending(c)' \/ c \in signalled'
    BY TypeStep DEF TypeInv, TypeOK
  <2> QED BY <1>1, <1>2, <1>3, OnlyMore DEF DropsToCome
<1>5. ASSUME NEW c \in Client, c \in withdrawn, c \in dropping PROVE c \in withdrawn'
  <2>1. ASSUME NEW d \in Client, MainDrop(d) PROVE c \in withdrawn'
    BY <1>5, <2>1, DropAdds
  <2>2. ASSUME NEW d \in Client, HandleConnectedClient(d) PROVE c \in withdrawn'
    BY <1>5, <2>2 DEF HandleConnectedClient
  <2> QED BY <1>5, <2>1, <2>2, HistoryKinds DEF SignalRemoved, CountConnected, listeners
<1>6. ASSUME NEW c \in Client, c \in announced' \ announced PROVE c \notin dropping'
  <2>1. ASSUME NEW d \in Client, HandleConnectedClient(d) PROVE c \notin dropping'
    BY <1>6, <2>1 DEF HandleConnectedClient
  <2>2. \A d \in Client : ~MainDrop(d)
    BY <1>6, DropAdds
  <2> QED BY <1>6, <2>1, <2>2, HistoryKinds DEF SignalRemoved, CountConnected
<1>7. \A c \in dropping' \cap announced' : Pending(c)' \/ c \in withdrawn'
  <2> SUFFICES ASSUME NEW c \in Client, c \in dropping', c \in announced'
               PROVE  Pending(c)' \/ c \in withdrawn'
    BY TypeStep DEF TypeInv, TypeOK
  <2>1. c \in announced
    BY <1>6
  <2>2. CASE c \in dropping
    <3>1. Pending(c) \/ c \in withdrawn
      BY <2>1, <2>2 DEF DropsToCome
    <3> QED BY <1>1, <1>2, <1>5, <2>2, <3>1
  <2>3. CASE c \notin dropping
    BY <1>2, <1>3, <2>3
  <2> QED BY <2>2, <2>3
<1> QED BY <1>4, <1>7 DEF DropsToCome

History ==
    /\ Control /\ AliveBegun /\ RequestIdle /\ PendingDropping /\ MainOnlyDrops /\ RemovedApart
    /\ Marks /\ JoinsOnce /\ TurnedForGood /\ Reasons /\ DropsToCome

LEMMA HistoryInit == Init => History
<1> SUFFICES ASSUME Init PROVE History
  OBVIOUS
<1>1. \A t \in Thread : work[t].at = "idle" /\ work[t].client = None
  BY DEF Init, Idle
<1>2. \A c \in Client : ~Alive(c)
  BY <1>1, ClientAssumption DEF Init, Alive, Registered
<1>3. Main \in Thread /\ Net \in Thread /\ Client \subseteq Thread
  BY DEF Thread
<1>4. Control
  BY <1>1, <1>3
     DEF Init, Control, EntriesMatch, HolderRemovesOwn, LetIn, RemovalCounted, NumberedHasSlot,
         HasConnected, Removal, Reset, Handshake
<1>5. RequestIdle /\ PendingDropping
  BY <1>1, <1>3 DEF Init, RequestIdle, PendingDropping, Pending
<1>6. MainOnlyDrops /\ RemovedApart /\ Marks
  BY <1>1, <1>3 DEF Init, MainOnlyDrops, RemovedApart, Marks, Reset
<1>7. JoinsOnce /\ TurnedForGood /\ Reasons /\ DropsToCome
  BY <1>1, <1>3 DEF Init, JoinsOnce, TurnedForGood, Reasons, DropsToCome
<1> QED BY <1>2, <1>4, <1>5, <1>6, <1>7 DEF History, AliveBegun

LEMMA HistoryStep == TypeInv /\ History /\ [Next]_vars => History'
<1> SUFFICES ASSUME TypeInv, History, [Next]_vars PROVE History'
  OBVIOUS
<1> USE DEF History
<1>1. Control' /\ AliveBegun'
  BY ControlStep, AliveBegunStep
<1>2. RequestIdle' /\ PendingDropping'
  BY RequestIdleStep, PendingDroppingStep
<1>3. MainOnlyDrops' /\ RemovedApart'
  BY MainOnlyDropsStep, RemovedApartStep DEF Control
<1>4. Marks' /\ JoinsOnce' /\ TurnedForGood'
  BY MarksStep, JoinsOnceStep, TurnedForGoodStep
<1>5. Reasons' /\ DropsToCome'
  BY ReasonsStep, DropsToComeStep DEF Control
<1> QED BY <1>1, <1>2, <1>3, <1>4, <1>5

-----------------------------------------------------------------------------
(* Keeps: who has a slot, and who is found by its guid *)

\* The thread has freed the slot of the client, but not taken it from it.
FreedBy(t, c) == work[t].at \in {"erase", "unassign"} /\ work[t].client = c

\* While the net thread removes a client it gives no slot to another one.
NetFrees == \A c \in Client : FreedBy(Net, c) /\ slot[c] # NoSlot => bySlot[slot[c]] = None

MainFrees == \A c \in Client :
    FreedBy(Main, c) /\ slot[c] # NoSlot /\ work[Net].at \in {"aliases", "slot"} /\ work[Net].client = c
        => bySlot[slot[c]] = None

KeepsSlot == \A c \in Client :
    slot[c] # NoSlot /\ Alive(c) /\ ~FreedBy(Net, c) /\ ~FreedBy(Main, c) => bySlot[slot[c]] = c

KeepsEntry ==
    \A c \in Client : (HasConnected(c) \/ Connecting(c)) /\ removals[c] = 0 => Registered(c)

Keeps ==
    /\ NetFrees
    /\ SlotsUndisturbed => MainFrees /\ KeepsSlot
    /\ Distinct => KeepsEntry

LEMMA SlotKinds ==
    ASSUME TypeInv, RequestIdle, PendingDropping, [Next]_vars
    PROVE  \/ UNCHANGED <<slot, bySlot>>
           \/ \E t \in Thread : FreeSlot(t) \/ UnassignSlot(t)
           \/ AssignSlot
  BY Kinds DEF Quietly, rest, DropClient, QueueDrop, SignalRemoved, ResetAliases, EraseClient, Numbers,
               HandleConnectingClient, CountConnected, MainDrop, HandleConnectedClient, maps, numbers

LEMMA FreedKinds ==
    ASSUME TypeInv, RequestIdle, PendingDropping, [Next]_vars, NEW u \in Thread, NEW c \in Client
    PROVE  /\ FreedBy(u, c)' => FreedBy(u, c) \/ (FreeSlot(u) /\ work[u].client = c)
           /\ FreedBy(u, c) => FreedBy(u, c)' \/ (UnassignSlot(u) /\ work[u].client = c)
<1>1. ThreadStep(u)
  BY ThreadKinds
<1>2. Begins(u) => ~FreedBy(u, c) /\ ~FreedBy(u, c)'
  BY DEF Begins, TurnsTo, FreedBy
<1>3. MainBegins(u) => ~FreedBy(u, c) /\ ~FreedBy(u, c)'
  BY DEF MainBegins, FreedBy
<1> QED BY <1>1, <1>2, <1>3 DEF ThreadStep, FreedBy, Goes, Ends, Idle

LEMMA FreeSlotDoes ==
    ASSUME TypeInv, NEW t \in Thread, FreeSlot(t)
    PROVE  /\ work[t].client \in Client /\ work[t].at = "slot" /\ slot' = slot /\ UNCHANGED turned
           /\ slot[work[t].client] # NoSlot =>
                  bySlot' = [bySlot EXCEPT ![slot[work[t].client]] = None]
           /\ slot[work[t].client] = NoSlot => bySlot' = bySlot
           /\ \A s \in Slot : bySlot'[s] = bySlot[s] \/ bySlot'[s] = None
           /\ work' = [work EXCEPT ![t] = [at |-> "erase", client |-> work[t].client]]
<1>1. NoSlot \notin Slot
  BY NumberAssumption DEF NoSlot
<1> QED BY <1>1 DEF FreeSlot, At, Become, TypeInv, TypeOK, WorkMatch, numbers, removed

LEMMA UnassignDoes ==
    ASSUME TypeInv, NEW t \in Thread, UnassignSlot(t)
    PROVE  /\ work[t].client \in Client /\ work[t].at = "unassign" /\ bySlot' = bySlot /\ UNCHANGED turned
           /\ slot' = [slot EXCEPT ![work[t].client] = NoSlot]
           /\ work' = [work EXCEPT ![t] = Idle]
  BY DEF UnassignSlot, At, TypeInv, TypeOK, WorkMatch, maps, removed

LEMMA AssignDoes ==
    ASSUME TypeInv, AssignSlot
    PROVE  /\ work[Net].client \in Client /\ work[Net].at = "peer" /\ UNCHANGED turned
           /\ work' = [work EXCEPT ![Net] = [at |-> "assigned", client |-> work[Net].client]]
           /\ \/ UNCHANGED <<slot, bySlot>>
              \/ slot[work[Net].client] = NoSlot /\ \E s \in FreeSlots :
                    /\ slot' = [slot EXCEPT ![work[Net].client] = s]
                    /\ bySlot' = [bySlot EXCEPT ![s] = work[Net].client]
<1>1. Net \in Thread
  BY DEF Thread
<1> QED BY <1>1 DEF AssignSlot, At, Become, TypeInv, WorkMatch, removed

LEMMA NetFreesStep ==
    ASSUME TypeInv, RequestIdle, PendingDropping, NetFrees, [Next]_vars
    PROVE  NetFrees'
<1> SUFFICES ASSUME NEW c \in Client, FreedBy(Net, c)', slot'[c] # NoSlot
             PROVE  bySlot'[slot'[c]] = None
  BY DEF NetFrees
<1>0. Net \in Thread /\ slot[c] \in Slot \cup {NoSlot}
  BY DEF Thread, TypeInv, TypeOK
<1>1. CASE FreedBy(Net, c)
  <2>1. CASE UNCHANGED <<slot, bySlot>>
    BY <1>1, <2>1 DEF NetFrees
  <2>2. ASSUME NEW t \in Thread, FreeSlot(t) PROVE bySlot'[slot'[c]] = None
    BY <1>0, <1>1, <2>2, FreeSlotDoes DEF NetFrees
  <2>3. ASSUME NEW t \in Thread, UnassignSlot(t) PROVE bySlot'[slot'[c]] = None
    <3>1. slot'[c] = slot[c] /\ bySlot' = bySlot
      BY <2>3, UnassignDoes DEF TypeInv, TypeOK
    <3> QED BY <1>1, <3>1 DEF NetFrees
  <2>4. ~AssignSlot
    BY <1>1 DEF FreedBy, AssignSlot, At
  <2> QED BY <2>1, <2>2, <2>3, <2>4, SlotKinds
<1>2. CASE FreeSlot(Net) /\ work[Net].client = c
  BY <1>0, <1>2, FreeSlotDoes DEF TypeInv, TypeOK
<1> QED BY <1>0, <1>1, <1>2, FreedKinds

LEMMA MainFreesStep ==
    ASSUME TypeInv, RequestIdle, PendingDropping, MainFrees, SlotsUndisturbed', [Next]_vars
    PROVE  MainFrees'
<1> SUFFICES ASSUME NEW c \in Client, FreedBy(Main, c)', slot'[c] # NoSlot,
                    work'[Net].at \in {"aliases", "slot"}, work'[Net].client = c
             PROVE  bySlot'[slot'[c]] = None
  BY DEF MainFrees
<1>0. /\ Net \in Thread /\ Main \in Thread /\ Net # Main /\ slot[c] \in Slot \cup {NoSlot}
  BY ClientAssumption DEF Thread, TypeInv, TypeOK
<1>1. CASE FreeSlot(Main) /\ work[Main].client = c
  BY <1>0, <1>1, FreeSlotDoes DEF TypeInv, TypeOK
<1>2. CASE FreedBy(Main, c)
  <2>1. work[Net].at \in {"aliases", "slot"} /\ work[Net].client = c
    <3>1. ThreadStep(Net) /\ ~MainBegins(Net)
      BY <1>0, ThreadKinds DEF MainBegins
    <3>2. ~Begins(Net)
      <4>1. Begins(Net) => work'[Net].at \in {"drop", "signal", "peer"}
        BY DEF Begins
      <4> QED BY <4>1
    <3>3. ~(SignalRemoved(Net) /\ Goes(Net, "signal", "aliases"))
      <4>1. SUFFICES ASSUME SignalRemoved(Net), work[Net].client = c PROVE FALSE
        BY DEF Goes
      <4>2. Stage(c) = "freed"
        BY <1>2 DEF Stage, Freed, FreedBy
      <4>3. "freed" \in turned'[c]
        BY <4>1, <4>2 DEF SignalRemoved, TypeInv, TypeOK
      <4> QED BY <4>3 DEF SlotsUndisturbed
    <3> QED BY <3>1, <3>2, <3>3 DEF ThreadStep, Goes, Ends, Idle
  <2>2. CASE UNCHANGED <<slot, bySlot>>
    BY <1>2, <2>1, <2>2 DEF MainFrees
  <2>3. ASSUME NEW t \in Thread, FreeSlot(t) PROVE bySlot'[slot'[c]] = None
    BY <1>0, <1>2, <2>1, <2>3, FreeSlotDoes DEF MainFrees
  <2>4. ASSUME NEW t \in Thread, UnassignSlot(t) PROVE bySlot'[slot'[c]] = None
    <3>1. slot'[c] = slot[c] /\ bySlot' = bySlot
      BY <2>4, UnassignDoes DEF TypeInv, TypeOK
    <3> QED BY <1>2, <2>1, <3>1 DEF MainFrees
  <2>5. ~AssignSlot
    BY <2>1 DEF AssignSlot, At
  <2> QED BY <2>2, <2>3, <2>4, <2>5, SlotKinds
<1> QED BY <1>0, <1>1, <1>2, FreedKinds

\* The slot a removal frees is not another client's.
LEMMA FreesOwn ==
    ASSUME TypeInv, LetIn, HolderRemovesOwn, NetFrees, MainFrees, KeepsSlot,
           NEW t \in Thread, FreeSlot(t), NEW d \in Client, d # work[t].client, slot[d] \in Slot,
           bySlot[slot[d]] = d
    PROVE  bySlot'[slot[d]] = d
<1> DEFINE c == work[t].client
<1>0. /\ Net # Main /\ c \in Client /\ None \notin Client /\ work[t].at = "slot" /\ Alive(c)
  BY ClientAssumption, FreeSlotDoes DEF Alive
<1>1. CASE slot[c] = NoSlot
  BY <1>1, FreeSlotDoes
<1>2. CASE slot[c] # NoSlot
  <2>1. t \in {Net, Main}
    BY <1>0, <1>2 DEF Thread, HolderRemovesOwn, LetIn, Removal
  <2>2. bySlot[slot[c]] = c \/ bySlot[slot[c]] = None
    <3>1. CASE FreedBy(Net, c)
      BY <1>0, <1>2, <3>1 DEF NetFrees
    <3>2. CASE FreedBy(Main, c)
      <4>1. t = Net
        BY <1>0, <2>1, <3>2 DEF FreedBy
      <4> QED BY <1>0, <1>2, <3>2, <4>1 DEF MainFrees
    <3>3. CASE ~FreedBy(Net, c) /\ ~FreedBy(Main, c)
      BY <1>0, <1>2, <3>3 DEF KeepsSlot
    <3> QED BY <3>1, <3>2, <3>3
  <2>3. slot[d] # slot[c]
    BY <1>0, <2>2
  <2> QED BY <1>2, <2>3, FreeSlotDoes DEF TypeInv, TypeOK
<1> QED BY <1>1, <1>2

LEMMA KeepsSlotStep ==
    ASSUME TypeInv, History, NetFrees, MainFrees, KeepsSlot, [Next]_vars
    PROVE  KeepsSlot'
<1> SUFFICES ASSUME NEW d \in Client, slot'[d] # NoSlot, Alive(d)', ~FreedBy(Net, d)', ~FreedBy(Main, d)'
             PROVE  bySlot'[slot'[d]] = d
  BY DEF KeepsSlot
<1>0. /\ Net \in Thread /\ Main \in Thread /\ Net # Main /\ None \notin Client
      /\ slot[d] \in Slot \cup {NoSlot} /\ Control /\ RequestIdle /\ PendingDropping
  BY ClientAssumption DEF Thread, TypeInv, TypeOK, History
<1>1. ASSUME slot'[d] = slot[d] PROVE Alive(d) /\ ~FreedBy(Net, d) /\ ~FreedBy(Main, d)
  <2>1. Alive(d)
    <3>1. Begun(d)
      BY <1>0, <1>1 DEF Control, LetIn, Begun
    <3>2. CASE UNCHANGED vars
      BY <3>2 DEF vars, maps, queues, Alive, Registered
    <3> QED BY <1>0, <3>1, <3>2, GoneStaysGone
  <2>2. ASSUME NEW u \in {Net, Main}, FreedBy(u, d) PROVE FALSE
    <3>1. UnassignSlot(u) /\ work[u].client = d
      BY <1>0, <2>2, FreedKinds
    <3>2. slot'[d] = NoSlot
      BY <1>0, <3>1, UnassignDoes DEF TypeInv, TypeOK
    <3> QED BY <3>2
  <2> QED BY <2>1, <2>2
<1>2. slot'[d] = slot[d] => bySlot[slot[d]] = d /\ slot[d] \in Slot
  BY <1>0, <1>1 DEF KeepsSlot
<1>3. CASE UNCHANGED <<slot, bySlot>>
  BY <1>2, <1>3
<1>4. ASSUME NEW t \in Thread, FreeSlot(t) PROVE bySlot'[slot'[d]] = d
  <2>1. slot' = slot /\ work[t].client \in Client
    BY <1>4, FreeSlotDoes
  <2>2. CASE d = work[t].client
    <3>1. FreedBy(t, d)'
      BY <1>4, <2>2, FreeSlotDoes DEF FreedBy, TypeInv, TypeOK
    <3>2. t \in Client
      BY <3>1 DEF Thread
    <3>3. FALSE
      BY <1>0, <1>4, <2>1, <2>2, <3>2 DEF FreeSlot, At, Control, HolderRemovesOwn, LetIn, Removal
    <3> QED BY <3>3
  <2>3. CASE d # work[t].client
    BY <1>0, <1>2, <1>4, <2>1, <2>3, FreesOwn DEF Control
  <2> QED BY <2>2, <2>3
<1>5. ASSUME NEW t \in Thread, UnassignSlot(t) PROVE bySlot'[slot'[d]] = d
  <2>1. slot'[d] = slot[d] /\ bySlot' = bySlot
    BY <1>5, UnassignDoes DEF TypeInv, TypeOK
  <2> QED BY <1>2, <2>1
<1>6. ASSUME AssignSlot PROVE bySlot'[slot'[d]] = d
  <2> DEFINE c == work[Net].client
  <2>1. ASSUME NEW s \in FreeSlots, slot' = [slot EXCEPT ![c] = s], bySlot' = [bySlot EXCEPT ![s] = c]
        PROVE  bySlot'[slot'[d]] = d
    <3>1. s \in Slot /\ Lock(bySlot[s]) = None
      BY DEF FreeSlots
    <3>2. c \in Client
      BY <1>6, AssignDoes
    <3>3. CASE d = c
      BY <2>1, <3>1, <3>2, <3>3 DEF TypeInv, TypeOK
    <3>4. CASE d # c
      <4>1. slot'[d] = slot[d]
        BY <2>1, <3>4 DEF TypeInv, TypeOK
      <4>2. bySlot[slot[d]] = d /\ slot[d] \in Slot /\ Alive(d)
        BY <1>1, <1>2, <4>1
      <4>3. slot[d] # s
        BY <1>0, <3>1, <4>2 DEF Lock
      <4> QED BY <2>1, <3>1, <4>1, <4>2, <4>3 DEF TypeInv, TypeOK
    <3> QED BY <3>3, <3>4
  <2> QED BY <1>3, <1>6, <2>1, AssignDoes
<1> QED BY <1>0, <1>3, <1>4, <1>5, <1>6, SlotKinds

LEMMA RegisteredLost ==
    ASSUME TypeInv, [Next]_vars, NEW c \in Client, Registered(c), ~Registered(c)'
    PROVE  \E t \in Thread : EraseClient(t) /\ guid[work[t].client] = guid[c]
<1> USE DEF TypeInv, TypeOK, Registered, maps
<1>1. CASE UNCHANGED <<guid, byGuid>>
  BY <1>1
<1>2. ASSUME NEW d \in Client, MakeClient(d) PROVE FALSE
  BY <1>2, ClientAssumption DEF MakeClient
<1>3. ASSUME NEW t \in Thread, EraseClient(t) PROVE guid[work[t].client] = guid[c]
  BY <1>3 DEF EraseClient
<1>4. CASE UNCHANGED vars
  BY <1>1, <1>4 DEF vars
<1> QED
  BY <1>1, <1>2, <1>3, <1>4
     DEF Next, RemoveClient, DropClient, QueueDrop, SignalRemoved, ResetAliases, FreeSlot, UnassignSlot,
         InitConnect, RefuseTicket, Defer, Allow, Refuse, Connect, Packet, AssignSlot, RefuseSlot,
         HandleConnectingClient, CountConnected, RunDrop, ScriptDrop, HandleConnectedClient, DropDead,
         DropNow, FindDead, FallSilent

\* A client that no removal has reached stays in m_clients.
LEMMA RegisteredStays ==
    ASSUME TypeInv, Control, AliveBegun, Distinct, [Next]_vars,
           NEW c \in Client, Registered(c), removals[c] = 0
    PROVE  Registered(c)'
<1> SUFFICES ASSUME ~Registered(c)' PROVE FALSE
  OBVIOUS
<1>1. PICK t \in Thread : EraseClient(t) /\ guid[work[t].client] = guid[c]
  BY RegisteredLost
<1> DEFINE d == work[t].client
<1>2. d \in Client /\ work[t].at = "erase"
  BY <1>1 DEF EraseClient, At, TypeInv, WorkMatch
<1>3. Alive(d) /\ Alive(c)
  BY <1>2 DEF Alive
<1>4. phase[c] # "none" /\ phase[d] # "none"
  BY <1>2, <1>3 DEF AliveBegun, Begun
<1>5. c = d
  BY <1>1, <1>2, <1>4 DEF Distinct
<1> QED BY <1>2, <1>5 DEF Control, RemovalCounted, Reset

\* Who gets a net id was connecting.
LEMMA IdsForConnecting ==
    ASSUME TypeInv, RequestIdle, PendingDropping, [Next]_vars, NEW c \in Client,
           HasConnected(c)', ~HasConnected(c)
    PROVE  Numbers /\ work[Net].client = c
<1>1. netId' # netId
  BY DEF HasConnected
<1>2. Numbers
  BY <1>1, Kinds DEF Quietly, rest, DropClient, QueueDrop, SignalRemoved, ResetAliases, FreeSlot,
               EraseClient, UnassignSlot, AssignSlot, CountConnected, MainDrop, HandleConnectedClient,
               numbers
<1>3. \E n : netId' = [netId EXCEPT ![work[Net].client] = n]
  BY <1>2, NumbersWhom
<1> QED BY <1>2, <1>3 DEF HasConnected, TypeInv, TypeOK

LEMMA KeepsEntryStep ==
    ASSUME TypeInv, History, Distinct, KeepsEntry, [Next]_vars
    PROVE  KeepsEntry'
<1> SUFFICES ASSUME NEW c \in Client, HasConnected(c)' \/ Connecting(c)', removals'[c] = 0
             PROVE  Registered(c)'
  BY DEF KeepsEntry
<1>0. /\ Net \in Thread /\ Control /\ AliveBegun /\ RequestIdle /\ PendingDropping
      /\ ~MainBegins(Net)
  BY ClientAssumption DEF Thread, History, MainBegins
<1>1. removals[c] = 0
  BY <1>0, OnlyMore
<1>2. Registered(c)
  <2>1. CASE HasConnected(c) \/ Connecting(c)
    BY <1>1, <2>1 DEF KeepsEntry
  <2>2. CASE ~HasConnected(c) /\ ~Connecting(c)
    <3>1. ~HasConnected(c)'
      BY <1>0, <2>2, IdsForConnecting DEF Numbers, HandleConnectingClient, At, Connecting, Handshake
    <3>2. Connecting(c)'
      BY <3>1
    <3>3. work'[Net].at \in Handshake /\ work'[Net].client = c
      BY <3>2 DEF Connecting
    <3>4. Begins(Net)
      <4>1. ThreadStep(Net)
        BY <1>0, ThreadKinds
      <4> QED BY <1>0, <2>2, <3>3, <4>1 DEF ThreadStep, Connecting, Goes, Ends, Idle, Handshake
    <3>5. PICK s \in {"drop", "signal", "peer"}, d \in Client :
              TurnsTo(Net, s, d) /\ work'[Net] = [at |-> s, client |-> d]
      BY <3>4 DEF Begins
    <3>6. s = "peer" /\ d = c
      BY <3>3, <3>5 DEF Handshake
    <3> QED BY <3>5, <3>6 DEF TurnsTo
  <2> QED BY <2>1, <2>2
<1> QED BY <1>0, <1>1, <1>2, RegisteredStays

LEMMA KeepsStep == TypeInv /\ History /\ Keeps /\ [Next]_vars => Keeps'
<1> SUFFICES ASSUME TypeInv, History, Keeps, [Next]_vars PROVE Keeps'
  OBVIOUS
<1>1. RequestIdle /\ PendingDropping
  BY DEF History
<1>2. SlotsUndisturbed' => SlotsUndisturbed
  BY <1>1, OnlyMore DEF SlotsUndisturbed
<1>3. Distinct' => Distinct
  BY DistinctBefore
<1>4. NetFrees'
  BY <1>1, NetFreesStep DEF Keeps
<1>5. SlotsUndisturbed' => MainFrees' /\ KeepsSlot'
  BY <1>1, <1>2, MainFreesStep, KeepsSlotStep DEF Keeps
<1>6. Distinct' => KeepsEntry'
  BY <1>3, KeepsEntryStep DEF Keeps
<1> QED BY <1>4, <1>5, <1>6 DEF Keeps

LEMMA KeepsInit == Init => Keeps
  BY ClientAssumption
     DEF Init, Keeps, NetFrees, MainFrees, KeepsSlot, KeepsEntry, FreedBy, Connecting, HasConnected, Idle,
         Handshake, Thread

Kept == TypeInv /\ History /\ Keeps

LEMMA AlwaysKept == Spec => []Kept
<1>1. Init => Kept
  BY TypeInit, HistoryInit, KeepsInit DEF Kept
<1>2. Kept /\ [Next]_vars => Kept'
  BY TypeStep, HistoryStep, KeepsStep DEF Kept
<1> QED BY <1>1, <1>2, PTL DEF Spec

\* A connected client that no removal has reached is in m_clients and has its slot to
\* itself, whatever the other threads do meanwhile, as long as no `connect` packet has
\* a client removed between two steps of its removal on the main thread.
THEOREM SlotsAreKept == Spec => []ConnectedHasSlot
<1>1. Kept => ConnectedHasSlot
  <2> SUFFICES ASSUME Kept, Distinct, SlotsUndisturbed, NEW c \in Client, HasConnected(c), removals[c] = 0
               PROVE  Registered(c) /\ slot[c] \in Slot /\ bySlot[slot[c]] = c
    BY DEF ConnectedHasSlot
  <2>1. Registered(c) /\ slot[c] # NoSlot /\ slot[c] \in Slot
    BY DEF Kept, History, Keeps, KeepsEntry, Control, NumberedHasSlot, TypeInv, TypeOK
  <2>2. ~FreedBy(Net, c) /\ ~FreedBy(Main, c)
    BY DEF Kept, History, Control, RemovalCounted, Reset, FreedBy, Thread
  <2> QED BY <2>1, <2>2 DEF Kept, Keeps, KeepsSlot, Alive
<1> QED BY <1>1, AlwaysKept, PTL

-----------------------------------------------------------------------------
(* Found: who has a net id is found by it.  Ids come round: the entry of an id that is
   free leads to nobody, and the removal of who had it before has passed its entry. *)

AtAliases(c) == \E t \in Thread : work[t].at = "aliases" /\ work[t].client = c

\* No removal of the client has come to its entries.
Untouched(c) == removals[c] = 0 \/ (removals[c] = 1 /\ AtAliases(c))

Found == \A c \in Client :
    HasConnected(c) /\ Untouched(c) /\ IdUndisturbed(c) => byNetId[netId[c]] = c

LEMMA IdUndisturbedBefore ==
    ASSUME Kept, [Next]_vars, NEW c \in Client, HasConnected(c), IdUndisturbed(c)'
    PROVE  IdUndisturbed(c)
<1> SUFFICES ASSUME NEW d \in Client, d # c, netId[d] = netId[c] PROVE removals[d] <= 1
  BY DEF IdUndisturbed
<1>0. TypeInv /\ RequestIdle /\ PendingDropping
  BY DEF Kept, History
<1>1. netId'[d] = netId'[c]
  BY <1>0, IdStays DEF HasConnected
<1>2. removals'[d] <= 1
  BY <1>1 DEF IdUndisturbed
<1> QED BY <1>0, <1>2, OnlyMore

\* Two clients that have the same id and that no removal has gone past are the same.
LEMMA FoundApart ==
    ASSUME Kept, Found, NEW c \in Client, NEW d \in Client, HasConnected(c), netId[d] = netId[c],
           Untouched(c), Untouched(d), IdUndisturbed(c)
    PROVE  c = d
<1> SUFFICES ASSUME c # d PROVE FALSE
  OBVIOUS
<1>0. removals[c] \in Nat /\ removals[d] \in Nat
  BY DEF Kept, TypeInv, TypeOK
<1>1. removals[c] <= 1
  BY <1>0 DEF Untouched
<1>2. IdUndisturbed(d)
  BY <1>1 DEF IdUndisturbed
<1> QED BY <1>2 DEF Found, HasConnected

\* A removal that comes to its entries has just begun.
LEMMA UntouchedBefore ==
    ASSUME Kept, [Next]_vars, NEW c \in Client, Untouched(c)'
    PROVE  Untouched(c)
<1>0. TypeInv /\ RequestIdle /\ PendingDropping
  BY DEF Kept, History
<1>1. removals[c] \in Nat /\ removals'[c] \in Nat /\ removals'[c] >= removals[c]
  BY <1>0, OnlyMore
<1>2. CASE removals'[c] = 0
  BY <1>1, <1>2 DEF Untouched
<1>3. CASE removals'[c] # 0
  <2>1. PICK t \in Thread : work'[t].at = "aliases" /\ work'[t].client = c
    BY <1>3 DEF Untouched, AtAliases
  <2>2. removals'[c] = 1
    BY <1>3 DEF Untouched
  <2>3. CASE work'[t] = work[t]
    BY <1>1, <2>1, <2>2, <2>3 DEF Untouched, AtAliases
  <2>4. CASE SignalRemoved(t) /\ Goes(t, "signal", "aliases")
    <3>1. removals'[c] = removals[c] + 1
      BY <1>0, <2>1, <2>4, RemovalAdds DEF Goes
    <3> QED BY <1>1, <2>2, <3>1 DEF Untouched
  <2>5. CASE MainBegins(t)
    <3>1. MainDrop(c)
      BY <2>1, <2>5 DEF MainBegins
    <3>2. removals'[c] = removals[c] + 1
      BY <1>0, <3>1, DropAdds
    <3> QED BY <1>1, <2>2, <3>2 DEF Untouched
  <2>6. ~Begins(t)
    <3>1. Begins(t) => work'[t].at \in {"drop", "signal", "peer"}
      BY DEF Begins
    <3> QED BY <2>1, <3>1
  <2>7. /\ ~Goes(t, "assigned", "signal") /\ ~Goes(t, "peer", "assigned")
        /\ ~Goes(t, "assigned", "numbered") /\ ~Goes(t, "drop", "queue")
        /\ ~Goes(t, "aliases", "slot") /\ ~Goes(t, "slot", "erase") /\ ~Goes(t, "erase", "unassign")
        /\ ~Ends(t, "assigned") /\ ~Ends(t, "numbered") /\ ~Ends(t, "queue") /\ ~Ends(t, "unassign")
    BY <2>1 DEF Goes, Ends, Idle
  <2>8. ThreadStep(t)
    BY <1>0, ThreadKinds
  <2> QED BY <2>3, <2>4, <2>5, <2>6, <2>7, <2>8 DEF ThreadStep
<1> QED BY <1>2, <1>3

LEMMA FoundStep ==
    ASSUME Kept, Distinct, Found, [Next]_vars
    PROVE  Found'
<1> SUFFICES ASSUME NEW c \in Client, HasConnected(c)', Untouched(c)', IdUndisturbed(c)'
             PROVE  byNetId'[netId'[c]] = c
  BY DEF Found
<1>0. /\ TypeInv /\ RequestIdle /\ PendingDropping /\ None \notin Client
      /\ RemovalCounted /\ RemovedApart /\ KeepsEntry
  BY ClientAssumption DEF Kept, History, Control, Keeps
<1>1. Untouched(c)
  BY UntouchedBefore
<1>2. HasConnected(c) => /\ IdUndisturbed(c) /\ byNetId[netId[c]] = c
                         /\ netId'[c] = netId[c] /\ netId[c] \in NetId
  <2> SUFFICES ASSUME HasConnected(c)
               PROVE  /\ IdUndisturbed(c) /\ byNetId[netId[c]] = c
                      /\ netId'[c] = netId[c] /\ netId[c] \in NetId
    OBVIOUS
  <2>1. IdUndisturbed(c)
    BY IdUndisturbedBefore
  <2>2. byNetId[netId[c]] = c
    BY <1>1, <2>1 DEF Found
  <2>3. netId[c] \in NetId
    BY <1>0, NumberAssumption DEF HasConnected, NetId, TypeInv, TypeOK
  <2> QED BY <1>0, <2>1, <2>2, <2>3, IdStays
<1>3. CASE byNetId' = byNetId /\ ~Numbers
  <2>1. HasConnected(c)
    BY <1>0, <1>3, IdsForConnecting
  <2> QED BY <1>2, <1>3, <2>1
<1>4. CASE Numbers
  <2> DEFINE d == work[Net].client
  <2>1. PICK n \in NetId : IsNext(n) /\ netId' = [netId EXCEPT ![d] = n] /\ byNetId' = [byNetId EXCEPT ![n] = d]
    BY <1>0, <1>4, NumbersWhom
  <2>2. d \in Client
    BY <1>0, <1>4 DEF Numbers, HandleConnectingClient, At, TypeInv, WorkMatch, Thread
  <2>3. CASE c = d
    BY <1>0, <2>1, <2>2, <2>3 DEF TypeInv, TypeOK
  <2>4. CASE c # d
    <3>1. HasConnected(c)
      BY <1>0, <2>4, IdsForConnecting
    <3>2. Alive(c)
      BY <1>0, <1>1, <3>1 DEF Untouched, AtAliases, KeepsEntry, Alive
    <3>3. Lock(byNetId[n]) = None
      BY <2>1 DEF IsNext, FreeIds
    <3>4. n # netId[c]
      BY <1>0, <1>2, <3>1, <3>2, <3>3 DEF Lock
    <3> QED BY <1>0, <1>2, <2>1, <3>1, <3>4 DEF TypeInv, TypeOK
  <2> QED BY <2>3, <2>4
<1>5. ASSUME NEW t \in Thread, ResetAliases(t) PROVE byNetId'[netId'[c]] = c
  <2> DEFINE d == work[t].client
  <2>1. /\ d \in Client /\ work[t].at = "aliases" /\ netId' = netId /\ removals' = removals
        /\ byNetId' = IF HasConnected(d) THEN [byNetId EXCEPT ![netId[d]] = None] ELSE byNetId
        /\ work' = [work EXCEPT ![t] = [at |-> "slot", client |-> d]]
    BY <1>0, <1>5 DEF ResetAliases, At, Become, numbers, removed, TypeInv, WorkMatch
  <2>2. HasConnected(c)
    BY <2>1 DEF HasConnected
  <2>3. removals[d] # 0
    BY <1>0, <2>1 DEF RemovalCounted, Reset
  <2>4. ASSUME netId[d] = netId[c] PROVE FALSE
    <3>1. CASE d = c
      <4>1. removals[c] = 1 /\ AtAliases(c)'
        BY <2>1, <2>3, <3>1 DEF Untouched
      <4>2. PICK u \in Thread : work'[u].at = "aliases" /\ work'[u].client = c
        BY <4>1 DEF AtAliases
      <4>3. u # t /\ work'[u] = work[u]
        BY <1>0, <2>1, <4>2 DEF TypeInv, TypeOK
      <4>4. removals[c] > 1
        BY <1>0, <2>1, <3>1, <4>2, <4>3 DEF RemovedApart, Reset
      <4> QED BY <4>1, <4>4
    <3>2. CASE d # c
      <4>1. removals[d] <= 1 /\ removals[d] \in Nat
        BY <1>0, <1>2, <2>1, <2>2, <2>4, <3>2 DEF IdUndisturbed, TypeInv, TypeOK
      <4>2. Untouched(d)
        BY <2>1, <2>3, <4>1 DEF Untouched, AtAliases
      <4> QED BY <1>1, <1>2, <2>1, <2>2, <2>4, <3>2, <4>2, FoundApart
    <3> QED BY <3>1, <3>2
  <2> QED BY <1>0, <1>2, <2>1, <2>2, <2>4 DEF TypeInv, TypeOK
<1>6. \/ byNetId' = byNetId \/ Numbers
      \/ \E t \in Thread : ResetAliases(t)
  BY <1>0, Kinds DEF Quietly, DropClient, QueueDrop, SignalRemoved, FreeSlot, EraseClient,
               UnassignSlot, AssignSlot, CountConnected, MainDrop, HandleConnectedClient, maps
<1> QED BY <1>3, <1>4, <1>5, <1>6

LEMMA FoundInit == Init => Found
  BY DEF Init, Found, HasConnected

LEMMA AlwaysFound == Spec => [](Kept /\ (Distinct => Found))
<1>1. Kept /\ (Distinct => Found) /\ [Next]_vars => (Distinct => Found)'
  BY FoundStep, DistinctBefore DEF Kept
<1>2. Spec => []Kept
  BY AlwaysKept
<1> QED BY <1>1, <1>2, FoundInit, PTL DEF Spec

\* A client that has a net id is found by it until it is removed, however often the
\* ids have come round.
THEOREM IdsAreKept == Spec => []ConnectedHasId
<1>1. Kept /\ (Distinct => Found) => ConnectedHasId
  BY DEF Found, ConnectedHasId, Untouched
<1> QED BY <1>1, AlwaysFound, PTL

-----------------------------------------------------------------------------
(* Whose the targets are *)

\* Somebody will give the target up, or nobody ever does.
Answers(c) == removals[c] = 0 \/ Pending(c) \/ Late(c)

\* Each target of the event reassembly is somebody's who answers for it.
IdsOwned == \A n \in targets : \E c \in Client : netId[c] = n /\ Answers(c)

\* A client that was numbered and is not removed has a target.
IdsServed == \A c \in Client :
    HasConnected(c) /\ removals[c] = 0 /\ IdUndisturbed(c) => netId[c] \in targets

\* An announced client that is not removed has a target of the state bags.
BagsServed == \A c \in announced : removals[c] = 0 => slot[c] \in bagTargets

\* No `connect` packet had an announced client removed but after its announcement.
Clean == \A c \in announced : turned[c] \subseteq {"announced"}

BagsOwned == \A s \in bagTargets : \E c \in announced \ signalled : slot[c] = s

\* What the listeners of OnDrop hear.
LEMMA ListenerKinds ==
    ASSUME TypeInv, RequestIdle, PendingDropping, [Next]_vars
    PROVE  \/ UNCHANGED <<targets, bagTargets, announced, signalled, removals, turned, withdrawn>>
           \/ Numbers
           \/ \E t \in Thread : SignalRemoved(t)
           \/ \E d \in Client : MainDrop(d) \/ HandleConnectedClient(d)
  BY Kinds DEF Quietly, rest, DropClient, QueueDrop, ResetAliases, FreeSlot, EraseClient, UnassignSlot,
               AssignSlot, CountConnected, listeners, removed

\* Why a client that has connected, and that no packet turned away, was removed.
LEMMA SignalledIfRemoved ==
    ASSUME History, NEW c \in Client, phase[c] = "allowed", removals[c] # 0,
           turned[c] \cap {"dropping", "freed"} = {}
    PROVE  c \in signalled
  BY DEF History, Reasons

\* A client that is numbered although it has been removed is late.
LEMMA NumberedLate ==
    ASSUME TypeInv, History, Numbers, NEW c \in Client, c = work[Net].client, removals[c] # 0
    PROVE  Late(c)' /\ turned[c] = {}
<1>0. Net \in Thread /\ work[Net].at = "assigned" /\ ~HasConnected(c)
  BY DEF Numbers, HandleConnectingClient, At, Thread
<1>1. turned[c] = {}
  BY <1>0 DEF History, TurnedForGood, Connecting, Handshake
<1>2. c \in signalled
  <2>1. phase[c] = "allowed"
    BY <1>0 DEF History, Control, LetIn, Handshake
  <2> QED BY <1>1, <2>1, SignalledIfRemoved
<1>3. c \notin withdrawn
  BY <1>0 DEF History, Marks
<1>4. HasConnected(c)'
  <2>1. PICK n \in NetId : netId' = [netId EXCEPT ![c] = n]
    BY NumbersWhom
  <2> QED BY <2>1 DEF HasConnected, NetId, TypeInv, TypeOK
<1>5. UNCHANGED <<signalled, withdrawn, turned>>
  BY DEF Numbers, HandleConnectingClient, removed
<1> QED BY <1>1, <1>2, <1>3, <1>4, <1>5 DEF Late

LEMMA IdsOwnedStep ==
    ASSUME TypeInv, History, IdsOwned, [Next]_vars
    PROVE  IdsOwned'
<1> SUFFICES ASSUME NEW n \in targets' PROVE \E c \in Client : netId'[c] = n /\ Answers(c)'
  BY DEF IdsOwned
<1>0. /\ RequestIdle /\ PendingDropping /\ Net \in Thread /\ targets \subseteq NetId
      /\ \A c \in Client : removals[c] \in Nat
  BY DEF History, Thread, TypeInv, TypeOK
<1>1. \A c \in Client : Pending(c) => Pending(c)' \/ MainDrop(c)
  BY <1>0, PendingKept DEF DropClient
<1>2. \A c \in Client : HasConnected(c) => HasConnected(c)' /\ netId'[c] = netId[c]
  BY <1>0, IdStays
<1>3. n \in targets => \E c \in Client : netId[c] = n /\ HasConnected(c) /\ Answers(c)
  BY <1>0 DEF IdsOwned, HasConnected, NetId
<1>4. CASE UNCHANGED <<targets, signalled, removals, turned, withdrawn>> /\ ~Numbers
  <2>1. PICK c \in Client : netId[c] = n /\ HasConnected(c) /\ Answers(c)
    BY <1>3, <1>4
  <2>2. ~MainDrop(c)
    BY <1>0, <1>4, DropAdds
  <2> QED BY <1>1, <1>2, <1>4, <2>1, <2>2 DEF Answers, Late
<1>5. CASE Numbers
  <2> DEFINE d == work[Net].client
  <2>1. d \in Client /\ UNCHANGED <<removals, signalled, turned, withdrawn>>
    BY <1>0, <1>5 DEF Numbers, HandleConnectingClient, At, removed, TypeInv, WorkMatch
  <2>2. PICK m \in NetId : netId' = [netId EXCEPT ![d] = m] /\ targets' = targets \cup {m}
    BY <1>5, NumbersWhom
  <2>3. CASE n \in targets
    <3>1. PICK c \in Client : netId[c] = n /\ HasConnected(c) /\ Answers(c)
      BY <1>3, <2>3
    <3>2. ~MainDrop(c)
      BY <1>0, <2>1, DropAdds
    <3> QED BY <1>1, <1>2, <2>1, <3>1, <3>2 DEF Answers, Late
  <2>4. CASE n = m
    <3>1. PICK c \in Client : c = d
      BY <2>1
    <3>2. netId'[c] = n
      BY <2>2, <2>4, <3>1 DEF TypeInv, TypeOK
    <3>3. removals[c] # 0 => Late(c)'
      BY <1>5, <3>1, NumberedLate
    <3> QED BY <2>1, <3>2, <3>3 DEF Answers
  <2> QED BY <2>2, <2>3, <2>4
<1>6. ASSUME NEW t \in Thread, SignalRemoved(t) PROVE \E c \in Client : netId'[c] = n /\ Answers(c)'
  <2> DEFINE d == work[t].client
  <2>1. /\ netId' = netId /\ withdrawn' = withdrawn /\ signalled \subseteq signalled'
        /\ d \in Client /\ removals'[d] = removals[d] + 1
        /\ \A c \in Client \ {d} : removals'[c] = removals[c] /\ turned'[c] = turned[c]
    BY <1>0, <1>6, RemovalAdds, OnlyMore DEF SignalRemoved, numbers
  <2>2. \A c \in Client : ~MainDrop(c)
    <3>1. \A c \in Client : MainDrop(c) => work'[Main].at = "aliases" /\ work[Main].at = "idle"
      BY DropAdds DEF TypeInv, TypeOK, Thread
    <3>2. t = Main \/ work'[Main] = work[Main]
      BY <1>6, RemovalAdds, Elsewhere DEF Thread
    <3>3. work[t].at = "signal"
      BY <1>6, RemovalAdds
    <3> QED BY <3>1, <3>2, <3>3
  <2>3. PICK c \in Client : netId[c] = n /\ HasConnected(c) /\ Answers(c)
    <3>1. n \in targets
      BY <1>6 DEF SignalRemoved, OnDrop
    <3> QED BY <1>3, <3>1
  <2>4. CASE c # d
    <3>1. Late(c) => Late(c)'
      BY <1>2, <2>1, <2>3, <2>4 DEF Late
    <3> QED BY <1>1, <1>2, <2>1, <2>2, <2>3, <2>4, <3>1 DEF Answers
  <2>5. CASE c = d
    <3>1. c \in dropping
      BY <1>6, <2>3, <2>5 DEF SignalRemoved, OnDrop
    <3>2. Pending(c) \/ Late(c)
      BY <2>3, <3>1 DEF Answers, History, DropsToCome, Marks
    <3>3. Late(c) => Late(c)'
      <4>1. Stage(c) \notin {"new", "announced"}
        BY <3>1 DEF Stage
      <4>2. turned'[c] \subseteq turned[c] \cup {Stage(c)}
        BY <1>6, <2>5 DEF SignalRemoved, TypeInv, TypeOK
      <4> QED BY <1>2, <2>1, <2>3, <4>1, <4>2 DEF Late
    <3> QED BY <1>1, <1>2, <2>2, <2>3, <3>2, <3>3 DEF Answers
  <2> QED BY <2>4, <2>5
<1>7. ASSUME NEW d \in Client, MainDrop(d) PROVE \E c \in Client : netId'[c] = n /\ Answers(c)'
  <2>1. /\ n \in targets /\ n # netId[d] /\ turned' = turned
        /\ \A c \in Client \ {d} : removals'[c] = removals[c] /\ (c \in signalled => c \in signalled')
        /\ \A c \in Client \ {d} : c \in withdrawn' => c \in withdrawn
    BY <1>7, DropAdds DEF MainDrop, DropClientInternal, OnDrop
  <2>2. PICK c \in Client : netId[c] = n /\ HasConnected(c) /\ Answers(c)
    BY <1>3, <2>1
  <2>3. c # d
    BY <2>1, <2>2
  <2>4. ~MainDrop(c)
    <3>1. removals'[c] = removals[c]
      BY <2>1, <2>3
    <3> QED BY <1>0, <3>1, DropAdds
  <2>5. Late(c) => Late(c)'
    BY <1>2, <2>1, <2>2, <2>3 DEF Late
  <2> QED BY <1>1, <1>2, <2>1, <2>2, <2>3, <2>4, <2>5 DEF Answers
<1>8. ASSUME NEW d \in Client, HandleConnectedClient(d)
      PROVE  \E c \in Client : netId'[c] = n /\ Answers(c)'
  <2>1. UNCHANGED <<targets, signalled, removals, turned>> /\ withdrawn' \subseteq withdrawn
    BY <1>8 DEF HandleConnectedClient, removed
  <2>2. PICK c \in Client : netId[c] = n /\ HasConnected(c) /\ Answers(c)
    BY <1>3, <2>1
  <2>3. ~MainDrop(c)
    BY <1>0, <2>1, DropAdds
  <2> QED BY <1>1, <1>2, <2>1, <2>2, <2>3 DEF Answers, Late
<1> QED BY <1>0, <1>4, <1>5, <1>6, <1>7, <1>8, ListenerKinds

\* No step but these takes a target of the event reassembly.
LEMMA IdsServedStep ==
    ASSUME Kept, Distinct, Found, IdsServed, [Next]_vars
    PROVE  IdsServed'
<1> SUFFICES ASSUME NEW c \in Client, HasConnected(c)', removals'[c] = 0, IdUndisturbed(c)'
             PROVE  netId'[c] \in targets'
  BY DEF IdsServed
<1>0. /\ TypeInv /\ History /\ RequestIdle /\ PendingDropping /\ Net \in Thread
  BY DEF Kept, History, Thread
<1>1. removals[c] = 0
  BY <1>0, OnlyMore
<1>2. HasConnected(c) => /\ IdUndisturbed(c) /\ netId[c] \in targets /\ netId'[c] = netId[c]
  BY <1>0, <1>1, IdUndisturbedBefore, IdStays DEF IdsServed
<1>3. CASE targets' = targets /\ ~Numbers
  BY <1>0, <1>2, <1>3, IdsForConnecting
<1>4. CASE Numbers
  <2> DEFINE d == work[Net].client
  <2>1. d \in Client
    BY <1>0, <1>4 DEF Numbers, HandleConnectingClient, At, TypeInv, WorkMatch
  <2>2. PICK n \in NetId : netId' = [netId EXCEPT ![d] = n] /\ targets' = targets \cup {n}
    BY <1>0, <1>4, NumbersWhom
  <2>3. CASE c = d
    BY <1>0, <2>1, <2>2, <2>3 DEF TypeInv, TypeOK
  <2>4. CASE c # d
    BY <1>0, <1>2, <2>2, <2>4, IdsForConnecting
  <2> QED BY <2>3, <2>4
\* Who gives up an id while c has it was not removed either.
<1>5. ASSUME NEW d \in Client, removals'[d] = removals[d] + 1, netId'[d] = netId[d],
             HasConnected(c), netId[d] = netId[c]
      PROVE  FALSE
  <2>1. d # c /\ removals[d] \in Nat
    BY <1>0, <1>1, <1>5 DEF TypeInv, TypeOK
  <2>2. netId'[d] = netId'[c]
    BY <1>2, <1>5
  <2>3. removals'[d] <= 1
    BY <2>1, <2>2 DEF IdUndisturbed
  <2>4. removals[d] = 0
    BY <1>5, <2>1, <2>3
  <2> QED BY <1>1, <1>2, <1>5, <2>1, <2>4, FoundApart DEF Untouched
<1>6. ASSUME NEW t \in Thread, SignalRemoved(t) PROVE netId'[c] \in targets'
  <2>1. /\ netId' = netId /\ work[t].client \in Client
        /\ removals'[work[t].client] = removals[work[t].client] + 1
        /\ targets \ {netId[work[t].client]} \subseteq targets'
    BY <1>0, <1>6, RemovalAdds DEF SignalRemoved, OnDrop, numbers
  <2>2. HasConnected(c)
    BY <2>1 DEF HasConnected
  <2>3. netId[work[t].client] # netId[c]
    BY <1>5, <2>1, <2>2
  <2> QED BY <1>2, <2>1, <2>2, <2>3
<1>7. ASSUME NEW d \in Client, MainDrop(d) PROVE netId'[c] \in targets'
  <2>1. /\ netId' = netId /\ removals'[d] = removals[d] + 1 /\ targets' = targets \ {netId[d]}
    BY <1>0, <1>7, DropAdds DEF MainDrop, DropClientInternal, OnDrop, numbers
  <2>2. HasConnected(c)
    BY <2>1 DEF HasConnected
  <2>3. netId[d] # netId[c]
    BY <1>5, <2>1, <2>2
  <2> QED BY <1>2, <2>1, <2>2, <2>3
<1>8. ASSUME NEW d \in Client, HandleConnectedClient(d) PROVE netId'[c] \in targets'
  BY <1>2, <1>8 DEF HandleConnectedClient, numbers, HasConnected
<1> QED BY <1>0, <1>3, <1>4, <1>6, <1>7, <1>8, ListenerKinds

\* Who is announced and not removed has its slot to itself.
LEMMA SlotApart ==
    ASSUME Kept, Distinct, SlotsUndisturbed, NEW c \in announced, removals[c] = 0,
           NEW d \in Client, d # c, Alive(d), ~FreedBy(Main, d)
    PROVE  slot[c] \in Slot /\ slot[d] # slot[c]
<1>0. c \in Client /\ HasConnected(c)
  BY DEF Kept, History, Marks, TypeInv, TypeOK
<1>1. Registered(c) /\ slot[c] # NoSlot /\ slot[c] \in Slot
  BY <1>0 DEF Kept, History, Keeps, KeepsEntry, Control, NumberedHasSlot, TypeInv, TypeOK
<1>2. ~FreedBy(Net, c) /\ ~FreedBy(Main, c)
  BY DEF Kept, History, Control, RemovalCounted, Reset, FreedBy, Thread
<1>3. bySlot[slot[c]] = c
  BY <1>0, <1>1, <1>2 DEF Kept, Keeps, KeepsSlot, Alive
<1>4. slot[d] = slot[c] => bySlot[slot[d]] = d \/ bySlot[slot[d]] = None
  BY <1>1 DEF Kept, Keeps, KeepsSlot, NetFrees
<1> QED BY <1>0, <1>1, <1>3, <1>4, ClientAssumption

LEMMA BagsServedStep ==
    ASSUME Kept, Distinct, SlotsUndisturbed, BagsServed, [Next]_vars
    PROVE  BagsServed'
<1> SUFFICES ASSUME NEW c \in announced', removals'[c] = 0
             PROVE  slot'[c] \in bagTargets'
  BY DEF BagsServed
<1>0. /\ TypeInv /\ History /\ RequestIdle /\ PendingDropping /\ Net \in Thread /\ Main \in Thread
  BY DEF Kept, History, Thread
<1>1. c \in Client /\ removals[c] = 0 /\ removals[c] \in Nat
  BY <1>0, TypeStep, OnlyMore DEF TypeInv, TypeOK
<1>2. ASSUME c \in announced PROVE slot'[c] = slot[c] /\ slot[c] \in bagTargets
  <2>1. slot[c] # NoSlot
    BY <1>0, <1>1, <1>2 DEF History, Marks, Control, NumberedHasSlot
  <2>2. ASSUME NEW t \in Thread, UnassignSlot(t) PROVE slot'[c] = slot[c]
    <3>1. removals[work[t].client] # 0
      BY <1>0, <2>2, UnassignDoes DEF History, Control, RemovalCounted, Reset
    <3> QED BY <1>0, <1>1, <2>2, <3>1, UnassignDoes DEF TypeInv, TypeOK
  <2>3. ASSUME NEW t \in Thread, FreeSlot(t) PROVE slot'[c] = slot[c]
    BY <1>0, <2>3, FreeSlotDoes
  <2>4. ASSUME AssignSlot PROVE slot'[c] = slot[c]
    BY <1>0, <1>1, <2>1, <2>4, AssignDoes DEF TypeInv, TypeOK
  <2> QED BY <1>0, <1>1, <1>2, <2>2, <2>3, <2>4, SlotKinds DEF BagsServed
<1>3. CASE UNCHANGED <<bagTargets, announced>>
  BY <1>2, <1>3
<1>4. CASE Numbers
  BY <1>2, <1>4 DEF Numbers, HandleConnectingClient
<1>5. ASSUME NEW t \in Thread, SignalRemoved(t) PROVE slot'[c] \in bagTargets'
  <2> DEFINE d == work[t].client
  <2>1. /\ announced' = announced /\ d \in Client /\ removals'[d] = removals[d] + 1
        /\ d \in dropping => bagTargets' = bagTargets
        /\ bagTargets \ {slot[d]} \subseteq bagTargets'
        /\ work[t].at = "signal"
    BY <1>0, <1>5, RemovalAdds DEF SignalRemoved, OnDrop
  <2>2. d # c
    BY <1>1, <2>1
  <2>3. d \notin dropping => slot[d] # slot[c]
    <3>1. Alive(d)
      BY <1>0, <2>1, ClientAssumption DEF Alive
    <3>2. d \notin dropping => ~FreedBy(Main, d)
      BY <1>0 DEF FreedBy, History, MainOnlyDrops
    <3> QED BY <1>1, <2>1, <2>2, <3>1, <3>2, SlotApart
  <2> QED BY <1>2, <2>1, <2>3
<1>6. ASSUME NEW d \in Client, MainDrop(d) PROVE slot'[c] \in bagTargets'
  <2>1. /\ announced' = announced /\ removals'[d] = removals[d] + 1
        /\ bagTargets \ {slot[d]} \subseteq bagTargets' /\ Alive(d) /\ work[Main].at = "idle"
    BY <1>0, <1>6, DropAdds DEF MainDrop, DropClientInternal, OnDrop
  <2>2. d # c
    BY <1>1, <2>1
  <2>3. slot[d] # slot[c]
    BY <1>1, <2>1, <2>2, SlotApart DEF FreedBy
  <2> QED BY <1>2, <2>1, <2>3
<1>7. ASSUME NEW d \in Client, HandleConnectedClient(d) PROVE slot'[c] \in bagTargets'
  BY <1>2, <1>7 DEF HandleConnectedClient, numbers
<1> QED BY <1>0, <1>3, <1>4, <1>5, <1>6, <1>7, ListenerKinds

\* Who is announced and has not been signalled has not been removed.
LEMMA PresentKept ==
    ASSUME TypeInv, History, Clean, NEW c \in announced \ signalled
    PROVE  c \in Client /\ removals[c] = 0 /\ slot[c] # NoSlot
<1>1. c \in Client /\ HasConnected(c) /\ phase[c] = "allowed"
  BY DEF TypeInv, TypeOK, History, Marks, Control, LetIn
<1>2. turned[c] \cap {"dropping", "freed"} = {}
  BY DEF Clean
<1>3. removals[c] = 0
  BY <1>1, <1>2, SignalledIfRemoved
<1> QED BY <1>1, <1>3 DEF History, Control, NumberedHasSlot

LEMMA BagsOwnedStep ==
    ASSUME TypeInv, History, Clean, Clean', BagsOwned, [Next]_vars
    PROVE  BagsOwned'
<1> SUFFICES ASSUME NEW s \in bagTargets' PROVE \E c \in announced' \ signalled' : slot'[c] = s
  BY DEF BagsOwned
<1>0. /\ RequestIdle /\ PendingDropping /\ Net \in Thread /\ Main \in Thread
      /\ announced \subseteq Client
  BY DEF History, Thread, TypeInv, TypeOK
<1>1. ASSUME NEW c \in announced \ signalled PROVE slot'[c] = slot[c]
  <2>1. c \in Client /\ removals[c] = 0 /\ slot[c] # NoSlot
    BY <1>1, PresentKept
  <2>2. ASSUME NEW t \in Thread, UnassignSlot(t) PROVE slot'[c] = slot[c]
    <3>1. removals[work[t].client] # 0
      BY <2>2, UnassignDoes DEF History, Control, RemovalCounted, Reset
    <3> QED BY <2>1, <2>2, <3>1, UnassignDoes DEF TypeInv, TypeOK
  <2>3. ASSUME NEW t \in Thread, FreeSlot(t) PROVE slot'[c] = slot[c]
    BY <2>3, FreeSlotDoes
  <2>4. ASSUME AssignSlot PROVE slot'[c] = slot[c]
    BY <2>1, <2>4, AssignDoes DEF TypeInv, TypeOK
  <2> QED BY <1>0, <2>2, <2>3, <2>4, SlotKinds
<1>2. s \in bagTargets => \E c \in announced \ signalled : slot[c] = s
  BY DEF BagsOwned
<1>3. CASE UNCHANGED <<bagTargets, announced, signalled>>
  BY <1>1, <1>2, <1>3
<1>4. CASE Numbers
  BY <1>1, <1>2, <1>4 DEF Numbers, HandleConnectingClient
<1>5. ASSUME NEW t \in Thread, SignalRemoved(t)
      PROVE  \E c \in announced' \ signalled' : slot'[c] = s
  BY <1>1, <1>2, <1>5 DEF SignalRemoved, OnDrop
<1>6. ASSUME NEW d \in Client, MainDrop(d) PROVE \E c \in announced' \ signalled' : slot'[c] = s
  BY <1>1, <1>2, <1>6 DEF MainDrop, DropClientInternal, OnDrop
<1>7. ASSUME NEW d \in Client, HandleConnectedClient(d)
      PROVE  \E c \in announced' \ signalled' : slot'[c] = s
  <2>1. slot' = slot /\ signalled' = signalled /\ turned' = turned /\ d \in joinQueue
    BY <1>7 DEF HandleConnectedClient, numbers, removed
  <2>2. CASE d \in dropping
    BY <1>2, <1>7, <2>1, <2>2 DEF HandleConnectedClient
  <2>3. CASE d \notin dropping
    <3>1. announced' = announced \cup {d} /\ bagTargets' = bagTargets \cup {slot[d]}
      BY <1>7, <2>3 DEF HandleConnectedClient
    <3>2. d \notin signalled
      <4>1. turned[d] \subseteq {"announced"}
        BY <2>1, <3>1 DEF Clean
      <4>2. "announced" \notin turned[d]
        BY <2>1 DEF History, JoinsOnce
      <4>3. phase[d] = "allowed"
        BY <2>1 DEF History, Marks, Control, LetIn
      <4>4. removals[d] = 0
        BY <2>3, <4>1, <4>2, <4>3 DEF History, Reasons
      <4> QED BY <4>4 DEF History, Marks
    <3> QED BY <1>2, <2>1, <3>1, <3>2
  <2> QED BY <2>2, <2>3
<1> QED BY <1>0, <1>3, <1>4, <1>5, <1>6, <1>7, ListenerKinds

-----------------------------------------------------------------------------
(* m_amountConnectedClients *)

\* A client was removed twice, or numbered after its OnDrop: the count may be off.
Twice == \E c \in Client : removals[c] > 1 \/ Late(c)

Leaving(c) == \E t \in Thread : work[t].at \in Reset /\ work[t].client = c

\* Those that were numbered, and have not been taken off the count.
Counted == {c \in Client : HasConnected(c) /\ (removals[c] = 0 \/ Leaving(c))}

\* The count, with the client that the net thread has numbered and not counted.
CountSoon == IF work[Net].at = "numbered" THEN Up(count) ELSE count

CountFollows == ~Twice => CountSoon = Cardinality(Counted)

LEMMA TwiceStays ==
    ASSUME TypeInv, History, Twice, [Next]_vars
    PROVE  Twice'
<1>0. /\ RequestIdle /\ PendingDropping
      /\ \A c \in Client : removals'[c] \in Nat /\ removals[c] \in Nat /\ removals'[c] >= removals[c]
  BY OnlyMore DEF History
<1>1. PICK c \in Client : removals[c] > 1 \/ Late(c)
  BY DEF Twice
<1>2. CASE removals[c] > 1
  <2>1. removals'[c] > 1
    BY <1>0, <1>2
  <2> QED BY <2>1 DEF Twice
<1>3. CASE Late(c)
  <2>1. HasConnected(c)' /\ c \in signalled' /\ removals[c] # 0
    BY <1>0, <1>3, IdStays, OnlyMore DEF Late, History, Marks
  <2>2. CASE removals'[c] = removals[c] + 1
    <3>1. removals'[c] > 1
      BY <1>0, <2>1, <2>2
    <3> QED BY <3>1 DEF Twice
  <2>3. CASE removals'[c] # removals[c] + 1
    <3>1. c \notin withdrawn' /\ turned'[c] = turned[c]
      <4>1. CASE UNCHANGED <<withdrawn, turned>>
        BY <1>3, <4>1 DEF Late
      <4>2. ASSUME NEW t \in Thread, SignalRemoved(t) PROVE c \notin withdrawn' /\ turned'[c] = turned[c]
        BY <1>3, <2>3, <4>2, RemovalAdds DEF SignalRemoved, Late
      <4>3. ASSUME NEW d \in Client, MainDrop(d) PROVE c \notin withdrawn' /\ turned'[c] = turned[c]
        BY <1>3, <2>3, <4>3, DropAdds DEF Late
      <4>4. ASSUME NEW d \in Client, HandleConnectedClient(d)
            PROVE  c \notin withdrawn' /\ turned'[c] = turned[c]
        BY <1>3, <4>4 DEF HandleConnectedClient, removed, Late
      <4>5. CountConnected => UNCHANGED <<withdrawn, turned>>
        BY DEF CountConnected, listeners, removed
      <4> QED BY <1>0, <4>1, <4>2, <4>3, <4>4, <4>5, HistoryKinds
    <3>2. c \notin withdrawn /\ turned[c] \cap {"new", "announced"} = {}
      BY <1>3 DEF Late
    <3>3. Late(c)'
      BY <2>1, <3>1, <3>2 DEF Late
    <3> QED BY <3>3 DEF Twice
  <2> QED BY <2>2, <2>3
<1> QED BY <1>1, <1>2, <1>3

\* Counting up and down within the width of the counter.
LEMMA UpAndDown ==
    /\ \A n \in 0..(CountMod - 2) : Up(n) = n + 1
    /\ \A n \in 1..(CountMod - 1) : Down(n) = n - 1
    /\ \A n \in 0..(CountMod - 1) : Up(Down(n)) = n
    /\ Cardinality(Client) <= CountMod - 1 /\ CountMod \in Nat /\ CountMod > 0
<1>1. Cardinality(Client) \in Nat
  BY ClientAssumption, FS_CardinalityType
<1> QED BY <1>1, NumberAssumption DEF Up, Down

LEMMA CountedSize ==
    ASSUME NEW S \in SUBSET Client
    PROVE  /\ IsFiniteSet(S) /\ Cardinality(S) \in Nat /\ Cardinality(S) <= CountMod - 1
           /\ \A c \in S : Cardinality(S \ {c}) = Cardinality(S) - 1 /\ Cardinality(S) > 0
           /\ \A c : c \notin S => Cardinality(S \cup {c}) = Cardinality(S) + 1
<1>1. IsFiniteSet(S) /\ Cardinality(S) <= Cardinality(Client) /\ Cardinality(Client) \in Nat
  BY ClientAssumption, FS_Subset, FS_CardinalityType
<1>2. Cardinality(S) \in Nat
  BY <1>1, FS_CardinalityType
<1>3. ASSUME NEW c \in S
      PROVE  Cardinality(S \ {c}) = Cardinality(S) - 1 /\ Cardinality(S) > 0
  <2>1. Cardinality(S \ {c}) = Cardinality(S) - 1
    BY <1>1, FS_RemoveElement
  <2>2. Cardinality(S \ {c}) \in Nat
    BY <1>1, FS_RemoveElement, FS_CardinalityType
  <2> QED BY <1>2, <2>1, <2>2
<1>4. ASSUME NEW c, c \notin S PROVE Cardinality(S \cup {c}) = Cardinality(S) + 1
  BY <1>1, <1>4, FS_AddElement
<1> QED BY <1>1, <1>2, <1>3, <1>4, UpAndDown

\* A client counts until its slot is taken from it.
LEMMA CountsOn ==
    ASSUME TypeInv, History, [Next]_vars, NEW c \in Client, removals[c] = 0 \/ Leaving(c),
           \A t \in Thread : UnassignSlot(t) => work[t].client # c
    PROVE  removals'[c] = 0 \/ Leaving(c)'
<1>0. RequestIdle /\ PendingDropping /\ Main \in Thread
  BY DEF History, Thread
<1>1. CASE Leaving(c)
  <2>1. PICK t \in Thread : work[t].at \in Reset /\ work[t].client = c
    BY <1>1 DEF Leaving
  <2>2. work'[t].at \in Reset /\ work'[t].client = c
    BY <1>0, <2>1, ResetKinds
  <2> QED BY <2>2 DEF Leaving
<1>2. CASE removals[c] = 0
  <2>1. ASSUME NEW t \in Thread, SignalRemoved(t) PROVE removals'[c] = 0 \/ Leaving(c)'
    <3>1. CASE work[t].client = c
      <4>1. work'[t].at = "aliases" /\ work'[t].client = c
        BY <2>1, <3>1, RemovalAdds DEF TypeInv, TypeOK
      <4> QED BY <4>1 DEF Leaving, Reset
    <3>2. CASE work[t].client # c
      BY <1>2, <2>1, <3>2, RemovalAdds
    <3> QED BY <3>1, <3>2
  <2>2. ASSUME NEW d \in Client, MainDrop(d) PROVE removals'[c] = 0 \/ Leaving(c)'
    <3>1. CASE d = c
      <4>1. work'[Main].at = "aliases" /\ work'[Main].client = c
        BY <1>0, <2>2, <3>1, DropAdds DEF TypeInv, TypeOK
      <4> QED BY <1>0, <4>1 DEF Leaving, Reset
    <3>2. CASE d # c
      BY <1>2, <2>2, <3>2, DropAdds
    <3> QED BY <3>1, <3>2
  <2>3. \/ removals' = removals
        \/ \E t \in Thread : SignalRemoved(t)
        \/ \E d \in Client : MainDrop(d)
    BY <1>0, HistoryKinds DEF CountConnected, HandleConnectedClient, removed
  <2> QED BY <1>2, <2>1, <2>2, <2>3
<1> QED BY <1>1, <1>2

\* Who is removed once at most, and counts, counted before.
LEMMA CountedBefore ==
    ASSUME TypeInv, History, [Next]_vars, NEW c \in Client, removals'[c] <= 1,
           removals'[c] = 0 \/ Leaving(c)'
    PROVE  removals[c] = 0 \/ Leaving(c)
<1>0. /\ RequestIdle /\ PendingDropping
      /\ removals'[c] \in Nat /\ removals[c] \in Nat /\ removals'[c] >= removals[c]
  BY OnlyMore DEF History
<1>1. CASE removals'[c] = 0
  BY <1>0, <1>1
<1>2. CASE Leaving(c)'
  <2>1. PICK t \in Thread : work'[t].at \in Reset /\ work'[t].client = c
    BY <1>2 DEF Leaving
  <2>2. CASE work[t].at \in Reset /\ work'[t].client = work[t].client
    BY <2>1, <2>2 DEF Leaving
  <2>3. CASE SignalRemoved(t) /\ Goes(t, "signal", "aliases")
    <3>1. removals'[c] = removals[c] + 1
      BY <2>1, <2>3, RemovalAdds DEF Goes
    <3> QED BY <1>0, <3>1
  <2>4. CASE MainBegins(t)
    <3>1. MainDrop(c)
      BY <2>1, <2>4 DEF MainBegins
    <3>2. removals'[c] = removals[c] + 1
      BY <3>1, DropAdds
    <3> QED BY <1>0, <3>2
  <2> QED BY <1>0, <2>1, <2>2, <2>3, <2>4, ResetKinds
<1> QED BY <1>1, <1>2

\* Who is removed once, and has lost its slot, counts no more.
LEMMA CountsNoMore ==
    ASSUME TypeInv, History, NEW t \in Thread, UnassignSlot(t), NEW c \in Client, work[t].client = c,
           removals[c] <= 1
    PROVE  ~(removals'[c] = 0 \/ Leaving(c)')
<1>1. /\ work[t].at \in Reset /\ removals' = removals /\ work' = [work EXCEPT ![t] = Idle]
  BY UnassignDoes DEF UnassignSlot, removed, Reset
<1>2. removals[c] # 0 /\ removals[c] \in Nat
  BY <1>1 DEF History, Control, RemovalCounted, TypeInv, TypeOK
<1>3. ASSUME NEW u \in Thread, work'[u].at \in Reset, work'[u].client = c PROVE FALSE
  <2>1. u # t
    BY <1>1, <1>3 DEF Idle, Reset, TypeInv, TypeOK
  <2>2. work'[u] = work[u]
    BY <1>1, <2>1, Elsewhere
  <2>3. removals[c] > 1
    BY <1>1, <1>3, <2>1, <2>2 DEF History, RemovedApart
  <2> QED BY <1>2, <2>3
<1> QED BY <1>1, <1>2, <1>3 DEF Leaving

LEMMA CountStep ==
    ASSUME TypeInv, History, CountFollows, [Next]_vars
    PROVE  CountFollows'
<1> SUFFICES ASSUME ~Twice' PROVE CountSoon' = Cardinality(Counted')
  BY DEF CountFollows
<1>0. /\ Net \in Thread /\ Net # Main /\ RequestIdle /\ PendingDropping
      /\ \A c \in Client : removals'[c] \in Nat /\ removals[c] \in Nat /\ removals'[c] >= removals[c]
  BY ClientAssumption, OnlyMore DEF Thread, History
<1>1. CountSoon = Cardinality(Counted)
  BY TwiceStays DEF CountFollows
<1>2. Counted \in SUBSET Client /\ count \in 0..(CountMod - 1)
  BY DEF Counted, TypeInv, TypeOK
<1>3. Cardinality(Counted) \in Nat /\ Cardinality(Counted) <= CountMod - 1
  BY <1>2, CountedSize
<1>4. \A c \in Client : removals'[c] <= 1 /\ removals[c] <= 1
  <2>1. \A c \in Client : ~(removals'[c] > 1)
    BY DEF Twice
  <2> QED BY <1>0, <2>1
<1>5. \A c \in Client : (\A t \in Thread : UnassignSlot(t) => work[t].client # c) =>
          ((removals'[c] = 0 \/ Leaving(c)') <=> (removals[c] = 0 \/ Leaving(c)))
  BY <1>4, CountsOn, CountedBefore
<1>6. ThreadStep(Net) /\ ~MainBegins(Net)
  BY <1>0, ThreadKinds DEF MainBegins
<1>7. CASE Numbers
  <2> DEFINE d == work[Net].client
  <2>1. /\ d \in Client /\ work[Net].at = "assigned" /\ count' = count /\ removals' = removals
        /\ ~HasConnected(d)
    BY <1>0, <1>7 DEF Numbers, HandleConnectingClient, At, removed, TypeInv, WorkMatch
  <2>2. PICK n \in NetId : /\ netId' = [netId EXCEPT ![d] = n]
                           /\ work' = [work EXCEPT ![Net] = [at |-> "numbered", client |-> d]]
    BY <1>7, NumbersWhom
  <2>3. PICK c \in Client : c = d
    BY <2>1
  <2>4. removals[c] = 0
    <3>1. ~Late(c)'
      BY DEF Twice
    <3> QED BY <1>7, <2>3, <3>1, NumberedLate
  <2>5. \A t \in Thread : ~UnassignSlot(t)
    <3>1. \A t \in Thread : UnassignSlot(t) => netId' = netId
      BY DEF UnassignSlot
    <3> QED BY <2>1, <2>2, <3>1 DEF HasConnected, NetId, TypeInv, TypeOK
  <2>6. /\ ~HasConnected(c) /\ HasConnected(c)'
        /\ \A e \in Client \ {c} : HasConnected(e)' <=> HasConnected(e)
    BY <2>1, <2>2, <2>3 DEF HasConnected, NetId, TypeInv, TypeOK
  <2>7. Counted' = Counted \cup {c} /\ c \notin Counted
    <3>1. c \in Counted'
      BY <2>1, <2>4, <2>6 DEF Counted
    <3>2. ASSUME NEW e \in Client, e # c PROVE e \in Counted' <=> e \in Counted
      BY <1>5, <2>5, <2>6, <3>2 DEF Counted
    <3> QED BY <2>6, <3>1, <3>2 DEF Counted
  <2>8. Counted' \in SUBSET Client
    BY <1>2, <2>7
  <2>9. Cardinality(Counted') = Cardinality(Counted) + 1 /\ Cardinality(Counted') <= CountMod - 1
    BY <1>2, <2>7, <2>8, CountedSize
  <2>10. CountSoon = count /\ CountSoon' = Up(count)
    BY <1>0, <2>1, <2>2 DEF CountSoon, TypeInv, TypeOK
  <2>11. CountMod \in Nat
    BY UpAndDown
  <2> QED BY <1>1, <1>3, <2>9, <2>10, <2>11, UpAndDown
<1>8. ASSUME NEW t \in Thread, UnassignSlot(t) PROVE CountSoon' = Cardinality(Counted')
  <2>1. PICK c \in Client : c = work[t].client
    BY <1>8, UnassignDoes
  <2>2. /\ netId' = netId /\ removals' = removals
        /\ count' = IF HasConnected(c) THEN Down(count) ELSE count
        /\ work[t].at = "unassign" /\ work' = [work EXCEPT ![t] = Idle]
    BY <1>8, <2>1 DEF UnassignSlot, At, removed
  <2>3. work'[Net].at = "numbered" <=> work[Net].at = "numbered"
    BY <1>0, <2>2 DEF Idle, TypeInv, TypeOK
  <2>4. ~(removals'[c] = 0 \/ Leaving(c)')
    BY <1>4, <1>8, <2>1, CountsNoMore
  <2>5. \A u \in Thread : UnassignSlot(u) => work[u].client = c
    <3> SUFFICES ASSUME NEW u \in Thread, UnassignSlot(u), u # t PROVE FALSE
      BY <2>1
    <3>1. work'[u] = work[u] /\ work[u].at = "unassign" /\ work'[u] = Idle
      BY <1>8, UnassignDoes, Elsewhere DEF TypeInv, TypeOK
    <3> QED BY <3>1 DEF Idle
  <2>6. ASSUME NEW e \in Client, e # c PROVE e \in Counted' <=> e \in Counted
    BY <1>5, <2>2, <2>5, <2>6 DEF Counted, HasConnected
  <2>7. c \notin Counted'
    BY <2>4 DEF Counted
  <2>8. CASE HasConnected(c)
    <3>1. c \in Counted
      BY <2>1, <2>2, <2>8 DEF Counted, Leaving, Reset
    <3>2. Counted' = Counted \ {c}
      BY <2>6, <2>7, <3>1 DEF Counted
    <3>3. Cardinality(Counted') = Cardinality(Counted) - 1 /\ Cardinality(Counted) > 0
      BY <1>2, <3>1, <3>2, CountedSize
    <3>4. count' = Down(count)
      BY <2>2, <2>8
    <3>5. CASE work[Net].at = "numbered"
      <4>1. CountSoon = Up(count) /\ CountSoon' = Up(Down(count))
        BY <2>3, <3>4, <3>5 DEF CountSoon
      <4>2. Up(Down(count)) = count
        BY <1>2, UpAndDown
      <4>3. Up(count) = count + 1
        BY <1>1, <1>2, <1>3, <3>3, <4>1, UpAndDown DEF Up
      <4> QED BY <1>1, <1>2, <1>3, <3>3, <4>1, <4>2, <4>3
    <3>6. CASE work[Net].at # "numbered"
      <4>1. CountSoon = count /\ CountSoon' = Down(count)
        BY <2>3, <3>4, <3>6 DEF CountSoon
      <4>2. Down(count) = count - 1
        BY <1>1, <1>2, <1>3, <3>3, <4>1, UpAndDown
      <4> QED BY <1>1, <1>3, <3>3, <4>1, <4>2
    <3> QED BY <3>5, <3>6
  <2>9. CASE ~HasConnected(c)
    <3>1. c \notin Counted
      BY <2>9 DEF Counted
    <3>2. Counted' = Counted
      BY <2>6, <2>7, <3>1 DEF Counted
    <3>3. CountSoon' = CountSoon
      BY <2>2, <2>3, <2>9 DEF CountSoon
    <3> QED BY <1>1, <3>2, <3>3
  <2> QED BY <2>8, <2>9
<1>9. ASSUME ~Numbers, \A t \in Thread : ~UnassignSlot(t) PROVE Counted' = Counted /\ netId' = netId
  <2>1. netId' = netId
    BY <1>0, <1>9, Kinds
       DEF Quietly, rest, DropClient, QueueDrop, SignalRemoved, ResetAliases, FreeSlot, EraseClient,
           AssignSlot, CountConnected, MainDrop, HandleConnectedClient, numbers
  <2>2. \A e \in Client : e \in Counted' <=> e \in Counted
    BY <1>5, <1>9, <2>1 DEF Counted, HasConnected
  <2> QED BY <2>1, <2>2 DEF Counted
<1>10. CASE CountConnected /\ ~Numbers /\ \A t \in Thread : ~UnassignSlot(t)
  <2>1. work[Net].at = "numbered" /\ count' = Up(count) /\ work' = [work EXCEPT ![Net] = Idle]
    BY <1>10 DEF CountConnected, At
  <2>2. CountSoon' = CountSoon
    BY <1>0, <2>1 DEF CountSoon, Idle, TypeInv, TypeOK
  <2> QED BY <1>1, <1>9, <1>10, <2>2
<1>11. CASE ~CountConnected /\ ~Numbers /\ \A t \in Thread : ~UnassignSlot(t)
  <2>1. count' = count
    BY <1>0, <1>11, Kinds
       DEF Quietly, rest, DropClient, QueueDrop, SignalRemoved, ResetAliases, FreeSlot, EraseClient,
           AssignSlot, MainDrop, HandleConnectedClient, numbers
  <2>2. work'[Net].at = "numbered" <=> work[Net].at = "numbered"
    <3>1. Begins(Net) => work[Net].at = "idle" /\ work'[Net].at \in {"drop", "signal", "peer"}
      BY DEF Begins, TurnsTo
    <3> QED BY <1>0, <1>6, <1>11, <3>1 DEF ThreadStep, Goes, Ends, Idle
  <2> QED BY <1>1, <1>9, <1>11, <2>1, <2>2 DEF CountSoon
<1> QED BY <1>7, <1>8, <1>10, <1>11

-----------------------------------------------------------------------------

IInv ==
    /\ Kept /\ IdsOwned /\ CountFollows
    /\ Clean => BagsOwned
    /\ Distinct => Found /\ IdsServed
    /\ Distinct /\ SlotsUndisturbed => BagsServed

LEMMA IInvStep == IInv /\ [Next]_vars => IInv'
<1> SUFFICES ASSUME IInv, [Next]_vars PROVE IInv'
  OBVIOUS
<1> USE DEF IInv
<1>0. TypeInv /\ History /\ Keeps /\ RequestIdle /\ PendingDropping /\ announced \subseteq Client
  BY DEF Kept, History, TypeInv, TypeOK
<1>1. Kept'
  BY <1>0, TypeStep, HistoryStep, KeepsStep DEF Kept
<1>2. IdsOwned' /\ CountFollows'
  BY <1>0, IdsOwnedStep, CountStep
<1>3. Clean' => BagsOwned'
  <2>1. Clean' => Clean
    BY <1>0, OnlyMore DEF Clean
  <2> QED BY <1>0, <2>1, BagsOwnedStep
<1>4. Distinct' => Distinct
  BY <1>0, DistinctBefore
<1>5. SlotsUndisturbed' => SlotsUndisturbed
  BY <1>0, OnlyMore DEF SlotsUndisturbed
<1>6. Distinct' => Found' /\ IdsServed'
  BY <1>4, FoundStep, IdsServedStep
<1>7. Distinct' /\ SlotsUndisturbed' => BagsServed'
  BY <1>4, <1>5, BagsServedStep
<1> QED BY <1>1, <1>2, <1>3, <1>6, <1>7

LEMMA AlwaysIInv == Spec => []IInv
<1>1. Init => IInv
  <2> SUFFICES ASSUME Init PROVE IInv
    OBVIOUS
  <2>1. Kept
    BY TypeInit, HistoryInit, KeepsInit DEF Kept
  <2>2. IdsOwned /\ BagsOwned /\ BagsServed /\ IdsServed
    BY DEF Init, IdsOwned, BagsOwned, BagsServed, IdsServed, HasConnected
  <2>3. CountFollows
    <3>1. Counted = {}
      BY DEF Init, Counted, HasConnected
    <3>2. CountSoon = 0
      BY DEF Init, CountSoon, Idle, Thread
    <3> QED BY <3>1, <3>2, FS_EmptySet DEF CountFollows
  <2> QED BY <2>1, <2>2, <2>3, FoundInit DEF IInv
<1> QED BY <1>1, IInvStep, PTL DEF Spec

\* The players that are told of a joining client are told when it has left, whoever
\* removes it, unless a `connect` packet had it removed before anybody dropped it.
THEOREM LeavingIsTold == Spec => []Withdrawn
<1>1. Kept => Withdrawn
  <2> SUFFICES ASSUME Kept, Distinct, NEW c \in announced, ~Alive(c)
               PROVE  c \in withdrawn \/ turned[c] \cap {"new", "announced"} # {}
    BY DEF Withdrawn
  <2>1. c \in Client /\ HasConnected(c)
    BY DEF Kept, History, Marks, TypeInv, TypeOK
  <2>2. phase[c] = "allowed" /\ removals[c] # 0
    BY <2>1 DEF Kept, History, Control, LetIn, Keeps, KeepsEntry, Alive
  <2>3. c \in dropping \/ turned[c] \cap {"new", "announced"} # {}
    BY <2>1, <2>2 DEF Kept, History, Reasons
  <2>4. ~Pending(c)
    BY DEF Pending, Alive
  <2> QED BY <2>3, <2>4 DEF Kept, History, DropsToCome
<1> QED BY <1>1, AlwaysKept, PTL

\* Whoever has begun to be removed had OnDrop called, or will have.
RemovedDropped == \A c \in Client : removals[c] # 0 => c \in signalled \/ Pending(c)

\* Code that has seen OnClientCreated hears of every removal (GameServer.cpp:1141,
\* ClientRegistry.h:84-91), whether it was a drop or a `connect` packet, and whatever
\* was on its way meanwhile.
THEOREM RemovedWereDropped == Spec => []RemovedDropped
<1>1. Kept => RemovedDropped
  BY DEF Kept, History, Reasons, DropsToCome, RemovedDropped
<1> QED BY <1>1, AlwaysKept, PTL

\* The state bags have a target for each announced player, which the client's OnDrop
\* gives up even when its slot has been taken away.
THEOREM BagTargetsAreGivenUp == Spec => []BagTargetsExact
<1>1. IInv => BagTargetsExact
  <2> SUFFICES ASSUME IInv, Distinct, SlotsUndisturbed
               PROVE  /\ \A c \in announced : removals[c] = 0 => slot[c] \in bagTargets
                      /\ Clean => bagTargets = {slot[c] : c \in announced \ signalled}
    BY DEF BagTargetsExact, Clean
  <2>1. BagsServed
    BY DEF IInv
  <2>2. ASSUME Clean PROVE bagTargets = {slot[c] : c \in announced \ signalled}
    <3>1. \A s \in bagTargets : \E c \in announced \ signalled : slot[c] = s
      BY <2>2 DEF IInv, BagsOwned
    <3>2. \A c \in announced \ signalled : slot[c] \in bagTargets
      BY <2>1, <2>2, PresentKept DEF BagsServed, IInv, Kept
    <3> QED BY <3>1, <3>2
  <2> QED BY <2>1, <2>2 DEF BagsServed
<1> QED BY <1>1, AlwaysIInv, PTL

\* No target of the event reassembly is left behind by a client that was removed, and
\* none is taken from one that was not, though ids come round: only a client that was
\* numbered after its OnDrop leaves one, and only a second removal takes another's.
THEOREM TargetsAreGivenUp == Spec => []TargetsExact
<1>1. IInv => TargetsExact
  <2> SUFFICES ASSUME IInv, Distinct, Quiet
               PROVE  /\ \A n \in targets : \E c \in Client : netId[c] = n /\ Rightful(c)
                      /\ \A c \in Client :
                            HasConnected(c) /\ removals[c] = 0 /\ IdUndisturbed(c) => netId[c] \in targets
    BY DEF TargetsExact
  <2>1. \A c \in Client : Answers(c) => Rightful(c)
    BY DEF Answers, Rightful, Pending, Quiet, At
  <2>2. IdsOwned /\ IdsServed
    BY DEF IInv
  <2> QED BY <2>1, <2>2 DEF IdsOwned, IdsServed
<1> QED BY <1>1, AlwaysIInv, PTL

\* m_amountConnectedClients is the number of the connected clients, as long as none is
\* removed twice or numbered after its OnDrop.
THEOREM CountIsRight == Spec => []CountExact
<1>1. IInv => CountExact
  <2> SUFFICES ASSUME IInv, Quiet, \A c \in Client : removals[c] <= 1 /\ ~Late(c)
               PROVE  count = Cardinality({c \in Client : HasConnected(c) /\ removals[c] = 0})
    BY DEF CountExact
  <2>1. \A c \in Client : removals[c] \in Nat
    BY DEF IInv, Kept, TypeInv, TypeOK
  <2>2. ~Twice
    BY <2>1 DEF Twice
  <2>3. CountSoon = count /\ \A t \in Thread : work[t].at \notin Reset
    BY DEF CountSoon, Quiet, At, Thread, Reset
  <2>4. Counted = {c \in Client : HasConnected(c) /\ removals[c] = 0}
    BY <2>3 DEF Counted, Leaving
  <2> QED BY <2>2, <2>3, <2>4 DEF IInv, CountFollows
<1> QED BY <1>1, AlwaysIInv, PTL
=============================================================================
