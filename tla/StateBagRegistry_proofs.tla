----------------------- MODULE StateBagRegistry_proofs -----------------------
(***************************************************************************)
(* Type correctness of StateBagRegistry, ExpiredIsListed for any threads'  *)
(* interleaving, and HeldIsFound for a client.                             *)
(***************************************************************************)
EXTENDS StateBagRegistry, TLAPS

\* A thread has a reference to the bag while it works on it, and only then.
RefsMatch ==
    \A t \in Thread :
        /\ pc[t] = "made" => ref[t] \in Bag
        /\ pc[t] \notin {"made", "holding"} => ref[t] = None

\* make_shared returns a bag that did not exist.
LEMMA NewBagIsUnused == Unused # {} => NewBag \in Unused /\ NewBag \in Bag
  BY DEF Unused, NewBag

LEMMA DroppedType == ASSUME NEW t \in Thread, TypeOK, Drop(t)
                     PROVE  dying' \in [Thread -> SUBSET Bag]
  BY DEF TypeOK, Drop, Dropped

LEMMA FoundType == TypeOK /\ Found => entry \in Bag
  BY DEF TypeOK, Found

LEMMA RegisteringType ==
    ASSUME TypeOK, RefsMatch,
           \/ EnsureStateBag \/ HandlePacket
           \/ \E t \in Thread : \/ TakeOffList(t) \/ RegisterStateBag(t)
                                \/ SetStateBag(t) \/ Retry(t)
                                \/ PreCreateStateBag(t) \/ Release(t)
    PROVE  TypeOK' /\ RefsMatch'
<1> USE DEF TypeOK, RefsMatch, State, Purpose, Become, registry, entities, threads
<1>0. Main \in Thread /\ Sync \in Thread /\ PacketThread \in Thread
  BY DEF Thread, PacketThread
<1>1. CASE EnsureStateBag
  BY <1>0, <1>1 DEF EnsureStateBag, Idle
<1>2. CASE HandlePacket
  <2> DEFINE t == PacketThread
  <2>1. pc[t] = "idle" /\ ref[t] = None
    BY <1>0, <1>2 DEF HandlePacket, Idle
  <2>2. CASE Found /\ ref' = [ref EXCEPT ![t] = entry] /\ Become(t, "holding")
             /\ UNCHANGED <<purpose, entity>>
    BY <1>0, <1>2, <2>2, FoundType DEF HandlePacket
  <2>3. CASE UNCHANGED ref /\ Become(t, "register")
    BY <1>0, <1>2, <2>1, <2>3 DEF HandlePacket
  <2> QED BY <1>2, <2>2, <2>3 DEF HandlePacket
<1>3. ASSUME NEW t \in Thread, TakeOffList(t) PROVE TypeOK' /\ RefsMatch'
  BY <1>3 DEF TakeOffList
<1>4. ASSUME NEW t \in Thread, RegisterStateBag(t) PROVE TypeOK' /\ RefsMatch'
  <2>1. CASE Found /\ UNCHANGED entry /\ ref' = [ref EXCEPT ![t] = entry]
                   /\ preCreated' = preCreated \ {entry}
    BY <1>4, <2>1, FoundType DEF RegisterStateBag
  <2>2. CASE /\ Unused # {} /\ entry' = NewBag /\ ref' = [ref EXCEPT ![t] = NewBag]
             /\ UNCHANGED preCreated
    BY <1>4, <2>2, NewBagIsUnused DEF RegisterStateBag
  <2> QED BY <1>4, <2>1, <2>2 DEF RegisterStateBag
<1>5. ASSUME NEW t \in Thread, SetStateBag(t) PROVE TypeOK' /\ RefsMatch'
  BY <1>5, DroppedType DEF SetStateBag
<1>6. ASSUME NEW t \in Thread, Retry(t) PROVE TypeOK' /\ RefsMatch'
  BY <1>6, FoundType DEF Retry
<1>7. ASSUME NEW t \in Thread, PreCreateStateBag(t) PROVE TypeOK' /\ RefsMatch'
  <2>1. pc[t] = "made" /\ ref[t] \in Bag
    BY <1>7 DEF PreCreateStateBag
  <2>2. TypeOK'
    BY <1>7, <2>1 DEF PreCreateStateBag
  <2>3. RefsMatch'
    BY <1>7, <2>1 DEF PreCreateStateBag
  <2> QED BY <2>2, <2>3
<1>8. ASSUME NEW t \in Thread, Release(t) PROVE TypeOK' /\ RefsMatch'
  BY <1>8, DroppedType DEF Release
<1> QED BY <1>1, <1>2, <1>3, <1>4, <1>5, <1>6, <1>7, <1>8

LEMMA OtherType ==
    ASSUME TypeOK, RefsMatch,
           \/ TakeList \/ EraseEntries \/ Reset \/ RemoveEntity
           \/ \E e \in Entity : CreateEntity(e) \/ \E t \in Thread : DestroyEntity(e, t)
           \/ \E t \in Thread : UnregisterStateBag(t)
    PROVE  TypeOK' /\ RefsMatch'
<1> USE DEF TypeOK, RefsMatch, State, Become, registry, entities, threads
<1>0. Main \in Thread
  BY DEF Thread
<1>1. CASE TakeList
  BY <1>0, <1>1 DEF TakeList, Idle
<1>2. CASE EraseEntries
  BY <1>0, <1>2 DEF EraseEntries
<1>3. CASE Reset
  BY <1>0, <1>3, DroppedType DEF Reset
<1>4. CASE RemoveEntity
  BY <1>4 DEF RemoveEntity
<1>5. ASSUME NEW e \in Entity, CreateEntity(e) PROVE TypeOK' /\ RefsMatch'
  BY <1>5 DEF CreateEntity
<1>6. ASSUME NEW e \in Entity, NEW t \in Thread, DestroyEntity(e, t)
      PROVE  TypeOK' /\ RefsMatch'
  BY <1>6, DroppedType DEF DestroyEntity
<1>7. ASSUME NEW t \in Thread, UnregisterStateBag(t) PROVE TypeOK' /\ RefsMatch'
  BY <1>7 DEF UnregisterStateBag
<1> QED BY <1>1, <1>2, <1>3, <1>4, <1>5, <1>6, <1>7

LEMMA TypeStep == TypeOK /\ RefsMatch /\ [Next]_vars => TypeOK' /\ RefsMatch'
<1> SUFFICES ASSUME TypeOK, RefsMatch, [Next]_vars PROVE TypeOK' /\ RefsMatch'
  OBVIOUS
<1>1. CASE UNCHANGED vars
  BY <1>1 DEF vars, registry, entities, threads, TypeOK, RefsMatch
<1> QED BY <1>1, RegisteringType, OtherType DEF Next

LEMMA TypeInit == Init => TypeOK /\ RefsMatch
  BY DEF Init, TypeOK, RefsMatch, State, Purpose

LEMMA TypeInv == Spec => [](TypeOK /\ RefsMatch)
  BY TypeInit, TypeStep, PTL DEF Spec

\* Every variable of the registry keeps its type, whatever threads, entities and
\* bags there are.
THEOREM RegistryTypes == Spec => []TypeOK
  BY TypeInv, PTL

-----------------------------------------------------------------------------
(* ExpiredIsListed *)

\* A thread that drops the last reference is about to run the destructor.
LEMMA DropIsOnItsWay ==
    ASSUME NEW t \in Thread, TypeOK, ExpiredIsListed, Drop(t), UNCHANGED entry,
           listed => listed',
           pc[Main] = "erasing" => pc'[Main] = "erasing",
           \A u \in Thread : pc[u] = "find" /\ wasBeingErased[u]
                              => pc'[u] = "find" /\ wasBeingErased'[u]
    PROVE  ExpiredIsListed'
<1> SUFFICES ASSUME entry' # None, ~Alive(entry)', ~listed', pc'[Main] # "erasing",
                    ~\E u \in Thread : pc'[u] = "find" /\ wasBeingErased'[u]
             PROVE  \E u \in Thread : entry' \in dying'[u]
  BY DEF ExpiredIsListed
<1>1. entry \in Bag
  BY DEF TypeOK
<1>2. CASE Alive(entry)
  <2>1. entry \in Dropped(t)
    BY <1>1, <1>2 DEF Dropped
  <2> QED BY <2>1 DEF Drop, TypeOK
<1>3. CASE ~Alive(entry)
  <2>1. PICK u \in Thread : entry \in dying[u]
    BY <1>3 DEF ExpiredIsListed
  <2> QED BY <2>1 DEF Drop, TypeOK
<1> QED BY <1>2, <1>3

\* Steps that leave the entry, all references and all reasons alone.
LEMMA ReasonsKept ==
    ASSUME ExpiredIsListed, UNCHANGED <<entry, preCreated, bag, dying>>,
           \A b : Alive(b) => Alive(b)',
           listed => listed' \/ pc'[Main] = "erasing"
                             \/ \E t \in Thread : pc'[t] = "find" /\ wasBeingErased'[t],
           pc[Main] = "erasing" => pc'[Main] = "erasing",
           \A u \in Thread : pc[u] = "find" /\ wasBeingErased[u]
                              => pc'[u] = "find" /\ wasBeingErased'[u]
    PROVE  ExpiredIsListed'
<1>1. Alive(entry) => Alive(entry)'
  BY DEF Alive
<1> QED BY <1>1 DEF ExpiredIsListed

LEMMA ListedRegistering ==
    ASSUME TypeOK, RefsMatch, ExpiredIsListed,
           \/ EnsureStateBag \/ HandlePacket
           \/ \E t \in Thread : \/ TakeOffList(t) \/ RegisterStateBag(t)
                                \/ Retry(t) \/ PreCreateStateBag(t)
    PROVE  ExpiredIsListed'
<1> USE DEF TypeOK, RefsMatch, Become, registry, entities, threads
<1>0. Main \in Thread /\ Sync \in Thread /\ PacketThread \in Thread
  BY DEF Thread, PacketThread
<1>1. CASE EnsureStateBag
  <2>1. \A b : Alive(b) => Alive(b)'
    BY <1>1 DEF EnsureStateBag, Alive
  <2> QED BY <1>0, <1>1, <2>1, ReasonsKept DEF EnsureStateBag, Idle
<1>2. CASE HandlePacket
  <2>1. UNCHANGED <<entry, preCreated, bag, dying, listed, wasBeingErased>>
    BY <1>2 DEF HandlePacket
  <2>2. pc[PacketThread] = "idle" /\ ref[PacketThread] = None
    <3>1. pc[PacketThread] = "idle"
      BY <1>2 DEF HandlePacket, Idle
    <3> QED BY <1>0, <3>1
  <2>3. \A u \in Thread \ {PacketThread} : ref'[u] = ref[u] /\ pc'[u] = pc[u]
    BY <1>2 DEF HandlePacket
  <2>4. \A b : b # None => (Alive(b) => Alive(b)')
    BY <2>1, <2>2, <2>3 DEF Alive
  <2> QED BY <1>0, <2>1, <2>2, <2>3, <2>4 DEF ExpiredIsListed
<1>3. ASSUME NEW t \in Thread, TakeOffList(t) PROVE ExpiredIsListed'
  <2>1. \A b : Alive(b) => Alive(b)'
    BY <1>3 DEF TakeOffList, Alive
  <2>2. pc'[t] = "find" /\ wasBeingErased'[t] = listed
    BY <1>3 DEF TakeOffList
  <2> QED BY <1>0, <1>3, <2>1, <2>2, ReasonsKept DEF TakeOffList
<1>4. ASSUME NEW t \in Thread, RegisterStateBag(t) PROVE ExpiredIsListed'
  <2>1. ref'[t] = entry'
    BY <1>4 DEF RegisterStateBag
  <2>2. Alive(entry)'
    BY <2>1 DEF Alive
  <2> QED BY <2>2 DEF ExpiredIsListed
<1>5. ASSUME NEW t \in Thread, Retry(t) PROVE ExpiredIsListed'
  <2>1. UNCHANGED <<entry, preCreated, bag, dying, listed, wasBeingErased>>
    BY <1>5 DEF Retry
  <2>2. pc[t] = "retry" /\ ref[t] = None
    <3>1. pc[t] = "retry"
      BY <1>5 DEF Retry
    <3> QED BY <3>1
  <2>3. \A u \in Thread \ {t} : ref'[u] = ref[u] /\ pc'[u] = pc[u]
    BY <1>5 DEF Retry
  <2>4. \A b : b # None => (Alive(b) => Alive(b)')
    BY <2>1, <2>2, <2>3 DEF Alive
  <2> QED BY <1>0, <2>1, <2>2, <2>3, <2>4 DEF ExpiredIsListed
<1>6. ASSUME NEW t \in Thread, PreCreateStateBag(t) PROVE ExpiredIsListed'
  <2>1. Alive(entry) => Alive(entry)'
    BY <1>6 DEF PreCreateStateBag, Alive
  <2> QED BY <1>0, <1>6, <2>1 DEF ExpiredIsListed, PreCreateStateBag
<1> QED BY <1>1, <1>2, <1>3, <1>4, <1>5, <1>6

LEMMA ListedOther ==
    ASSUME TypeOK, RefsMatch, ExpiredIsListed,
           \/ TakeList \/ EraseEntries \/ Reset \/ RemoveEntity
           \/ \E e \in Entity : CreateEntity(e) \/ \E t \in Thread : DestroyEntity(e, t)
           \/ \E t \in Thread : SetStateBag(t) \/ Release(t) \/ UnregisterStateBag(t)
    PROVE  ExpiredIsListed'
<1> USE DEF TypeOK, Become, registry, entities, threads
<1>0. Main \in Thread
  BY DEF Thread
<1>1. CASE TakeList
  <2>1. \A b : Alive(b) => Alive(b)'
    BY <1>1 DEF TakeList, Alive
  <2>2. pc'[Main] = "erasing" /\ pc[Main] = "idle"
    BY <1>0, <1>1 DEF TakeList, Idle
  <2> QED BY <2>2 DEF ExpiredIsListed
<1>2. CASE EraseEntries \/ Reset
  BY <1>2 DEF EraseEntries, Reset, ExpiredIsListed
<1>3. CASE RemoveEntity
  BY <1>3 DEF RemoveEntity, ExpiredIsListed, Alive
<1>4. ASSUME NEW e \in Entity, CreateEntity(e) PROVE ExpiredIsListed'
  BY <1>4 DEF CreateEntity, ExpiredIsListed, Alive
<1>5. ASSUME NEW e \in Entity, NEW t \in Thread, DestroyEntity(e, t) PROVE ExpiredIsListed'
  BY <1>5, DropIsOnItsWay DEF DestroyEntity
<1>6. ASSUME NEW t \in Thread, SetStateBag(t) PROVE ExpiredIsListed'
  <2>1. /\ pc[Main] = "erasing" => pc'[Main] = "erasing"
        /\ \A u \in Thread : pc[u] = "find" => pc'[u] = "find"
    BY <1>0, <1>6 DEF SetStateBag
  <2> QED BY <1>6, <2>1, DropIsOnItsWay DEF SetStateBag
<1>7. ASSUME NEW t \in Thread, Release(t) PROVE ExpiredIsListed'
  <2>1. /\ pc[Main] = "erasing" => pc'[Main] = "erasing"
        /\ \A u \in Thread : pc[u] = "find" => pc'[u] = "find"
    BY <1>0, <1>7 DEF Release
  <2> QED BY <1>7, <2>1, DropIsOnItsWay DEF Release
<1>8. ASSUME NEW t \in Thread, UnregisterStateBag(t) PROVE ExpiredIsListed'
  BY <1>8 DEF UnregisterStateBag, ExpiredIsListed
<1> QED BY <1>1, <1>2, <1>3, <1>4, <1>5, <1>6, <1>7, <1>8

LEMMA ListedStep ==
    TypeOK /\ RefsMatch /\ ExpiredIsListed /\ [Next]_vars => ExpiredIsListed'
<1> SUFFICES ASSUME TypeOK, RefsMatch, ExpiredIsListed, [Next]_vars PROVE ExpiredIsListed'
  OBVIOUS
<1>1. CASE UNCHANGED vars
  BY <1>1 DEF vars, registry, entities, threads, ExpiredIsListed, Alive
<1> QED BY <1>1, ListedRegistering, ListedOther DEF Next

\* The entry of a destroyed bag is never forgotten: however many threads register and
\* destroy bags of the name at once, something is under way that removes the entry.
THEOREM ExpiredEntriesGo == Spec => []ExpiredIsListed
<1>1. Init => ExpiredIsListed
  BY DEF Init, ExpiredIsListed
<1> QED BY <1>1, ListedStep, TypeInv, PTL DEF Spec

-----------------------------------------------------------------------------
(* HeldIsFound *)

\* Something is under way that will take the entry off the map.
Erasing ==
    \/ listed \/ pc[Main] = "erasing" \/ dying[Main] # {}
    \/ pc[Main] = "find" /\ wasBeingErased[Main]

\* What the main thread can rely on when there is no other: the one bag that exists is
\* the one in the map, and none exists while the entry is to be erased.
OneThread ==
    role = "Client" =>
        /\ pc[Sync] = "idle" /\ ref[Sync] = None /\ dying[Sync] = {}
        /\ \A b \in Bag : Alive(b) => b = entry /\ ~Erasing
        /\ pc[Main] = "find" => ~listed /\ dying[Main] = {}

\* A step that creates no bag, takes no reference and keeps the entry.
LEMMA ReferencesDropped ==
    ASSUME TypeOK, OneThread, role = "Client", UNCHANGED <<entry, listed, wasBeingErased>>,
           Drop(Main), pc[Main] # "find", pc'[Main] \notin {"find", "erasing"},
           pc'[Sync] = pc[Sync], ref'[Sync] = ref[Sync],
           \A b \in Bag : Alive(b)' => Alive(b)
    PROVE  OneThread'
<1> USE DEF OneThread, Erasing
<1>1. dying'[Sync] = {}
  BY DistinctAssumption DEF Drop, TypeOK, Thread
<1>2. ASSUME NEW b \in Bag, Alive(b)' PROVE b = entry' /\ ~Erasing'
  <2>1. Alive(b) /\ b = entry /\ ~Erasing
    BY <1>2
  <2>2. Dropped(Main) = {}
    <3> SUFFICES ASSUME NEW c \in Dropped(Main) PROVE FALSE
      OBVIOUS
    <3>1. c \in Bag /\ Alive(c) /\ ~Alive(c)'
      BY DEF Dropped
    <3>2. c = b
      BY <2>1, <3>1
    <3> QED BY <1>2, <3>1, <3>2
  <2>3. dying'[Main] = {}
    BY <2>1, <2>2 DEF Drop, TypeOK, Thread
  <2> QED BY <2>1, <2>3
<1> QED BY <1>1, <1>2

LEMMA OneThreadRegistering ==
    ASSUME TypeOK, RefsMatch, OneThread, role = "Client",
           \/ EnsureStateBag \/ HandlePacket
           \/ \E t \in Thread : \/ TakeOffList(t) \/ RegisterStateBag(t)
                                \/ SetStateBag(t) \/ Retry(t)
                                \/ PreCreateStateBag(t) \/ Release(t)
    PROVE  OneThread'
<1> USE DistinctAssumption DEF Become, registry, entities, threads
<1>0. /\ Main \in Thread /\ Sync \in Thread /\ PacketThread = Main
      /\ \A t \in Thread : pc[t] # "idle" => t = Main
  BY DEF Thread, PacketThread, OneThread
<1>1. CASE EnsureStateBag
  <2>1. \A b \in Bag : Alive(b)' => Alive(b)
    BY <1>1 DEF EnsureStateBag, Alive
  <2> QED BY <1>0, <1>1, <2>1 DEF EnsureStateBag, Idle, OneThread, Erasing, TypeOK
<1>2. CASE HandlePacket
  <2>1. UNCHANGED <<role, entry, listed, dying, wasBeingErased>>
    BY <1>2 DEF HandlePacket
  <2>2. pc[Main] = "idle" /\ dying[Main] = {} /\ pc'[Main] \in {"holding", "register"}
    BY <1>0, <1>2 DEF HandlePacket, Idle, TypeOK
  <2>3. pc'[Sync] = pc[Sync] /\ ref'[Sync] = ref[Sync]
    BY <1>0, <1>2 DEF HandlePacket, TypeOK
  <2>4. ASSUME NEW b \in Bag, Alive(b)' PROVE Alive(b)
    <3>1. CASE UNCHANGED ref
      BY <1>2, <2>4, <3>1 DEF HandlePacket, Alive
    <3>2. CASE Found /\ ref' = [ref EXCEPT ![Main] = entry]
      BY <1>0, <1>2, <2>4, <3>2 DEF HandlePacket, Alive, Found, TypeOK
    <3> QED BY <1>0, <1>2, <3>1, <3>2 DEF HandlePacket
  <2> QED BY <2>1, <2>2, <2>3, <2>4 DEF OneThread, Erasing
<1>3. ASSUME NEW t \in Thread, TakeOffList(t) PROVE OneThread'
  <2>1. t = Main
    BY <1>0, <1>3 DEF TakeOffList
  <2>2. \A b \in Bag : Alive(b)' => Alive(b)
    BY <1>3 DEF TakeOffList, Alive
  <2> QED BY <1>0, <1>3, <2>1, <2>2 DEF TakeOffList, OneThread, Erasing, TypeOK
<1>4. ASSUME NEW t \in Thread, RegisterStateBag(t) PROVE OneThread'
  <2>1. t = Main /\ pc[Main] = "find" /\ ref[Main] = None /\ ~listed /\ dying[Main] = {}
    BY <1>0, <1>4 DEF RegisterStateBag, RefsMatch, OneThread
  <2>2. ~Erasing' /\ pc'[Sync] = "idle" /\ ref'[Sync] = None /\ dying'[Sync] = {}
    BY <1>0, <1>4, <2>1 DEF RegisterStateBag, OneThread, Erasing, TypeOK
  <2>3. ASSUME NEW b \in Bag, Alive(b)' PROVE b = entry'
    <3>1. CASE ~wasBeingErased[t] /\ Found
      <4>1. Alive(b)
        BY <1>4, <2>1, <2>3, <3>1 DEF RegisterStateBag, Alive, Found, TypeOK
      <4> QED BY <1>4, <3>1, <4>1 DEF RegisterStateBag, OneThread
    <3>2. CASE wasBeingErased[t] \/ ~Found
      <4>1. ~Alive(b)
        BY <2>1, <3>2 DEF OneThread, Erasing, Found, TypeOK
      <4>2. b = NewBag
        BY <1>4, <2>1, <2>3, <3>2, <4>1 DEF RegisterStateBag, Alive, TypeOK
      <4> QED BY <1>4, <3>2, <4>2 DEF RegisterStateBag
    <3> QED BY <3>1, <3>2
  <2>4. pc'[Main] = "made"
    BY <1>0, <1>4, <2>1 DEF RegisterStateBag, TypeOK
  <2> QED BY <2>2, <2>3, <2>4 DEF OneThread
<1>5. ASSUME NEW t \in Thread, SetStateBag(t) PROVE OneThread'
  <2>1. t = Main
    BY <1>0, <1>5 DEF SetStateBag
  <2>2. \A b \in Bag : Alive(b)' => Alive(b)
    BY <1>0, <1>5, <2>1 DEF SetStateBag, Alive, TypeOK
  <2> QED BY <1>0, <1>5, <2>1, <2>2, ReferencesDropped DEF SetStateBag, TypeOK
<1>6. ASSUME NEW t \in Thread, Retry(t) PROVE OneThread'
  <2>1. t = Main /\ dying[Main] = {} /\ pc[Main] = "retry"
    BY <1>0, <1>6 DEF Retry
  <2>2. ASSUME NEW b \in Bag, Alive(b)' PROVE Alive(b)
    BY <1>0, <1>6, <2>1, <2>2 DEF Retry, Alive, Found, TypeOK
  <2>3. pc'[Main] \in {"holding", "idle"} /\ pc'[Sync] = pc[Sync] /\ ref'[Sync] = ref[Sync]
    BY <1>0, <1>6, <2>1 DEF Retry, TypeOK
  <2> QED BY <1>6, <2>1, <2>2, <2>3 DEF Retry, OneThread, Erasing
<1>7. ASSUME NEW t \in Thread, PreCreateStateBag(t) PROVE OneThread'
  <2>1. t = Main
    BY <1>0, <1>7 DEF PreCreateStateBag
  <2>2. \A b \in Bag : Alive(b)' => Alive(b)
    BY <1>7 DEF PreCreateStateBag, Alive
  <2> QED BY <1>0, <1>7, <2>1, <2>2 DEF PreCreateStateBag, OneThread, Erasing, TypeOK
<1>8. ASSUME NEW t \in Thread, Release(t) PROVE OneThread'
  <2>1. t = Main
    BY <1>0, <1>8 DEF Release
  <2>2. \A b \in Bag : Alive(b)' => Alive(b)
    BY <1>0, <1>8, <2>1 DEF Release, Alive, TypeOK
  <2> QED BY <1>0, <1>8, <2>1, <2>2, ReferencesDropped DEF Release, TypeOK
<1> QED BY <1>1, <1>2, <1>3, <1>4, <1>5, <1>6, <1>7, <1>8

LEMMA OneThreadOther ==
    ASSUME TypeOK, RefsMatch, OneThread, role = "Client",
           \/ TakeList \/ EraseEntries \/ Reset \/ RemoveEntity
           \/ \E e \in Entity : CreateEntity(e) \/ \E t \in Thread : DestroyEntity(e, t)
           \/ \E t \in Thread : UnregisterStateBag(t)
    PROVE  OneThread'
<1> USE DistinctAssumption DEF Become, registry, entities, threads
<1>0. Main \in Thread /\ Sync \in Thread
  BY DEF Thread
<1>1. CASE TakeList
  <2>1. \A b \in Bag : Alive(b)' => Alive(b)
    BY <1>1 DEF TakeList, Alive
  <2> QED BY <1>0, <1>1, <2>1 DEF TakeList, Idle, OneThread, Erasing, TypeOK
<1>2. CASE EraseEntries
  <2>1. \A b \in Bag : ~Alive(b)
    BY <1>2 DEF EraseEntries, OneThread, Erasing
  <2>2. \A b \in Bag : ~Alive(b)'
    BY <1>2, <2>1 DEF EraseEntries, Alive
  <2> QED BY <1>0, <1>2, <2>2 DEF EraseEntries, OneThread, TypeOK
<1>3. CASE Reset
  <2>1. \A t \in Thread : ref'[t] = None
    BY <1>0, <1>3 DEF Reset, Idle, RefsMatch, OneThread, Thread
  <2>2. \A b \in Bag : ~Alive(b)'
    BY <1>3, <2>1 DEF Reset, Alive
  <2>3. dying'[Sync] = {}
    BY <1>0, <1>3 DEF Reset, Drop, OneThread, TypeOK
  <2> QED BY <1>0, <1>3, <2>1, <2>2, <2>3 DEF Reset, Idle, OneThread
<1>4. CASE RemoveEntity \/ \E e \in Entity : CreateEntity(e)
  <2>1. \A b \in Bag : Alive(b)' => Alive(b)
    BY <1>4 DEF RemoveEntity, CreateEntity, Alive
  <2> QED BY <1>4, <2>1 DEF RemoveEntity, CreateEntity, OneThread, Erasing
<1>5. ASSUME NEW e \in Entity, NEW t \in Thread, DestroyEntity(e, t) PROVE OneThread'
  <2>1. t = Main /\ pc[Main] = "idle"
    BY <1>5 DEF DestroyEntity, Idle
  <2>2. \A b \in Bag : Alive(b)' => Alive(b)
    BY <1>5 DEF DestroyEntity, Alive, TypeOK
  <2> QED BY <1>5, <2>1, <2>2, ReferencesDropped DEF DestroyEntity
<1>6. ASSUME NEW t \in Thread, UnregisterStateBag(t) PROVE OneThread'
  <2>1. t = Main /\ dying[Main] # {}
    BY <1>6 DEF UnregisterStateBag, OneThread, Thread
  <2>2. \A b \in Bag : ~Alive(b)
    BY <2>1 DEF OneThread, Erasing
  <2>3. \A b \in Bag : ~Alive(b)'
    BY <1>6, <2>2 DEF UnregisterStateBag, Alive
  <2> QED BY <1>0, <1>6, <2>1, <2>3 DEF UnregisterStateBag, OneThread, TypeOK
<1> QED BY <1>1, <1>2, <1>3, <1>4, <1>5, <1>6

LEMMA OneThreadStep ==
    TypeOK /\ RefsMatch /\ OneThread /\ [Next]_vars => OneThread'
<1> SUFFICES ASSUME TypeOK, RefsMatch, OneThread, [Next]_vars PROVE OneThread'
  OBVIOUS
<1>1. CASE UNCHANGED vars
  <2>1. \A b \in Bag : Alive(b)' => Alive(b)
    BY <1>1 DEF vars, registry, entities, threads, Alive
  <2> QED BY <1>1, <2>1 DEF vars, registry, entities, threads, OneThread, Erasing
<1>2. CASE Next /\ role = "Client"
  BY <1>2, OneThreadRegistering, OneThreadOther DEF Next
<1>3. CASE Next /\ role # "Client"
  <2>1. role' = role
    BY <1>3 DEF Next, EnsureStateBag, HandlePacket, TakeList, EraseEntries, Reset,
                RemoveEntity, CreateEntity, DestroyEntity, TakeOffList,
                RegisterStateBag, SetStateBag, PreCreateStateBag, Retry, Release,
                UnregisterStateBag, registry
  <2> QED BY <1>3, <2>1 DEF OneThread
<1> QED BY <1>1, <1>2, <1>3

LEMMA OneThreadInit == Init => OneThread
<1>1. Init => \A b \in Bag : ~Alive(b)
  BY DistinctAssumption DEF Init, Alive
<1> QED BY <1>1 DEF Init, OneThread, Thread

\* A client, which has one thread for all of this, always finds the bag an entity holds:
\* no destructor, tick or reset of it takes a bag off the map that is still in use.
THEOREM ClientFindsItsBags == Spec => []HeldIsFound
<1>1. TypeOK /\ OneThread => HeldIsFound
  BY DEF TypeOK, OneThread, HeldIsFound, Alive
<1> QED BY <1>1, OneThreadInit, OneThreadStep, TypeInv, PTL DEF Spec
=============================================================================
