-------------------------- MODULE StateBagRegistry --------------------------
(***************************************************************************)
(* The registry of state bags by name (StateBagComponentImpl).  The map    *)
(* keeps weak references; whoever registers a bag holds it.  A bag whose   *)
(* last reference is dropped lists its name for erasure, and a tick of the *)
(* main thread erases the entries of the listed names.                     *)
(*                                                                         *)
(* Names do not touch each other, so one is modelled: "entity:N", whose    *)
(* bag is held by the entity that has the object id N, or "global", which  *)
(* one holder keeps, an Entity too.  The map and the erasure list have a   *)
(* lock each, and a thread that has let one go can be overtaken before it  *)
(* takes the other.  A client does all of this on one thread; a server     *)
(* handles packets on the thread Sync.                                     *)
(***************************************************************************)
CONSTANTS
    Main, Sync,     \* the threads
    Entity,         \* entities that have the object id one after another
    Bag,            \* bound: bags that exist at a time
    None            \* no bag, no entity

Thread == {Main, Sync}
State == {"idle", "register", "find", "made", "holding", "retry", "erasing"}
Purpose == {"ensure", "packet", "precreate"}

ASSUME DistinctAssumption == Main # Sync /\ None \notin Bag \cup Entity

VARIABLES
    role,           \* m_role: "Server" or "Client"
    global,         \* the name is "global"
    entry,          \* the entry of m_stateBags, a weak reference
    listed,         \* the name is in m_erasureList
    preCreated,     \* m_preCreatedStateBags
    current,        \* the entity that has the object id
    bag,            \* the bag an entity holds
    pc,             \* what each thread is doing
    purpose,        \* and what it registers the bag for
    entity,         \* the entity it works on
    ref,            \* the bag it holds meanwhile
    wasBeingErased, \* its local variable of RegisterStateBag
    dying           \* bags whose destructor it is about to run

registry == <<role, global, entry, listed, preCreated>>
entities == <<current, bag>>
threads == <<pc, purpose, entity, ref, wasBeingErased, dying>>
vars == <<registry, entities, threads>>

TypeOK ==
    /\ role \in {"Server", "Client"} /\ global \in BOOLEAN
    /\ entry \in Bag \cup {None}
    /\ listed \in BOOLEAN
    /\ preCreated \subseteq Bag
    /\ current \in Entity \cup {None}
    /\ bag \in [Entity -> Bag \cup {None}]
    /\ pc \in [Thread -> State] /\ purpose \in [Thread -> Purpose]
    /\ entity \in [Thread -> Entity \cup {None}]
    /\ ref \in [Thread -> Bag \cup {None}]
    /\ wasBeingErased \in [Thread -> BOOLEAN]
    /\ dying \in [Thread -> SUBSET Bag]

-----------------------------------------------------------------------------
(* Helpers *)

\* Somebody holds bag b.
Alive(b) ==
    \/ b \in preCreated
    \/ \E e \in Entity : bag[e] = b
    \/ \E t \in Thread : ref[t] = b

\* GetStateBag finds a bag.
Found == entry # None /\ Alive(entry)

\* What make_shared can return: bags that do not exist.  Which one does not matter.
Unused == {b \in Bag : ~Alive(b) /\ b # entry /\ \A t \in Thread : b \notin dying[t]}
NewBag == CHOOSE b \in Bag : b \in Unused

Idle(t) == pc[t] = "idle" /\ dying[t] = {} /\ (role = "Client" => t = Main)

\* Packets come in on the sync thread of a server.
PacketThread == IF role = "Server" THEN Sync ELSE Main

\* Thread t drops references and destroys what nobody holds any more.
Dropped(t) == {b \in Bag : Alive(b) /\ ~Alive(b)'}
Drop(t) == dying' = [dying EXCEPT ![t] = @ \cup Dropped(t)]

Become(t, s) == pc' = [pc EXCEPT ![t] = s]

-----------------------------------------------------------------------------
(* Registering *)

\* Mutant: the name stays on the list.
LeaveOnList(t) ==
    /\ pc[t] = "register" /\ dying[t] = {}
    /\ wasBeingErased' = [wasBeingErased EXCEPT ![t] = listed]
    /\ Become(t, "find")
    /\ UNCHANGED <<registry, entities, purpose, entity, ref, dying>>

\* RegisterStateBag takes the name off the erasure list.
TakeOffList(t) ==
    /\ pc[t] = "register" /\ dying[t] = {}
    /\ wasBeingErased' = [wasBeingErased EXCEPT ![t] = listed]
    /\ listed' = FALSE
    /\ Become(t, "find")
    /\ UNCHANGED <<role, global, entry, preCreated, entities, purpose, entity, ref, dying>>

\* Mutant: the new bag is put into the map only if the name has no entry.
EmplaceStateBag(t) ==
    /\ pc[t] = "find"
    /\ \/ /\ ~wasBeingErased[t] /\ Found
          /\ ref' = [ref EXCEPT ![t] = entry]
          /\ preCreated' = preCreated \ {entry}
          /\ UNCHANGED entry
       \/ /\ wasBeingErased[t] \/ ~Found
          /\ Unused # {}
          /\ entry' = IF entry = None THEN NewBag ELSE entry
          /\ ref' = [ref EXCEPT ![t] = NewBag]
          /\ UNCHANGED preCreated
    /\ Become(t, "made")
    /\ UNCHANGED <<role, global, listed, entities, purpose, entity, wasBeingErased, dying>>

\* It returns the bag that is there, which it disowns, or makes one.
RegisterStateBag(t) ==
    /\ pc[t] = "find"
    /\ \/ /\ ~wasBeingErased[t] /\ Found
          /\ ref' = [ref EXCEPT ![t] = entry]
          /\ preCreated' = preCreated \ {entry}
          /\ UNCHANGED entry
       \/ /\ wasBeingErased[t] \/ ~Found
          /\ Unused # {}
          /\ entry' = NewBag
          /\ ref' = [ref EXCEPT ![t] = NewBag]
          /\ UNCHANGED preCreated
    /\ Become(t, "made")
    /\ UNCHANGED <<role, global, listed, entities, purpose, entity, wasBeingErased, dying>>

\* ENSURE_ENTITY_STATE_BAG on the server; on a client a network object is made
\* known, or the global bag is set up again.
EnsureStateBag ==
    /\ Idle(Main) /\ current # None /\ bag[current] = None
    /\ purpose' = [purpose EXCEPT ![Main] = "ensure"]
    /\ entity' = [entity EXCEPT ![Main] = current]
    /\ Become(Main, "register")
    /\ UNCHANGED <<registry, entities, ref, wasBeingErased, dying>>

\* HandlePacketV2: the first lookup.  A client creates what it does not find, a
\* server does so if there is an entity with this object id, whatever it holds.
\* Neither does so for "global".
HandlePacket ==
    LET t == PacketThread IN
    /\ Idle(t)
    /\ \/ /\ Found
          /\ ref' = [ref EXCEPT ![t] = entry]
          /\ Become(t, "holding")
          /\ UNCHANGED <<purpose, entity>>
       \/ /\ ~Found /\ ~global /\ role = "Client"
          /\ purpose' = [purpose EXCEPT ![t] = "precreate"]
          /\ Become(t, "register")
          /\ UNCHANGED <<entity, ref>>
       \/ /\ ~Found /\ ~global /\ role = "Server" /\ current # None
          /\ purpose' = [purpose EXCEPT ![t] = "packet"]
          /\ entity' = [entity EXCEPT ![t] = current]
          /\ Become(t, "register")
          /\ UNCHANGED ref
    /\ UNCHANGED <<registry, entities, wasBeingErased, dying>>

\* SetStateBag of the entity; the bag it held before is dropped.
SetStateBag(t) ==
    /\ pc[t] = "made" /\ purpose[t] \in {"ensure", "packet"}
    /\ bag' = [bag EXCEPT ![entity[t]] = ref[t]]
    /\ ref' = [ref EXCEPT ![t] = None]
    /\ entity' = [entity EXCEPT ![t] = None]
    /\ UNCHANGED preCreated
    /\ Drop(t)
    /\ Become(t, IF purpose[t] = "packet" THEN "retry" ELSE "idle")
    /\ UNCHANGED <<role, global, entry, listed, current, purpose, wasBeingErased>>

\* "Second attempt, should go through now."
Retry(t) ==
    /\ pc[t] = "retry" /\ dying[t] = {}
    /\ IF Found THEN ref' = [ref EXCEPT ![t] = entry] /\ Become(t, "holding")
       ELSE Become(t, "idle") /\ UNCHANGED ref
    /\ UNCHANGED <<registry, entities, purpose, entity, wasBeingErased, dying>>

PreCreateStateBag(t) ==
    /\ pc[t] = "made" /\ purpose[t] = "precreate"
    /\ preCreated' = preCreated \cup {ref[t]}
    /\ Become(t, "holding")
    /\ UNCHANGED <<role, global, entry, listed, entities, purpose, entity, ref,
                   wasBeingErased, dying>>

\* SetKey is done.
Release(t) ==
    /\ pc[t] = "holding"
    /\ ref' = [ref EXCEPT ![t] = None]
    /\ UNCHANGED <<preCreated, bag>>
    /\ Drop(t)
    /\ Become(t, "idle")
    /\ UNCHANGED <<role, global, entry, listed, current, purpose, entity, wasBeingErased>>

-----------------------------------------------------------------------------
(* Destruction *)

\* Mutant: a destroyed bag is not listed.
UnregisterNothing(t) ==
    \E b \in dying[t] :
        /\ dying' = [dying EXCEPT ![t] = @ \ {b}]
        /\ UNCHANGED <<registry, entities, pc, purpose, entity, ref, wasBeingErased>>

\* The destructor: UnregisterStateBag.
UnregisterStateBag(t) ==
    \E b \in dying[t] :
        /\ dying' = [dying EXCEPT ![t] = @ \ {b}]
        /\ listed' = TRUE
        /\ UNCHANGED <<role, global, entry, preCreated, entities, pc, purpose, entity,
                       ref, wasBeingErased>>

\* The tick moves the list away ...
TakeList ==
    /\ Idle(Main) /\ listed
    /\ listed' = FALSE
    /\ Become(Main, "erasing")
    /\ UNCHANGED <<role, global, entry, preCreated, entities, purpose, entity, ref,
                   wasBeingErased, dying>>

\* ... and erases the entries of its names.
EraseEntries ==
    /\ pc[Main] = "erasing"
    /\ entry' = None
    /\ Become(Main, "idle")
    /\ UNCHANGED <<role, global, listed, preCreated, entities, purpose, entity, ref,
                   wasBeingErased, dying>>

\* A client's Reset when its session is over.  The game has destroyed its objects by
\* then, and m_trackedObjects is empty.  The global bag outlives the session and is
\* unset here, before EnsureStateBag registers it again.
Reset ==
    /\ role = "Client" /\ Idle(Main)
    /\ global \/ \A e \in Entity : bag[e] = None
    /\ entry' = None /\ preCreated' = {}
    /\ bag' = [e \in Entity |-> None]
    /\ UNCHANGED ref
    /\ Drop(Main)
    /\ UNCHANGED <<role, global, listed, current, pc, purpose, entity, wasBeingErased>>

-----------------------------------------------------------------------------
(* Entities *)

\* An entity gets the object id.
CreateEntity(e) ==
    /\ current = None /\ bag[e] = None /\ \A t \in Thread : entity[t] # e
    /\ current' = e
    /\ UNCHANGED <<registry, bag, threads>>

\* It loses the id; threads may still work on it.  The global bag's holder stays.
RemoveEntity ==
    /\ current # None /\ ~global /\ (role = "Client" => Idle(Main))
    /\ current' = None
    /\ UNCHANGED <<registry, bag, threads>>

\* The last reference to an entity without an id is dropped, by whatever thread.
DestroyEntity(e, t) ==
    /\ e # current /\ bag[e] # None /\ Idle(t) /\ \A u \in Thread : entity[u] # e
    /\ bag' = [bag EXCEPT ![e] = None]
    /\ UNCHANGED <<preCreated, ref>>
    /\ Drop(t)
    /\ UNCHANGED <<role, global, entry, listed, current, pc, purpose, entity,
                   wasBeingErased>>

-----------------------------------------------------------------------------
Init ==
    /\ role \in {"Server", "Client"} /\ global \in BOOLEAN
    /\ entry = None /\ listed = FALSE /\ preCreated = {}
    /\ current = None /\ bag = [e \in Entity |-> None]
    /\ pc = [t \in Thread |-> "idle"] /\ purpose = [t \in Thread |-> "ensure"]
    /\ entity = [t \in Thread |-> None] /\ ref = [t \in Thread |-> None]
    /\ wasBeingErased = [t \in Thread |-> FALSE] /\ dying = [t \in Thread |-> {}]

Next ==
    \/ EnsureStateBag \/ HandlePacket \/ TakeList \/ EraseEntries \/ Reset
    \/ RemoveEntity
    \/ \E e \in Entity : CreateEntity(e) \/ \E t \in Thread : DestroyEntity(e, t)
    \/ \E t \in Thread :
          \/ TakeOffList(t) \/ RegisterStateBag(t)
          \/ SetStateBag(t) \/ PreCreateStateBag(t) \/ Retry(t) \/ Release(t)
          \/ UnregisterStateBag(t)

Spec == Init /\ [][Next]_vars

\* Threads finish what they do, and the main thread goes on ticking.
Fairness ==
    /\ WF_vars(EraseEntries) /\ WF_vars(TakeList)
    /\ \A t \in Thread :
          /\ WF_vars(TakeOffList(t)) /\ WF_vars(RegisterStateBag(t))
          /\ WF_vars(SetStateBag(t)) /\ WF_vars(PreCreateStateBag(t))
          /\ WF_vars(Retry(t)) /\ WF_vars(Release(t)) /\ WF_vars(UnregisterStateBag(t))

FairSpec == Spec /\ Fairness

-----------------------------------------------------------------------------
(* Properties *)

\* The entry of a destroyed bag is on its way out, whoever destroyed the bag and
\* whatever the threads do meanwhile: it is listed, or its destructor is about to list
\* it, or the tick is about to erase it, or a registration is about to replace it.
ExpiredIsListed ==
    entry # None /\ ~Alive(entry) =>
        \/ listed \/ pc[Main] = "erasing"
        \/ \E t \in Thread : entry \in dying[t]
        \/ \E t \in Thread : pc[t] = "find" /\ wasBeingErased[t]

\* On a client, where one thread does it all, the bag an entity holds is the one
\* its name leads to: no late erasure takes it off the map.
HeldIsFound ==
    role = "Client" /\ pc[Main] = "idle" /\ dying[Main] = {}
        => \A e \in Entity : e = current /\ bag[e] # None => entry = bag[e]

\* The map does not fill up with entries of bags that are gone.
ExpiredIsErased == []<>(entry = None \/ Alive(entry))

\* "second attempt, should go through now": once SetEntityStateBag has given the
\* entity a bag, the bag is found while the entity exists.
SecondAttempt ==
    \A t \in Thread : pc[t] = "retry" /\ current # None /\ bag[current] # None => Found
=============================================================================
