--------------------------- MODULE ResourceLifecycle ---------------------------
(***************************************************************************)
(* Starting and stopping the resources of a server (Resource.cpp, the      *)
(* dependency loader and the handlers of the server).  Everything happens  *)
(* on the main thread, but not one after the other: starting a resource    *)
(* starts its dependencies and whoever waited for it, stopping it stops    *)
(* its dependants, and the scripts whose events are triggered meanwhile    *)
(* may start and stop any resource, also the ones that are just being      *)
(* started or stopped.  The stack holds the calls of Start and Stop that   *)
(* have not returned.                                                      *)
(*                                                                         *)
(* Left out: constraints on the server's version, resources provided under *)
(* another name, adding and removing resources, resources that only the    *)
(* server runs.                                                            *)
(***************************************************************************)
EXTENDS Integers, SequencesExt

CONSTANTS
    Resource,
    Graphs,         \* bound: what may depend on what, as sets of <<resource, dependency>>
    MaxCalls        \* bound: calls of Start and Stop made by scripts

ASSUME GraphsAssumption == Graphs \subseteq SUBSET (Resource \X Resource)
ASSUME CallsAssumption == MaxCalls \in Nat

VARIABLES
    depends,        \* the metadata of the resources
    state,          \* m_state
    stack,          \* the calls that have not returned, the innermost one last
    returned,       \* what the last call returned
    dependants,     \* resourceDependants: <<dependency, dependant>>
    waiting,        \* resourceDependencies: <<dependency, resource that waits for it>>
    running,        \* how many times the resource's scripts run
    announced,      \* g_resourceStartOrder, what clients are told to start: how often each is on it
    before,         \* ... and who stands before whom
    calls,          \* made by scripts
    crossed,        \* history: resources whose calls met one that had not returned
    relied          \* history: <<dependency, resource>> that took an unfinished one

maps == <<dependants, waiting>>
order == <<announced, before>>
effects == <<running, order>>
history == <<crossed, relied>>
vars == <<depends, state, stack, returned, maps, effects, calls, history>>

-----------------------------------------------------------------------------
(* The stack *)

Idle == stack = <<>>
Top == Last(stack)
At(op, step) == ~Idle /\ Top.op = op /\ Top.at = step
OnStack(r) == \E i \in DOMAIN stack : stack[i].of = r

\* The innermost call, at a step where it has resources left to go through.
Moved(step, todo) == Append(Front(stack), [Top EXCEPT !.at = step, !.todo = todo])
MoveTo(step, todo) == stack' = Moved(step, todo) /\ UNCHANGED <<state, returned>>

Call(below, op, r, step, todo) ==
    stack' = Append(below, [op |-> op, of |-> r, at |-> step, todo |-> todo])

\* A call returns, and leaves its resource in a state.
Return(below, r, to, ok) ==
    /\ stack' = below
    /\ returned' = [of |-> r, ok |-> ok]
    /\ state' = [state EXCEPT ![r] = to]

\* A start from the beginning, unless it crosses another call, sets things right.
Begin(r) ==
    /\ crossed' = IF OnStack(r) THEN crossed \cup {r} ELSE crossed \ {r}
    /\ relied' = {p \in relied : p[2] # r}
Cross(r) ==
    /\ crossed' = IF OnStack(r) THEN crossed \cup {r} ELSE crossed
    /\ UNCHANGED relied

\* Start, up to its first handler.
Start(r, below) ==
    \/ /\ state[r] = "started"
       /\ Return(below, r, "started", TRUE)
       /\ UNCHANGED history
    \/ /\ state[r] = "starting"
       /\ Call(below, "start", r, "filter", {})
       /\ Cross(r)
       /\ UNCHANGED <<state, returned>>
    \/ /\ state[r] = "stopped"
       /\ Call(below, "start", r, "starting", {})
       /\ state' = [state EXCEPT ![r] = "starting"]
       /\ Begin(r)
       /\ UNCHANGED returned

\* Stop, up to its first handler, which goes through a copy.
Stop(r, below) ==
    \/ /\ state[r] = "stopped"
       /\ Return(below, r, "stopped", TRUE)
       /\ UNCHANGED history
    \/ /\ state[r] # "stopped"
       /\ Call(below, "stop", r, "dependants", {x \in Resource \ {r} : <<r, x>> \in dependants})
       /\ Cross(r)
       /\ UNCHANGED <<state, returned>>

Init ==
    /\ depends \in Graphs
    /\ state = [r \in Resource |-> "stopped"]
    /\ stack = <<>>
    /\ returned = [of |-> CHOOSE r \in Resource : TRUE, ok |-> TRUE]
    /\ dependants = {} /\ waiting = {}
    /\ running = [r \in Resource |-> 0]
    /\ announced = [r \in Resource |-> 0] /\ before = {}
    /\ calls = 0
    /\ crossed = {} /\ relied = {}

-----------------------------------------------------------------------------
(* The console and the scripts *)

StartCommand(r) ==
    /\ Idle
    /\ Start(r, stack)
    /\ UNCHANGED <<depends, maps, effects, calls>>

StopCommand(r) ==
    /\ Idle
    /\ Stop(r, stack)
    /\ UNCHANGED <<depends, maps, effects, calls>>

\* Scripts are loaded, asked whether and told to build, and their handlers called, at
\* these steps.
ScriptsCalled ==
    \/ At("start", "starting") \/ (At("start", "dependencies") /\ Top.todo = {})
    \/ At("start", "event") \/ At("stop", "event")

\* A script of s calls START_RESOURCE, or STOP_RESOURCE of another resource.
ScriptCall(s, r) ==
    /\ ScriptsCalled /\ running[s] > 0 /\ calls < MaxCalls
    /\ calls' = calls + 1
    /\ Start(r, stack) \/ (s # r /\ Stop(r, stack))
    /\ UNCHANGED <<depends, maps, effects>>

-----------------------------------------------------------------------------
(* Start, handler by handler *)

\* Mutant: a start that fails forgets to put the state back.
FailStarting == Return(Front(stack), Top.of, state[Top.of], FALSE)

\* A handler returned false.
Fail ==
    Return(Front(stack), Top.of, IF state[Top.of] = "started" THEN "started" ELSE "stopped", FALSE)

\* onResourceStarting, which a script may cancel.
Starting ==
    /\ At("start", "starting")
    /\ \/ MoveTo("dependencies", {d \in Resource : <<Top.of, d>> \in depends})
       \/ (\E s \in Resource : running[s] > 0) /\ Fail
    /\ UNCHANGED <<depends, maps, effects, calls, history>>

\* Mutant: the dependency does not get to know its dependant.
LinkNot(d) == UNCHANGED dependants

\* When the dependency is stopped, the dependant will be.
Link(d) == dependants' = dependants \cup {<<d, Top.of>>}

Rely(d) == relied' = IF OnStack(d) THEN relied \cup {<<d, Top.of>>} ELSE relied

\* A dependency that is there, or on its way, will do.
TakeDependency ==
    /\ At("start", "dependencies")
    /\ \E d \in Top.todo :
          /\ state[d] # "stopped"
          /\ Link(d)
          /\ MoveTo("dependencies", Top.todo \ {d})
          /\ Rely(d)
    /\ UNCHANGED <<depends, waiting, effects, calls, crossed>>

\* Another one is started first.
StartDependency ==
    /\ At("start", "dependencies")
    /\ \E d \in Top.todo :
          /\ state[d] = "stopped"
          /\ Link(d)
          /\ Start(d, Moved("awaiting", Top.todo \ {d}))
    /\ UNCHANGED <<depends, waiting, effects, calls>>

\* It will be started when the dependency is.
Wait(d) == waiting' = waiting \cup {<<d, Top.of>>}

\* Mutant: a dependency that failed is started over.
DependencyRetried ==
    /\ At("start", "awaiting")
    /\ MoveTo("dependencies", IF returned.ok THEN Top.todo ELSE Top.todo \cup {returned.of})
    /\ UNCHANGED <<depends, maps, effects, calls, history>>

\* The start of the dependency has returned.
DependencyReturned ==
    /\ At("start", "awaiting")
    /\ \/ /\ returned.ok
          /\ MoveTo("dependencies", Top.todo)
          /\ Rely(returned.of)
          /\ UNCHANGED waiting
       \/ /\ ~returned.ok
          /\ Wait(returned.of)
          /\ Fail
          /\ UNCHANGED relied
    /\ UNCHANGED <<depends, dependants, effects, calls, crossed>>

\* A dependency that does not exist, wherever it comes in the list, is not waited for.
MissDependency ==
    /\ At("start", "dependencies")
    /\ Fail
    /\ UNCHANGED <<depends, maps, effects, calls, history>>

\* The build tasks: none, one that starts the resource anew when it is finished, or
\* one that is finished at once.
Build ==
    /\ At("start", "dependencies") /\ Top.todo = {}
    /\ \/ MoveTo("filter", {}) /\ UNCHANGED history
       \/ Fail /\ UNCHANGED history
       \/ Start(Top.of, Moved("built", {}))
    /\ UNCHANGED <<depends, maps, effects, calls>>

Built ==
    /\ At("start", "built")
    /\ Fail
    /\ UNCHANGED <<depends, maps, effects, calls, history>>

\* OnStart: resources for another game end here, and the others load their scripts.
LoadScripts ==
    /\ At("start", "filter")
    /\ \/ Fail /\ UNCHANGED running
       \/ MoveTo("event", {}) /\ running' = [running EXCEPT ![Top.of] = @ + 1]
    /\ UNCHANGED <<depends, maps, order, calls, history>>

\* onResourceStart; the next handler goes through a copy of whoever waits.
StartEvent ==
    /\ At("start", "event")
    /\ MoveTo("waiting", {x \in Resource : <<Top.of, x>> \in waiting})
    /\ UNCHANGED <<depends, maps, effects, calls, history>>

StartWaiting ==
    /\ At("start", "waiting")
    /\ \E x \in Top.todo : Start(x, Moved("waiting", Top.todo \ {x}))
    /\ UNCHANGED <<depends, maps, effects, calls>>

\* push_back on the list.
Announce(r) ==
    /\ announced' = [announced EXCEPT ![r] = @ + 1]
    /\ before' = before \cup ({x \in Resource : announced[x] > 0} \X {r})

\* Mutant: whoever waited is not forgotten.
StartedAwaited ==
    /\ At("start", "waiting") /\ Top.todo = {}
    /\ Announce(Top.of)
    /\ Return(Front(stack), Top.of, "started", TRUE)
    /\ UNCHANGED <<depends, maps, running, calls, history>>

\* Nobody waits any more, the clients are told, and Start returns.
Started ==
    /\ At("start", "waiting") /\ Top.todo = {}
    /\ waiting' = {p \in waiting : p[1] # Top.of}
    /\ Announce(Top.of)
    /\ Return(Front(stack), Top.of, "started", TRUE)
    /\ UNCHANGED <<depends, dependants, running, calls, history>>

-----------------------------------------------------------------------------
(* Stop, handler by handler *)

StopDependant ==
    /\ At("stop", "dependants")
    /\ \E x \in Top.todo : Stop(x, Moved("dependants", Top.todo \ {x}))
    /\ UNCHANGED <<depends, maps, effects, calls>>

DependantsStopped ==
    /\ At("stop", "dependants") /\ Top.todo = {}
    /\ dependants' = {p \in dependants : p[1] # Top.of}
    /\ MoveTo("event", {})
    /\ UNCHANGED <<depends, waiting, effects, calls, history>>

\* remove_if on the list.
Withdraw(r) ==
    /\ announced' = [announced EXCEPT ![r] = 0]
    /\ before' = {p \in before : r \notin {p[1], p[2]}}

\* Mutants: the scripts go on, or the clients are not told.
StoppedRunning ==
    /\ At("stop", "event")
    /\ Withdraw(Top.of)
    /\ Return(Front(stack), Top.of, "stopped", TRUE)
    /\ UNCHANGED <<depends, maps, running, calls, history>>
StoppedUntold ==
    /\ At("stop", "event")
    /\ running' = [running EXCEPT ![Top.of] = 0]
    /\ Return(Front(stack), Top.of, "stopped", TRUE)
    /\ UNCHANGED <<depends, maps, order, calls, history>>

\* After onResourceStop the clients are told, the scripts are destroyed, and Stop returns.
Stopped ==
    /\ At("stop", "event")
    /\ Withdraw(Top.of)
    /\ running' = [running EXCEPT ![Top.of] = 0]
    /\ Return(Front(stack), Top.of, "stopped", TRUE)
    /\ UNCHANGED <<depends, maps, calls, history>>

Handler ==
    \/ Starting \/ TakeDependency \/ StartDependency \/ DependencyReturned \/ MissDependency
    \/ Build \/ Built \/ LoadScripts \/ StartEvent \/ StartWaiting \/ Started
    \/ StopDependant \/ DependantsStopped \/ Stopped

Next ==
    \/ Handler
    \/ \E r \in Resource : StartCommand(r) \/ StopCommand(r)
    \/ \E s, r \in Resource : ScriptCall(s, r)

Spec == Init /\ [][Next]_vars

\* The main thread gets on with the call it is in.
FairSpec == Spec /\ WF_vars(Handler)
-----------------------------------------------------------------------------
(* Properties *)

Frame == [op : {"start", "stop"}, of : Resource, todo : SUBSET Resource,
          at : {"starting", "dependencies", "awaiting", "built", "filter", "event", "waiting",
                "dependants"}]

TypeOK ==
    /\ depends \in Graphs
    /\ state \in [Resource -> {"stopped", "starting", "started"}]
    /\ stack \in Seq(Frame)
    /\ returned \in [of : Resource, ok : BOOLEAN]
    /\ dependants \subseteq Resource \X Resource /\ waiting \subseteq Resource \X Resource
    /\ running \in [Resource -> Nat]
    /\ announced \in [Resource -> Nat] /\ before \subseteq Resource \X Resource
    /\ calls \in 0..MaxCalls
    /\ crossed \subseteq Resource /\ relied \subseteq Resource \X Resource

\* No resource is left half-way by the calls nested in each other's handlers.
NoneLeftStarting == Idle => \A r \in Resource : state[r] # "starting"

\* A started resource has its scripts running and is announced to clients, once each,
\* and a stopped one is neither, unless a call met one of the same resource.
StateIsTrue ==
    Idle => \A r \in Resource \ crossed :
                LET times == IF state[r] = "started" THEN 1 ELSE 0 IN
                running[r] = times /\ announced[r] = times

\* The dependencies of a started resource are started, whatever is stopped meanwhile,
\* unless the resource was stopped while it was starting or took a dependency that was
\* being started or stopped.
DependenciesStarted ==
    Idle => \A p \in depends :
                state[p[1]] = "started" /\ p[1] \notin crossed /\ <<p[2], p[1]>> \notin relied
                    => state[p[2]] = "started"

\* A resource that failed for want of a dependency waits for one that is not started
\* yet, so that its start will come.
NobodyWaitsInVain ==
    Idle => \A p \in waiting : state[p[1]] # "started" \/ p[1] \in crossed

\* Clients are told to start a dependency before its dependants, unless one was started
\* on the strength of a dependency that was not there yet.
AnnouncedInOrder ==
    \A p \in before \cap depends :
        {p[1], p[2]} \cap crossed = {} => <<p[2], p[1]>> \in relied

\* Where dependencies are not circular, every command comes to an end.
EventuallyIdle == []<>Idle
=============================================================================
