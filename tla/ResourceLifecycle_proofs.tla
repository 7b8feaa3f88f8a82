----------------------- MODULE ResourceLifecycle_proofs -----------------------
(***************************************************************************)
(* No nesting of starts and stops leaves a resource half-way, whatever     *)
(* depends on what, circles included, and however often scripts call; no   *)
(* resource waits for one that is there (WaitInv); a started one has its   *)
(* dependencies (DepInv); and what runs, and what clients are told and in  *)
(* which order, is what is started (ShowInv, OrderInv).                    *)
(***************************************************************************)
EXTENDS ResourceLifecycle, TLAPS, SequenceTheorems

Step == {"starting", "dependencies", "awaiting", "built", "filter", "event", "waiting",
         "dependants"}

\* The types that the argument needs.
Types ==
    /\ state \in [Resource -> {"stopped", "starting", "started"}]
    /\ stack \in Seq(Frame)

\* A resource is starting only while a call of its Start has not returned.
Covers(frames) ==
    \A r \in Resource : state[r] = "starting" =>
        \E i \in 1..Len(frames) : frames[i].of = r /\ frames[i].op = "start"

Inv == Types /\ Covers(stack)

-----------------------------------------------------------------------------
(* The stack *)

\* The calls below the innermost one stay as they are.
LEMMA FrontFrames ==
    ASSUME stack \in Seq(Frame), ~Idle
    PROVE  /\ Front(stack) \in Seq(Frame) /\ Len(Front(stack)) = Len(stack) - 1
           /\ Len(stack) \in Nat \ {0}
           /\ \A i \in 1..Len(stack) - 1 : Front(stack)[i] = stack[i]
           /\ Top \in Frame /\ Top = stack[Len(stack)]
  <1>1. Len(stack) \in Nat \ {0}
    BY EmptySeq, LenProperties DEF Idle
  <1>2. stack[Len(stack)] \in Frame
    BY <1>1, ElementOfSeq
  <1>3. /\ Front(stack) \in Seq(Frame) /\ Len(Front(stack)) = Len(stack) - 1
        /\ \A i \in 1..Len(stack) - 1 : Front(stack)[i] = stack[i]
    <2>1. Front(stack) = SubSeq(stack, 1, Len(stack) - 1)
      BY DEF Front
    <2> DEFINE n == Len(stack) - 1
    <2>2. n \in Int /\ n + 1 = Len(stack) /\ n \in Nat /\ 1 \in Int
      BY <1>1
    <2>3. \A i \in 1..n : stack[i] \in Frame
      BY <2>2, ElementOfSeq
    <2> HIDE DEF n
    <2>4. /\ SubSeq(stack, 1, n) \in Seq(Frame)
          /\ Len(SubSeq(stack, 1, n)) = IF 1 <= n THEN n - 1 + 1 ELSE 0
          /\ \A i \in 1..n - 1 + 1 : SubSeq(stack, 1, n)[i] = stack[1 + i - 1]
      BY <2>2, <2>3, SubSeqProperties
    <2>5. Len(SubSeq(stack, 1, n)) = n
      BY <2>2, <2>4
    <2>6. \A i \in 1..n : SubSeq(stack, 1, n)[i] = stack[i]
      <3> SUFFICES ASSUME NEW i \in 1..n PROVE SubSeq(stack, 1, n)[i] = stack[i]
        OBVIOUS
      <3>1. i \in 1..n - 1 + 1 /\ 1 + i - 1 = i
        BY <2>2
      <3> QED
        BY <2>4, <3>1
    <2> QED
      BY <2>1, <2>4, <2>5, <2>6 DEF n
  <1>4. Top = stack[Len(stack)]
    BY DEF Top, Last
  <1> QED
    BY <1>1, <1>2, <1>3, <1>4

\* A step of the innermost call changes neither whose call it is nor which.
LEMMA MovedFrames ==
    ASSUME stack \in Seq(Frame), ~Idle, NEW step \in Step, NEW todo \in SUBSET Resource
    PROVE  /\ Moved(step, todo) \in Seq(Frame) /\ Len(Moved(step, todo)) = Len(stack)
           /\ \A i \in 1..Len(stack) : /\ Moved(step, todo)[i].of = stack[i].of
                                       /\ Moved(step, todo)[i].op = stack[i].op
  <1> DEFINE top == [Top EXCEPT !.at = step, !.todo = todo]
  <1>1. top \in Frame /\ top.of = Top.of /\ top.op = Top.op
    BY FrontFrames DEF Frame, Step
  <1> HIDE DEF top
  <1>2. Moved(step, todo) = Append(Front(stack), top)
    BY DEF Moved, top
  <1> QED
    BY <1>1, <1>2, FrontFrames

LEMMA CallFrames ==
    ASSUME NEW below \in Seq(Frame), NEW op \in {"start", "stop"}, NEW r \in Resource,
           NEW step \in Step, NEW todo \in SUBSET Resource, Call(below, op, r, step, todo)
    PROVE  /\ stack' \in Seq(Frame) /\ Len(stack') = Len(below) + 1
           /\ \A i \in 1..Len(below) : stack'[i] = below[i]
           /\ stack'[Len(below) + 1].of = r /\ stack'[Len(below) + 1].op = op
           /\ stack'[Len(below) + 1].at = step /\ stack'[Len(below) + 1].todo = todo
  <1> DEFINE top == [op |-> op, of |-> r, at |-> step, todo |-> todo]
  <1>1. top \in Frame /\ top.of = r /\ top.op = op /\ top.at = step /\ top.todo = todo
    BY DEF Frame, Step
  <1> HIDE DEF top
  <1>2. stack' = Append(below, top)
    BY DEF Call, top
  <1> QED
    BY <1>1, <1>2

-----------------------------------------------------------------------------
(* Calls and returns *)

LEMMA StartKeeps ==
    ASSUME Types, NEW below \in Seq(Frame), Covers(below), NEW r \in Resource, Start(r, below)
    PROVE  Inv'
  <1>1. CASE state[r] = "started" /\ Return(below, r, "started", TRUE)
    BY <1>1 DEF Return, Types, Covers, Inv
  <1>2. CASE /\ state[r] = "starting" /\ Call(below, "start", r, "filter", {})
             /\ UNCHANGED <<state, returned>>
    <2>1. /\ stack' \in Seq(Frame) /\ Len(stack') = Len(below) + 1
          /\ \A i \in 1..Len(below) : stack'[i] = below[i]
      <3>1. "filter" \in Step /\ "start" \in {"start", "stop"} /\ {} \in SUBSET Resource
        BY DEF Step
      <3> QED
        BY <1>2, <3>1, CallFrames
    <2> QED
      BY <1>2, <2>1, LenProperties DEF Types, Covers, Inv
  <1>3. CASE /\ state[r] = "stopped" /\ Call(below, "start", r, "starting", {})
             /\ state' = [state EXCEPT ![r] = "starting"] /\ UNCHANGED returned
    <2>1. /\ stack' \in Seq(Frame) /\ Len(stack') = Len(below) + 1
          /\ \A i \in 1..Len(below) : stack'[i] = below[i]
          /\ stack'[Len(below) + 1].of = r /\ stack'[Len(below) + 1].op = "start"
      BY <1>3, CallFrames DEF Step
    <2>2. Covers(stack)'
      <3> SUFFICES ASSUME NEW x \in Resource, state'[x] = "starting"
                   PROVE  \E i \in 1..Len(stack') : stack'[i].of = x /\ stack'[i].op = "start"
        BY DEF Covers
      <3>1. CASE x = r
        BY <2>1, <3>1, LenProperties
      <3>2. CASE x # r
        <4>1. PICK i \in 1..Len(below) : below[i].of = x /\ below[i].op = "start"
          BY <1>3, <3>2 DEF Covers, Types
        <4> QED
          BY <2>1, <4>1, LenProperties
      <3> QED
        BY <3>1, <3>2
    <2> QED
      BY <1>3, <2>1, <2>2 DEF Types, Inv
  <1> QED
    BY <1>1, <1>2, <1>3 DEF Start

LEMMA StopKeeps ==
    ASSUME Types, NEW below \in Seq(Frame), Covers(below), NEW r \in Resource, Stop(r, below)
    PROVE  Inv'
  <1>1. CASE state[r] = "stopped" /\ Return(below, r, "stopped", TRUE)
    BY <1>1 DEF Return, Types, Covers, Inv
  <1>2. CASE /\ Call(below, "stop", r, "dependants", {x \in Resource \ {r} : <<r, x>> \in dependants})
             /\ UNCHANGED <<state, returned>>
    <2>1. /\ stack' \in Seq(Frame) /\ Len(stack') = Len(below) + 1
          /\ \A i \in 1..Len(below) : stack'[i] = below[i]
      <3> DEFINE todo == {x \in Resource \ {r} : <<r, x>> \in dependants}
      <3>1. todo \in SUBSET Resource /\ "dependants" \in Step
        BY DEF Step
      <3> HIDE DEF todo
      <3>2. Call(below, "stop", r, "dependants", todo)
        BY <1>2 DEF todo
      <3> QED
        BY <3>1, <3>2, CallFrames
    <2>2. Types'
      BY <1>2, <2>1 DEF Types
    <2>3. Covers(stack)'
      <3> SUFFICES ASSUME NEW x \in Resource, state'[x] = "starting"
                   PROVE  \E i \in 1..Len(stack') : stack'[i].of = x /\ stack'[i].op = "start"
        BY DEF Covers
      <3>1. PICK i \in 1..Len(below) : below[i].of = x /\ below[i].op = "start"
        BY <1>2 DEF Covers
      <3>2. i \in 1..Len(stack') /\ stack'[i] = below[i]
        BY <2>1, LenProperties
      <3> QED
        BY <3>1, <3>2
    <2> QED
      BY <2>2, <2>3 DEF Inv
  <1> QED
    BY <1>1, <1>2 DEF Stop

\* Whichever call returns leaves its resource started or stopped.
LEMMA ReturnKeeps ==
    ASSUME Inv, ~Idle, NEW to \in {"stopped", "started"}, NEW ok,
           Return(Front(stack), Top.of, to, ok)
    PROVE  Inv'
  <1>1. Top \in Frame /\ Top.of \in Resource
    BY FrontFrames DEF Inv, Types, Frame
  <1>2. Types'
    BY <1>1, FrontFrames DEF Inv, Types, Return
  <1>3. Covers(stack)'
    <2> SUFFICES ASSUME NEW x \in Resource, state'[x] = "starting"
                 PROVE  \E i \in 1..Len(stack') : stack'[i].of = x /\ stack'[i].op = "start"
      BY DEF Covers
    <2>1. x # Top.of /\ state[x] = "starting"
      BY <1>1 DEF Return, Inv, Types
    <2>2. PICK i \in 1..Len(stack) : stack[i].of = x /\ stack[i].op = "start"
      BY <2>1 DEF Inv, Covers
    <2>3. i # Len(stack)
      BY <2>1, <2>2, FrontFrames DEF Inv, Types
    <2> QED
      BY <2>2, <2>3, FrontFrames DEF Return, Inv, Types
  <1> QED
    BY <1>2, <1>3 DEF Inv

LEMMA MoveKeeps ==
    ASSUME Inv, ~Idle, NEW step \in Step, NEW todo \in SUBSET Resource
    PROVE  /\ Moved(step, todo) \in Seq(Frame) /\ Covers(Moved(step, todo))
           /\ MoveTo(step, todo) => Inv'
  <1>1. Moved(step, todo) \in Seq(Frame) /\ Covers(Moved(step, todo))
    BY MovedFrames DEF Inv, Types, Covers
  <1>2. ASSUME MoveTo(step, todo) PROVE Inv'
    BY <1>1, <1>2 DEF MoveTo, Inv, Types, Covers
  <1> QED
    BY <1>1, <1>2

LEMMA FailKeeps ==
    ASSUME Inv, ~Idle, Fail
    PROVE  Inv'
  BY ReturnKeeps DEF Fail

-----------------------------------------------------------------------------
(* The handlers *)

LEMMA InnermostCall ==
    ASSUME Inv, ~Idle
    PROVE  Top.of \in Resource /\ Top.todo \subseteq Resource
  BY FrontFrames DEF Inv, Types, Frame

LEMMA HandlerKeeps ==
    ASSUME Inv, Handler
    PROVE  Inv'
  <1> ~Idle
    BY DEF Handler, At, Starting, TakeDependency, StartDependency, DependencyReturned,
           MissDependency, Build, Built, LoadScripts, StartEvent, StartWaiting, Started, StopDependant,
           DependantsStopped, Stopped
  <1> Top.of \in Resource /\ Top.todo \subseteq Resource
    BY InnermostCall
  <1> /\ {d \in Resource : <<Top.of, d>> \in depends} \in SUBSET Resource
      /\ {x \in Resource : <<Top.of, x>> \in waiting} \in SUBSET Resource
      /\ {} \in SUBSET Resource
    OBVIOUS
  <1> /\ "dependencies" \in Step /\ "awaiting" \in Step /\ "built" \in Step /\ "filter" \in Step
      /\ "event" \in Step /\ "waiting" \in Step /\ "dependants" \in Step
    BY DEF Step
  <1>1. CASE Starting
    BY <1>1, MoveKeeps, FailKeeps DEF Starting
  <1>2. CASE TakeDependency
    <2> PICK d \in Top.todo : MoveTo("dependencies", Top.todo \ {d})
      BY <1>2 DEF TakeDependency
    <2> Top.todo \ {d} \in SUBSET Resource
      OBVIOUS
    <2> QED
      BY MoveKeeps
  <1>3. CASE StartDependency
    <2> PICK d \in Top.todo : Start(d, Moved("awaiting", Top.todo \ {d}))
      BY <1>3 DEF StartDependency
    <2> Top.todo \ {d} \in SUBSET Resource
      OBVIOUS
    <2> QED
      BY MoveKeeps, StartKeeps DEF Inv
  <1>4. CASE DependencyReturned
    <2> Top.todo \in SUBSET Resource
      OBVIOUS
    <2> QED
      BY <1>4, MoveKeeps, FailKeeps DEF DependencyReturned
  <1>5. CASE Build
    <2>1. CASE Start(Top.of, Moved("built", {}))
      BY <2>1, MoveKeeps, StartKeeps DEF Inv
    <2> QED
      BY <1>5, <2>1, MoveKeeps, FailKeeps DEF Build
  <1>6. CASE Built \/ MissDependency
    BY <1>6, FailKeeps DEF Built, MissDependency
  <1>7. CASE LoadScripts
    BY <1>7, MoveKeeps, FailKeeps DEF LoadScripts
  <1>8. CASE StartEvent
    BY <1>8, MoveKeeps DEF StartEvent
  <1>9. CASE StartWaiting
    <2> PICK x \in Top.todo : Start(x, Moved("waiting", Top.todo \ {x}))
      BY <1>9 DEF StartWaiting
    <2> Top.todo \ {x} \in SUBSET Resource
      OBVIOUS
    <2> QED
      BY MoveKeeps, StartKeeps DEF Inv
  <1>10. CASE Started
    BY <1>10, ReturnKeeps DEF Started
  <1>11. CASE StopDependant
    <2> PICK x \in Top.todo : Stop(x, Moved("dependants", Top.todo \ {x}))
      BY <1>11 DEF StopDependant
    <2> Top.todo \ {x} \in SUBSET Resource
      OBVIOUS
    <2> QED
      BY MoveKeeps, StopKeeps DEF Inv
  <1>12. CASE DependantsStopped
    BY <1>12, MoveKeeps DEF DependantsStopped
  <1>13. CASE Stopped
    BY <1>13, ReturnKeeps DEF Stopped
  <1> QED
    BY <1>1, <1>2, <1>3, <1>4, <1>5, <1>6, <1>7, <1>8, <1>9, <1>10, <1>11, <1>12, <1>13
    DEF Handler

-----------------------------------------------------------------------------
(* The theorem *)

LEMMA AlwaysInv == Spec => []Inv
  <1>1. Init => Inv
    BY EmptySeq DEF Init, Inv, Types, Covers
  <1>2. ASSUME Inv, [Next]_vars PROVE Inv'
    <2>1. CASE Handler
      BY <1>2, <2>1, HandlerKeeps
    <2>2. CASE \E r \in Resource : StartCommand(r) \/ StopCommand(r)
      BY <1>2, <2>2, StartKeeps, StopKeeps DEF StartCommand, StopCommand, Inv, Types
    <2>3. CASE \E s, r \in Resource : ScriptCall(s, r)
      BY <1>2, <2>3, StartKeeps, StopKeeps DEF ScriptCall, Inv, Types
    <2>4. CASE UNCHANGED vars
      BY <1>2, <2>4 DEF vars, Inv, Types, Covers
    <2> QED
      BY <1>2, <2>1, <2>2, <2>3, <2>4 DEF Next
  <1> QED
    BY <1>1, <1>2, PTL DEF Spec

\* When no call is left on the stack every resource is started or stopped: each way
\* out of Start and Stop sets m_state (Resource.cpp:74-131).
THEOREM NoneIsLeftStarting == Spec => []NoneLeftStarting
  <1>1. Inv => NoneLeftStarting
    BY EmptySeq DEF Inv, Types, Covers, NoneLeftStarting, Idle
  <1> QED
    BY <1>1, AlwaysInv, PTL

-----------------------------------------------------------------------------
(* Who waits, waits for a start that is still to come.                      *)

\* Two calls for one resource have met.
Twice(frames) == \A i, j \in 1..Len(frames) :
    i < j /\ frames[i].of = frames[j].of => frames[i].of \in crossed

\* A resource whose calls have not met is starting while its Start runs.
Busy(frames) == \A i \in 1..Len(frames) :
    frames[i].op = "start" /\ frames[i].of \notin crossed => state[frames[i].of] = "starting"

\* Calls that are on the stack, possibly one step further.
Sound(frames) ==
    /\ frames \in Seq(Frame) /\ Twice(frames) /\ Busy(frames)
    /\ \A i \in 1..Len(frames) : OnStack(frames[i].of)

Waits == \A p \in waiting : state[p[1]] # "started" \/ p[1] \in crossed

\* A dependency that could not be started is not started.
Answered == At("start", "awaiting") =>
    /\ returned.of \in Resource
    /\ returned.ok \/ state[returned.of] # "started" \/ returned.of \in crossed

WaitInv ==
    /\ waiting \subseteq Resource \X Resource
    /\ Twice(stack) /\ Busy(stack) /\ Waits /\ Answered

LEMMA StackIsSound ==
    ASSUME Inv, WaitInv
    PROVE  Sound(stack)
  <1>1. \A i \in 1..Len(stack) : i \in DOMAIN stack
    BY LenProperties DEF Inv, Types
  <1> QED
    BY <1>1 DEF Inv, Types, WaitInv, Sound, OnStack

LEMMA MovedIsSound ==
    ASSUME Inv, WaitInv, ~Idle, NEW step \in Step, NEW todo \in SUBSET Resource
    PROVE  Sound(Moved(step, todo))
  <1>1. /\ Moved(step, todo) \in Seq(Frame) /\ Len(Moved(step, todo)) = Len(stack)
        /\ \A i \in 1..Len(stack) : /\ Moved(step, todo)[i].of = stack[i].of
                                    /\ Moved(step, todo)[i].op = stack[i].op
    BY MovedFrames DEF Inv, Types
  <1> QED
    BY <1>1, StackIsSound DEF Sound, Twice, Busy

\* Where a step leaves the innermost call.
LEMMA InnermostAfter ==
    ASSUME stack' \in Seq(Frame), NEW op \in {"start", "stop"}, NEW step, At(op, step)'
    PROVE  Len(stack') \in Nat \ {0} /\ stack'[Len(stack')].op = op /\ stack'[Len(stack')].at = step
  BY EmptySeq, LenProperties DEF At, Idle, Top, Last

LEMMA PushSound ==
    ASSUME Inv, NEW below, Sound(below), NEW op \in {"start", "stop"}, NEW r \in Resource,
           NEW step \in Step, step # "awaiting", NEW todo \in SUBSET Resource,
           Call(below, op, r, step, todo),
           OnStack(r) => r \in crossed',
           \A x \in crossed : x \in crossed' \/ (x = r /\ ~OnStack(r)),
           \A x \in Resource : x # r => state'[x] = state[x],
           op = "start" => state'[r] = "starting" \/ r \in crossed',
           op = "stop" => state' = state
    PROVE  Twice(stack)' /\ Busy(stack)' /\ Answered'
  <1>1. /\ stack' \in Seq(Frame) /\ Len(stack') = Len(below) + 1
        /\ \A i \in 1..Len(below) : stack'[i] = below[i]
        /\ stack'[Len(below) + 1].of = r /\ stack'[Len(below) + 1].op = op
        /\ stack'[Len(below) + 1].at = step /\ Len(below) \in Nat
    BY CallFrames, LenProperties DEF Sound
  <1>2. \A i \in 1..Len(below) : below[i].of \in crossed => below[i].of \in crossed'
    BY DEF Sound
  <1>3. Twice(stack)'
    <2> SUFFICES ASSUME NEW i \in 1..Len(below) + 1, NEW j \in 1..Len(below) + 1, i < j,
                        stack'[i].of = stack'[j].of
                 PROVE  stack'[i].of \in crossed'
      BY <1>1 DEF Twice
    <2>1. i \in 1..Len(below)
      BY <1>1
    <2>2. CASE j = Len(below) + 1
      <3>1. below[i].of = r
        BY <1>1, <2>1, <2>2
      <3>2. OnStack(r)
        BY <2>1, <3>1 DEF Sound
      <3> QED
        BY <1>1, <2>1, <3>1, <3>2
    <2>3. CASE j # Len(below) + 1
      <3>1. j \in 1..Len(below)
        BY <1>1, <2>3
      <3> QED
        BY <1>1, <1>2, <2>1, <3>1 DEF Sound, Twice
    <2> QED
      BY <2>2, <2>3
  <1>4. Busy(stack)'
    <2> SUFFICES ASSUME NEW i \in 1..Len(below) + 1, stack'[i].op = "start",
                        stack'[i].of \notin crossed'
                 PROVE  state'[stack'[i].of] = "starting"
      BY <1>1 DEF Busy
    <2>1. CASE i = Len(below) + 1
      BY <1>1, <2>1
    <2>2. CASE i # Len(below) + 1
      <3>1. i \in 1..Len(below) /\ stack'[i] = below[i]
        BY <1>1, <2>2
      <3>2. below[i].of # r /\ below[i].of \in Resource
        <4>1. below[i] \in Frame
          BY <3>1, ElementOfSeq DEF Sound
        <4> QED
          BY <3>1, <4>1 DEF Sound, Frame
      <3>3. below[i].of \notin crossed
        BY <1>2, <3>1
      <3> QED
        BY <3>1, <3>2, <3>3 DEF Sound, Busy
    <2> QED
      BY <2>1, <2>2
  <1>5. Answered'
    <2>1. ~At("start", "awaiting")'
      BY <1>1, InnermostAfter
    <2> QED
      BY <2>1 DEF Answered
  <1> QED
    BY <1>3, <1>4, <1>5

LEMMA StartWaits ==
    ASSUME Inv, WaitInv, NEW below, Sound(below), NEW r \in Resource, Start(r, below),
           waiting' = waiting
    PROVE  WaitInv'
  <1>1. CASE state[r] = "started" /\ Return(below, r, "started", TRUE) /\ UNCHANGED history
    <2>1. state' = state
      BY <1>1 DEF Return, Inv, Types
    <2> QED
      BY <1>1, <2>1 DEF Return, history, Sound, Twice, Busy, WaitInv, Waits, Answered
  <1>2. CASE /\ state[r] = "starting" /\ Call(below, "start", r, "filter", {})
             /\ Cross(r) /\ UNCHANGED <<state, returned>>
    <2>1. OnStack(r)
      BY <1>2, LenProperties DEF Inv, Types, Covers, OnStack
    <2>2. r \in crossed' /\ crossed \subseteq crossed'
      BY <1>2, <2>1 DEF Cross
    <2>3. "filter" \in Step /\ {} \in SUBSET Resource
      BY DEF Step
    <2>4. Twice(stack)' /\ Busy(stack)' /\ Answered'
      BY <1>2, <2>2, <2>3, PushSound
    <2> QED
      BY <1>2, <2>2, <2>4 DEF WaitInv, Waits
  <1>3. CASE /\ state[r] = "stopped" /\ Call(below, "start", r, "starting", {})
             /\ state' = [state EXCEPT ![r] = "starting"] /\ Begin(r) /\ UNCHANGED returned
    <2>1. /\ OnStack(r) => r \in crossed'
          /\ \A x \in crossed : x \in crossed' \/ (x = r /\ ~OnStack(r))
      BY <1>3 DEF Begin
    <2>2. "starting" \in Step /\ {} \in SUBSET Resource
      BY DEF Step
    <2>3. state'[r] = "starting" /\ \A x \in Resource : x # r => state'[x] = state[x]
      BY <1>3 DEF Inv, Types
    <2>4. Twice(stack)' /\ Busy(stack)' /\ Answered'
      BY <1>3, <2>1, <2>2, <2>3, PushSound
    <2>5. Waits'
      <3> SUFFICES ASSUME NEW p \in waiting PROVE state'[p[1]] # "started" \/ p[1] \in crossed'
        BY DEF Waits
      <3>1. p[1] \in Resource
        BY DEF WaitInv
      <3> QED
        BY <2>1, <2>3, <3>1 DEF WaitInv, Waits
    <2> QED
      BY <2>4, <2>5 DEF WaitInv
  <1> QED
    BY <1>1, <1>2, <1>3 DEF Start

LEMMA StopWaits ==
    ASSUME Inv, WaitInv, NEW below, Sound(below), NEW r \in Resource, Stop(r, below),
           waiting' = waiting
    PROVE  WaitInv'
  <1>1. CASE state[r] = "stopped" /\ Return(below, r, "stopped", TRUE) /\ UNCHANGED history
    <2>1. state' = state
      BY <1>1 DEF Return, Inv, Types
    <2> QED
      BY <1>1, <2>1 DEF Return, history, Sound, Twice, Busy, WaitInv, Waits, Answered
  <1>2. CASE /\ Call(below, "stop", r, "dependants", {x \in Resource \ {r} : <<r, x>> \in dependants})
             /\ Cross(r) /\ UNCHANGED <<state, returned>>
    <2>1. (OnStack(r) => r \in crossed') /\ crossed \subseteq crossed'
      BY <1>2 DEF Cross
    <2>2. "dependants" \in Step /\ {x \in Resource \ {r} : <<r, x>> \in dependants} \in SUBSET Resource
      BY DEF Step
    <2>3. Twice(stack)' /\ Busy(stack)' /\ Answered'
      BY <1>2, <2>1, <2>2, PushSound
    <2> QED
      BY <1>2, <2>1, <2>3 DEF WaitInv, Waits
  <1> QED
    BY <1>1, <1>2 DEF Stop

\* Below a call that returns, another one for its resource has met it.
LEMMA ReturnSound ==
    ASSUME Inv, WaitInv, ~Idle, NEW to, NEW ok, Return(Front(stack), Top.of, to, ok),
           crossed' = crossed
    PROVE  Twice(stack)' /\ Busy(stack)'
  <1>1. /\ Front(stack) \in Seq(Frame) /\ Len(Front(stack)) = Len(stack) - 1
        /\ Len(stack) \in Nat \ {0}
        /\ \A i \in 1..Len(stack) - 1 : Front(stack)[i] = stack[i]
        /\ Top = stack[Len(stack)] /\ stack' = Front(stack)
    BY FrontFrames DEF Inv, Types, Return
  <1>2. ASSUME NEW i \in 1..Len(stack) - 1, stack[i].of \notin crossed
        PROVE  state'[stack[i].of] = state[stack[i].of]
    <2>1. i \in 1..Len(stack) /\ Len(stack) \in 1..Len(stack) /\ i < Len(stack)
      BY <1>1
    <2>2. stack[i].of # Top.of
      BY <1>1, <1>2, <2>1 DEF WaitInv, Twice
    <2>3. stack[i] \in Frame
      BY <2>1, ElementOfSeq DEF Inv, Types
    <2> QED
      BY <2>2, <2>3 DEF Return, Inv, Types, Frame
  <1>3. \A i \in 1..Len(stack) - 1 : i \in 1..Len(stack)
    BY <1>1
  <1> QED
    BY <1>1, <1>2, <1>3 DEF WaitInv, Twice, Busy

\* A start that fails leaves its resource started only if its calls have met.
LEMMA FailWaits ==
    ASSUME Inv, WaitInv, ~Idle, Top.op = "start", Fail, crossed' = crossed,
           waiting' \subseteq Resource \X Resource,
           \A p \in waiting' : p \in waiting \/ state[p[1]] # "started" \/ p[1] \in crossed
    PROVE  WaitInv'
  <1>1. /\ Top.of \in Resource /\ Len(stack) \in 1..Len(stack) /\ Top = stack[Len(stack)]
    BY FrontFrames DEF Inv, Types, Frame
  <1>2. \A x \in Resource : state'[x] = "started" => state[x] = "started"
    BY <1>1 DEF Fail, Return, Inv, Types
  <1>3. state[Top.of] = "started" => Top.of \in crossed
    BY <1>1 DEF WaitInv, Busy
  <1>4. Twice(stack)' /\ Busy(stack)'
    BY ReturnSound DEF Fail
  <1>5. Answered'
    BY <1>1, <1>2, <1>3 DEF Fail, Return, Answered
  <1>6. Waits'
    <2> SUFFICES ASSUME NEW p \in waiting' PROVE state'[p[1]] # "started" \/ p[1] \in crossed
      BY DEF Waits
    <2>1. p[1] \in Resource
      OBVIOUS
    <2> QED
      BY <1>2, <2>1 DEF WaitInv, Waits
  <1> QED
    BY <1>4, <1>5, <1>6 DEF WaitInv

LEMMA MoveWaits ==
    ASSUME Inv, WaitInv, ~Idle, NEW step \in Step, step # "awaiting", NEW todo \in SUBSET Resource,
           MoveTo(step, todo), crossed' = crossed, waiting' = waiting
    PROVE  WaitInv'
  <1>1. Sound(Moved(step, todo)) /\ stack' = Moved(step, todo) /\ state' = state
    BY MovedIsSound DEF MoveTo
  <1>2. ~At("start", "awaiting")'
    <2>1. Top' = [Top EXCEPT !.at = step, !.todo = todo]
      <3> DEFINE top == [Top EXCEPT !.at = step, !.todo = todo]
      <3>1. top \in Frame
        BY FrontFrames DEF Inv, Types, Frame, Step
      <3> HIDE DEF top
      <3>2. stack' = Append(Front(stack), top)
        BY <1>1 DEF Moved, top
      <3>3. stack'[Len(stack')] = top
        BY <3>1, <3>2, FrontFrames DEF Inv, Types
      <3> QED
        BY <3>3 DEF Top, Last, top
    <2>2. Top \in Frame
      BY FrontFrames DEF Inv, Types
    <2>3. Top'.at = step
      BY <2>1, <2>2 DEF Frame
    <2> QED
      BY <2>3 DEF At
  <1> QED
    BY <1>1, <1>2 DEF Sound, WaitInv, Twice, Busy, Waits, Answered
LEMMA HandlerWaits ==
    ASSUME Inv, WaitInv, Handler
    PROVE  WaitInv'
  <1> ~Idle
    BY DEF Handler, At, Starting, TakeDependency, StartDependency, DependencyReturned,
           MissDependency, Build, Built, LoadScripts, StartEvent, StartWaiting, Started, StopDependant,
           DependantsStopped, Stopped
  <1> Top.of \in Resource /\ Top.todo \subseteq Resource
    BY InnermostCall
  <1> /\ {d \in Resource : <<Top.of, d>> \in depends} \in SUBSET Resource
      /\ {x \in Resource : <<Top.of, x>> \in waiting} \in SUBSET Resource
      /\ {} \in SUBSET Resource
    OBVIOUS
  <1> /\ "dependencies" \in Step /\ "awaiting" \in Step /\ "built" \in Step /\ "filter" \in Step
      /\ "event" \in Step /\ "waiting" \in Step /\ "dependants" \in Step
    BY DEF Step
  <1> waiting \subseteq Resource \X Resource /\ Waits
    BY DEF WaitInv
  <1>0. ASSUME Top.op = "start", Fail, UNCHANGED <<waiting, crossed>> PROVE WaitInv'
    <2> waiting' \subseteq Resource \X Resource
      BY <1>0
    <2> QED
      BY <1>0, FailWaits
  <1>1. CASE Starting
    BY <1>0, <1>1, MoveWaits DEF Starting, At, maps, history
  <1>2. CASE TakeDependency
    <2> PICK d \in Top.todo : MoveTo("dependencies", Top.todo \ {d})
      BY <1>2 DEF TakeDependency
    <2> Top.todo \ {d} \in SUBSET Resource
      OBVIOUS
    <2> QED
      BY <1>2, MoveWaits DEF TakeDependency
  <1>3. CASE StartDependency
    <2> PICK d \in Top.todo : Start(d, Moved("awaiting", Top.todo \ {d}))
      BY <1>3 DEF StartDependency
    <2> Top.todo \ {d} \in SUBSET Resource /\ d \in Resource
      OBVIOUS
    <2> QED
      BY <1>3, MovedIsSound, StartWaits DEF StartDependency
  <1>4. CASE DependencyReturned
    <2>1. CASE returned.ok /\ MoveTo("dependencies", Top.todo) /\ UNCHANGED waiting
      <3> Top.todo \in SUBSET Resource
        OBVIOUS
      <3> QED
        BY <1>4, <2>1, MoveWaits DEF DependencyReturned
    <2>2. CASE ~returned.ok /\ Wait(returned.of) /\ Fail
      <3>1. /\ returned.of \in Resource
            /\ state[returned.of] # "started" \/ returned.of \in crossed
        BY <1>4, <2>2 DEF DependencyReturned, WaitInv, Answered
      <3> QED
        BY <1>4, <2>2, <3>1, FailWaits DEF DependencyReturned, Wait, At
    <2> QED
      BY <1>4, <2>1, <2>2 DEF DependencyReturned
  <1>5. CASE Build
    BY <1>0, <1>5, MoveWaits, MovedIsSound, StartWaits DEF Build, At, maps, history
  <1>6. CASE Built \/ MissDependency
    BY <1>0, <1>6 DEF Built, MissDependency, At, maps, history
  <1>7. CASE LoadScripts
    BY <1>0, <1>7, MoveWaits DEF LoadScripts, At, maps, history
  <1>8. CASE StartEvent
    BY <1>8, MoveWaits DEF StartEvent, maps, history
  <1>9. CASE StartWaiting
    <2> PICK x \in Top.todo : Start(x, Moved("waiting", Top.todo \ {x}))
      BY <1>9 DEF StartWaiting
    <2> Top.todo \ {x} \in SUBSET Resource /\ x \in Resource
      OBVIOUS
    <2> QED
      BY <1>9, MovedIsSound, StartWaits DEF StartWaiting, maps
  <1>10. CASE Started
    <2>1. /\ Twice(stack)' /\ Busy(stack)'
      BY <1>10, ReturnSound DEF Started, history
    <2>2. Answered'
      BY <1>10 DEF Started, Return, Answered
    <2>3. /\ waiting' \subseteq waiting
          /\ \A p \in waiting' : p[1] # Top.of /\ p[1] \in Resource
          /\ \A x \in Resource : x # Top.of => state'[x] = state[x]
          /\ crossed' = crossed
      BY <1>10 DEF Started, Return, Inv, Types, history
    <2>4. Waits'
      BY <2>3 DEF Waits
    <2> QED
      BY <2>1, <2>2, <2>3, <2>4 DEF WaitInv
  <1>11. CASE StopDependant
    <2> PICK x \in Top.todo : Stop(x, Moved("dependants", Top.todo \ {x}))
      BY <1>11 DEF StopDependant
    <2> Top.todo \ {x} \in SUBSET Resource /\ x \in Resource
      OBVIOUS
    <2> QED
      BY <1>11, MovedIsSound, StopWaits DEF StopDependant, maps
  <1>12. CASE DependantsStopped
    BY <1>12, MoveWaits DEF DependantsStopped, history
  <1>13. CASE Stopped
    <2>1. /\ Twice(stack)' /\ Busy(stack)'
      BY <1>13, ReturnSound DEF Stopped, history
    <2>2. Answered'
      BY <1>13 DEF Stopped, Return, Answered
    <2>3. /\ \A x \in Resource : state'[x] = "started" => state[x] = "started"
          /\ crossed' = crossed /\ waiting' = waiting
      BY <1>13 DEF Stopped, Return, Inv, Types, history, maps
    <2>4. Waits'
      <3> SUFFICES ASSUME NEW p \in waiting PROVE state'[p[1]] # "started" \/ p[1] \in crossed
        BY <2>3 DEF Waits
      <3>1. p[1] \in Resource
        OBVIOUS
      <3> QED
        BY <2>3, <3>1 DEF Waits
    <2> QED
      BY <2>1, <2>2, <2>3, <2>4 DEF WaitInv
  <1> QED
    BY <1>1, <1>2, <1>3, <1>4, <1>5, <1>6, <1>7, <1>8, <1>9, <1>10, <1>11, <1>12, <1>13
    DEF Handler

LEMMA WaitStep == Inv /\ WaitInv /\ [Next]_vars => WaitInv'
  <1> SUFFICES ASSUME Inv, WaitInv, [Next]_vars PROVE WaitInv'
    OBVIOUS
  <1>1. CASE \E r \in Resource : StartCommand(r) \/ StopCommand(r)
    BY <1>1, StackIsSound, StartWaits, StopWaits DEF StartCommand, StopCommand, maps
  <1>2. CASE \E s, r \in Resource : ScriptCall(s, r)
    BY <1>2, StackIsSound, StartWaits, StopWaits DEF ScriptCall, maps
  <1>3. CASE UNCHANGED vars
    BY <1>3 DEF vars, maps, history, WaitInv, Twice, Busy, Waits, Answered, At, Idle, Top
  <1> QED
    BY <1>1, <1>2, <1>3, HandlerWaits DEF Next

\* A resource that failed for want of a dependency waits for a resource that is not
\* started: the start of whoever it waits for goes through those that wait, also when
\* some of them were added while it ran (ResourceDependencyLoader.cpp:79-132).
THEOREM NobodyWaits == Spec => []NobodyWaitsInVain
  <1>1. Init => WaitInv
    BY EmptySeq DEF Init, WaitInv, Twice, Busy, Waits, Answered, At, Idle
  <1>2. WaitInv => NobodyWaitsInVain
    BY DEF WaitInv, Waits, NobodyWaitsInVain
  <1> QED
    BY <1>1, <1>2, WaitStep, AlwaysInv, PTL DEF Spec
-----------------------------------------------------------------------------
(* A started resource has its dependencies.  The predicates are about the   *)
(* calls `frames', of which the innermost, if it waits for a dependency,    *)
(* waits for `last'; `links' stands for dependants and `taken' for relied,  *)
(* and the resources `spared' are just about to be stopped.                 *)

Asking(frame) == frame.op = "start" /\ frame.at = "awaiting"

\* Whom the call waits for.
Awaited(frames, last, i) == IF i < Len(frames) THEN frames[i + 1].of ELSE last

\* The call has seen to d.
Past(frames, last, i, d) ==
    /\ frames[i].op = "start"
    /\ \/ frames[i].at \in {"filter", "event", "waiting"}
       \/ frames[i].at = "dependencies" /\ d \notin frames[i].todo
       \/ /\ frames[i].at = "awaiting" /\ d \notin frames[i].todo
          /\ d # Awaited(frames, last, i)

\* r depends on d, has seen to it, and nothing excuses it.
Took(frames, last, taken, r, d) ==
    /\ r \notin crossed /\ <<d, r>> \notin taken /\ <<r, d>> \in depends
    /\ \/ state[r] = "started"
       \/ \E i \in 1..Len(frames) : frames[i].of = r /\ Past(frames, last, i, d)

\* Call j, which stops a dependency of r, stops r too before it is through.
WillStop(frames, j, r) ==
    \/ r \in frames[j].todo
    \/ \E k \in 1..Len(frames) : j < k /\ frames[k].of = r /\ frames[k].op = "stop"

Stopping(frame) == frame.op = "stop" /\ frame.at = "dependants"

Kept(frames, last, links, taken, spared) ==
    \A r, d \in Resource : Took(frames, last, taken, r, d) =>
        /\ r # d /\ state[d] = "started" /\ <<d, r>> \in links
        /\ \A j \in 1..Len(frames) : frames[j].of = d =>
              Stopping(frames[j]) /\ (r \in spared \/ WillStop(frames, j, r))

\* The dependency that a call waits for will stop its resource as well.
Linked(frames, last, links, spared) ==
    \A i \in 1..Len(frames) : Asking(frames[i]) /\ frames[i].of \notin crossed =>
        /\ <<Awaited(frames, last, i), frames[i].of>> \in links
        /\ \A j \in 1..Len(frames) :
              i < j /\ frames[j].of = Awaited(frames, last, i) /\ frames[j].op = "stop" =>
                  /\ frames[j].at = "dependants"
                  /\ frames[i].of \in spared \/ frames[i].of \in frames[j].todo

\* Such a call has started the dependency.
Above(frames) == \A i, j \in 1..Len(frames) :
    j = i + 1 /\ Asking(frames[i]) => frames[j].op = "start"

Good == At("start", "awaiting") /\ returned.ok => state[returned.of] = "started"

DepInv ==
    /\ depends \in Graphs
    /\ Kept(stack, returned.of, dependants, relied, {})
    /\ Linked(stack, returned.of, dependants, {})
    /\ Above(stack) /\ Good

\* The innermost of the calls waits for r, if for any.
Ready(frames, last, r) == \A i \in 1..Len(frames) :
    i = Len(frames) /\ Asking(frames[i]) => last = r

\* A call of Start.
LEMMA PushStart ==
    ASSUME Inv, NEW below, NEW last, NEW links, Sound(below), NEW r \in Resource,
           Ready(below, last, r), Kept(below, last, links, relied, {}),
           Linked(below, last, links, {}), Above(below),
           NEW step \in Step, step # "awaiting", Call(below, "start", r, step, {}),
           OnStack(r) => r \in crossed',
           \A x \in crossed : x \in crossed' \/ (x = r /\ ~OnStack(r)),
           r \in crossed' \/ (step = "starting" /\ state'[r] = "starting"),
           \A x \in Resource : x # r => state'[x] = state[x],
           state[r] # "started",
           \A y \in relied : y \in relied' \/ y[2] = r,
           dependants' = links, depends' = depends
    PROVE  /\ Kept(stack, returned.of, dependants, relied, {})'
           /\ Linked(stack, returned.of, dependants, {})'
           /\ Above(stack)' /\ Good'
  <1> DEFINE n == Len(below)
  <1>1. /\ stack' \in Seq(Frame) /\ Len(stack') = n + 1
        /\ \A i \in 1..n : stack'[i] = below[i]
        /\ stack'[n + 1].of = r /\ stack'[n + 1].op = "start"
        /\ stack'[n + 1].at = step /\ n \in Nat
    <2>1. {} \in SUBSET Resource /\ "start" \in {"start", "stop"} /\ below \in Seq(Frame)
      BY DEF Sound
    <2> QED
      BY <2>1, CallFrames, LenProperties
  <1>2. \A i \in 1..n : below[i].of \in crossed => below[i].of \in crossed'
    BY DEF Sound
  <1>3. \A i \in 1..n : Asking(below[i]) =>
            Awaited(stack', returned'.of, i) = Awaited(below, last, i)
    BY <1>1 DEF Awaited, Ready
  <1>4. ASSUME NEW x \in Resource, NEW d \in Resource, Took(stack, returned.of, relied, x, d)'
        PROVE  x # r /\ Took(below, last, relied, x, d)
    <2>1. CASE x = r
      <3>1. r \notin crossed' /\ ~OnStack(r) /\ step = "starting" /\ state'[r] = "starting"
        BY <1>4, <2>1 DEF Took
      <3>2. PICK i \in 1..n + 1 : stack'[i].of = r /\ Past(stack', returned'.of, i, d)
        BY <1>1, <1>4, <2>1, <3>1 DEF Took
      <3>3. i \in 1..n
        BY <1>1, <3>1, <3>2 DEF Past
      <3> QED
        BY <1>1, <3>1, <3>2, <3>3 DEF Sound
    <2>2. CASE x # r
      <3>1. x \notin crossed /\ <<d, x>> \notin relied /\ <<x, d>> \in depends
        BY <1>4, <2>2 DEF Took
      <3>2. CASE state'[x] = "started"
        BY <2>2, <3>1, <3>2 DEF Took
      <3>3. CASE \E i \in 1..n + 1 : stack'[i].of = x /\ Past(stack', returned'.of, i, d)
        <4>1. PICK i \in 1..n + 1 : stack'[i].of = x /\ Past(stack', returned'.of, i, d)
          BY <3>3
        <4>2. i \in 1..n
          BY <1>1, <2>2, <4>1
        <4>3. below[i].of = x /\ Past(below, last, i, d)
          BY <1>1, <1>3, <4>1, <4>2 DEF Past, Asking
        <4> QED
          BY <2>2, <3>1, <4>2, <4>3 DEF Took
      <3> QED
        BY <1>1, <1>4, <3>2, <3>3 DEF Took
    <2> QED
      BY <2>1, <2>2
  <1>5. Kept(stack, returned.of, dependants, relied, {})'
    <2> SUFFICES ASSUME NEW x \in Resource, NEW d \in Resource,
                        Took(stack, returned.of, relied, x, d)'
                 PROVE  /\ x # d /\ state'[d] = "started" /\ <<d, x>> \in links
                        /\ \A j \in 1..n + 1 : stack'[j].of = d =>
                              Stopping(stack'[j]) /\ WillStop(stack', j, x)
      BY <1>1 DEF Kept
    <2>1. Took(below, last, relied, x, d)
      BY <1>4
    <2>2. /\ x # d /\ state[d] = "started" /\ <<d, x>> \in links
          /\ \A j \in 1..n : below[j].of = d => Stopping(below[j]) /\ WillStop(below, j, x)
      BY <2>1 DEF Kept
    <2>3. d # r
      BY <2>2
    <2>4. ASSUME NEW j \in 1..n + 1, stack'[j].of = d
          PROVE  Stopping(stack'[j]) /\ WillStop(stack', j, x)
      <3>1. j \in 1..n
        BY <1>1, <2>3, <2>4
      <3>2. Stopping(below[j]) /\ WillStop(below, j, x) /\ stack'[j] = below[j]
        BY <1>1, <2>2, <2>4, <3>1
      <3>3. \A k \in 1..n : k \in 1..n + 1 /\ stack'[k] = below[k]
        BY <1>1
      <3> QED
        BY <1>1, <3>2, <3>3 DEF WillStop
    <2> QED
      BY <2>2, <2>3, <2>4
  <1>6. Linked(stack, returned.of, dependants, {})'
    <2> SUFFICES ASSUME NEW i \in 1..n + 1, Asking(stack'[i]), stack'[i].of \notin crossed'
                 PROVE  /\ <<Awaited(stack', returned'.of, i), stack'[i].of>> \in links
                        /\ \A j \in 1..n + 1 :
                              /\ i < j /\ stack'[j].of = Awaited(stack', returned'.of, i)
                              /\ stack'[j].op = "stop"
                              => stack'[j].at = "dependants" /\ stack'[i].of \in stack'[j].todo
      BY <1>1 DEF Linked
    <2>1. i \in 1..n
      BY <1>1 DEF Asking
    <2>2. /\ Asking(below[i]) /\ below[i].of \notin crossed /\ stack'[i] = below[i]
          /\ Awaited(stack', returned'.of, i) = Awaited(below, last, i)
      BY <1>1, <1>2, <1>3, <2>1
    <2>3. ASSUME NEW j \in 1..n + 1, stack'[j].op = "stop"
          PROVE  j \in 1..n /\ stack'[j] = below[j]
      BY <1>1, <2>3
    <2> QED
      BY <2>1, <2>2, <2>3 DEF Linked
  <1>7. Above(stack)'
    <2> SUFFICES ASSUME NEW i \in 1..n + 1, NEW j \in 1..n + 1, j = i + 1, Asking(stack'[i])
                 PROVE  stack'[j].op = "start"
      BY <1>1 DEF Above
    <2>1. i \in 1..n
      BY <1>1
    <2> QED
      BY <1>1, <2>1 DEF Above
  <1>8. Good'
    <2>1. ~At("start", "awaiting")'
      BY <1>1, InnermostAfter
    <2> QED
      BY <2>1 DEF Good
  <1> QED
    BY <1>5, <1>6, <1>7, <1>8

LEMMA StartDep ==
    ASSUME Inv, WaitInv, DepInv, NEW below, NEW last, NEW links, Sound(below), NEW r \in Resource,
           Ready(below, last, r), Kept(below, last, links, relied, {}),
           Linked(below, last, links, {}), Above(below), Start(r, below),
           dependants' = links, depends' = depends
    PROVE  DepInv'
  <1>0. depends' \in Graphs
    BY DEF DepInv
  <1>1. CASE state[r] = "started" /\ Return(below, r, "started", TRUE) /\ UNCHANGED history
    <2>1. /\ state' = state /\ stack' = below /\ returned'.of = r /\ crossed' = crossed
          /\ relied' = relied
      BY <1>1 DEF Return, Inv, Types, history
    <2>2. \A i \in 1..Len(below) : Asking(below[i]) =>
              Awaited(below, r, i) = Awaited(below, last, i)
      <3> SUFFICES ASSUME NEW i \in 1..Len(below), Asking(below[i])
                   PROVE  Awaited(below, r, i) = Awaited(below, last, i)
        OBVIOUS
      <3>1. Len(below) \in Nat
        BY LenProperties DEF Sound
      <3> QED
        BY <3>1 DEF Awaited, Ready
    <2>3. ASSUME NEW x \in Resource, NEW d \in Resource, Took(below, r, relied, x, d)
          PROVE  Took(below, last, relied, x, d)
      BY <2>2, <2>3 DEF Took, Past, Asking
    <2>4. Kept(below, r, links, relied, {})
      BY <2>3 DEF Kept
    <2>5. Linked(below, r, links, {})
      BY <2>2 DEF Linked
    <2>6. /\ Kept(stack, returned.of, dependants, relied, {})'
          /\ Linked(stack, returned.of, dependants, {})' /\ Above(stack)'
      BY <2>1, <2>4, <2>5 DEF Kept, Linked, Above, Took, Past, WillStop, Stopping, Awaited
    <2>7. Good'
      BY <1>1, <2>1 DEF Good
    <2> QED
      BY <1>0, <2>6, <2>7 DEF DepInv
  <1>2. CASE /\ state[r] = "starting" /\ Call(below, "start", r, "filter", {})
             /\ Cross(r) /\ UNCHANGED <<state, returned>>
    <2>1. OnStack(r)
      BY <1>2, LenProperties DEF Inv, Types, Covers, OnStack
    <2>2. r \in crossed' /\ crossed \subseteq crossed' /\ relied' = relied
      BY <1>2, <2>1 DEF Cross
    <2>3. "filter" \in Step
      BY DEF Step
    <2> QED
      BY <1>0, <1>2, <2>2, <2>3, PushStart DEF DepInv
  <1>3. CASE /\ state[r] = "stopped" /\ Call(below, "start", r, "starting", {})
             /\ state' = [state EXCEPT ![r] = "starting"] /\ Begin(r) /\ UNCHANGED returned
    <2>1. /\ OnStack(r) => r \in crossed'
          /\ \A x \in crossed : x \in crossed' \/ (x = r /\ ~OnStack(r))
          /\ \A y \in relied : y \in relied' \/ y[2] = r
      BY <1>3 DEF Begin
    <2>2. "starting" \in Step
      BY DEF Step
    <2>3. state'[r] = "starting" /\ \A x \in Resource : x # r => state'[x] = state[x]
      BY <1>3 DEF Inv, Types
    <2> QED
      BY <1>0, <1>3, <2>1, <2>2, <2>3, PushStart DEF DepInv
  <1> QED
    BY <1>1, <1>2, <1>3 DEF Start
\* A resource that is spared is starting or started, and does not stop by itself.
LEMMA SparedRuns ==
    ASSUME Inv, NEW frames, Sound(frames), NEW i \in 1..Len(frames), frames[i].op = "start",
           frames[i].of \notin crossed
    PROVE  state[frames[i].of] = "starting" /\ OnStack(frames[i].of) /\ frames[i].of \in Resource
  <1>1. frames[i] \in Frame
    BY ElementOfSeq DEF Sound
  <1> QED
    BY <1>1 DEF Sound, Busy, Frame

\* A call of Stop, for a resource that may have been spared so far.
LEMMA StopDep ==
    ASSUME Inv, depends \in Graphs, NEW below, NEW last, Sound(below), NEW r \in Resource,
           \A i \in 1..Len(below) : i = Len(below) => ~Asking(below[i]),
           Kept(below, last, dependants, relied, {r}),
           Linked(below, last, dependants, {r}), Above(below), Stop(r, below),
           dependants' = dependants, depends' = depends
    PROVE  DepInv'
  <1> DEFINE n == Len(below)
  <1>0. depends' \in Graphs /\ n \in Nat
    BY LenProperties DEF Sound
  <1>a. \A i \in 1..n : \A other : Asking(below[i]) =>
            i < n /\ Awaited(below, other, i) = Awaited(below, last, i)
    BY <1>0 DEF Awaited
  <1>1. CASE state[r] = "stopped" /\ Return(below, r, "stopped", TRUE) /\ UNCHANGED history
    <2>1. /\ state' = state /\ stack' = below /\ returned'.of = r /\ crossed' = crossed
          /\ relied' = relied
      BY <1>1 DEF Return, Inv, Types, history
    <2>2. ASSUME NEW x \in Resource, NEW d \in Resource, Took(below, r, relied, x, d)
          PROVE  Took(below, last, relied, x, d) /\ x # r
      <3>1. Took(below, last, relied, x, d)
        BY <1>a, <2>2 DEF Took, Past, Asking
      <3>2. x # r
        BY <1>1, <3>1, SparedRuns DEF Took, Past
      <3> QED
        BY <3>1, <3>2
    <2>3. Kept(below, r, dependants, relied, {})
      BY <2>2 DEF Kept
    <2>4. Linked(below, r, dependants, {})
      <3>1. \A i \in 1..n : Asking(below[i]) /\ below[i].of \notin crossed => below[i].of # r
        BY <1>1, SparedRuns DEF Asking
      <3> QED
        BY <1>a, <3>1 DEF Linked
    <2>5. /\ Kept(stack, returned.of, dependants, relied, {})'
          /\ Linked(stack, returned.of, dependants, {})' /\ Above(stack)'
      BY <2>1, <2>3, <2>4 DEF Kept, Linked, Above, Took, Past, WillStop, Stopping, Awaited
    <2>6. Good'
      <3>1. ~At("start", "awaiting")'
        <4>1. below \in Seq(Frame)
          BY DEF Sound
        <4>2. CASE At("start", "awaiting")'
          <5>1. n \in Nat \ {0} /\ below[n].op = "start" /\ below[n].at = "awaiting"
            BY <2>1, <4>1, <4>2, InnermostAfter
          <5> QED
            BY <5>1 DEF Asking
        <4> QED
          BY <4>2
      <3> QED
        BY <3>1 DEF Good
    <2> QED
      BY <1>0, <2>5, <2>6 DEF DepInv
  <1>2. CASE /\ Call(below, "stop", r, "dependants", {x \in Resource \ {r} : <<r, x>> \in dependants})
             /\ Cross(r) /\ UNCHANGED <<state, returned>>
    <2> DEFINE todo == {x \in Resource \ {r} : <<r, x>> \in dependants}
    <2>1. /\ stack' \in Seq(Frame) /\ Len(stack') = n + 1
          /\ \A i \in 1..n : stack'[i] = below[i]
          /\ stack'[n + 1].of = r /\ stack'[n + 1].op = "stop"
          /\ stack'[n + 1].at = "dependants" /\ stack'[n + 1].todo = todo
      <3>1. /\ todo \in SUBSET Resource /\ "stop" \in {"start", "stop"} /\ below \in Seq(Frame)
            /\ "dependants" \in Step
        BY DEF Sound, Step
      <3> QED
        BY <1>2, <3>1, CallFrames
    <2>2. /\ crossed \subseteq crossed' /\ (OnStack(r) => r \in crossed') /\ relied' = relied
          /\ state' = state
      BY <1>2 DEF Cross
    <2>3. \A i \in 1..n : Asking(below[i]) =>
              Awaited(stack', returned'.of, i) = Awaited(below, last, i)
      BY <1>a, <2>1 DEF Awaited
    <2>4. \A k \in 1..n : k \in 1..n + 1 /\ n + 1 \in 1..n + 1 /\ k < n + 1
      BY <1>0
    <2>5. \A k \in 1..n + 1 : k = n + 1 \/ k \in 1..n
      BY <1>0
    <2>6. Kept(stack, returned.of, dependants, relied, {})'
      <3> SUFFICES ASSUME NEW x \in Resource, NEW d \in Resource,
                          Took(stack, returned.of, relied, x, d)'
                   PROVE  /\ x # d /\ state'[d] = "started" /\ <<d, x>> \in dependants
                          /\ \A j \in 1..n + 1 : stack'[j].of = d =>
                                Stopping(stack'[j]) /\ WillStop(stack', j, x)
        BY <2>1 DEF Kept
      <3>1. Took(below, last, relied, x, d)
        <4>1. x \notin crossed /\ <<d, x>> \notin relied /\ <<x, d>> \in depends
          BY <2>2 DEF Took
        <4>2. CASE \E i \in 1..n + 1 : stack'[i].of = x /\ Past(stack', returned'.of, i, d)
          <5>1. PICK i \in 1..n + 1 : stack'[i].of = x /\ Past(stack', returned'.of, i, d)
            BY <4>2
          <5>2. i \in 1..n
            BY <2>1, <2>5, <5>1 DEF Past
          <5>3. below[i].of = x /\ Past(below, last, i, d)
            BY <2>1, <2>3, <5>1, <5>2 DEF Past, Asking
          <5> QED
            BY <4>1, <5>2, <5>3 DEF Took
        <4> QED
          BY <2>1, <2>2, <4>1, <4>2 DEF Took
      <3>2. /\ x # d /\ state[d] = "started" /\ <<d, x>> \in dependants
            /\ \A j \in 1..n : below[j].of = d =>
                  Stopping(below[j]) /\ (x = r \/ WillStop(below, j, x))
        BY <3>1 DEF Kept
      <3>3. ASSUME NEW j \in 1..n + 1, stack'[j].of = d
            PROVE  Stopping(stack'[j]) /\ WillStop(stack', j, x)
        <4>1. CASE j = n + 1
          <5>1. d = r /\ x \in todo
            BY <2>1, <3>2, <3>3, <4>1
          <5> QED
            BY <2>1, <4>1, <5>1 DEF Stopping, WillStop
        <4>2. CASE j \in 1..n
          <5>1. /\ stack'[j] = below[j] /\ Stopping(below[j])
                /\ x = r \/ WillStop(below, j, x)
            BY <2>1, <3>2, <3>3, <4>2
          <5>2. CASE x = r
            BY <2>1, <2>4, <4>2, <5>1, <5>2 DEF WillStop
          <5>3. CASE WillStop(below, j, x)
            BY <2>1, <2>4, <5>1, <5>3 DEF WillStop
          <5> QED
            BY <5>1, <5>2, <5>3
        <4> QED
          BY <2>5, <4>1, <4>2
      <3> QED
        BY <2>2, <3>2, <3>3
    <2>7. Linked(stack, returned.of, dependants, {})'
      <3> SUFFICES ASSUME NEW i \in 1..n + 1, Asking(stack'[i]), stack'[i].of \notin crossed'
                   PROVE  /\ <<Awaited(stack', returned'.of, i), stack'[i].of>> \in dependants
                          /\ \A j \in 1..n + 1 :
                                /\ i < j /\ stack'[j].of = Awaited(stack', returned'.of, i)
                                /\ stack'[j].op = "stop"
                                => stack'[j].at = "dependants" /\ stack'[i].of \in stack'[j].todo
        BY <2>1 DEF Linked
      <3>1. i \in 1..n /\ stack'[i] = below[i]
        BY <2>1, <2>5 DEF Asking
      <3>2. Asking(below[i]) /\ below[i].of \notin crossed
        BY <2>2, <3>1
      <3>3. below[i].of \in Resource /\ OnStack(below[i].of)
        BY <3>1, <3>2, SparedRuns DEF Asking
      <3>4. below[i].of # r
        BY <2>2, <3>1, <3>3
      <3>5. /\ <<Awaited(below, last, i), below[i].of>> \in dependants
            /\ \A j \in 1..n :
                  i < j /\ below[j].of = Awaited(below, last, i) /\ below[j].op = "stop" =>
                      below[j].at = "dependants" /\ below[i].of \in below[j].todo
        BY <3>1, <3>2, <3>4 DEF Linked
      <3>6. Awaited(stack', returned'.of, i) = Awaited(below, last, i)
        BY <2>3, <3>1, <3>2
      <3>7. ASSUME NEW j \in 1..n + 1, i < j, stack'[j].of = Awaited(below, last, i),
                   stack'[j].op = "stop"
            PROVE  stack'[j].at = "dependants" /\ below[i].of \in stack'[j].todo
        <4>1. CASE j = n + 1
          BY <2>1, <3>3, <3>4, <3>5, <3>7, <4>1
        <4>2. CASE j \in 1..n
          BY <2>1, <3>5, <3>7, <4>2
        <4> QED
          BY <2>5, <4>1, <4>2
      <3> QED
        BY <3>1, <3>5, <3>6, <3>7
    <2>8. Above(stack)'
      <3> SUFFICES ASSUME NEW i \in 1..n + 1, NEW j \in 1..n + 1, j = i + 1, Asking(stack'[i])
                   PROVE  stack'[j].op = "start"
        BY <2>1 DEF Above
      <3>1. i \in 1..n /\ Asking(below[i])
        BY <2>1, <2>5 DEF Asking
      <3>2. j \in 1..n
        BY <1>0, <1>a, <3>1
      <3> QED
        BY <2>1, <3>1, <3>2 DEF Above
    <2>9. Good'
      <3>1. ~At("start", "awaiting")'
        BY <2>1, InnermostAfter
      <3> QED
        BY <3>1 DEF Good
    <2> QED
      BY <1>0, <2>6, <2>7, <2>8, <2>9 DEF DepInv
  <1> QED
    BY <1>1, <1>2 DEF Stop

\* A call returns; only a start that is through leaves its resource started.
LEMMA ReturnDep ==
    ASSUME Inv, WaitInv, DepInv, ~Idle, NEW to, NEW ok, Return(Front(stack), Top.of, to, ok),
           to = "started" => Top.op = "start" /\ (Top.at = "waiting" \/ Top.of \in crossed),
           Top.op = "start" \/ Top.at # "dependants",
           ok => to = "started" \/ Top.op = "stop",
           crossed' = crossed, relied' = relied, dependants' = dependants, depends' = depends
    PROVE  DepInv'
  <1> DEFINE n == Len(stack) - 1
             r == Top.of
  <1>1. /\ stack' \in Seq(Frame) /\ Len(stack') = n /\ Len(stack) = n + 1 /\ n \in Nat
        /\ \A i \in 1..n : stack'[i] = stack[i]
        /\ Top = stack[n + 1] /\ r \in Resource /\ returned'.of = r
    BY FrontFrames DEF Inv, Types, Return, Frame
  <1>2. state'[r] = to /\ \A x \in Resource : x # r => state'[x] = state[x]
    BY <1>1 DEF Return, Inv, Types
  <1>3. \A i \in 1..n : i \in 1..n + 1 /\ n + 1 \in 1..n + 1 /\ i < n + 1
    BY <1>1
  <1>4. \A i \in 1..n : Awaited(stack', returned'.of, i) = Awaited(stack, returned.of, i)
    BY <1>1 DEF Awaited
  <1>5. \A k \in 1..n + 1 : k = n + 1 \/ k \in 1..n
    BY <1>1
  <1>6. ASSUME NEW x \in Resource, NEW d \in Resource, Took(stack, returned.of, relied, x, d)'
        PROVE  /\ Took(stack, returned.of, relied, x, d)
               /\ x = r => Top.op = "start"
    <2>1. x \notin crossed /\ <<d, x>> \notin relied /\ <<x, d>> \in depends
      BY <1>6 DEF Took
    <2>2. ASSUME NEW i \in 1..n, stack'[i].of = x, Past(stack', returned'.of, i, d)
          PROVE  x # r /\ Took(stack, returned.of, relied, x, d)
      <3>1. stack[i].of = x /\ Past(stack, returned.of, i, d)
        BY <1>1, <1>4, <2>2 DEF Past
      <3>2. x # r
        BY <1>1, <1>3, <2>1, <3>1 DEF WaitInv, Twice
      <3> QED
        BY <1>1, <1>3, <2>1, <3>1, <3>2 DEF Took
    <2>3. CASE x = r /\ state'[x] = "started"
      <3>1. Top.op = "start" /\ Top.at = "waiting"
        BY <1>2, <2>1, <2>3
      <3>2. Past(stack, returned.of, n + 1, d)
        BY <1>1, <3>1 DEF Past
      <3> QED
        BY <1>1, <1>3, <2>1, <2>3, <3>1, <3>2 DEF Took
    <2>4. CASE x # r /\ state'[x] = "started"
      BY <1>2, <2>1, <2>4 DEF Took
    <2> QED
      BY <1>1, <1>6, <2>2, <2>3, <2>4 DEF Took
  <1>7. Kept(stack, returned.of, dependants, relied, {})'
    <2> SUFFICES ASSUME NEW x \in Resource, NEW d \in Resource,
                        Took(stack, returned.of, relied, x, d)'
                 PROVE  /\ x # d /\ state'[d] = "started" /\ <<d, x>> \in dependants
                        /\ \A j \in 1..n : stack'[j].of = d =>
                              Stopping(stack'[j]) /\ WillStop(stack', j, x)
      BY <1>1 DEF Kept
    <2>1. /\ x # d /\ state[d] = "started" /\ <<d, x>> \in dependants
          /\ \A j \in 1..n + 1 : stack[j].of = d =>
                Stopping(stack[j]) /\ WillStop(stack, j, x)
      BY <1>1, <1>6 DEF DepInv, Kept
    <2>2. d # r
      BY <1>1, <2>1 DEF Stopping
    <2>3. ASSUME NEW j \in 1..n, stack'[j].of = d
          PROVE  Stopping(stack'[j]) /\ WillStop(stack', j, x)
      <3>1. stack'[j] = stack[j] /\ Stopping(stack[j]) /\ WillStop(stack, j, x)
        BY <1>1, <1>3, <2>1, <2>3
      <3>2. ASSUME NEW k \in 1..n + 1, stack[k].of = x, stack[k].op = "stop"
            PROVE  k \in 1..n /\ stack'[k] = stack[k]
        <4>1. k # n + 1
          BY <1>1, <1>6, <3>2
        <4> QED
          BY <1>1, <1>5, <4>1
      <3> QED
        BY <1>1, <3>1, <3>2 DEF WillStop
    <2> QED
      BY <1>2, <2>1, <2>2, <2>3
  <1>8. Linked(stack, returned.of, dependants, {})'
    BY <1>1, <1>3, <1>4 DEF DepInv, Linked
  <1>9. Above(stack)'
    BY <1>1, <1>3 DEF DepInv, Above
  <1>10. Good'
    <2> SUFFICES ASSUME At("start", "awaiting")', ok PROVE state'[r] = "started"
      BY <1>1 DEF Good, Return
    <2>1. n \in 1..n /\ stack'[n].op = "start" /\ stack'[n].at = "awaiting"
      BY <1>1, InnermostAfter
    <2>2. Asking(stack[n]) /\ n \in 1..n + 1 /\ n + 1 \in 1..n + 1
      BY <1>1, <1>3, <2>1 DEF Asking
    <2>3. Top.op = "start"
      BY <1>1, <2>2 DEF DepInv, Above
    <2> QED
      BY <1>2, <2>3
  <1> QED
    BY <1>7, <1>8, <1>9, <1>10 DEF DepInv
\* The innermost call goes a step further, and the others stay where they are.
LEMMA MovedTop ==
    ASSUME Inv, ~Idle, NEW step \in Step, NEW todo \in SUBSET Resource
    PROVE  LET n == Len(stack) - 1 IN
           /\ n \in Nat /\ Len(stack) = n + 1 /\ Len(Moved(step, todo)) = n + 1
           /\ Moved(step, todo) \in Seq(Frame)
           /\ \A i \in 1..n : Moved(step, todo)[i] = stack[i]
           /\ Top = stack[n + 1]
           /\ Moved(step, todo)[n + 1].of = Top.of /\ Moved(step, todo)[n + 1].op = Top.op
           /\ Moved(step, todo)[n + 1].at = step /\ Moved(step, todo)[n + 1].todo = todo
  <1> DEFINE top == [Top EXCEPT !.at = step, !.todo = todo]
  <1>1. /\ top \in Frame /\ top.of = Top.of /\ top.op = Top.op /\ top.at = step
        /\ top.todo = todo
    BY FrontFrames DEF Inv, Types, Frame, Step
  <1> HIDE DEF top
  <1>2. Moved(step, todo) = Append(Front(stack), top)
    BY DEF Moved, top
  <1> QED
    BY <1>1, <1>2, FrontFrames DEF Inv, Types

\* A start moves on: what it is now past, it was past before, or it is there.
LEMMA MoveStart ==
    ASSUME Inv, WaitInv, DepInv, ~Idle, Top.op = "start", NEW step \in Step,
           NEW todo \in SUBSET Resource, NEW last, NEW links, NEW taken,
           dependants \subseteq links, relied \subseteq taken,
           step = "awaiting" => <<last, Top.of>> \in links,
           \A d \in Resource :
              /\ <<Top.of, d>> \in depends /\ <<d, Top.of>> \notin taken
              /\ Top.of \notin crossed
              /\ \/ step \in {"filter", "event", "waiting"}
                 \/ step = "dependencies" /\ d \notin todo
                 \/ step = "awaiting" /\ d \notin todo /\ d # last
              => \/ Past(stack, returned.of, Len(stack), d)
                 \/ state[d] = "started" /\ <<d, Top.of>> \in links /\ ~OnStack(d)
    PROVE  /\ Kept(Moved(step, todo), last, links, taken, {})
           /\ Linked(Moved(step, todo), last, links, {})
           /\ Above(Moved(step, todo))
  <1> DEFINE frames == Moved(step, todo)
             n == Len(stack) - 1
  <1>1. /\ n \in Nat /\ Len(stack) = n + 1 /\ Len(frames) = n + 1
        /\ \A i \in 1..n : frames[i] = stack[i]
        /\ Top = stack[n + 1]
        /\ frames[n + 1].of = Top.of /\ frames[n + 1].op = Top.op
        /\ frames[n + 1].at = step /\ frames[n + 1].todo = todo
    BY MovedTop
  <1> HIDE DEF frames, n
  <1>2. /\ \A i \in 1..n : i \in 1..n + 1 /\ i < n + 1
        /\ \A i \in 1..n + 1 : i = n + 1 \/ i \in 1..n
        /\ n + 1 \in 1..n + 1
    BY <1>1
  <1>3. \A i \in 1..n + 1 : frames[i].of = stack[i].of /\ frames[i].op = stack[i].op
    BY <1>1, <1>2
  <1>4. ASSUME NEW i \in 1..n PROVE Awaited(frames, last, i) = Awaited(stack, returned.of, i)
    <2>1. i + 1 \in 1..n + 1 /\ i < n + 1
      BY <1>1
    <2> QED
      BY <1>1, <1>3, <2>1 DEF Awaited
  <1>5. \A i \in 1..n + 1 : frames[i].op = "stop" => frames[i] = stack[i]
    BY <1>1, <1>2
  <1>6. ASSUME NEW x \in Resource, NEW d \in Resource, Took(frames, last, taken, x, d)
        PROVE  \/ Took(stack, returned.of, relied, x, d)
               \/ x = Top.of /\ state[d] = "started" /\ <<d, x>> \in links /\ ~OnStack(d)
    <2>1. x \notin crossed /\ <<d, x>> \notin taken /\ <<d, x>> \notin relied /\ <<x, d>> \in depends
      BY <1>6 DEF Took
    <2>2. CASE state[x] = "started"
      BY <2>1, <2>2 DEF Took
    <2>3. CASE \E i \in 1..n + 1 : frames[i].of = x /\ Past(frames, last, i, d)
      <3>1. PICK i \in 1..n + 1 : frames[i].of = x /\ Past(frames, last, i, d)
        BY <2>3
      <3>2. CASE i \in 1..n
        <4>1. stack[i].of = x /\ Past(stack, returned.of, i, d)
          BY <1>1, <1>4, <3>1, <3>2 DEF Past
        <4> QED
          BY <1>1, <2>1, <4>1 DEF Took
      <3>3. CASE i = n + 1
        <4>1. x = Top.of /\ stack[n + 1].of = x
          BY <1>1, <3>1, <3>3
        <4>2. \/ step \in {"filter", "event", "waiting"}
              \/ step = "dependencies" /\ d \notin todo
              \/ step = "awaiting" /\ d \notin todo /\ d # last
          BY <1>1, <3>1, <3>3 DEF Past, Awaited
        <4>3. \/ Past(stack, returned.of, n + 1, d)
              \/ state[d] = "started" /\ <<d, x>> \in links /\ ~OnStack(d)
          BY <1>1, <2>1, <4>1, <4>2
        <4> QED
          BY <1>1, <1>2, <2>1, <4>1, <4>3 DEF Took
      <3> QED
        BY <1>2, <3>2, <3>3
    <2> QED
      BY <1>1, <1>6, <2>2, <2>3 DEF Took
  <1>7. Kept(frames, last, links, taken, {})
    <2> SUFFICES ASSUME NEW x \in Resource, NEW d \in Resource, Took(frames, last, taken, x, d)
                 PROVE  /\ x # d /\ state[d] = "started" /\ <<d, x>> \in links
                        /\ \A j \in 1..n + 1 : frames[j].of = d =>
                              Stopping(frames[j]) /\ WillStop(frames, j, x)
      BY <1>1 DEF Kept
    <2>1. CASE x = Top.of /\ state[d] = "started" /\ <<d, x>> \in links /\ ~OnStack(d)
      <3>1. \A j \in 1..n + 1 : OnStack(stack[j].of)
        BY <1>1, StackIsSound DEF Sound
      <3> QED
        BY <1>1, <1>2, <1>3, <2>1, <3>1
    <2>2. CASE Took(stack, returned.of, relied, x, d)
      <3>1. /\ x # d /\ state[d] = "started" /\ <<d, x>> \in dependants
            /\ \A j \in 1..n + 1 : stack[j].of = d =>
                  Stopping(stack[j]) /\ WillStop(stack, j, x)
        BY <1>1, <2>2 DEF DepInv, Kept
      <3>2. ASSUME NEW j \in 1..n + 1, frames[j].of = d
            PROVE  Stopping(frames[j]) /\ WillStop(frames, j, x)
        <4>1. Stopping(stack[j]) /\ WillStop(stack, j, x) /\ frames[j] = stack[j]
          BY <1>3, <1>5, <3>1, <3>2 DEF Stopping
        <4> QED
          BY <1>1, <1>3, <4>1 DEF WillStop
      <3> QED
        BY <3>1, <3>2
    <2> QED
      BY <1>6, <2>1, <2>2
  <1>8. Linked(frames, last, links, {})
    <2> SUFFICES ASSUME NEW i \in 1..n + 1, Asking(frames[i]), frames[i].of \notin crossed
                 PROVE  /\ <<Awaited(frames, last, i), frames[i].of>> \in links
                        /\ \A j \in 1..n + 1 :
                              /\ i < j /\ frames[j].of = Awaited(frames, last, i)
                              /\ frames[j].op = "stop"
                              => frames[j].at = "dependants" /\ frames[i].of \in frames[j].todo
      BY <1>1 DEF Linked
    <2>1. CASE i = n + 1
      <3>1. Awaited(frames, last, i) = last /\ step = "awaiting"
        BY <1>1, <2>1 DEF Awaited, Asking
      <3> QED
        BY <1>1, <2>1, <3>1
    <2>2. CASE i \in 1..n
      <3>1. Asking(stack[i]) /\ stack[i].of \notin crossed /\ frames[i] = stack[i]
        BY <1>1, <2>2
      <3> QED
        BY <1>1, <1>3, <1>4, <1>5, <2>2, <3>1 DEF DepInv, Linked
    <2> QED
      BY <1>2, <2>1, <2>2
  <1>9. Above(frames)
    <2> SUFFICES ASSUME NEW i \in 1..n + 1, NEW j \in 1..n + 1, j = i + 1, Asking(frames[i])
                 PROVE  frames[j].op = "start"
      BY <1>1 DEF Above
    <2>1. i \in 1..n
      BY <1>1
    <2> QED
      BY <1>1, <1>3, <2>1 DEF DepInv, Above
  <1> QED
    BY <1>7, <1>8, <1>9 DEF frames

\* A stop moves on: every dependant that is not spared is still to come.
LEMMA MoveStop ==
    ASSUME Inv, WaitInv, DepInv, ~Idle, Top.op = "stop", NEW step \in {"dependants", "event"},
           NEW todo \in SUBSET Resource, NEW links, NEW spared, Top.at = "dependants",
           Top.todo \subseteq todo \cup spared,
           \A p \in dependants : p \in links \/ p[1] = Top.of,
           step = "dependants" => links = dependants,
           step = "event" => Top.todo = {}
    PROVE  /\ Kept(Moved(step, todo), returned.of, links, relied, spared)
           /\ Linked(Moved(step, todo), returned.of, links, spared)
           /\ Above(Moved(step, todo))
           /\ \A i \in 1..Len(stack) : i = Len(stack) => ~Asking(Moved(step, todo)[i])
  <1> DEFINE frames == Moved(step, todo)
             n == Len(stack) - 1
  <1>1. /\ n \in Nat /\ Len(stack) = n + 1 /\ Len(frames) = n + 1
        /\ \A i \in 1..n : frames[i] = stack[i]
        /\ Top = stack[n + 1]
        /\ frames[n + 1].of = Top.of /\ frames[n + 1].op = "stop"
        /\ frames[n + 1].at = step /\ frames[n + 1].todo = todo
    BY MovedTop DEF Step
  <1> HIDE DEF frames, n
  <1>2. /\ \A i \in 1..n : i \in 1..n + 1 /\ i < n + 1
        /\ \A i \in 1..n + 1 : i = n + 1 \/ i \in 1..n
        /\ n + 1 \in 1..n + 1
    BY <1>1
  <1>3. \A i \in 1..n + 1 : frames[i].of = stack[i].of /\ frames[i].op = stack[i].op
    BY <1>1, <1>2
  <1>4. \A i \in 1..n + 1 : frames[i].op = "start" => i \in 1..n /\ frames[i] = stack[i]
    BY <1>1, <1>2
  <1>5. ASSUME NEW i \in 1..n
        PROVE  Awaited(frames, returned.of, i) = Awaited(stack, returned.of, i)
    <2>1. i + 1 \in 1..n + 1 /\ i < n + 1
      BY <1>1
    <2> QED
      BY <1>1, <1>3, <2>1 DEF Awaited
  <1>6. ASSUME NEW x \in Resource, NEW d \in Resource, Took(frames, returned.of, relied, x, d)
        PROVE  Took(stack, returned.of, relied, x, d)
    <2>1. ASSUME NEW i \in 1..n + 1, frames[i].of = x, Past(frames, returned.of, i, d)
          PROVE  stack[i].of = x /\ Past(stack, returned.of, i, d)
      BY <1>4, <1>5, <2>1 DEF Past
    <2> QED
      BY <1>1, <1>6, <2>1 DEF Took
  <1>7. Kept(frames, returned.of, links, relied, spared)
    <2> SUFFICES ASSUME NEW x \in Resource, NEW d \in Resource,
                        Took(frames, returned.of, relied, x, d)
                 PROVE  /\ x # d /\ state[d] = "started" /\ <<d, x>> \in links
                        /\ \A j \in 1..n + 1 : frames[j].of = d =>
                              Stopping(frames[j]) /\ (x \in spared \/ WillStop(frames, j, x))
      BY <1>1 DEF Kept
    <2>1. /\ x # d /\ state[d] = "started" /\ <<d, x>> \in dependants
          /\ \A j \in 1..n + 1 : stack[j].of = d =>
                Stopping(stack[j]) /\ WillStop(stack, j, x)
      BY <1>1, <1>6 DEF DepInv, Kept
    <2>2. d = Top.of => x \in Top.todo
      <3>1. ~\E k \in 1..n + 1 : n + 1 < k
        BY <1>1
      <3> QED
        BY <1>1, <1>2, <2>1, <3>1 DEF WillStop
    <2>3. <<d, x>> \in links
      <3>1. CASE step = "dependants"
        BY <2>1, <3>1
      <3>2. CASE step = "event"
        BY <2>1, <2>2, <3>2
      <3> QED
        BY <3>1, <3>2
    <2>4. ASSUME NEW j \in 1..n + 1, frames[j].of = d
          PROVE  Stopping(frames[j]) /\ (x \in spared \/ WillStop(frames, j, x))
      <3>1. CASE j = n + 1
        <4>1. x \in Top.todo /\ step = "dependants"
          BY <1>1, <2>2, <2>4, <3>1
        <4> QED
          BY <1>1, <3>1, <4>1 DEF Stopping, WillStop
      <3>2. CASE j \in 1..n
        <4>1. Stopping(stack[j]) /\ WillStop(stack, j, x) /\ frames[j] = stack[j]
          BY <1>1, <1>2, <2>1, <2>4, <3>2
        <4> QED
          BY <1>1, <1>3, <4>1 DEF WillStop
      <3> QED
        BY <1>2, <3>1, <3>2
    <2> QED
      BY <2>1, <2>3, <2>4
  <1>8. Linked(frames, returned.of, links, spared)
    <2> SUFFICES ASSUME NEW i \in 1..n + 1, Asking(frames[i]), frames[i].of \notin crossed
                 PROVE  /\ <<Awaited(frames, returned.of, i), frames[i].of>> \in links
                        /\ \A j \in 1..n + 1 :
                              /\ i < j /\ frames[j].of = Awaited(frames, returned.of, i)
                              /\ frames[j].op = "stop"
                              => /\ frames[j].at = "dependants"
                                 /\ frames[i].of \in spared \/ frames[i].of \in frames[j].todo
      BY <1>1 DEF Linked
    <2>1. /\ i \in 1..n /\ frames[i] = stack[i]
          /\ Awaited(frames, returned.of, i) = Awaited(stack, returned.of, i)
      BY <1>4, <1>5 DEF Asking
    <2>2. /\ <<Awaited(stack, returned.of, i), stack[i].of>> \in dependants
          /\ \A j \in 1..n + 1 :
                /\ i < j /\ stack[j].of = Awaited(stack, returned.of, i) /\ stack[j].op = "stop"
                => stack[j].at = "dependants" /\ stack[i].of \in stack[j].todo
      BY <1>1, <1>2, <2>1 DEF DepInv, Linked
    <2>3. Awaited(stack, returned.of, i) = Top.of => stack[i].of \in Top.todo
      BY <1>1, <1>2, <2>1, <2>2
    <2>4. <<Awaited(stack, returned.of, i), stack[i].of>> \in links
      <3>1. CASE step = "dependants"
        BY <2>2, <3>1
      <3>2. CASE step = "event"
        BY <2>2, <2>3, <3>2
      <3> QED
        BY <3>1, <3>2
    <2>5. ASSUME NEW j \in 1..n + 1, i < j, frames[j].of = Awaited(stack, returned.of, i),
                 frames[j].op = "stop"
          PROVE  /\ frames[j].at = "dependants"
                 /\ frames[i].of \in spared \/ frames[i].of \in frames[j].todo
      <3>1. CASE j = n + 1
        <4>1. stack[i].of \in Top.todo /\ step = "dependants"
          BY <1>1, <2>3, <2>5, <3>1
        <4> QED
          BY <1>1, <2>1, <3>1, <4>1
      <3>2. CASE j \in 1..n
        BY <1>1, <1>2, <2>1, <2>2, <2>5, <3>2
      <3> QED
        BY <1>2, <3>1, <3>2
    <2> QED
      BY <2>1, <2>4, <2>5
  <1>9. Above(frames)
    <2> SUFFICES ASSUME NEW i \in 1..n + 1, NEW j \in 1..n + 1, j = i + 1, Asking(frames[i])
                 PROVE  frames[j].op = "start"
      BY <1>1 DEF Above
    <2>1. i \in 1..n
      BY <1>1
    <2> QED
      BY <1>1, <1>2, <1>3, <2>1 DEF DepInv, Above
  <1>10. \A i \in 1..n + 1 : i = n + 1 => ~Asking(frames[i])
    BY <1>1 DEF Asking
  <1> QED
    BY <1>1, <1>7, <1>8, <1>9, <1>10 DEF frames
LEMMA MoveDep ==
    ASSUME Inv, ~Idle, NEW step \in Step, step # "awaiting", NEW todo \in SUBSET Resource,
           MoveTo(step, todo), depends \in Graphs, depends' = depends, crossed' = crossed,
           Kept(Moved(step, todo), returned.of, dependants', relied', {}),
           Linked(Moved(step, todo), returned.of, dependants', {}), Above(Moved(step, todo))
    PROVE  DepInv'
  <1>1. stack' = Moved(step, todo) /\ UNCHANGED <<state, returned>>
    BY DEF MoveTo
  <1>2. /\ Kept(stack, returned.of, dependants, relied, {})'
        /\ Linked(stack, returned.of, dependants, {})' /\ Above(stack)'
    BY <1>1 DEF Kept, Linked, Above, Took, Past, WillStop, Stopping, Awaited
  <1>3. ~At("start", "awaiting")'
    <2>1. /\ Len(stack') \in Nat \ {0} /\ stack' \in Seq(Frame)
          /\ stack'[Len(stack')].at = step
      BY <1>1, MovedTop
    <2> QED
      BY <2>1, InnermostAfter
  <1> QED
    BY <1>2, <1>3 DEF DepInv, Good

LEMMA FailDep ==
    ASSUME Inv, WaitInv, DepInv, ~Idle, Top.op = "start", Fail,
           crossed' = crossed, relied' = relied, dependants' = dependants, depends' = depends
    PROVE  DepInv'
  <1>1. Len(stack) \in 1..Len(stack) /\ Top = stack[Len(stack)]
    BY FrontFrames DEF Inv, Types
  <1>2. state[Top.of] = "started" => Top.of \in crossed
    BY <1>1 DEF WaitInv, Busy
  <1> QED
    BY <1>2, ReturnDep DEF Fail

LEMMA NotReady ==
    ASSUME Inv, ~Idle, NEW step \in Step, step # "awaiting", NEW todo \in SUBSET Resource, NEW r
    PROVE  Ready(Moved(step, todo), returned.of, r)
  BY MovedTop DEF Ready, Asking

LEMMA HandlerDep ==
    ASSUME Inv, WaitInv, DepInv, Handler
    PROVE  DepInv'
  <1> ~Idle
    BY DEF Handler, At, Starting, TakeDependency, StartDependency, DependencyReturned,
           MissDependency, Build, Built, LoadScripts, StartEvent, StartWaiting, Started, StopDependant,
           DependantsStopped, Stopped
  <1> /\ Top.of \in Resource /\ Top.todo \subseteq Resource
      /\ Len(stack) \in 1..Len(stack) /\ Top = stack[Len(stack)]
    BY InnermostCall, FrontFrames DEF Inv, Types
  <1> /\ {d \in Resource : <<Top.of, d>> \in depends} \in SUBSET Resource
      /\ {x \in Resource : <<Top.of, x>> \in waiting} \in SUBSET Resource
      /\ {} \in SUBSET Resource
    OBVIOUS
  <1> /\ "dependencies" \in Step /\ "awaiting" \in Step /\ "built" \in Step /\ "filter" \in Step
      /\ "event" \in Step /\ "waiting" \in Step /\ "dependants" \in Step
    BY DEF Step
  <1> depends \in Graphs
    BY DEF DepInv
  <1>a. ASSUME NEW step \in {"dependencies", "filter", "event", "waiting"},
               NEW todo \in SUBSET Resource, Top.op = "start", MoveTo(step, todo),
               depends' = depends, crossed' = crossed,
               dependants \subseteq dependants', relied \subseteq relied',
               \A d \in Resource :
                  /\ <<Top.of, d>> \in depends /\ <<d, Top.of>> \notin relied'
                  /\ Top.of \notin crossed
                  /\ step \in {"filter", "event", "waiting"} \/ d \notin todo
                  => \/ Past(stack, returned.of, Len(stack), d)
                     \/ state[d] = "started" /\ <<d, Top.of>> \in dependants' /\ ~OnStack(d)
        PROVE  DepInv'
    <2> step \in Step /\ step # "awaiting"
      BY DEF Step
    <2>1. /\ Kept(Moved(step, todo), returned.of, dependants', relied', {})
          /\ Linked(Moved(step, todo), returned.of, dependants', {})
          /\ Above(Moved(step, todo))
      BY <1>a, MoveStart
    <2> QED
      BY <1>a, <2>1, MoveDep
  <1>0. ASSUME Top.op = "start", Fail, UNCHANGED <<depends, dependants, crossed, relied>>
        PROVE  DepInv'
    BY <1>0, FailDep
  <1>1. CASE Starting
    <2> DEFINE todo == {d \in Resource : <<Top.of, d>> \in depends}
    <2>1. CASE MoveTo("dependencies", todo)
      BY <1>1, <1>a, <2>1 DEF Starting, At, maps, history
    <2> QED
      BY <1>0, <1>1, <2>1 DEF Starting, At, maps, history
  <1>2. CASE TakeDependency
    <2> PICK d \in Top.todo : /\ state[d] # "stopped" /\ Link(d) /\ Rely(d)
                              /\ MoveTo("dependencies", Top.todo \ {d})
      BY <1>2 DEF TakeDependency
    <2> DEFINE todo == Top.todo \ {d}
    <2>1. todo \in SUBSET Resource /\ d \in Resource
      OBVIOUS
    <2>2. ~OnStack(d) => state[d] = "started"
      <3>1. state[d] = "starting" => OnStack(d)
        BY <2>1, LenProperties DEF Inv, Types, Covers, OnStack
      <3> QED
        BY <2>1, <3>1 DEF Inv, Types
    <2>3. /\ dependants \subseteq dependants' /\ <<d, Top.of>> \in dependants'
          /\ relied \subseteq relied' /\ (OnStack(d) => <<d, Top.of>> \in relied')
      BY DEF Link, Rely
    <2>4. \A y \in Resource : y \notin Top.todo => Past(stack, returned.of, Len(stack), y)
      BY <1>2 DEF TakeDependency, At, Past
    <2>5. \A y \in Resource : <<y, Top.of>> \notin relied' /\ y \notin todo =>
              \/ Past(stack, returned.of, Len(stack), y)
              \/ state[y] = "started" /\ <<y, Top.of>> \in dependants' /\ ~OnStack(y)
      BY <2>2, <2>3, <2>4
    <2> QED
      BY <1>2, <1>a, <2>1, <2>3, <2>5 DEF TakeDependency, At
  <1>3. CASE StartDependency
    <2> PICK d \in Top.todo : Link(d) /\ Start(d, Moved("awaiting", Top.todo \ {d}))
      BY <1>3 DEF StartDependency
    <2> DEFINE below == Moved("awaiting", Top.todo \ {d})
    <2>1. Top.todo \ {d} \in SUBSET Resource /\ d \in Resource
      OBVIOUS
    <2>2. dependants \subseteq dependants' /\ <<d, Top.of>> \in dependants'
      BY DEF Link
    <2>3. \A y \in Resource : y \notin Top.todo => Past(stack, returned.of, Len(stack), y)
      BY <1>3 DEF StartDependency, At, Past
    <2>4. \A y \in Resource : y \notin Top.todo \ {d} /\ y # d =>
              Past(stack, returned.of, Len(stack), y)
      BY <2>3
    <2>5. /\ Kept(below, d, dependants', relied, {}) /\ Linked(below, d, dependants', {})
          /\ Above(below)
      BY <1>3, <2>1, <2>2, <2>4, MoveStart DEF StartDependency, At
    <2>6. Sound(below) /\ Ready(below, d, d)
      BY <2>1, MovedIsSound DEF Ready
    <2> HIDE DEF below
    <2> QED
      BY <1>3, <2>1, <2>5, <2>6, StartDep DEF StartDependency, below
  <1>4. CASE DependencyReturned
    <2>1. CASE returned.ok /\ MoveTo("dependencies", Top.todo) /\ Rely(returned.of)
      <3> DEFINE d == returned.of
      <3>1. At("start", "awaiting") /\ Top.op = "start" /\ Asking(stack[Len(stack)])
        BY <1>4 DEF DependencyReturned, At, Asking
      <3>2. d \in Resource /\ state[d] = "started"
        BY <2>1, <3>1 DEF WaitInv, Answered, DepInv, Good
      <3>3. Awaited(stack, d, Len(stack)) = d
        BY DEF Awaited
      <3>4. Top.of \notin crossed => <<d, Top.of>> \in dependants
        BY <3>1, <3>3 DEF DepInv, Linked
      <3>5. dependants' = dependants /\ relied \subseteq relied'
            /\ (OnStack(d) => <<d, Top.of>> \in relied')
        BY <1>4, <2>1 DEF DependencyReturned, Rely
      <3>6. \A y \in Resource : y \notin Top.todo /\ y # d => Past(stack, d, Len(stack), y)
        BY <3>1, <3>3 DEF At, Past
      <3>7. \A y \in Resource :
               /\ <<y, Top.of>> \notin relied' /\ Top.of \notin crossed /\ y \notin Top.todo
               => \/ Past(stack, d, Len(stack), y)
                  \/ state[y] = "started" /\ <<y, Top.of>> \in dependants' /\ ~OnStack(y)
        BY <3>2, <3>4, <3>5, <3>6
      <3>8. Top.todo \in SUBSET Resource /\ dependants \subseteq dependants'
        BY <3>5
      <3> QED
        BY <1>4, <1>a, <2>1, <3>1, <3>5, <3>7, <3>8 DEF DependencyReturned
    <2> QED
      BY <1>0, <1>4, <2>1 DEF DependencyReturned, At
  <1>5. CASE Build
    <2>1. \A y \in Resource : Past(stack, returned.of, Len(stack), y)
      BY <1>5 DEF Build, At, Past
    <2>2. CASE MoveTo("filter", {}) /\ UNCHANGED history
      BY <1>5, <1>a, <2>1, <2>2 DEF Build, At, maps, history
    <2>3. CASE Start(Top.of, Moved("built", {}))
      <3> DEFINE below == Moved("built", {})
      <3>1. /\ Kept(below, returned.of, dependants, relied, {})
            /\ Linked(below, returned.of, dependants, {}) /\ Above(below)
        BY <1>5, MoveStart DEF Build, At
      <3>2. Sound(below) /\ Ready(below, returned.of, Top.of)
        BY MovedIsSound, NotReady
      <3> HIDE DEF below
      <3> QED
        BY <1>5, <2>3, <3>1, <3>2, StartDep DEF Build, maps, below
    <2> QED
      BY <1>0, <1>5, <2>2, <2>3 DEF Build, At, maps, history
  <1>6. CASE Built \/ MissDependency
    BY <1>0, <1>6 DEF Built, MissDependency, At, maps, history
  <1>7. CASE LoadScripts
    <2>1. \A y \in Resource : Past(stack, returned.of, Len(stack), y)
      BY <1>7 DEF LoadScripts, At, Past
    <2>2. CASE MoveTo("event", {})
      BY <1>7, <1>a, <2>1, <2>2 DEF LoadScripts, At, maps, history
    <2> QED
      BY <1>0, <1>7, <2>2 DEF LoadScripts, At, maps, history
  <1>8. CASE StartEvent
    <2>1. \A y \in Resource : Past(stack, returned.of, Len(stack), y)
      BY <1>8 DEF StartEvent, At, Past
    <2> QED
      BY <1>8, <1>a, <2>1 DEF StartEvent, At, maps, history
  <1>9. CASE StartWaiting
    <2> PICK x \in Top.todo : Start(x, Moved("waiting", Top.todo \ {x}))
      BY <1>9 DEF StartWaiting
    <2> DEFINE below == Moved("waiting", Top.todo \ {x})
    <2>1. Top.todo \ {x} \in SUBSET Resource /\ x \in Resource
      OBVIOUS
    <2>2. \A y \in Resource : Past(stack, returned.of, Len(stack), y)
      BY <1>9 DEF StartWaiting, At, Past
    <2>3. /\ Kept(below, returned.of, dependants, relied, {})
          /\ Linked(below, returned.of, dependants, {}) /\ Above(below)
      BY <1>9, <2>1, <2>2, MoveStart DEF StartWaiting, At
    <2>4. Sound(below) /\ Ready(below, returned.of, x)
      BY <2>1, MovedIsSound, NotReady
    <2> HIDE DEF below
    <2> QED
      BY <1>9, <2>1, <2>3, <2>4, StartDep DEF StartWaiting, maps, below
  <1>10. CASE Started
    BY <1>10, ReturnDep DEF Started, At, history
  <1>11. CASE StopDependant
    <2> PICK x \in Top.todo : Stop(x, Moved("dependants", Top.todo \ {x}))
      BY <1>11 DEF StopDependant
    <2> DEFINE below == Moved("dependants", Top.todo \ {x})
    <2>1. /\ Top.todo \ {x} \in SUBSET Resource /\ x \in Resource
          /\ Top.todo \subseteq (Top.todo \ {x}) \cup {x}
      OBVIOUS
    <2>2. /\ Kept(below, returned.of, dependants, relied, {x})
          /\ Linked(below, returned.of, dependants, {x}) /\ Above(below)
          /\ \A i \in 1..Len(stack) : i = Len(stack) => ~Asking(below[i])
      BY <1>11, <2>1, MoveStop DEF StopDependant, At
    <2>3. Sound(below) /\ Len(below) = Len(stack)
      BY <2>1, MovedIsSound, MovedTop
    <2> HIDE DEF below
    <2> QED
      BY <1>11, <2>1, <2>2, <2>3, StopDep DEF StopDependant, maps, below
  <1>12. CASE DependantsStopped
    <2>1. /\ Top.op = "stop" /\ Top.at = "dependants" /\ Top.todo = {} /\ MoveTo("event", {})
          /\ dependants' = {p \in dependants : p[1] # Top.of}
          /\ depends' = depends /\ crossed' = crossed /\ relied' = relied
      BY <1>12 DEF DependantsStopped, At, history
    <2>2. \A p \in dependants : p \in dependants' \/ p[1] = Top.of
      BY <2>1
    <2>3. /\ Kept(Moved("event", {}), returned.of, dependants', relied, {})
          /\ Linked(Moved("event", {}), returned.of, dependants', {})
          /\ Above(Moved("event", {}))
      BY <2>1, <2>2, MoveStop
    <2> QED
      BY <2>1, <2>3, MoveDep
  <1>13. CASE Stopped
    BY <1>13, ReturnDep DEF Stopped, At, maps, history
  <1> QED
    BY <1>1, <1>2, <1>3, <1>4, <1>5, <1>6, <1>7, <1>8, <1>9, <1>10, <1>11, <1>12, <1>13
    DEF Handler

\* A call from outside, or by a script whose event is triggered.
LEMMA OuterDep ==
    ASSUME Inv, WaitInv, DepInv, Idle \/ ScriptsCalled, NEW r \in Resource,
           Start(r, stack) \/ Stop(r, stack), dependants' = dependants, depends' = depends
    PROVE  DepInv'
  <1>1. \A i \in 1..Len(stack) : i = Len(stack) => ~Asking(stack[i])
    <2>1. CASE Idle
      BY <2>1, EmptySeq DEF Idle
    <2>2. CASE ScriptsCalled
      BY <2>2 DEF ScriptsCalled, At, Top, Last, Asking
    <2> QED
      BY <2>1, <2>2
  <1>2. Sound(stack) /\ Ready(stack, returned.of, r)
    BY <1>1, StackIsSound DEF Ready
  <1>3. /\ Kept(stack, returned.of, dependants, relied, {r})
        /\ Linked(stack, returned.of, dependants, {r})
    BY DEF DepInv, Kept, Linked
  <1>4. depends \in Graphs /\ Above(stack)
    BY DEF DepInv
  <1>5. CASE Start(r, stack)
    BY <1>2, <1>5, StartDep DEF DepInv
  <1>6. CASE Stop(r, stack)
    BY <1>1, <1>2, <1>3, <1>4, <1>6, StopDep
  <1> QED
    BY <1>5, <1>6

LEMMA DepStep == Inv /\ WaitInv /\ DepInv /\ [Next]_vars => DepInv'
  <1> SUFFICES ASSUME Inv, WaitInv, DepInv, [Next]_vars PROVE DepInv'
    OBVIOUS
  <1>1. CASE \E r \in Resource : StartCommand(r) \/ StopCommand(r)
    BY <1>1, OuterDep DEF StartCommand, StopCommand, maps
  <1>2. CASE \E s, r \in Resource : ScriptCall(s, r)
    BY <1>2, OuterDep DEF ScriptCall, maps
  <1>3. CASE UNCHANGED vars
    BY <1>3 DEF vars, maps, history, DepInv, Kept, Linked, Above, Good, Took, Past, WillStop,
                Stopping, Asking, Awaited, At, Idle, Top
  <1> QED
    BY <1>1, <1>2, <1>3, HandlerDep DEF Next

\* The dependencies of a started resource are started, whatever starts and stops are
\* nested in each other: the list of dependants that Stop goes through is a copy, and
\* dependants that come in meanwhile are excused only if they took a dependency whose
\* own call had not returned (ResourceDependencyLoader.cpp:33-76,135-160).
THEOREM DependenciesAreStarted == Spec => []DependenciesStarted
  <1>1. Init => DepInv
    BY EmptySeq DEF Init, DepInv, Kept, Linked, Above, Good, Took, At, Idle
  <1>2. DepInv => DependenciesStarted
    <2> SUFFICES ASSUME DepInv, Idle, NEW p \in depends, state[p[1]] = "started",
                        p[1] \notin crossed, <<p[2], p[1]>> \notin relied
                 PROVE  state[p[2]] = "started"
      BY DEF DependenciesStarted
    <2>1. p \in Resource \X Resource
      BY GraphsAssumption DEF DepInv
    <2>2. Took(stack, returned.of, relied, p[1], p[2])
      BY <2>1 DEF Took
    <2> QED
      BY <2>1, <2>2 DEF DepInv, Kept
  <1>3. Init => WaitInv
    BY EmptySeq DEF Init, WaitInv, Twice, Busy, Waits, Answered, At, Idle
  <1> QED
    BY <1>1, <1>2, <1>3, DepStep, WaitStep, AlwaysInv, PTL DEF Spec
-----------------------------------------------------------------------------
(* A started resource runs once and is announced once.                      *)

\* From here on the call will leave its resource started.
Committed(frame) == frame.op = "start" /\ frame.at \in {"event", "waiting"}

\* Scripts run, and clients are told, only of what is started or about to be, also
\* when the calls of a resource have met.
Ghosts(frames) == \A r \in Resource :
    /\ announced[r] > 0 => state[r] = "started"
    /\ running[r] > 0 =>
          \/ state[r] = "started"
          \/ \E i \in 1..Len(frames) : frames[i].of = r /\ Committed(frames[i])

Times(to) == IF to = "started" THEN 1 ELSE 0

\* How far a call has come, when it has not met another of its resource.
Shows(frame, to, runs, told) ==
    IF frame.op = "start"
      THEN runs = (IF Committed(frame) THEN 1 ELSE 0) /\ told = 0
      ELSE to = "started" /\ runs = 1 /\ told = 1

Shown(frames) == \A r \in Resource \ crossed :
    /\ \A i \in 1..Len(frames) :
          frames[i].of = r => Shows(frames[i], state[r], running[r], announced[r])
    /\ (\A i \in 1..Len(frames) : frames[i].of # r) =>
          running[r] = Times(state[r]) /\ announced[r] = Times(state[r])

ShowInv ==
    /\ running \in [Resource -> Nat] /\ announced \in [Resource -> Nat]
    /\ Ghosts(stack) /\ Shown(stack)

\* Nothing is announced of a resource that is not started, and nothing runs of it but
\* inside a call that will leave it started.
LEMMA QuietGhosts ==
    ASSUME NEW r \in Resource, NEW below, Ghosts(below), state[r] # "started",
           running \in [Resource -> Nat], announced \in [Resource -> Nat]
    PROVE  /\ announced[r] = 0
           /\ (\A i \in 1..Len(below) : below[i].of # r) => running[r] = 0
  <1>1. running[r] \in Nat /\ announced[r] \in Nat
    OBVIOUS
  <1>2. /\ ~(announced[r] > 0)
        /\ running[r] > 0 => \E i \in 1..Len(below) : below[i].of = r
    BY DEF Ghosts
  <1> QED
    BY <1>1, <1>2

\* A call of Start, or of Stop, has not done anything yet.
LEMMA StartShows ==
    ASSUME Inv, WaitInv, NEW below, Sound(below), NEW r \in Resource, Start(r, below),
           running \in [Resource -> Nat], announced \in [Resource -> Nat],
           Ghosts(below), Shown(below), running' = running, announced' = announced
    PROVE  ShowInv'
  <1> USE DEF Times
  <1>0. below \in Seq(Frame) /\ Len(below) \in Nat
    BY LenProperties DEF Sound
  <1>1. CASE state[r] = "started" /\ Return(below, r, "started", TRUE) /\ UNCHANGED history
    <2>1. state' = state /\ stack' = below /\ crossed' = crossed
      BY <1>1 DEF Return, history, Inv, Types
    <2> QED
      BY <2>1 DEF ShowInv, Ghosts, Shown, Shows, Committed
  <1>2. CASE /\ state[r] = "starting" /\ Call(below, "start", r, "filter", {})
             /\ Cross(r) /\ UNCHANGED <<state, returned>>
    <2>1. OnStack(r)
      BY <1>2, LenProperties DEF Inv, Types, Covers, OnStack
    <2>2. r \in crossed' /\ crossed \subseteq crossed'
      BY <1>2, <2>1 DEF Cross
    <2>3. /\ Len(stack') = Len(below) + 1 /\ \A i \in 1..Len(below) : stack'[i] = below[i]
          /\ stack'[Len(below) + 1].of = r
      BY <1>0, <1>2, CallFrames DEF Step
    <2>4. \A i \in 1..Len(below) : i \in 1..Len(below) + 1
      BY <1>0
    <2>5. \A i \in 1..Len(below) + 1 : i \in 1..Len(below) \/ i = Len(below) + 1
      BY <1>0
    <2>6. Ghosts(stack)'
      BY <1>2, <2>3, <2>4 DEF Ghosts
    <2>7. Shown(stack)'
      <3> SUFFICES ASSUME NEW x \in Resource \ crossed'
                   PROVE  /\ \A i \in 1..Len(below) + 1 : stack'[i].of = x => Shows(stack'[i], state'[x], running[x], announced[x])
                          /\ (\A i \in 1..Len(below) + 1 : stack'[i].of # x) =>
                                running[x] = Times(state'[x]) /\ announced[x] = Times(state'[x])
        BY <2>3 DEF Shown
      <3>1. x # r /\ x \in Resource \ crossed
        BY <2>2
      <3> QED
        BY <1>2, <2>3, <2>4, <2>5, <3>1 DEF Shown, Shows
    <2> QED
      BY <2>6, <2>7 DEF ShowInv
  <1>3. CASE /\ state[r] = "stopped" /\ Call(below, "start", r, "starting", {})
             /\ state' = [state EXCEPT ![r] = "starting"] /\ Begin(r) /\ UNCHANGED returned
    <2>1. /\ OnStack(r) => r \in crossed'
          /\ \A x \in Resource : x # r /\ x \notin crossed' => x \notin crossed
      BY <1>3 DEF Begin
    <2>2. /\ Len(stack') = Len(below) + 1 /\ \A i \in 1..Len(below) : stack'[i] = below[i]
          /\ stack'[Len(below) + 1].of = r /\ stack'[Len(below) + 1].op = "start"
          /\ stack'[Len(below) + 1].at = "starting"
      BY <1>0, <1>3, CallFrames DEF Step
    <2>3. /\ state'[r] = "starting" /\ \A x \in Resource : x # r => state'[x] = state[x]
          /\ announced[r] = 0
      <3>1. state' = [state EXCEPT ![r] = "starting"] /\ state[r] = "stopped"
        BY <1>3
      <3>2. state \in [Resource -> {"stopped", "starting", "started"}]
        BY DEF Inv, Types
      <3>3. announced[r] = 0
        BY <3>1, QuietGhosts
      <3> QED
        BY <3>1, <3>2, <3>3
    <2>4. \A i \in 1..Len(below) : i \in 1..Len(below) + 1
      BY <1>0
    <2>5. \A i \in 1..Len(below) + 1 : i \in 1..Len(below) \/ i = Len(below) + 1
      BY <1>0
    <2>6. Ghosts(stack)'
      <3> SUFFICES ASSUME NEW x \in Resource
                   PROVE  /\ announced[x] > 0 => state'[x] = "started"
                          /\ running[x] > 0 =>
                                \/ state'[x] = "started"
                                \/ \E i \in 1..Len(below) + 1 : stack'[i].of = x /\ Committed(stack'[i])
        BY <2>2 DEF Ghosts
      <3>1. state[x] = "started" => x # r
        BY <1>3
      <3> QED
        BY <2>2, <2>3, <2>4, <3>1 DEF Ghosts
    <2>7. Shown(stack)'
      <3> SUFFICES ASSUME NEW x \in Resource \ crossed'
                   PROVE  /\ \A i \in 1..Len(below) + 1 : stack'[i].of = x => Shows(stack'[i], state'[x], running[x], announced[x])
                          /\ (\A i \in 1..Len(below) + 1 : stack'[i].of # x) =>
                                running[x] = Times(state'[x]) /\ announced[x] = Times(state'[x])
        BY <2>2 DEF Shown
      <3>1. CASE x = r
        <4>1. ~OnStack(r)
          BY <2>1, <3>1
        <4>2. \A i \in 1..Len(below) : below[i].of # r
          BY <4>1 DEF Sound
        <4>3. running[r] = 0
          BY <1>3, <4>2, QuietGhosts
        <4> QED
          BY <1>0, <2>2, <2>3, <2>5, <3>1, <4>2, <4>3 DEF Shows, Committed
      <3>2. CASE x # r
        <4>1. x \in Resource \ crossed /\ state'[x] = state[x]
          BY <2>1, <2>3, <3>2
        <4>2. \A i \in 1..Len(below) + 1 :
                  stack'[i].of = x => i \in 1..Len(below) /\ stack'[i] = below[i]
          BY <2>2, <2>5, <3>2
        <4>3. \A i \in 1..Len(below) + 1 :
                  stack'[i].of = x => Shows(stack'[i], state'[x], running[x], announced[x])
          BY <4>1, <4>2 DEF Shown
        <4>4. (\A i \in 1..Len(below) + 1 : stack'[i].of # x) =>
                  \A i \in 1..Len(below) : below[i].of # x
          BY <2>2, <2>4
        <4> QED
          BY <4>1, <4>3, <4>4 DEF Shown
      <3> QED
        BY <3>1, <3>2
    <2> QED
      BY <2>6, <2>7 DEF ShowInv
  <1> QED
    BY <1>1, <1>2, <1>3 DEF Start

LEMMA StopShows ==
    ASSUME Inv, WaitInv, NEW below, Sound(below), NEW r \in Resource, Stop(r, below),
           running \in [Resource -> Nat], announced \in [Resource -> Nat],
           Ghosts(below), Shown(below), running' = running, announced' = announced
    PROVE  ShowInv'
  <1> USE DEF Times
  <1>0. below \in Seq(Frame) /\ Len(below) \in Nat
    BY LenProperties DEF Sound
  <1>1. CASE state[r] = "stopped" /\ Return(below, r, "stopped", TRUE) /\ UNCHANGED history
    <2>1. state' = state /\ stack' = below /\ crossed' = crossed
      BY <1>1 DEF Return, history, Inv, Types
    <2> QED
      BY <2>1 DEF ShowInv, Ghosts, Shown, Shows, Committed
  <1>2. CASE /\ Call(below, "stop", r, "dependants", {x \in Resource \ {r} : <<r, x>> \in dependants})
             /\ Cross(r) /\ UNCHANGED <<state, returned>> /\ state[r] # "stopped"
    <2>1. (OnStack(r) => r \in crossed') /\ crossed \subseteq crossed'
      BY <1>2 DEF Cross
    <2>2. /\ Len(stack') = Len(below) + 1 /\ \A i \in 1..Len(below) : stack'[i] = below[i]
          /\ stack'[Len(below) + 1].of = r /\ stack'[Len(below) + 1].op = "stop"
      <3> DEFINE todo == {x \in Resource \ {r} : <<r, x>> \in dependants}
      <3>1. todo \in SUBSET Resource /\ "dependants" \in Step
        BY DEF Step
      <3> HIDE DEF todo
      <3>2. Call(below, "stop", r, "dependants", todo)
        BY <1>2 DEF todo
      <3> QED
        BY <1>0, <3>1, <3>2, CallFrames
    <2>3. \A i \in 1..Len(below) : i \in 1..Len(below) + 1
      BY <1>0
    <2>4. \A i \in 1..Len(below) + 1 : i \in 1..Len(below) \/ i = Len(below) + 1
      BY <1>0
    <2>5. Ghosts(stack)'
      BY <1>2, <2>2, <2>3 DEF Ghosts
    <2>6. Shown(stack)'
      <3> SUFFICES ASSUME NEW x \in Resource \ crossed'
                   PROVE  /\ \A i \in 1..Len(below) + 1 : stack'[i].of = x => Shows(stack'[i], state'[x], running[x], announced[x])
                          /\ (\A i \in 1..Len(below) + 1 : stack'[i].of # x) =>
                                running[x] = Times(state'[x]) /\ announced[x] = Times(state'[x])
        BY <2>2 DEF Shown
      <3>0. x \in Resource \ crossed
        BY <2>1
      <3>1. CASE x = r
        <4>1. ~OnStack(r)
          BY <2>1, <3>1
        <4>2. \A i \in 1..Len(below) : below[i].of # r
          BY <4>1 DEF Sound
        <4>3. state[r] # "starting"
          BY <4>1, LenProperties DEF Inv, Types, Covers, OnStack
        <4>4. state[r] = "started"
          BY <1>2, <4>3 DEF Inv, Types
        <4> QED
          <5>1. running[x] = 1 /\ announced[x] = 1 /\ state'[x] = "started"
            BY <1>2, <3>0, <3>1, <4>2, <4>4 DEF Shown
          <5>2. \A i \in 1..Len(below) + 1 : stack'[i].of = x => i = Len(below) + 1
            BY <2>2, <2>4, <3>1, <4>2
          <5>3. Shows(stack'[Len(below) + 1], state'[x], running[x], announced[x])
            BY <2>2, <5>1 DEF Shows
          <5>4. Len(below) + 1 \in 1..Len(below) + 1
            BY <1>0
          <5> QED
            BY <2>2, <3>1, <5>2, <5>3, <5>4
      <3>2. CASE x # r
        BY <1>2, <2>2, <2>3, <2>4, <3>0, <3>2, SMTT(30) DEF Shown, Shows
      <3> QED
        BY <3>1, <3>2
    <2> QED
      BY <2>5, <2>6 DEF ShowInv
  <1> QED
    BY <1>1, <1>2 DEF Stop

\* A step between two handlers shows nothing.
LEMMA MoveShows ==
    ASSUME Inv, ShowInv, ~Idle, NEW step \in Step, NEW todo \in SUBSET Resource,
           Top.op = "start" => (step \in {"event", "waiting"} <=> Top.at \in {"event", "waiting"})
    PROVE  Ghosts(Moved(step, todo)) /\ Shown(Moved(step, todo))
  <1> DEFINE n == Len(stack) - 1
             frames == Moved(step, todo)
  <1>1. /\ n \in Nat /\ Len(stack) = n + 1 /\ Len(frames) = n + 1
        /\ \A i \in 1..n : frames[i] = stack[i]
        /\ Top = stack[n + 1] /\ frames[n + 1].of = Top.of /\ frames[n + 1].op = Top.op
        /\ frames[n + 1].at = step
    BY MovedTop
  <1> HIDE DEF n, frames
  <1>2. \A i \in 1..n + 1 : /\ frames[i].of = stack[i].of /\ frames[i].op = stack[i].op
                            /\ Committed(frames[i]) <=> Committed(stack[i])
    <2> SUFFICES ASSUME NEW i \in 1..n + 1
                 PROVE  /\ frames[i].of = stack[i].of /\ frames[i].op = stack[i].op
                        /\ Committed(frames[i]) <=> Committed(stack[i])
      OBVIOUS
    <2>1. i \in 1..n \/ i = n + 1
      BY <1>1
    <2>2. CASE i = n + 1
      BY <1>1, <2>2 DEF Committed
    <2> QED
      BY <1>1, <2>1, <2>2
  <1>3. ASSUME NEW i \in 1..n + 1, NEW to, NEW runs, NEW told, Shows(stack[i], to, runs, told)
        PROVE  Shows(frames[i], to, runs, told)
    BY <1>2, <1>3 DEF Shows
  <1>4. Ghosts(frames)
    BY <1>1, <1>2 DEF ShowInv, Ghosts
  <1>5. Shown(frames)
    BY <1>1, <1>2, <1>3, SMTT(30) DEF ShowInv, Shown
  <1> QED
    BY <1>4, <1>5 DEF frames

LEMMA StepShows ==
    ASSUME Inv, ShowInv, ~Idle, NEW step \in Step, NEW todo \in SUBSET Resource,
           Top.op = "start" => (step \in {"event", "waiting"} <=> Top.at \in {"event", "waiting"}),
           MoveTo(step, todo), crossed' = crossed, running' = running, announced' = announced
    PROVE  ShowInv'
  <1>1. Ghosts(Moved(step, todo)) /\ Shown(Moved(step, todo))
    BY MoveShows
  <1>2. stack' = Moved(step, todo) /\ state' = state
    BY DEF MoveTo
  <1> QED
    BY <1>1, <1>2 DEF ShowInv, Ghosts, Shown, Shows, Times, Committed

\* The scripts are loaded.
LEMMA LoadShows ==
    ASSUME Inv, WaitInv, ShowInv, ~Idle, Top.op = "start", Top.at = "filter",
           MoveTo("event", {}), crossed' = crossed, announced' = announced,
           running' = [running EXCEPT ![Top.of] = @ + 1]
    PROVE  ShowInv'
  <1> DEFINE n == Len(stack) - 1
             r == Top.of
  <1>1. /\ n \in Nat /\ Len(stack) = n + 1 /\ Len(stack') = n + 1
        /\ \A i \in 1..n : stack'[i] = stack[i]
        /\ Top = stack[n + 1] /\ stack'[n + 1].of = r /\ stack'[n + 1].op = "start"
        /\ stack'[n + 1].at = "event" /\ state' = state
    <2>1. "event" \in Step /\ {} \in SUBSET Resource
      BY DEF Step
    <2> QED
      BY <2>1, MovedTop DEF MoveTo
  <1>2. /\ r \in Resource /\ running' \in [Resource -> Nat] /\ running'[r] = running[r] + 1
        /\ \A x \in Resource : x # r => running'[x] = running[x]
    BY InnermostCall DEF ShowInv
  <1> HIDE DEF n, r
  <1>3. \A i \in 1..n : i \in 1..n + 1 /\ i < n + 1
    BY <1>1
  <1>4. \A i \in 1..n + 1 : i \in 1..n \/ i = n + 1
    BY <1>1
  <1>5. n + 1 \in 1..n + 1
    BY <1>1
  <1>6. Ghosts(stack)'
    <2> SUFFICES ASSUME NEW x \in Resource
                 PROVE  /\ announced[x] > 0 => state[x] = "started"
                        /\ running'[x] > 0 =>
                              \/ state[x] = "started"
                              \/ \E i \in 1..n + 1 : stack'[i].of = x /\ Committed(stack'[i])
      BY <1>1 DEF Ghosts
    <2>1. announced[x] > 0 => state[x] = "started"
      BY DEF ShowInv, Ghosts
    <2>2. CASE x = r
      BY <1>1, <1>5, <2>1, <2>2 DEF Committed
    <2>3. CASE x # r
      <3>1. ASSUME NEW i \in 1..n + 1, stack[i].of = x, Committed(stack[i])
            PROVE  i \in 1..n /\ stack'[i] = stack[i]
        BY <1>1, <1>4, <2>3, <3>1 DEF r
      <3> QED
        BY <1>1, <1>2, <2>1, <2>3, <3>1 DEF ShowInv, Ghosts
    <2> QED
      BY <2>2, <2>3
  <1>7. Shown(stack)'
    <2> SUFFICES ASSUME NEW x \in Resource \ crossed
                 PROVE  /\ \A i \in 1..n + 1 : stack'[i].of = x => Shows(stack'[i], state'[x], running'[x], announced[x])
                        /\ (\A i \in 1..n + 1 : stack'[i].of # x) =>
                              running'[x] = Times(state'[x]) /\ announced[x] = Times(state'[x])
      BY <1>1 DEF Shown
    <2>1. CASE x = r
      <3>1. \A i \in 1..n : stack[i].of # r
        BY <1>1, <1>3, <1>5, <2>1 DEF WaitInv, Twice, r
      <3>2. running[r] = 0 /\ announced[r] = 0
        BY <1>1, <1>5, <2>1 DEF ShowInv, Shown, Shows, Committed, r
      <3>3. Shows(stack'[n + 1], state'[r], running'[r], announced[r])
        BY <1>1, <1>2, <3>2 DEF Shows, Committed
      <3> QED
        BY <1>1, <1>4, <1>5, <2>1, <3>1, <3>3
    <2>2. CASE x # r
      <3>1. \A i \in 1..n + 1 : stack[i].of = x => i \in 1..n /\ stack'[i] = stack[i]
        BY <1>1, <1>4, <2>2 DEF r
      <3>2. \A i \in 1..n + 1 : stack'[i].of = x => i \in 1..n /\ stack'[i] = stack[i]
        BY <1>1, <1>4, <2>2
      <3>3. \A i \in 1..n + 1 : stack'[i].of = x => Shows(stack'[i], state'[x], running'[x], announced[x])
        BY <1>1, <1>2, <2>2, <3>2 DEF ShowInv, Shown, Shows, Committed
      <3>4. (\A i \in 1..n + 1 : stack'[i].of # x) => \A i \in 1..n + 1 : stack[i].of # x
        BY <3>1
      <3> QED
        BY <1>1, <1>2, <2>2, <3>3, <3>4 DEF ShowInv, Shown, Times
    <2> QED
      BY <2>1, <2>2
  <1> QED
    BY <1>2, <1>6, <1>7 DEF ShowInv

\* A call returns: what its resource shows is what its state says.
LEMMA ReturnShows ==
    ASSUME Inv, WaitInv, ShowInv, ~Idle, NEW to, NEW ok, Return(Front(stack), Top.of, to, ok),
           crossed' = crossed, running' \in [Resource -> Nat], announced' \in [Resource -> Nat],
           \A x \in Resource : x # Top.of => running'[x] = running[x] /\ announced'[x] = announced[x],
           announced'[Top.of] > 0 => to = "started",
           running'[Top.of] > 0 =>
              \/ to = "started"
              \/ \E i \in 1..Len(stack) - 1 : stack[i].of = Top.of /\ Committed(stack[i]),
           Top.of \notin crossed => running'[Top.of] = Times(to) /\ announced'[Top.of] = Times(to)
    PROVE  ShowInv'
  <1> DEFINE n == Len(stack) - 1
             r == Top.of
  <1>1. /\ Len(stack') = n /\ Len(stack) = n + 1 /\ n \in Nat
        /\ \A i \in 1..n : stack'[i] = stack[i]
        /\ Top = stack[n + 1] /\ r \in Resource
    BY FrontFrames DEF Inv, Types, Return, Frame
  <1>2. state'[r] = to /\ \A x \in Resource : x # r => state'[x] = state[x]
    BY <1>1 DEF Return, Inv, Types
  <1>3. \A i \in 1..n : i \in 1..n + 1 /\ i < n + 1
    BY <1>1
  <1>4. \A i \in 1..n + 1 : i \in 1..n \/ i = n + 1
    BY <1>1
  <1>5. n + 1 \in 1..n + 1
    BY <1>1
  <1>6. Ghosts(stack)'
    <2> SUFFICES ASSUME NEW x \in Resource
                 PROVE  /\ announced'[x] > 0 => state'[x] = "started"
                        /\ running'[x] > 0 =>
                              \/ state'[x] = "started"
                              \/ \E i \in 1..n : stack'[i].of = x /\ Committed(stack'[i])
      BY <1>1 DEF Ghosts
    <2>1. CASE x = r
      <3>1. announced'[r] > 0 => to = "started"
        OBVIOUS
      <3>2. running'[r] > 0 => to = "started" \/ \E i \in 1..n : stack[i].of = r /\ Committed(stack[i])
        OBVIOUS
      <3> HIDE DEF n, r
      <3> QED
        BY <1>1, <1>2, <2>1, <3>1, <3>2
    <2>2. CASE x # r
      <3>1. \A i \in 1..n + 1 : stack[i].of = x => i \in 1..n /\ stack'[i] = stack[i]
        BY <1>1, <1>4, <2>2
      <3> QED
        BY <1>1, <1>2, <2>2, <3>1 DEF ShowInv, Ghosts
    <2> QED
      BY <2>1, <2>2
  <1>7. Shown(stack)'
    <2> SUFFICES ASSUME NEW x \in Resource \ crossed
                 PROVE  /\ \A i \in 1..n : stack'[i].of = x => Shows(stack'[i], state'[x], running'[x], announced'[x])
                        /\ (\A i \in 1..n : stack'[i].of # x) =>
                              running'[x] = Times(state'[x]) /\ announced'[x] = Times(state'[x])
      BY <1>1 DEF Shown
    <2>1. CASE x = r
      <3>1. \A i \in 1..n : stack[i].of # r
        BY <1>1, <1>3, <1>5, <2>1 DEF WaitInv, Twice
      <3> QED
        BY <1>1, <1>2, <2>1, <3>1 DEF Times
    <2>2. CASE x # r
      <3>1. \A i \in 1..n + 1 : stack[i].of = x => i \in 1..n /\ stack'[i] = stack[i]
        BY <1>1, <1>4, <2>2
      <3>0. state'[x] = state[x] /\ running'[x] = running[x] /\ announced'[x] = announced[x]
        BY <1>2, <2>2
      <3>2. \A i \in 1..n : stack'[i].of = x => Shows(stack'[i], state'[x], running'[x], announced'[x])
        BY <1>1, <1>3, <3>0 DEF ShowInv, Shown
      <3>3. (\A i \in 1..n : stack'[i].of # x) => \A i \in 1..n + 1 : stack[i].of # x
        BY <1>1, <3>1
      <3> QED
        BY <1>1, <3>0, <3>2, <3>3 DEF ShowInv, Shown
    <2> QED
      BY <2>1, <2>2
  <1> QED
    BY <1>6, <1>7 DEF ShowInv

\* What the innermost call shows.
LEMMA TopShows ==
    ASSUME Inv, ShowInv, ~Idle
    PROVE  Top.of \notin crossed => Shows(Top, state[Top.of], running[Top.of], announced[Top.of])
  <1>1. Len(stack) \in 1..Len(stack) /\ Top = stack[Len(stack)] /\ Top.of \in Resource
    BY FrontFrames, InnermostCall DEF Inv, Types
  <1> QED
    BY <1>1 DEF ShowInv, Shown

LEMMA FailShows ==
    ASSUME Inv, WaitInv, ShowInv, ~Idle, Top.op = "start", Top.at \notin {"event", "waiting"}, Fail,
           crossed' = crossed, running' = running, announced' = announced
    PROVE  ShowInv'
  <1> DEFINE n == Len(stack) - 1
             to == IF state[Top.of] = "started" THEN "started" ELSE "stopped"
  <1>1. Top.of \in Resource /\ n \in Nat /\ Len(stack) = n + 1 /\ Top = stack[n + 1]
    BY FrontFrames, InnermostCall DEF Inv, Types
  <1>2. Return(Front(stack), Top.of, to, FALSE)
    BY DEF Fail
  <1>3. announced[Top.of] > 0 => to = "started"
    BY <1>1 DEF ShowInv, Ghosts
  <1>4. ASSUME running[Top.of] > 0, to # "started"
        PROVE  \E i \in 1..n : stack[i].of = Top.of /\ Committed(stack[i])
    <2>1. PICK i \in 1..n + 1 : stack[i].of = Top.of /\ Committed(stack[i])
      BY <1>1, <1>4 DEF ShowInv, Ghosts
    <2>2. i # n + 1
      BY <1>1, <2>1 DEF Committed
    <2>3. n \in Nat /\ i \in 1..n + 1
      BY <1>1
    <2> HIDE DEF n
    <2>4. i \in 1..n
      BY <2>2, <2>3
    <2> QED
      BY <2>1, <2>4
  <1>5. Top.of \notin crossed => running[Top.of] = Times(to) /\ announced[Top.of] = Times(to)
    <2> SUFFICES ASSUME Top.of \notin crossed
                 PROVE  running[Top.of] = Times(to) /\ announced[Top.of] = Times(to)
      OBVIOUS
    <2>1. state[Top.of] = "starting"
      <3>1. n + 1 \in 1..n + 1
        BY <1>1
      <3> QED
        BY <1>1, <3>1 DEF WaitInv, Busy
    <2> QED
      BY <2>1, TopShows DEF Shows, Committed, Times
  <1> HIDE DEF to
  <1> QED
    BY <1>2, <1>3, <1>4, <1>5, ReturnShows DEF ShowInv

LEMMA HandlerShows ==
    ASSUME Inv, WaitInv, ShowInv, Handler
    PROVE  ShowInv'
  <1> ~Idle
    BY DEF Handler, At, Starting, TakeDependency, StartDependency, DependencyReturned,
           MissDependency, Build, Built, LoadScripts, StartEvent, StartWaiting, Started, StopDependant,
           DependantsStopped, Stopped
  <1> Top.of \in Resource /\ Top.todo \subseteq Resource
    BY InnermostCall
  <1> /\ {d \in Resource : <<Top.of, d>> \in depends} \in SUBSET Resource
      /\ {x \in Resource : <<Top.of, x>> \in waiting} \in SUBSET Resource
      /\ {} \in SUBSET Resource
    OBVIOUS
  <1> /\ "dependencies" \in Step /\ "awaiting" \in Step /\ "built" \in Step /\ "filter" \in Step
      /\ "event" \in Step /\ "waiting" \in Step /\ "dependants" \in Step
    BY DEF Step
  <1> running \in [Resource -> Nat] /\ announced \in [Resource -> Nat]
    BY DEF ShowInv
  <1> USE DEF effects, order, maps, history
  <1>1. CASE Starting
    BY <1>1, StepShows, FailShows DEF Starting, At
  <1>2. CASE TakeDependency
    <2> PICK d \in Top.todo : MoveTo("dependencies", Top.todo \ {d})
      BY <1>2 DEF TakeDependency
    <2> Top.todo \ {d} \in SUBSET Resource
      OBVIOUS
    <2> QED
      BY <1>2, StepShows DEF TakeDependency, At
  <1>3. CASE StartDependency
    <2> PICK d \in Top.todo : Start(d, Moved("awaiting", Top.todo \ {d}))
      BY <1>3 DEF StartDependency
    <2> Top.todo \ {d} \in SUBSET Resource /\ d \in Resource
      OBVIOUS
    <2>1. /\ Ghosts(Moved("awaiting", Top.todo \ {d})) /\ Shown(Moved("awaiting", Top.todo \ {d}))
          /\ Sound(Moved("awaiting", Top.todo \ {d}))
      BY <1>3, MoveShows, MovedIsSound DEF StartDependency, At
    <2> QED
      BY <1>3, <2>1, StartShows DEF StartDependency
  <1>4. CASE DependencyReturned
    <2> Top.todo \in SUBSET Resource
      OBVIOUS
    <2> QED
      BY <1>4, StepShows, FailShows DEF DependencyReturned, At
  <1>5. CASE Build
    <2>1. CASE Start(Top.of, Moved("built", {}))
      <3>1. Ghosts(Moved("built", {})) /\ Shown(Moved("built", {})) /\ Sound(Moved("built", {}))
        BY <1>5, MoveShows, MovedIsSound DEF Build, At
      <3> QED
        BY <1>5, <2>1, <3>1, StartShows DEF Build
    <2> QED
      BY <1>5, <2>1, StepShows, FailShows DEF Build, At
  <1>6. CASE Built \/ MissDependency
    BY <1>6, FailShows DEF Built, MissDependency, At
  <1>7. CASE LoadScripts
    BY <1>7, FailShows, LoadShows DEF LoadScripts, At
  <1>8. CASE StartEvent
    BY <1>8, StepShows DEF StartEvent, At
  <1>9. CASE StartWaiting
    <2> PICK x \in Top.todo : Start(x, Moved("waiting", Top.todo \ {x}))
      BY <1>9 DEF StartWaiting
    <2> Top.todo \ {x} \in SUBSET Resource /\ x \in Resource
      OBVIOUS
    <2>1. /\ Ghosts(Moved("waiting", Top.todo \ {x})) /\ Shown(Moved("waiting", Top.todo \ {x}))
          /\ Sound(Moved("waiting", Top.todo \ {x}))
      BY <1>9, MoveShows, MovedIsSound DEF StartWaiting, At
    <2> QED
      BY <1>9, <2>1, StartShows DEF StartWaiting
  <1>10. CASE Started
    <2>1. /\ Return(Front(stack), Top.of, "started", TRUE) /\ running' = running
          /\ announced' = [announced EXCEPT ![Top.of] = @ + 1] /\ crossed' = crossed
          /\ Top.op = "start" /\ Top.at = "waiting"
      BY <1>10 DEF Started, Announce, At
    <2>2. /\ announced' \in [Resource -> Nat] /\ announced'[Top.of] = announced[Top.of] + 1
          /\ \A x \in Resource : x # Top.of => announced'[x] = announced[x]
      BY <2>1
    <2>3. Top.of \notin crossed => /\ running'[Top.of] = Times("started")
                                  /\ announced'[Top.of] = Times("started")
      BY <2>1, <2>2, TopShows DEF Shows, Committed, Times
    <2>4. running' \in [Resource -> Nat] /\ \A x \in Resource : running'[x] = running[x]
      BY <2>1
    <2> QED
      BY <2>1, <2>2, <2>3, <2>4, ReturnShows
  <1>11. CASE StopDependant
    <2> PICK x \in Top.todo : Stop(x, Moved("dependants", Top.todo \ {x}))
      BY <1>11 DEF StopDependant
    <2> Top.todo \ {x} \in SUBSET Resource /\ x \in Resource
      OBVIOUS
    <2>1. /\ Ghosts(Moved("dependants", Top.todo \ {x})) /\ Shown(Moved("dependants", Top.todo \ {x}))
          /\ Sound(Moved("dependants", Top.todo \ {x}))
      BY <1>11, MoveShows, MovedIsSound DEF StopDependant, At
    <2> QED
      BY <1>11, <2>1, StopShows DEF StopDependant
  <1>12. CASE DependantsStopped
    BY <1>12, StepShows DEF DependantsStopped, At
  <1>13. CASE Stopped
    <2>1. /\ Return(Front(stack), Top.of, "stopped", TRUE)
          /\ running' = [running EXCEPT ![Top.of] = 0]
          /\ announced' = [announced EXCEPT ![Top.of] = 0] /\ crossed' = crossed
      BY <1>13 DEF Stopped, Withdraw
    <2>2. /\ running' \in [Resource -> Nat] /\ announced' \in [Resource -> Nat]
          /\ running'[Top.of] = 0 /\ announced'[Top.of] = 0
          /\ \A x \in Resource : x # Top.of => running'[x] = running[x] /\ announced'[x] = announced[x]
      BY <2>1
    <2>3. ~(running'[Top.of] > 0) /\ ~(announced'[Top.of] > 0)
      BY <2>2
    <2>4. running'[Top.of] = Times("stopped") /\ announced'[Top.of] = Times("stopped")
      BY <2>2 DEF Times
    <2> QED
      BY <2>1, <2>2, <2>3, <2>4, ReturnShows
  <1> QED
    BY <1>1, <1>2, <1>3, <1>4, <1>5, <1>6, <1>7, <1>8, <1>9, <1>10, <1>11, <1>12, <1>13
    DEF Handler

LEMMA ShowStep == Inv /\ WaitInv /\ ShowInv /\ [Next]_vars => ShowInv'
  <1> SUFFICES ASSUME Inv, WaitInv, ShowInv, [Next]_vars PROVE ShowInv'
    OBVIOUS
  <1>0. /\ Sound(stack) /\ Ghosts(stack) /\ Shown(stack)
        /\ running \in [Resource -> Nat] /\ announced \in [Resource -> Nat]
    BY StackIsSound DEF ShowInv
  <1>1. CASE \E r \in Resource : StartCommand(r) \/ StopCommand(r)
    BY <1>0, <1>1, StartShows, StopShows DEF StartCommand, StopCommand, effects, order
  <1>2. CASE \E s, r \in Resource : ScriptCall(s, r)
    BY <1>0, <1>2, StartShows, StopShows DEF ScriptCall, effects, order
  <1>3. CASE UNCHANGED vars
    BY <1>3 DEF vars, effects, order, history, ShowInv, Ghosts, Shown, Shows, Times, Committed
  <1> QED
    BY <1>1, <1>2, <1>3, HandlerShows DEF Next

LEMMA AlwaysShow == Spec => [](Inv /\ WaitInv /\ DepInv /\ ShowInv)
  <1>1. Init => WaitInv
    BY EmptySeq DEF Init, WaitInv, Twice, Busy, Waits, Answered, At, Idle
  <1>2. Init => DepInv
    BY EmptySeq DEF Init, DepInv, Kept, Linked, Above, Good, Took, At, Idle
  <1>3. Init => ShowInv
    BY EmptySeq DEF Init, ShowInv, Ghosts, Shown, Times
  <1> QED
    BY <1>1, <1>2, <1>3, WaitStep, DepStep, ShowStep, AlwaysInv, PTL DEF Spec

\* A started resource runs once and clients are told of it once, a stopped one neither,
\* unless two of its calls have met: the scripts are destroyed and the list is swept at
\* the end of every Stop (Resource.cpp:105-131, ServerResources.cpp:595,628-635).
THEOREM StateShows == Spec => []StateIsTrue
  <1>1. Inv /\ ShowInv => StateIsTrue
    BY EmptySeq DEF Inv, Types, ShowInv, Shown, Times, StateIsTrue, Idle
  <1> QED
    BY <1>1, AlwaysShow, PTL

-----------------------------------------------------------------------------
(* Clients are told of a dependency first.                                  *)

OrderInv ==
    /\ before \subseteq Resource \X Resource
    /\ \A p \in before : announced[p[1]] > 0 /\ announced[p[2]] > 0
    /\ \A p \in before \cap depends : p[1] \in crossed \/ <<p[2], p[1]>> \in relied

\* A call of Start excuses only a resource that is not announced.
LEMMA StartOrder ==
    ASSUME ShowInv, OrderInv, NEW below, NEW r \in Resource, Start(r, below),
           depends' = depends, order' = order
    PROVE  OrderInv'
  <1>1. state[r] # "stopped" => crossed \subseteq crossed' /\ relied' = relied
    BY DEF Start, Cross, history
  <1>2. state[r] = "stopped" => announced[r] = 0
    BY DEF ShowInv, Ghosts
  <1>3. \A x \in crossed : x \in crossed' \/ (x = r /\ state[r] = "stopped")
    BY <1>1 DEF Start, Begin
  <1>4. \A y \in relied : y \in relied' \/ (y[2] = r /\ state[r] = "stopped")
    BY <1>1 DEF Start, Begin
  <1>5. \A p \in before : state[r] = "stopped" => p[1] # r
    BY <1>2 DEF OrderInv
  <1>6. before' = before /\ announced' = announced
    BY DEF order
  <1> QED
    BY <1>3, <1>4, <1>5, <1>6 DEF OrderInv

LEMMA OrderStays ==
    ASSUME OrderInv, crossed \subseteq crossed', relied \subseteq relied',
           depends' = depends, order' = order
    PROVE  OrderInv'
  BY DEF OrderInv, order

LEMMA StopOrder ==
    ASSUME OrderInv, NEW below, NEW r \in Resource, Stop(r, below),
           depends' = depends, order' = order
    PROVE  OrderInv'
  <1>1. crossed \subseteq crossed' /\ relied \subseteq relied'
    BY DEF Stop, Cross, history
  <1> QED
    BY <1>1, OrderStays

\* A resource goes on the list behind those that depend on it only if they relied on it:
\* the others have it started.
LEMMA StartedOrder ==
    ASSUME Inv, WaitInv, DepInv, ShowInv, OrderInv, Started
    PROVE  OrderInv'
  <1> DEFINE r == Top.of
             n == Len(stack)
  <1>1. /\ Top.op = "start" /\ n \in 1..Len(stack) /\ Top = stack[n] /\ r \in Resource
    BY FrontFrames, InnermostCall DEF Started, At, Inv, Types
  <1>2. /\ announced' = [announced EXCEPT ![r] = @ + 1] /\ depends' = depends
        /\ before' = before \cup ({x \in Resource : announced[x] > 0} \X {r})
        /\ crossed' = crossed /\ relied' = relied
    BY DEF Started, Announce, history
  <1>3. /\ announced'[r] = announced[r] + 1 /\ announced[r] \in Nat
        /\ \A x \in Resource : x # r => announced'[x] = announced[x]
    BY <1>1, <1>2 DEF ShowInv
  <1>4. ASSUME NEW x \in Resource, announced[x] > 0, <<x, r>> \in depends
        PROVE  x \in crossed \/ <<r, x>> \in relied
    <2>1. state[x] = "started"
      BY <1>4 DEF ShowInv, Ghosts
    <2> SUFFICES ASSUME x \notin crossed, <<r, x>> \notin relied PROVE FALSE
      OBVIOUS
    <2>2. Took(stack, returned.of, relied, x, r)
      BY <1>4, <2>1 DEF Took
    <2>3. Stopping(stack[n])
      BY <1>1, <2>2 DEF DepInv, Kept
    <2> QED
      BY <1>1, <2>3 DEF Stopping
  <1> HIDE DEF r, n
  <1>5. before' \subseteq Resource \X Resource
    BY <1>1, <1>2 DEF OrderInv
  <1>6. \A x \in Resource : announced[x] > 0 => announced'[x] > 0
    BY <1>3 DEF ShowInv
  <1>7. \A p \in before' : announced'[p[1]] > 0 /\ announced'[p[2]] > 0
    <2> SUFFICES ASSUME NEW p \in before' PROVE announced'[p[1]] > 0 /\ announced'[p[2]] > 0
      OBVIOUS
    <2>1. CASE p \in before
      BY <1>6, <2>1 DEF OrderInv
    <2>2. CASE p \in {x \in Resource : announced[x] > 0} \X {r}
      <3>1. p[1] \in Resource /\ announced[p[1]] > 0 /\ p[2] = r
        BY <2>2
      <3> QED
        BY <1>3, <1>6, <3>1
    <2> QED
      BY <1>2, <2>1, <2>2
  <1>8. ASSUME NEW p \in before' \cap depends PROVE p[1] \in crossed \/ <<p[2], p[1]>> \in relied
    <2>1. CASE p \in before
      BY <2>1, <1>8 DEF OrderInv
    <2>2. CASE p \in {x \in Resource : announced[x] > 0} \X {r}
      <3>1. p[1] \in Resource /\ announced[p[1]] > 0 /\ p[2] = r /\ p = <<p[1], r>>
        BY <2>2
      <3> QED
        BY <1>4, <1>8, <3>1
    <2> QED
      BY <1>2, <1>8, <2>1, <2>2
  <1> QED
    BY <1>2, <1>5, <1>7, <1>8 DEF OrderInv

LEMMA StoppedOrder ==
    ASSUME Inv, ShowInv, OrderInv, Stopped
    PROVE  OrderInv'
  <1> DEFINE r == Top.of
  <1>1. /\ announced' = [announced EXCEPT ![r] = 0] /\ depends' = depends
        /\ before' = {p \in before : r \notin {p[1], p[2]}}
        /\ crossed' = crossed /\ relied' = relied
    BY DEF Stopped, Withdraw, history
  <1>2. \A x \in Resource : x # r => announced'[x] = announced[x]
    BY <1>1 DEF ShowInv
  <1>3. \A p \in before' : /\ p \in before /\ p[1] \in Resource /\ p[2] \in Resource
                           /\ p[1] # r /\ p[2] # r
    BY <1>1 DEF OrderInv
  <1> HIDE DEF r
  <1> QED
    BY <1>1, <1>2, <1>3 DEF OrderInv

LEMMA HandlerOrder ==
    ASSUME Inv, WaitInv, DepInv, ShowInv, OrderInv, Handler
    PROVE  OrderInv'
  <1> ~Idle
    BY DEF Handler, At, Starting, TakeDependency, StartDependency, DependencyReturned,
           MissDependency, Build, Built, LoadScripts, StartEvent, StartWaiting, Started, StopDependant,
           DependantsStopped, Stopped
  <1> Top.of \in Resource /\ Top.todo \subseteq Resource
    BY InnermostCall
  <1> USE DEF effects, maps, history
  <1>1. CASE Starting \/ MissDependency \/ Built \/ LoadScripts \/ StartEvent \/ DependantsStopped
    <2>1. crossed' = crossed /\ relied' = relied /\ depends' = depends /\ order' = order
      BY <1>1 DEF Starting, MissDependency, Built, LoadScripts, StartEvent, DependantsStopped
    <2> QED
      BY <2>1, OrderStays
  <1>2. CASE TakeDependency \/ DependencyReturned
    <2>1. crossed' = crossed /\ relied \subseteq relied' /\ depends' = depends /\ order' = order
      BY <1>2 DEF TakeDependency, DependencyReturned, Rely
    <2> QED
      BY <2>1, OrderStays
  <1>3. CASE StartDependency
    BY <1>3, StartOrder DEF StartDependency
  <1>4. CASE Build
    <2>1. CASE UNCHANGED history
      BY <1>4, <2>1, OrderStays DEF Build
    <2>2. CASE Start(Top.of, Moved("built", {}))
      BY <1>4, <2>2, StartOrder DEF Build
    <2> QED
      BY <1>4, <2>1, <2>2 DEF Build
  <1>5. CASE StartWaiting
    BY <1>5, StartOrder DEF StartWaiting
  <1>6. CASE StopDependant
    BY <1>6, StopOrder DEF StopDependant
  <1> QED
    BY <1>1, <1>2, <1>3, <1>4, <1>5, <1>6, StartedOrder, StoppedOrder DEF Handler

\* Clients are told to start a dependency before its dependants: a resource is put on the
\* list when all its dependencies are, and taken off before any of them
\* (ServerResources.cpp:595,628-635), but for one that relied on an unfinished call.
THEOREM AnnouncedAfterDependencies == Spec => []AnnouncedInOrder
  <1>1. Init => OrderInv
    BY DEF Init, OrderInv
  <1>2. ASSUME Inv, WaitInv, DepInv, ShowInv, OrderInv, [Next]_vars PROVE OrderInv'
    <2>1. CASE \E r \in Resource : StartCommand(r) \/ StopCommand(r)
      BY <1>2, <2>1, StartOrder, StopOrder DEF StartCommand, StopCommand, effects
    <2>2. CASE \E s, r \in Resource : ScriptCall(s, r)
      BY <1>2, <2>2, StartOrder, StopOrder DEF ScriptCall, effects
    <2>3. CASE UNCHANGED vars
      BY <1>2, <2>3 DEF vars, effects, order, history, OrderInv
    <2> QED
      BY <1>2, <2>1, <2>2, <2>3, HandlerOrder DEF Next
  <1>3. OrderInv => AnnouncedInOrder
    BY DEF OrderInv, AnnouncedInOrder
  <1> QED
    BY <1>1, <1>2, <1>3, AlwaysShow, PTL DEF Spec
=============================================================================
