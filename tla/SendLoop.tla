------------------------------- MODULE SendLoop -------------------------------
(***************************************************************************)
(* The burst loop of NetworkTickSendList for one event and one target, one *)
(* iteration a step, with its clock.  Times are milliseconds relative to   *)
(* the current tick, so that time may pass for ever: `age' is timeNow -    *)
(* lastSend and `hold' is delayNextSend - timeNow, neither followed beyond *)
(* the point where the code can tell.                                      *)
(***************************************************************************)
EXTENDS SendBurst, FiniteSets

CONSTANTS
    Sizes,       \* bound: fragment counts
    Latencies,   \* bound: milliseconds a fragment takes at the event's bytesPerSecond
    Steps,       \* bound: times between two ticks
    Delay,       \* the 250 ms pause once every fragment had its turn
    AgeCap       \* bound: age is not followed beyond this

ASSUME LoopAssumption ==
    /\ Sizes \subseteq Nat \ {0}
    /\ Latencies \subseteq Nat /\ Steps \subseteq Nat
    /\ Delay \in Nat /\ AgeCap \in Nat
    /\ \A l \in Latencies, s \in Steps : AgeCap > l /\ AgeCap >= s

VARIABLES
    d,          \* the target's data: size, acknowledged bits, lastBit
    latency,    \* constant of the event
    age, hold,  \* the two timers
    pc,         \* "wait" for a tick, in the "loop", "left" it, or "done"
    resTime,    \* what is left of this tick's time
    startBit,
    sent,       \* history: fragments this tick has sent
    entry       \* history: data and age when the loop was entered

vars == <<d, latency, age, hold, pc, resTime, startBit, sent, entry>>

Least(S) == CHOOSE i \in S : \A j \in S : i <= j
Capped(t) == IF t > AgeCap THEN AgeCap ELSE t
Running(h, dT) == IF h > dT THEN h - dT ELSE 0

Init ==
    /\ d \in [size: Sizes, acked: {{}}, lastBit: {0}]
    /\ latency \in Latencies
    /\ age = AgeCap /\ hold = 0   \* both timers start at the epoch
    /\ pc = "wait" /\ resTime = 0 /\ startBit = 0
    /\ sent = {} /\ entry = [d |-> d, age |-> age]

\* A tick that does not serve the target counts as a send while the target is
\* paused, so that no time is saved up.
AgeWaiting(left, now) == IF left > 0 THEN 0 ELSE now

\* hold is delayNextSend - timeNow + 1: the delay is over when it reaches 0.
NetworkTick(dT) ==
    LET now  == Capped(age + dT)
        left == Running(hold, dT)
    IN  /\ pc = "wait"
        /\ hold' = left
        /\ IF now > latency /\ left = 0
             THEN /\ pc' = "loop"
                  /\ resTime' = dT
                  /\ startBit' = d.lastBit
                  /\ sent' = {}
                  /\ entry' = [d |-> d, age |-> now]
                  /\ age' = now
             ELSE /\ age' = AgeWaiting(left, now)
                  /\ UNCHANGED <<pc, resTime, startBit, sent, entry>>
        /\ UNCHANGED <<d, latency>>

\* Mutant: any time left is enough.
SomeTimeLeft(rest) == rest > 0

TimeLeft(rest) == rest > latency

\* Mutant: back at the start counts as once around only when passed.
GoOnAtStart(lastBit, forced, rest) ==
    IF lastBit < startBit \/ forced
        THEN pc' = "left" /\ hold' = Delay + 1
        ELSE pc' = (IF TimeLeft(rest) THEN "loop" ELSE "left") /\ hold' = hold

\* Once around: pause.  Otherwise go on while there is time left.
GoOn(lastBit, forced, rest) ==
    IF lastBit <= startBit \/ forced
        THEN pc' = "left" /\ hold' = Delay + 1
        ELSE pc' = (IF TimeLeft(rest) THEN "loop" ELSE "left") /\ hold' = hold

NextBit(idx) == (idx + 1) % d.size

\* Mutant: the loop rewinds to the very first fragment.
RewindToZero(unacked) == 0

\* Mutant: the rewind is forgotten.
RewindForgotten(unacked) == d.lastBit

RewindBit(unacked) == Least(unacked)

SendNext ==
    LET idx  == Least(Ahead(d))
        next == NextBit(idx)
        rest == IF resTime > latency THEN resTime - latency ELSE resTime
    IN  /\ pc = "loop" /\ Ahead(d) # {}
        /\ d' = [d EXCEPT !.lastBit = next]
        /\ sent' = sent \cup {idx}
        /\ resTime' = rest
        /\ GoOn(next, FALSE, rest)
        /\ UNCHANGED <<latency, age, startBit, entry>>

RewindLoop ==
    /\ pc = "loop" /\ Ahead(d) = {} /\ Unacked(d) # {}
    /\ d' = [d EXCEPT !.lastBit = RewindBit(Unacked(d))]
    /\ GoOn(RewindBit(Unacked(d)), TRUE, resTime)
    /\ UNCHANGED <<latency, age, resTime, startBit, sent, entry>>

TargetDone ==
    /\ pc = "loop" /\ Unacked(d) = {}
    /\ pc' = "done"
    /\ UNCHANGED <<d, latency, age, hold, resTime, startBit, sent, entry>>

\* lastSend is set and the lock released.
Leave ==
    /\ pc = "left"
    /\ pc' = "wait"
    /\ age' = 0
    /\ UNCHANGED <<d, latency, hold, resTime, startBit, sent, entry>>

\* HandlePacketV2 between two ticks.
HandleAck(i) ==
    /\ pc = "wait"
    /\ i \in Unacked(d)
    /\ d' = [d EXCEPT !.acked = @ \cup {i}]
    /\ UNCHANGED <<latency, age, hold, pc, resTime, startBit, sent, entry>>

Next ==
    \/ \E dT \in Steps : NetworkTick(dT)
    \/ SendNext \/ RewindLoop \/ TargetDone \/ Leave
    \/ \E i \in Unacked(d) : HandleAck(i)

\* The network thread keeps ticking, some of the time by a millisecond or more.
Spec ==
    /\ Init /\ [][Next]_vars
    /\ WF_vars(\E dT \in Steps \ {0} : NetworkTick(dT))
    /\ WF_vars(SendNext \/ RewindLoop \/ TargetDone \/ Leave)

-----------------------------------------------------------------------------
\* The timers, the loop's locals and the target's data keep their types.
TypeOK ==
    /\ d \in PerTargetData /\ d.lastBit < d.size
    /\ age \in 0 .. AgeCap /\ hold \in 0 .. (Delay + 1)
    /\ pc \in {"wait", "loop", "left", "done"}
    /\ resTime \in Nat /\ startBit \in Nat

\* The loop does what EventReassembly takes a burst to do, whatever the tick
\* rate, the bandwidth and the acknowledgements so far.
LoopOutcomes ==
    pc = "left" => [sends |-> sent, lastBit |-> d.lastBit] \in BurstOutcomes(entry.d)

\* A burst spends no more than the time since the target was last served: a
\* slow tick is made up for, at the rate of the event and not faster.
PacedByRate ==
    pc = "left" => Cardinality(sent) * latency <= IF entry.age > latency THEN entry.age ELSE latency

\* No fragment goes out twice in one burst, however long the tick was.
SentOncePerBurst == pc = "loop" /\ Ahead(d) # {} => Least(Ahead(d)) \notin sent

\* No fragment is passed over for ever: until it is acknowledged, each has its
\* turn, wherever lastBit stands and however often the loop rewinds.
EveryFragmentServed ==
    \A i \in UNION {0 .. (s - 1) : s \in Sizes} :
        i \in Unacked(d) ~> (i \in sent /\ pc = "left") \/ i \notin Unacked(d)
=============================================================================
