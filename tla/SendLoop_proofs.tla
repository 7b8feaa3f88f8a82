--------------------------- MODULE SendLoop_proofs ---------------------------
(***************************************************************************)
(* Proofs about SendLoop: whatever the tick rate, the bandwidth and the    *)
(* acknowledgements so far, the loop does what SendBurst says of a burst,  *)
(* sends no fragment twice, and spends no more than the time it has.       *)
(***************************************************************************)
EXTENDS SendLoop, FiniteSetTheorems, TLAPS

-----------------------------------------------------------------------------
(* Least and Cardinality *)

\* A set of numbers has a least one.
LEMMA HasLeast ==
    ASSUME NEW S \in SUBSET Nat, S # {}
    PROVE  \E i \in S : \A j \in S : i <= j
<1> DEFINE R == OpToRel(<, Nat)
<1>1. IsWellFoundedOn(R, Nat)
  BY NatLessThanWellFounded
<1>2. \A x, y \in Nat : x < y => <<x, y>> \in R
  BY DEF OpToRel
<1> HIDE DEF R
<1>3. PICK x \in S : \A y \in S : ~ (<<y, x>> \in R)
  BY <1>1, WFMin
<1>4. ASSUME NEW y \in S PROVE x <= y
  <2>1. x \in Nat /\ y \in Nat
    OBVIOUS
  <2>2. ~(y < x)
    BY <1>2, <1>3, <2>1, Zenon
  <2> QED BY <2>1, <2>2
<1> QED BY <1>4

\* ... and Least finds it.
LEMMA LeastProperties ==
    ASSUME NEW S \in SUBSET Nat, S # {}
    PROVE  Least(S) \in S /\ \A j \in S : Least(S) <= j
BY HasLeast DEF Least

\* One more element, and the time it takes.
LEMMA OneMore ==
    ASSUME NEW S, IsFiniteSet(S), NEW x, x \notin S, NEW time \in Nat
    PROVE  /\ IsFiniteSet(S \cup {x})
           /\ Cardinality(S) * time \in Nat
           /\ Cardinality(S \cup {x}) * time = Cardinality(S) * time + time
<1>1. Cardinality(S) \in Nat
  BY FS_CardinalityType
<1>2. IsFiniteSet(S \cup {x}) /\ Cardinality(S \cup {x}) = Cardinality(S) + 1
  BY FS_AddElement
<1>3. \A n \in Nat : n * time \in Nat /\ (n + 1) * time = n * time + time
  OBVIOUS
<1> QED BY <1>1, <1>2, <1>3

-----------------------------------------------------------------------------
(* The invariant *)

\* d is the data of a target: a fragment may be sent.
Types ==
    /\ TypeOK
    /\ latency \in Latencies
    /\ d.size \in Nat \ {0}
    /\ IsFiniteSet(sent)

\* In the loop: what was sent lies between where it started and where it is now, and
\* the time for it is taken off what there was.  Only the first fragment is sent
\* without looking at the time.
Under ==
    /\ entry.d = [d EXCEPT !.lastBit = startBit] /\ startBit <= d.lastBit
    /\ sent = {i \in Ahead(entry.d) : i < d.lastBit}
    /\ entry.age \in Nat /\ entry.age > latency
    /\ sent = {} \/ resTime > latency
    /\ Cardinality(sent) * latency + resTime <= entry.age

LoopInv ==
    /\ Types
    /\ pc = "loop" => Under
    /\ LoopOutcomes /\ PacedByRate

\* Fragments are numbers below the size.
LEMMA Fragments ==
    ASSUME NEW data \in PerTargetData
    PROVE  /\ Ahead(data) \subseteq Unacked(data) /\ Unacked(data) \in SUBSET Nat
           /\ \A i \in Unacked(data) : i < data.size
           /\ data.size \in Nat /\ data.lastBit \in Nat
BY DEF PerTargetData, Ahead, Unacked

\* In the loop: what is still ahead.
LEMMA AheadNow ==
    ASSUME Types, Under
    PROVE  /\ entry.d \in PerTargetData /\ entry.d.size = d.size /\ entry.d.lastBit = startBit
           /\ Unacked(entry.d) = Unacked(d)
           /\ Ahead(d) = {i \in Ahead(entry.d) : i >= d.lastBit}
           /\ Ahead(entry.d) = sent \cup Ahead(d)
           /\ \A i \in sent : i < d.lastBit
<1>1. /\ d \in PerTargetData /\ startBit \in Nat /\ entry.d = [d EXCEPT !.lastBit = startBit]
      /\ startBit <= d.lastBit
  BY DEF Types, TypeOK, Under
<1>2. /\ entry.d \in PerTargetData /\ entry.d.size = d.size /\ entry.d.lastBit = startBit
      /\ entry.d.acked = d.acked
  BY <1>1 DEF PerTargetData
<1>3. Unacked(entry.d) = Unacked(d)
  BY <1>2 DEF Unacked
<1>4. Ahead(d) = {i \in Ahead(entry.d) : i >= d.lastBit}
  <2>1. Unacked(d) \in SUBSET Nat /\ d.lastBit \in Nat
    BY <1>1, Fragments
  <2> QED BY <1>1, <1>2, <1>3, <2>1 DEF Ahead
<1>5. Ahead(entry.d) \in SUBSET Nat /\ d.lastBit \in Nat
  BY <1>1, <1>2, Fragments
<1> QED BY <1>2, <1>3, <1>4, <1>5 DEF Under

-----------------------------------------------------------------------------
(* The steps *)

LEMMA LoopInit == Init => LoopInv
<1> SUFFICES ASSUME Init PROVE LoopInv
  OBVIOUS
<1>1. /\ pc = "wait" /\ sent = {} /\ latency \in Latencies /\ age = AgeCap /\ hold = 0
      /\ resTime = 0 /\ startBit = 0
  BY DEF Init
<1>2. d.size \in Nat \ {0} /\ d.lastBit = 0 /\ d \in PerTargetData
  <2>1. /\ d = [size |-> d.size, acked |-> d.acked, lastBit |-> d.lastBit]
        /\ d.size \in Sizes /\ d.acked = {} /\ d.lastBit = 0
    BY DEF Init
  <2>2. d.size \in Nat \ {0}
    BY <2>1, LoopAssumption
  <2>3. d.acked \in SUBSET Nat /\ d.lastBit \in Nat
    BY <2>1
  <2> QED BY <2>1, <2>2, <2>3 DEF PerTargetData
<1>3. TypeOK
  BY <1>1, <1>2, LoopAssumption DEF TypeOK
<1> QED BY <1>1, <1>2, <1>3, FS_EmptySet DEF LoopInv, Types, LoopOutcomes, PacedByRate

\* The clock's arithmetic.
LEMMA Timers ==
    ASSUME Types, NEW dT \in Steps
    PROVE  /\ Capped(age + dT) \in 0 .. AgeCap /\ dT <= Capped(age + dT)
           /\ Running(hold, dT) \in 0 .. (Delay + 1)
BY LoopAssumption DEF Types, TypeOK, Capped, Running

LEMMA TickStep ==
    ASSUME LoopInv, NEW dT \in Steps, NetworkTick(dT)
    PROVE  LoopInv'
<1> DEFINE now  == Capped(age + dT)
           left == Running(hold, dT)
<1>1. now \in 0 .. AgeCap /\ dT <= now /\ left \in 0 .. (Delay + 1) /\ dT \in Nat /\ latency \in Nat
  BY Timers, LoopAssumption DEF LoopInv, Types
<1>2. hold' = left /\ d' = d /\ latency' = latency /\ pc = "wait"
  BY DEF NetworkTick
<1> HIDE DEF now, left
<1>3. CASE pc' = "loop"
  <2>1. /\ now > latency /\ resTime' = dT /\ startBit' = d.lastBit /\ sent' = {}
        /\ entry' = [d |-> d, age |-> now] /\ age' = now
    BY <1>2, <1>3 DEF NetworkTick, now, left
  <2>2. d \in PerTargetData /\ d.lastBit < d.size /\ d.lastBit \in Nat /\ d.size \in Nat \ {0}
    BY Fragments DEF LoopInv, Types, TypeOK
  <2>3. Types'
    BY <1>1, <1>2, <1>3, <2>1, <2>2, FS_EmptySet DEF LoopInv, Types, TypeOK
  <2>4. Under'
    <3>1. [d EXCEPT !.lastBit = d.lastBit] = d
      BY <2>2 DEF PerTargetData
    <3>2. {} = {i \in Ahead(d) : i < d.lastBit}
      BY <2>2 DEF Ahead, Unacked
    <3>3. Cardinality({}) * latency + dT <= now
      BY <1>1, FS_EmptySet
    <3> QED BY <1>1, <1>2, <2>1, <2>2, <3>1, <3>2, <3>3 DEF Under
  <2> QED BY <1>3, <2>3, <2>4 DEF LoopInv, LoopOutcomes, PacedByRate
<1>4. CASE pc' # "loop"
  <2>1. age' = AgeWaiting(left, now) /\ UNCHANGED <<pc, resTime, startBit, sent, entry>>
    BY <1>4 DEF NetworkTick, now, left
  <2>2. age' \in 0 .. AgeCap
    BY <1>1, <2>1, LoopAssumption DEF AgeWaiting
  <2>3. Types'
    BY <1>1, <1>2, <2>1, <2>2 DEF LoopInv, Types, TypeOK
  <2> QED BY <1>2, <2>1, <2>3 DEF LoopInv, LoopOutcomes, PacedByRate
<1> QED BY <1>3, <1>4

\* A fragment is sent, and the loop goes on, or leaves as StopAfter says.
LEMMA SendStep ==
    ASSUME LoopInv, SendNext
    PROVE  LoopInv'
<1> DEFINE idx  == Least(Ahead(d))
           next == NextBit(idx)
           rest == IF resTime > latency THEN resTime - latency ELSE resTime
<1>1. /\ Types /\ Under /\ d \in PerTargetData /\ latency \in Nat /\ resTime \in Nat
      /\ startBit \in Nat /\ d.size \in Nat \ {0} /\ hold \in 0 .. (Delay + 1) /\ Delay \in Nat
  BY LoopAssumption DEF LoopInv, SendNext, Types, TypeOK
<1>2. /\ Ahead(d) # {} /\ d' = [d EXCEPT !.lastBit = next] /\ sent' = sent \cup {idx}
      /\ resTime' = rest /\ GoOn(next, FALSE, rest) /\ UNCHANGED <<latency, age, startBit, entry>>
  BY DEF SendNext
<1>3. /\ idx \in Nat /\ idx < d.size /\ idx >= d.lastBit /\ idx \in Ahead(d)
      /\ \A j \in Ahead(d) : j \in Nat /\ idx <= j
  <2>1. Ahead(d) \in SUBSET Nat /\ \A i \in Ahead(d) : i < d.size
    BY <1>1, Fragments
  <2>2. idx \in Ahead(d) /\ \A j \in Ahead(d) : idx <= j
    BY <1>2, <2>1, LeastProperties
  <2> QED BY <2>1, <2>2 DEF Ahead
<1>4. next \in Nat /\ next < d.size /\ next = IF idx = d.size - 1 THEN 0 ELSE idx + 1
  <2>1. NextBit(idx) = (idx + 1) % d.size
    BY DEF NextBit
  <2> QED BY <1>1, <1>3, <2>1
<1>5. rest \in Nat
  BY <1>1
<1>6. /\ sent' = {i \in Ahead(entry.d) : i <= idx} /\ idx \notin sent /\ idx \in Ahead(entry.d)
      /\ d.lastBit \in Nat /\ entry.d.size = d.size
  <2>1. d.lastBit \in Nat
    BY <1>1, Fragments
  <2>2. Ahead(entry.d) = sent \cup Ahead(d) /\ \A i \in sent : i < d.lastBit
    BY <1>1, AheadNow
  <2>3. \A i \in sent : i \in Nat
    BY <1>1, <2>2, AheadNow, Fragments
  <2> QED BY <1>1, <1>2, <1>3, <2>1, <2>2, <2>3, AheadNow
<1>7. /\ d' \in PerTargetData /\ d'.lastBit = next /\ d'.size = d.size
      /\ [d' EXCEPT !.lastBit = startBit] = [d EXCEPT !.lastBit = startBit]
  BY <1>1, <1>2, <1>4 DEF PerTargetData
<1>8. /\ IsFiniteSet(sent')
      /\ Cardinality(sent) * latency \in Nat
      /\ Cardinality(sent') * latency = Cardinality(sent) * latency + latency
  BY <1>1, <1>2, <1>6, OneMore DEF Types
<1> HIDE DEF idx, next, rest
<1>9. /\ pc' \in {"loop", "left"} /\ hold' \in 0 .. (Delay + 1)
      /\ pc' = "loop" => next > startBit /\ rest > latency
  BY <1>1, <1>2, <1>4, <1>5 DEF GoOn, TimeLeft
<1>10. Types'
  BY <1>1, <1>2, <1>4, <1>5, <1>7, <1>8, <1>9 DEF Types, TypeOK
<1>11. /\ entry.age \in Nat /\ entry.age > latency
       /\ Cardinality(sent') * latency <= entry.age
       /\ resTime > latency => Cardinality(sent') * latency + rest <= entry.age
  <2>1. /\ entry.age \in Nat /\ entry.age > latency
        /\ Cardinality(sent) * latency + resTime <= entry.age /\ (sent = {} \/ resTime > latency)
    BY <1>1 DEF Under
  <2>2. CASE resTime > latency
    <3>1. rest = resTime - latency
      BY <2>2 DEF rest
    <3> QED BY <1>1, <1>8, <2>1, <2>2, <3>1
  <2>3. CASE ~(resTime > latency)
    <3>1. Cardinality(sent) = 0
      BY <2>1, <2>3, FS_EmptySet
    <3>2. 0 * latency = 0
      BY <1>1
    <3>3. Cardinality(sent) * latency = 0 /\ rest = resTime
      BY <2>3, <3>1, <3>2 DEF rest
    <3> QED BY <1>1, <1>8, <2>1, <2>3, <3>3
  <2> QED BY <2>2, <2>3
<1>12. CASE pc' = "loop"
  <2>1. next = idx + 1 /\ next > startBit /\ rest > latency /\ resTime > latency
    BY <1>1, <1>3, <1>4, <1>9, <1>12 DEF rest
  <2>2. sent' = {i \in Ahead(entry.d) : i < next}
    <3>1. \A i \in Ahead(entry.d) : i \in Nat
      BY <1>1, AheadNow, Fragments
    <3>2. \A i \in Ahead(entry.d) : i <= idx <=> i < next
      BY <1>3, <2>1, <3>1
    <3> QED BY <1>6, <3>2
  <2>3. Under'
    BY <1>1, <1>2, <1>4, <1>7, <1>11, <2>1, <2>2 DEF Under
  <2> QED BY <1>10, <1>12, <2>3 DEF LoopInv, LoopOutcomes, PacedByRate
<1>13. CASE pc' = "left"
  <2>1. LoopOutcomes'
    <3>1. next = (idx + 1) % entry.d.size
      BY <1>6 DEF next, NextBit
    <3>2. [sends |-> sent', lastBit |-> next] = StopAfter(entry.d, idx)
      BY <1>6, <3>1 DEF StopAfter
    <3> QED BY <1>2, <1>6, <1>7, <3>2 DEF LoopOutcomes, BurstOutcomes
  <2>2. PacedByRate'
    BY <1>2, <1>11 DEF PacedByRate
  <2> QED BY <1>10, <1>13, <2>1, <2>2 DEF LoopInv
<1> QED BY <1>9, <1>12, <1>13

\* Nothing is ahead: the loop rewinds and leaves.
LEMMA RewindStep ==
    ASSUME LoopInv, RewindLoop
    PROVE  LoopInv'
<1> DEFINE first == Least(Unacked(d))
<1>1. /\ Types /\ Under /\ d \in PerTargetData /\ latency \in Nat /\ resTime \in Nat
      /\ d.size \in Nat \ {0} /\ d.lastBit \in Nat /\ d.lastBit < d.size /\ Delay \in Nat
  BY LoopAssumption, Fragments DEF LoopInv, RewindLoop, Types, TypeOK
<1>2. /\ Ahead(d) = {} /\ Unacked(d) # {} /\ d' = [d EXCEPT !.lastBit = first]
      /\ pc' = "left" /\ hold' = Delay + 1
      /\ UNCHANGED <<latency, age, resTime, startBit, sent, entry>>
  BY DEF RewindLoop, RewindBit, GoOn
<1>3. first \in Unacked(d) /\ first \in Nat /\ first < d.size /\ \A j \in Unacked(d) : first <= j
  BY <1>1, <1>2, Fragments, LeastProperties
<1> HIDE DEF first
<1>4. d' \in PerTargetData /\ d'.lastBit = first /\ d'.size = d.size
  BY <1>1, <1>2, <1>3 DEF PerTargetData
<1>5. Types'
  BY <1>1, <1>2, <1>3, <1>4 DEF Types, TypeOK
<1>6. LoopOutcomes'
  <2>1. /\ sent = Ahead(entry.d) /\ Unacked(entry.d) = Unacked(d) /\ entry.d.size = d.size
        /\ \A i \in sent : i < d.lastBit
    BY <1>1, <1>2, AheadNow
  <2>2. entry.d.size - 1 \notin Ahead(entry.d)
    BY <1>1, <2>1
  <2>3. first \in RewindPoints(entry.d)
    BY <1>3, <2>1, <2>2 DEF RewindPoints
  <2>4. [sends |-> sent', lastBit |-> first] = Rewind(entry.d, first)
    BY <1>2, <2>1 DEF Rewind
  <2> QED BY <1>2, <1>4, <2>3, <2>4 DEF LoopOutcomes, BurstOutcomes
<1>7. PacedByRate'
  <2>1. Cardinality(sent) \in Nat
    BY <1>1, FS_CardinalityType DEF Types
  <2>2. Cardinality(sent) * latency \in Nat
    BY <1>1, <2>1
  <2> QED BY <1>1, <1>2, <2>2 DEF Under, PacedByRate
<1> QED BY <1>2, <1>5, <1>6, <1>7 DEF LoopInv

LEMMA LoopStep == LoopInv /\ [Next]_vars => LoopInv'
<1> SUFFICES ASSUME LoopInv, [Next]_vars PROVE LoopInv'
  OBVIOUS
<1>1. CASE TargetDone
  BY <1>1 DEF TargetDone, LoopInv, Types, TypeOK, LoopOutcomes, PacedByRate
<1>2. CASE Leave
  BY <1>2, LoopAssumption DEF Leave, LoopInv, Types, TypeOK, LoopOutcomes, PacedByRate
<1>3. ASSUME NEW i \in Unacked(d), HandleAck(i) PROVE LoopInv'
  <2>1. /\ d \in PerTargetData /\ i \in Nat
    BY <1>3, Fragments DEF LoopInv, Types, TypeOK
  <2>2. d' \in PerTargetData /\ d'.size = d.size /\ d'.lastBit = d.lastBit
    BY <1>3, <2>1 DEF HandleAck, PerTargetData
  <2> QED BY <1>3, <2>2 DEF HandleAck, LoopInv, Types, TypeOK, LoopOutcomes, PacedByRate
<1>4. CASE UNCHANGED vars
  BY <1>4 DEF vars, LoopInv, Types, TypeOK, Under, LoopOutcomes, PacedByRate
<1> QED BY <1>1, <1>2, <1>3, <1>4, TickStep, SendStep, RewindStep DEF Next

LEMMA LoopInvariant == Spec => []LoopInv
  BY LoopInit, LoopStep, PTL DEF Spec

-----------------------------------------------------------------------------

\* A pass of the loop of NetworkTickSendList, step by step with its clock, has an
\* outcome of SendBurst, which is what EventReassembly takes a tick to do.
THEOREM LoopImplementsBurst == Spec => []LoopOutcomes
<1>1. LoopInv => LoopOutcomes
  BY DEF LoopInv
<1> QED BY <1>1, LoopInvariant, PTL

\* A burst makes up for a slow tick at the rate of the event and not faster, for any
\* tick rate and bandwidth.
THEOREM BurstsArePaced == Spec => []PacedByRate
<1>1. LoopInv => PacedByRate
  BY DEF LoopInv
<1> QED BY <1>1, LoopInvariant, PTL

\* The scan that goes round never comes to a fragment it has sent in this burst.
THEOREM NothingSentTwice == Spec => []SentOncePerBurst
<1>1. LoopInv => SentOncePerBurst
  <2> SUFFICES ASSUME LoopInv, pc = "loop", Ahead(d) # {} PROVE Least(Ahead(d)) \notin sent
    BY DEF SentOncePerBurst
  <2>1. Types /\ Under /\ d \in PerTargetData
    BY DEF LoopInv, Types, TypeOK
  <2>2. d.lastBit \in Nat /\ \A i \in Ahead(d) : i \in Nat /\ i >= d.lastBit
    BY <2>1, Fragments DEF Ahead
  <2>3. Least(Ahead(d)) \in Ahead(d)
    <3>1. Ahead(d) \in SUBSET Nat
      BY <2>2
    <3> QED BY <3>1, LeastProperties
  <2> QED BY <2>1, <2>2, <2>3, AheadNow
<1> QED BY <1>1, LoopInvariant, PTL
=============================================================================
