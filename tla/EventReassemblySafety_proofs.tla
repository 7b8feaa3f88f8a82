-------------------- MODULE EventReassemblySafety_proofs --------------------
(***************************************************************************)
(* IInv is an inductive invariant of EventReassembly, and the safety       *)
(* properties it was found for hold in every reachable state, for any      *)
(* number of clients, events and fragments.  One lemma per action; each    *)
(* takes IInv before the step and the types after it (TypeStep) and has    *)
(* one step per part of IInv.  From it follows, at the end, that the       *)
(* component implements the abstract channel.                              *)
(***************************************************************************)
EXTENDS EventReassembly_proofs, FiniteSetTheorems

\* A target is registered: nothing that is said of a transfer changes.
LEMMA StepRegister ==
    ASSUME IInv, TypeOK', NEW n \in Node, NEW p \in Peers(n),
           RegisterTarget(n, p)
    PROVE  IInv'
<1>. USE DEF IInv, countVars
<1>1. NoTrace'
  BY DEF NoTrace, Completed, RegisterTarget, senderVars
<1>2. TargetsKnown'
  BY DEF TargetsKnown, RegisterTarget, senderVars
<1>3. SizesAgree'
  BY DEF SizesAgree, RegisterTarget, senderVars
<1>4. WholeEventInHand'
  BY DEF WholeEventInHand, RegisterTarget, senderVars
<1>5. RecordsTell'
  BY DEF RecordsTell, Completed, RegisterTarget, senderVars
<1>6. AckPacketsTrue'
  BY DEF AckPacketsTrue, HasFragment, Completed, RegisterTarget, senderVars
<1>7. NothingLingers'
  BY DEF NothingLingers, Quiet, AllAcked, Completed, RegisterTarget,
         senderVars
<1>8. NothingOfUnregistered'
  BY DEF NothingOfUnregistered, RegisterTarget, senderVars
<1>9. WholeEvents'
  BY DEF WholeEvents, RegisterTarget, senderVars
<1>10. DeliveredOnce'
  BY DEF DeliveredOnce, RegisterTarget, senderVars
<1>11. AckedMeansReceived'
  BY DEF AckedMeansReceived, HasFragment, Completed, RegisterTarget,
         senderVars
<1>12. ForgottenMeansCompleted'
  BY DEF ForgottenMeansCompleted, Severed, Completed, RegisterTarget,
         senderVars
<1>. QED
  BY <1>1, <1>2, <1>3, <1>4, <1>5, <1>6, <1>7, <1>8, <1>9, <1>10, <1>11, <1>12

\* A target is unregistered: what is kept of it goes, on both lists, and the
\* id is closed, which excuses what its packets in flight still claim.
LEMMA StepUnregister ==
    ASSUME IInv, TypeOK', NEW n \in Node, NEW p \in Peers(n),
           UnregisterTarget(n, p)
    PROVE  IInv'
<1>. USE DEF IInv, countVars
<1>a. ASSUME NEW x \in Transfer, NEW i \in Nat, HasFragment(x, i) \/ x.src \in closed[x.dst]
      PROVE  HasFragment(x, i)' \/ x.src \in closed'[x.dst]
  <2>1. p \in Node
    BY DEF Peers, Node
  <2>. QED
    BY <1>a, <2>1, TransferType DEF HasFragment, Completed, UnregisterTarget, TypeOK
<1>1. NoTrace'
  BY DEF NoTrace, Completed, UnregisterTarget
<1>2. TargetsKnown'
  BY DEF TypeOK, TargetsKnown, UnregisterTarget
<1>3. SizesAgree'
  BY DEF SizesAgree, UnregisterTarget
<1>4. WholeEventInHand'
  BY DEF WholeEventInHand, UnregisterTarget
<1>5. RecordsTell'
  BY DEF RecordsTell, Completed, UnregisterTarget
<1>6. AckPacketsTrue'
  <2> SUFFICES ASSUME NEW m \in net', m.type = "ack"
               PROVE  HasFragment(m.x, m.idx)' \/ m.x.src \in closed'[m.x.dst]
    BY DEF AckPacketsTrue
  <2>1. m \in net /\ m \in Message
    BY DEF UnregisterTarget, TypeOK
  <2>2. m.x \in Transfer /\ m.idx \in Nat
    BY <2>1 DEF Message
  <2> QED
    BY <1>a, <2>1, <2>2 DEF AckPacketsTrue
<1>7. NothingLingers'
  <2>1. ASSUME NEW x \in Transfer, receiving'[x] = NoEvent, receiving[x] # NoEvent
        PROVE  x.src \in closed'[x.dst]
    BY <2>1, TransferType DEF UnregisterTarget, TypeOK
  <2>2. ASSUME NEW x \in Transfer, receiving[x] # NoEvent
        PROVE  completions[x] = early[x] \/ completions[x] = early[x] + 1
    BY <2>2 DEF RecordsTell
  <2>3. ASSUME NEW x \in Transfer, Quiet(x) PROVE Quiet(x)'
    <3>1. sendTargets' \subseteq sendTargets /\ net' = net
      BY DEF UnregisterTarget
    <3>2. AllAcked(x) => AllAcked(x)'
      BY DEF AllAcked, Unacked, NoData, UnregisterTarget
    <3>. QED
      BY <2>3, <3>1, <3>2 DEF Quiet
  <2>4. \A x \in Transfer : x.src \in closed[x.dst] => x.src \in closed'[x.dst]
    BY TransferType DEF UnregisterTarget, TypeOK
  <2>5. completions' = completions /\ early' = early
    BY DEF UnregisterTarget
  <2>. QED
    BY <2>1, <2>2, <2>3, <2>4, <2>5 DEF NothingLingers
<1>8. NothingOfUnregistered'
  BY DEF NothingOfUnregistered, UnregisterTarget
<1>9. WholeEvents'
  BY DEF WholeEvents, UnregisterTarget
<1>10. DeliveredOnce'
  BY DEF DeliveredOnce, UnregisterTarget
<1>11. AckedMeansReceived'
  <2>1. \A x \in Transfer : sending'[x].acked \subseteq sending[x].acked /\ sending[x].acked \subseteq Nat
    BY DEF UnregisterTarget, NoData, TypeOK, PerTargetData
  <2>. QED
    BY <1>a, <2>1 DEF AckedMeansReceived
<1>12. ForgottenMeansCompleted'
  <2>1. \A x \in Transfer : Severed(x) \/ (x.src = n /\ x.dst = p) => Severed(x)'
    BY TransferType DEF Severed, UnregisterTarget, TypeOK
  <2>. QED
    BY <2>1 DEF ForgottenMeansCompleted, Completed, UnregisterTarget
<1>. QED
  BY <1>1, <1>2, <1>3, <1>4, <1>5, <1>6, <1>7, <1>8, <1>9, <1>10, <1>11, <1>12

\* The snapshot of the targets touches only the main thread.
LEMMA StepTrigger ==
    ASSUME IInv, TypeOK', NEW n \in Node, NEW to \in SUBSET targets[n],
           NEW count \in 1 .. TotalPacketsMod, TriggerEventV2(n, to, count)
    PROVE  IInv'
<1>. USE DEF IInv, countVars
<1>1. NoTrace'
  BY DEF NoTrace, Completed, TriggerEventV2, targetVars, senderVars
<1>2. TargetsKnown'
  BY DEF TargetsKnown, TriggerEventV2, targetVars, senderVars
<1>3. SizesAgree'
  BY DEF SizesAgree, TriggerEventV2, targetVars, senderVars
<1>4. WholeEventInHand'
  BY DEF WholeEventInHand, TriggerEventV2, targetVars, senderVars
<1>5. RecordsTell'
  BY DEF RecordsTell, Completed, TriggerEventV2, targetVars, senderVars, Idle
<1>6. AckPacketsTrue'
  BY DEF AckPacketsTrue, HasFragment, Completed, TriggerEventV2, targetVars,
         senderVars, Idle
<1>7. NothingLingers'
  BY DEF NothingLingers, Quiet, AllAcked, Completed, TriggerEventV2,
         targetVars, senderVars
<1>8. NothingOfUnregistered'
  BY DEF NothingOfUnregistered, TriggerEventV2, targetVars, senderVars
<1>9. WholeEvents'
  BY DEF WholeEvents, TriggerEventV2, targetVars, senderVars
<1>10. DeliveredOnce'
  BY DEF DeliveredOnce, TriggerEventV2, targetVars, senderVars
<1>11. AckedMeansReceived'
  BY DEF AckedMeansReceived, HasFragment, Completed, TriggerEventV2,
         targetVars, senderVars, Idle
<1>12. ForgottenMeansCompleted'
  BY DEF ForgottenMeansCompleted, Severed, Completed, TriggerEventV2,
         targetVars, senderVars, Idle
<1>. QED
  BY <1>1, <1>2, <1>3, <1>4, <1>5, <1>6, <1>7, <1>8, <1>9, <1>10, <1>11, <1>12

\* The transfers of a new event were never accepted before, and are not
\* completed by being accepted.
LEMMA InsertedAreNew ==
    ASSUME IInv, TypeOK', NEW n \in Node, InsertSendEvent(n), NEW x \in Transfer
    PROVE  /\ x.src = n /\ x.id = eventId[n] => accepted[x] = 0
           /\ thread[n] \in Trigger /\ thread[n].count \in 1 .. TotalPacketsMod
           /\ Completed(x)' <=> Completed(x)
<1>. USE DEF IInv, countVars
<1>1. thread[n] \in Trigger
  BY ThreadType DEF InsertSendEvent
<1>2. thread[n].count \in 1 .. TotalPacketsMod
  BY <1>1 DEF Trigger
<1>3. x.src = n /\ x.id = eventId[n] => accepted[x] = 0
  BY DEF NoTrace, TypeOK
<1>4. Completed(x)' <=> Completed(x)
  BY DEF InsertSendEvent, Completed
<1>. QED
  BY <1>1, <1>2, <1>3, <1>4

\* An event enters the send list under a fresh id, of which there is no trace.
LEMMA StepInsert ==
    ASSUME IInv, TypeOK', NEW n \in Node, InsertSendEvent(n)
    PROVE  IInv'
<1>. USE DEF IInv, countVars
<1>. DEFINE new == {x \in Transfer : x.src = n /\ x.id = eventId[n] /\ x.dst \in thread[n].to}
<1>a. /\ \A x \in new : accepted[x] = 0
      /\ new # {} => thread[n] \in Trigger /\ thread[n].count \in 1 .. TotalPacketsMod
  BY InsertedAreNew
<1>b. ASSUME NEW x \in Transfer PROVE Completed(x)' <=> Completed(x)
  BY InsertedAreNew
<1>c. /\ \A x \in Transfer \ new : accepted'[x] = accepted[x] /\ sending'[x] = sending[x]
      /\ \A x \in new : /\ accepted'[x] = thread[n].count
                        /\ sending'[x] = [size |-> thread[n].count, acked |-> {}, lastBit |-> 0]
      /\ sendTargets' = sendTargets \cup new
      /\ receiving' = receiving /\ net' = net /\ delivered' = delivered
      /\ closed' = closed /\ completions' = completions /\ early' = early
      /\ eventId' = [eventId EXCEPT ![n] = @ + 1]
      /\ thread' = [thread EXCEPT ![n] = Idle]
  BY DEF InsertSendEvent, TypeOK, targetVars
<1>d. /\ \A m \in net : m \in Message /\ m.x \in Transfer \ new /\ m.idx \in Nat
      /\ \A x \in new : ~Completed(x) /\ receiving[x] = NoEvent
  <2>1. \A m \in net : m \in Message /\ m.x \in Transfer /\ m.idx \in Nat
    BY DEF TypeOK, Message
  <2>2. \A m \in net : m.idx < accepted[m.x]
    BY DEF SizesAgree
  <2>. QED
    BY <1>a, <2>1, <2>2 DEF NoTrace
<1>1. NoTrace'
  <2>1. ASSUME NEW x \in Transfer PROVE x.id >= eventId'[x.src] => accepted'[x] = 0
    <3>1. eventId[x.src] \in Nat /\ x.id \in Nat /\ x.src \in Node /\ eventId'[x.src] >= eventId[x.src]
      BY <1>c, TransferType DEF TypeOK
    <3>2. CASE x \in new
      BY <1>c, <3>1, <3>2 DEF TypeOK
    <3>3. CASE x \notin new
      BY <1>c, <3>1, <3>3 DEF NoTrace
    <3>. QED
      BY <3>2, <3>3
  <2>2. ASSUME NEW x \in Transfer, accepted'[x] = 0 PROVE x \notin new
    BY <1>a, <1>c, <2>2
  <2>. QED
    BY <1>b, <1>c, <2>1, <2>2 DEF NoTrace
<1>2. TargetsKnown'
  BY DEF TargetsKnown, InsertSendEvent, targetVars, Idle
<1>3. SizesAgree'
  <2>1. \A x \in Transfer : accepted'[x] <= TotalPacketsMod
    BY <1>a, <1>c, WidthAssumption DEF SizesAgree
  <2>2. \A x \in Transfer : sending'[x] # NoData =>
            sending'[x].size = accepted'[x] /\ sending'[x].acked \subseteq 0 .. (accepted'[x] - 1)
    BY <1>a, <1>c DEF SizesAgree
  <2>3. \A m \in net' : m.idx < accepted'[m.x] /\ m.total = accepted'[m.x] % TotalPacketsMod
    BY <1>c, <1>d DEF SizesAgree
  <2>4. ASSUME NEW x \in Transfer, receiving'[x] # NoEvent
        PROVE  /\ receiving'[x].size = accepted'[x]
               /\ receiving'[x].acked \subseteq 0 .. (accepted'[x] - 1)
               /\ receiving'[x].data = receiving'[x].acked
               /\ receiving'[x].completed <=> receiving'[x].acked = 0 .. (accepted'[x] - 1)
    BY <1>c, <1>d, <2>4 DEF SizesAgree
  <2>. QED
    BY <2>1, <2>2, <2>3, <2>4 DEF SizesAgree
<1>4. WholeEventInHand'
  <2>1. ASSUME NEW k \in Node, thread'[k].op = "deliver"
        PROVE  thread'[k] = thread[k] /\ k # n
    BY <1>c, <2>1 DEF Idle, TypeOK
  <2>2. ASSUME NEW k \in Node, thread[k].op = "deliver", k # n
        PROVE  thread[k].x \in Transfer \ new
    <3>1. thread[k].x \in Transfer
      BY <2>2, ThreadType DEF Deliver
    <3>2. accepted[thread[k].x] > 0
      BY <2>2 DEF WholeEventInHand
    <3>. QED
      BY <1>a, <3>1, <3>2
  <2>. QED
    BY <1>c, <2>1, <2>2 DEF WholeEventInHand
<1>5. RecordsTell'
  BY DEF RecordsTell, Completed, InsertSendEvent, targetVars, Idle
<1>6. AckPacketsTrue'
  BY <1>b, <1>c, <1>d DEF AckPacketsTrue, HasFragment
<1>7. NothingLingers'
  <2>1. ASSUME NEW x \in Transfer \ new PROVE Quiet(x) => Quiet(x)'
    BY <1>c, <2>1 DEF Quiet, AllAcked, Unacked
  <2>2. ASSUME NEW x \in new PROVE completions[x] = early[x]
    BY <1>a DEF NoTrace, Completed, TypeOK
  <2>. QED
    BY <1>c, <2>1, <2>2 DEF NothingLingers
<1>8. NothingOfUnregistered'
  BY DEF NothingOfUnregistered, InsertSendEvent, targetVars
<1>9. WholeEvents'
  <2>1. \A e \in delivered : e.x \in Transfer \ new
    BY <1>a DEF WholeEvents, TypeOK
  <2>. QED
    BY <1>c, <2>1 DEF WholeEvents
<1>10. DeliveredOnce'
  BY DEF DeliveredOnce, InsertSendEvent, targetVars, Idle
<1>11. AckedMeansReceived'
  BY <1>b, <1>c DEF AckedMeansReceived, HasFragment
<1>12. ForgottenMeansCompleted'
  BY <1>b, <1>c DEF ForgottenMeansCompleted, Severed, InsertSendEvent, targetVars
<1>. QED
  BY <1>1, <1>2, <1>3, <1>4, <1>5, <1>6, <1>7, <1>8, <1>9, <1>10, <1>11, <1>12

\* An acknowledgement says the truth, so the bit it sets may be set.
LEMMA StepAck ==
    ASSUME IInv, TypeOK', NEW n \in Node, NEW m \in net, NEW keep \in BOOLEAN,
           HandleAck(n, m, keep)
    PROVE  IInv'
<1>. USE DEF IInv, countVars
<1>a. m \in Message /\ m.x \in Transfer /\ m.idx \in Nat /\ m.x.src = n /\ m.type = "ack"
  BY DEF TypeOK, Message, HandleAck, Addressed, Addressee
<1>b. accepted[m.x] > 0
  BY <1>a DEF SizesAgree, TypeOK
<1>c. /\ \A x \in Transfer : x # m.x => sending'[x] = sending[x]
      /\ sending'[m.x] = [sending[m.x] EXCEPT !.acked =
                            IF m.idx < sending[m.x].size THEN @ \cup {m.idx} ELSE @]
      /\ net' \subseteq net /\ receiving' = receiving /\ thread' = thread
      /\ delivered' = delivered /\ closed' = closed /\ sendTargets' = sendTargets
      /\ accepted' = accepted /\ eventId' = eventId
      /\ completions' = completions /\ early' = early
  BY <1>a DEF HandleAck, Take, TypeOK, targetVars, receiverVars
<1>d. \A x \in Transfer : Completed(x)' <=> Completed(x)
  BY <1>c DEF Completed
<1>e. sending[m.x] = NoData => sending'[m.x] = NoData
  <2>1. ASSUME sending[m.x] = NoData PROVE ~(m.idx < sending[m.x].size)
    BY <1>a, <2>1 DEF NoData
  <2>2. ASSUME sending[m.x] = NoData PROVE sending'[m.x] = [NoData EXCEPT !.acked = NoData.acked]
    BY <1>c, <2>1, <2>2
  <2>. QED
    BY <2>2 DEF NoData
<1>f. /\ \A x \in Transfer : sending'[x].size = sending[x].size
      /\ sending'[m.x].acked \subseteq sending[m.x].acked \cup {m.idx}
      /\ \A x \in Transfer : sending[x].acked \subseteq sending'[x].acked
  <2>1. sending[m.x] \in PerTargetData
    BY <1>a DEF TypeOK
  <2>2. /\ sending'[m.x].size = sending[m.x].size
        /\ sending'[m.x].acked = IF m.idx < sending[m.x].size
                                   THEN sending[m.x].acked \cup {m.idx} ELSE sending[m.x].acked
    BY <1>c, <2>1 DEF PerTargetData
  <2>. QED
    BY <1>c, <2>2
<1>1. NoTrace'
  BY <1>b, <1>c, <1>d DEF NoTrace
<1>2. TargetsKnown'
  BY DEF TargetsKnown, HandleAck, targetVars, receiverVars
<1>3. SizesAgree'
  <2>1. ASSUME NEW x \in Transfer, sending'[x] # NoData
        PROVE  sending'[x].size = accepted[x] /\ sending'[x].acked \subseteq 0 .. (accepted[x] - 1)
    <3>1. sending[x] # NoData
      BY <1>c, <1>e, <2>1
    <3>2. sending[x].size = accepted[x] /\ sending[x].acked \subseteq 0 .. (accepted[x] - 1)
      BY <3>1 DEF SizesAgree
    <3>3. CASE x = m.x
      <4>1. m.idx \in 0 .. (accepted[m.x] - 1)
        BY <1>a DEF SizesAgree, TypeOK
      <4>. QED
        BY <1>f, <3>2, <3>3, <4>1
    <3>. QED
      BY <1>c, <3>2, <3>3
  <2>. QED
    BY <1>c, <2>1 DEF SizesAgree
<1>4. WholeEventInHand'
  BY DEF WholeEventInHand, HandleAck, targetVars, receiverVars
<1>5. RecordsTell'
  BY DEF RecordsTell, Completed, HandleAck, targetVars, receiverVars
<1>6. AckPacketsTrue'
  BY DEF AckPacketsTrue, HasFragment, Completed, HandleAck, Take, targetVars,
         receiverVars
<1>7. NothingLingers'
  <2>1. ASSUME NEW x \in Transfer, Quiet(x) PROVE Quiet(x)'
    <3>1. AllAcked(x) => AllAcked(x)'
      BY <1>f DEF AllAcked, Unacked
    <3>. QED
      BY <1>c, <2>1, <3>1 DEF Quiet
  <2>. QED
    BY <1>c, <1>d, <2>1 DEF NothingLingers
<1>8. NothingOfUnregistered'
  BY DEF NothingOfUnregistered, HandleAck, targetVars, receiverVars
<1>9. WholeEvents'
  BY DEF WholeEvents, HandleAck, targetVars, receiverVars
<1>10. DeliveredOnce'
  BY DEF DeliveredOnce, HandleAck, targetVars, receiverVars
<1>11. AckedMeansReceived'
  <2>1. \A x \in Transfer, i \in Nat : HasFragment(x, i)' <=> HasFragment(x, i)
    BY <1>c, <1>d DEF HasFragment
  <2>2. HasFragment(m.x, m.idx) \/ m.x.src \in closed[m.x.dst]
    BY <1>a DEF AckPacketsTrue
  <2>3. \A x \in Transfer : sending[x].acked \subseteq Nat
    BY DEF TypeOK, PerTargetData
  <2>4. ASSUME NEW x \in Transfer, NEW i \in sending'[x].acked
        PROVE  i \in sending[x].acked \/ (x = m.x /\ i = m.idx)
    BY <1>c, <1>f
  <2>. QED
    BY <1>a, <1>c, <2>1, <2>2, <2>3, <2>4 DEF AckedMeansReceived
<1>12. ForgottenMeansCompleted'
  BY DEF ForgottenMeansCompleted, Severed, Completed, HandleAck, targetVars,
         receiverVars
<1>. QED
  BY <1>1, <1>2, <1>3, <1>4, <1>5, <1>6, <1>7, <1>8, <1>9, <1>10, <1>11, <1>12

\* A refused packet only leaves the network.
LEMMA StepRefuse ==
    ASSUME IInv, TypeOK', NEW n \in Node, NEW m \in net, NEW keep \in BOOLEAN,
           RefusePacket(n, m, keep)
    PROVE  IInv'
<1>. USE DEF IInv, countVars
<1>1. NoTrace'
  BY DEF NoTrace, Completed, RefusePacket, targetVars, senderVars,
         receiverVars
<1>2. TargetsKnown'
  BY DEF TargetsKnown, RefusePacket, targetVars, senderVars, receiverVars
<1>3. SizesAgree'
  BY DEF SizesAgree, RefusePacket, Take, targetVars, senderVars, receiverVars
<1>4. WholeEventInHand'
  BY DEF WholeEventInHand, RefusePacket, targetVars, senderVars, receiverVars
<1>5. RecordsTell'
  BY DEF RecordsTell, Completed, RefusePacket, targetVars, senderVars,
         receiverVars
<1>6. AckPacketsTrue'
  BY DEF AckPacketsTrue, HasFragment, Completed, RefusePacket, Take,
         targetVars, senderVars, receiverVars
<1>7. NothingLingers'
  BY DEF NothingLingers, Quiet, AllAcked, Completed, RefusePacket, Take,
         targetVars, senderVars, receiverVars
<1>8. NothingOfUnregistered'
  BY DEF NothingOfUnregistered, RefusePacket, targetVars, senderVars,
         receiverVars
<1>9. WholeEvents'
  BY DEF WholeEvents, RefusePacket, targetVars, senderVars, receiverVars
<1>10. DeliveredOnce'
  BY DEF DeliveredOnce, RefusePacket, targetVars, senderVars, receiverVars
<1>11. AckedMeansReceived'
  BY DEF AckedMeansReceived, HasFragment, Completed, RefusePacket, targetVars,
         senderVars, receiverVars
<1>12. ForgottenMeansCompleted'
  BY DEF ForgottenMeansCompleted, Severed, Completed, RefusePacket,
         targetVars, senderVars, receiverVars
<1>. QED
  BY <1>1, <1>2, <1>3, <1>4, <1>5, <1>6, <1>7, <1>8, <1>9, <1>10, <1>11, <1>12

\* A repeated fragment is acknowledged: it is there.
LEMMA StepAckAgain ==
    ASSUME IInv, TypeOK', NEW n \in Node, NEW m \in net, NEW keep \in BOOLEAN,
           AckAgain(n, m, keep)
    PROVE  IInv'
<1>. USE DEF IInv, countVars
<1>a. m \in Message /\ m.x \in Transfer /\ m.idx \in Nat
      /\ AckPacket(m) \in Message /\ AckPacket(m).x = m.x /\ AckPacket(m).idx = m.idx
      /\ AckPacket(m).total = m.total /\ AckPacket(m).type = "ack"
  BY DEF TypeOK, Message, AckPacket
<1>b. net' \subseteq net \cup {AckPacket(m)}
  BY DEF AckAgain, Take
<1>c. /\ receiving' = receiving /\ thread' = thread /\ delivered' = delivered /\ closed' = closed
      /\ sending' = sending /\ sendTargets' = sendTargets /\ accepted' = accepted
      /\ completions' = completions /\ early' = early
  BY DEF AckAgain, targetVars, senderVars, receiverVars
<1>d. \A x \in Transfer : Completed(x)' <=> Completed(x)
  BY <1>c DEF Completed
<1>1. NoTrace'
  BY DEF NoTrace, Completed, AckAgain, targetVars, senderVars, receiverVars
<1>2. TargetsKnown'
  BY DEF TargetsKnown, AckAgain, targetVars, senderVars, receiverVars
<1>3. SizesAgree'
  <2>1. \A q \in net' : q.idx < accepted[q.x] /\ q.total = accepted[q.x] % TotalPacketsMod
    BY <1>a, <1>b DEF SizesAgree
  <2>. QED
    BY <1>c, <2>1 DEF SizesAgree
<1>4. WholeEventInHand'
  BY DEF WholeEventInHand, AckAgain, targetVars, senderVars, receiverVars
<1>5. RecordsTell'
  BY DEF RecordsTell, Completed, AckAgain, targetVars, senderVars,
         receiverVars
<1>6. AckPacketsTrue'
  <2>1. HasFragment(m.x, m.idx)
    <3>1. CASE m.idx \in receiving[m.x].acked
      BY <3>1 DEF HasFragment
    <3>2. CASE receiving[m.x].completed
      BY <1>a, <3>2 DEF RecordsTell, HasFragment, Completed, AckAgain, TypeOK
    <3>. QED
      BY <3>1, <3>2 DEF AckAgain
  <2>2. \A x \in Transfer, i \in Nat : HasFragment(x, i)' <=> HasFragment(x, i)
    BY <1>c, <1>d DEF HasFragment
  <2>3. \A q \in net : q.x \in Transfer /\ q.idx \in Nat
    BY DEF TypeOK, Message
  <2>. QED
    BY <1>a, <1>b, <1>c, <2>1, <2>2, <2>3 DEF AckPacketsTrue
<1>7. NothingLingers'
  <2>1. ASSUME NEW x \in Transfer, Quiet(x) PROVE Quiet(x)'
    BY <1>a, <1>b, <1>c, <2>1 DEF Quiet, AllAcked
  <2>. QED
    BY <1>c, <1>d, <2>1 DEF NothingLingers
<1>8. NothingOfUnregistered'
  BY DEF NothingOfUnregistered, AckAgain, targetVars, senderVars, receiverVars
<1>9. WholeEvents'
  BY DEF WholeEvents, AckAgain, targetVars, senderVars, receiverVars
<1>10. DeliveredOnce'
  BY DEF DeliveredOnce, AckAgain, targetVars, senderVars, receiverVars
<1>11. AckedMeansReceived'
  BY DEF AckedMeansReceived, HasFragment, Completed, AckAgain, targetVars,
         senderVars, receiverVars
<1>12. ForgottenMeansCompleted'
  BY DEF ForgottenMeansCompleted, Severed, Completed, AckAgain, targetVars,
         senderVars, receiverVars
<1>. QED
  BY <1>1, <1>2, <1>3, <1>4, <1>5, <1>6, <1>7, <1>8, <1>9, <1>10, <1>11, <1>12

\* A fragment that is accepted is news: its event was not put together since the
\* last lapse, because a packet of it was still in flight.
LEMMA FragmentIsNews ==
    ASSUME IInv, TypeOK', NEW n \in Node, NEW m \in net,
           NEW keep \in BOOLEAN, AcceptFragment(n, m, keep)
    PROVE  /\ m \in Message /\ m.x \in Transfer /\ m.idx \in Nat /\ m.type = "data"
           /\ m.x.dst = n /\ m.x.src \in Node
           /\ accepted[m.x] \in Nat \ {0} /\ m.idx < accepted[m.x] /\ m.total = accepted[m.x]
           /\ completions[m.x] = early[m.x]
<1>. USE DEF IInv, countVars
<1>. DEFINE y == m.x
<1>a. /\ m \in Message /\ y \in Transfer /\ m.idx \in Nat /\ m.type = "data"
      /\ y.dst = n /\ y.src \in Node
  BY TransferType DEF TypeOK, Message, AcceptFragment, Addressed, Addressee
<1>b. accepted[y] \in Nat \ {0} /\ m.idx < accepted[y] /\ m.total = accepted[y]
  <2>1. /\ accepted[y] \in Nat /\ accepted[y] <= TotalPacketsMod
        /\ m.idx < accepted[y] /\ m.total = accepted[y] % TotalPacketsMod
    BY <1>a DEF SizesAgree, TypeOK
  <2>2. m.total # 0
    BY DEF AcceptFragment, Malformed
  <2>3. accepted[y] # TotalPacketsMod
    BY <2>1, <2>2, WidthAssumption
  <2>. QED
    BY <1>a, <2>1, <2>3, Modulus, WidthAssumption
<1>c. completions[y] = early[y]
  <2>1. CASE receiving[y] # NoEvent
    BY <1>a, <2>1 DEF RecordsTell, AcceptFragment, Opened
  <2>2. CASE receiving[y] = NoEvent
    <3>1. y.src \in targets[y.dst]
      BY <1>a, <2>2 DEF AcceptFragment, MayOpen
    <3>2. y.src \notin closed[y.dst]
      BY <1>a, <3>1 DEF TargetsKnown
    <3>3. ~Quiet(y)
      BY <1>a DEF Quiet
    <3>. QED
      BY <1>a, <2>2, <3>2, <3>3 DEF NothingLingers
  <2>. QED
    BY <2>1, <2>2
<1>. QED
  BY <1>a, <1>b, <1>c

\* Accepting the last fragment of an event, and nothing less, completes it.
LEMMA AcceptCompletes ==
    ASSUME IInv, TypeOK', NEW n \in Node, NEW m \in net,
           NEW keep \in BOOLEAN, AcceptFragment(n, m, keep),
           NEW x \in Transfer
    PROVE  LET all == HasAll(Opened(m).acked \cup {m.idx}, Opened(m).size)
           IN  /\ completions'[x] = IF x = m.x /\ all THEN completions[x] + 1 ELSE completions[x]
               /\ Completed(x)' <=> Completed(x) \/ (x = m.x /\ all)
<1>1. completions \in [Transfer -> Nat] /\ m.x \in Transfer
  BY FragmentIsNews DEF IInv, TypeOK
<1>. QED
  BY <1>1 DEF AcceptFragment, Completed

\* A missing fragment arrives.  If it is the last one the event is completed.
LEMMA StepAccept ==
    ASSUME IInv, TypeOK', NEW n \in Node, NEW m \in net, NEW keep \in BOOLEAN,
           AcceptFragment(n, m, keep)
    PROVE  IInv'
<1>. USE DEF IInv, countVars
<1>. DEFINE y == m.x
            r == Opened(m)
            acked == r.acked \cup {m.idx}
            hasAll == acked = 0 .. (r.size - 1)
<1>a. /\ m \in Message /\ y \in Transfer /\ m.idx \in Nat /\ m.type = "data"
      /\ y.dst = n /\ y.src \in Node
      /\ AckPacket(m).x = y /\ AckPacket(m).idx = m.idx
      /\ AckPacket(m).total = m.total /\ AckPacket(m).type = "ack"
  BY FragmentIsNews DEF AckPacket, Message
<1>b. accepted[y] \in Nat \ {0} /\ m.idx < accepted[y] /\ m.total = accepted[y]
  BY FragmentIsNews
<1>c. completions[y] = early[y] /\ early[y] \in Nat
  BY FragmentIsNews DEF TypeOK
<1>d. /\ r.size = accepted[y] /\ r.acked \subseteq 0 .. (accepted[y] - 1) /\ r.data = r.acked
      /\ receiving[y].acked \subseteq r.acked
  BY <1>a, <1>b DEF SizesAgree, Opened, NoEvent, AcceptFragment
<1>e. /\ \A x \in Transfer : x # y => receiving'[x] = receiving[x]
      /\ receiving'[y].size = accepted[y]
      /\ receiving'[y].acked = acked
      /\ receiving'[y].data = acked
      /\ receiving'[y].completed <=> hasAll
      /\ receiving'[y] # NoEvent
  <2>1. receiving' = [receiving EXCEPT ![y] = [size |-> r.size, acked |-> acked,
                                               data |-> r.data \cup {m.idx}, completed |-> hasAll]]
    BY DEF AcceptFragment, Kept, HasAll
  <2>2. receiving'[y] = [size |-> r.size, acked |-> acked, data |-> r.data \cup {m.idx},
                         completed |-> hasAll]
        /\ \A x \in Transfer : x # y => receiving'[x] = receiving[x]
    BY <1>a, <2>1 DEF TypeOK
  <2>3. receiving'[y].size # 0
    BY <1>b, <1>d, <2>2
  <2>. HIDE DEF hasAll
  <2>. QED
    BY <1>d, <2>2, <2>3 DEF NoEvent
<1>i. /\ net' \subseteq net \cup {AckPacket(m)}
      /\ delivered' = delivered /\ closed' = closed /\ sending' = sending
      /\ sendTargets' = sendTargets /\ accepted' = accepted /\ eventId' = eventId
      /\ targets' = targets /\ early' = early
  BY DEF AcceptFragment, Take, targetVars, senderVars
<1>f. /\ thread[n] = Idle
      /\ hasAll => thread' = [thread EXCEPT ![n] = [op |-> "deliver", x |-> y, fragments |-> acked]]
      /\ ~hasAll => thread' = thread
  BY <1>d DEF AcceptFragment, HasAll, Addressed
<1>g. ASSUME NEW x \in Transfer
      PROVE  /\ Completed(x)' <=> Completed(x) \/ (x = y /\ hasAll)
             /\ completions'[x] = IF x = y /\ hasAll THEN completions[x] + 1 ELSE completions[x]
  BY AcceptCompletes DEF HasAll
<1>h. ASSUME NEW x \in Transfer, NEW i, HasFragment(x, i) PROVE HasFragment(x, i)'
  BY <1>d, <1>e, <1>i, <1>g, <1>h DEF HasFragment
<1>1. NoTrace'
  BY <1>b, <1>e, <1>i, <1>g DEF NoTrace
<1>2. TargetsKnown'
  <2>1. ASSUME NEW k \in Node, thread'[k].op = "trigger" PROVE thread'[k] = thread[k]
    BY <1>f, <2>1 DEF TypeOK
  <2>. QED
    BY <1>i, <2>1 DEF TargetsKnown
<1>3. SizesAgree'
  <2>1. \A q \in net' : q.idx < accepted[q.x] /\ q.total = accepted[q.x] % TotalPacketsMod
    BY <1>a, <1>e, <1>i DEF SizesAgree
  <2>2. ASSUME NEW x \in Transfer, receiving'[x] # NoEvent
        PROVE  /\ receiving'[x].size = accepted[x]
               /\ receiving'[x].acked \subseteq 0 .. (accepted[x] - 1)
               /\ receiving'[x].data = receiving'[x].acked
               /\ receiving'[x].completed <=> receiving'[x].acked = 0 .. (accepted[x] - 1)
    <3>1. CASE x = y
      <4>1. acked \subseteq 0 .. (accepted[y] - 1)
        BY <1>a, <1>b, <1>d
      <4>2. hasAll <=> acked = 0 .. (accepted[y] - 1)
        BY <1>d
      <4>. HIDE DEF hasAll
      <4>. QED
        BY <1>e, <3>1, <4>1, <4>2
    <3>2. CASE x # y
      BY <1>e, <1>i, <2>2, <3>2 DEF SizesAgree
    <3>. QED
      BY <3>1, <3>2
  <2>. QED
    BY <1>e, <1>i, <2>1, <2>2 DEF SizesAgree
<1>4. WholeEventInHand'
  <2>1. CASE hasAll
    <3>1. acked = 0 .. (accepted[y] - 1)
      BY <1>d, <2>1
    <3>2. thread'[n] = [op |-> "deliver", x |-> y, fragments |-> acked]
          /\ \A k \in Node : k # n => thread'[k] = thread[k]
      BY <1>f, <2>1 DEF TypeOK
    <3>3. ASSUME NEW k \in Node, thread'[k].op = "deliver"
          PROVE  /\ thread'[k].x.dst = k /\ accepted[thread'[k].x] > 0
                 /\ thread'[k].fragments = 0 .. (accepted[thread'[k].x] - 1)
      <4>1. CASE k = n
        <5>1. thread'[k].x = y /\ thread'[k].fragments = acked
          BY <3>2, <4>1
        <5>2. accepted[y] > 0
          BY <1>b
        <5>. HIDE DEF acked, y
        <5>. QED
          BY <1>a, <3>1, <4>1, <5>1, <5>2
      <4>2. CASE k # n
        BY <3>2, <3>3, <4>2 DEF WholeEventInHand
      <4>. QED
        BY <4>1, <4>2
    <3>. QED
      BY <1>i, <3>3 DEF WholeEventInHand
  <2>2. CASE ~hasAll
    BY <1>e, <1>i, <1>f, <2>2 DEF WholeEventInHand
  <2>. QED
    BY <2>1, <2>2
<1>5. RecordsTell'
  <2>1. ASSUME NEW x \in Transfer, receiving'[x] # NoEvent
        PROVE  completions'[x] = IF receiving'[x].completed THEN early[x] + 1 ELSE early[x]
    <3>1. CASE x = y
      <4>. HIDE DEF hasAll
      <4>. QED
        BY <1>c, <1>e, <1>g, <3>1
    <3>2. CASE x # y
      BY <1>e, <1>g, <2>1, <3>2 DEF RecordsTell
    <3>. QED
      BY <3>1, <3>2
  <2>. QED
    BY <1>i, <2>1 DEF RecordsTell
<1>6. AckPacketsTrue'
  <2>1. HasFragment(y, m.idx)'
    BY <1>a, <1>e, <1>i DEF HasFragment
  <2>. QED
    BY <1>a, <1>e, <1>i, <1>h, <2>1 DEF AckPacketsTrue, TypeOK, Message
<1>7. NothingLingers'
  <2>1. ASSUME NEW x \in Transfer, Quiet(x) PROVE Quiet(x)'
    BY <1>a, <1>e, <1>i, <2>1 DEF Quiet, AllAcked
  <2>. QED
    BY <1>e, <1>i, <1>g, <2>1 DEF NothingLingers
<1>8. NothingOfUnregistered'
  <2>1. y.src \in targets[y.dst]
    BY <1>a DEF NothingOfUnregistered, AcceptFragment, MayOpen
  <2>. QED
    BY <1>e, <1>i, <2>1 DEF NothingOfUnregistered
<1>9. WholeEvents'
  BY DEF WholeEvents, AcceptFragment, targetVars, senderVars
<1>10. DeliveredOnce'
  BY <1>c, <1>g, <1>i DEF DeliveredOnce
<1>11. AckedMeansReceived'
  BY <1>e, <1>i, <1>h DEF AckedMeansReceived
<1>12. ForgottenMeansCompleted'
  BY <1>e, <1>i, <1>g DEF ForgottenMeansCompleted, Severed
<1>. QED
  BY <1>1, <1>2, <1>3, <1>4, <1>5, <1>6, <1>7, <1>8, <1>9, <1>10, <1>11, <1>12

\* The network thread serves, releases, drops and cleans up.  It sends only
\* fragments that are missing at the sender, and what it cleans up is quiet.
LEMMA StepTick ==
    ASSUME IInv, TypeOK', NEW n \in Node, NEW due \in SUBSET Sendable(n),
           NEW burst \in Bursts(due), NEW expired \in SUBSET Expirable(n),
           NetworkTick(n, due, burst, expired)
    PROVE  IInv'
<1>. USE DEF IInv, countVars
<1>. DEFINE send == {x \in due : ~AllAcked(x)}
            done == {x \in due : AllAcked(x)}
            left == sendTargets \ (done \cup Gone(n))
<1>a. /\ due \subseteq Transfer /\ \A x \in due : sending[x] # NoData
      /\ \A x \in send : /\ sending[x] \in PerTargetData
                         /\ burst[x].sends \subseteq Unacked(sending[x])
                         /\ Unacked(sending[x]) # {}
  <2>1. due \subseteq Transfer /\ \A x \in due : sending[x] # NoData
    BY DEF Sendable, TypeOK
  <2>2. \A x \in send : burst[x] \in BurstOutcomes(sending[x]) /\ sending[x] \in PerTargetData
    BY <2>1 DEF Bursts, TypeOK
  <2>. QED
    BY <2>1, <2>2, BurstType DEF AllAcked
<1>b. /\ sendTargets' = left
      /\ net' = net \cup UNION {{DataPacket(x, i) : i \in burst[x].sends} : x \in send}
      /\ thread' = thread /\ delivered' = delivered /\ closed' = closed
      /\ accepted' = accepted /\ eventId' = eventId /\ targets' = targets
      /\ completions' = completions
      /\ \A x \in Transfer : receiving'[x] = IF x \in expired THEN NoEvent ELSE receiving[x]
      /\ \A x \in Transfer : early'[x] = IF x \in expired /\ ~Quiet(x)
                                            THEN early[x] + 1 ELSE early[x]
  <2>1. due \ done = send
    OBVIOUS
  <2>. QED
    BY <2>1 DEF NetworkTick, NetworkTickSendList, Left, targetVars
<1>c. ASSUME NEW x \in Transfer
      PROVE  \/ sending'[x] = NoData
             \/ /\ sending[x] # NoData
                /\ sending'[x].size = sending[x].size /\ sending'[x].acked = sending[x].acked
  <2>1. due \ done = send
    OBVIOUS
  <2>2. \/ sending'[x] = NoData
        \/ x \in send /\ sending'[x] = [sending[x] EXCEPT !.lastBit = burst[x].lastBit]
        \/ sending'[x] = sending[x]
    BY <2>1 DEF NetworkTick, NetworkTickSendList, Left
  <2>. QED
    BY <1>a, <2>2 DEF TypeOK, PerTargetData
<1>d. \A x \in Transfer : Completed(x)' <=> Completed(x)
  BY <1>b DEF Completed
<1>e. ASSUME NEW x \in expired
      PROVE  x \in Transfer /\ Completed(x) /\ completions[x] = early[x] + 1 /\ early[x] \in Nat
  <2>1. x \in Transfer /\ receiving[x].completed /\ early[x] \in Nat
    BY <1>e DEF Expirable, TypeOK
  <2>2. receiving[x] # NoEvent
    BY <2>1 DEF NoEvent
  <2>3. completions[x] = early[x] + 1
    BY <2>1, <2>2 DEF RecordsTell
  <2>. QED
    BY <2>1, <2>3 DEF Completed
<1>f. ASSUME NEW x \in Transfer, NEW i, HasFragment(x, i) PROVE HasFragment(x, i)'
  BY <1>b, <1>d, <1>e, <1>f DEF HasFragment
<1>g. ASSUME NEW q \in net', q \notin net
      PROVE  \E x \in send : /\ q.type = "data" /\ q.x = x /\ q.idx \in Unacked(sending[x])
                             /\ q.total = sending[x].size % TotalPacketsMod
  BY <1>a, <1>b, <1>g DEF DataPacket
<1>h. ASSUME NEW x \in Transfer, Quiet(x) PROVE Quiet(x)'
  <2>1. x \notin send
    BY <1>h DEF Quiet, Sendable
  <2>2. AllAcked(x) => AllAcked(x)'
    BY <1>c DEF AllAcked, Unacked, NoData
  <2>3. \A q \in net' : q.type = "data" => q.x # x
    BY <1>g, <1>h, <2>1 DEF Quiet
  <2>. QED
    BY <1>b, <1>h, <2>2, <2>3 DEF Quiet
<1>1. NoTrace'
  <2>1. \A x \in Transfer : accepted[x] = 0 => x \notin expired
    BY <1>e DEF NoTrace
  <2>. QED
    BY <1>b, <1>c, <1>d, <2>1 DEF NoTrace
<1>2. TargetsKnown'
  BY DEF TargetsKnown, NetworkTick, NetworkTickSendList, Left, targetVars
<1>3. SizesAgree'
  <2>1. \A x \in Transfer : sending'[x] # NoData =>
            sending'[x].size = accepted[x] /\ sending'[x].acked \subseteq 0 .. (accepted[x] - 1)
    BY <1>c DEF SizesAgree
  <2>2. ASSUME NEW q \in net'
        PROVE  q.idx < accepted[q.x] /\ q.total = accepted[q.x] % TotalPacketsMod
    <3>1. CASE q \in net
      BY <3>1 DEF SizesAgree
    <3>2. CASE q \notin net
      <4>1. PICK x \in send : /\ q.x = x /\ q.idx \in Unacked(sending[x])
                              /\ q.total = sending[x].size % TotalPacketsMod
        BY <1>g, <3>2
      <4>2. sending[x].size = accepted[x] /\ sending[x].size \in Nat
        BY <1>a DEF SizesAgree, PerTargetData
      <4>. QED
        BY <4>1, <4>2 DEF Unacked
    <3>. QED
      BY <3>1, <3>2
  <2>3. ASSUME NEW x \in Transfer, receiving'[x] # NoEvent
        PROVE  receiving'[x] = receiving[x]
    BY <1>b, <2>3
  <2>. QED
    BY <1>b, <2>1, <2>2, <2>3 DEF SizesAgree
<1>4. WholeEventInHand'
  BY DEF WholeEventInHand, NetworkTick, NetworkTickSendList, targetVars
<1>5. RecordsTell'
  BY <1>b DEF RecordsTell
<1>6. AckPacketsTrue'
  BY <1>b, <1>f, <1>g DEF AckPacketsTrue, TypeOK, Message
<1>7. NothingLingers'
  <2>1. ASSUME NEW x \in Transfer, receiving'[x] = NoEvent
        PROVE  \/ completions'[x] = early'[x]
               \/ completions'[x] = early'[x] + 1 /\ (Quiet(x)' \/ x.src \in closed'[x.dst])
    <3>1. CASE x \in expired
      BY <1>b, <1>e, <1>h, <3>1
    <3>2. CASE x \notin expired
      BY <1>b, <1>h, <2>1, <3>2 DEF NothingLingers
    <3>. QED
      BY <3>1, <3>2
  <2>. QED
    BY <2>1 DEF NothingLingers
<1>8. NothingOfUnregistered'
  BY DEF NothingOfUnregistered, NetworkTick, NetworkTickSendList, targetVars
<1>9. WholeEvents'
  BY DEF WholeEvents, NetworkTick, NetworkTickSendList, targetVars
<1>10. DeliveredOnce'
  <2>1. ASSUME NEW x \in Transfer PROVE completions'[x] <= 1 + early'[x]
    <3>1. early[x] \in Nat /\ completions[x] \in Nat /\ completions[x] <= 1 + early[x]
      BY DEF DeliveredOnce, TypeOK
    <3>. QED
      BY <1>b, <3>1
  <2>. QED
    BY <2>1 DEF DeliveredOnce
<1>11. AckedMeansReceived'
  BY <1>b, <1>c, <1>f DEF AckedMeansReceived, NoData
<1>12. ForgottenMeansCompleted'
  <2>1. ASSUME NEW x \in Transfer, accepted[x] > 0, x \in done, x.src \notin closed[x.dst]
        PROVE  Completed(x)
    <3>1. /\ sending[x] # NoData /\ sending[x].size = accepted[x] /\ accepted[x] \in Nat
          /\ sending[x].acked \subseteq 0 .. (accepted[x] - 1)
      BY <1>a, <2>1 DEF SizesAgree, TypeOK
    <3>2. sending[x].acked = 0 .. (accepted[x] - 1)
      BY <2>1, <3>1 DEF AllAcked, Unacked
    <3>3. \A i \in 0 .. (accepted[x] - 1) : HasFragment(x, i)
      BY <2>1, <3>2 DEF AckedMeansReceived
    <3>4. SUFFICES ASSUME ~Completed(x) PROVE FALSE
      OBVIOUS
    <3>5. 0 .. (accepted[x] - 1) \subseteq receiving[x].acked
      BY <3>3, <3>4 DEF HasFragment
    <3>6. receiving[x] # NoEvent
      BY <2>1, <3>1, <3>5 DEF NoEvent
    <3>7. receiving[x].completed
      BY <3>5, <3>6 DEF SizesAgree
    <3>. QED
      BY <3>4, <3>6, <3>7 DEF RecordsTell, Completed, TypeOK
  <2>2. ASSUME NEW x \in Gone(n) PROVE Severed(x)
    BY DEF Gone, TargetsKnown, Severed
  <2>. QED
    BY <1>b, <1>d, <2>1, <2>2 DEF ForgottenMeansCompleted, Severed
<1>. QED
  BY <1>1, <1>2, <1>3, <1>4, <1>5, <1>6, <1>7, <1>8, <1>9, <1>10, <1>11, <1>12

\* What the main thread holds becomes what was delivered.
LEMMA StepReceive ==
    ASSUME IInv, TypeOK', NEW n \in Node, HandleReceivedPacket(n)
    PROVE  IInv'
<1>. USE DEF IInv, countVars
<1>. DEFINE y == thread[n].x
            new == [x |-> y, fragments |-> thread[n].fragments]
<1>a. /\ y \in Transfer /\ y.dst = n /\ accepted[y] > 0
      /\ thread[n].fragments = 0 .. (accepted[y] - 1)
      /\ thread[n].op = "deliver"
  <2>1. thread[n] \in Deliver
    BY ThreadType DEF HandleReceivedPacket
  <2>. QED
    BY <2>1 DEF WholeEventInHand, HandleReceivedPacket, Deliver
<1>b. /\ delivered' = delivered \cup {new}
      /\ thread' = [thread EXCEPT ![n] = Idle]
      /\ receiving' = receiving /\ net' = net /\ closed' = closed /\ accepted' = accepted
      /\ sending' = sending /\ sendTargets' = sendTargets /\ eventId' = eventId
      /\ targets' = targets /\ completions' = completions /\ early' = early
  BY DEF HandleReceivedPacket, targetVars, senderVars
<1>c. \A k \in Node : thread'[k] = IF k = n THEN Idle ELSE thread[k]
  BY <1>b DEF TypeOK
<1>d. ASSUME NEW x \in Transfer PROVE Completed(x)' <=> Completed(x)
  BY <1>b DEF Completed
<1>e. \A x \in Transfer : \A i : HasFragment(x, i)' <=> HasFragment(x, i)
  BY <1>b, <1>d DEF HasFragment
<1>1. NoTrace'
  BY <1>b, <1>d DEF NoTrace
<1>2. TargetsKnown'
  BY DEF TargetsKnown, HandleReceivedPacket, targetVars, senderVars, Idle
<1>3. SizesAgree'
  BY DEF SizesAgree, HandleReceivedPacket, targetVars, senderVars
<1>4. WholeEventInHand'
  BY DEF WholeEventInHand, HandleReceivedPacket, targetVars, senderVars, Idle
<1>5. RecordsTell'
  BY <1>b DEF RecordsTell
<1>6. AckPacketsTrue'
  BY <1>b, <1>e DEF AckPacketsTrue, TypeOK, Message
<1>7. NothingLingers'
  BY <1>b, <1>d DEF NothingLingers, Quiet, AllAcked
<1>8. NothingOfUnregistered'
  BY DEF NothingOfUnregistered, HandleReceivedPacket, targetVars, senderVars
<1>9. WholeEvents'
  BY <1>a, <1>b DEF WholeEvents
<1>10. DeliveredOnce'
  BY <1>b DEF DeliveredOnce
<1>11. AckedMeansReceived'
  BY <1>b, <1>e DEF AckedMeansReceived
<1>12. ForgottenMeansCompleted'
  BY <1>b, <1>d DEF ForgottenMeansCompleted, Severed
<1>. QED
  BY <1>1, <1>2, <1>3, <1>4, <1>5, <1>6, <1>7, <1>8, <1>9, <1>10, <1>11, <1>12

\* A packet is lost.
LEMMA StepLose ==
    ASSUME IInv, TypeOK', NEW m \in net, LosePacket(m)
    PROVE  IInv'
<1>. USE DEF IInv, countVars
<1>1. NoTrace'
  BY DEF NoTrace, Completed, LosePacket, targetVars, senderVars, receiverVars
<1>2. TargetsKnown'
  BY DEF TargetsKnown, LosePacket, targetVars, senderVars, receiverVars
<1>3. SizesAgree'
  BY DEF SizesAgree, LosePacket, targetVars, senderVars, receiverVars
<1>4. WholeEventInHand'
  BY DEF WholeEventInHand, LosePacket, targetVars, senderVars, receiverVars
<1>5. RecordsTell'
  BY DEF RecordsTell, Completed, LosePacket, targetVars, senderVars,
         receiverVars
<1>6. AckPacketsTrue'
  BY DEF AckPacketsTrue, HasFragment, Completed, LosePacket, targetVars,
         senderVars, receiverVars
<1>7. NothingLingers'
  BY DEF NothingLingers, Quiet, AllAcked, Completed, LosePacket, targetVars,
         senderVars, receiverVars
<1>8. NothingOfUnregistered'
  BY DEF NothingOfUnregistered, LosePacket, targetVars, senderVars,
         receiverVars
<1>9. WholeEvents'
  BY DEF WholeEvents, LosePacket, targetVars, senderVars, receiverVars
<1>10. DeliveredOnce'
  BY DEF DeliveredOnce, LosePacket, targetVars, senderVars, receiverVars
<1>11. AckedMeansReceived'
  BY DEF AckedMeansReceived, HasFragment, Completed, LosePacket, targetVars,
         senderVars, receiverVars
<1>12. ForgottenMeansCompleted'
  BY DEF ForgottenMeansCompleted, Severed, Completed, LosePacket, targetVars,
         senderVars, receiverVars
<1>. QED
  BY <1>1, <1>2, <1>3, <1>4, <1>5, <1>6, <1>7, <1>8, <1>9, <1>10, <1>11, <1>12

\* IInv holds initially and every step preserves it.
LEMMA InitIInv == Init => IInv
<1>. SUFFICES ASSUME Init PROVE IInv
  OBVIOUS
<1>1. TypeOK
  BY InitType
<1>2. \A x \in Transfer : ~Completed(x) /\ accepted[x] = 0 /\ sending[x] = NoData
  BY DEF Init, Completed
<1>3. NoTrace
  BY <1>2 DEF Init, NoTrace
<1>4. TargetsKnown
  BY DEF Init, TargetsKnown, Idle
<1>5. SizesAgree
  BY WidthAssumption DEF Init, SizesAgree
<1>6. WholeEventInHand /\ DeliveredOnce /\ WholeEvents
  BY DEF Init, WholeEventInHand, DeliveredOnce, WholeEvents, Idle
<1>7. RecordsTell /\ NothingOfUnregistered /\ AckPacketsTrue
  BY DEF Init, RecordsTell, NothingOfUnregistered, AckPacketsTrue
<1>8. NothingLingers /\ ForgottenMeansCompleted
  BY <1>2 DEF Init, NothingLingers, ForgottenMeansCompleted
<1>9. AckedMeansReceived
  BY <1>2 DEF AckedMeansReceived, NoData
<1>. QED
  BY <1>1, <1>3, <1>4, <1>5, <1>6, <1>7, <1>8, <1>9 DEF IInv

LEMMA NextIInv == IInv /\ [Next]_vars => IInv'
<1>. SUFFICES ASSUME IInv, [Next]_vars PROVE IInv'
  OBVIOUS
<1>1. TypeOK'
  BY TypeStep DEF IInv
<1>2. CASE UNCHANGED vars
  BY <1>2 DEF vars, IInv, TypeOK, NoTrace, TargetsKnown, SizesAgree, WholeEventInHand,
              RecordsTell, AckPacketsTrue, NothingLingers, NothingOfUnregistered,
              WholeEvents, DeliveredOnce, AckedMeansReceived, ForgottenMeansCompleted,
              Completed, HasFragment, Severed, Quiet, AllAcked
<1>3. ASSUME NEW n \in Node, NEW m \in net, NEW keep \in BOOLEAN, HandlePacketV2(n, m, keep)
      PROVE  IInv'
  BY <1>1, <1>3, StepAck, StepRefuse, StepAckAgain, StepAccept DEF HandlePacketV2
<1>4. CASE Next
  BY <1>1, <1>3, <1>4, StepRegister, StepUnregister, StepTrigger, StepInsert, StepTick,
     StepReceive, StepLose DEF Next
<1>. QED
  BY <1>2, <1>4

\* In every reachable state all parts of IInv hold: sender, packets in flight
\* and receiver tell the same story about each event.
THEOREM InductiveInvariant == Spec => []IInv
  BY InitIInv, NextIInv, PTL DEF Spec

\* What HandleReceivedPacket hands over is the whole event it was sent as.
THEOREM WholeEventsHold == Spec => []WholeEvents
<1>1. IInv => WholeEvents
  BY DEF IInv
<1>. QED
  BY <1>1, InductiveInvariant, PTL

\* No event is put together a second time, but for each time its record went
\* while a fragment of it was still to come.
THEOREM DeliveredOnceHolds == Spec => []DeliveredOnce
<1>1. IInv => DeliveredOnce
  BY DEF IInv
<1>. QED
  BY <1>1, InductiveInvariant, PTL

\* The sender takes no fragment as acknowledged that its target does not have.
THEOREM AckedMeansReceivedHolds == Spec => []AckedMeansReceived
<1>1. IInv => AckedMeansReceived
  BY DEF IInv
<1>. QED
  BY <1>1, InductiveInvariant, PTL

\* The sender forgets no target that lacks the event.
THEOREM ForgottenMeansCompletedHolds == Spec => []ForgottenMeansCompleted
<1>1. IInv => ForgottenMeansCompleted
  BY DEF IInv
<1>. QED
  BY <1>1, InductiveInvariant, PTL
-----------------------------------------------------------------------------
(* The counter of pending events.  A limit of 255 is left out: it reads as   *)
(* no limit, and the counter then wraps (UnlimitedNeverRunsOut).             *)

Limited == ~UnlimitedPendingEvents /\ MaxPendingEvents < Unlimited

\* A client has finitely many events under way.
LEMMA OpenIsFinite ==
    ASSUME NEW p \in Node
    PROVE  IsFiniteSet(Open(p))
<1>. DEFINE ids == 0 .. (MaxEvents[p] - 1)
            T == {x \in Transfer : x.dst = Server /\ x.src = p}
            event == [i \in ids |-> [src |-> p, id |-> i, dst |-> Server]]
<1>1. MaxEvents[p] - 1 \in Int
  BY BoundAssumption
<1>2. IsFiniteSet(ids)
  BY <1>1, FS_Interval
<1>3. \A x \in T : \E i \in ids : event[i] = x
  <2>1. SUFFICES ASSUME NEW x \in T PROVE \E i \in ids : event[i] = x
    OBVIOUS
  <2>2. PICK n \in Node : x \in [src: {n}, id: 0 .. (MaxEvents[n] - 1), dst: Peers(n)]
    BY DEF Transfer
  <2>3. n = p /\ x.id \in ids /\ x = [src |-> p, id |-> x.id, dst |-> Server]
    BY <2>2
  <2>. QED
    BY <2>3
<1>4. IsFiniteSet({event[i] : i \in ids})
  <2>. DEFINE R == {event[i] : i \in ids}
  <2>1. event \in Surjection(ids, R)
    BY DEF Surjection
  <2>. HIDE DEF event, ids
  <2>. QED
    BY <1>2, <2>1, FS_Surjection
<1>5. Open(p) \subseteq {event[i] : i \in ids}
  BY <1>3 DEF Open
<1>. QED
  BY <1>4, <1>5, FS_Subset

LEMMA LimitIsKept ==
    ASSUME Limited
    PROVE  InitialPending(Server) = MaxPendingEvents /\ MaxPendingEvents \in Nat
<1>1. MaxPendingEvents % (Unlimited + 1) = MaxPendingEvents
  BY Modulus, LimitAssumption DEF Limited
<1>. QED
  BY <1>1, LimitAssumption DEF InitialPending, Limited

\* A step that changes neither the counter of a client nor its open events.
LEMMA AccountSame ==
    ASSUME PendingAccounting, NEW p \in targets[Server], pending'[Server][p] = pending[Server][p],
           \A x \in Transfer : x.dst = Server /\ x.src = p =>
                \/ receiving'[x] = receiving[x]
                \/ /\ receiving[x] = NoEvent \/ receiving[x].completed
                   /\ receiving'[x] = NoEvent \/ receiving'[x].completed
    PROVE  pending'[Server][p] + Cardinality(Open(p)') = InitialPending(Server)
<1>1. Open(p)' = Open(p)
  BY DEF Open
<1>. QED
  BY <1>1 DEF PendingAccounting

\* The server accepts a fragment: the record may be new, and it may be complete.
LEMMA AccountAccept ==
    ASSUME IInv, Limited, PendingAccounting, NEW m \in net, NEW keep \in BOOLEAN,
           AcceptFragment(Server, m, keep), m.x.src \in targets[Server]
    PROVE  LET p == m.x.src IN
           pending'[Server][p] + Cardinality(Open(p)') = InitialPending(Server)
<1>. DEFINE x == m.x
            p == x.src
            r == Opened(m)
            hasAll == HasAll(r.acked \cup {m.idx}, r.size)
            v == pending[Server][p]
<1>1. m \in Message /\ x \in Transfer
  BY DEF IInv, TypeOK, Message
<1>2. x.dst = Server /\ p \in Node /\ p # Server
  BY <1>1, TransferType, NodeAssumption DEF AcceptFragment, Addressed, Addressee, Peers
<1>3. Server \in Node
  BY DEF Node
<1>4. /\ v \in Nat /\ v + Cardinality(Open(p)) = MaxPendingEvents
      /\ IsFiniteSet(Open(p)) /\ Cardinality(Open(p)) \in Nat
  BY <1>2, <1>3, OpenIsFinite, FS_CardinalityType, LimitIsKept, LimitAssumption
  DEF IInv, TypeOK, PendingAccounting, Byte
<1>5. MaxPendingEvents \in Nat /\ Unlimited \in Nat /\ MaxPendingEvents < Unlimited
  BY LimitAssumption DEF Limited
<1>6. /\ receiving'[x].completed = hasAll /\ receiving'[x] # NoEvent
      /\ \A y \in Transfer : y # x => receiving'[y] = receiving[y]
      /\ x \notin Open(p) <=> receiving[x] = NoEvent
  <2>1. receiving'[x] = [size |-> r.size, acked |-> r.acked \cup {m.idx},
                         data |-> r.data \cup {m.idx}, completed |-> hasAll]
    BY <1>1 DEF AcceptFragment, Kept, IInv, TypeOK
  <2>2. receiving'[x] # NoEvent
    <3>1. receiving'[x].acked = r.acked \cup {m.idx}
      BY <2>1
    <3>. QED
      BY <3>1 DEF NoEvent
  <2>3. receiving[x] # NoEvent => ~receiving[x].completed
    BY DEF AcceptFragment, Opened
  <2>4. \A y \in Transfer : y # x => receiving'[y] = receiving[y]
    BY <1>1 DEF AcceptFragment, IInv, TypeOK
  <2>. QED
    BY <1>1, <1>2, <2>1, <2>2, <2>3, <2>4 DEF Open
<1>7. Open(p)' = IF hasAll THEN Open(p) \ {x} ELSE Open(p) \cup {x}
  BY <1>1, <1>2, <1>6 DEF Open
<1>8. pending'[Server][p] = IF hasAll THEN Returned(x, Taken(x, v)) ELSE Taken(x, v)
  BY <1>2, <1>3 DEF AcceptFragment, IInv, TypeOK
<1>9. CASE receiving[x] = NoEvent
  <2>1. v # 0 /\ v # Unlimited /\ Taken(x, v) = v - 1 /\ x \notin Open(p)
    BY <1>4, <1>5, <1>6, <1>9 DEF AcceptFragment, MayOpen, Taken
  <2>2. CASE hasAll
    <3>1. Returned(x, v - 1) = v
      <4>1. v - 1 + 1 = v /\ v < Unlimited + 1 /\ Unlimited + 1 \in Nat \ {0}
        BY <1>4, <1>5
      <4>2. v % (Unlimited + 1) = v
        BY <1>4, <4>1, Modulus
      <4>. QED
        BY <1>2, <4>1, <4>2 DEF Returned
    <3>2. Open(p)' = Open(p)
      BY <1>7, <2>1, <2>2
    <3>. QED
      BY <1>4, <1>8, <2>1, <2>2, <3>1, <3>2, LimitIsKept
  <2>3. CASE ~hasAll
    <3>1. Cardinality(Open(p)') = Cardinality(Open(p)) + 1
      BY <1>4, <1>7, <2>1, <2>3, FS_AddElement
    <3>. QED
      BY <1>4, <1>5, <1>8, <2>1, <2>3, <3>1, LimitIsKept
  <2>. QED
    BY <2>2, <2>3
<1>10. CASE receiving[x] # NoEvent
  <2>1. Taken(x, v) = v /\ x \in Open(p)
    BY <1>6, <1>10 DEF Taken
  <2>2. CASE hasAll
    <3>1. Cardinality(Open(p)') = Cardinality(Open(p)) - 1
      BY <1>4, <1>7, <2>1, <2>2, FS_RemoveElement
    <3>2. Cardinality(Open(p)) # 0
      BY <1>4, <2>1, FS_EmptySet
    <3>3. Returned(x, v) = v + 1
      <4>1. v + 1 \in Nat /\ v + 1 < Unlimited + 1 /\ Unlimited + 1 \in Nat \ {0}
        BY <1>4, <1>5, <3>2
      <4>2. (v + 1) % (Unlimited + 1) = v + 1
        BY <4>1, Modulus
      <4>. QED
        BY <1>2, <4>2 DEF Returned
    <3>. QED
      BY <1>4, <1>5, <1>8, <2>1, <2>2, <3>1, <3>3, LimitIsKept
  <2>3. CASE ~hasAll
    <3>1. Open(p)' = Open(p)
      BY <1>7, <2>1, <2>3
    <3>. QED
      BY <1>4, <1>8, <2>1, <2>3, <3>1, LimitIsKept
  <2>. QED
    BY <2>2, <2>3
<1>. QED
  BY <1>9, <1>10

LEMMA AccountRegister ==
    ASSUME IInv, PendingAccounting, NEW n \in Node, NEW p \in Peers(n), RegisterTarget(n, p),
           NEW q \in targets'[Server]
    PROVE  pending'[Server][q] + Cardinality(Open(q)') = InitialPending(Server)
<1>1. p \in Node /\ Server \in Node
  BY DEF Peers, Node
<1>2. CASE q \in targets[Server]
  <2>1. pending'[Server][q] = pending[Server][q] /\ receiving' = receiving
    BY <1>1, <1>2 DEF RegisterTarget, IInv, TypeOK
  <2>. QED
    BY <1>2, <2>1, AccountSame
<1>3. CASE q \notin targets[Server]
  <2>1. n = Server /\ q = p
    BY <1>1, <1>3 DEF RegisterTarget, IInv, TypeOK
  <2>2. Open(q)' = {}
    BY <1>3 DEF Open, RegisterTarget, IInv, NothingOfUnregistered
  <2>3. pending'[Server][q] = InitialPending(Server)
    BY <1>1, <2>1 DEF RegisterTarget, IInv, TypeOK
  <2>. QED
    BY <1>1, <2>2, <2>3, FS_EmptySet, ConstantTypes, LimitAssumption DEF Byte
<1>. QED
  BY <1>2, <1>3

LEMMA AccountUnregister ==
    ASSUME IInv, PendingAccounting, NEW n \in Node, NEW p \in Peers(n), UnregisterTarget(n, p),
           NEW q \in targets'[Server]
    PROVE  pending'[Server][q] + Cardinality(Open(q)') = InitialPending(Server)
<1>1. p \in Node /\ Server \in Node
  BY DEF Peers, Node
<1>2. q \in targets[Server] /\ ~(n = Server /\ q = p)
  BY <1>1 DEF UnregisterTarget, IInv, TypeOK
<1>3. pending'[Server][q] = pending[Server][q]
  BY <1>1, <1>2 DEF UnregisterTarget, IInv, TypeOK
<1>4. \A x \in Transfer : x.dst = Server /\ x.src = q => receiving'[x] = receiving[x]
  BY <1>2 DEF UnregisterTarget
<1>. QED
  BY <1>2, <1>3, <1>4, AccountSame

LEMMA AccountStep == Limited /\ IInv /\ PendingAccounting /\ [Next]_vars => PendingAccounting'
<1>. SUFFICES ASSUME Limited, IInv, PendingAccounting, [Next]_vars, NEW q \in targets'[Server]
              PROVE  pending'[Server][q] + Cardinality(Open(q)') = InitialPending(Server)
  BY DEF PendingAccounting
<1>1. ASSUME targets' = targets, pending' = pending, receiving' = receiving
      PROVE  pending'[Server][q] + Cardinality(Open(q)') = InitialPending(Server)
  BY <1>1, AccountSame
<1>2. ASSUME NEW n \in Node, NEW m \in net, NEW keep \in BOOLEAN, HandlePacketV2(n, m, keep)
      PROVE  pending'[Server][q] + Cardinality(Open(q)') = InitialPending(Server)
  <2>1. CASE HandleAck(n, m, keep) \/ RefusePacket(n, m, keep) \/ AckAgain(n, m, keep)
    BY <1>1, <2>1 DEF HandleAck, RefusePacket, AckAgain, targetVars, receiverVars
  <2>2. CASE AcceptFragment(n, m, keep)
    <3>1. m.x \in Transfer /\ m.x.dst = n /\ q \in targets[Server] /\ Server \in Node
          /\ m.x.src \in Node
      BY <2>2, TransferType
      DEF IInv, TypeOK, Message, AcceptFragment, Addressed, Addressee, targetVars, Node
    <3>2. CASE n = Server /\ q = m.x.src
      BY <2>2, <3>1, <3>2, AccountAccept
    <3>3. CASE ~(n = Server /\ q = m.x.src)
      <4>1. pending'[Server][q] = pending[Server][q]
        BY <2>2, <3>1, <3>3 DEF AcceptFragment, IInv, TypeOK
      <4>2. \A x \in Transfer : x.dst = Server /\ x.src = q => receiving'[x] = receiving[x]
        BY <2>2, <3>1, <3>3 DEF AcceptFragment, IInv, TypeOK
      <4>. QED
        BY <3>1, <4>1, <4>2, AccountSame
    <3>. QED
      BY <3>2, <3>3
  <2>. QED
    BY <1>2, <2>1, <2>2 DEF HandlePacketV2
<1>3. ASSUME NEW n \in Node, NEW due \in SUBSET Sendable(n), NEW burst \in Bursts(due),
             NEW expired \in SUBSET Expirable(n), NetworkTick(n, due, burst, expired)
      PROVE  pending'[Server][q] + Cardinality(Open(q)') = InitialPending(Server)
  <2>1. \A x \in Transfer : \/ receiving'[x] = receiving[x]
                            \/ receiving[x].completed /\ receiving'[x] = NoEvent
    BY <1>3 DEF NetworkTick, Expirable
  <2>. QED
    BY <1>3, <2>1, AccountSame DEF NetworkTick, targetVars
<1>4. ASSUME NEW n \in Node, InsertSendEvent(n)
      PROVE  pending'[Server][q] + Cardinality(Open(q)') = InitialPending(Server)
  BY <1>1, <1>4 DEF InsertSendEvent, targetVars
<1>5. ASSUME NEW n \in Node, NEW to, NEW count, TriggerEventV2(n, to, count)
      PROVE  pending'[Server][q] + Cardinality(Open(q)') = InitialPending(Server)
  BY <1>1, <1>5 DEF TriggerEventV2, targetVars
<1>6. ASSUME NEW n \in Node, HandleReceivedPacket(n)
      PROVE  pending'[Server][q] + Cardinality(Open(q)') = InitialPending(Server)
  BY <1>1, <1>6 DEF HandleReceivedPacket, targetVars
<1>7. ASSUME NEW m \in net, LosePacket(m)
      PROVE  pending'[Server][q] + Cardinality(Open(q)') = InitialPending(Server)
  BY <1>1, <1>7 DEF LosePacket, targetVars, receiverVars
<1>8. CASE UNCHANGED vars
  BY <1>1, <1>8 DEF vars
<1>. QED
  BY <1>2, <1>3, <1>4, <1>5, <1>6, <1>7, <1>8, AccountRegister, AccountUnregister DEF Next

\* Below the limit of 255 that means no limit, free slots and open events of a client
\* add up to what it was registered with, however its fragments come in and whenever
\* it is dropped: no slot leaks and none is invented.
THEOREM PendingAccountingHolds ==
    ASSUME Limited
    PROVE  Spec => []PendingAccounting
<1>1. Init => PendingAccounting
  BY DEF Init, PendingAccounting, Node
<1>2. IInv /\ PendingAccounting /\ [Next]_vars => PendingAccounting'
  BY AccountStep
<1>. QED
  BY <1>1, <1>2, InductiveInvariant, PTL DEF Spec

-----------------------------------------------------------------------------
(***************************************************************************)
(* EventReassembly implements EventChannel: every step of the component is *)
(* one of the channel's or none at all, seen through the mapping of        *)
(* Channel.  Only four steps are: an event enters the send list (Send),    *)
(* its last missing fragment is accepted (Receive), a tick drops targets   *)
(* from the list and records from the receive list (LetGo), a target is    *)
(* unregistered (Sever).                                                   *)
(***************************************************************************)

\* What the channel sees of a state, under names of their own.
Sent     == {x \in Transfer : accepted[x] > 0}
Cut      == {x \in Transfer : Severed(x)}

LEMMA SameView ==
    ASSUME accepted' = accepted, sendTargets' = sendTargets, closed' = closed,
           completions' = completions, early' = early
    PROVE  UNCHANGED Channel!vars
<1>1. \A x \in Transfer : Severed(x)' <=> Severed(x)
  BY DEF Severed
<1>2. Sent' = Sent /\ Cut' = Cut
  BY <1>1 DEF Sent, Cut
<1>. QED
  BY <1>2 DEF Channel!vars, Sent, Cut

\* InsertSendEvent sends the new transfers.
LEMMA InsertSends ==
    ASSUME IInv, TypeOK', NEW n \in Node, InsertSendEvent(n)
    PROVE  \E X \in SUBSET Transfer : Channel!Send(X)
<1>. DEFINE new == {x \in Transfer : x.src = n /\ x.id = eventId[n] /\ x.dst \in thread[n].to}
<1>1. \A x \in new : accepted[x] = 0 /\ thread[n].count > 0
  BY InsertedAreNew DEF IInv
<1>2. /\ sendTargets' = sendTargets \cup new /\ closed' = closed
      /\ completions' = completions /\ early' = early
      /\ \A x \in Transfer : accepted'[x] = IF x \in new THEN thread[n].count ELSE accepted[x]
  BY DEF InsertSendEvent, targetVars, countVars
<1>3. Cut' = Cut
  BY <1>2 DEF Cut, Severed
<1>4. new \cap Sent = {} /\ Sent' = Sent \cup new
  BY <1>1, <1>2 DEF Sent
<1>5. Channel!Send(new)
  BY <1>2, <1>3, <1>4 DEF Channel!Send, Sent, Cut
<1>6. new \in SUBSET Transfer
  OBVIOUS
<1>. HIDE DEF new
<1>. QED
  BY <1>5, <1>6 DEF Channel!Send

\* AcceptFragment receives the event, or nothing the channel sees.
LEMMA AcceptReceives ==
    ASSUME IInv, TypeOK', NEW n \in Node, NEW m \in net,
           NEW keep \in BOOLEAN, AcceptFragment(n, m, keep)
    PROVE  (\E x \in Transfer : Channel!Receive(x)) \/ UNCHANGED Channel!vars
<1>. DEFINE all == HasAll(Opened(m).acked \cup {m.idx}, Opened(m).size)
<1>1. m.x \in Transfer /\ accepted[m.x] \in Nat \ {0} /\ completions[m.x] = early[m.x]
  BY FragmentIsNews
<1>2. /\ accepted' = accepted /\ sendTargets' = sendTargets /\ closed' = closed
      /\ early' = early
      /\ completions' = IF all THEN [completions EXCEPT ![m.x] = @ + 1] ELSE completions
  BY DEF AcceptFragment, senderVars, targetVars
<1>3. CASE all
  <2>1. m.x \in Sent
    BY <1>1 DEF Sent
  <2>2. Sent' = Sent /\ Cut' = Cut
    BY <1>2 DEF Sent, Cut, Severed
  <2>3. Channel!Receive(m.x)
    BY <1>1, <1>2, <1>3, <2>1, <2>2 DEF Channel!Receive, Sent, Cut
  <2>. QED
    BY <1>1, <2>3
<1>4. CASE ~all
  BY <1>2, <1>4, SameView
<1>. QED
  BY <1>3, <1>4

\* NetworkTick lets go of whom it drops from the send list, and of the records
\* that are still needed.
LEMMA TickLetsGo ==
    ASSUME IInv, IInv', NEW n \in Node, NEW due \in SUBSET Sendable(n),
           NEW burst \in Bursts(due), NEW expired \in SUBSET Expirable(n),
           NetworkTick(n, due, burst, expired)
    PROVE  \E H, L \in SUBSET Transfer : Channel!LetGo(H, L)
<1>. DEFINE H == sendTargets \ sendTargets'
            L == {x \in expired : ~Quiet(x)}
<1>1. /\ accepted' = accepted /\ closed' = closed /\ sendTargets' \subseteq sendTargets
      /\ completions' = completions
      /\ early' = [x \in Transfer |-> IF x \in expired /\ ~Quiet(x)
                                        THEN early[x] + 1 ELSE early[x]]
  BY DEF NetworkTick, NetworkTickSendList, Left, targetVars
<1>2. Sent' = Sent /\ Cut' = Cut
  BY <1>1 DEF Sent, Cut, Severed
<1>3. H \subseteq Transfer /\ L \subseteq Transfer
  BY DEF IInv, TypeOK, Expirable
<1>4. \A x \in H : accepted[x] > 0
  BY <1>3 DEF IInv, NoTrace, TypeOK
<1>5. \A x \in H : Completed(x)' \/ Severed(x)'
  BY <1>1, <1>3, <1>4 DEF IInv, ForgottenMeansCompleted
<1>6. \A x \in H : completions[x] > 0 \/ x \in Cut
  BY <1>1, <1>2, <1>3, <1>5 DEF Cut, Completed
<1>7. ASSUME NEW x \in L PROVE completions[x] > early[x]
  <2>1. x \in Transfer /\ receiving[x].completed /\ early[x] \in Nat
    BY <1>7 DEF Expirable, IInv, TypeOK
  <2>2. receiving[x] # NoEvent
    BY <2>1 DEF NoEvent
  <2>. QED
    BY <2>1, <2>2 DEF IInv, RecordsTell
<1>8. sendTargets' = sendTargets \ H /\ H \subseteq sendTargets
  BY <1>1
<1>9. early' = [x \in Transfer |-> IF x \in L THEN early[x] + 1 ELSE early[x]]
  BY <1>1
<1>10. Channel!LetGo(H, L)
  <2>. HIDE DEF H, L
  <2>. QED
    BY <1>1, <1>2, <1>6, <1>7, <1>8, <1>9 DEF Channel!LetGo, Sent, Cut
<1>. QED
  BY <1>3, <1>10

\* UnregisterTarget severs every transfer between the two, and the node that
\* unregisters stops holding its own.
LEMMA UnregisterSevers ==
    ASSUME IInv, NEW n \in Node, NEW p \in Peers(n), UnregisterTarget(n, p)
    PROVE  \E X \in SUBSET Transfer : \E H \in SUBSET X : Channel!Sever(X, H)
<1>. DEFINE H == {x \in Transfer : x.src = n /\ x.dst = p}
            X == H \cup {x \in Transfer : x.dst = n /\ x.src = p}
<1>1. /\ accepted' = accepted /\ completions' = completions /\ early' = early
      /\ sendTargets' = {x \in sendTargets : ~(x.src = n /\ x.dst = p)}
      /\ closed' = [closed EXCEPT ![n] = @ \cup {p}]
  BY DEF UnregisterTarget, countVars
<1>2. Sent' = Sent
  BY <1>1 DEF Sent
<1>3. \A k \in Node : closed'[k] = IF k = n THEN closed[n] \cup {p} ELSE closed[k]
  BY <1>1 DEF IInv, TypeOK
<1>4. \A x \in Transfer : Severed(x)' <=> Severed(x) \/ x \in X
  BY <1>3, TransferType DEF Severed
<1>5. Cut' = Cut \cup X
  BY <1>4 DEF Cut
<1>6. sendTargets' = sendTargets \ H
  BY <1>1 DEF IInv, TypeOK
<1>7. Channel!Sever(X, H)
  BY <1>1, <1>2, <1>5, <1>6 DEF Channel!Sever, Sent, Cut
<1>. QED
  BY <1>7

LEMMA ChannelInit == Init => Channel!Init
<1>. SUFFICES ASSUME Init PROVE Channel!Init
  OBVIOUS
<1>1. Sent = {} /\ Cut = {}
  BY TransferType DEF Init, Sent, Cut, Severed
<1>. QED
  BY <1>1 DEF Init, Channel!Init, Sent, Cut

LEMMA ChannelNext == IInv /\ IInv' /\ [Next]_vars => [Channel!Next]_(Channel!vars)
<1>. SUFFICES ASSUME IInv, IInv', [Next]_vars
              PROVE  Channel!Next \/ UNCHANGED Channel!vars
  OBVIOUS
<1>. USE DEF Channel!Next, countVars
<1>1. TypeOK'
  BY DEF IInv
<1>2. ASSUME accepted' = accepted, sendTargets' = sendTargets, closed' = closed,
             completions' = completions, early' = early
      PROVE  UNCHANGED Channel!vars
  BY <1>2, SameView
<1>3. CASE UNCHANGED vars
  BY <1>2, <1>3 DEF vars
<1>4. ASSUME NEW n \in Node, NEW p \in Peers(n), RegisterTarget(n, p)
      PROVE  UNCHANGED Channel!vars
  BY <1>2, <1>4 DEF RegisterTarget, senderVars
<1>5. ASSUME NEW n \in Node, NEW p \in Peers(n), UnregisterTarget(n, p)
      PROVE  Channel!Next
  BY <1>5, UnregisterSevers
<1>6. ASSUME NEW n \in Node, NEW to \in SUBSET targets[n], NEW count \in 1 .. TotalPacketsMod,
             TriggerEventV2(n, to, count)
      PROVE  UNCHANGED Channel!vars
  BY <1>2, <1>6 DEF TriggerEventV2, targetVars, senderVars
<1>7. ASSUME NEW n \in Node, InsertSendEvent(n) PROVE Channel!Next
  BY <1>1, <1>7, InsertSends
<1>8. ASSUME NEW n \in Node, NEW due \in SUBSET Sendable(n), NEW burst \in Bursts(due),
             NEW expired \in SUBSET Expirable(n), NetworkTick(n, due, burst, expired)
      PROVE  Channel!Next
  BY <1>8, TickLetsGo
<1>9. ASSUME NEW n \in Node, NEW m \in net, NEW keep \in BOOLEAN, HandlePacketV2(n, m, keep)
      PROVE  Channel!Next \/ UNCHANGED Channel!vars
  <2>1. CASE HandleAck(n, m, keep)
    BY <1>2, <2>1 DEF HandleAck, targetVars, receiverVars
  <2>2. CASE RefusePacket(n, m, keep)
    BY <1>2, <2>2 DEF RefusePacket, targetVars, senderVars, receiverVars
  <2>3. CASE AckAgain(n, m, keep)
    BY <1>2, <2>3 DEF AckAgain, targetVars, senderVars, receiverVars
  <2>4. CASE AcceptFragment(n, m, keep)
    BY <1>1, <2>4, AcceptReceives
  <2>. QED
    BY <1>9, <2>1, <2>2, <2>3, <2>4 DEF HandlePacketV2
<1>10. ASSUME NEW n \in Node, HandleReceivedPacket(n)
       PROVE  UNCHANGED Channel!vars
  BY <1>2, <1>10 DEF HandleReceivedPacket, targetVars, senderVars
<1>11. ASSUME NEW m \in net, LosePacket(m) PROVE UNCHANGED Channel!vars
  BY <1>2, <1>11 DEF LosePacket, targetVars, senderVars, receiverVars
<1>12. CASE Next
  BY <1>4, <1>5, <1>6, <1>7, <1>8, <1>9, <1>10, <1>11, <1>12 DEF Next
<1>. QED
  BY <1>3, <1>12

\* The component implements the channel: an event is handed over only if it was
\* sent, once unless its target's memory of it lapsed, and it is held until then
\* or until one side drops the other.
THEOREM ReassemblyImplementsChannel == Spec => ImplementsChannel
<1>1. Init => Channel!Init
  BY ChannelInit
<1>2. IInv /\ IInv' /\ [Next]_vars => [Channel!Next]_(Channel!vars)
  BY ChannelNext
<1>. QED
  BY <1>1, <1>2, InductiveInvariant, PTL DEF Spec, ImplementsChannel, Channel!Spec
=============================================================================
