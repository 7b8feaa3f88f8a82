------------------------- MODULE ClientDeferral_proofs -------------------------
(***************************************************************************)
(* What is true of a connection's deferral for every set of resources.     *)
(* One inductive invariant carries all of it: where the references are     *)
(* while the closure runs, what the entries say once the handlers ran, and *)
(* when the response may still be written.                                 *)
(***************************************************************************)
EXTENDS ClientDeferral, TLAPS

Running == {"queued", "event", "updated", "ran"}

\* Who refers to the deferral, and until when.
References ==
    /\ local => pc \in {"event", "updated", "ran"}
    /\ pc = "event" => local
    /\ shared => cbRef /\ ~closed /\ ~Ended /\ ~completed
    /\ pc = "checks" => ~shared /\ ~cbRef /\ ~closed
    /\ pc \in Running /\ ~closed /\ ~completed => shared

\* How far RanEvents is.
Stages ==
    /\ pc \in {"checks", "queued", "event"} =>
          ~ranEvents /\ ~completed /\ ~allowed /\ ~earlyReject /\ ~Ended
    /\ pc = "updated" => ranEvents
    /\ pc = "ran" => ranEvents \/ (prevented /\ ~completed)
    /\ completed => ranEvents
    /\ earlyReject => completed
    /\ pc = "over" /\ shared => ranEvents

\* What the entries say.
Entries ==
    /\ pc \in {"checks", "queued"} => \A r \in Resource : entry[r] = "none"
    /\ pending => IsDeferred
    /\ completed => IsDeferred
    /\ pc = "event" /\ ~pending => \A r \in Resource : entry[r] \in {"none", "waiting"}
    /\ ranEvents /\ ~completed /\ IsDeferred => ~Rejected(entry) /\ ~AllDone(entry)

\* What was decided is final.
Verdicts ==
    /\ AllowedOnlyIfDone
    /\ allowed => ~earlyReject /\ (completed \/ ~DeferralAlive)
    /\ allowed /\ prevented => completed
    /\ AnswerTellsVerdict

\* What was written.
Responses ==
    /\ SilentOnceEnded
    /\ cbRef /\ Ended => pc = "over"
    /\ pc \in Running /\ Ended => completed
    /\ completed /\ ~closed /\ ~replaced => Ended
    /\ pc = "over" /\ ~Ended /\ ~closed /\ ~replaced => ranEvents /\ ~completed /\ IsDeferred
    /\ pc = "crashed" => closed /\ ~completed

\* Nothing that was shown from a handler is lost.
Shown ==
    /\ pc \in {"checks", "queued"} => given = {}
    /\ pc = "event" => ("message" \in given => pending) /\ ("card" \in given => nextCard)
    /\ pc = "updated" /\ shared => given \subseteq response.shown \cup {"card"}
    /\ pc = "updated" /\ "card" \in given => nextCard
    /\ pc \in {"ran", "over"} /\ shared => given \subseteq response.shown

IInv == TypeOK /\ References /\ Stages /\ Entries /\ Verdicts /\ Responses /\ Shown

-----------------------------------------------------------------------------
(* What is written *)

\* Ending a response adds one answer behind the others (End, the null that
\* ClientHttpHandler.cpp:80 takes for the end).
LEMMA EndWrites ==
    ASSUME TypeOK, NEW answer \in {"data", "error"}
    PROVE  /\ End(answer) \in Response
           /\ End(answer).last = "end"
           /\ End(answer).shown = response.shown
           /\ End(answer).answers # <<>>
           /\ \A i \in 1..Len(End(answer).answers) :
                 \/ End(answer).answers[i] = answer
                 \/ i \in 1..Len(response.answers) /\ End(answer).answers[i] = response.answers[i]
  <1> response \in Response
    BY DEF TypeOK, Response
  <1>1. /\ Append(response.answers, answer) \in Seq({"data", "error"})
        /\ Append(response.answers, answer) # <<>>
        /\ \A i \in 1..Len(Append(response.answers, answer)) :
              \/ Append(response.answers, answer)[i] = answer
              \/ /\ i \in 1..Len(response.answers)
                 /\ Append(response.answers, answer)[i] = response.answers[i]
    BY DEF Response
  <1>2. /\ End(answer).last = "end"
        /\ End(answer).shown = response.shown
        /\ End(answer).answers = Append(response.answers, answer)
    BY DEF End, Response
  <1>3. End(answer) \in Response
    BY <1>1 DEF End, Response
  <1> QED
    BY <1>1, <1>2, <1>3

\* Progress leaves the answers as they are.
LEMMA ShowWrites ==
    ASSUME TypeOK, NEW kind \in {"message", "card"}
    PROVE  /\ Show(kind) \in Response
           /\ Show(kind).shown = response.shown \cup {kind}
           /\ Show(kind).answers = response.answers
  BY DEF TypeOK, Show, Response

-----------------------------------------------------------------------------
(* Types *)

\* UpdateDeferrals, whatever it decides, keeps the types.
LEMMA UpdateTypes ==
    ASSUME TypeOK, NEW said \in [Resource -> {"none", "waiting", "done", "rejected"}],
           Update(said)
    PROVE  /\ completed' \in BOOLEAN /\ shared' \in BOOLEAN /\ cbRef' \in BOOLEAN
           /\ allowed' \in BOOLEAN /\ earlyReject' \in BOOLEAN
           /\ response' \in Response
  <1> /\ Show("message") \in Response
      /\ End("data") \in Response /\ End("error") \in Response
      /\ response \in Response
    BY EndWrites, ShowWrites DEF TypeOK
  <1> QED
    BY DEF TypeOK, Update, Reject, Resolve, SendProgress, DropReferences

\* What the resources say through a call.
Said(r) == {[entry EXCEPT ![r] = "waiting"], Touched(r), [entry EXCEPT ![r] = "rejected"],
            [entry EXCEPT ![r] = IF @ = "rejected" THEN @ ELSE "done"]}

LEMMA SaidTypes ==
    ASSUME TypeOK, NEW r \in Resource, NEW said \in Said(r)
    PROVE  said \in [Resource -> {"none", "waiting", "done", "rejected"}] /\ said[r] # "none"
  BY DEF TypeOK, Said, Touched

\* The shape of every call: it says something, and shows something or nothing.
LEMMA CallShape ==
    ASSUME NEW r \in Resource, Call(r)
    PROVE  /\ Called
           /\ UNCHANGED <<closure, outside, ranEvents>>
           /\ \/ \E said \in Said(r) : UpdateDeferrals(said) /\ UNCHANGED nextCard
              \/ /\ entry' = Touched(r)
                 /\ UNCHANGED <<pending, completed>>
                 /\ \/ UNCHANGED <<nextCard, request>>
                    \/ ~ranEvents /\ nextCard' = TRUE /\ UNCHANGED request
                    \/ ranEvents /\ SendProgress("card") /\ UNCHANGED nextCard
  BY DEF Call, Defer, UpdateMessage, Touch, PresentCard, Done, DoneWithReason, Said

LEMMA CallTypes ==
    ASSUME TypeOK, NEW r \in Resource, Call(r)
    PROVE  TypeOK'
  <1>1. timer' \in BOOLEAN /\ given' \subseteq {"message", "card"}
    BY DEF TypeOK, Call, Defer, UpdateMessage, Touch, PresentCard, Done, DoneWithReason
  <1>2. UNCHANGED <<closure, outside, ranEvents>>
    BY CallShape
  <1>3. CASE \E said \in Said(r) : UpdateDeferrals(said) /\ UNCHANGED nextCard
    <2> PICK said \in Said(r) : UpdateDeferrals(said) /\ UNCHANGED nextCard
      BY <1>3
    <2>1. said \in [Resource -> {"none", "waiting", "done", "rejected"}]
      BY SaidTypes
    <2>2. CASE ranEvents
      <3>1. Update(said)
        BY <2>2 DEF UpdateDeferrals
      <3> QED
        BY <1>1, <1>2, <2>1, <2>2, <3>1, UpdateTypes
        DEF TypeOK, UpdateDeferrals, closure, outside
    <2>3. CASE ~ranEvents
      BY <1>1, <1>2, <2>1, <2>3 DEF TypeOK, UpdateDeferrals, closure, outside, request
    <2> QED
      BY <2>2, <2>3
  <1>4. CASE /\ entry' = Touched(r)
             /\ UNCHANGED <<pending, completed>>
             /\ \/ UNCHANGED <<nextCard, request>>
                \/ nextCard' = TRUE /\ UNCHANGED request
                \/ SendProgress("card") /\ UNCHANGED nextCard
    <2>1. entry' \in [Resource -> {"none", "waiting", "done", "rejected"}]
      BY <1>4, SaidTypes DEF Said
    <2>2. response' \in Response
      BY <1>4, ShowWrites DEF TypeOK, SendProgress, request
    <2>3. /\ shared' \in BOOLEAN /\ cbRef' \in BOOLEAN /\ allowed' \in BOOLEAN
          /\ earlyReject' \in BOOLEAN /\ nextCard' \in BOOLEAN
      BY <1>4 DEF TypeOK, SendProgress, request
    <2> QED
      BY <1>1, <1>2, <1>4, <2>1, <2>2, <2>3 DEF TypeOK, closure, outside
  <1> QED
    BY <1>3, <1>4, CallShape

LEMMA TypeStep ==
    ASSUME TypeOK, [Next]_vars
    PROVE  TypeOK'
  <1> /\ Show("message") \in Response /\ Show("card") \in Response
      /\ End("data") \in Response /\ End("error") \in Response
      /\ response \in Response
    BY EndWrites, ShowWrites DEF TypeOK
  <1>1. CASE CheckFails
    BY <1>1 DEF TypeOK, CheckFails, outside
  <1>2. CASE MakeDeferral
    BY <1>2 DEF TypeOK, MakeDeferral, outside
  <1>3. CASE Trigger
    BY <1>3 DEF TypeOK, Trigger, request, outside
  <1>4. CASE CancelEvent
    BY <1>4 DEF TypeOK, CancelEvent, request, outside
  <1>5. CASE RanEvents
    <2>1. /\ completed' \in BOOLEAN /\ shared' \in BOOLEAN /\ cbRef' \in BOOLEAN
          /\ allowed' \in BOOLEAN /\ earlyReject' \in BOOLEAN
          /\ response' \in Response
      <3>1. CASE pending
        <4> entry \in [Resource -> {"none", "waiting", "done", "rejected"}] /\ Update(entry)
          BY <1>5, <3>1 DEF RanEvents, TypeOK
        <4> QED
          BY UpdateTypes
      <3>2. CASE ~pending
        BY <1>5, <3>2 DEF RanEvents, TypeOK, request
      <3> QED
        BY <3>1, <3>2
    <2> QED
      BY <1>5, <2>1 DEF TypeOK, RanEvents, outside
  <1>6. CASE RanEventsCard
    <2>1. /\ shared' \in BOOLEAN /\ cbRef' \in BOOLEAN /\ allowed' \in BOOLEAN
          /\ earlyReject' \in BOOLEAN /\ response' \in Response
      BY <1>6 DEF TypeOK, RanEventsCard, SendProgress, request
    <2> QED
      BY <1>6, <2>1 DEF TypeOK, RanEventsCard, outside
  <1>7. CASE RefuseNow
    BY <1>7 DEF TypeOK, RefuseNow, outside
  <1>8. CASE LeaveDeferred
    BY <1>8 DEF TypeOK, LeaveDeferred, request, outside
  <1>9. CASE AllowNow
    BY <1>9 DEF TypeOK, AllowNow, DropReferences, outside
  <1>10. CASE KeepAlive
    BY <1>10 DEF TypeOK, KeepAlive, SendProgress, closure, outside
  <1>11. CASE CancelRequest
    <2>1. /\ completed' \in BOOLEAN /\ shared' \in BOOLEAN /\ cbRef' \in BOOLEAN
          /\ allowed' \in BOOLEAN /\ earlyReject' \in BOOLEAN
      BY <1>11 DEF TypeOK, CancelRequest, DropReferences, closure
    <2> QED
      BY <1>11, <2>1 DEF TypeOK, CancelRequest, DropReferences, closure
  <1>12. CASE Replace
    BY <1>12 DEF TypeOK, Replace, closure, request
  <1>13. CASE \E r \in Resource : Call(r)
    BY <1>13, CallTypes
  <1>14. CASE UNCHANGED vars
    BY <1>14 DEF TypeOK, vars, closure, request, outside
  <1> QED
    BY <1>1, <1>2, <1>3, <1>4, <1>5, <1>6, <1>7, <1>8, <1>9, <1>10, <1>11, <1>12, <1>13, <1>14
    DEF Next, Closure

\* The variables keep their types (ClientDeferral.h, InitConnectMethod.cpp:860).
THEOREM TypeCorrect == Spec => []TypeOK
  <1>1. ASSUME Init PROVE TypeOK
    <2>1. response \in Response
      BY <1>1 DEF Init, Response
    <2> QED
      BY <1>1, <2>1 DEF Init, TypeOK
  <1> QED
    BY <1>1, TypeStep, PTL DEF Spec

-----------------------------------------------------------------------------
(* The invariant, call by call *)

Control == References /\ Stages /\ Entries /\ Verdicts /\ Responses

\* A call before the handlers ran changes nothing but the entries.
LEMMA EarlyCall ==
    ASSUME IInv, NEW r \in Resource, NEW said \in Said(r), Called, ~ranEvents,
           UNCHANGED <<closure, outside, ranEvents, completed, request>>,
           entry' = said, pending' \/ (said = Touched(r) /\ UNCHANGED pending)
    PROVE  Control'
  <1>1. pc = "event" /\ local /\ ~completed /\ ~allowed /\ ~Ended
    BY DEF IInv, Called, DeferralAlive, References, Stages
  <1>2. said \in [Resource -> {"none", "waiting", "done", "rejected"}] /\ said[r] # "none"
    BY SaidTypes DEF IInv
  <1>3. References' /\ Stages'
    BY <1>1 DEF IInv, References, Stages, Ended, Running, closure, outside, request
  <1>4. Entries'
    <2>1. ~pending' => \A x \in Resource : entry'[x] \in {"none", "waiting"}
      BY <1>1 DEF IInv, TypeOK, Entries, Touched
    <2> QED
      BY <1>1, <1>2, <2>1 DEF Entries, IsDeferred, closure
  <1>5. Verdicts'
    BY <1>1 DEF IInv, Verdicts, AllowedOnlyIfDone, AnswerTellsVerdict, DoneFirst, DeferralAlive, closure, request
  <1>6. Responses'
    BY <1>1 DEF IInv, Responses, SilentOnceEnded, Ended, IsDeferred, Running, closure, outside, request
  <1> QED
    BY <1>3, <1>4, <1>5, <1>6 DEF Control

\* A call after the closure finds everything undecided.
LEMMA LateCalled ==
    ASSUME IInv, Called, ranEvents
    PROVE  /\ pc = "over" /\ shared /\ ~local /\ cbRef
           /\ ~closed /\ ~Ended /\ ~completed /\ ~allowed
  BY DEF IInv, Called, DeferralAlive, References, Stages, Verdicts

\* UpdateDeferrals decides it, or leaves it undecided with a message.
LEMMA LateUpdate ==
    ASSUME IInv, NEW r \in Resource, NEW said \in Said(r), Called, ranEvents,
           UNCHANGED <<closure, outside, ranEvents, pending>>, entry' = said, Update(said)
    PROVE  Control'
  <1>1. /\ pc = "over" /\ shared /\ ~local /\ cbRef
        /\ ~closed /\ ~Ended /\ ~completed /\ ~allowed
    BY LateCalled
  <1>2. said \in [Resource -> {"none", "waiting", "done", "rejected"}] /\ said[r] # "none"
    BY SaidTypes DEF IInv
  <1>3. IsDeferred'
    BY <1>2 DEF IsDeferred
  <1>4. CASE Rejected(said) /\ completed' = TRUE /\ Reject
    <2>1. /\ ~shared' /\ ~cbRef' /\ ~allowed' /\ completed'
          /\ response' = IF ~replaced THEN End("error") ELSE response
      BY <1>1, <1>4 DEF Reject, ClientAlive, DropReferences
    <2>2. /\ ~replaced => Ended' /\ response'.last = "end"
          /\ Ended' => response'.last = "end"
      BY <1>1, <2>1, EndWrites DEF IInv, Ended
    <2>3. AnswerTellsVerdict'
      BY <1>1, <2>1, EndWrites DEF IInv, Verdicts, AnswerTellsVerdict, DoneFirst, Ended
    <2> QED
      BY <1>1, <1>3, <2>1, <2>2, <2>3
      DEF Control, References, Stages, Entries, Verdicts, Responses, SilentOnceEnded, Running,
          AllowedOnlyIfDone, closure, outside
  <1>5. CASE ~Rejected(said) /\ AllDone(said) /\ completed' = TRUE /\ Resolve
    <2>1. /\ ~shared' /\ ~cbRef' /\ allowed' /\ completed' /\ UNCHANGED earlyReject
          /\ response' = End("data")
      BY <1>1, <1>5 DEF Resolve, DropReferences
    <2>2. Ended' /\ response'.last = "end"
      BY <2>1, EndWrites DEF IInv, Ended
    <2>3. AnswerTellsVerdict'
      BY <1>1, <2>1, EndWrites DEF IInv, Verdicts, AnswerTellsVerdict, DoneFirst, Ended
    <2>4. AllowedOnlyIfDone'
      BY <1>2, <1>5 DEF AllowedOnlyIfDone, Rejected, AllDone
    <2> QED
      BY <1>1, <1>3, <2>1, <2>2, <2>3, <2>4
      DEF Control, References, Stages, Entries, Verdicts, Responses, SilentOnceEnded, Running,
          IInv, DeferralAlive, closure, outside
  <1>6. CASE ~Rejected(said) /\ ~AllDone(said) /\ UNCHANGED completed /\ SendProgress("message")
    <2>1. UNCHANGED <<shared, cbRef, allowed, earlyReject>> /\ response' = Show("message")
      BY <1>1, <1>6 DEF SendProgress
    <2>2. response'.answers = response.answers
      BY <2>1, ShowWrites DEF IInv
    <2> QED
      BY <1>1, <1>3, <1>6, <2>1, <2>2
      DEF Control, References, Stages, Entries, Verdicts, Responses, SilentOnceEnded, Running,
          AllowedOnlyIfDone, AnswerTellsVerdict, DoneFirst, Ended, Rejected, AllDone, IInv, closure, outside
  <1> QED
    BY <1>4, <1>5, <1>6 DEF Update

LEMMA CallKeeps ==
    ASSUME IInv, NEW r \in Resource, Call(r)
    PROVE  Control'
  <1>1. Called /\ UNCHANGED <<closure, outside, ranEvents>>
    BY CallShape
  <1>2. CASE ~ranEvents
    <2>1. CASE \E said \in Said(r) : UpdateDeferrals(said)
      BY <1>1, <1>2, <2>1, EarlyCall DEF UpdateDeferrals
    <2>2. CASE entry' = Touched(r) /\ UNCHANGED <<pending, completed, request>>
      <3>1. Touched(r) \in Said(r)
        BY DEF Said
      <3> QED
        BY <1>1, <1>2, <2>2, <3>1, EarlyCall
    <2> QED
      BY <1>2, <2>1, <2>2, CallShape
  <1>3. CASE ranEvents
    <2>1. /\ pc = "over" /\ shared /\ ~local /\ cbRef
          /\ ~closed /\ ~Ended /\ ~completed /\ ~allowed
      BY <1>1, <1>3, LateCalled
    <2>2. CASE \E said \in Said(r) : UpdateDeferrals(said)
      <3> PICK said \in Said(r) : UpdateDeferrals(said)
        BY <2>2
      <3>1. entry' = said /\ Update(said) /\ pending' = pending
        BY <1>3 DEF UpdateDeferrals, IInv, TypeOK
      <3> QED
        BY <1>1, <1>3, <3>1, LateUpdate
    <2>3. CASE /\ entry' = Touched(r)
               /\ UNCHANGED <<pending, completed>>
               /\ UNCHANGED request \/ SendProgress("card")
      <3>1. /\ UNCHANGED <<shared, cbRef, allowed, earlyReject>>
            /\ response'.answers = response.answers
        BY <2>3, ShowWrites DEF IInv, SendProgress, request
      <3>2. IsDeferred' /\ (Rejected(entry') => Rejected(entry))
        BY <2>3 DEF IInv, TypeOK, IsDeferred, Rejected, Touched
      <3>3. ~Rejected(entry) /\ (IsDeferred => ~AllDone(entry))
        BY <1>3, <2>1 DEF IInv, Entries, IsDeferred, Rejected
      <3>4. ~AllDone(entry')
        <4>1. entry'[r] # "waiting" => entry[r] # "none"
          BY <2>3 DEF IInv, TypeOK, Touched
        <4>2. \A x \in Resource : entry[x] = "waiting" => entry'[x] = "waiting"
          BY <2>3 DEF IInv, TypeOK, Touched
        <4> QED
          BY <3>3, <4>1, <4>2 DEF AllDone, IsDeferred
      <3> QED
        BY <1>1, <1>3, <2>1, <2>3, <3>1, <3>2, <3>3, <3>4
        DEF Control, References, Stages, Entries, Verdicts, Responses, SilentOnceEnded, Running,
            AllowedOnlyIfDone, AnswerTellsVerdict, DoneFirst, Ended, IInv, closure, outside, IsDeferred
    <2> QED
      BY <1>3, <2>2, <2>3, CallShape
  <1> QED
    BY <1>2, <1>3 DEF IInv, TypeOK

-----------------------------------------------------------------------------
(* The invariant, step by step of the closure and its surroundings *)

LEMMA MakingKeeps ==
    ASSUME IInv, CheckFails \/ MakeDeferral
    PROVE  Control'
  <1>1. CASE CheckFails
    <2>1. /\ pc = "checks" /\ pc' = "over" /\ ~shared /\ ~local /\ ~cbRef /\ ~closed
          /\ ~ranEvents /\ ~completed /\ ~allowed /\ ~earlyReject /\ ~Ended
      BY <1>1 DEF IInv, References, Stages, CheckFails
    <2>2. /\ ~replaced => Ended' /\ response'.last = "end"
          /\ Ended' => response'.last = "end"
      BY <1>1, <2>1, EndWrites DEF IInv, Ended, CheckFails
    <2>3. AnswerTellsVerdict'
      BY <1>1, <2>1, EndWrites DEF IInv, Verdicts, AnswerTellsVerdict, DoneFirst, Ended, CheckFails
    <2> QED
      BY <1>1, <2>1, <2>2, <2>3
      DEF CheckFails, Control, References, Stages, Entries, Verdicts, Responses, SilentOnceEnded,
          Running, AllowedOnlyIfDone, IInv, TypeOK, outside, IsDeferred
  <1>2. CASE MakeDeferral
    BY <1>2 DEF MakeDeferral, Control, References, Stages, Entries, Verdicts, Responses,
                SilentOnceEnded, Running, AllowedOnlyIfDone, AnswerTellsVerdict, DoneFirst, Ended,
                IsDeferred, IInv, TypeOK, outside
  <1> QED
    BY <1>1, <1>2

LEMMA EventKeeps ==
    ASSUME IInv, Trigger \/ CancelEvent
    PROVE  Control'
  <1>1. CASE Trigger
    <2>1. Entries'
      BY <1>1 DEF Trigger, Entries, References, Stages, IsDeferred, IInv, outside, Rejected, AllDone
    <2> QED
      BY <1>1, <2>1
      DEF Trigger, Control, References, Stages, Verdicts, Responses,
                SilentOnceEnded, Running, AllowedOnlyIfDone, AnswerTellsVerdict, DoneFirst, Ended,
                IsDeferred, DeferralAlive, IInv, TypeOK, request, outside
  <1>2. CASE CancelEvent
    BY <1>2 DEF CancelEvent, Control, References, Stages, Entries, Verdicts, Responses,
                SilentOnceEnded, Running, AllowedOnlyIfDone, AnswerTellsVerdict, DoneFirst, Ended,
                IsDeferred, DeferralAlive, IInv, TypeOK, request, outside
  <1> QED
    BY <1>1, <1>2

LEMMA LeavingKeeps ==
    ASSUME IInv, RefuseNow \/ LeaveDeferred \/ AllowNow
    PROVE  Control'
  <1>1. CASE RefuseNow
    <2>1. Ended' /\ response'.last = "end"
      BY <1>1, EndWrites DEF IInv, Ended, RefuseNow
    <2>2. AnswerTellsVerdict'
      BY <1>1, EndWrites DEF IInv, Verdicts, AnswerTellsVerdict, DoneFirst, RefuseNow
    <2> QED
      BY <1>1, <2>1, <2>2
      DEF RefuseNow, Control, References, Stages, Entries, Verdicts, Responses, SilentOnceEnded,
          Running, AllowedOnlyIfDone, IsDeferred, DeferralAlive, IInv, TypeOK, outside
  <1>2. CASE LeaveDeferred
    <2>1. UNCHANGED response /\ AnswerTellsVerdict'
      BY <1>2 DEF IInv, LeaveDeferred, Verdicts, AnswerTellsVerdict, DoneFirst, request
    <2> QED
      BY <1>2, <2>1
      DEF LeaveDeferred, Control, References, Stages, Entries, Verdicts, Responses,
          SilentOnceEnded, Running, AllowedOnlyIfDone, Ended, IsDeferred, DeferralAlive,
          IInv, TypeOK, request, outside
  <1>3. CASE AllowNow
    <2>1. ~completed /\ ranEvents /\ ~Ended /\ (closed \/ shared) /\ \A r \in Resource : entry[r] = "none"
      BY <1>3 DEF IInv, AllowNow, References, Stages, Entries, Responses, IsDeferred, Running
    <2>2. shared => Ended' /\ response'.last = "end"
      BY <1>3, EndWrites DEF IInv, Ended, AllowNow
    <2>3. AnswerTellsVerdict'
      BY <1>3, <2>1, EndWrites DEF IInv, Verdicts, AnswerTellsVerdict, DoneFirst, AllowNow, Ended
    <2> QED
      BY <1>3, <2>1, <2>2, <2>3
      DEF AllowNow, DropReferences, Control, References, Stages, Entries, Verdicts, Responses,
          SilentOnceEnded, Running, AllowedOnlyIfDone, Ended, IsDeferred, DeferralAlive,
          IInv, TypeOK, outside, Rejected, AllDone
  <1> QED
    BY <1>1, <1>2, <1>3

\* The updates that were put off decide now, or nothing was decided.
LEMMA RanKeeps ==
    ASSUME IInv, RanEvents
    PROVE  Control'
  <1>1. /\ pc = "event" /\ pc' = "updated" /\ local /\ UNCHANGED <<local, replaced, closed, entry>>
        /\ ~ranEvents /\ ranEvents' /\ ~pending' /\ ~completed /\ ~allowed /\ ~earlyReject
        /\ ~Ended /\ (closed <=> ~shared) /\ (shared => cbRef)
    BY DEF IInv, References, Stages, RanEvents, outside, Running
  <1>2. CASE ~pending
    <2>1. UNCHANGED <<completed, request>> /\ ~Rejected(entry) /\ (IsDeferred => ~AllDone(entry))
      BY <1>1, <1>2 DEF IInv, TypeOK, RanEvents, Entries, IsDeferred, Rejected, AllDone
    <2> QED
      BY <1>1, <1>2, <2>1
      DEF RanEvents, Control, References, Stages, Entries, Verdicts, Responses, SilentOnceEnded,
          Running, AllowedOnlyIfDone, AnswerTellsVerdict, DoneFirst, Ended, IsDeferred, DeferralAlive,
          Rejected, AllDone, IInv, request
  <1>3. CASE pending
    <2>1. Update(entry) /\ IsDeferred /\ IsDeferred'
      BY <1>1, <1>3 DEF IInv, RanEvents, Entries, IsDeferred
    <2>2. CASE Rejected(entry) /\ completed' = TRUE /\ Reject
      <3>1. /\ ~shared' /\ ~cbRef' /\ ~allowed' /\ completed'
            /\ response' = IF cbRef THEN End("error") ELSE response
        BY <1>1, <2>2 DEF Reject, ClientAlive, DropReferences
      <3>2. (cbRef => Ended') /\ (Ended' => response'.last = "end")
        BY <1>1, <3>1, EndWrites DEF IInv, Ended
      <3>3. AnswerTellsVerdict'
        BY <1>1, <3>1, EndWrites DEF IInv, Verdicts, AnswerTellsVerdict, DoneFirst, Ended
      <3> QED
        BY <1>1, <2>1, <3>1, <3>2, <3>3
        DEF Control, References, Stages, Entries, Verdicts, Responses, SilentOnceEnded, Running,
            AllowedOnlyIfDone
    <2>3. CASE ~Rejected(entry) /\ AllDone(entry) /\ completed' = TRUE /\ Resolve
      <3>1. /\ ~shared' /\ ~cbRef' /\ allowed' /\ completed' /\ UNCHANGED earlyReject
            /\ response' = IF cbRef THEN End("data") ELSE response
        BY <1>1, <2>3 DEF Resolve, DropReferences
      <3>2. (cbRef => Ended') /\ (Ended' => response'.last = "end")
        BY <1>1, <3>1, EndWrites DEF IInv, Ended
      <3>3. AnswerTellsVerdict'
        BY <1>1, <3>1, EndWrites DEF IInv, Verdicts, AnswerTellsVerdict, DoneFirst, Ended
      <3>4. AllowedOnlyIfDone'
        BY <1>1, <2>3 DEF AllowedOnlyIfDone, Rejected, AllDone, IInv, TypeOK
      <3> QED
        BY <1>1, <2>1, <3>1, <3>2, <3>3, <3>4
        DEF Control, References, Stages, Entries, Verdicts, Responses, SilentOnceEnded, Running
    <2>4. CASE ~Rejected(entry) /\ ~AllDone(entry) /\ UNCHANGED completed /\ SendProgress("message")
      <3>1. UNCHANGED <<shared, cbRef, allowed, earlyReject>> /\ response'.answers = response.answers
        BY <2>4, ShowWrites DEF SendProgress, IInv
      <3> QED
        BY <1>1, <2>1, <2>4, <3>1
        DEF Control, References, Stages, Entries, Verdicts, Responses, SilentOnceEnded, Running,
            AllowedOnlyIfDone, AnswerTellsVerdict, DoneFirst, Ended, Rejected, AllDone
    <2> QED
      BY <2>1, <2>2, <2>3, <2>4 DEF Update
  <1> QED
    BY <1>2, <1>3 DEF IInv, TypeOK

\* Progress changes the response only where it may still be written.
LEMMA ProgressKeeps ==
    ASSUME IInv, RanEventsCard \/ KeepAlive
    PROVE  Control'
  <1>1. /\ UNCHANGED <<shared, cbRef, allowed, earlyReject, completed, ranEvents, pending, local,
                       prevented, replaced, closed, entry>>
        /\ UNCHANGED response \/ (cbRef /\ response'.answers = response.answers)
    BY ShowWrites DEF IInv, RanEventsCard, KeepAlive, SendProgress, request, outside, closure
  <1>2. response'.answers = response.answers
    BY <1>1
  <1>3. \/ pc = "updated" /\ pc' = "ran"
        \/ pc = "over" /\ pc' = "over" /\ shared
    BY DEF RanEventsCard, KeepAlive, closure, DeferralAlive, IInv, References
  <1>4. SilentOnceEnded'
    <2>1. cbRef => ~Ended
      BY <1>3 DEF IInv, References, Responses
    <2> QED
      BY <1>1, <2>1 DEF IInv, Responses, SilentOnceEnded, Ended
  <1> QED
    BY <1>1, <1>2, <1>3, <1>4
    DEF Control, References, Stages, Entries, Verdicts, Responses, Running, AllowedOnlyIfDone,
        AnswerTellsVerdict, DoneFirst, Ended, IsDeferred, DeferralAlive, Rejected, AllDone, IInv

LEMMA OutsideKeeps ==
    ASSUME IInv, CancelRequest \/ Replace
    PROVE  Control'
  <1>1. CASE CancelRequest
    BY <1>1 DEF CancelRequest, DropReferences, Control, References, Stages, Entries, Verdicts,
                Responses, SilentOnceEnded, Running, AllowedOnlyIfDone, AnswerTellsVerdict, DoneFirst, Ended,
                IsDeferred, DeferralAlive, Rejected, AllDone, IInv, TypeOK, closure
  <1>2. CASE Replace
    BY <1>2 DEF Replace, Control, References, Stages, Entries, Verdicts, Responses,
                SilentOnceEnded, Running, AllowedOnlyIfDone, AnswerTellsVerdict, DoneFirst, Ended,
                IsDeferred, DeferralAlive, Rejected, AllDone, IInv, closure, request
  <1> QED
    BY <1>1, <1>2

LEMMA ControlStep ==
    ASSUME IInv, [Next]_vars
    PROVE  Control'
  <1>1. CASE UNCHANGED vars
    BY <1>1 DEF vars, Control, References, Stages, Entries, Verdicts, Responses,
                SilentOnceEnded, Running, AllowedOnlyIfDone, AnswerTellsVerdict, DoneFirst, Ended,
                IsDeferred, DeferralAlive, Rejected, AllDone, IInv, closure, request, outside
  <1>2. CASE Next
    BY <1>2, MakingKeeps, EventKeeps, RanKeeps, ProgressKeeps, LeavingKeeps, OutsideKeeps, CallKeeps
    DEF Next, Closure
  <1> QED
    BY <1>1, <1>2

-----------------------------------------------------------------------------
(* What was shown *)

\* UpdateDeferrals leaves the progress as it is, or adds a message, and keeps the
\* deferral only with the latter.
LEMMA UpdateShows ==
    ASSUME TypeOK, NEW said, Update(said)
    PROVE  shared' => /\ UNCHANGED <<shared, cbRef>>
                      /\ response' = IF cbRef THEN Show("message") ELSE response
  BY DEF Update, Reject, Resolve, SendProgress, DropReferences

LEMMA CallShows ==
    ASSUME IInv, NEW r \in Resource, Call(r)
    PROVE  Shown'
  <1>1. Called /\ UNCHANGED <<closure, outside, ranEvents>>
    BY CallShape
  <1>2. CASE ~ranEvents
    <2>1. pc = "event" /\ pc' = "event"
      BY <1>1, <1>2 DEF IInv, Called, References, Stages, DeferralAlive, closure
    <2>2. \/ given' = given /\ (pending => pending') /\ (nextCard => nextCard')
          \/ given' = given \cup {"message"} /\ pending' /\ nextCard' = nextCard
          \/ given' = given \cup {"card"} /\ pending' = pending /\ nextCard'
      BY <1>2 DEF Call, Defer, UpdateMessage, Touch, PresentCard, Done, DoneWithReason,
                  UpdateDeferrals
    <2> QED
      BY <2>1, <2>2 DEF IInv, Shown
  <1>3. CASE ranEvents
    <2>1. pc = "over" /\ pc' = "over" /\ shared /\ cbRef
      BY <1>1, <1>3, LateCalled DEF closure
    <2>2. shared' => given' \subseteq response'.shown
      <3> given \subseteq response.shown
        BY <2>1 DEF IInv, Shown
      <3> Show("message").shown = response.shown \cup {"message"}
        BY ShowWrites DEF IInv
      <3> Show("card").shown = response.shown \cup {"card"}
        BY ShowWrites DEF IInv
      <3>1. CASE Defer(r) \/ UpdateMessage(r)
        BY <1>3, <2>1, <3>1, UpdateShows DEF IInv, Defer, UpdateMessage, UpdateDeferrals
      <3>2. CASE Done(r) \/ DoneWithReason(r)
        BY <1>3, <2>1, <3>2, UpdateShows DEF IInv, Done, DoneWithReason, UpdateDeferrals
      <3>3. CASE Touch(r)
        BY <3>3 DEF Touch, request
      <3>4. CASE PresentCard(r)
        BY <1>3, <2>1, <3>4 DEF PresentCard, SendProgress
      <3> QED
        BY <3>1, <3>2, <3>3, <3>4 DEF Call
    <2> QED
      BY <2>1, <2>2 DEF Shown
  <1> QED
    BY <1>2, <1>3 DEF IInv, TypeOK

LEMMA ShownStep ==
    ASSUME IInv, [Next]_vars
    PROVE  Shown'
  <1> /\ Show("message").shown = response.shown \cup {"message"}
      /\ Show("card").shown = response.shown \cup {"card"}
    BY ShowWrites DEF IInv
  <1>1. CASE CheckFails
    BY <1>1 DEF CheckFails, Shown, IInv, References
  <1>2. CASE MakeDeferral
    BY <1>2 DEF MakeDeferral, Shown, IInv
  <1>3. CASE Trigger
    BY <1>3 DEF Trigger, Shown, IInv, request
  <1>4. CASE CancelEvent
    BY <1>4 DEF CancelEvent, Shown, IInv
  <1>5. CASE RanEvents
    <2>1. pc = "event" /\ pc' = "updated" /\ UNCHANGED <<given, nextCard>> /\ (shared => cbRef)
      BY <1>5 DEF RanEvents, IInv, References
    <2>2. shared' => given \subseteq response'.shown \cup {"card"}
      <3> given \subseteq {"message", "card"}
        BY DEF IInv, TypeOK
      <3>1. CASE pending
        <4> shared' => shared /\ response' = Show("message")
          BY <1>5, <2>1, <3>1, UpdateShows DEF RanEvents, IInv
        <4> QED
          OBVIOUS
      <3>2. CASE ~pending
        BY <1>5, <2>1, <3>2 DEF RanEvents, IInv, Shown, request
      <3> QED
        BY <3>1, <3>2 DEF IInv, TypeOK
    <2> QED
      BY <2>1, <2>2 DEF IInv, Shown
  <1>6. CASE RanEventsCard
    <2>1. pc = "updated" /\ pc' = "ran" /\ UNCHANGED given /\ (shared => cbRef)
      BY <1>6 DEF RanEventsCard, IInv, References
    <2>2. CASE nextCard
      BY <1>6, <2>1, <2>2 DEF RanEventsCard, IInv, Shown, SendProgress
    <2>3. CASE ~nextCard
      BY <1>6, <2>1, <2>3 DEF RanEventsCard, IInv, Shown, request
    <2> QED
      BY <2>2, <2>3 DEF IInv, TypeOK
  <1>7. CASE RefuseNow
    BY <1>7 DEF RefuseNow, Shown, IInv
  <1>8. CASE LeaveDeferred
    BY <1>8 DEF LeaveDeferred, Shown, IInv, request
  <1>9. CASE AllowNow
    BY <1>9 DEF AllowNow, DropReferences, Shown, IInv
  <1>10. CASE KeepAlive
    BY <1>10 DEF KeepAlive, SendProgress, Shown, IInv, closure
  <1>11. CASE CancelRequest
    BY <1>11 DEF CancelRequest, DropReferences, Shown, IInv, closure
  <1>12. CASE Replace
    BY <1>12 DEF Replace, Shown, IInv, closure, request
  <1>13. CASE \E r \in Resource : Call(r)
    BY <1>13, CallShows
  <1>14. CASE UNCHANGED vars
    BY <1>14 DEF vars, Shown, IInv, closure, request
  <1> QED
    BY <1>1, <1>2, <1>3, <1>4, <1>5, <1>6, <1>7, <1>8, <1>9, <1>10, <1>11, <1>12, <1>13, <1>14
    DEF Next, Closure

-----------------------------------------------------------------------------
(* The theorems *)

LEMMA Inductive == Spec => []IInv
  <1>1. ASSUME Init PROVE IInv
    <2>1. TypeOK
      <3>1. response \in Response
        BY <1>1 DEF Init, Response
      <3> QED
        BY <1>1, <3>1 DEF Init, TypeOK
    <2>2. Len(response.answers) = 0 /\ ~Ended
      BY <1>1 DEF Init, Ended
    <2> QED
      BY <1>1, <2>1, <2>2
      DEF Init, IInv, References, Stages, Entries, Verdicts, Responses, Shown, SilentOnceEnded,
          Running, AllowedOnlyIfDone, AnswerTellsVerdict, DoneFirst, IsDeferred, DeferralAlive
  <1>2. ASSUME IInv, [Next]_vars PROVE IInv'
    BY <1>2, TypeStep, ControlStep, ShownStep DEF IInv, Control
  <1> QED
    BY <1>1, <1>2, PTL DEF Spec

\* A player is let in only when every resource that spoke up is done with him and
\* none has refused him (UpdateDeferrals, ClientDeferral.cpp:86; the closure,
\* InitConnectMethod.cpp:1194).
THEOREM AllowedAreDone == Spec => []AllowedOnlyIfDone
  <1>1. IInv => AllowedOnlyIfDone
    BY DEF IInv, Verdicts
  <1> QED
    BY <1>1, Inductive, PTL

\* No request hangs when the resources have finished (RanEvents makes up for what
\* came while the handlers ran, ClientDeferral.cpp:153).
THEOREM FinishedAreAnswered == Spec => []FinishedIsAnswered
  <1>1. IInv => FinishedIsAnswered
    BY DEF IInv, Responses, Entries, FinishedIsAnswered
  <1> QED
    BY <1>1, Inductive, PTL

\* The answer tells what was decided (ClientDeferral.cpp:86-120).
THEOREM AnswersAreTrue == Spec => []AnswerTellsVerdict
  <1>1. IInv => AnswerTellsVerdict
    BY DEF IInv, Verdicts
  <1> QED
    BY <1>1, Inductive, PTL

\* Nothing but an answer follows an answer: whatever a resource, the keep-alive timer
\* or the closure still calls, the callback has let the response go.
THEOREM SilentAfterEnd == Spec => []SilentOnceEnded
  <1>1. IInv => SilentOnceEnded
    BY DEF IInv, Responses
  <1> QED
    BY <1>1, Inductive, PTL

\* Progress that was put off while the handlers ran is shown.
THEOREM ProgressShown == Spec => []ProgressIsShown
  <1>1. IInv => ProgressIsShown
    BY DEF IInv, References, Shown, ProgressIsShown, DeferralAlive
  <1> QED
    BY <1>1, Inductive, PTL

\* The deferral does not outlive its request, and its closure misses it only when
\* the connection was closed (InitConnectMethod.cpp:1024-1099).
THEOREM DeferralIsGivenUp == Spec => [](GivenUp /\ NeededIsThere)
  <1>1. IInv => GivenUp /\ NeededIsThere
    BY DEF IInv, References, Responses, GivenUp, NeededIsThere, DeferralAlive
  <1> QED
    BY <1>1, Inductive, PTL
=============================================================================
