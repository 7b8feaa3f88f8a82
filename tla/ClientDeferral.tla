---------------------------- MODULE ClientDeferral ----------------------------
(***************************************************************************)
(* The deferral of a connection: the resources of a server may hold an     *)
(* initConnect request back, tell the player what they wait for, and allow *)
(* or refuse him in the end (ClientDeferral, and the lambda `done` of the  *)
(* initConnect method that owns it).  `done` makes the deferral on an HTTP *)
(* thread and queues a closure for the main thread, which triggers         *)
(* playerConnecting and decides what the resources left open.  Resources   *)
(* call the deferral from the handlers of that event and in any later      *)
(* frame, and the HTTP thread takes everything back when the connection is *)
(* closed, between any two steps of the closure.                           *)
(*                                                                         *)
(* The texts of messages, cards and reasons, the handover data and the     *)
(* answers to cards are left out.                                          *)
(***************************************************************************)
EXTENDS Naturals, Sequences

CONSTANT Resource

VARIABLES
    pc,             \* of `done` and its closure
    shared, local,  \* *deferrals and deferralsRef are not null
    cbRef,          \* *cbRef is not null
    entry,          \* m_deferralStates: what a resource has said
    ranEvents, pending, completed, nextCard,    \* m_ranEvents, m_pending, m_completed, m_nextCard
    timer,          \* a keep-alive timer was started
    prevented,      \* a handler canceled playerConnecting
    earlyReject,    \* *earlyReject
    allowed,        \* allowClient ran: the holder is disowned, passedValidation set
    replaced,       \* the client was removed for a newer request of its player
    closed,         \* the cancel handler of the request ran
    given,          \* history: kinds of progress the resources gave
    response        \* what was written: the last item, the progress, the answers

closure == <<pc, local, prevented>>
request == <<shared, cbRef, response, allowed, earlyReject>>
outside == <<replaced, closed>>
vars == <<closure, request, outside, entry, ranEvents, pending, completed, nextCard, timer, given>>

-----------------------------------------------------------------------------
(* Helpers *)

IsDeferred == \E r \in Resource : entry[r] # "none"

DeferralAlive == shared \/ local

\* The holder goes with the closure and with the callbacks of the deferral, and
\* removes the client unless it was disowned.
Registered == ~replaced /\ (allowed \/ pc # "over" \/ DeferralAlive)

\* The closure keeps the client object; afterwards only the registry does.
ClientAlive == ~replaced \/ pc # "over"

\* Null ends a response, and so follows every answer.
Ended == response.answers # <<>>
Show(kind) == [response EXCEPT !.last = kind, !.shown = @ \cup {kind}]

End(answer) == [response EXCEPT !.last = "end", !.answers = Append(@, answer)]

\* Mutant: one of the two references is kept.
DeferralKept == cbRef' = FALSE /\ UNCHANGED shared
CallbackKept == shared' = FALSE /\ UNCHANGED cbRef

\* The request gives up the deferral and the callback it answers with.
DropReferences == shared' = FALSE /\ cbRef' = FALSE

SendProgress(kind) ==
    /\ response' = IF cbRef THEN Show(kind) ELSE response
    /\ UNCHANGED <<shared, cbRef, allowed, earlyReject>>

\* Mutant: the player is answered, and not allowed.
ResolveUnvalidated ==
    /\ response' = IF cbRef THEN End("data") ELSE response
    /\ DropReferences
    /\ UNCHANGED <<allowed, earlyReject>>

\* The resolve callback.
Resolve ==
    /\ allowed' = TRUE
    /\ response' = IF cbRef THEN End("data") ELSE response
    /\ DropReferences
    /\ UNCHANGED earlyReject

\* The reject callback: earlyReject lives as long as the closure.
Reject ==
    /\ earlyReject' = (earlyReject \/ pc # "over")
    /\ response' = IF ClientAlive /\ cbRef THEN End("error") ELSE response
    /\ DropReferences
    /\ UNCHANGED allowed

Rejected(said) == \E r \in Resource : said[r] = "rejected"

\* Mutant: the first resource that is done decides.
SomeDone(said) == \E r \in Resource : said[r] = "done"

AllDone(said) == \A r \in Resource : said[r] # "waiting"

\* UpdateDeferrals, once the handlers ran.
Update(said) ==
    \/ Rejected(said) /\ completed' = TRUE /\ Reject
    \/ ~Rejected(said) /\ AllDone(said) /\ completed' = TRUE /\ Resolve
    \/ ~Rejected(said) /\ ~AllDone(said) /\ UNCHANGED completed /\ SendProgress("message")

\* Mutant: what comes before the handlers ran is not remembered.
UpdateForgotten(said) ==
    /\ entry' = said
    /\ UNCHANGED pending
    /\ IF ranEvents THEN Update(said) ELSE UNCHANGED <<completed, request>>

\* UpdateDeferrals: put off until the handlers ran.
UpdateDeferrals(said) ==
    /\ entry' = said
    /\ pending' = (pending \/ ~ranEvents)
    /\ IF ranEvents THEN Update(said) ELSE UNCHANGED <<completed, request>>

Init ==
    /\ pc = "checks"
    /\ shared = FALSE /\ local = FALSE /\ cbRef = FALSE
    /\ entry = [r \in Resource |-> "none"]
    /\ ranEvents = FALSE /\ pending = FALSE /\ completed = FALSE /\ nextCard = FALSE
    /\ timer = FALSE
    /\ prevented = FALSE /\ earlyReject = FALSE /\ allowed = FALSE
    /\ replaced = FALSE /\ closed = FALSE
    /\ given = {}
    /\ response = [last |-> "none", shown |-> {}, answers |-> <<>>]

-----------------------------------------------------------------------------
(* `done`, on the thread that found the last identifier *)

\* The client went meanwhile, or an error is found: the request ends here.
CheckFails ==
    /\ pc = "checks"
    /\ pc' = "over"
    /\ response' = IF replaced THEN response ELSE End("error")
    /\ UNCHANGED <<shared, local, cbRef, allowed, earlyReject, prevented, outside, entry,
                   ranEvents, pending, completed, nextCard, timer, given>>

\* The deferral is made and the closure queued.
MakeDeferral ==
    /\ pc = "checks" /\ ~replaced
    /\ pc' = "queued"
    /\ shared' = TRUE /\ cbRef' = TRUE
    /\ UNCHANGED <<local, response, allowed, earlyReject, prevented, outside, entry,
                   ranEvents, pending, completed, nextCard, timer, given>>

-----------------------------------------------------------------------------
(* Calls of the resources, from a handler of playerConnecting or later *)

\* Their references to the deferral are weak.
Called == pc \in {"event", "over"} /\ DeferralAlive /\ ~completed

\* A callback about the resource's entry makes it.
Touched(r) == [entry EXCEPT ![r] = IF @ = "none" THEN "waiting" ELSE @]

\* The entry is made anew, whatever the resource has said.
Defer(r) ==
    /\ Called
    /\ UpdateDeferrals([entry EXCEPT ![r] = "waiting"])
    /\ timer' = TRUE
    /\ given' = given \cup {"message"}
    /\ UNCHANGED <<closure, outside, ranEvents, nextCard>>

UpdateMessage(r) ==
    /\ Called
    /\ UpdateDeferrals(Touched(r))
    /\ given' = given \cup {"message"}
    /\ UNCHANGED <<closure, outside, ranEvents, nextCard, timer>>

\* `update` or `presentCard` without the argument.
Touch(r) ==
    /\ Called
    /\ entry' = Touched(r)
    /\ UNCHANGED <<closure, request, outside, ranEvents, pending, completed, nextCard, timer, given>>

PresentCard(r) ==
    /\ Called
    /\ entry' = Touched(r)
    /\ IF ranEvents
       THEN SendProgress("card") /\ UNCHANGED nextCard
       ELSE nextCard' = TRUE /\ UNCHANGED request
    /\ given' = given \cup {"card"}
    /\ UNCHANGED <<closure, outside, ranEvents, pending, completed, timer>>

\* A reason that was given before stays.
Done(r) ==
    /\ Called
    /\ UpdateDeferrals([entry EXCEPT ![r] = IF @ = "rejected" THEN @ ELSE "done"])
    /\ UNCHANGED <<closure, outside, ranEvents, nextCard, timer, given>>

DoneWithReason(r) ==
    /\ Called
    /\ UpdateDeferrals([entry EXCEPT ![r] = "rejected"])
    /\ UNCHANGED <<closure, outside, ranEvents, nextCard, timer, given>>

-----------------------------------------------------------------------------
(* The closure, on the main thread *)

\* It takes a reference of its own and triggers playerConnecting.
Trigger ==
    /\ pc = "queued"
    /\ local' = shared
    /\ pc' = IF shared THEN "event" ELSE "ran"
    /\ prevented' = ~shared
    /\ UNCHANGED <<request, outside, entry, ranEvents, pending, completed, nextCard, timer, given>>

\* A handler cancels the event; the others are called all the same.
CancelEvent ==
    /\ pc = "event" /\ ~prevented
    /\ prevented' = TRUE
    /\ UNCHANGED <<pc, local, request, outside, entry, ranEvents, pending, completed, nextCard,
                   timer, given>>

\* RanEvents makes up for the updates that were put off.
RanEvents ==
    /\ pc = "event"
    /\ pc' = "updated"
    /\ ranEvents' = TRUE
    /\ pending' = FALSE
    /\ IF pending THEN Update(entry) ELSE UNCHANGED <<completed, request>>
    /\ UNCHANGED <<local, prevented, outside, entry, nextCard, timer, given>>

\* Then it presents the card that was.
RanEventsCard ==
    /\ pc = "updated"
    /\ pc' = "ran"
    /\ nextCard' = FALSE
    /\ IF nextCard THEN SendProgress("card") ELSE UNCHANGED request
    /\ UNCHANGED <<local, prevented, outside, entry, ranEvents, pending, completed, timer, given>>

\* The answer goes out whatever was answered before.
RefuseNow ==
    /\ pc = "ran" /\ (prevented \/ earlyReject)
    /\ pc' = "over"
    /\ local' = FALSE
    /\ shared' = FALSE
    /\ response' = End("error")
    /\ UNCHANGED <<prevented, cbRef, allowed, earlyReject, outside, entry, ranEvents, pending,
                   completed, nextCard, timer, given>>

\* The resources will decide, or have.
LeaveDeferred ==
    /\ pc = "ran" /\ ~prevented /\ ~earlyReject /\ IsDeferred
    /\ pc' = "over"
    /\ local' = FALSE
    /\ UNCHANGED <<prevented, request, outside, entry, ranEvents, pending, completed, nextCard,
                   timer, given>>

\* It takes the handover data from *deferrals, which must not be null by now.
AllowNow ==
    /\ pc = "ran" /\ ~prevented /\ ~earlyReject /\ ~IsDeferred
    /\ allowed' = TRUE
    /\ local' = FALSE
    /\ IF shared
       THEN pc' = "over" /\ DropReferences /\ response' = End("data")
       ELSE pc' = "crashed" /\ UNCHANGED <<shared, cbRef, response>>
    /\ UNCHANGED <<prevented, earlyReject, outside, entry, ranEvents, pending, completed,
                   nextCard, timer, given>>

\* The keep-alive timer, on the main thread too.
KeepAlive ==
    /\ timer /\ pc = "over" /\ DeferralAlive
    /\ SendProgress("message")
    /\ UNCHANGED <<closure, outside, entry, ranEvents, pending, completed, nextCard, timer, given>>

-----------------------------------------------------------------------------
(* Other threads and other requests *)

\* The connection is closed before its response has ended.
CancelRequest ==
    /\ pc # "checks" /\ ~closed /\ ~Ended
    /\ closed' = TRUE
    /\ DropReferences
    /\ UNCHANGED <<closure, response, allowed, earlyReject, replaced, entry, ranEvents, pending,
                   completed, nextCard, timer, given>>

\* The player asks anew, which removes the client that waits.
Replace ==
    /\ pc \in {"checks", "queued", "over"} /\ Registered /\ ~allowed
    /\ replaced' = TRUE
    /\ UNCHANGED <<closure, request, closed, entry, ranEvents, pending, completed, nextCard,
                   timer, given>>

Call(r) ==
    Defer(r) \/ UpdateMessage(r) \/ Touch(r) \/ PresentCard(r) \/ Done(r) \/ DoneWithReason(r)

Closure ==
    \/ CheckFails \/ MakeDeferral \/ Trigger \/ CancelEvent \/ RanEvents \/ RanEventsCard
    \/ RefuseNow \/ LeaveDeferred \/ AllowNow

Next ==
    /\ pc # "crashed"
    /\ \/ Closure \/ KeepAlive \/ CancelRequest \/ Replace
       \/ \E r \in Resource : Call(r)

Spec == Init /\ [][Next]_vars
-----------------------------------------------------------------------------
(* Properties *)

Response == [last : {"none", "message", "card", "end"},
             shown : SUBSET {"message", "card"},
             answers : Seq({"data", "error"})]

TypeOK ==
    /\ pc \in {"checks", "queued", "event", "updated", "ran", "over", "crashed"}
    /\ entry \in [Resource -> {"none", "waiting", "done", "rejected"}]
    /\ shared \in BOOLEAN /\ local \in BOOLEAN /\ cbRef \in BOOLEAN
    /\ ranEvents \in BOOLEAN /\ pending \in BOOLEAN /\ completed \in BOOLEAN
    /\ nextCard \in BOOLEAN /\ timer \in BOOLEAN
    /\ prevented \in BOOLEAN /\ earlyReject \in BOOLEAN /\ allowed \in BOOLEAN
    /\ replaced \in BOOLEAN /\ closed \in BOOLEAN
    /\ given \subseteq {"message", "card"}
    /\ response \in Response

\* A player is allowed only when every resource that spoke up is done with him,
\* and none gave a reason, whenever and in whatever order they said so.
AllowedOnlyIfDone ==
    allowed => \A r \in Resource : entry[r] \in {"none", "done"}

\* Once the closure is over, no request hangs for which nobody has anything left
\* to say: an answer has been written, also when the resources finished in their
\* handlers, unless the connection was closed or the client replaced.
FinishedIsAnswered ==
    pc = "over" /\ (Rejected(entry) \/ AllDone(entry)) /\ ~closed /\ ~replaced => Ended

\* The player reads what was decided: whoever gets the connection data was allowed,
\* and whoever gets an error was not.  This does not hold of a canceled event whose
\* resources were all done with the player before it had run (DoneFirst): he is
\* allowed and reads the data and then the error, see CanceledIsRejected.
DoneFirst == prevented /\ completed

AnswerTellsVerdict ==
    \A i \in 1..Len(response.answers) :
        \/ response.answers[i] = "data" /\ allowed
        \/ response.answers[i] = "error" /\ (allowed => DoneFirst)

\* What the comment on playerConnecting promises: whoever connects while a handler
\* cancels the event is rejected.  It is the resources that decide, in RanEvents,
\* which the closure calls before it looks at shouldAllow.
CanceledIsRejected == pc = "over" /\ prevented => ~allowed

\* Neither a message, nor a card that was put off, nor the keep-alive timer writes
\* to a response after its end.
SilentOnceEnded == Ended => response.last = "end"

\* What a resource shows from a handler is put off and not lost.
ProgressIsShown ==
    pc = "over" /\ DeferralAlive /\ ~closed => given \subseteq response.shown

\* The deferral refers to itself through its callbacks: it is given up once the
\* request is answered, decided or closed, or else its client would wait forever.
GivenUp == pc = "over" /\ (Ended \/ completed \/ closed) => ~DeferralAlive

\* The closure finds the deferral gone, where it needs it, only if the connection
\* was closed meanwhile, never because the resources completed it.
NeededIsThere == pc = "crashed" => closed /\ ~completed

=============================================================================
