----------------------------- MODULE EventChannel -----------------------------
(***************************************************************************)
(* What latent events promise to the scripts that use them: an event is    *)
(* handed over at its target only if it was sent, the sender holds on to   *)
(* it until then, unless one of the two drops the other, and the target    *)
(* hands it over once; again only after its memory of the event lapsed.    *)
(***************************************************************************)
EXTENDS Naturals

CONSTANT Transfer   \* one event on its way to one of its targets

VARIABLES
    sent,       \* the transfers that were ever started
    held,       \* those the sender still holds
    received,   \* how often each was handed over at its target
    lapses,     \* how often the target forgot that it had it
    severed     \* those between two nodes of which one has dropped the other

vars == <<sent, held, received, lapses, severed>>

Init ==
    /\ sent = {} /\ held = {} /\ severed = {}
    /\ received = [x \in Transfer |-> 0]
    /\ lapses = [x \in Transfer |-> 0]

Send(X) ==
    /\ X \cap sent = {}
    /\ sent' = sent \cup X
    /\ held' = held \cup X
    /\ UNCHANGED <<received, lapses, severed>>

\* The target has not had it yet, as far as it remembers.
Receive(x) ==
    /\ x \in sent
    /\ received[x] = lapses[x]
    /\ received' = [received EXCEPT ![x] = @ + 1]
    /\ UNCHANGED <<sent, held, lapses, severed>>

\* A node lets go of the transfers H that it sent, and loses its memory of the
\* transfers L that it received.
LetGo(H, L) ==
    /\ H \subseteq held
    /\ \A x \in H : received[x] > 0 \/ x \in severed
    /\ \A x \in L : received[x] > lapses[x]
    /\ held' = held \ H
    /\ lapses' = [x \in Transfer |-> IF x \in L THEN lapses[x] + 1 ELSE lapses[x]]
    /\ UNCHANGED <<sent, received, severed>>

\* The node that drops the other one stops holding what it was sending to it.
Sever(X, H) ==
    /\ H \subseteq X
    /\ severed' = severed \cup X
    /\ held' = held \ H
    /\ UNCHANGED <<sent, received, lapses>>

Next ==
    \/ \E X \in SUBSET Transfer : Send(X)
    \/ \E x \in Transfer : Receive(x)
    \/ \E H, L \in SUBSET Transfer : LetGo(H, L)
    \/ \E X \in SUBSET Transfer : \E H \in SUBSET X : Sever(X, H)

Spec == Init /\ [][Next]_vars
=============================================================================
