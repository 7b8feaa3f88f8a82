-------------------------- MODULE MCEventReassembly --------------------------
(* Instances of EventReassembly for TLC. *)
EXTENDS EventReassembly, TLC

\* One client; the client triggers the events.
ClientSends == [n \in Node |-> IF n = Server THEN 0 ELSE 1]
ClientSendsTwo == [n \in Node |-> IF n = Server THEN 0 ELSE 2]

\* The server triggers them.
ServerSends == [n \in Node |-> IF n = Server THEN 1 ELSE 0]

\* Fragments by event: one event of two, and one of two before one of one.
OfTwo == [id \in {0} |-> {2}]
OfOne == [id \in {0} |-> {1}]
OfTwoThenOne == [id \in {0, 1} |-> IF id = 0 THEN {2} ELSE {1}]

SymmetryOfClients == Permutations(Client)
=============================================================================
