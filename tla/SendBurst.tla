------------------------------ MODULE SendBurst ------------------------------
(***************************************************************************)
(* What one pass of the burst loop of                                      *)
(* EventReassemblyComponentImpl::NetworkTickSendList does to the data kept *)
(* for one target (PerTargetData): which fragments it sends and where it   *)
(* leaves lastBit.  The loop's clock decides only how long the burst is,   *)
(* so an outcome is named by the last fragment the burst sends.  SendLoop  *)
(* has the loop itself, clock included, and shows that it produces these   *)
(* outcomes and no others.                                                 *)
(***************************************************************************)
EXTENDS Naturals

\* PerTargetData without the timers: ackBits.size(), the bits that are set,
\* and the fragment the next burst starts from.
PerTargetData == [size: Nat, acked: SUBSET Nat, lastBit: Nat]

\* The null pointer a target's data is replaced with when it is done; a real
\* event has at least one fragment.
NoData == [size |-> 0, acked |-> {}, lastBit |-> 0]

Unacked(d) == (0 .. (d.size - 1)) \ d.acked

\* The fragments the second scan of the loop can still find.
Ahead(d) == {i \in Unacked(d) : i >= d.lastBit}

\* The burst ends after fragment b: its time is up, or b is the last fragment
\* and lastBit has wrapped to 0.
StopAfter(d, b) == [sends   |-> {i \in Ahead(d) : i <= b},
                    lastBit |-> (b + 1) % d.size]

\* The burst has sent all there was ahead of lastBit and, in one more pass,
\* rewinds to the first fragment not acknowledged.  This pass is not made when
\* the last fragment was sent: the loop has left by then.
Rewind(d, first) == [sends |-> Ahead(d), lastBit |-> first]

RewindPoints(d) ==
    {i \in Unacked(d) : /\ d.size - 1 \notin Ahead(d)
                        /\ \A j \in Unacked(d) : i <= j}

BurstOutcomes(d) == {StopAfter(d, b) : b \in Ahead(d)}
                        \cup {Rewind(d, i) : i \in RewindPoints(d)}
=============================================================================
