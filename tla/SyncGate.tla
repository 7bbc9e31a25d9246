------------------------------ MODULE SyncGate ------------------------------
(***************************************************************************)
(* What the sync_pending flag of a node promises (main.rs, network.rs):    *)
(* mining stops when a peer is asked for blocks and resumes when a request *)
(* is settled, by its answer or its failure.  The flag does not count: the *)
(* first of two requests to be settled opens the gate while the second is  *)
(* outstanding, and an answer that is given up because of a storage error  *)
(* leaves the gate closed with nothing to open it.  Node implements this   *)
(* specification.                                                          *)
(***************************************************************************)
EXTENDS Naturals

CONSTANTS Nodes, Blocks

VARIABLES
    closed,         \* per node: sync_pending
    outstanding,    \* per node: requests that are not settled
    givenUp,        \* per node: an answer was given up since the gate last opened
    produced        \* per node: the blocks it has mined

gate == <<closed, outstanding, givenUp, produced>>

Init ==
    /\ closed = [n \in Nodes |-> FALSE]
    /\ outstanding = [n \in Nodes |-> 0]
    /\ givenUp = [n \in Nodes |-> FALSE]
    /\ produced = [n \in Nodes |-> {}]

\* A connection is admitted and its peer is asked.
Ask(n) ==
    /\ closed' = [closed EXCEPT ![n] = TRUE]
    /\ outstanding' = [outstanding EXCEPT ![n] = @ + 1]
    /\ UNCHANGED <<givenUp, produced>>

\* An answer has been handled to its end, or the request has failed.
Settle(n) ==
    /\ outstanding[n] > 0
    /\ outstanding' = [outstanding EXCEPT ![n] = @ - 1]
    /\ closed' = [closed EXCEPT ![n] = FALSE]
    /\ givenUp' = [givenUp EXCEPT ![n] = FALSE]
    /\ UNCHANGED produced

\* A storage error ends the handling of an answer.
GiveUp(n) ==
    /\ outstanding[n] > 0
    /\ outstanding' = [outstanding EXCEPT ![n] = @ - 1]
    /\ givenUp' = [givenUp EXCEPT ![n] = TRUE]
    /\ UNCHANGED <<closed, produced>>

\* The node mines a block.
Produce(n) ==
    /\ ~closed[n]
    /\ \E block \in Blocks \ produced[n] :
          produced' = [produced EXCEPT ![n] = @ \cup {block}]
    /\ UNCHANGED <<closed, outstanding, givenUp>>

\* A restarted node has asked nobody.
Forget(n) ==
    /\ closed' = [closed EXCEPT ![n] = FALSE]
    /\ outstanding' = [outstanding EXCEPT ![n] = 0]
    /\ givenUp' = [givenUp EXCEPT ![n] = FALSE]
    /\ UNCHANGED produced

Next == \E n \in Nodes : Ask(n) \/ Settle(n) \/ GiveUp(n) \/ Produce(n) \/ Forget(n)

Spec == Init /\ [][Next]_gate

-----------------------------------------------------------------------------
(* What follows from it. *)

\* A closed gate has something to open it, except where an answer was given up.
GateHasKey == \A n \in Nodes : closed[n] => outstanding[n] > 0 \/ givenUp[n]

\* No block is mined while the gate is closed, and the gate is opened only by
\* settling a request or a restart, after which fewer are outstanding.
Obeyed ==
    \A n \in Nodes :
        closed[n] => /\ produced'[n] = produced[n]
                     /\ ~closed'[n] /\ ~givenUp[n] => outstanding'[n] < outstanding[n]
GateObeyed == [][Obeyed]_gate
=============================================================================
