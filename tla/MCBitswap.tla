------------------------------ MODULE MCBitswap ------------------------------
(***************************************************************************)
(* Instances of Bitswap for TLC: two nodes.                                *)
(***************************************************************************)
EXTENDS Bitswap, TLC

CONSTANTS n1, n2, c1, c2

\* Both nodes can dial each other.
BothWays == {<<n1, n2>>, <<n2, n1>>}

\* Each node has what the other one wants.
CrossStores == {n1 :> {c2} @@ n2 :> {c1}}

\* n1 wants both blocks, and n2 has both.
SecondStores == {n1 :> {} @@ n2 :> {c1, c2}}

\* One node, or both, have c1, or each node has what the other one wants.
LiveStores == CrossStores \cup {s \in [Nodes -> SUBSET {c1}] : \E n \in Nodes : s[n] # {}}

\* For the liveness run (an action constraint; every action of Fairness keeps a step
\* that it allows): with one block, anything may fail and be withdrawn; with
\* blocks in both directions nothing is, and the second node asks for its block
\* when it has the first one's want, so that its two threads meet in the request.
Crossing == \E n \in Nodes : c2 \in store[n]

OneBlock == \A n \in Nodes : c2 \notin asked'[n]

BothDirections ==
  /\ faults' = 0
  /\ \A q \in Pairs : \A e \in ToSet(we'[q]) : ~e.cancel
  /\ asked'[n2] # asked[n2] => they[<<n2, n1>>] # <<>>

LiveSteps == IF Crossing THEN BothDirections ELSE OneBlock

=============================================================================
