----------------------------- MODULE MCRouting -----------------------------
(* Routing on two remote nodes. *)
EXTENDS Routing

CONSTANTS p1, p2, k1, me

\* Two addresses of one peer; the other becomes known through its answers.
TwoAddresses == <<p1, p1>>

OneHolder == {<<p2, k1>>}

\* p1 knows that both provide k1.
BothAnnounced == {[node |-> p1, key |-> k1, peer |-> q] : q \in {p1, p2}}
=============================================================================
