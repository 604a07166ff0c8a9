---------------------------- MODULE MCRepository ----------------------------
(* Three processes, each of which makes the repository or opens it. *)
EXTENDS Repository

SomePeers == <<"/ip4/1.1.1.1/tcp/4001", "/ip4/2.2.2.2/tcp/4001">>

SomeAddresses == ToSet(SomePeers) \cup {"/ip4/3.3.3.3/tcp/4001"}

SomeTexts == SomeAddresses \cup {"nowhere"}

\* One peer, a text that is no address, and a peer behind such a text.
SomeEdits == {<<"/ip4/3.3.3.3/tcp/4001">>, <<"nowhere">>, <<"nowhere", "/ip4/3.3.3.3/tcp/4001">>}
=============================================================================
