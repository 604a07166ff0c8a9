------------------------------ MODULE Routing ------------------------------
(***************************************************************************)
(* The routing of an online node (routing/online.c, routing/offline.c): who *)
(* provides a hash, where a peer is, telling the network, pings and the     *)
(* values of other nodes.                                                   *)
(*                                                                         *)
(* Threads call the routing at the same time (the wantlist processor, the   *)
(* workers of the API, the handlers of messages) and share the peerstore,   *)
(* the connections and the sessions, for which there is no lock.  Every     *)
(* message sent, every answer received and every dial is a step.  A session *)
(* gives back a peer's answers in the order of the requests: `wire' holds   *)
(* the answers that nobody has read yet.                                    *)
(***************************************************************************)
EXTENDS Integers, Sequences, SequencesExt, FiniteSets

CONSTANTS Remotes,         \* other nodes
          Me,              \* this node, the head of its own peerstore
          Keys,            \* hashes
          Callers,         \* threads
          BootstrapPeers,  \* config->bootstrap_peers, a sequence
          Holds,           \* the pairs of a node and a key it has
          Announced,       \* [node, key, peer]: what a node says who provides a key
          Operations,      \* the operations the threads call
          MaxCalls, MaxFaults,
          NoPeer, NoKey

\* The identities of nodes differ, and NULL is none of them.
ASSUME NodesAssumption ==
  IsFiniteSet(Remotes) /\ Me \notin Remotes /\ NoPeer \notin Remotes \cup {Me}

\* A value that was found has a size above 0.
ASSUME KeysAssumption == NoKey \notin Keys

\* The addresses of the configuration name peers.
ASSUME BootstrapAssumption == BootstrapPeers \in Seq(Remotes \cup {Me})

Peers == Remotes \cup {Me}

VARIABLES
  booted,          \* the bootstrap addresses that were done, in two rounds
  peerstore,       \* the list of known peers, in the order they were added
  connected,       \* peers with connection_type CONNECTED
  session,         \* peers with a sessionContext
  providerstore,   \* the provider of a key, or NoPeer
  up,              \* remotes that answer
  wire,            \* for each remote the answers not read yet
  call,            \* the call each thread is in, or was in last
  calls, faults    \* how many calls and faults there were

vars == <<booted, peerstore, connected, session, providerstore, up, wire, call, calls, faults>>

NoAnswer == [type |-> "NULL", key |-> NoKey, peers |-> <<>>, value |-> NoKey]

-----------------------------------------------------------------------------
(* The calls.  asked, refused, raced and steady are history: whom the call
   sent a message, who could not be dialled, to whom another thread connected
   meanwhile, and who was known and connected all the time. *)

NoCall == [op |-> "none", key |-> NoKey, target |-> NoPeer, pc |-> "idle", i |-> 1,
           peers |-> <<>>, ret |-> 0, got |-> NoKey,
           asked |-> {}, refused |-> {}, raced |-> {}, steady |-> {}]

Idle(c) == call[c].pc \in {"idle", "done"}

Done(r, ret) == [r EXCEPT !.pc = "done", !.ret = ret]

\* The peer a call is at.
At(c) ==
  CASE call[c].op = "ping"                      -> call[c].target
    [] call[c].pc \in {"first", "second", "first_rcv", "second_rcv", "second_ask"} ->
                                                   call[c].peers[call[c].i]
    [] OTHER                                    -> peerstore[call[c].i]

RequestType(c) ==
  CASE call[c].op = "ping"                           -> "PING"
    [] call[c].op = "provide"                        -> "ADD_PROVIDER"
    [] call[c].op = "find_peer"                      -> "FIND_NODE"
    [] call[c].pc \in {"first", "second_ask"}        -> "GET_VALUE"
    [] OTHER                                         -> "GET_PROVIDERS"

\* What a remote answers (external).
Answer(p, type, key, target) ==
  [type |-> type, key |-> key,
   peers |-> CASE type = "GET_PROVIDERS" ->
                    SetToSeq({q \in Peers : [node |-> p, key |-> key, peer |-> q] \in Announced})
               [] type = "FIND_NODE" -> IF \E k \in Keys : [node |-> p, key |-> k, peer |-> target]
                                                             \in Announced
                                        THEN <<target>> ELSE <<>>
               [] OTHER -> <<>>,
   value |-> IF type = "GET_VALUE" /\ <<p, key>> \in Holds THEN key ELSE NoKey]

\* The list with a peer at its end, if it is not there.
libp2p_peerstore_add_peer(list, p) == IF Contains(list, p) THEN list ELSE Append(list, p)

\* The peers of an answer that are not known yet are added to the list.
AddProviders(list, peers) ==
  LET added[n \in 0 .. Len(peers)] ==
        IF n = 0 THEN list ELSE libp2p_peerstore_add_peer(added[n - 1], peers[n])
  IN  added[Len(peers)]

\* History of the other calls when a peer is connected or given up.
Met(r, p) == IF r.pc \in {"idle", "done"} THEN r ELSE [r EXCEPT !.raced = @ \cup {p}]

Raced(calls_, c, p) == [d \in Callers |-> IF d = c THEN calls_[d] ELSE Met(calls_[d], p)]

Unsteady(calls_, p) == [d \in Callers |-> [calls_[d] EXCEPT !.steady = @ \ {p}]]

-----------------------------------------------------------------------------

Init ==
  /\ booted = 0
  /\ peerstore = <<Me>>
  /\ connected = {} /\ session = {}
  /\ providerstore \in [Keys -> Peers \cup {NoPeer}]
  /\ up \in SUBSET Remotes
  /\ wire = [p \in Remotes |-> <<>>]
  /\ call = [c \in Callers |-> NoCall]
  /\ calls = 0 /\ faults = 0

\* libp2p_peer_connect (external): a new session with a peer that is up.
Dial(p) ==
  /\ connected' = IF p \in up THEN connected \cup {p} ELSE connected
  /\ session'   = IF p \in up THEN session \cup {p} ELSE session
  /\ wire'      = IF p \in up THEN [wire EXCEPT ![p] = <<>>] ELSE wire

\* One address of the bootstrap list.  The first round is before the node has
\* other threads; the daemon goes over the list once more while they run.
Rounds == 2

BootAddress(n) ==
  BootstrapPeers[IF n < Len(BootstrapPeers) THEN n + 1 ELSE n + 1 - Len(BootstrapPeers)]

ipfs_routing_online_bootstrap ==
  /\ booted < Rounds * Len(BootstrapPeers)
  /\ LET p == BootAddress(booted)
     IN  /\ peerstore' = libp2p_peerstore_add_peer(peerstore, p)
         /\ IF p \in session THEN UNCHANGED <<connected, session, wire, call>>
            ELSE /\ Dial(p)
                 /\ call' = IF p \in up THEN [d \in Callers |-> Met(call[d], p)] ELSE call
  /\ booted' = booted + 1
  /\ UNCHANGED <<providerstore, up, calls, faults>>

\* The call begins.  The searches look at what the node knows first.
Begin(c, op, key, target) ==
  /\ booted >= Len(BootstrapPeers) /\ Idle(c) /\ calls < MaxCalls
  /\ calls' = calls + 1
  /\ call' = [call EXCEPT ![c] =
       [NoCall EXCEPT !.op = op, !.key = key, !.target = target,
                      !.steady = {p \in connected : Contains(peerstore, p)},
                      !.pc = IF op \in {"provide", "ping"} THEN "walk" ELSE "find"]]
  /\ UNCHANGED <<booted, peerstore, connected, session, providerstore, up, wire, faults>>

Call(c) ==
  \/ \E op \in Operations \cap {"find_providers", "get_value", "provide"} : \E k \in Keys :
       Begin(c, op, k, NoPeer)
  \/ \E op \in Operations \cap {"find_peer", "ping"} : \E p \in Remotes : Begin(c, op, NoKey, p)

\* FindProviders has its answer; get_value goes on with it.
Found(r, peers, ret) ==
  CASE r.op = "get_value" /\ peers # <<>> -> [r EXCEPT !.pc = "first", !.i = 1, !.peers = peers]
    [] r.op = "get_value" /\ peers = <<>> -> Done(r, 0)
    [] OTHER                              -> Done([r EXCEPT !.peers = peers], ret)

\* A provider that announced itself before; it has to be in the peerstore.
ipfs_routing_online_find_providers(c) ==
  /\ call[c].pc = "find" /\ call[c].op # "find_peer"
  /\ LET p == providerstore[call[c].key]
     IN  call' = [call EXCEPT ![c] =
           CASE p = NoPeer                                -> [@ EXCEPT !.pc = "walk"]
             [] p # NoPeer /\ Contains(peerstore, p)      -> Found(@, <<p>>, 1)
             [] OTHER                                     -> Found(@, <<>>, 0)]
  /\ UNCHANGED <<booted, peerstore, connected, session, providerstore, up, wire, calls, faults>>

\* A peer that is in the peerstore is the answer.
ipfs_routing_online_find_peer(c) ==
  /\ call[c].pc = "find" /\ call[c].op = "find_peer"
  /\ call' = [call EXCEPT ![c] = IF Contains(peerstore, @.target)
                                 THEN Done([@ EXCEPT !.peers = <<call[c].target>>], 1)
                                 ELSE [@ EXCEPT !.pc = "walk"]]
  /\ UNCHANGED <<booted, peerstore, connected, session, providerstore, up, wire, calls, faults>>

\* Whether the loop over the peerstore, or ping, sends this peer a message.
Asks(c, p) == p \in connected /\ p # Me

\* The end of the loop over the peerstore.
WalkedAll(r) ==
  CASE r.op = "provide"                             -> Done(r, 1)
    [] r.op \in {"find_providers", "get_value"}     -> Found(r, <<>>, 0)
    [] OTHER                                        -> Done(r, 0)

\* The loop over the peerstore goes to the next entry.
NextPeer(r) == [r EXCEPT !.pc = "walk", !.i = @ + 1]

\* The loop over the peerstore passes a peer it does not ask, or is at its end.
WalkOn(c) ==
  /\ call[c].pc = "walk" /\ call[c].op # "ping"
  /\ call[c].i <= Len(peerstore) => ~Asks(c, peerstore[call[c].i])
  /\ call' = [call EXCEPT ![c] = IF @.i > Len(peerstore) THEN WalkedAll(@) ELSE NextPeer(@)]
  /\ UNCHANGED <<booted, peerstore, connected, session, providerstore, up, wire, calls, faults>>

\* ping of a peer without a connection dials it.
ipfs_routing_online_ping(c) ==
  /\ call[c].pc = "walk" /\ call[c].op = "ping"
  /\ LET p     == call[c].target
         goes  == [call[c] EXCEPT !.pc = "dialled"]
     IN  \/ /\ p \in connected
            /\ call' = [call EXCEPT ![c] = goes]
            /\ UNCHANGED <<connected, session, wire>>
         \/ /\ p \notin connected
            /\ Dial(p)
            /\ call' = IF p \in up THEN [Raced(call, c, p) EXCEPT ![c] = goes]
                       ELSE [call EXCEPT ![c] = Done(@, 0)]
  /\ UNCHANGED <<booted, peerstore, providerstore, up, calls, faults>>

\* A connection that another thread gave up meanwhile makes the ping a success
\* without a message.
PingUnsent(c) ==
  /\ call[c].pc = "dialled" /\ call[c].target \notin connected
  /\ call' = [call EXCEPT ![c] = Done(@, 1)]
  /\ UNCHANGED <<booted, peerstore, connected, session, providerstore, up, wire, calls, faults>>

-----------------------------------------------------------------------------
(* Sending and receiving. *)

\* Mutant: a peer that does not answer ends the telling.
StopsAtFailure(r, reply) ==
  IF reply = NoAnswer THEN Done(r, 1) ELSE NextPeer(r)

\* "ignoring results is okay this time".
Told(r, reply) == NextPeer(r)

\* An answer with providers ends the search; the peers in it become known.
ProvidersFound(r, reply) ==
  IF reply.peers # <<>> THEN Found(r, reply.peers, 1) ELSE NextPeer(r)

ipfs_routing_online_ask_peer_for_peer(r, reply) ==
  IF reply.peers # <<>> THEN Done([r EXCEPT !.peers = <<reply.peers[1]>>], 1)
  ELSE NextPeer(r)

ipfs_routing_online_get_peer_value(r, reply, pass) ==
  IF reply.value # NoKey THEN Done([r EXCEPT !.got = reply.value], 1)
  ELSE [r EXCEPT !.pc = pass, !.i = @ + 1]

\* What the caller does with an answer, or with none.
After(r, reply) ==
  CASE r.op = "ping"                 -> Done(r, IF reply.type = "PING" THEN 1 ELSE 0)
    [] r.op = "provide"              -> Told(r, reply)
    [] r.op = "find_peer"            -> ipfs_routing_online_ask_peer_for_peer(r, reply)
    [] r.pc \in {"first", "first_rcv"}         ->
         ipfs_routing_online_get_peer_value(r, reply, "first")
    [] r.pc \in {"second_ask", "second_rcv"}   ->
         ipfs_routing_online_get_peer_value(r, reply, "second")
    [] OTHER                         -> ProvidersFound(r, reply)

Answered(c, r, p, reply) ==
  LET broken == r.op = "find_peer" /\ reply = NoAnswer
      known == IF r.op \in {"find_providers", "get_value"} /\ r.pc \in {"walk", "walk_rcv"}
               THEN AddProviders(peerstore, reply.peers) ELSE peerstore
      next == [call EXCEPT ![c] = After(r, reply)]
  IN  /\ peerstore' = known
      /\ connected' = IF broken THEN connected \ {p} ELSE connected
      /\ call' = IF broken THEN Unsteady(next, p) ELSE next

\* Which calls are about to send a message, and to whom they may.
Sends(c) ==
  \/ call[c].pc = "dialled" /\ call[c].target \in connected
  \/ /\ call[c].pc = "walk" /\ call[c].op # "ping" /\ call[c].i <= Len(peerstore)
     /\ Asks(c, peerstore[call[c].i])
  \/ /\ call[c].pc = "first" /\ call[c].i <= Len(call[c].peers)
     /\ call[c].peers[call[c].i] \in connected
  \/ call[c].pc = "second_ask"

\* The message is out; the answer is read next.
Awaits(r) == [r EXCEPT !.pc = CASE @ \in {"walk", "dialled"} -> "walk_rcv"
                                [] @ = "first" -> "first_rcv"
                                [] OTHER -> "second_rcv"]

\* libp2p_routing_dht_send_message; a broken connection is found here.
Send(c) ==
  /\ Sends(c)
  /\ LET p == At(c)
         r == [call[c] EXCEPT !.asked = @ \cup {p}]
     IN  IF p \in up
         THEN /\ wire' = [wire EXCEPT ![p] =
                            Append(@, Answer(p, RequestType(c), call[c].key, call[c].target))]
              /\ call' = [call EXCEPT ![c] = Awaits(r)]
              /\ UNCHANGED <<peerstore, connected>>
         ELSE Answered(c, r, p, NoAnswer) /\ UNCHANGED wire
  /\ UNCHANGED <<booted, session, providerstore, up, calls, faults>>

\* libp2p_routing_dht_receive_message: the oldest answer on the session.
Receive(c) ==
  /\ call[c].pc \in {"walk_rcv", "first_rcv", "second_rcv"}
  /\ LET p == At(c)
     IN  IF wire[p] # <<>>
         THEN Answered(c, call[c], p, Head(wire[p])) /\ wire' = [wire EXCEPT ![p] = Tail(@)]
         ELSE Answered(c, call[c], p, NoAnswer) /\ UNCHANGED wire
  /\ UNCHANGED <<booted, session, providerstore, up, calls, faults>>

\* The answer comes later than the read waits for it.
ReceiveTimeout(c) ==
  /\ call[c].pc \in {"walk_rcv", "first_rcv", "second_rcv"} /\ faults < MaxFaults
  /\ faults' = faults + 1
  /\ Answered(c, call[c], At(c), NoAnswer)
  /\ UNCHANGED <<booted, session, providerstore, up, wire, calls>>

-----------------------------------------------------------------------------
\* Mutant: peers without a connection are not dialled.
NoSecondPass(r) == Done(r, 1)

EntersSecondPass(r) == [r EXCEPT !.pc = "second", !.i = 1]

\* A pass goes to the next provider.
NextProvider(r) == [r EXCEPT !.i = @ + 1]

(* get_value: first the local store and the peers with a connection ... *)

FirstPass(c) ==
  /\ call[c].pc = "first"
  /\ LET r == call[c] IN
     \/ /\ r.i > Len(r.peers)
        /\ call' = [call EXCEPT ![c] = EntersSecondPass(r)]
     \/ /\ r.i <= Len(r.peers) /\ r.peers[r.i] = Me
        /\ call' = [call EXCEPT ![c] = IF <<Me, r.key>> \in Holds
                                       THEN Done([r EXCEPT !.got = r.key], 1)
                                       ELSE NextProvider(r)]
     \/ /\ r.i <= Len(r.peers) /\ r.peers[r.i] \notin connected \cup {Me}
        /\ call' = [call EXCEPT ![c] = NextProvider(r)]
  /\ UNCHANGED <<booted, peerstore, connected, session, providerstore, up, wire, calls, faults>>

Refused(r, p) == [r EXCEPT !.refused = @ \cup {p}, !.i = @ + 1]

\* Mutant: the second pass starts again until a provider has the value.
SecondPassAgain(r) == [r EXCEPT !.i = 1]

\* `if (buffer_size == 0)' tests the pointer: the end of the loop is a success.
SecondPassEnds(r) == Done(r, 1)

(* ... then those without.  A peer another thread has connected in between is
   in neither pass. *)
SecondPass(c) ==
  /\ call[c].pc = "second"
  /\ LET r == call[c]
         p == IF r.i <= Len(r.peers) THEN r.peers[r.i] ELSE NoPeer
     IN  \/ /\ p = NoPeer
            /\ call' = [call EXCEPT ![c] = SecondPassEnds(r)]
            /\ UNCHANGED <<connected, session, wire>>
         \/ /\ p \in connected \cup {Me}
            /\ call' = [call EXCEPT ![c] = NextProvider(r)]
            /\ UNCHANGED <<connected, session, wire>>
         \/ /\ p # NoPeer /\ p \notin connected \cup {Me}
            /\ Dial(p)
            /\ call' = IF p \in up
                       THEN [Raced(call, c, p) EXCEPT ![c] = [r EXCEPT !.pc = "second_ask"]]
                       ELSE [call EXCEPT ![c] = Refused(r, p)]
  /\ UNCHANGED <<booted, peerstore, providerstore, up, calls, faults>>

-----------------------------------------------------------------------------
(* The world: a remote fails, and its answers with it; one that was never there
   comes up. *)

RemoteFails(p) ==
  /\ booted >= Len(BootstrapPeers) /\ p \in up /\ faults < MaxFaults
  /\ up' = up \ {p} /\ wire' = [wire EXCEPT ![p] = <<>>] /\ faults' = faults + 1
  /\ UNCHANGED <<booted, peerstore, connected, session, providerstore, call, calls>>

RemoteComes(p) ==
  /\ booted >= Len(BootstrapPeers) /\ p \notin up \cup session /\ faults < MaxFaults
  /\ up' = up \cup {p} /\ faults' = faults + 1
  /\ UNCHANGED <<booted, peerstore, connected, session, providerstore, wire, call, calls>>

Step(c) == \/ ipfs_routing_online_find_providers(c) \/ ipfs_routing_online_find_peer(c)
           \/ WalkOn(c) \/ ipfs_routing_online_ping(c) \/ PingUnsent(c)
           \/ Send(c) \/ Receive(c) \/ FirstPass(c) \/ SecondPass(c)

Next ==
  \/ ipfs_routing_online_bootstrap
  \/ \E c \in Callers : Call(c) \/ Step(c) \/ ReceiveTimeout(c)
  \/ \E p \in Remotes : RemoteFails(p) \/ RemoteComes(p)

Spec == Init /\ [][Next]_vars

\* A thread that is in a call goes on: sends fail and reads have a timeout.
FairSpec == Spec /\ \A c \in Callers : WF_vars(Step(c))

-----------------------------------------------------------------------------

(* get_value comes back with nothing only after every provider it found was
   asked or could not be dialled; the one exception is a provider that another
   thread connected to while the call ran. *)
EveryProviderAsked ==
  \A c \in Callers :
    call[c].op = "get_value" /\ call[c].pc = "done" /\ call[c].got = NoKey =>
      Range(call[c].peers) \cap Remotes \subseteq call[c].asked \cup call[c].refused \cup call[c].raced

(* provide tells every peer that was known and connected from its beginning to
   its end, whichever of the others fail, are dropped or join meanwhile. *)
ProvideTellsConnected ==
  \A c \in Callers :
    call[c].op = "provide" /\ call[c].pc = "done" => call[c].steady \subseteq call[c].asked

(* Every call returns: the peerstore and the connections change under its
   loops, and none of them keeps it going for ever. *)
CallsEnd == \A c \in Callers : ~Idle(c) ~> Idle(c)
=============================================================================
