--------------------------- MODULE RoutingProofs ---------------------------
(***************************************************************************)
(* Proofs about Routing: what get_value and provide promise although the    *)
(* peerstore and the connections change under their loops.                  *)
(*                                                                         *)
(* Both loops are about lists that other threads change, so the invariant   *)
(* says of each call which entries its index has left behind it, in terms   *)
(* of the connections and of the peerstore as they are now.                 *)
(***************************************************************************)
EXTENDS Routing, FiniteSetTheorems, SequenceTheorems, Induction

Types == {"NULL", "PING", "ADD_PROVIDER", "FIND_NODE", "GET_VALUE", "GET_PROVIDERS"}

Replies == [type : Types, key : Keys \cup {NoKey}, peers : Seq(Peers), value : Keys \cup {NoKey}]

Calls == [op : {"none", "find_providers", "get_value", "provide", "find_peer", "ping"},
          key : Keys \cup {NoKey}, target : Remotes \cup {NoPeer},
          pc : {"idle", "done", "find", "walk", "dialled", "walk_rcv", "first", "first_rcv",
                "second", "second_ask", "second_rcv"},
          i : Nat \ {0}, peers : Seq(Peers), ret : {0, 1}, got : Keys \cup {NoKey},
          asked : SUBSET Remotes, refused : SUBSET Remotes, raced : SUBSET Remotes,
          steady : SUBSET Remotes]

\* A provider that get_value need not look at again.
Settled(r, p) == p = Me \/ p \in r.asked \cup r.refused \cup r.raced

\* Which operation is where, and that the entry a call waits at is there.
Shape(r, store) ==
  /\ r.op \in {"find_peer", "ping"} => r.target \in Remotes
  /\ r.op \in {"find_providers", "get_value", "provide"} => r.key \in Keys
  /\ r.pc = "find" => r.op \in {"find_providers", "get_value", "find_peer"}
  /\ r.pc \in {"walk", "walk_rcv"} => r.op # "none"
  /\ r.pc = "dialled" => r.op = "ping"
  /\ r.pc \in {"first", "first_rcv", "second", "second_ask", "second_rcv"} => r.op = "get_value"
  /\ r.pc \in {"find", "walk", "dialled", "walk_rcv"} => r.peers = <<>>
  /\ r.pc = "walk_rcv" /\ r.op # "ping" => r.i <= Len(store) /\ store[r.i] \in Remotes
  /\ r.pc \in {"first_rcv", "second_ask", "second_rcv"} =>
       r.i <= Len(r.peers) /\ r.peers[r.i] \in Remotes

(* The first pass leaves behind it peers that are settled or not connected, the
   second one only such that are settled. *)
Passes(r, conn) ==
  /\ r.pc \in {"first", "first_rcv"} =>
       \A j \in 1 .. Len(r.peers) : j < r.i => Settled(r, r.peers[j]) \/ r.peers[j] \notin conn
  /\ r.pc \in {"second", "second_ask", "second_rcv"} =>
       \A j \in 1 .. Len(r.peers) :
         \/ Settled(r, r.peers[j])
         \/ j >= r.i /\ r.peers[j] \notin conn
         \/ r.pc # "second" /\ r.peers[j] = r.peers[r.i]
  /\ r.pc \in {"first_rcv", "second_rcv"} => r.peers[r.i] \in r.asked
  /\ r.op = "get_value" /\ r.pc = "done" /\ r.got = NoKey =>
       \A j \in 1 .. Len(r.peers) : Settled(r, r.peers[j])

\* p is in the list at n or later.
From(store, n, p) == \E j \in 1 .. Len(store) : j >= n /\ store[j] = p

\* A peer that has to be told has been told or is still in front of provide.
Tells(r, store) ==
  r.op = "provide" =>
    /\ r.pc = "walk" => \A p \in r.steady : p \in r.asked \/ From(store, r.i, p)
    /\ r.pc = "walk_rcv" => \A p \in r.steady : p \in r.asked \/ From(store, r.i + 1, p)
    /\ r.pc = "done" => r.steady \subseteq r.asked

CallInv(r, conn, store) ==
  /\ r \in Calls /\ r.steady \subseteq conn
  /\ Shape(r, store) /\ Passes(r, conn) /\ Tells(r, store)

FirstRound == booted < Len(BootstrapPeers)

State ==
  /\ booted \in Nat
  /\ peerstore \in Seq(Peers)
  /\ connected \subseteq Remotes /\ up \subseteq Remotes
  /\ providerstore \in [Keys -> Peers \cup {NoPeer}]
  /\ wire \in [Remotes -> Seq(Replies)]
  /\ call \in [Callers -> Calls]
  /\ FirstRound => \A c \in Callers : Idle(c)

IInv == State /\ \A c \in Callers : CallInv(call[c], connected, peerstore)

-----------------------------------------------------------------------------
(* The shared state changes under a call. *)

Extends(list, more) ==
  /\ list \in Seq(Peers) /\ more \in Seq(Peers) /\ Len(list) <= Len(more)
  /\ \A j \in 1 .. Len(list) : more[j] = list[j]

(* A peerstore that gets longer disturbs no call. *)
LEMMA StoreGrows ==
  ASSUME NEW r, NEW conn, NEW store, NEW more, CallInv(r, conn, store), Extends(store, more)
  PROVE  CallInv(r, conn, more)
<1>1. r \in Calls /\ r.i \in Nat \ {0}
  BY DEF CallInv, Calls
<1>2. Shape(r, more)
  BY <1>1 DEF CallInv, Shape, Extends
<1>3. ASSUME NEW n \in Nat, NEW p, From(store, n, p) PROVE From(more, n, p)
  BY <1>3 DEF From, Extends
<1>4. Tells(r, more)
  BY <1>1, <1>3 DEF CallInv, Tells
<1> QED
  BY <1>2, <1>4 DEF CallInv

(* A peer whose connection is given up is not steady any more. *)
LEMMA PeerLost ==
  ASSUME NEW r, NEW conn, NEW store, NEW p, CallInv(r, conn, store)
  PROVE  CallInv([r EXCEPT !.steady = @ \ {p}], conn \ {p}, store)
<1> DEFINE s == [r EXCEPT !.steady = @ \ {p}]
<1>1. r \in Calls
  BY DEF CallInv
<1>2. /\ s \in Calls /\ s.steady = r.steady \ {p} /\ s.op = r.op /\ s.key = r.key
      /\ s.target = r.target /\ s.pc = r.pc /\ s.i = r.i /\ s.peers = r.peers /\ s.got = r.got
      /\ s.asked = r.asked /\ s.refused = r.refused /\ s.raced = r.raced
  BY <1>1 DEF Calls
<1> HIDE DEF s
<1>3. s.steady \subseteq conn \ {p}
  BY <1>2 DEF CallInv
<1>4. Shape(s, store)
  BY <1>2 DEF CallInv, Shape
<1>5. Passes(s, conn \ {p})
  BY <1>2 DEF CallInv, Passes, Settled
<1>6. Tells(s, store)
  BY <1>2 DEF CallInv, Tells
<1> QED
  BY <1>2, <1>3, <1>4, <1>5, <1>6 DEF CallInv, s

(* A peer that another thread connects to is a race for the calls that run. *)
LEMMA PeerGained ==
  ASSUME NEW r, NEW conn, NEW store, NEW p \in Remotes, CallInv(r, conn, store)
  PROVE  CallInv([r EXCEPT !.raced = @ \cup {p}], conn \cup {p}, store)
<1> DEFINE s == [r EXCEPT !.raced = @ \cup {p}]
<1>1. r \in Calls
  BY DEF CallInv
<1>2. /\ s \in Calls /\ s.steady = r.steady /\ s.op = r.op /\ s.key = r.key
      /\ s.target = r.target /\ s.pc = r.pc /\ s.i = r.i /\ s.peers = r.peers /\ s.got = r.got
      /\ s.asked = r.asked /\ s.refused = r.refused /\ s.raced = r.raced \cup {p}
  BY <1>1 DEF Calls
<1> HIDE DEF s
<1>3. s.steady \subseteq conn \cup {p}
  BY <1>2 DEF CallInv
<1>4. Shape(s, store)
  BY <1>2 DEF CallInv, Shape
<1>5. Passes(s, conn \cup {p})
  BY <1>2 DEF CallInv, Passes, Settled
<1>6. Tells(s, store)
  BY <1>2 DEF CallInv, Tells
<1> QED
  BY <1>2, <1>3, <1>4, <1>5, <1>6 DEF CallInv, s

(* A call that does not run does not mind. *)
LEMMA IdleGains ==
  ASSUME NEW r, NEW conn, NEW store, NEW p, CallInv(r, conn, store), r.pc \in {"idle", "done"}
  PROVE  CallInv(r, conn \cup {p}, store)
BY DEF CallInv, Passes

(* So every call bears a connection that another thread makes. *)
LEMMA MetKeeps ==
  ASSUME NEW r, NEW conn, NEW store, NEW p \in Remotes, CallInv(r, conn, store)
  PROVE  CallInv(Met(r, p), conn \cup {p}, store)
<1>1. CASE r.pc \in {"idle", "done"}
  BY <1>1, IdleGains DEF Met
<1>2. CASE r.pc \notin {"idle", "done"}
  BY <1>2, PeerGained DEF Met
<1> QED BY <1>1, <1>2

(* A call that sends a message to a peer keeps what it knows. *)
LEMMA PeerAsked ==
  ASSUME NEW r, NEW conn, NEW store, NEW p \in Remotes, CallInv(r, conn, store)
  PROVE  CallInv([r EXCEPT !.asked = @ \cup {p}], conn, store)
<1> DEFINE s == [r EXCEPT !.asked = @ \cup {p}]
<1>1. r \in Calls
  BY DEF CallInv
<1>2. /\ s \in Calls /\ s.steady = r.steady /\ s.op = r.op /\ s.key = r.key
      /\ s.target = r.target /\ s.pc = r.pc /\ s.i = r.i /\ s.peers = r.peers /\ s.got = r.got
      /\ s.asked = r.asked \cup {p} /\ s.refused = r.refused /\ s.raced = r.raced
  BY <1>1 DEF Calls
<1> HIDE DEF s
<1>4. Shape(s, store)
  BY <1>2 DEF CallInv, Shape
<1>5. Passes(s, conn)
  BY <1>2 DEF CallInv, Passes, Settled
<1>6. Tells(s, store)
  BY <1>2 DEF CallInv, Tells
<1> QED
  BY <1>2, <1>4, <1>5, <1>6 DEF CallInv, s

-----------------------------------------------------------------------------
(* The list of peers and the answers. *)

(* Adding a peer leaves the peers of the list where they are. *)
LEMMA AddPeerExtends ==
  ASSUME NEW list \in Seq(Peers), NEW p \in Peers
  PROVE  Extends(list, libp2p_peerstore_add_peer(list, p))
BY DEF Extends, libp2p_peerstore_add_peer

(* Adding the peers of an answer leaves the peers of the list where they are.
   AddProviders is defined by recursion over the answer, so that there is such
   a function is the first thing to show. *)
LEMMA AddProvidersExtends ==
  ASSUME NEW list \in Seq(Peers), NEW peers \in Seq(Peers)
  PROVE  Extends(list, AddProviders(list, peers))
<1> DEFINE Body(f, n) == IF n = 0 THEN list ELSE libp2p_peerstore_add_peer(f[n - 1], peers[n])
           Is(f, m) == f = [n \in 0 .. m |-> Body(f, n)]
           undefined == {m \in Nat : ~\E f : Is(f, m)}
           added[n \in 0 .. Len(peers)] ==
             IF n = 0 THEN list ELSE libp2p_peerstore_add_peer(added[n - 1], peers[n])
<1>1. ASSUME undefined # {} PROVE FALSE
  <2>1. PICK m \in undefined : \A k \in undefined : m <= k
    <3> HIDE DEF undefined
    <3>1. undefined \subseteq Nat
      BY DEF undefined
    <3> QED BY <1>1, <3>1, SmallestNumber
  <2>2. m # 0
    <3> DEFINE f0 == [n \in 0 .. 0 |-> list]
    <3>1. Is(f0, 0)
      OBVIOUS
    <3> QED BY <3>1
  <2>3. m - 1 \in Nat
    BY <2>2
  <2>4. m - 1 \notin undefined
    <3> HIDE DEF undefined
    <3>1. undefined \subseteq Nat
      BY DEF undefined
    <3> QED BY <2>1, <3>1
  <2>5. PICK f : Is(f, m - 1)
    BY <2>3, <2>4
  <2> DEFINE g == [n \in 0 .. m |-> IF n = m THEN libp2p_peerstore_add_peer(f[m - 1], peers[m])
                                    ELSE f[n]]
  <2>6. ASSUME NEW n \in 0 .. m PROVE g[n] = Body(g, n)
    <3>1. CASE n = m
      BY <2>2, <3>1
    <3>2. CASE n # m
      <4>1. n \in 0 .. (m - 1)
        BY <3>2
      <4>2. f[n] = Body(f, n)
        BY <2>5, <4>1
      <4>3. g[n] = f[n] /\ (n # 0 => g[n - 1] = f[n - 1])
        BY <3>2, <4>1
      <4> QED BY <4>2, <4>3
    <3> QED BY <3>1, <3>2
  <2>7. Is(g, m)
    <3> HIDE DEF g
    <3>1. g = [n \in 0 .. m |-> g[n]]
      BY DEF g
    <3> QED BY <2>6, <3>1
  <2> HIDE DEF Is, g
  <2>8. \E h : Is(h, m)
    BY <2>7
  <2> QED BY <2>8
<1>2. \E f : Is(f, Len(peers))
  <2>1. Len(peers) \in Nat /\ Len(peers) \notin undefined
    <3> HIDE DEF undefined
    <3> QED BY <1>1
  <2> HIDE DEF Is
  <2> QED BY <2>1
<1>3. added = [n \in 0 .. Len(peers) |-> Body(added, n)]
  BY <1>2
<1>4. AddProviders(list, peers) = added[Len(peers)]
  BY DEF AddProviders
<1> HIDE DEF added
<1>5. \A n \in 0 .. Len(peers) : added[n] = Body(added, n)
  BY <1>3
<1> DEFINE wrong == {n \in 0 .. Len(peers) : ~Extends(list, added[n])}
<1>6. ASSUME wrong # {} PROVE FALSE
  <2>1. PICK n \in wrong : \A k \in wrong : n <= k
    <3> HIDE DEF wrong
    <3>1. wrong \subseteq Nat
      BY DEF wrong
    <3> QED BY <1>6, <3>1, SmallestNumber
  <2>2. n # 0
    BY <1>5 DEF Extends
  <2>3. n - 1 \in 0 .. Len(peers)
    BY <2>2
  <2>4. Extends(list, added[n - 1])
    <3> HIDE DEF wrong
    <3>1. n \in Nat
      BY DEF wrong
    <3>2. n - 1 \notin wrong
      BY <2>1, <3>1
    <3> QED BY <2>3, <3>2 DEF wrong
  <2>5. n \in 1 .. Len(peers) /\ peers[n] \in Peers
    BY <2>2
  <2>6. added[n] = libp2p_peerstore_add_peer(added[n - 1], peers[n])
    BY <1>5, <2>2
  <2>7. Extends(added[n - 1], added[n])
    <3>1. added[n - 1] \in Seq(Peers)
      BY <2>4 DEF Extends
    <3> QED BY <2>5, <2>6, <3>1, AddPeerExtends
  <2>8. Extends(list, added[n])
    BY <2>4, <2>7 DEF Extends
  <2> QED BY <2>8
<1>7. Len(peers) \in 0 .. Len(peers)
  OBVIOUS
<1> QED
  BY <1>4, <1>6, <1>7

(* The elements of a finite set, in some order, are a sequence over it. *)
LEMMA SetToSeqOf ==
  ASSUME NEW S, S \subseteq Peers
  PROVE  SetToSeq(S) \in Seq(Peers)
<1>1. IsFiniteSet(Peers)
  BY NodesAssumption, FS_AddElement DEF Peers
<1>2. IsFiniteSet(S)
  BY <1>1, FS_Subset
<1>3. Cardinality(S) \in Nat /\ \E f : f \in Bijection(1 .. Cardinality(S), S)
  BY <1>2, FS_CardinalityType DEF ExistsBijection
<1>4. PICK f : f \in Bijection(1 .. Cardinality(S), S)
  BY <1>3
<1>5. f \in [1 .. Cardinality(S) -> S] /\ IsInjective(f)
  BY <1>4 DEF Bijection, Injection, IsInjective
<1>6. SetToSeq(S) \in [1 .. Cardinality(S) -> S]
  BY <1>5 DEF SetToSeq
<1> QED
  BY <1>3, <1>6

(* Whatever a remote is asked, its answer is one a caller can read. *)
LEMMA AnswerType ==
  ASSUME NEW p, NEW type \in Types, NEW key \in Keys \cup {NoKey}, NEW target,
         type = "FIND_NODE" => target \in Remotes
  PROVE  Answer(p, type, key, target) \in Replies
<1> DEFINE told == {q \in Peers : [node |-> p, key |-> key, peer |-> q] \in Announced}
<1>1. SetToSeq(told) \in Seq(Peers)
  BY SetToSeqOf
<1> HIDE DEF told
<1>2. target \in Remotes => <<target>> \in Seq(Peers)
  BY DEF Peers
<1>3. <<>> \in Seq(Peers)
  OBVIOUS
<1>4. Answer(p, type, key, target).peers \in Seq(Peers)
  BY <1>1, <1>2, <1>3 DEF Answer, told
<1>5. Answer(p, type, key, target).value \in Keys \cup {NoKey}
  BY DEF Answer
<1> QED
  BY <1>4, <1>5 DEF Answer, Replies

(* So is no answer. *)
LEMMA NoAnswerType == NoAnswer \in Replies /\ NoAnswer.value = NoKey /\ NoAnswer.peers = <<>>
<1>1. "NULL" \in Types /\ <<>> \in Seq(Peers)
  BY DEF Types
<1> QED
  BY <1>1 DEF NoAnswer, Replies

-----------------------------------------------------------------------------
(* One call. *)

(* A call that has sent its message: whom it is at has been asked, and provide
   need not come back to that entry. *)
Waiting(r, store) ==
  /\ r.pc \in {"walk", "dialled", "walk_rcv", "first", "first_rcv", "second_ask", "second_rcv"}
  /\ r.pc \in {"first", "first_rcv", "second_ask", "second_rcv"} =>
       r.i <= Len(r.peers) /\ r.peers[r.i] \in r.asked
  /\ r.op = "provide" => \A p \in r.steady : p \in r.asked \/ From(store, r.i + 1, p)

(* A search that has its providers, or none. *)
LEMMA FoundKeeps ==
  ASSUME NEW r, NEW conn, NEW store, CallInv(r, conn, store), r.pc \in {"find", "walk", "walk_rcv"},
         r.op \in {"find_providers", "get_value"}, NEW peers \in Seq(Peers), NEW ret \in {0, 1}
  PROVE  CallInv(Found(r, peers, ret), conn, store)
<1> DEFINE s == Found(r, peers, ret)
<1>0. r \in Calls /\ r.peers = <<>>
  BY DEF CallInv, Shape
<1>1. CASE r.op = "get_value" /\ peers # <<>>
  <2>1. s = [r EXCEPT !.pc = "first", !.i = 1, !.peers = peers]
    BY <1>1 DEF Found
  <2> HIDE DEF s
  <2>2. /\ s \in Calls /\ s.pc = "first" /\ s.i = 1 /\ s.op = r.op /\ s.steady = r.steady
        /\ s.key = r.key
    <3>1. 1 \in Nat \ {0}
      OBVIOUS
    <3> QED BY <1>0, <2>1, <3>1 DEF Calls
  <2>3. Shape(s, store) /\ Passes(s, conn) /\ Tells(s, store)
    BY <1>1, <2>2 DEF Shape, Passes, Tells, CallInv, Calls
  <2> QED BY <2>2, <2>3 DEF CallInv, s
<1>2. CASE r.op = "get_value" /\ peers = <<>>
  <2>1. s = [r EXCEPT !.pc = "done", !.ret = 0]
    BY <1>2 DEF Found, Done
  <2> HIDE DEF s
  <2>2. /\ s \in Calls /\ s.pc = "done" /\ s.op = r.op /\ s.steady = r.steady /\ s.key = r.key
        /\ s.peers = <<>>
    BY <1>0, <2>1 DEF Calls
  <2>3. Shape(s, store) /\ Passes(s, conn) /\ Tells(s, store)
    BY <1>2, <2>2 DEF Shape, Passes, Tells, CallInv
  <2> QED BY <2>2, <2>3 DEF CallInv, s
<1>3. CASE r.op = "find_providers"
  <2>1. s = [[r EXCEPT !.peers = peers] EXCEPT !.pc = "done", !.ret = ret]
    BY <1>3 DEF Found, Done
  <2> HIDE DEF s
  <2>2. /\ s \in Calls /\ s.pc = "done" /\ s.op = r.op /\ s.steady = r.steady /\ s.key = r.key
    BY <1>0, <2>1 DEF Calls
  <2>3. Shape(s, store) /\ Passes(s, conn) /\ Tells(s, store)
    BY <1>3, <2>2 DEF Shape, Passes, Tells, CallInv
  <2> QED BY <2>2, <2>3 DEF CallInv, s
<1> QED
  BY <1>1, <1>2, <1>3

(* An operation without a list of providers to work off ends. *)
LEMMA DoneKeeps ==
  ASSUME NEW r, NEW conn, NEW store, CallInv(r, conn, store), r.op # "get_value",
         r.op = "provide" => r.steady \subseteq r.asked,
         NEW peers \in Seq(Peers), NEW ret \in {0, 1}
  PROVE  /\ CallInv(Done(r, ret), conn, store)
         /\ CallInv(Done([r EXCEPT !.peers = peers], ret), conn, store)
<1> DEFINE s == Done(r, ret)
           t == Done([r EXCEPT !.peers = peers], ret)
<1>1. r \in Calls
  BY DEF CallInv
<1>2. /\ s \in Calls /\ s.pc = "done" /\ s.op = r.op /\ s.steady = r.steady /\ s.key = r.key
      /\ s.target = r.target /\ s.asked = r.asked
  BY <1>1 DEF Calls, Done
<1>3. /\ t \in Calls /\ t.pc = "done" /\ t.op = r.op /\ t.steady = r.steady /\ t.key = r.key
      /\ t.target = r.target /\ t.asked = r.asked
  BY <1>1 DEF Calls, Done
<1> HIDE DEF s, t
<1>4. Shape(s, store) /\ Passes(s, conn) /\ Tells(s, store)
  BY <1>2 DEF Shape, Passes, Tells, CallInv
<1>5. Shape(t, store) /\ Passes(t, conn) /\ Tells(t, store)
  BY <1>3 DEF Shape, Passes, Tells, CallInv
<1> QED
  BY <1>2, <1>3, <1>4, <1>5 DEF CallInv, s, t

(* The loop over the peerstore goes to the next entry. *)
LEMMA WalkKeeps ==
  ASSUME NEW r, NEW conn, NEW store, CallInv(r, conn, store), r.pc \in {"find", "walk", "walk_rcv"},
         r.op # "none",
         r.op = "provide" => \A p \in r.steady : p \in r.asked \/ From(store, r.i + 1, p)
  PROVE  CallInv(NextPeer(r), conn, store)
<1> DEFINE s == NextPeer(r)
<1>1. r \in Calls
  BY DEF CallInv
<1>2. /\ s \in Calls /\ s.pc = "walk" /\ s.op = r.op /\ s.steady = r.steady /\ s.key = r.key
      /\ s.target = r.target /\ s.asked = r.asked /\ s.i = r.i + 1 /\ s.peers = r.peers
  <2>1. r.i + 1 \in Nat \ {0}
    BY <1>1 DEF Calls
  <2> QED BY <1>1, <2>1 DEF Calls, NextPeer
<1> HIDE DEF s
<1>3. Shape(s, store) /\ Passes(s, conn) /\ Tells(s, store)
  BY <1>2 DEF Shape, Passes, Tells, CallInv
<1> QED
  BY <1>2, <1>3 DEF CallInv, s

(* get_value has the value, or goes on in its pass with one more provider
   settled. *)
LEMMA ValueKeeps ==
  ASSUME NEW r, NEW conn, NEW store, CallInv(r, conn, store), Waiting(r, store),
         NEW reply \in Replies, NEW pass,
         \/ r.pc \in {"first", "first_rcv"} /\ pass = "first"
         \/ r.pc \in {"second_ask", "second_rcv"} /\ pass = "second"
  PROVE  CallInv(ipfs_routing_online_get_peer_value(r, reply, pass), conn, store)
<1>0. r \in Calls /\ reply.value \in Keys \cup {NoKey} /\ r.op = "get_value"
  BY DEF CallInv, Replies, Shape
<1>1. CASE reply.value # NoKey
  <2> DEFINE s == Done([r EXCEPT !.got = reply.value], 1)
  <2>1. /\ s \in Calls /\ s.pc = "done" /\ s.op = r.op /\ s.steady = r.steady /\ s.key = r.key
        /\ s.got # NoKey
    BY <1>0, <1>1 DEF Calls, Done
  <2> HIDE DEF s
  <2>2. Shape(s, store) /\ Passes(s, conn) /\ Tells(s, store)
    BY <1>0, <2>1 DEF Shape, Passes, Tells, CallInv
  <2>3. CallInv(s, conn, store)
    BY <2>1, <2>2 DEF CallInv
  <2> QED
    BY <1>1, <2>3 DEF s, ipfs_routing_online_get_peer_value
<1>2. CASE reply.value = NoKey
  <2> DEFINE s == [r EXCEPT !.pc = pass, !.i = @ + 1]
  <2>1. /\ s \in Calls /\ s.pc = pass /\ s.op = r.op /\ s.steady = r.steady /\ s.key = r.key
        /\ s.target = r.target /\ s.asked = r.asked /\ s.refused = r.refused /\ s.raced = r.raced
        /\ s.i = r.i + 1 /\ s.peers = r.peers
    <3>1. r.i + 1 \in Nat \ {0}
      BY <1>0 DEF Calls
    <3> QED BY <1>0, <3>1 DEF Calls
  <2> HIDE DEF s
  <2>2. Shape(s, store) /\ Tells(s, store)
    BY <1>0, <2>1 DEF Shape, Tells, CallInv
  <2>3. r.i \in Nat \ {0} /\ r.i <= Len(r.peers) /\ r.peers[r.i] \in r.asked /\ r.peers \in Seq(Peers)
    BY <1>0 DEF Waiting, Calls
  <2>4. ASSUME pass = "first" PROVE Passes(s, conn)
    <3>1. \A j \in 1 .. Len(r.peers) : j < r.i => Settled(r, r.peers[j]) \/ r.peers[j] \notin conn
      BY <2>4 DEF CallInv, Passes
    <3>2. \A j \in 1 .. Len(r.peers) : j < r.i + 1 => Settled(r, r.peers[j]) \/ r.peers[j] \notin conn
      BY <2>3, <3>1 DEF Settled
    <3> QED BY <1>0, <2>1, <2>4, <3>2 DEF Passes, Settled
  <2>5. ASSUME pass = "second" PROVE Passes(s, conn)
    <3>1. \A j \in 1 .. Len(r.peers) :
            \/ Settled(r, r.peers[j])
            \/ j >= r.i /\ r.peers[j] \notin conn
            \/ r.peers[j] = r.peers[r.i]
      BY <2>5 DEF CallInv, Passes
    <3>2. \A j \in 1 .. Len(r.peers) :
            Settled(r, r.peers[j]) \/ (j >= r.i + 1 /\ r.peers[j] \notin conn)
      BY <2>3, <3>1 DEF Settled
    <3> QED BY <1>0, <2>1, <2>5, <3>2 DEF Passes, Settled
  <2>6. CallInv(s, conn, store)
    BY <2>1, <2>2, <2>4, <2>5 DEF CallInv
  <2> QED
    BY <1>2, <2>6 DEF s, ipfs_routing_online_get_peer_value
<1> QED
  BY <1>0, <1>1, <1>2

(* Whatever the caller gets for its message, or nothing, it goes on properly. *)
LEMMA AfterKeeps ==
  ASSUME NEW r, NEW conn, NEW store, CallInv(r, conn, store), Waiting(r, store), NEW reply \in Replies
  PROVE  CallInv(After(r, reply), conn, store)
<1>0. /\ r \in Calls /\ reply.peers \in Seq(Peers) /\ r.i \in Nat \ {0}
      /\ r.op # "none" /\ r.op \in {"none", "find_providers", "get_value", "provide", "find_peer", "ping"}
  BY DEF CallInv, Replies, Calls, Shape, Waiting
<1>1. CASE r.op = "ping"
  <2>1. CallInv(Done(r, 0), conn, store) /\ CallInv(Done(r, 1), conn, store)
    BY <1>0, <1>1, DoneKeeps
  <2>2. r.pc \in {"walk", "dialled", "walk_rcv"}
    BY <1>1 DEF Waiting, CallInv, Shape
  <2> QED
    BY <1>1, <2>1, <2>2 DEF After
<1>2. CASE r.op = "provide"
  <2>1. r.pc \in {"walk", "walk_rcv"}
    BY <1>2 DEF Waiting, CallInv, Shape
  <2> QED
    BY <1>2, <2>1, WalkKeeps DEF After, Told, Waiting
<1>3. CASE r.op = "find_peer"
  <2>1. r.pc \in {"walk", "walk_rcv"}
    BY <1>3 DEF Waiting, CallInv, Shape
  <2>2. CASE reply.peers # <<>>
    <3>1. <<reply.peers[1]>> \in Seq(Peers)
      BY <1>0, <2>2
    <3>2. CallInv(Done([r EXCEPT !.peers = <<reply.peers[1]>>], 1), conn, store)
      BY <1>3, <3>1, DoneKeeps
    <3> QED BY <1>3, <2>1, <2>2, <3>2 DEF After, ipfs_routing_online_ask_peer_for_peer
  <2>3. CASE reply.peers = <<>>
    BY <1>3, <2>1, <2>3, WalkKeeps DEF After, ipfs_routing_online_ask_peer_for_peer
  <2> QED BY <2>2, <2>3
<1>4. CASE r.op = "get_value" /\ r.pc \in {"first", "first_rcv"}
  BY <1>4, ValueKeeps DEF After
<1>5. CASE r.op = "get_value" /\ r.pc \in {"second_ask", "second_rcv"}
  BY <1>5, ValueKeeps DEF After
<1>6. CASE r.op \in {"find_providers", "get_value"} /\ r.pc \in {"walk", "walk_rcv"}
  <2>1. After(r, reply) = ProvidersFound(r, reply)
    BY <1>6 DEF After
  <2>2. CASE reply.peers # <<>>
    <3>1. CallInv(Found(r, reply.peers, 1), conn, store)
      BY <1>0, <1>6, FoundKeeps
    <3> QED BY <2>1, <2>2, <3>1 DEF ProvidersFound
  <2>3. CASE reply.peers = <<>>
    <3>1. CallInv(NextPeer(r), conn, store)
      BY <1>6, WalkKeeps
    <3> QED BY <2>1, <2>3, <3>1 DEF ProvidersFound
  <2> QED BY <2>2, <2>3
<1>7. /\ r.op = "find_providers" => r.pc \in {"walk", "walk_rcv"}
      /\ r.pc = "dialled" => r.op = "ping"
  BY DEF CallInv, Shape, Waiting
<1> QED
  BY <1>0, <1>1, <1>2, <1>3, <1>4, <1>5, <1>6, <1>7 DEF Waiting

-----------------------------------------------------------------------------
(* The whole state. *)

(* A call that runs began after the first round of the bootstrap. *)
LEMMA RunsBooted ==
  ASSUME IInv, NEW c \in Callers, ~Idle(c)
  PROVE  ~FirstRound
  BY DEF IInv, State

(* A step of one call that leaves the peers alone. *)
LEMMA OwnStep ==
  ASSUME IInv, NEW c \in Callers, NEW s, CallInv(s, connected, peerstore),
         call' = [call EXCEPT ![c] = s], ~FirstRound,
         wire' \in [Remotes -> Seq(Replies)],
         UNCHANGED <<booted, peerstore, connected, up, providerstore>>
  PROVE  IInv'
<1>1. s \in Calls
  BY DEF CallInv
<1>2. call' \in [Callers -> Calls]
  BY <1>1 DEF IInv, State
<1>3. State'
  BY <1>2, SMT DEF IInv, State, FirstRound
<1>4. \A d \in Callers : call'[d] = IF d = c THEN s ELSE call[d]
  BY DEF IInv, State
<1>5. \A d \in Callers : CallInv(call'[d], connected', peerstore')
  BY <1>4 DEF IInv
<1> QED
  BY <1>3, <1>5 DEF IInv

(* A call dials a peer that answers. *)
LEMMA DialStep ==
  ASSUME IInv, NEW c \in Callers, NEW p \in Remotes, NEW s, p \in up,
         CallInv(s, connected \cup {p}, peerstore),
         call' = [Raced(call, c, p) EXCEPT ![c] = s], ~FirstRound,
         Dial(p), UNCHANGED <<booted, peerstore, up, providerstore>>
  PROVE  IInv'
<1>1. s \in Calls
  BY DEF CallInv
<1>2. connected' = connected \cup {p} /\ wire' \in [Remotes -> Seq(Replies)]
  <2>1. <<>> \in Seq(Replies)
    OBVIOUS
  <2> QED BY <2>1 DEF Dial, IInv, State
<1>3. \A d \in Callers : call'[d] = IF d = c THEN s ELSE Met(call[d], p)
  BY DEF Raced
<1>4. ASSUME NEW d \in Callers PROVE CallInv(call'[d], connected', peerstore')
  <2>1. CallInv(Met(call[d], p), connected \cup {p}, peerstore)
    BY MetKeeps DEF IInv
  <2> QED BY <1>2, <1>3, <2>1
<1>5. call' \in [Callers -> Calls]
  <2>1. \A d \in Callers : call'[d] \in Calls
    BY <1>4 DEF CallInv
  <2>2. call' = [d \in Callers |-> call'[d]]
    BY DEF Raced
  <2> QED BY <2>1, <2>2
<1>6. State'
  BY <1>2, <1>5, SMT DEF IInv, State, FirstRound
<1> QED
  BY <1>4, <1>6 DEF IInv

(* A call gets an answer, or finds that there is none. *)
LEMMA AnsweredStep ==
  ASSUME IInv, NEW c \in Callers, NEW r, NEW p \in Remotes, NEW reply \in Replies,
         CallInv(r, connected, peerstore), Waiting(r, peerstore), Answered(c, r, p, reply),
         ~FirstRound, wire' \in [Remotes -> Seq(Replies)],
         UNCHANGED <<booted, up, providerstore>>
  PROVE  IInv'
<1> DEFINE s == After(r, reply)
           broken == r.op = "find_peer" /\ reply = NoAnswer
<1>0. peerstore \in Seq(Peers) /\ reply.peers \in Seq(Peers) /\ connected \subseteq Remotes
  BY DEF IInv, State, Replies
<1>1. Extends(peerstore, peerstore')
  <2>1. Extends(peerstore, AddProviders(peerstore, reply.peers))
    BY <1>0, AddProvidersExtends
  <2>2. Extends(peerstore, peerstore)
    BY <1>0 DEF Extends
  <2> QED BY <2>1, <2>2 DEF Answered
<1>2. CallInv(s, connected, peerstore)
  BY AfterKeeps
<1> HIDE DEF s
<1>3. \A d \in Callers : CallInv(IF d = c THEN s ELSE call[d], connected, peerstore')
  BY <1>1, <1>2, StoreGrows DEF IInv
<1>4. /\ connected' = IF broken THEN connected \ {p} ELSE connected
      /\ \A d \in Callers :
           call'[d] = IF broken THEN [(IF d = c THEN s ELSE call[d]) EXCEPT !.steady = @ \ {p}]
                      ELSE IF d = c THEN s ELSE call[d]
      /\ call' = [d \in Callers |-> call'[d]]
  BY DEF Answered, Unsteady, s, IInv, State
<1>5. ASSUME NEW d \in Callers PROVE CallInv(call'[d], connected', peerstore')
  <2> DEFINE t == IF d = c THEN s ELSE call[d]
  <2>1. CallInv(t, connected, peerstore')
    BY <1>3
  <2>2. call'[d] = IF broken THEN [t EXCEPT !.steady = @ \ {p}] ELSE t
    BY <1>4
  <2> HIDE DEF t, broken
  <2>3. CallInv([t EXCEPT !.steady = @ \ {p}], connected \ {p}, peerstore')
    BY <2>1, PeerLost
  <2> QED BY <1>4, <2>1, <2>2, <2>3
<1>6. call' \in [Callers -> Calls]
  BY <1>4, <1>5 DEF CallInv
<1>7. connected' \subseteq Remotes /\ peerstore' \in Seq(Peers)
  BY <1>0, <1>1, <1>4 DEF Extends
<1>8. State'
  BY <1>6, <1>7, SMT DEF IInv, State, FirstRound
<1> QED
  BY <1>5, <1>8 DEF IInv

(* A call that reads an answer knows from whom. *)
LEMMA ReceivesFrom ==
  ASSUME IInv, NEW c \in Callers, call[c].pc \in {"walk_rcv", "first_rcv", "second_rcv"}
  PROVE  At(c) \in Remotes /\ Waiting(call[c], peerstore) /\ ~FirstRound
<1>1. CallInv(call[c], connected, peerstore) /\ call[c] \in Calls
  BY DEF IInv, State
<1>2. call[c].op = "ping" => call[c].target \in Remotes /\ call[c].pc = "walk_rcv"
  BY <1>1 DEF CallInv, Shape
<1>3. At(c) \in Remotes
  BY <1>1, <1>2 DEF At, CallInv, Shape
<1>4. Waiting(call[c], peerstore)
  BY <1>1 DEF Waiting, CallInv, Shape, Passes, Tells
<1> QED
  BY <1>3, <1>4, RunsBooted DEF Idle

(* A call that sends a message knows to whom, and has then asked that peer. *)
LEMMA SendsTo ==
  ASSUME IInv, NEW c \in Callers, Sends(c), NEW r, r = [call[c] EXCEPT !.asked = @ \cup {At(c)}]
  PROVE  /\ At(c) \in Remotes /\ ~FirstRound
         /\ CallInv(r, connected, peerstore) /\ Waiting(r, peerstore)
         /\ r.pc \in {"walk", "dialled", "first", "second_ask"} /\ r.pc = call[c].pc /\ r.op = call[c].op
<1>1. /\ CallInv(call[c], connected, peerstore) /\ call[c] \in Calls
      /\ peerstore \in Seq(Peers) /\ connected \subseteq Remotes
  BY DEF IInv, State
<1>2. call[c].pc \in {"walk", "dialled", "first", "second_ask"}
  BY DEF Sends
<1>3. /\ call[c].op = "ping" => call[c].pc = "dialled" /\ call[c].target \in Remotes
      /\ call[c].pc = "dialled" => call[c].op = "ping"
      /\ call[c].pc \in {"first", "second_ask"} => call[c].op = "get_value"
  BY <1>1, <1>2 DEF CallInv, Shape, Sends
<1>4. CASE call[c].op = "ping"
  <2>1. At(c) \in Remotes
    BY <1>3, <1>4 DEF At
  <2>2. CallInv(r, connected, peerstore)
    BY <1>1, <2>1, PeerAsked
  <2>3. r.pc = call[c].pc /\ r.op = call[c].op
    BY <1>1 DEF Calls
  <2>4. Waiting(r, peerstore)
    BY <1>3, <1>4, <2>3 DEF Waiting
  <2> QED BY <1>2, <2>1, <2>2, <2>3, <2>4, RunsBooted DEF Idle
<1>5. CASE call[c].op # "ping" /\ call[c].pc = "walk"
  <2>1. At(c) = peerstore[call[c].i] /\ call[c].i <= Len(peerstore) /\ Asks(c, peerstore[call[c].i])
    BY <1>5 DEF At, Sends
  <2>2. At(c) \in Remotes
    BY <1>1, <2>1 DEF Asks
  <2>3. CallInv(r, connected, peerstore)
    BY <1>1, <2>2, PeerAsked
  <2>4. /\ r.pc = call[c].pc /\ r.op = call[c].op /\ r.i = call[c].i /\ r.steady = call[c].steady
        /\ r.asked = call[c].asked \cup {At(c)} /\ r.i \in Nat
    BY <1>1 DEF Calls
  <2>5. r.op = "provide" => \A p \in r.steady : p \in r.asked \/ From(peerstore, r.i + 1, p)
    <3>1. SUFFICES ASSUME r.op = "provide", NEW p \in r.steady, p \notin r.asked
                   PROVE  From(peerstore, r.i + 1, p)
      OBVIOUS
    <3>2. From(peerstore, r.i, p) /\ p # peerstore[r.i]
      BY <1>1, <1>5, <2>1, <2>4, <3>1 DEF CallInv, Tells
    <3> QED BY <2>4, <3>2 DEF From
  <2>6. Waiting(r, peerstore)
    BY <1>5, <2>4, <2>5 DEF Waiting
  <2> QED BY <1>2, <2>2, <2>3, <2>4, <2>6, RunsBooted DEF Idle
<1>6. CASE call[c].op # "ping" /\ call[c].pc \in {"first", "second_ask"}
  <2>1. At(c) = call[c].peers[call[c].i] /\ call[c].i <= Len(call[c].peers) /\ At(c) \in Remotes
    BY <1>1, <1>6 DEF At, Sends, CallInv, Shape
  <2>2. CallInv(r, connected, peerstore)
    BY <1>1, <2>1, PeerAsked
  <2>3. /\ r.pc = call[c].pc /\ r.op = call[c].op /\ r.i = call[c].i /\ r.peers = call[c].peers
        /\ r.asked = call[c].asked \cup {At(c)}
    BY <1>1 DEF Calls
  <2>4. Waiting(r, peerstore)
    BY <1>3, <1>6, <2>1, <2>3 DEF Waiting
  <2> QED BY <1>2, <2>1, <2>2, <2>3, <2>4, RunsBooted DEF Idle
<1> QED
  BY <1>2, <1>3, <1>4, <1>5, <1>6

-----------------------------------------------------------------------------
(* The actions. *)

(* A node that has just been created has no calls. *)
LEMMA InitIInv == Init => IInv
<1>1. SUFFICES ASSUME Init PROVE IInv
  OBVIOUS
<1>2. <<>> \in Seq(Peers) /\ <<Me>> \in Seq(Peers) /\ <<>> \in Seq(Replies) /\ 1 \in Nat \ {0}
  BY DEF Peers
<1>3. NoCall \in Calls
  BY <1>2 DEF NoCall, Calls
<1>4. CallInv(NoCall, {}, peerstore)
  <2>1. Shape(NoCall, peerstore) /\ Passes(NoCall, {}) /\ Tells(NoCall, peerstore)
    BY DEF NoCall, Shape, Passes, Tells
  <2>2. NoCall.steady = {}
    BY DEF NoCall
  <2> QED BY <1>3, <2>1, <2>2 DEF CallInv
<1>5. \A c \in Callers : call[c] = NoCall
  BY <1>1 DEF Init
<1>6. State
  <2>1. \A c \in Callers : Idle(c)
    BY <1>5 DEF Idle, NoCall
  <2>2. Len(BootstrapPeers) \in Nat
    BY BootstrapAssumption
  <2> QED BY <1>1, <1>2, <1>3, <2>1, <2>2 DEF Init, State
<1> QED
  BY <1>1, <1>4, <1>5, <1>6 DEF IInv, Init

(* The bootstrap adds peers and connections, in its second round under the calls. *)
LEMMA BootstrapKeeps == IInv /\ ipfs_routing_online_bootstrap => IInv'
<1>1. SUFFICES ASSUME IInv, ipfs_routing_online_bootstrap PROVE IInv'
  OBVIOUS
<1> DEFINE p == BootAddress(booted)
<1>2. booted < 2 * Len(BootstrapPeers) /\ booted \in Nat /\ Len(BootstrapPeers) \in Nat
  BY <1>1, BootstrapAssumption DEF ipfs_routing_online_bootstrap, Rounds, IInv, State
<1>3. p \in Peers
  <2> DEFINE n == IF booted < Len(BootstrapPeers) THEN booted + 1 ELSE booted + 1 - Len(BootstrapPeers)
  <2>1. n \in 1 .. Len(BootstrapPeers)
    BY <1>2
  <2>2. p = BootstrapPeers[n]
    BY DEF BootAddress
  <2> HIDE DEF n, p
  <2> QED BY <2>1, <2>2, BootstrapAssumption DEF Peers
<1>4. Extends(peerstore, peerstore')
  BY <1>1, <1>3, AddPeerExtends DEF ipfs_routing_online_bootstrap, IInv, State
<1>5. \/ UNCHANGED <<connected, wire, call>>
      \/ /\ Dial(p)
         /\ call' = IF p \in up THEN [d \in Callers |-> Met(call[d], p)] ELSE call
  BY <1>1 DEF ipfs_routing_online_bootstrap
<1> HIDE DEF p
<1>6. /\ \/ connected' = connected /\ call' = call
         \/ p \in up /\ connected' = connected \cup {p} /\ call' = [d \in Callers |-> Met(call[d], p)]
      /\ wire' \in [Remotes -> Seq(Replies)]
  <2>1. <<>> \in Seq(Replies) /\ wire \in [Remotes -> Seq(Replies)]
    BY <1>1 DEF IInv, State
  <2> QED BY <1>5, <2>1 DEF Dial
<1>7. UNCHANGED <<up, providerstore>> /\ booted' = booted + 1
  BY <1>1 DEF ipfs_routing_online_bootstrap
<1>8. ASSUME NEW c \in Callers PROVE CallInv(call'[c], connected', peerstore')
  <2>1. CallInv(call[c], connected, peerstore')
    BY <1>1, <1>4, StoreGrows DEF IInv
  <2>2. CASE connected' = connected /\ call' = call
    BY <2>1, <2>2
  <2>3. CASE p \in up /\ connected' = connected \cup {p} /\ call' = [d \in Callers |-> Met(call[d], p)]
    <3>1. p \in Remotes
      BY <1>1, <2>3 DEF IInv, State
    <3>2. CallInv(Met(call[c], p), connected \cup {p}, peerstore')
      BY <2>1, <3>1, MetKeeps
    <3> QED BY <2>3, <3>2
  <2> QED BY <1>6, <2>2, <2>3
<1>9. State'
  <2>1. booted' \in Nat /\ peerstore' \in Seq(Peers) /\ (FirstRound' => FirstRound)
    BY <1>2, <1>4, <1>7 DEF Extends, FirstRound
  <2>2. ASSUME FirstRound' PROVE \A c \in Callers : Idle(c)'
    <3>1. \A c \in Callers : call[c].pc \in {"idle", "done"}
      BY <1>1, <2>1, <2>2 DEF IInv, State, Idle
    <3>2. \A c \in Callers : call'[c] = call[c]
      BY <1>6, <3>1 DEF Met
    <3> QED BY <3>1, <3>2 DEF Idle
  <2>3. connected' \subseteq Remotes
    BY <1>1, <1>6 DEF IInv, State
  <2>4. call' \in [Callers -> Calls]
    <3>1. call' = [d \in Callers |-> call'[d]]
      BY <1>1, <1>6 DEF IInv, State
    <3>2. \A d \in Callers : call'[d] \in Calls
      BY <1>8 DEF CallInv
    <3> QED BY <3>1, <3>2
  <2> QED BY <1>1, <1>6, <1>7, <2>1, <2>2, <2>3, <2>4 DEF IInv, State
<1> QED
  BY <1>8, <1>9 DEF IInv

(* A call begins: the peers it knows and is connected to are all in front of
   it. *)
LEMMA CallKeeps == ASSUME IInv, NEW c \in Callers, Call(c) PROVE IInv'
<1>1. PICK op \in {"find_providers", "get_value", "provide", "find_peer", "ping"},
           key \in Keys \cup {NoKey}, target \in Remotes \cup {NoPeer} :
        /\ Begin(c, op, key, target)
        /\ op \in {"find_peer", "ping"} => target \in Remotes
        /\ op \in {"find_providers", "get_value", "provide"} => key \in Keys
  <2>1. CASE \E op \in Operations \cap {"find_providers", "get_value", "provide"} :
               \E k \in Keys : Begin(c, op, k, NoPeer)
    BY <2>1
  <2>2. CASE \E op \in Operations \cap {"find_peer", "ping"} :
               \E p \in Remotes : Begin(c, op, NoKey, p)
    BY <2>2
  <2> QED BY <2>1, <2>2 DEF Call
<1> DEFINE s == [NoCall EXCEPT !.op = op, !.key = key, !.target = target,
                   !.steady = {p \in connected : Contains(peerstore, p)},
                   !.pc = IF op \in {"provide", "ping"} THEN "walk" ELSE "find"]
<1>2. call' = [call EXCEPT ![c] = s] /\ ~FirstRound
  <2>1. booted \in Nat /\ Len(BootstrapPeers) \in Nat
    BY BootstrapAssumption DEF IInv, State
  <2> QED BY <1>1, <2>1 DEF Begin, FirstRound
<1>3. connected \subseteq Remotes /\ wire \in [Remotes -> Seq(Replies)] /\ peerstore \in Seq(Peers)
  BY DEF IInv, State
<1>4. /\ s \in Calls /\ s.op = op /\ s.key = key /\ s.target = target /\ s.i = 1 /\ s.peers = <<>>
      /\ s.steady = {p \in connected : Contains(peerstore, p)}
      /\ s.pc = IF op \in {"provide", "ping"} THEN "walk" ELSE "find"
  <2>1. <<>> \in Seq(Peers) /\ 1 \in Nat \ {0}
    OBVIOUS
  <2> QED BY <1>3, <2>1 DEF NoCall, Calls
<1> HIDE DEF s
<1>5. Shape(s, peerstore)
  BY <1>1, <1>4 DEF Shape
<1>6. Passes(s, connected)
  BY <1>4 DEF Passes
<1>7. Tells(s, peerstore)
  BY <1>4 DEF Tells, From, Contains
<1>8. CallInv(s, connected, peerstore)
  BY <1>4, <1>5, <1>6, <1>7 DEF CallInv
<1> QED
  BY <1>1, <1>2, <1>3, <1>8, OwnStep DEF Begin

(* The searches look at what the node knows. *)
LEMMA FindKeeps ==
  ASSUME IInv, NEW c \in Callers,
         ipfs_routing_online_find_providers(c) \/ ipfs_routing_online_find_peer(c)
  PROVE  IInv'
<1>1. /\ call[c].pc = "find" /\ CallInv(call[c], connected, peerstore) /\ call[c] \in Calls
      /\ call[c].op \in {"find_providers", "get_value", "find_peer"}
      /\ wire \in [Remotes -> Seq(Replies)]
      /\ ~FirstRound
  BY RunsBooted DEF IInv, State, CallInv, Shape, Idle, ipfs_routing_online_find_providers,
                    ipfs_routing_online_find_peer
<1>2. CallInv([call[c] EXCEPT !.pc = "walk"], connected, peerstore)
  <2> DEFINE s == [call[c] EXCEPT !.pc = "walk"]
  <2>1. /\ s \in Calls /\ s.pc = "walk" /\ s.op = call[c].op /\ s.steady = call[c].steady
        /\ s.key = call[c].key /\ s.target = call[c].target /\ s.peers = call[c].peers
    BY <1>1 DEF Calls
  <2> HIDE DEF s
  <2>2. Shape(s, peerstore) /\ Passes(s, connected) /\ Tells(s, peerstore)
    BY <1>1, <2>1 DEF Shape, Passes, Tells, CallInv
  <2>3. CallInv(s, connected, peerstore)
    BY <1>1, <2>1, <2>2 DEF CallInv
  <2> QED BY <2>3 DEF s
<1>3. CASE ipfs_routing_online_find_providers(c)
  <2> DEFINE p == providerstore[call[c].key]
  <2>1. call[c].op \in {"find_providers", "get_value"} /\ call[c].key \in Keys
    BY <1>1, <1>3 DEF ipfs_routing_online_find_providers, CallInv, Shape
  <2>2. p \in Peers \cup {NoPeer}
    BY <2>1 DEF IInv, State
  <2> DEFINE s == CASE p = NoPeer                           -> [call[c] EXCEPT !.pc = "walk"]
                    [] p # NoPeer /\ Contains(peerstore, p) -> Found(call[c], <<p>>, 1)
                    [] OTHER                                -> Found(call[c], <<>>, 0)
  <2>3. call' = [call EXCEPT ![c] = s]
    BY <1>3 DEF ipfs_routing_online_find_providers
  <2>4. CallInv(Found(call[c], <<>>, 0), connected, peerstore)
    <3>1. <<>> \in Seq(Peers)
      OBVIOUS
    <3> QED BY <1>1, <2>1, <3>1, FoundKeeps
  <2>5. p # NoPeer => CallInv(Found(call[c], <<p>>, 1), connected, peerstore)
    <3>1. p # NoPeer => <<p>> \in Seq(Peers)
      BY <2>2
    <3> HIDE DEF p
    <3> QED BY <1>1, <2>1, <3>1, FoundKeeps
  <2>6. CallInv(s, connected, peerstore)
    <3> HIDE DEF p
    <3> QED BY <1>2, <2>4, <2>5
  <2> HIDE DEF s
  <2> QED
    BY <1>1, <1>3, <2>3, <2>6, OwnStep DEF ipfs_routing_online_find_providers
<1>4. CASE ipfs_routing_online_find_peer(c)
  <2>1. call[c].op = "find_peer" /\ <<call[c].target>> \in Seq(Peers)
    BY <1>1, <1>4 DEF ipfs_routing_online_find_peer, CallInv, Shape, Peers
  <2>2. CallInv(Done([call[c] EXCEPT !.peers = <<call[c].target>>], 1), connected, peerstore)
    BY <1>1, <2>1, DoneKeeps
  <2>3. PICK s : call' = [call EXCEPT ![c] = s] /\ s \in {[call[c] EXCEPT !.pc = "walk"],
                    Done([call[c] EXCEPT !.peers = <<call[c].target>>], 1)}
    BY <1>4 DEF ipfs_routing_online_find_peer
  <2>4. CallInv(s, connected, peerstore)
    BY <1>2, <2>2, <2>3
  <2> QED
    BY <1>1, <1>4, <2>3, <2>4, OwnStep DEF ipfs_routing_online_find_peer
<1> QED
  BY <1>3, <1>4

(* The loop over the peerstore passes over peers that are not connected. *)
LEMMA WalkOnKeeps == ASSUME IInv, NEW c \in Callers, WalkOn(c) PROVE IInv'
<1> DEFINE r == call[c]
<1>1. /\ r.pc = "walk" /\ r.op # "ping" /\ r.op # "none" /\ CallInv(r, connected, peerstore)
      /\ r \in Calls /\ r.i \in Nat \ {0} /\ wire \in [Remotes -> Seq(Replies)]
      /\ connected \subseteq Remotes /\ peerstore \in Seq(Peers) /\ Len(peerstore) \in Nat
      /\ ~FirstRound
  BY RunsBooted DEF IInv, State, CallInv, Shape, Idle, WalkOn, Calls
<1>2. CASE r.i > Len(peerstore)
  <2>1. call' = [call EXCEPT ![c] = WalkedAll(r)]
    BY <1>2 DEF WalkOn
  <2>2. ASSUME r.op = "provide" PROVE CallInv(WalkedAll(r), connected, peerstore)
    <3>1. r.steady \subseteq r.asked
      <4>1. \A p \in r.steady : ~From(peerstore, r.i, p)
        BY <1>1, <1>2 DEF From
      <4> QED BY <1>1, <2>2, <4>1 DEF CallInv, Tells
    <3>2. CallInv(Done(r, 1), connected, peerstore)
      BY <1>1, <2>2, <3>1, DoneKeeps
    <3> QED BY <2>2, <3>2 DEF WalkedAll
  <2>3. ASSUME r.op \in {"find_providers", "get_value"}
        PROVE  CallInv(WalkedAll(r), connected, peerstore)
    <3>1. <<>> \in Seq(Peers)
      OBVIOUS
    <3>2. CallInv(Found(r, <<>>, 0), connected, peerstore)
      BY <1>1, <2>3, <3>1, FoundKeeps
    <3> QED BY <2>3, <3>2 DEF WalkedAll
  <2>4. ASSUME r.op = "find_peer" PROVE CallInv(WalkedAll(r), connected, peerstore)
    <3>1. CallInv(Done(r, 0), connected, peerstore)
      BY <1>1, <2>4, DoneKeeps
    <3> QED BY <2>4, <3>1 DEF WalkedAll
  <2>5. r.op \in {"provide", "find_providers", "get_value", "find_peer"}
    BY <1>1 DEF Calls
  <2>6. CallInv(WalkedAll(r), connected, peerstore)
    BY <2>2, <2>3, <2>4, <2>5
  <2> HIDE DEF r
  <2> QED BY <1>1, <2>1, <2>6, OwnStep DEF WalkOn
<1>3. CASE ~(r.i > Len(peerstore))
  <2>1. call' = [call EXCEPT ![c] = NextPeer(r)]
    BY <1>3 DEF WalkOn
  <2>2. peerstore[r.i] \notin connected
    BY <1>1, <1>3, NodesAssumption DEF WalkOn, Asks
  <2>3. r.op = "provide" => \A p \in r.steady : p \in r.asked \/ From(peerstore, r.i + 1, p)
    <3>1. SUFFICES ASSUME r.op = "provide", NEW p \in r.steady, p \notin r.asked
                   PROVE  From(peerstore, r.i + 1, p)
      OBVIOUS
    <3>2. From(peerstore, r.i, p) /\ p # peerstore[r.i]
      BY <1>1, <2>2, <3>1 DEF CallInv, Tells
    <3> QED BY <1>1, <3>2 DEF From
  <2>4. CallInv(NextPeer(r), connected, peerstore)
    BY <1>1, <2>3, WalkKeeps
  <2> HIDE DEF r
  <2> QED BY <1>1, <2>1, <2>4, OwnStep DEF WalkOn
<1> QED
  BY <1>2, <1>3

(* ping dials, and finds its connection gone. *)
LEMMA PingKeeps ==
  ASSUME IInv, NEW c \in Callers, ipfs_routing_online_ping(c) \/ PingUnsent(c)
  PROVE  IInv'
<1> DEFINE r == call[c]
           p == r.target
           goes == [r EXCEPT !.pc = "dialled"]
<1>1. /\ r.pc \in {"walk", "dialled"} /\ r.op = "ping" /\ CallInv(r, connected, peerstore) /\ r \in Calls
      /\ p \in Remotes /\ wire \in [Remotes -> Seq(Replies)]
      /\ ~FirstRound
  BY RunsBooted DEF IInv, State, CallInv, Shape, Idle, ipfs_routing_online_ping, PingUnsent
<1>2. /\ goes \in Calls /\ goes.pc = "dialled" /\ goes.op = "ping" /\ goes.steady = r.steady
      /\ goes.target = r.target /\ goes.peers = r.peers
  BY <1>1 DEF Calls
<1>3. \A conn : r.steady \subseteq conn => CallInv(goes, conn, peerstore)
  <2> HIDE DEF goes, r
  <2> QED BY <1>1, <1>2 DEF CallInv, Shape, Passes, Tells, p
<1>4. CallInv(Done(r, 0), connected, peerstore) /\ CallInv(Done(r, 1), connected, peerstore)
  <2>1. <<>> \in Seq(Peers)
    OBVIOUS
  <2> HIDE DEF r
  <2> QED BY <1>1, <2>1, DoneKeeps
<1>5. r.steady \subseteq connected
  BY <1>1 DEF CallInv
<1>6. CASE ipfs_routing_online_ping(c)
  <2>0. UNCHANGED <<booted, peerstore, up, providerstore>>
    BY <1>6 DEF ipfs_routing_online_ping
  <2>1. CASE p \in connected
    <3>1. call' = [call EXCEPT ![c] = goes] /\ UNCHANGED <<connected, wire>>
      BY <1>6, <2>1 DEF ipfs_routing_online_ping
    <3> HIDE DEF goes, r
    <3> QED BY <1>1, <1>3, <1>5, <2>0, <3>1, OwnStep
  <2>2. CASE p \notin connected /\ p \in up
    <3>1. call' = [Raced(call, c, p) EXCEPT ![c] = goes] /\ Dial(p)
      BY <1>6, <2>2 DEF ipfs_routing_online_ping
    <3> HIDE DEF goes, p, r
    <3>2. CallInv(goes, connected \cup {p}, peerstore)
      BY <1>3, <1>5
    <3> QED BY <1>1, <2>0, <2>2, <3>1, <3>2, DialStep
  <2>3. CASE p \notin connected /\ p \notin up
    <3>1. call' = [call EXCEPT ![c] = Done(r, 0)] /\ UNCHANGED <<connected, wire>>
      BY <1>6, <2>3 DEF ipfs_routing_online_ping, Dial
    <3> HIDE DEF r
    <3> QED BY <1>1, <1>4, <2>0, <3>1, OwnStep
  <2> QED BY <2>1, <2>2, <2>3
<1>7. CASE PingUnsent(c)
  <2>1. /\ call' = [call EXCEPT ![c] = Done(r, 1)]
        /\ UNCHANGED <<booted, peerstore, connected, wire, up, providerstore>>
    BY <1>7 DEF PingUnsent
  <2> HIDE DEF r
  <2> QED BY <1>1, <1>4, <2>1, OwnStep
<1> QED
  BY <1>6, <1>7

(* A message that was sent is one the call waits for the answer of. *)
LEMMA SentKeeps ==
  ASSUME NEW r, NEW conn, NEW store, CallInv(r, conn, store), Waiting(r, store),
         r.pc \in {"walk", "dialled", "first", "second_ask"},
         r.pc = "walk" /\ r.op # "ping" => r.i <= Len(store) /\ store[r.i] \in Remotes,
         r.pc = "first" => r.peers[r.i] \in Remotes
  PROVE  CallInv(Awaits(r), conn, store)
<1> DEFINE pc == CASE r.pc \in {"walk", "dialled"} -> "walk_rcv" [] r.pc = "first" -> "first_rcv"
                   [] OTHER -> "second_rcv"
           s == [r EXCEPT !.pc = pc]
<1>1. r \in Calls /\ r.i \in Nat \ {0}
  BY DEF CallInv, Calls
<1>2. pc = IF r.pc \in {"walk", "dialled"} THEN "walk_rcv" ELSE IF r.pc = "first" THEN "first_rcv" ELSE "second_rcv"
  OBVIOUS
<1> HIDE DEF pc
<1>3. /\ s \in Calls /\ s.pc = pc /\ s.op = r.op /\ s.steady = r.steady /\ s.key = r.key
      /\ s.target = r.target /\ s.asked = r.asked /\ s.refused = r.refused /\ s.raced = r.raced
      /\ s.i = r.i /\ s.peers = r.peers
  BY <1>1, <1>2 DEF Calls
<1> HIDE DEF s
<1>4. Shape(s, store)
  BY <1>1, <1>2, <1>3 DEF CallInv, Shape, Waiting
<1>5. Passes(s, conn)
  <2>1. CASE r.pc \in {"walk", "dialled"}
    BY <1>2, <1>3, <2>1 DEF Passes
  <2>2. CASE r.pc = "first"
    BY <1>2, <1>3, <2>2 DEF CallInv, Passes, Waiting, Settled
  <2>3. CASE r.pc = "second_ask"
    BY <1>2, <1>3, <2>3 DEF CallInv, Passes, Waiting, Settled
  <2> QED BY <2>1, <2>2, <2>3
<1>6. Tells(s, store)
  BY <1>2, <1>3 DEF Tells, Waiting
<1>7. CallInv(s, conn, store)
  BY <1>3, <1>4, <1>5, <1>6 DEF CallInv
<1> QED
  BY <1>7 DEF s, pc, Awaits

(* Sending. *)
LEMMA SendKeeps == ASSUME IInv, NEW c \in Callers, Send(c) PROVE IInv'
<1> DEFINE p == At(c)
           r == [call[c] EXCEPT !.asked = @ \cup {p}]
           answer == Answer(p, RequestType(c), call[c].key, call[c].target)
<1>1. Sends(c) /\ wire \in [Remotes -> Seq(Replies)] /\ UNCHANGED <<booted, up, providerstore>>
  BY DEF Send, IInv, State
<1>2. /\ p \in Remotes /\ ~FirstRound
      /\ CallInv(r, connected, peerstore) /\ Waiting(r, peerstore)
      /\ r.pc \in {"walk", "dialled", "first", "second_ask"} /\ r.pc = call[c].pc /\ r.op = call[c].op
  BY <1>1, SendsTo
<1>3. call[c] \in Calls /\ CallInv(call[c], connected, peerstore)
  BY DEF IInv, State
<1>4. CASE p \in up
  <2>1. answer \in Replies
    <3>1. RequestType(c) \in Types
      BY DEF RequestType, Types
    <3>2. RequestType(c) = "FIND_NODE" => call[c].target \in Remotes
      BY <1>3 DEF RequestType, CallInv, Shape
    <3>3. call[c].key \in Keys \cup {NoKey}
      BY <1>3 DEF Calls
    <3> QED BY <3>1, <3>2, <3>3, AnswerType
  <2>2. wire' \in [Remotes -> Seq(Replies)]
    <3> HIDE DEF p, answer
    <3>1. wire' = [wire EXCEPT ![p] = Append(@, answer)]
      BY <1>4 DEF Send, p, answer
    <3> QED BY <1>1, <1>2, <2>1, <3>1
  <2>3. call' = [call EXCEPT ![c] = Awaits(r)] /\ UNCHANGED <<peerstore, connected>>
    BY <1>4 DEF Send
  <2>4. /\ r.pc = "walk" /\ r.op # "ping" => r.i <= Len(peerstore) /\ peerstore[r.i] \in Remotes
        /\ r.pc = "first" => r.peers[r.i] \in Remotes
    <3>1. r.i = call[c].i /\ r.peers = call[c].peers
      BY <1>3 DEF Calls
    <3>2. call[c].pc = "walk" /\ call[c].op # "ping" =>
            call[c].i <= Len(peerstore) /\ p = peerstore[call[c].i]
      BY <1>1 DEF Sends, At
    <3>3. call[c].pc = "first" => p = call[c].peers[call[c].i]
      BY <1>3 DEF At, CallInv, Shape
    <3> HIDE DEF r, p
    <3> QED BY <1>2, <3>1, <3>2, <3>3
  <2> HIDE DEF r
  <2>5. CallInv(Awaits(r), connected, peerstore)
    BY <1>2, <2>4, SentKeeps
  <2> QED BY <1>1, <1>2, <2>2, <2>3, <2>5, OwnStep
<1>5. CASE p \notin up
  <2>1. Answered(c, r, p, NoAnswer) /\ UNCHANGED wire
    BY <1>5 DEF Send
  <2> HIDE DEF r, p
  <2> QED BY <1>1, <1>2, <2>1, NoAnswerType, AnsweredStep
<1> QED
  BY <1>4, <1>5

(* Receiving. *)
LEMMA ReceiveKeeps ==
  ASSUME IInv, NEW c \in Callers, Receive(c) \/ ReceiveTimeout(c)
  PROVE  IInv'
<1> DEFINE p == At(c)
<1>1. call[c].pc \in {"walk_rcv", "first_rcv", "second_rcv"} /\ UNCHANGED <<booted, up, providerstore>>
  BY DEF Receive, ReceiveTimeout
<1>2. p \in Remotes /\ Waiting(call[c], peerstore) /\ ~FirstRound
  BY <1>1, ReceivesFrom
<1>3. wire \in [Remotes -> Seq(Replies)] /\ CallInv(call[c], connected, peerstore)
  BY DEF IInv, State
<1>4. CASE Answered(c, call[c], p, NoAnswer) /\ UNCHANGED wire
  <2> HIDE DEF p
  <2> QED BY <1>1, <1>2, <1>3, <1>4, NoAnswerType, AnsweredStep
<1>5. CASE /\ wire[p] # <<>> /\ Answered(c, call[c], p, Head(wire[p]))
           /\ wire' = [wire EXCEPT ![p] = Tail(@)]
  <2> HIDE DEF p
  <2>1. wire[p] \in Seq(Replies)
    BY <1>2, <1>3
  <2>2. Head(wire[p]) \in Replies /\ Tail(wire[p]) \in Seq(Replies)
    BY <1>5, <2>1
  <2>3. wire' \in [Remotes -> Seq(Replies)]
    BY <1>2, <1>3, <1>5, <2>2
  <2> QED BY <1>1, <1>2, <1>3, <1>5, <2>2, <2>3, AnsweredStep
<1> QED
  BY <1>4, <1>5 DEF Receive, ReceiveTimeout

(* get_value goes to the next provider when the one it is at is settled or, in
   the first pass, not connected. *)
LEMMA NextProviderKeeps ==
  ASSUME NEW r, NEW conn, NEW store, CallInv(r, conn, store), r.pc \in {"first", "second"},
         r.i <= Len(r.peers), conn \subseteq Remotes,
         \/ r.peers[r.i] = Me
         \/ r.pc = "first" /\ r.peers[r.i] \notin conn
         \/ r.pc = "second" /\ r.peers[r.i] \in conn
  PROVE  CallInv(NextProvider(r), conn, store)
<1> DEFINE s == NextProvider(r)
<1>1. r \in Calls /\ r.i \in Nat \ {0} /\ r.i + 1 \in Nat \ {0} /\ r.peers \in Seq(Peers)
  BY DEF CallInv, Calls
<1>2. /\ s \in Calls /\ s.pc = r.pc /\ s.op = r.op /\ s.steady = r.steady /\ s.key = r.key
      /\ s.target = r.target /\ s.asked = r.asked /\ s.refused = r.refused /\ s.raced = r.raced
      /\ s.i = r.i + 1 /\ s.peers = r.peers
  BY <1>1 DEF Calls, NextProvider
<1> HIDE DEF s
<1>3. Shape(s, store) /\ Tells(s, store)
  BY <1>2 DEF Shape, Tells, CallInv
<1>4. ASSUME r.pc = "first" PROVE Passes(s, conn)
  <2>1. \A j \in 1 .. Len(r.peers) : j < r.i => Settled(r, r.peers[j]) \/ r.peers[j] \notin conn
    BY <1>4 DEF CallInv, Passes
  <2>2. \A j \in 1 .. Len(r.peers) : j < r.i + 1 => Settled(r, r.peers[j]) \/ r.peers[j] \notin conn
    BY <1>1, <1>4, <2>1 DEF Settled
  <2> QED BY <1>2, <1>4, <2>2 DEF Passes, Settled
<1>5. ASSUME r.pc = "second" PROVE Passes(s, conn)
  <2>1. \A j \in 1 .. Len(r.peers) :
          Settled(r, r.peers[j]) \/ (j >= r.i /\ r.peers[j] \notin conn)
    BY <1>5 DEF CallInv, Passes
  <2>2. \A j \in 1 .. Len(r.peers) :
          Settled(r, r.peers[j]) \/ (j >= r.i + 1 /\ r.peers[j] \notin conn)
    BY <1>1, <1>5, <2>1 DEF Settled
  <2> QED BY <1>2, <1>5, <2>2 DEF Passes, Settled
<1> QED
  BY <1>2, <1>3, <1>4, <1>5 DEF CallInv, s

(* The first pass: what the node has itself, and its end. *)
LEMMA FirstPassKeeps == ASSUME IInv, NEW c \in Callers, FirstPass(c) PROVE IInv'
<1> DEFINE r == call[c]
<1>1. /\ r.pc = "first" /\ r.op = "get_value" /\ CallInv(r, connected, peerstore) /\ r \in Calls
      /\ r.key \in Keys /\ r.i \in Nat \ {0} /\ r.peers \in Seq(Peers)
      /\ wire \in [Remotes -> Seq(Replies)] /\ connected \subseteq Remotes
      /\ ~FirstRound
      /\ UNCHANGED <<booted, peerstore, connected, up, providerstore, wire>>
  BY RunsBooted DEF IInv, State, CallInv, Shape, Idle, FirstPass, Calls
<1>2. CASE r.i > Len(r.peers) /\ call' = [call EXCEPT ![c] = EntersSecondPass(r)]
  <2> DEFINE s == EntersSecondPass(r)
  <2> HIDE DEF r
  <2>1. /\ s \in Calls /\ s.pc = "second" /\ s.op = r.op /\ s.steady = r.steady /\ s.key = r.key
        /\ s.target = r.target /\ s.asked = r.asked /\ s.refused = r.refused /\ s.raced = r.raced
        /\ s.i = 1 /\ s.peers = r.peers
    <3>1. 1 \in Nat \ {0}
      OBVIOUS
    <3> QED BY <1>1, <3>1 DEF Calls, EntersSecondPass
  <2> HIDE DEF s
  <2>2. Shape(s, peerstore) /\ Tells(s, peerstore)
    BY <1>1, <2>1 DEF Shape, Tells, CallInv
  <2>3. Passes(s, connected)
    <3>1. \A j \in 1 .. Len(r.peers) : Settled(r, r.peers[j]) \/ r.peers[j] \notin connected
      BY <1>1, <1>2 DEF CallInv, Passes
    <3> QED BY <1>1, <2>1, <3>1 DEF Passes, Settled
  <2>4. CallInv(s, connected, peerstore)
    BY <1>1, <2>1, <2>2, <2>3 DEF CallInv
  <2>5. call' = [call EXCEPT ![c] = s]
    BY <1>2 DEF s
  <2> QED BY <1>1, <2>4, <2>5, OwnStep
<1>3. CASE /\ r.i <= Len(r.peers) /\ r.peers[r.i] = Me
           /\ call' = [call EXCEPT ![c] = Done([r EXCEPT !.got = r.key], 1)]
  <2> DEFINE s == Done([r EXCEPT !.got = r.key], 1)
  <2> HIDE DEF r
  <2>1. /\ s \in Calls /\ s.pc = "done" /\ s.op = r.op /\ s.steady = r.steady /\ s.key = r.key
        /\ s.got = r.key
    BY <1>1 DEF Calls, Done
  <2>5. call' = [call EXCEPT ![c] = s]
    BY <1>3
  <2> HIDE DEF s
  <2>2. Shape(s, peerstore) /\ Tells(s, peerstore) /\ Passes(s, connected)
    BY <1>1, <2>1, KeysAssumption DEF Shape, Tells, CallInv, Passes
  <2>4. CallInv(s, connected, peerstore)
    BY <1>1, <2>1, <2>2 DEF CallInv
  <2> QED BY <1>1, <2>4, <2>5, OwnStep
<1>4. CASE /\ r.i <= Len(r.peers) /\ r.peers[r.i] \notin connected
           /\ call' = [call EXCEPT ![c] = NextProvider(r)]
  <2> HIDE DEF r
  <2>1. CallInv(NextProvider(r), connected, peerstore)
    BY <1>1, <1>4, NextProviderKeeps
  <2> QED BY <1>1, <1>4, <2>1, OwnStep
<1>5. Me \notin connected
  BY <1>1, NodesAssumption
<1> QED
  BY <1>2, <1>3, <1>4, <1>5 DEF FirstPass

(* The second pass: it passes over peers that are settled, and dials. *)
LEMMA SecondPassKeeps == ASSUME IInv, NEW c \in Callers, SecondPass(c) PROVE IInv'
<1> DEFINE r == call[c]
           p == IF r.i <= Len(r.peers) THEN r.peers[r.i] ELSE NoPeer
<1>1. /\ r.pc = "second" /\ r.op = "get_value" /\ CallInv(r, connected, peerstore) /\ r \in Calls
      /\ r.i \in Nat \ {0} /\ r.peers \in Seq(Peers)
      /\ wire \in [Remotes -> Seq(Replies)] /\ connected \subseteq Remotes
      /\ ~FirstRound
      /\ UNCHANGED <<booted, peerstore, up, providerstore>>
  BY RunsBooted DEF IInv, State, CallInv, Shape, Idle, SecondPass, Calls
<1>2. /\ p = NoPeer => r.i > Len(r.peers)
      /\ p # NoPeer => r.i <= Len(r.peers) /\ p = r.peers[r.i] /\ p \in Peers
  BY <1>1, NodesAssumption DEF Peers
<1>3. \A j \in 1 .. Len(r.peers) :
        Settled(r, r.peers[j]) \/ (j >= r.i /\ r.peers[j] \notin connected)
  BY <1>1 DEF CallInv, Passes
<1>4. CASE p = NoPeer /\ call' = [call EXCEPT ![c] = SecondPassEnds(r)] /\ UNCHANGED <<connected, wire>>
  <2> DEFINE s == SecondPassEnds(r)
  <2> HIDE DEF r, p
  <2>1. /\ s \in Calls /\ s.pc = "done" /\ s.op = r.op /\ s.steady = r.steady /\ s.key = r.key
        /\ s.asked = r.asked /\ s.refused = r.refused /\ s.raced = r.raced /\ s.peers = r.peers
    BY <1>1 DEF Calls, Done, SecondPassEnds
  <2>5. call' = [call EXCEPT ![c] = s]
    BY <1>4
  <2> HIDE DEF s
  <2>2. Shape(s, peerstore) /\ Tells(s, peerstore)
    BY <1>1, <2>1 DEF Shape, Tells, CallInv
  <2>3. Passes(s, connected)
    BY <1>1, <1>2, <1>3, <1>4, <2>1 DEF Passes, Settled
  <2>4. CallInv(s, connected, peerstore)
    BY <1>1, <2>1, <2>2, <2>3 DEF CallInv
  <2> QED BY <1>1, <1>4, <2>4, <2>5, OwnStep
<1>5. CASE /\ p \in connected \cup {Me} /\ call' = [call EXCEPT ![c] = NextProvider(r)]
           /\ UNCHANGED <<connected, wire>>
  <2>1. p # NoPeer
    BY <1>1, <1>5, NodesAssumption
  <2> HIDE DEF r, p
  <2>2. CallInv(NextProvider(r), connected, peerstore)
    BY <1>1, <1>2, <1>5, <2>1, NextProviderKeeps
  <2> QED BY <1>1, <1>5, <2>2, OwnStep
<1>6. CASE /\ p # NoPeer /\ p \notin connected \cup {Me} /\ Dial(p) /\ p \in up
           /\ call' = [Raced(call, c, p) EXCEPT ![c] = [r EXCEPT !.pc = "second_ask"]]
  <2> DEFINE s == [r EXCEPT !.pc = "second_ask"]
  <2> HIDE DEF r, p
  <2>1. /\ s \in Calls /\ s.pc = "second_ask" /\ s.op = r.op /\ s.steady = r.steady /\ s.key = r.key
        /\ s.asked = r.asked /\ s.refused = r.refused /\ s.raced = r.raced /\ s.peers = r.peers
        /\ s.i = r.i
    BY <1>1 DEF Calls
  <2>5. call' = [Raced(call, c, p) EXCEPT ![c] = s]
    BY <1>6
  <2> HIDE DEF s
  <2>6. p \in Remotes
    BY <1>2, <1>6 DEF Peers
  <2>2. Shape(s, peerstore) /\ Tells(s, peerstore)
    BY <1>1, <1>2, <1>6, <2>1, <2>6 DEF Shape, Tells, CallInv
  <2>3. Passes(s, connected \cup {p})
    BY <1>1, <1>2, <1>3, <1>6, <2>1 DEF Passes, Settled
  <2>4. CallInv(s, connected \cup {p}, peerstore)
    BY <1>1, <2>1, <2>2, <2>3 DEF CallInv
  <2> QED BY <1>1, <1>6, <2>4, <2>5, <2>6, DialStep
<1>7. CASE /\ p # NoPeer /\ p \notin connected \cup {Me} /\ Dial(p) /\ p \notin up
           /\ call' = [call EXCEPT ![c] = Refused(r, p)]
  <2> DEFINE s == Refused(r, p)
  <2> HIDE DEF r, p
  <2>6. p \in Remotes /\ UNCHANGED <<connected, wire>>
    BY <1>2, <1>7 DEF Peers, Dial
  <2>1. /\ s \in Calls /\ s.pc = "second" /\ s.op = r.op /\ s.steady = r.steady /\ s.key = r.key
        /\ s.asked = r.asked /\ s.refused = r.refused \cup {p} /\ s.raced = r.raced
        /\ s.peers = r.peers /\ s.i = r.i + 1
    <3>1. r.i + 1 \in Nat \ {0}
      BY <1>1
    <3> QED BY <1>1, <2>6, <3>1 DEF Calls, Refused
  <2>5. call' = [call EXCEPT ![c] = s]
    BY <1>7
  <2> HIDE DEF s
  <2>2. Shape(s, peerstore) /\ Tells(s, peerstore)
    BY <1>1, <2>1 DEF Shape, Tells, CallInv
  <2>3. Passes(s, connected)
    <3>1. \A j \in 1 .. Len(r.peers) :
            Settled(s, r.peers[j]) \/ (j >= r.i + 1 /\ r.peers[j] \notin connected)
      BY <1>1, <1>2, <1>3, <1>7, <2>1 DEF Settled
    <3> QED BY <1>1, <2>1, <3>1 DEF Passes
  <2>4. CallInv(s, connected, peerstore)
    BY <1>1, <2>1, <2>2, <2>3 DEF CallInv
  <2> QED BY <1>1, <2>4, <2>5, <2>6, OwnStep
<1> QED
  BY <1>4, <1>5, <1>6, <1>7 DEF SecondPass

-----------------------------------------------------------------------------

(* Every step, of whichever thread, keeps the invariant of every call. *)
THEOREM StepIInv == IInv /\ [Next]_vars => IInv'
<1>1. SUFFICES ASSUME IInv, [Next]_vars PROVE IInv'
  OBVIOUS
<1>2. CASE ipfs_routing_online_bootstrap
  BY <1>1, <1>2, BootstrapKeeps
<1>3. ASSUME NEW c \in Callers, Call(c) \/ Step(c) \/ ReceiveTimeout(c) PROVE IInv'
  BY <1>1, <1>3, CallKeeps, FindKeeps, WalkOnKeeps, PingKeeps, SendKeeps, ReceiveKeeps,
     FirstPassKeeps, SecondPassKeeps DEF Step
<1>4. ASSUME NEW p \in Remotes, RemoteFails(p) \/ RemoteComes(p) PROVE IInv'
  <2>1. wire' \in [Remotes -> Seq(Replies)] /\ up' \subseteq Remotes
    <3>1. <<>> \in Seq(Replies)
      OBVIOUS
    <3> QED BY <1>1, <1>4, <3>1 DEF RemoteFails, RemoteComes, IInv, State
  <2>2. UNCHANGED <<booted, peerstore, connected, providerstore, call>>
    BY <1>4 DEF RemoteFails, RemoteComes
  <2> QED BY <1>1, <2>1, <2>2 DEF IInv, State, Idle, FirstRound
<1>5. CASE UNCHANGED vars
  BY <1>1, <1>5 DEF vars, IInv, State, Idle, FirstRound
<1> QED
  BY <1>1, <1>2, <1>3, <1>4, <1>5 DEF Next

(* Each call's record of whom it has left behind is right in every state. *)
THEOREM Invariance == Spec => []IInv
<1> QED
  BY InitIInv, StepIInv, PTL DEF Spec

(* get_value (online.c:388) gives up only when every provider it found has been
   asked, could not be dialled or was connected to by another thread meanwhile,
   however many threads, peers and failures there are. *)
THEOREM GetValueTriesEveryProvider == Spec => []EveryProviderAsked
<1>1. IInv => EveryProviderAsked
  <2>1. SUFFICES ASSUME IInv, NEW c \in Callers, call[c].op = "get_value", call[c].pc = "done",
                        call[c].got = NoKey
                 PROVE  Range(call[c].peers) \cap Remotes
                          \subseteq call[c].asked \cup call[c].refused \cup call[c].raced
    BY DEF EveryProviderAsked
  <2>2. \A j \in 1 .. Len(call[c].peers) : Settled(call[c], call[c].peers[j])
    BY <2>1 DEF IInv, CallInv, Passes
  <2>3. call[c].peers \in Seq(Peers)
    BY <2>1 DEF IInv, State, Calls
  <2> QED
    BY <2>2, <2>3, NodesAssumption DEF Range, Settled
<1> QED
  BY <1>1, Invariance, PTL

(* provide (online.c:242) tells every peer that is known and connected from its
   beginning to its end. *)
THEOREM ProvideTellsEveryPeer == Spec => []ProvideTellsConnected
<1>1. IInv => ProvideTellsConnected
  BY DEF IInv, CallInv, Tells, ProvideTellsConnected
<1> QED
  BY <1>1, Invariance, PTL
=============================================================================
