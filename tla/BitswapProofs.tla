--------------------------- MODULE BitswapProofs ---------------------------
(***************************************************************************)
(* Proofs about Bitswap, for any number of nodes, cids, faults and nodes    *)
(* that withdraw wants.                                                     *)
(*                                                                         *)
(* Every invariant rests on Inner, what the threads keep in their locals.   *)
(* Chain: whatever is queued, copied or under way goes back to a want that  *)
(* was sent.  Serving: where the block of a want that is marked as answered *)
(* can be; it needs Wires (connections), Copies (blocks that are copied and *)
(* then deleted) and, for nodes that withdraw nothing, OneWant.             *)
(* Delivering: where the wants are that were sent.                          *)
(***************************************************************************)
EXTENDS Bitswap, SequenceTheorems, Induction

-----------------------------------------------------------------------------
(* Pairs, threads and sequences. *)

(* A pair the other way round is a pair. *)
LEMMA FlipPair ==
  ASSUME NEW q \in Pairs
  PROVE  /\ Flip(q) \in Pairs /\ Flip(Flip(q)) = q /\ Flip(q) # q
         /\ q[1] \in Nodes /\ q[2] \in Nodes /\ Flip(q)[1] = q[2] /\ Flip(q)[2] = q[1]
BY DEF Pairs, Flip

(* Two different nodes are a pair. *)
LEMMA NodePair ==
  ASSUME NEW n \in Nodes, NEW p \in Nodes \ {n}
  PROVE  /\ <<n, p>> \in Pairs /\ <<p, n>> \in Pairs /\ Flip(<<n, p>>) = <<p, n>>
         /\ <<n, p>>[1] = n /\ <<n, p>>[2] = p
BY DEF Pairs, Flip

(* The threads of a node. *)
LEMMA ThreadNode ==
  /\ \A t \in Threads : t[1] \in Nodes /\ t[2] \in {"wants", "peers"} /\ t = <<t[1], t[2]>>
  /\ \A n \in Nodes : <<n, "wants">> \in Threads /\ <<n, "peers">> \in Threads
BY DEF Threads

(* What is in a sequence after the operations of a vector. *)
LEMMA InSequence ==
  ASSUME NEW S, NEW s \in Seq(S)
  PROVE  /\ \A x : x \in ToSet(s) <=> \E k \in 1 .. Len(s) : x = s[k]
         /\ ToSet(s) \subseteq S
         /\ \A x \in S : Append(s, x) \in Seq(S) /\ ToSet(Append(s, x)) = ToSet(s) \cup {x}
         /\ s # <<>> => /\ Head(s) \in ToSet(s) /\ Tail(s) \in Seq(S)
                        /\ ToSet(s) = ToSet(Tail(s)) \cup {Head(s)}
         /\ s = <<>> <=> ToSet(s) = {}
<1>1. \A x : x \in ToSet(s) <=> \E k \in 1 .. Len(s) : x = s[k]
  BY DEF ToSet
<1>2. ASSUME NEW x \in S PROVE ToSet(Append(s, x)) = ToSet(s) \cup {x}
  <2> DEFINE a == Append(s, x)
  <2>1. a \in Seq(S) /\ Len(a) = Len(s) + 1 /\ a[Len(s) + 1] = x
        /\ \A k \in 1 .. Len(s) : a[k] = s[k]
    OBVIOUS
  <2> HIDE DEF a
  <2>2. \A y : y \in ToSet(a) <=> \E k \in 1 .. Len(a) : y = a[k]
    BY <2>1 DEF ToSet
  <2>3. ASSUME NEW y \in ToSet(a) PROVE y \in ToSet(s) \/ y = x
    <3>1. PICK k \in 1 .. Len(a) : y = a[k]
      BY <2>2
    <3>2. k = Len(s) + 1 \/ k \in 1 .. Len(s)
      BY <2>1
    <3> QED BY <1>1, <2>1, <3>1, <3>2
  <2>4. ASSUME NEW y \in ToSet(s) PROVE y \in ToSet(a)
    <3>1. PICK k \in 1 .. Len(s) : y = s[k]
      BY <1>1
    <3>2. k \in 1 .. Len(a) /\ y = a[k]
      BY <2>1, <3>1
    <3> QED BY <2>2, <3>2
  <2>5. x \in ToSet(a)
    <3>1. Len(s) + 1 \in 1 .. Len(a)
      BY <2>1
    <3> QED BY <2>1, <2>2, <3>1
  <2> QED BY <2>3, <2>4, <2>5 DEF a
<1>3. ASSUME s # <<>> PROVE ToSet(s) = ToSet(Tail(s)) \cup {Head(s)}
  <2>1. Len(s) >= 1 /\ Len(Tail(s)) = Len(s) - 1 /\ Head(s) = s[1]
    BY <1>3
  <2>2. \A k \in 1 .. Len(Tail(s)) : Tail(s)[k] = s[k + 1]
    BY <1>3
  <2>3. \A x : x \in ToSet(Tail(s)) <=> \E k \in 1 .. Len(Tail(s)) : x = Tail(s)[k]
    BY <1>3 DEF ToSet
  <2>4. ASSUME NEW k \in 1 .. Len(s), k # 1 PROVE s[k] = Tail(s)[k - 1] /\ k - 1 \in 1 .. Len(Tail(s))
    BY <2>1, <2>2, <2>4
  <2>5. ASSUME NEW x PROVE x \in ToSet(s) <=> x \in ToSet(Tail(s)) \/ x = Head(s)
    <3>1. ASSUME x \in ToSet(s) PROVE x \in ToSet(Tail(s)) \/ x = Head(s)
      BY <1>1, <2>1, <2>3, <2>4, <3>1
    <3>2. ASSUME x \in ToSet(Tail(s)) PROVE x \in ToSet(s)
      <4>1. PICK k \in 1 .. Len(Tail(s)) : x = Tail(s)[k]
        BY <2>3, <3>2
      <4>2. k + 1 \in 1 .. Len(s) /\ x = s[k + 1]
        BY <2>1, <2>2, <4>1
      <4> QED BY <1>1, <4>2
    <3>3. Head(s) \in ToSet(s)
      BY <1>1, <2>1
    <3> QED BY <3>1, <3>2, <3>3
  <2> QED BY <2>5
<1>4. s = <<>> <=> ToSet(s) = {}
  <2>1. s # <<>> => s[1] \in ToSet(s)
    BY <1>1
  <2>2. s = <<>> => ToSet(s) = {}
    BY <1>1
  <2> QED BY <2>1, <2>2
<1>5. ToSet(s) \subseteq S
  BY <1>1
<1>6. s # <<>> => Head(s) \in ToSet(s) /\ Tail(s) \in Seq(S)
  BY <1>1
<1>7. \A x \in S : Append(s, x) \in Seq(S)
  OBVIOUS
<1> QED
  BY <1>1, <1>2, <1>3, <1>4, <1>5, <1>6, <1>7

(* The shortest sequences. *)
LEMMA ShortSequences == ToSet(<<>>) = {} /\ \A x : ToSet(<<x>>) = {x}
<1>1. ToSet(<<>>) = {}
  <2>1. <<>> \in Seq({})
    OBVIOUS
  <2> QED BY <2>1, InSequence
<1>2. ASSUME NEW x PROVE ToSet(<<x>>) = {x}
  <2>1. <<x>> \in Seq({x}) /\ <<x>> # <<>>
    OBVIOUS
  <2>2. ToSet(<<x>>) \subseteq {x} /\ ToSet(<<x>>) # {}
    BY <2>1, InSequence
  <2> QED BY <2>2
<1> QED
  BY <1>1, <1>2

(* Nothing comes to a sequence that loses a part. *)
LEMMA InSubSeq ==
  ASSUME NEW S, NEW s \in Seq(S), NEW k \in Nat
  PROVE  /\ SubSeq(s, k + 1, Len(s)) \in Seq(S)
         /\ ToSet(SubSeq(s, k + 1, Len(s))) \subseteq ToSet(s)
<1> DEFINE u == SubSeq(s, k + 1, Len(s))
<1>1. u \in Seq(S) /\ \A j \in 1 .. Len(u) : j + k \in 1 .. Len(s) /\ u[j] = s[j + k]
  <2>1. CASE k + 1 <= Len(s)
    <3>1. u \in Seq(S) /\ Len(u) = Len(s) - k
      BY <2>1, SubSeqProperties
    <3>2. \A j \in 1 .. (Len(s) - k) : u[j] = s[j + k]
      BY <2>1, SubSeqProperties
    <3> QED BY <2>1, <3>1, <3>2
  <2>2. CASE ~(k + 1 <= Len(s))
    <3>1. u = <<>>
      BY <2>2, SubSeqProperties
    <3> QED BY <3>1
  <2> QED BY <2>1, <2>2
<1> HIDE DEF u
<1>2. ASSUME NEW x \in ToSet(u) PROVE x \in ToSet(s)
  <2>1. PICK j \in 1 .. Len(u) : x = u[j]
    BY <1>1, InSequence
  <2>2. j + k \in 1 .. Len(s) /\ x = s[j + k]
    BY <1>1, <2>1
  <2> QED BY <2>2, InSequence
<1> QED
  BY <1>1, <1>2 DEF u
-----------------------------------------------------------------------------
(* The functions of message.c. *)

(* message_cancel_cid changes nothing but marks, and only marks the cids given. *)
LEMMA CancelCidsMarks ==
  ASSUME NEW entries \in Seq(Wants), NEW cids
  PROVE  /\ CancelCids(entries, cids) \in Seq(Wants)
         /\ Len(CancelCids(entries, cids)) = Len(entries)
         /\ \A k \in 1 .. Len(entries) :
              LET e == CancelCids(entries, cids)[k] IN
              e.cid = entries[k].cid /\ (e.cancel => entries[k].cancel \/ e.cid \in cids)
<1> DEFINE Mark(k) == IF /\ entries[k].cid \in cids
                         /\ \A j \in 1 .. (k - 1) : entries[j].cid # entries[k].cid
                      THEN [entries[k] EXCEPT !.cancel = TRUE] ELSE entries[k]
<1>1. CancelCids(entries, cids) = [k \in 1 .. Len(entries) |-> Mark(k)]
  BY DEF CancelCids
<1>2. ASSUME NEW k \in 1 .. Len(entries)
      PROVE  /\ Mark(k) \in Wants /\ Mark(k).cid = entries[k].cid
             /\ Mark(k).cancel => entries[k].cancel \/ Mark(k).cid \in cids
  <2>1. entries[k] \in Wants
    OBVIOUS
  <2> QED BY <2>1 DEF Wants
<1> HIDE DEF Mark
<1> QED
  BY <1>1, <1>2

(* Marking an entry of cids_we_want as sent changes its flag, and forgets
   nothing that was sent before. *)
LEMMA MarkSentMarks ==
  ASSUME NEW e \in CidEntries
  PROVE  /\ MarkSent(e) \in CidEntries /\ MarkSent(e).cid = e.cid /\ MarkSent(e).cancel = e.cancel
         /\ e.request_has_been_sent => MarkSent(e).request_has_been_sent
         /\ ~e.cancel => MarkSent(e).request_has_been_sent
BY DEF MarkSent, CidEntries

(* The items of a message are entries of cids_we_want, and every entry that is
   to be sent has its item.  The definition is a recursion over the vector; that
   there is such a function comes first. *)
LEMMA ItemsAreEntries ==
  ASSUME NEW entries \in Seq(CidEntries)
  PROVE  /\ WantlistItems(entries) \in Seq(Wants)
         /\ \A w \in ToSet(WantlistItems(entries)) : \E k \in 1 .. Len(entries) :
              w.cid = entries[k].cid /\ w.cancel = entries[k].cancel
         /\ \A k \in 1 .. Len(entries) : ToSend(entries[k]) =>
              [cid |-> entries[k].cid, cancel |-> entries[k].cancel] \in ToSet(WantlistItems(entries))
<1> DEFINE Item(k) == [cid |-> entries[k].cid, cancel |-> entries[k].cancel]
           Body(f, k) == CASE k = 0 -> <<>>
                           [] k > 0 /\ ToSend(entries[k]) -> Append(f[k - 1], Item(k))
                           [] OTHER -> f[k - 1]
           Is(f, m) == f = [k \in 0 .. m |-> Body(f, k)]
           undefined == {m \in Nat : ~\E f : Is(f, m)}
           items[k \in 0 .. Len(entries)] ==
             CASE k = 0 -> <<>>
               [] k > 0 /\ ToSend(entries[k]) ->
                    Append(items[k - 1], [cid |-> entries[k].cid, cancel |-> entries[k].cancel])
               [] OTHER -> items[k - 1]
<1>1. ASSUME undefined # {} PROVE FALSE
  <2>1. PICK m \in undefined : \A k \in undefined : m <= k
    <3> HIDE DEF undefined
    <3>1. undefined \subseteq Nat
      BY DEF undefined
    <3> QED BY <1>1, <3>1, SmallestNumber
  <2>2. m # 0
    <3> DEFINE f0 == [k \in 0 .. 0 |-> <<>>]
    <3>1. Is(f0, 0)
      OBVIOUS
    <3> HIDE DEF Is, f0
    <3>2. \E h : Is(h, 0)
      BY <3>1
    <3> QED BY <3>2
  <2>3. m - 1 \in Nat
    BY <2>2
  <2>4. m - 1 \notin undefined
    <3> HIDE DEF undefined
    <3>1. undefined \subseteq Nat
      BY DEF undefined
    <3> QED BY <2>1, <3>1
  <2>5. PICK f : Is(f, m - 1)
    <3> HIDE DEF Is
    <3> QED BY <2>3, <2>4
  <2> DEFINE g == [k \in 0 .. m |-> IF k = m THEN Body(f, m) ELSE f[k]]
  <2>6. ASSUME NEW k \in 0 .. m PROVE g[k] = Body(g, k)
    <3>1. CASE k = m
      <4>1. g[m] = Body(f, m) /\ g[m - 1] = f[m - 1]
        <5> HIDE DEF Body
        <5> QED BY <2>2
      <4> QED BY <2>2, <3>1, <4>1
    <3>2. CASE k # m
      <4>1. k \in 0 .. (m - 1)
        BY <3>2
      <4>2. f[k] = Body(f, k)
        <5> HIDE DEF Body
        <5> QED BY <2>5, <4>1
      <4>3. g[k] = f[k] /\ (k # 0 => g[k - 1] = f[k - 1])
        <5> HIDE DEF Body
        <5> QED BY <3>2, <4>1
      <4> HIDE DEF g
      <4> QED BY <4>2, <4>3
    <3> QED BY <3>1, <3>2
  <2>7. Is(g, m)
    <3> HIDE DEF Body
    <3>1. g = [k \in 0 .. m |-> g[k]]
      OBVIOUS
    <3> HIDE DEF g
    <3> QED BY <2>6, <3>1
  <2> HIDE DEF Is, g
  <2>8. \E h : Is(h, m)
    BY <2>7
  <2> QED BY <2>8
<1>2. \E f : Is(f, Len(entries))
  <2>1. Len(entries) \in Nat /\ Len(entries) \notin undefined
    <3> HIDE DEF undefined
    <3> QED BY <1>1
  <2> HIDE DEF Is
  <2> QED BY <2>1
<1>3. items = [k \in 0 .. Len(entries) |-> Body(items, k)]
  BY <1>2
<1>4. WantlistItems(entries) = items[Len(entries)]
  BY DEF WantlistItems
<1> HIDE DEF items
<1>5. \A k \in 0 .. Len(entries) : items[k] = Body(items, k)
  <2> HIDE DEF Body
  <2> QED BY <1>3
<1> DEFINE From(w) == \E k \in 1 .. Len(entries) :
                        w.cid = entries[k].cid /\ w.cancel = entries[k].cancel
           Complete(u, n) == \A k \in 1 .. n : ToSend(entries[k]) => Item(k) \in ToSet(u)
           Right(u, n) == u \in Seq(Wants) /\ (\A w \in ToSet(u) : From(w)) /\ Complete(u, n)
           wrong == {n \in 0 .. Len(entries) : ~Right(items[n], n)}
<1>6. ASSUME wrong # {} PROVE FALSE
  <2>1. PICK n \in wrong : \A k \in wrong : n <= k
    <3> HIDE DEF wrong
    <3>1. wrong \subseteq Nat
      BY DEF wrong
    <3> QED BY <1>6, <3>1, SmallestNumber
  <2>2. n # 0
    <3> HIDE DEF wrong, Is, undefined, From
    <3>1. items[0] = <<>>
      <4>1. 0 \in 0 .. Len(entries)
        OBVIOUS
      <4>2. Body(items, 0) = <<>>
        OBVIOUS
      <4> HIDE DEF Body
      <4> QED BY <1>5, <4>1, <4>2
    <3>2. <<>> \in Seq(Wants) /\ ToSet(<<>>) = {} /\ 1 .. 0 = {}
      BY ShortSequences
    <3>3. Right(items[0], 0)
      BY <3>1, <3>2
    <3> HIDE DEF Right
    <3>4. 0 \notin wrong
      BY <3>3 DEF wrong
    <3> QED BY <3>4
  <2>3. n \in 1 .. Len(entries) /\ n - 1 \in 0 .. Len(entries)
    <3> HIDE DEF Right
    <3> QED BY <2>2
  <2>4. Right(items[n - 1], n - 1)
    <3> HIDE DEF Right
    <3>1. n \in Nat
      BY <2>3
    <3> HIDE DEF wrong
    <3>2. n - 1 \notin wrong
      BY <2>1, <3>1
    <3> QED BY <2>3, <3>2 DEF wrong
  <2>5. entries[n] \in CidEntries
    BY <2>3
  <2>6. Item(n) \in Wants /\ From(Item(n))
    BY <2>3, <2>5 DEF CidEntries, Wants
  <2>7. CASE ToSend(entries[n])
    <3>1. items[n] = Append(items[n - 1], Item(n))
      <4> HIDE DEF wrong, Is, undefined, From
      <4>1. items[n] = Body(items, n) /\ n > 0
        BY <1>5, <2>3
      <4> HIDE DEF Item
      <4> QED BY <2>7, <4>1
    <3> HIDE DEF Item, From
    <3>2. items[n] \in Seq(Wants) /\ ToSet(items[n]) = ToSet(items[n - 1]) \cup {Item(n)}
      BY <2>4, <2>6, <3>1, InSequence
    <3>3. Complete(items[n], n)
      <4>1. \A k \in 1 .. n : k = n \/ k \in 1 .. (n - 1)
        BY <2>3
      <4> QED BY <2>4, <3>2, <4>1
    <3>4. Right(items[n], n)
      <4> HIDE DEF Complete
      <4> QED BY <2>4, <2>6, <3>2, <3>3
    <3> HIDE DEF Right
    <3> QED BY <3>4
  <2>8. CASE ~ToSend(entries[n])
    <3>1. items[n] = items[n - 1]
      <4> HIDE DEF wrong, Is, undefined, From
      <4>1. items[n] = Body(items, n) /\ n > 0
        BY <1>5, <2>3
      <4> HIDE DEF Item
      <4> QED BY <2>8, <4>1
    <3>2. Complete(items[n], n)
      <4>1. \A k \in 1 .. n : k = n \/ k \in 1 .. (n - 1)
        BY <2>3
      <4> QED BY <2>4, <2>8, <3>1, <4>1
    <3>3. Right(items[n], n)
      <4> HIDE DEF Complete, From
      <4> QED BY <2>4, <3>1, <3>2
    <3> HIDE DEF Right
    <3> QED BY <3>3
  <2> QED BY <2>7, <2>8
<1>7. Len(entries) \in 0 .. Len(entries) /\ Len(entries) \notin wrong
  <2> HIDE DEF wrong
  <2> QED BY <1>6
<1>8. Right(WantlistItems(entries), Len(entries))
  <2> HIDE DEF Right
  <2> QED BY <1>4, <1>7
<1> QED
  BY <1>8
-----------------------------------------------------------------------------
(* What the threads keep in their locals. *)

Tables ==
  /\ they \in [Pairs -> Seq(Wants)] /\ \A q \in Pairs : Len(they[q]) <= 1
  /\ we \in [Pairs -> Seq(CidEntries)]
  /\ blocks \in [Pairs -> Seq(Cids)]
  /\ link \in [Pairs -> Seq(Messages)] /\ \A q \in Pairs : Len(link[q]) <= MaxInFlight
  /\ inbox \in [Pairs -> Seq(Wants)]
  /\ store \in [Nodes -> SUBSET Cids] /\ asked \in [Nodes -> SUBSET Cids]
  /\ request \subseteq Pairs /\ up \subseteq Pairs /\ sees \subseteq Pairs
  /\ faults \in 0 .. MaxFaults /\ shared \subseteq Nodes /\ crashed \subseteq Nodes

Variables ==
  /\ pc \in [Threads -> Steps]
  /\ peer \in [Threads -> Nodes \cup {NoPeer}]
  /\ i \in [Threads -> Int]
  /\ found \in [Threads -> Cids \cup {NoCid}]
  /\ tot \in [Threads -> Nat]
  /\ msg \in [Threads -> Messages]
  /\ cid \in [Nodes -> Cids \cup {NoCid}]
  /\ providers \in [Nodes -> SUBSET Nodes]

Working(t) == pc[t] \notin {"idle", "next"}

\* The entry that a thread has a block for is at its index, unless it has gone.
Local(t) ==
  /\ Working(t) => peer[t] \in Nodes \ {t[1]}
  /\ pc[t] = "gather" => i[t] >= 1
  /\ pc[t] = "add" => /\ found[t] \in Cids
                      /\ i[t] > 0 => i[t] <= Len(they[Pair(t)]) /\ they[Pair(t)][i[t]].cid = found[t]
  /\ pc[t] \notin {"delete", "wantlist", "send"} => msg[t] = Empty

Wanting(n) ==
  /\ providers[n] \subseteq Nodes \ {n}
  /\ pc[<<n, "wants">>] # "idle" => cid[n] \in Cids

Inner ==
  Tables /\ Variables /\ (\A t \in Threads : Local(t)) /\ \A n \in Nodes : Wanting(n)

(* The type invariant is a part of it. *)
LEMMA InnerTypes == Inner => TypeOK
BY DEF Inner, Tables, Variables, TypeOK

(* A thread that works has a PeerRequest of a pair. *)
LEMMA WorksOnPair ==
  ASSUME Inner, NEW t \in Threads, Working(t)
  PROVE  Pair(t) \in Pairs /\ Pair(t)[1] = t[1]
BY ThreadNode DEF Inner, Local, Pair, Pairs

(* At the start nothing is asked for and no thread works. *)
LEMMA InitInner == Init => Inner
<1>1. SUFFICES ASSUME Init PROVE Inner
  OBVIOUS
<1>2. Empty \in Messages
  BY DEF Empty, Messages
<1>3. Tables
  <2>1. <<>> \in Seq(Wants) /\ <<>> \in Seq(CidEntries) /\ <<>> \in Seq(Cids) /\ <<>> \in Seq(Messages)
    OBVIOUS
  <2> QED BY <1>1, <2>1, NetworkAssumption DEF Init, Tables
<1>4. Variables
  BY <1>1, <1>2 DEF Init, Variables, Steps
<1>5. ASSUME NEW t \in Threads PROVE Local(t)
  BY <1>1 DEF Init, Local, Working
<1>6. ASSUME NEW n \in Nodes PROVE Wanting(n)
  BY <1>1, ThreadNode DEF Init, Wanting
<1> QED
  BY <1>3, <1>4, <1>5, <1>6 DEF Inner

(* A step that leaves the locals and the wants of the peers alone. *)
LEMMA OutsideStep ==
  ASSUME Inner, Tables', UNCHANGED <<localVars, cid, providers, they>>
  PROVE  Inner'
<1>1. Variables'
  BY DEF Inner, Variables, localVars
<1>2. ASSUME NEW t \in Threads PROVE Local(t)'
  BY DEF Inner, Local, Working, localVars, Pair
<1>3. ASSUME NEW n \in Nodes PROVE Wanting(n)'
  BY DEF Inner, Wanting, localVars
<1> QED
  BY <1>1, <1>2, <1>3 DEF Inner

(* The end of process_entry. *)
LEMMA FinishStep ==
  ASSUME Inner, NEW t \in Threads, Finish(t), Working(t), Tables', UNCHANGED <<cid, providers, they>>
  PROVE  Inner'
<1>1. Empty \in Messages /\ t[2] \in {"wants", "peers"}
  BY ThreadNode DEF Empty, Messages
<1>2. Variables'
  BY <1>1 DEF Inner, Variables, Finish, Goto, Steps
<1>3. ASSUME NEW u \in Threads PROVE Local(u)'
  <2>1. CASE u = t
    BY <2>1 DEF Inner, Variables, Local, Working, Finish, Goto
  <2>2. CASE u # t
    <3>1. /\ pc'[u] = pc[u] /\ peer'[u] = peer[u] /\ i'[u] = i[u] /\ found'[u] = found[u]
          /\ msg'[u] = msg[u] /\ they' = they
      BY <2>2 DEF Inner, Variables, Finish, Goto
    <3>2. Local(u)
      BY DEF Inner
    <3> QED BY <3>1, <3>2 DEF Local, Working, Pair
  <2> QED BY <2>1, <2>2
<1>4. ASSUME NEW n \in Nodes PROVE Wanting(n)'
  <2>1. Wanting(n) /\ <<n, "wants">> \in Threads
    BY ThreadNode DEF Inner
  <2>2. pc'[<<n, "wants">>] # "idle" => pc[<<n, "wants">>] # "idle"
    BY <2>1 DEF Inner, Variables, Finish, Goto, Working
  <2> QED BY <2>1, <2>2 DEF Wanting
<1> QED
  BY <1>2, <1>3, <1>4 DEF Inner

(* A step of one thread within process_entry: at most it marks an entry of
   cids_they_want. *)
LEMMA ThreadStep ==
  ASSUME Inner, NEW t \in Threads, Working(t), Tables', Variables', UNCHANGED <<peer, cid, providers>>,
         \A q \in Pairs : /\ Len(they'[q]) = Len(they[q])
                          /\ \A k \in 1 .. Len(they[q]) : they'[q][k].cid = they[q][k].cid,
         \A u \in Threads \ {t} : pc'[u] = pc[u] /\ i'[u] = i[u] /\ found'[u] = found[u] /\ msg'[u] = msg[u],
         Working(t)', Local(t)'
  PROVE  Inner'
<1>1. ASSUME NEW u \in Threads PROVE Local(u)'
  <2>1. CASE u # t
    <3>1. /\ pc'[u] = pc[u] /\ peer'[u] = peer[u] /\ i'[u] = i[u] /\ found'[u] = found[u]
          /\ msg'[u] = msg[u] /\ Pair(u)' = Pair(u)
      BY <2>1 DEF Pair
    <3>2. Local(u) /\ i[u] \in Int
      BY DEF Inner, Variables
    <3>3. Working(u) => Pair(u) \in Pairs
      BY WorksOnPair
    <3> QED BY <3>1, <3>2, <3>3 DEF Local, Working
  <2> QED BY <2>1
<1>2. ASSUME NEW n \in Nodes PROVE Wanting(n)'
  <2>1. Wanting(n) /\ <<n, "wants">> \in Threads
    BY ThreadNode DEF Inner
  <2>2. pc'[<<n, "wants">>] # "idle" => pc[<<n, "wants">>] # "idle"
    BY <2>1 DEF Working
  <2> QED BY <2>1, <2>2 DEF Wanting
<1> QED
  BY <1>1, <1>2 DEF Inner
(* Connections that end, or begin, leave links of messages. *)
LEMMA LinksStay ==
  ASSUME Inner
  PROVE  /\ \A S : Drop(S) => up' \subseteq Pairs /\ link' \in [Pairs -> Seq(Messages)]
                              /\ \A q \in Pairs : Len(link'[q]) <= MaxInFlight
         /\ \A q \in Pairs : Connect(q) => /\ up' \subseteq Pairs /\ sees' \subseteq Pairs
                                           /\ link' \in [Pairs -> Seq(Messages)]
                                           /\ \A r \in Pairs : Len(link'[r]) <= MaxInFlight
<1>1. <<>> \in Seq(Messages) /\ Len(<<>>) = 0 /\ MaxInFlight \in Nat
  BY NetworkAssumption
<1>2. ASSUME NEW S, Drop(S)
      PROVE  up' \subseteq Pairs /\ link' \in [Pairs -> Seq(Messages)]
             /\ \A q \in Pairs : Len(link'[q]) <= MaxInFlight
  BY <1>1, <1>2 DEF Drop, Inner, Tables
<1>3. ASSUME NEW q \in Pairs, Connect(q)
      PROVE  /\ up' \subseteq Pairs /\ sees' \subseteq Pairs
             /\ link' \in [Pairs -> Seq(Messages)]
             /\ \A r \in Pairs : Len(link'[r]) <= MaxInFlight
  <2>1. Flip(q) \in Pairs
    BY FlipPair
  <2>2. link' = link \/ link' = [link EXCEPT ![q] = <<>>, ![Flip(q)] = <<>>]
    BY <1>3 DEF Connect
  <2>3. link' \in [Pairs -> Seq(Messages)] /\ \A r \in Pairs : link'[r] = link[r] \/ link'[r] = <<>>
    BY <1>1, <2>1, <2>2 DEF Inner, Tables
  <2>4. \A r \in Pairs : Len(link'[r]) <= MaxInFlight
    BY <1>1, <2>3 DEF Inner, Tables
  <2>5. up' \subseteq Pairs /\ sees' \subseteq Pairs
    BY <1>3, <2>1 DEF Connect, Inner, Tables
  <2> QED BY <2>3, <2>4, <2>5
<1> QED
  BY <1>2, <1>3

(* The steps outside process_entry, but for the handler's. *)
LEMMA OutsideInner ==
  ASSUME Inner,
         \/ \E n \in Nodes : \/ \E c \in Cids : FindProviders(n, c)
                             \/ AskProvider(n) \/ AllAsked(n)
                             \/ \E p \in Nodes \ {n} : VisitPeer(n, p) \/ Withdraw(n, p) \/ Receive(n, p)
         \/ \E q \in Pairs : Break(q) \/ Notice(q)
  PROVE  Inner'
<1>1. ASSUME NEW n \in Nodes, NEW c \in Cids, FindProviders(n, c) PROVE Inner'
  <2> DEFINE t == <<n, "wants">>
  <2>1. PICK S \in SUBSET (Nodes \ {n}) : providers' = [providers EXCEPT ![n] = S]
    BY <1>1 DEF FindProviders
  <2>2. /\ t \in Threads /\ pc[t] = "idle" /\ pc' = [pc EXCEPT ![t] = "next"]
        /\ cid' = [cid EXCEPT ![n] = c] /\ asked' = [asked EXCEPT ![n] = @ \cup {c}]
        /\ UNCHANGED <<store, requestVars, netVars, inbox, peer, i, found, tot, msg, shared, crashed>>
    BY <1>1, ThreadNode DEF FindProviders, Goto
  <2>3. Tables'
    BY <2>2 DEF Inner, Tables, requestVars, netVars
  <2>4. Variables'
    BY <2>1, <2>2 DEF Inner, Variables, Steps
  <2>5. ASSUME NEW u \in Threads PROVE Local(u)'
    <3>1. Local(u) /\ (u # t => pc'[u] = pc[u]) /\ (u = t => pc'[u] = "next")
      BY <2>2 DEF Inner, Variables
    <3> HIDE DEF t
    <3> QED BY <2>2, <3>1 DEF Local, Working, Pair, requestVars
  <2>6. ASSUME NEW k \in Nodes PROVE Wanting(k)'
    <3>1. CASE k = n
      BY <2>1, <2>2, <3>1 DEF Inner, Variables, Wanting
    <3>2. CASE k # n
      <4>1. <<k, "wants">> # t /\ <<k, "wants">> \in Threads
        BY <3>2, ThreadNode
      <4> HIDE DEF t
      <4> QED BY <2>1, <2>2, <3>2, <4>1 DEF Inner, Variables, Wanting
    <3> QED BY <3>1, <3>2
  <2> QED BY <2>3, <2>4, <2>5, <2>6 DEF Inner
<1>2. ASSUME NEW n \in Nodes, AskProvider(n) PROVE Inner'
  <2> DEFINE t == <<n, "wants">>
             e == [cid |-> cid[n], cancel |-> FALSE, request_has_been_sent |-> FALSE,
                   cancel_has_been_sent |-> FALSE]
  <2>1. PICK p \in providers[n] :
          /\ providers' = [providers EXCEPT ![n] = @ \ {p}]
          /\ request' = request \cup {<<n, p>>}
          /\ we' = [we EXCEPT ![<<n, p>>] = Append(@, e)]
          /\ peer' = [peer EXCEPT ![t] = p]
    BY <1>2 DEF AskProvider
  <2>2. /\ t \in Threads /\ pc[t] = "next" /\ pc' = [pc EXCEPT ![t] = "begin"]
        /\ UNCHANGED <<store, asked, they, blocks, netVars, inbox, i, found, tot, msg, cid, shared, crashed>>
    BY <1>2, ThreadNode DEF AskProvider, Goto
  <2>3. p \in Nodes \ {n} /\ <<n, p>> \in Pairs /\ cid[n] \in Cids
    BY <2>1, <2>2, NodePair DEF Inner, Wanting
  <2>4. we' \in [Pairs -> Seq(CidEntries)]
    <3>1. e \in CidEntries
      BY <2>3 DEF CidEntries
    <3> HIDE DEF e
    <3> QED BY <2>1, <2>3, <3>1 DEF Inner, Tables
  <2>5. Tables'
    BY <2>1, <2>2, <2>3, <2>4 DEF Inner, Tables, netVars
  <2>6. Variables'
    BY <2>1, <2>2, <2>3 DEF Inner, Variables, Steps
  <2>7. ASSUME NEW u \in Threads PROVE Local(u)'
    <3>0. Local(u) /\ t[1] = n
      BY DEF Inner
    <3> HIDE DEF t
    <3>1. CASE u = t
      BY <2>1, <2>2, <2>3, <3>0, <3>1 DEF Inner, Variables, Local, Working
    <3>2. CASE u # t
      <4>1. pc'[u] = pc[u] /\ peer'[u] = peer[u]
        BY <2>1, <2>2, <3>2 DEF Inner, Variables
      <4> QED BY <2>2, <3>0, <4>1 DEF Local, Working, Pair
    <3> QED BY <3>1, <3>2
  <2>8. ASSUME NEW k \in Nodes PROVE Wanting(k)'
    <3>1. Wanting(k) /\ providers'[k] \subseteq providers[k]
      BY <2>1 DEF Inner, Variables
    <3>2. <<k, "wants">> \in Threads /\ (<<k, "wants">> = t => k = n)
      BY ThreadNode
    <3> HIDE DEF t
    <3> QED BY <2>2, <2>3, <3>1, <3>2 DEF Inner, Variables, Wanting
  <2> QED BY <2>5, <2>6, <2>7, <2>8 DEF Inner
<1>3. ASSUME NEW n \in Nodes, AllAsked(n) PROVE Inner'
  <2> DEFINE t == <<n, "wants">>
  <2>1. /\ t \in Threads /\ pc[t] = "next" /\ pc' = [pc EXCEPT ![t] = "idle"]
        /\ cid' = [cid EXCEPT ![n] = NoCid]
        /\ UNCHANGED <<store, asked, requestVars, netVars, inbox, peer, i, found, tot, msg, providers,
                       shared, crashed>>
    BY <1>3, ThreadNode DEF AllAsked, Goto
  <2>2. Tables'
    BY <2>1 DEF Inner, Tables, requestVars, netVars
  <2>3. Variables'
    BY <2>1 DEF Inner, Variables, Steps
  <2>4. ASSUME NEW u \in Threads PROVE Local(u)'
    <3>1. Local(u) /\ (u # t => pc'[u] = pc[u]) /\ (u = t => pc'[u] = "idle")
      BY <2>1 DEF Inner, Variables
    <3> HIDE DEF t
    <3> QED BY <2>1, <3>1 DEF Local, Working, Pair, requestVars
  <2>5. ASSUME NEW k \in Nodes PROVE Wanting(k)'
    <3>1. CASE k = n
      BY <2>1, <3>1 DEF Inner, Variables, Wanting
    <3>2. CASE k # n
      <4>1. <<k, "wants">> # t /\ <<k, "wants">> \in Threads
        BY <3>2, ThreadNode
      <4> HIDE DEF t
      <4> QED BY <2>1, <3>2, <4>1 DEF Inner, Variables, Wanting
    <3> QED BY <3>1, <3>2
  <2> QED BY <2>2, <2>3, <2>4, <2>5 DEF Inner
<1>4. ASSUME NEW n \in Nodes, NEW p \in Nodes \ {n}, VisitPeer(n, p) PROVE Inner'
  <2> DEFINE t == <<n, "peers">>
  <2>1. /\ t \in Threads /\ pc[t] = "idle" /\ pc' = [pc EXCEPT ![t] = "begin"]
        /\ peer' = [peer EXCEPT ![t] = p]
        /\ UNCHANGED <<store, requestVars, netVars, inbox, i, found, tot, msg, wantVars, shared, crashed>>
    BY <1>4, ThreadNode DEF VisitPeer, Goto
  <2>2. Tables'
    BY <2>1 DEF Inner, Tables, requestVars, netVars, wantVars
  <2>3. Variables'
    BY <2>1 DEF Inner, Variables, Steps, wantVars
  <2>4. ASSUME NEW u \in Threads PROVE Local(u)'
    <3>0. Local(u) /\ t[1] = n
      BY DEF Inner
    <3> HIDE DEF t
    <3>1. CASE u = t
      BY <2>1, <3>0, <3>1 DEF Inner, Variables, Local, Working
    <3>2. CASE u # t
      <4>1. pc'[u] = pc[u] /\ peer'[u] = peer[u]
        BY <2>1, <3>2 DEF Inner, Variables
      <4> QED BY <2>1, <3>0, <4>1 DEF Local, Working, Pair, requestVars
    <3> QED BY <3>1, <3>2
  <2>5. ASSUME NEW k \in Nodes PROVE Wanting(k)'
    <3>1. <<k, "wants">> \in Threads /\ <<k, "wants">> # t
      BY ThreadNode
    <3> HIDE DEF t
    <3> QED BY <2>1, <3>1 DEF Inner, Variables, Wanting, wantVars
  <2> QED BY <2>2, <2>3, <2>4, <2>5 DEF Inner
<1>5. ASSUME NEW n \in Nodes, NEW p \in Nodes \ {n}, Withdraw(n, p) PROVE Inner'
  <2>1. PICK k \in 1 .. Len(we[<<n, p>>]) : we' = [we EXCEPT ![<<n, p>>][k].cancel = TRUE]
    BY <1>5 DEF Withdraw
  <2>2. <<n, p>> \in Pairs
    BY NodePair
  <2>3. we' \in [Pairs -> Seq(CidEntries)]
    <3> DEFINE s == we[<<n, p>>]
               e == [s[k] EXCEPT !.cancel = TRUE]
    <3>1. s \in Seq(CidEntries) /\ s[k] \in CidEntries /\ k \in 1 .. Len(s)
      BY <2>2 DEF Inner, Tables
    <3>2. e \in CidEntries
      BY <3>1 DEF CidEntries
    <3>3. we' = [we EXCEPT ![<<n, p>>] = [s EXCEPT ![k] = e]]
      BY <2>1
    <3> HIDE DEF s, e
    <3>4. [s EXCEPT ![k] = e] \in Seq(CidEntries)
      BY <3>1, <3>2, ExceptSeq
    <3> QED BY <2>2, <3>3, <3>4 DEF Inner, Tables
  <2>4. Tables'
    BY <1>5, <2>3 DEF Withdraw, Inner, Tables, netVars, wantVars
  <2> QED BY <1>5, <2>4, OutsideStep DEF Withdraw, wantVars
<1>6. ASSUME NEW n \in Nodes, NEW p \in Nodes \ {n}, Receive(n, p) PROVE Inner'
  <2> DEFINE r == <<p, n>>
             m == Head(link[r])
  <2>1. <<n, p>> \in Pairs /\ r \in Pairs
    BY NodePair
  <2>2. link[r] \in Seq(Messages) /\ link[r] # <<>> /\ Len(link[r]) <= MaxInFlight
    BY <1>6, <2>1 DEF Receive, Inner, Tables
  <2>3. m \in Messages /\ Tail(link[r]) \in Seq(Messages) /\ Len(Tail(link[r])) <= MaxInFlight
    BY <2>2, NetworkAssumption
  <2>4. /\ link' = [link EXCEPT ![r] = Tail(link[r])]
        /\ store' = [store EXCEPT ![n] = @ \cup ToSet(m.payload)]
        /\ inbox' = [inbox EXCEPT ![<<n, p>>] = m.wantlist]
        /\ request' \subseteq request \cup {<<n, p>>}
    BY <1>6 DEF Receive
  <2> HIDE DEF m
  <2>5. ToSet(m.payload) \subseteq Cids /\ m.wantlist \in Seq(Wants)
    BY <2>3, InSequence DEF Messages
  <2>6. link' \in [Pairs -> Seq(Messages)] /\ \A q \in Pairs : Len(link'[q]) <= MaxInFlight
    <3> HIDE DEF r
    <3> QED BY <2>1, <2>3, <2>4 DEF Inner, Tables
  <2>7. store' \in [Nodes -> SUBSET Cids] /\ inbox' \in [Pairs -> Seq(Wants)]
    BY <2>1, <2>4, <2>5 DEF Inner, Tables
  <2>8. Tables'
    BY <1>6, <2>1, <2>4, <2>6, <2>7 DEF Receive, Inner, Tables, wantVars
  <2> QED BY <1>6, <2>8, OutsideStep DEF Receive, wantVars
<1>7. ASSUME NEW q \in Pairs, Break(q) PROVE Inner'
  <2>1. up' \subseteq Pairs /\ link' \in [Pairs -> Seq(Messages)]
        /\ \A r \in Pairs : Len(link'[r]) <= MaxInFlight
    BY <1>7, LinksStay DEF Break
  <2>2. Tables'
    BY <1>7, <2>1, NetworkAssumption DEF Break, Fault, Inner, Tables, requestVars, wantVars
  <2> QED BY <1>7, <2>2, OutsideStep DEF Break, requestVars, wantVars
<1>8. ASSUME NEW q \in Pairs, Notice(q) PROVE Inner'
  <2>1. Tables'
    BY <1>8 DEF Notice, Inner, Tables, requestVars, wantVars
  <2> QED BY <1>8, <2>1, OutsideStep DEF Notice, requestVars, wantVars
<1> QED
  BY <1>1, <1>2, <1>3, <1>4, <1>5, <1>6, <1>7, <1>8

(* A message, or the rest of one, that is discarded: the queues only lose. *)
LEMMA DiscardLoses ==
  ASSUME Inner, NEW n \in Nodes, NEW p \in Nodes \ {n}, Discard(n, p)
  PROVE  /\ UNCHANGED <<request, they, we, blocks, up, sees, localVars, wantVars, shared, crashed>>
         /\ faults' \in 0 .. MaxFaults /\ faults' # 0
         /\ store' \in [Nodes -> SUBSET Cids] /\ inbox' \in [Pairs -> Seq(Wants)]
         /\ link' \in [Pairs -> Seq(Messages)] /\ \A q \in Pairs : Len(link'[q]) <= MaxInFlight
         /\ \A q \in Pairs : /\ ToSet(link'[q]) \subseteq ToSet(link[q])
                             /\ ToSet(inbox'[q]) \subseteq ToSet(inbox[q])
                             /\ link[q] = <<>> => link'[q] = <<>>
<1>1. /\ UNCHANGED <<request, they, we, blocks, up, sees, localVars, wantVars, shared, crashed>>
      /\ faults < MaxFaults /\ faults' = faults + 1
  BY DEF Discard, Fault, requestVars
<1>2. faults' \in 0 .. MaxFaults /\ faults' # 0
  BY <1>1, NetworkAssumption DEF Inner, Tables
<1>3. /\ link \in [Pairs -> Seq(Messages)] /\ \A q \in Pairs : Len(link[q]) <= MaxInFlight
      /\ inbox \in [Pairs -> Seq(Wants)] /\ store \in [Nodes -> SUBSET Cids]
  BY DEF Inner, Tables
<1>4. PICK q \in Pairs, r \in Pairs : q = <<n, p>> /\ r = <<p, n>> /\ Flip(q) = r
  BY NodePair DEF Flip
<1>5. CASE /\ link[r] # <<>> /\ inbox' = inbox /\ link' = [link EXCEPT ![r] = Tail(link[r])]
           /\ store' = store \/ store' = [store EXCEPT ![n] = @ \cup ToSet(Head(link[r]).payload)]
  <2> DEFINE m == Head(link[r])
  <2>1. link[r] \in Seq(Messages) /\ link[r] # <<>> /\ Len(link[r]) <= MaxInFlight
    BY <1>3, <1>5
  <2>2. /\ m \in Messages /\ Tail(link[r]) \in Seq(Messages) /\ Len(Tail(link[r])) <= MaxInFlight
        /\ ToSet(Tail(link[r])) \subseteq ToSet(link[r])
    <3>1. ToSet(link[r]) = ToSet(Tail(link[r])) \cup {m}
      BY <2>1, InSequence
    <3> QED BY <2>1, <3>1, NetworkAssumption
  <2> HIDE DEF m
  <2>3. ToSet(m.payload) \subseteq Cids
    BY <2>2, InSequence DEF Messages
  <2>4. store' \in [Nodes -> SUBSET Cids]
    BY <1>3, <1>5, <2>3 DEF m
  <2>5. /\ link' \in [Pairs -> Seq(Messages)]
        /\ \A x \in Pairs : link'[x] = IF x = r THEN Tail(link[r]) ELSE link[x]
    BY <1>3, <1>5, <2>2
  <2>6. \A x \in Pairs : Len(link'[x]) <= MaxInFlight /\ ToSet(link'[x]) \subseteq ToSet(link[x])
    BY <1>3, <2>2, <2>5
  <2> QED BY <1>1, <1>2, <1>3, <1>5, <2>1, <2>4, <2>5, <2>6
<1>6. CASE inbox' = [inbox EXCEPT ![q] = <<>>] /\ UNCHANGED <<store, link>>
  <2>1. inbox' \in [Pairs -> Seq(Wants)] /\ \A x \in Pairs : inbox'[x] = inbox[x] \/ inbox'[x] = <<>>
    BY <1>3, <1>6
  <2>2. \A x \in Pairs : ToSet(inbox'[x]) \subseteq ToSet(inbox[x])
    BY <2>1, ShortSequences
  <2> QED BY <1>1, <1>2, <1>3, <1>6, <2>1, <2>2
<1> QED
  BY <1>4, <1>5, <1>6 DEF Discard

LEMMA DiscardInner ==
  ASSUME Inner, NEW n \in Nodes, NEW p \in Nodes \ {n}, Discard(n, p)
  PROVE  Inner'
<1>1. Tables'
  BY DiscardLoses DEF Inner, Tables, wantVars
<1> QED
  BY <1>1, DiscardLoses, OutsideStep DEF wantVars

(* A message that cannot be encoded. *)
LEMMA SendFailsEnds ==
  ASSUME Inner, NEW t \in Threads, SendFails(t)
  PROVE  /\ UNCHANGED <<store, request, they, we, blocks, up, sees, link, inbox, wantVars, shared, crashed>>
         /\ faults' \in 0 .. MaxFaults /\ faults' # 0
         /\ pc[t] = "send" /\ Working(t) /\ Finish(t)
<1>1. /\ UNCHANGED <<store, request, they, we, blocks, up, sees, link, inbox, wantVars, shared, crashed>>
      /\ faults < MaxFaults /\ faults' = faults + 1 /\ pc[t] = "send" /\ Finish(t)
  BY DEF SendFails, Fault, requestVars
<1>2. faults' \in 0 .. MaxFaults /\ faults' # 0
  BY <1>1, NetworkAssumption DEF Inner, Tables
<1> QED
  BY <1>1, <1>2 DEF Working

LEMMA SendFailsInner == ASSUME Inner, NEW t \in Threads, SendFails(t) PROVE Inner'
<1>1. Tables'
  BY SendFailsEnds DEF Inner, Tables, wantVars
<1> QED
  BY <1>1, SendFailsEnds, FinishStep DEF wantVars

(* The steps of process_entry: it connects, or gives up. *)
LEMMA BeginInner == ASSUME Inner, NEW t \in Threads, Begin(t) PROVE Inner'
<1> DEFINE q == Pair(t)
<1>1. /\ pc[t] = "begin" /\ Working(t) /\ q \in Pairs
      /\ UNCHANGED <<store, requestVars, inbox, wantVars, shared, crashed>>
  BY WorksOnPair DEF Begin, Working
<1>2. CASE Finish(t) /\ (UNCHANGED netVars \/ (UNCHANGED <<up, sees, link>> /\ faults < MaxFaults
                                              /\ faults' = faults + 1))
  <2>1. Tables'
    BY <1>1, <1>2, NetworkAssumption DEF Inner, Tables, netVars, requestVars, wantVars
  <2> QED BY <1>1, <1>2, <2>1, FinishStep DEF requestVars, wantVars
<1>3. CASE /\ Goto(t, "gather") /\ i' = [i EXCEPT ![t] = 1] /\ UNCHANGED <<peer, found, tot, msg, faults>>
           /\ UNCHANGED <<up, sees, link>> \/ Connect(q)
  <2>1. /\ up' \subseteq Pairs /\ sees' \subseteq Pairs /\ link' \in [Pairs -> Seq(Messages)]
        /\ \A r \in Pairs : Len(link'[r]) <= MaxInFlight
    BY <1>1, <1>3, LinksStay DEF Inner, Tables
  <2>2. Tables'
    BY <1>1, <1>3, <2>1 DEF Inner, Tables, requestVars, wantVars
  <2>3. Variables'
    BY <1>1, <1>3 DEF Inner, Variables, Goto, Steps, wantVars
  <2>4. pc'[t] = "gather" /\ i'[t] = 1 /\ peer' = peer /\ msg' = msg
    BY <1>3 DEF Inner, Variables, Goto
  <2>5. Working(t)' /\ Local(t)'
    BY <1>1, <2>4 DEF Inner, Local, Working
  <2>6. \A u \in Threads \ {t} : pc'[u] = pc[u] /\ i'[u] = i[u] /\ found'[u] = found[u] /\ msg'[u] = msg[u]
    BY <1>3 DEF Inner, Variables, Goto
  <2>7. they' = they /\ UNCHANGED <<peer, cid, providers>>
    BY <1>1, <1>3 DEF requestVars, wantVars
  <2> QED BY <1>1, <2>2, <2>3, <2>5, <2>6, <2>7, ThreadStep
<1> QED
  BY <1>2, <1>3 DEF Begin, Fault, netVars

(* The blockstore is asked for the entry at the index, or the index goes on. *)
LEMMA GatherInner == ASSUME Inner, NEW t \in Threads, Gather(t) PROVE Inner'
<1> DEFINE q == Pair(t)
<1>1. /\ pc[t] = "gather" /\ Working(t) /\ q \in Pairs /\ i[t] >= 1 /\ i[t] \in Int
      /\ UNCHANGED <<store, requestVars, netVars, inbox, peer, tot, msg, wantVars, shared, crashed>>
  BY WorksOnPair DEF Gather, Working, Inner, Local, Variables
<1>2. they[q] \in Seq(Wants)
  BY <1>1 DEF Inner, Tables
<1>3. Tables'
  BY <1>1 DEF Inner, Tables, requestVars, netVars, wantVars
<1>4. CASE Goto(t, "copy") /\ UNCHANGED <<i, found>>
  <2>1. Variables'
    BY <1>1, <1>4 DEF Inner, Variables, Goto, Steps, wantVars
  <2>2. pc'[t] = "copy" /\ peer' = peer /\ msg' = msg
    BY <1>1, <1>4 DEF Inner, Variables, Goto
  <2>3. Working(t)' /\ Local(t)'
    BY <1>1, <2>2 DEF Inner, Local, Working
  <2>4. \A u \in Threads \ {t} : pc'[u] = pc[u] /\ i'[u] = i[u] /\ found'[u] = found[u] /\ msg'[u] = msg[u]
    BY <1>1, <1>4 DEF Inner, Variables, Goto
  <2>5. they' = they /\ UNCHANGED <<peer, cid, providers>>
    BY <1>1 DEF requestVars, wantVars
  <2> QED BY <1>1, <1>3, <2>1, <2>3, <2>4, <2>5, ThreadStep
<1>5. CASE /\ i[t] <= Len(they[q]) /\ found' = [found EXCEPT ![t] = they[q][i[t]].cid]
           /\ Goto(t, "add") /\ UNCHANGED i
  <2>0. they[q][i[t]].cid \in Cids
    <3> HIDE DEF q
    <3>1. i[t] \in 1 .. Len(they[q])
      BY <1>1, <1>2, <1>5
    <3>2. they[q][i[t]] \in Wants
      BY <1>2, <3>1
    <3> QED BY <3>2 DEF Wants
  <2>1. Variables'
    BY <1>1, <1>5, <2>0 DEF Inner, Variables, Goto, Steps, wantVars
  <2>2. /\ pc'[t] = "add" /\ peer' = peer /\ msg' = msg /\ i'[t] = i[t] /\ they' = they
        /\ found'[t] = they[q][i[t]].cid /\ Pair(t)' = q
    BY <1>1, <1>5 DEF Inner, Variables, Goto, Pair, requestVars
  <2>3. Working(t)' /\ Local(t)'
    BY <1>1, <1>5, <2>0, <2>2 DEF Inner, Local, Working
  <2>4. \A u \in Threads \ {t} : pc'[u] = pc[u] /\ i'[u] = i[u] /\ found'[u] = found[u] /\ msg'[u] = msg[u]
    BY <1>1, <1>5 DEF Inner, Variables, Goto
  <2>5. they' = they /\ UNCHANGED <<peer, cid, providers>>
    BY <1>1 DEF requestVars, wantVars
  <2> QED BY <1>1, <1>3, <2>1, <2>3, <2>4, <2>5, ThreadStep
<1>6. CASE i' = [i EXCEPT ![t] = @ + 1] /\ UNCHANGED <<pc, found>>
  <2>1. Variables'
    BY <1>1, <1>6 DEF Inner, Variables, wantVars
  <2>2. pc' = pc /\ peer' = peer /\ msg' = msg /\ i'[t] = i[t] + 1
    BY <1>1, <1>6 DEF Inner, Variables
  <2>3. Working(t)' /\ Local(t)'
    BY <1>1, <2>2 DEF Inner, Local, Working
  <2>4. \A u \in Threads \ {t} : pc'[u] = pc[u] /\ i'[u] = i[u] /\ found'[u] = found[u] /\ msg'[u] = msg[u]
    BY <1>1, <1>6 DEF Inner, Variables
  <2>5. they' = they /\ UNCHANGED <<peer, cid, providers>>
    BY <1>1 DEF requestVars, wantVars
  <2> QED BY <1>1, <1>3, <2>1, <2>3, <2>4, <2>5, ThreadStep
<1> QED
  BY <1>4, <1>5, <1>6 DEF Gather

(* GatherAdd marks the entry its block is for, and no other. *)
LEMMA GatherAddMarks ==
  ASSUME Inner, NEW t \in Threads, GatherAdd(t), NEW q, q = Pair(t)
  PROVE  /\ pc[t] = "add" /\ Working(t) /\ q \in Pairs /\ found[t] \in Cids
         /\ they' \in [Pairs -> Seq(Wants)]
         /\ \A r \in Pairs : /\ Len(they'[r]) = Len(they[r])
                             /\ \A k \in 1 .. Len(they[r]) : they'[r][k].cid = they[r][k].cid
         /\ \A r \in Pairs \ {q} : they'[r] = they[r]
         /\ \A k \in 1 .. Len(they[q]) :
              they'[q][k].cancel => they[q][k].cancel \/ they[q][k].cid = found[t]
<1>1. pc[t] = "add" /\ Working(t) /\ q \in Pairs /\ Local(t) /\ i[t] \in Int
  BY WorksOnPair DEF GatherAdd, Working, Inner, Variables
<1>2. they \in [Pairs -> Seq(Wants)]
  BY DEF Inner, Tables
<1>3. CASE i[t] > 0
  <2> DEFINE s == they[q]
             e == [s[i[t]] EXCEPT !.cancel = TRUE]
             u == [s EXCEPT ![i[t]] = e]
  <2>1. s \in Seq(Wants) /\ i[t] \in 1 .. Len(s) /\ s[i[t]].cid = found[t]
    BY <1>1, <1>2, <1>3 DEF Local
  <2>2. e \in Wants /\ e.cid = s[i[t]].cid
    <3> HIDE DEF s
    <3>1. s[i[t]] \in Wants
      BY <2>1
    <3> QED BY <3>1 DEF Wants
  <2>3. they' = [they EXCEPT ![q] = u]
    BY <1>3 DEF GatherAdd
  <2> HIDE DEF s, e
  <2>4. /\ u \in Seq(Wants) /\ Len(u) = Len(s)
        /\ \A k \in 1 .. Len(s) : u[k] = IF k = i[t] THEN e ELSE s[k]
    BY <2>1, <2>2, ExceptSeq
  <2> HIDE DEF u
  <2>5. \A r \in Pairs : they'[r] = IF r = q THEN u ELSE they[r]
    BY <1>2, <2>3
  <2>6. they' \in [Pairs -> Seq(Wants)]
    BY <1>1, <1>2, <2>3, <2>4
  <2> QED BY <1>1, <2>1, <2>2, <2>4, <2>5, <2>6 DEF s, Local
<1>4. CASE ~(i[t] > 0)
  <2>1. they' = they
    BY <1>4 DEF GatherAdd
  <2> QED BY <1>1, <1>2, <2>1 DEF Local
<1> QED
  BY <1>3, <1>4

(* The block is queued; the index goes on, from where the entry was. *)
LEMMA GatherAddInner == ASSUME Inner, NEW t \in Threads, GatherAdd(t) PROVE Inner'
<1> DEFINE q == Pair(t)
<1>1. /\ pc[t] = "add" /\ Working(t) /\ q \in Pairs /\ found[t] \in Cids
      /\ they' \in [Pairs -> Seq(Wants)]
      /\ \A r \in Pairs : /\ Len(they'[r]) = Len(they[r])
                          /\ \A k \in 1 .. Len(they[r]) : they'[r][k].cid = they[r][k].cid
  BY GatherAddMarks
<1>2. /\ blocks' = [blocks EXCEPT ![q] = Append(@, found[t])]
      /\ i' = [i EXCEPT ![t] = IF @ > 0 THEN @ + 1 ELSE 1 - @]
      /\ found' = [found EXCEPT ![t] = NoCid] /\ Goto(t, "gather")
      /\ UNCHANGED <<store, request, we, netVars, inbox, peer, tot, msg, wantVars, shared, crashed>>
  BY DEF GatherAdd
<1> HIDE DEF q
<1>3. blocks' \in [Pairs -> Seq(Cids)]
  BY <1>1, <1>2 DEF Inner, Tables
<1>4. Tables'
  BY <1>1, <1>2, <1>3 DEF Inner, Tables, netVars, wantVars
<1>5. i[t] \in Int /\ i'[t] >= 1 /\ i' \in [Threads -> Int]
  BY <1>2 DEF Inner, Variables
<1>6. Variables'
  BY <1>2, <1>5 DEF Inner, Variables, Goto, Steps, wantVars
<1>7. pc'[t] = "gather" /\ peer' = peer /\ msg' = msg
  BY <1>2 DEF Inner, Variables, Goto
<1>8. Working(t)' /\ Local(t)'
  BY <1>1, <1>5, <1>7 DEF Inner, Local, Working
<1>9. \A u \in Threads \ {t} : pc'[u] = pc[u] /\ i'[u] = i[u] /\ found'[u] = found[u] /\ msg'[u] = msg[u]
  BY <1>2 DEF Inner, Variables, Goto
<1>10. UNCHANGED <<peer, cid, providers>>
  BY <1>2 DEF wantVars
<1> QED
  BY <1>1, <1>4, <1>6, <1>8, <1>9, <1>10, ThreadStep

(* message_add_blocks: the message has the blocks, and their wants are marked. *)
LEMMA CopyBlocksInner == ASSUME Inner, NEW t \in Threads, CopyBlocks(t) PROVE Inner'
<1> DEFINE q == Pair(t)
           s == CancelCids(they[q], ToSet(blocks[q]))
<1>1. pc[t] = "copy" /\ Working(t) /\ q \in Pairs /\ t[1] \in Nodes /\ q[1] = t[1]
  BY WorksOnPair, ThreadNode DEF CopyBlocks, Working
<1>2. /\ msg' = [msg EXCEPT ![t].payload = blocks[q]]
      /\ tot' = [tot EXCEPT ![t] = Len(blocks[q])]
      /\ they' = [they EXCEPT ![q] = s]
      /\ shared' \subseteq shared \cup {q[1]} /\ Goto(t, "delete")
      /\ UNCHANGED <<store, request, we, blocks, netVars, inbox, peer, i, found, wantVars, crashed>>
  BY DEF CopyBlocks
<1>3. they[q] \in Seq(Wants) /\ blocks[q] \in Seq(Cids)
  BY <1>1 DEF Inner, Tables
<1>4. s \in Seq(Wants) /\ Len(s) = Len(they[q]) /\ \A k \in 1 .. Len(they[q]) : s[k].cid = they[q][k].cid
  BY <1>3, CancelCidsMarks
<1> HIDE DEF q, s
<1>5. /\ they' \in [Pairs -> Seq(Wants)]
      /\ \A r \in Pairs : /\ Len(they'[r]) = Len(they[r])
                          /\ \A k \in 1 .. Len(they[r]) : they'[r][k].cid = they[r][k].cid
  BY <1>1, <1>2, <1>4 DEF Inner, Tables
<1>6. Tables'
  <2>1. shared' \subseteq Nodes
    BY <1>1, <1>2 DEF Inner, Tables
  <2> QED BY <1>2, <1>5, <2>1 DEF Inner, Tables, netVars, wantVars
<1>7. msg' \in [Threads -> Messages]
  <2>1. msg[t] \in Messages
    BY DEF Inner, Variables
  <2>2. [msg[t] EXCEPT !.payload = blocks[q]] \in Messages
    BY <1>3, <2>1 DEF Messages
  <2>3. msg' = [msg EXCEPT ![t] = [msg[t] EXCEPT !.payload = blocks[q]]]
    BY <1>2
  <2> QED BY <2>2, <2>3 DEF Inner, Variables
<1>8. Variables'
  BY <1>2, <1>3, <1>7 DEF Inner, Variables, Goto, Steps, wantVars
<1>9. pc'[t] = "delete" /\ peer' = peer
  BY <1>2 DEF Inner, Variables, Goto
<1>10. Working(t)' /\ Local(t)'
  BY <1>1, <1>9 DEF Inner, Local, Working
<1>11. \A u \in Threads \ {t} : pc'[u] = pc[u] /\ i'[u] = i[u] /\ found'[u] = found[u] /\ msg'[u] = msg[u]
  BY <1>2 DEF Inner, Variables, Goto
<1>12. UNCHANGED <<peer, cid, providers>>
  BY <1>2 DEF wantVars
<1> QED
  BY <1>1, <1>5, <1>6, <1>8, <1>10, <1>11, <1>12, ThreadStep

(* The blocks leave the front of blocks_we_want_to_send. *)
LEMMA DeleteBlocksInner == ASSUME Inner, NEW t \in Threads, DeleteBlocks(t) PROVE Inner'
<1> DEFINE q == Pair(t)
           s == SubSeq(blocks[q], tot[t] + 1, Len(blocks[q]))
<1>1. pc[t] = "delete" /\ Working(t) /\ q \in Pairs
  BY WorksOnPair DEF DeleteBlocks, Working
<1>2. /\ blocks' = [blocks EXCEPT ![q] = s] /\ tot' = [tot EXCEPT ![t] = 0] /\ Goto(t, "wantlist")
      /\ UNCHANGED <<store, request, they, we, netVars, inbox, peer, i, found, msg, wantVars, shared,
                     crashed>>
  BY DEF DeleteBlocks
<1>3. s \in Seq(Cids)
  <2>1. blocks[q] \in Seq(Cids) /\ tot[t] \in Nat
    BY <1>1 DEF Inner, Tables, Variables
  <2> QED BY <2>1, InSubSeq
<1> HIDE DEF q, s
<1>4. Tables'
  <2>1. blocks' \in [Pairs -> Seq(Cids)]
    BY <1>1, <1>2, <1>3 DEF Inner, Tables
  <2> QED BY <1>2, <2>1 DEF Inner, Tables, netVars, wantVars
<1>5. Variables'
  BY <1>2 DEF Inner, Variables, Goto, Steps, wantVars
<1>6. pc'[t] = "wantlist" /\ peer' = peer
  BY <1>2 DEF Inner, Variables, Goto
<1>7. Working(t)' /\ Local(t)'
  BY <1>1, <1>6 DEF Inner, Local, Working
<1>8. \A u \in Threads \ {t} : pc'[u] = pc[u] /\ i'[u] = i[u] /\ found'[u] = found[u] /\ msg'[u] = msg[u]
  BY <1>2 DEF Inner, Variables, Goto
<1>9. UNCHANGED <<peer, cid, providers, they>>
  BY <1>2 DEF wantVars
<1> QED
  BY <1>1, <1>4, <1>5, <1>7, <1>8, <1>9, ThreadStep

\* An item of a message for an entry of cids_we_want.
ItemOf(w, entries) ==
  \E k \in 1 .. Len(entries) : w.cid = entries[k].cid /\ w.cancel = entries[k].cancel

(* The flags of cids_we_want after message_add_wantlist_items, and its items. *)
LEMMA AddWantlistMarks ==
  ASSUME Inner, NEW t \in Threads, AddWantlist(t), NEW q, q = Pair(t)
  PROVE  /\ pc[t] = "wantlist" /\ Working(t) /\ q \in Pairs
         /\ we' \in [Pairs -> Seq(CidEntries)]
         /\ \A r \in Pairs \ {q} : we'[r] = we[r]
         /\ Len(we'[q]) = Len(we[q])
         /\ \A k \in 1 .. Len(we[q]) :
              /\ we'[q][k].cid = we[q][k].cid /\ we'[q][k].cancel = we[q][k].cancel
              /\ we[q][k].request_has_been_sent => we'[q][k].request_has_been_sent
              /\ ~we[q][k].cancel => we'[q][k].request_has_been_sent
         /\ msg' \in [Threads -> Messages]
         /\ \A u \in Threads \ {t} : msg'[u] = msg[u]
         /\ msg'[t].payload = msg[t].payload
         /\ \A w \in ToSet(msg'[t].wantlist) : ItemOf(w, we[q])
         /\ \A k \in 1 .. Len(we[q]) : ToSend(we[q][k]) => ToSet(msg'[t].wantlist) # {}
<1> DEFINE s == we[q]
           v == [k \in 1 .. Len(s) |-> MarkSent(s[k])]
           l == WantlistItems(s)
           m == [msg[t] EXCEPT !.wantlist = l]
<1>1. pc[t] = "wantlist" /\ Working(t) /\ q \in Pairs
  BY WorksOnPair DEF AddWantlist, Working
<1>2. s \in Seq(CidEntries) /\ msg[t] \in Messages
  BY <1>1 DEF Inner, Tables, Variables
<1>3. msg' = [msg EXCEPT ![t] = m] /\ we' = [we EXCEPT ![q] = v]
  BY DEF AddWantlist
<1>4. /\ l \in Seq(Wants)
      /\ \A w \in ToSet(l) : ItemOf(w, s)
      /\ \A k \in 1 .. Len(s) : ToSend(s[k]) => ToSet(l) # {}
  <2> HIDE DEF s
  <2> QED BY <1>2, ItemsAreEntries DEF ItemOf
<1> HIDE DEF s, l
<1>5. m \in Messages /\ m.payload = msg[t].payload /\ m.wantlist = l
  BY <1>2, <1>4 DEF Messages
<1>6. \A k \in 1 .. Len(s) :
        /\ MarkSent(s[k]) \in CidEntries /\ MarkSent(s[k]).cid = s[k].cid
        /\ MarkSent(s[k]).cancel = s[k].cancel
        /\ s[k].request_has_been_sent => MarkSent(s[k]).request_has_been_sent
        /\ ~s[k].cancel => MarkSent(s[k]).request_has_been_sent
  <2>1. \A k \in 1 .. Len(s) : s[k] \in CidEntries
    BY <1>2
  <2> QED BY <2>1, MarkSentMarks
<1>7. v \in Seq(CidEntries) /\ Len(v) = Len(s) /\ \A k \in 1 .. Len(s) : v[k] = MarkSent(s[k])
  BY <1>2, <1>6
<1> HIDE DEF v, m
<1>8. we' \in [Pairs -> Seq(CidEntries)] /\ we'[q] = v /\ \A r \in Pairs \ {q} : we'[r] = we[r]
  BY <1>1, <1>3, <1>7 DEF Inner, Tables
<1>9. msg' \in [Threads -> Messages] /\ msg'[t] = m /\ \A u \in Threads \ {t} : msg'[u] = msg[u]
  BY <1>3, <1>5 DEF Inner, Variables
<1> QED
  BY <1>1, <1>4, <1>5, <1>6, <1>7, <1>8, <1>9 DEF s

(* The message takes the wants and cancels that have not been sent. *)
LEMMA AddWantlistInner == ASSUME Inner, NEW t \in Threads, AddWantlist(t) PROVE Inner'
<1>1. /\ pc[t] = "wantlist" /\ Working(t) /\ we' \in [Pairs -> Seq(CidEntries)]
      /\ msg' \in [Threads -> Messages] /\ \A u \in Threads \ {t} : msg'[u] = msg[u]
  BY AddWantlistMarks
<1>2. /\ Goto(t, "send")
      /\ UNCHANGED <<store, request, they, blocks, netVars, inbox, peer, i, found, tot, wantVars, shared,
                     crashed>>
  BY DEF AddWantlist
<1>3. Tables'
  BY <1>1, <1>2 DEF Inner, Tables, netVars, wantVars
<1>4. Variables'
  BY <1>1, <1>2 DEF Inner, Variables, Goto, Steps, wantVars
<1>5. pc'[t] = "send" /\ peer' = peer
  BY <1>2 DEF Inner, Variables, Goto
<1>6. Working(t)' /\ Local(t)'
  BY <1>1, <1>5 DEF Inner, Local, Working
<1>7. \A u \in Threads \ {t} : pc'[u] = pc[u] /\ i'[u] = i[u] /\ found'[u] = found[u] /\ msg'[u] = msg[u]
  BY <1>1, <1>2 DEF Inner, Variables, Goto
<1>8. UNCHANGED <<peer, cid, providers, they>>
  BY <1>2 DEF wantVars
<1> QED
  BY <1>1, <1>3, <1>4, <1>6, <1>7, <1>8, ThreadStep

(* What a send does to the links: the message is on the link of its pair, or
   nowhere. *)
LEMMA SendLinks ==
  ASSUME Inner, NEW t \in Threads, Send(t), NEW q, q = Pair(t)
  PROVE  /\ pc[t] = "send" /\ Working(t) /\ q \in Pairs
         /\ up' \subseteq Pairs /\ sees' \subseteq Pairs /\ crashed' \subseteq Nodes
         /\ link' \in [Pairs -> Seq(Messages)] /\ \A r \in Pairs : Len(link'[r]) <= MaxInFlight
         /\ \A r \in Pairs : \/ link'[r] = link[r]
                             \/ link'[r] = <<>>
                             \/ r = q /\ (link'[r] = Append(link[r], msg[t]) \/ link'[r] = <<msg[t]>>)
<1>1. pc[t] = "send" /\ Working(t) /\ q \in Pairs /\ t[1] \in Nodes
  BY WorksOnPair, ThreadNode DEF Send, Working
<1>2. link \in [Pairs -> Seq(Messages)] /\ \A r \in Pairs : Len(link[r]) <= MaxInFlight
  BY DEF Inner, Tables
<1>3. msg[t] \in Messages /\ MaxInFlight \in Nat \ {0}
  BY NetworkAssumption DEF Inner, Variables
<1>4. up \subseteq Pairs /\ sees \subseteq Pairs /\ crashed \subseteq Nodes
  BY DEF Inner, Tables
<1>5. CASE /\ Len(link[q]) < MaxInFlight
           /\ link' = [link EXCEPT ![q] = Append(@, msg[t])]
           /\ UNCHANGED <<up, sees, crashed>>
  <2> DEFINE a == Append(link[q], msg[t])
  <2>1. a \in Seq(Messages) /\ Len(a) = Len(link[q]) + 1
    BY <1>1, <1>2, <1>3
  <2>2. Len(a) <= MaxInFlight
    BY <1>1, <1>2, <1>3, <1>5, <2>1
  <2>3. link' = [link EXCEPT ![q] = a]
    BY <1>5
  <2> HIDE DEF a
  <2>4. link' \in [Pairs -> Seq(Messages)] /\ \A r \in Pairs : link'[r] = IF r = q THEN a ELSE link[r]
    BY <1>1, <1>2, <2>1, <2>3
  <2>5. \A r \in Pairs : Len(link'[r]) <= MaxInFlight
    BY <1>2, <2>2, <2>4
  <2> QED BY <1>1, <1>4, <1>5, <2>4, <2>5 DEF a
<1>6. CASE UNCHANGED <<up, sees, link, crashed>>
  BY <1>1, <1>2, <1>4, <1>6
<1>7. CASE /\ up' = up \cup {q, Flip(q)} /\ sees' = sees \cup {q, Flip(q)}
           /\ link' = [link EXCEPT ![q] = <<msg[t]>>, ![Flip(q)] = <<>>]
           /\ UNCHANGED crashed
  <2> DEFINE a == <<msg[t]>>
             f == Flip(q)
  <2>1. f \in Pairs /\ f # q
    BY <1>1, FlipPair
  <2>2. a \in Seq(Messages) /\ Len(a) = 1 /\ <<>> \in Seq(Messages) /\ Len(<<>>) = 0
    BY <1>3
  <2>3. link' = [link EXCEPT ![q] = a, ![f] = <<>>] /\ up' = up \cup {q, f} /\ sees' = sees \cup {q, f}
    BY <1>7
  <2> HIDE DEF a, f
  <2>4. /\ link' \in [Pairs -> Seq(Messages)]
        /\ \A r \in Pairs : link'[r] = IF r = q THEN a ELSE IF r = f THEN <<>> ELSE link[r]
    BY <1>1, <1>2, <2>1, <2>2, <2>3
  <2>5. \A r \in Pairs : Len(link'[r]) <= MaxInFlight
    <3>1. 1 <= MaxInFlight /\ 0 <= MaxInFlight
      BY <1>3
    <3>2. Len(a) <= MaxInFlight /\ Len(<<>>) <= MaxInFlight
      BY <2>2, <3>1
    <3> QED BY <1>2, <2>4, <3>2
  <2> QED BY <1>1, <1>4, <1>7, <2>1, <2>3, <2>4, <2>5 DEF a
<1>8. CASE Crash(t[1]) /\ UNCHANGED sees
  <2>1. up' \subseteq Pairs /\ link' \in [Pairs -> Seq(Messages)]
        /\ \A r \in Pairs : Len(link'[r]) <= MaxInFlight
    BY <1>8, LinksStay DEF Crash
  <2>2. \A r \in Pairs : link'[r] = link[r] \/ link'[r] = <<>>
    BY <1>8 DEF Crash, Drop
  <2> QED BY <1>1, <1>4, <1>8, <2>1, <2>2 DEF Crash
<1> QED
  BY <1>5, <1>6, <1>7, <1>8 DEF Send

(* The message is sent, or lost; process_entry ends. *)
LEMMA SendInner == ASSUME Inner, NEW t \in Threads, Send(t) PROVE Inner'
<1>1. /\ Working(t) /\ up' \subseteq Pairs /\ sees' \subseteq Pairs /\ crashed' \subseteq Nodes
      /\ link' \in [Pairs -> Seq(Messages)] /\ \A r \in Pairs : Len(link'[r]) <= MaxInFlight
  BY SendLinks
<1>2. Finish(t) /\ UNCHANGED <<store, requestVars, inbox, wantVars, faults, shared>>
  BY DEF Send
<1>3. Tables'
  BY <1>1, <1>2 DEF Inner, Tables, requestVars, wantVars
<1> QED
  BY <1>1, <1>2, <1>3, FinishStep DEF requestVars, wantVars

\* cids_they_want of q stays, or gets its only want w, or loses its only entry, and
\* the threads that have a block for that entry know.
Moved(q, w) ==
  \/ they' = they /\ i' = i
  \/ they[q] = <<>> /\ they'[q] = <<w>> /\ ~w.cancel /\ i' = i
  \/ /\ they[q] # <<>> /\ they'[q] = <<>> /\ w.cancel /\ they[q][1].cid = w.cid
     /\ \A t \in Threads : i'[t] = IF Pair(t) = q /\ pc[t] = "add" /\ i[t] > 0 THEN -i[t] ELSE i[t]

(* What adjust_cid_queue does to cids_they_want: it has one want, or none; an
   entry that is there stays as it is, or it goes and the thread that has a
   block for it is told so. *)
LEMMA HandleWantMoves ==
  ASSUME Inner, NEW n \in Nodes, NEW p \in Nodes \ {n}, HandleWant(n, p), NEW q, q = <<n, p>>,
         NEW w, w = Head(inbox[q])
  PROVE  /\ q \in Pairs /\ w \in Wants /\ w \in ToSet(inbox[q])
         /\ inbox' = [inbox EXCEPT ![q] = Tail(inbox[q])]
         /\ inbox' \in [Pairs -> Seq(Wants)]
         /\ \A r \in Pairs : ToSet(inbox'[r]) \subseteq ToSet(inbox[r])
         /\ they' \in [Pairs -> Seq(Wants)]
         /\ \A r \in Pairs \ {q} : they'[r] = they[r]
         /\ Moved(q, w)
         /\ i' \in [Threads -> Int]
         /\ up' \subseteq up /\ crashed \subseteq crashed' /\ crashed' \subseteq Nodes
         /\ link' \in [Pairs -> Seq(Messages)]
         /\ \A r \in Pairs : link'[r] = link[r] \/ link'[r] = <<>>
<1>1. q \in Pairs
  BY NodePair
<1>2. inbox \in [Pairs -> Seq(Wants)] /\ they \in [Pairs -> Seq(Wants)] /\ Len(they[q]) <= 1
  BY <1>1 DEF Inner, Tables
<1>3. inbox[q] # <<>> /\ inbox' = [inbox EXCEPT ![q] = Tail(inbox[q])]
  BY DEF HandleWant
<1>4. /\ w \in ToSet(inbox[q]) /\ Tail(inbox[q]) \in Seq(Wants) /\ w \in Wants
      /\ ToSet(Tail(inbox[q])) \subseteq ToSet(inbox[q])
  BY <1>1, <1>2, <1>3, InSequence
<1>5. inbox' \in [Pairs -> Seq(Wants)] /\ \A r \in Pairs : ToSet(inbox'[r]) \subseteq ToSet(inbox[r])
  BY <1>1, <1>2, <1>3, <1>4
<1>6. /\ up' \subseteq up /\ crashed \subseteq crashed' /\ crashed' \subseteq Nodes
      /\ link' \in [Pairs -> Seq(Messages)]
      /\ \A r \in Pairs : link'[r] = link[r] \/ link'[r] = <<>>
  <2>1. CASE UNCHANGED <<up, link, crashed>>
    BY <2>1 DEF Inner, Tables
  <2>2. CASE Crash(n)
    <3>1. link' \in [Pairs -> Seq(Messages)]
      BY <2>2, LinksStay DEF Crash
    <3> QED BY <2>2, <3>1 DEF Crash, Drop, Inner, Tables
  <2> QED BY <2>1, <2>2 DEF HandleWant
<1>7. /\ they' \in [Pairs -> Seq(Wants)]
      /\ \A r \in Pairs \ {q} : they'[r] = they[r]
      /\ Moved(q, w)
      /\ i' \in [Threads -> Int]
  <2>0. i \in [Threads -> Int]
    BY DEF Inner, Variables
  <2>1. CASE they' = they /\ i' = i
    BY <1>2, <2>0, <2>1 DEF Moved
  <2>2. CASE they[q] = <<>> /\ ~w.cancel /\ they' = [they EXCEPT ![q] = <<w>>] /\ i' = i
    <3>1. <<w>> \in Seq(Wants)
      BY <1>4
    <3>2. they' \in [Pairs -> Seq(Wants)] /\ they'[q] = <<w>> /\ \A r \in Pairs \ {q} : they'[r] = they[r]
      BY <1>1, <1>2, <2>2, <3>1
    <3>3. Moved(q, w)
      BY <2>2, <3>2 DEF Moved
    <3> QED BY <2>0, <2>2, <3>2, <3>3
  <2>3. CASE /\ they[q] # <<>> /\ they[q][1].cid = w.cid /\ w.cancel
             /\ they' = [they EXCEPT ![q] = Tail(@)]
             /\ i' = [t \in Threads |->
                        IF Pair(t) = q /\ pc[t] = "add" /\ i[t] > 0 THEN -i[t] ELSE i[t]]
    <3>1. they[q] \in Seq(Wants)
      BY <1>1, <1>2
    <3>2. Tail(they[q]) = <<>>
      <4> DEFINE s == they[q]
      <4>1. s \in Seq(Wants) /\ s # <<>> /\ Len(s) <= 1
        BY <1>2, <2>3, <3>1
      <4> HIDE DEF s
      <4>2. Len(s) \in Nat /\ Len(s) # 0
        BY <4>1, EmptySeq
      <4>3. Tail(s) \in Seq(Wants) /\ Len(Tail(s)) = Len(s) - 1
        BY <4>1
      <4>4. Len(Tail(s)) = 0
        BY <4>1, <4>2, <4>3
      <4>5. Tail(s) = <<>>
        BY <4>3, <4>4, EmptySeq
      <4> QED BY <4>5 DEF s
    <3>3. <<>> \in Seq(Wants)
      OBVIOUS
    <3>4. they' = [they EXCEPT ![q] = <<>>]
      BY <2>3, <3>2
    <3>5. \A t \in Threads :
            i'[t] = IF Pair(t) = q /\ pc[t] = "add" /\ i[t] > 0 THEN -i[t] ELSE i[t]
      BY <2>3
    <3>6. i' \in [Threads -> Int]
      BY <2>0, <2>3
    <3>7. they' \in [Pairs -> Seq(Wants)] /\ they'[q] = <<>> /\ \A r \in Pairs \ {q} : they'[r] = they[r]
      BY <1>1, <1>2, <3>3, <3>4
    <3>8. Moved(q, w)
      BY <2>3, <3>5, <3>7 DEF Moved
    <3> QED BY <3>6, <3>7, <3>8
  <2> QED BY <2>1, <2>2, <2>3 DEF HandleWant
<1> QED
  BY <1>1, <1>3, <1>4, <1>5, <1>6, <1>7

(* The handler of a message: no index is left pointing at an entry that has
   gone. *)
LEMMA HandleWantInner ==
  ASSUME Inner, NEW n \in Nodes, NEW p \in Nodes \ {n}, HandleWant(n, p) PROVE Inner'
<1> PICK q : q = <<n, p>>
  OBVIOUS
<1> PICK w : w = Head(inbox[q])
  OBVIOUS
<1>1. /\ q \in Pairs /\ w \in Wants
      /\ inbox' \in [Pairs -> Seq(Wants)]
      /\ they' \in [Pairs -> Seq(Wants)]
      /\ \A r \in Pairs \ {q} : they'[r] = they[r]
      /\ up' \subseteq up /\ crashed' \subseteq Nodes
      /\ link' \in [Pairs -> Seq(Messages)]
      /\ \A r \in Pairs : link'[r] = link[r] \/ link'[r] = <<>>
  BY HandleWantMoves
<1>2. Moved(q, w)
  BY HandleWantMoves
<1>3. UNCHANGED <<store, request, we, blocks, sees, faults, pc, peer, found, tot, msg, wantVars, shared>>
  BY DEF HandleWant
<1>4. \A r \in Pairs : Len(they'[r]) <= 1
  <2>1. they'[q] = they[q] \/ they'[q] = <<w>> \/ they'[q] = <<>>
    BY <1>2 DEF Moved
  <2>3. Len(<<w>>) = 1 /\ Len(<<>>) = 0
    OBVIOUS
  <2>2. \A r \in Pairs : Len(they[r]) <= 1
    BY DEF Inner, Tables
  <2>4. ASSUME NEW r \in Pairs PROVE Len(they'[r]) <= 1
    <3>1. CASE r = q
      BY <2>1, <2>2, <2>3, <3>1
    <3>2. CASE r # q
      BY <1>1, <2>2, <3>2
    <3> QED BY <3>1, <3>2
  <2> QED BY <2>4
<1>5. \A r \in Pairs : Len(link'[r]) <= MaxInFlight
  BY <1>1, NetworkAssumption DEF Inner, Tables
<1>6. Tables'
  BY <1>1, <1>3, <1>4, <1>5 DEF Inner, Tables, wantVars
<1>7. i \in [Threads -> Int] /\ i' \in [Threads -> Int]
  BY HandleWantMoves DEF Inner, Variables
<1>8. Variables'
  BY <1>3, <1>7 DEF Inner, Variables, wantVars
<1>9. ASSUME NEW t \in Threads PROVE Local(t)'
  <2>1. /\ pc'[t] = pc[t] /\ peer'[t] = peer[t] /\ found'[t] = found[t] /\ msg'[t] = msg[t]
        /\ Pair(t)' = Pair(t)
    BY <1>3 DEF Pair
  <2>2. Local(t) /\ i[t] \in Int
    BY <1>7 DEF Inner
  <2>3. pc[t] = "gather" => i'[t] >= 1
    BY <1>2, <2>2 DEF Local, Moved
  <2>4. ASSUME pc[t] = "add", i'[t] > 0
        PROVE  i'[t] <= Len(they'[Pair(t)]) /\ they'[Pair(t)][i'[t]].cid = found[t]
    <3>1. Pair(t) \in Pairs
      BY <2>4, WorksOnPair DEF Working
    <3>2. CASE Pair(t) # q
      <4>1. they'[Pair(t)] = they[Pair(t)] /\ i'[t] = i[t]
        BY <1>1, <1>2, <3>1, <3>2 DEF Moved
      <4> QED BY <2>2, <2>4, <4>1 DEF Local
    <3>3. CASE Pair(t) = q
      <4>1. i'[t] = i[t] /\ they'[q] = they[q]
        BY <1>2, <2>2, <2>4, <3>3 DEF Local, Moved
      <4> QED BY <2>2, <2>4, <3>3, <4>1 DEF Local
    <3> QED BY <3>2, <3>3
  <2> QED BY <2>1, <2>2, <2>3, <2>4 DEF Local, Working
<1>10. ASSUME NEW k \in Nodes PROVE Wanting(k)'
  BY <1>3 DEF Inner, Wanting, wantVars
<1> QED
  BY <1>6, <1>8, <1>9, <1>10 DEF Inner

(* No step breaks it. *)
LEMMA StepInner == Inner /\ [Next]_vars => Inner'
<1>1. SUFFICES ASSUME Inner, [Next]_vars PROVE Inner'
  OBVIOUS
<1>2. ASSUME NEW t \in Threads, ProcessEntry(t) PROVE Inner'
  BY <1>1, <1>2, BeginInner, GatherInner, GatherAddInner, CopyBlocksInner, DeleteBlocksInner,
     AddWantlistInner, SendInner DEF ProcessEntry
<1>3. CASE UNCHANGED vars
  <2>1. Tables'
    BY <1>1, <1>3 DEF Inner, Tables, vars, requestVars, netVars, wantVars
  <2> QED BY <1>1, <1>3, <2>1, OutsideStep DEF vars, requestVars, wantVars
<1>4. ASSUME NEW n \in Nodes, NEW p \in Nodes \ {n}, HandleWant(n, p) PROVE Inner'
  BY <1>1, <1>4, HandleWantInner
<1>5. CASE \/ \E n \in Nodes : \/ \E c \in Cids : FindProviders(n, c)
                               \/ AskProvider(n) \/ AllAsked(n)
                               \/ \E p \in Nodes \ {n} : VisitPeer(n, p) \/ Withdraw(n, p) \/ Receive(n, p)
           \/ \E q \in Pairs : Break(q) \/ Notice(q)
  BY <1>1, <1>5, OutsideInner
<1>6. CASE \/ \E t \in Threads : SendFails(t)
           \/ \E n \in Nodes : \E p \in Nodes \ {n} : Discard(n, p)
  BY <1>1, <1>6, SendFailsInner, DiscardInner
<1> QED
  BY <1>1, <1>2, <1>3, <1>4, <1>5, <1>6 DEF Next, NodeStep

(* What the threads keep in their locals is right in every state: a thread
   that is about to mark an entry of cids_they_want, without a lock, marks the
   one its block is for, or knows that it has gone. *)
THEOREM InnerInvariance == Spec => []Inner
BY InitInner, StepInner, PTL DEF Spec

(* In every state the variables have their types, a link holds at most
   MaxInFlight messages and cids_they_want has at most one entry, whatever the
   threads and the handlers do to it. *)
THEOREM Typing == Spec => []TypeOK
BY InnerInvariance, InnerTypes, PTL

-----------------------------------------------------------------------------
(* Whatever is queued, copied or under way goes back to a want that was sent. *)

\* r[1] has wanted c of r[2] and sent the want.
Requested(r, c) == \E e \in ToSet(we[r]) : e.cid = c /\ e.request_has_been_sent

\* A message on the way from q[1] to q[2].
Justified(q, m) ==
  /\ \A c \in ToSet(m.payload) : Requested(Flip(q), c)
  /\ \A w \in ToSet(m.wantlist) : w.cancel \/ Requested(q, w.cid)

\* What q[1] has of the wants of q[2].
Queued(q) ==
  /\ \A w \in ToSet(they[q]) : Requested(Flip(q), w.cid)
  /\ \A w \in ToSet(inbox[q]) : w.cancel \/ Requested(Flip(q), w.cid)
  /\ \A c \in ToSet(blocks[q]) : Requested(Flip(q), c)
  /\ \A m \in ToSet(link[q]) : Justified(q, m)

\* What a thread has in its hands.
Built(t) ==
  /\ pc[t] = "add" => Requested(Flip(Pair(t)), found[t])
  /\ pc[t] \in {"delete", "wantlist", "send"} => Justified(Pair(t), msg[t])

Chain == (\A q \in Pairs : Queued(q)) /\ \A t \in Threads : Built(t)

\* What has been asked for stays asked for.
Grown == \A r \in Pairs : \A c : Requested(r, c) => Requested(r, c)'

(* No step forgets that a want was sent: wants are added at the end, withdrawn
   by a flag, and marked. *)
LEMMA RequestsGrow == Inner /\ [Next]_vars => Grown
<1>1. SUFFICES ASSUME Inner, [Next]_vars PROVE Grown
  OBVIOUS
<1>2. we \in [Pairs -> Seq(CidEntries)] /\ we' \in [Pairs -> Seq(CidEntries)]
  BY <1>1, StepInner DEF Inner, Tables
<1>3. SUFFICES ASSUME NEW r \in Pairs
               PROVE  /\ Len(we[r]) <= Len(we'[r])
                      /\ \A k \in 1 .. Len(we[r]) :
                           /\ we'[r][k].cid = we[r][k].cid
                           /\ we[r][k].request_has_been_sent => we'[r][k].request_has_been_sent
  <2> SUFFICES ASSUME NEW r \in Pairs, NEW c, Requested(r, c) PROVE Requested(r, c)'
    BY DEF Grown
  <2>1. we[r] \in Seq(CidEntries) /\ we'[r] \in Seq(CidEntries)
    BY <1>2
  <2>2. PICK k \in 1 .. Len(we[r]) : we[r][k].cid = c /\ we[r][k].request_has_been_sent
    <3>1. PICK e \in ToSet(we[r]) : e.cid = c /\ e.request_has_been_sent
      BY DEF Requested
    <3>2. \E k \in 1 .. Len(we[r]) : e = we[r][k]
      BY <2>1, InSequence
    <3> QED BY <3>1, <3>2
  <2>3. k \in 1 .. Len(we'[r]) /\ we'[r][k].cid = c /\ we'[r][k].request_has_been_sent
    BY <1>3, <2>1, <2>2
  <2>4. we'[r][k] \in ToSet(we'[r])
    BY <2>1, <2>3, InSequence
  <2> QED BY <2>3, <2>4 DEF Requested
<1>4. we[r] \in Seq(CidEntries)
  BY <1>2
<1>5. CASE we' = we
  BY <1>4, <1>5
<1>6. ASSUME NEW n \in Nodes, AskProvider(n)
      PROVE  /\ Len(we[r]) <= Len(we'[r])
             /\ \A k \in 1 .. Len(we[r]) : we'[r][k] = we[r][k]
  <2> DEFINE e == [cid |-> cid[n], cancel |-> FALSE, request_has_been_sent |-> FALSE,
                   cancel_has_been_sent |-> FALSE]
  <2>1. PICK p \in providers[n] : we' = [we EXCEPT ![<<n, p>>] = Append(@, e)]
    BY <1>6 DEF AskProvider
  <2> HIDE DEF e
  <2>2. CASE r = <<n, p>>
    <3>1. we'[r] = Append(we[r], e)
      BY <1>2, <2>1, <2>2
    <3>2. Len(Append(we[r], e)) = Len(we[r]) + 1 /\ Len(we[r]) \in Nat
          /\ \A k \in 1 .. Len(we[r]) : Append(we[r], e)[k] = we[r][k]
      BY <1>4
    <3> QED BY <3>1, <3>2
  <2>3. CASE r # <<n, p>>
    <3>1. we'[r] = we[r]
      BY <1>2, <2>1, <2>3
    <3> QED BY <1>4, <3>1
  <2> QED BY <2>2, <2>3
<1>7. ASSUME NEW n \in Nodes, NEW p \in Nodes \ {n}, Withdraw(n, p)
      PROVE  /\ Len(we[r]) = Len(we'[r])
             /\ \A k \in 1 .. Len(we[r]) :
                  /\ we'[r][k].cid = we[r][k].cid
                  /\ we'[r][k].request_has_been_sent = we[r][k].request_has_been_sent
  <2>1. PICK j \in 1 .. Len(we[<<n, p>>]) : we' = [we EXCEPT ![<<n, p>>][j].cancel = TRUE]
    BY <1>7 DEF Withdraw
  <2>2. CASE r = <<n, p>>
    <3> DEFINE s == we[r]
               e == [s[j] EXCEPT !.cancel = TRUE]
    <3>1. s \in Seq(CidEntries) /\ j \in 1 .. Len(s)
      BY <1>4, <2>1, <2>2
    <3>2. e.cid = s[j].cid /\ e.request_has_been_sent = s[j].request_has_been_sent /\ e \in CidEntries
      <4> HIDE DEF s
      <4>1. s[j] \in CidEntries
        BY <3>1
      <4> QED BY <4>1 DEF CidEntries
    <3>3. we'[r] = [s EXCEPT ![j] = e]
      BY <1>2, <2>1, <2>2
    <3> HIDE DEF s, e
    <3>4. Len([s EXCEPT ![j] = e]) = Len(s)
          /\ \A k \in 1 .. Len(s) : [s EXCEPT ![j] = e][k] = IF k = j THEN e ELSE s[k]
      BY <3>1, <3>2, ExceptSeq
    <3> QED BY <3>2, <3>3, <3>4 DEF s
  <2>3. CASE r # <<n, p>>
    <3>1. we'[r] = we[r]
      BY <1>2, <2>1, <2>3
    <3> QED BY <1>4, <3>1
  <2> QED BY <2>2, <2>3
<1>8. ASSUME NEW t \in Threads, AddWantlist(t)
      PROVE  /\ Len(we[r]) = Len(we'[r])
             /\ \A k \in 1 .. Len(we[r]) :
                  /\ we'[r][k].cid = we[r][k].cid
                  /\ we[r][k].request_has_been_sent => we'[r][k].request_has_been_sent
  <2> PICK q : q = Pair(t)
    OBVIOUS
  <2>1. /\ Len(we'[q]) = Len(we[q])
        /\ \A k \in 1 .. Len(we[q]) : we'[q][k].cid = we[q][k].cid
        /\ \A x \in Pairs \ {q} : we'[x] = we[x]
    BY <1>1, <1>8, AddWantlistMarks
  <2>2. \A k \in 1 .. Len(we[q]) : we[q][k].request_has_been_sent => we'[q][k].request_has_been_sent
    BY <1>1, <1>8, AddWantlistMarks
  <2>3. CASE r = q
    BY <2>1, <2>2, <2>3
  <2>4. CASE r # q
    <3>1. we'[r] = we[r]
      BY <2>1, <2>4
    <3> QED BY <3>1
  <2> QED BY <2>3, <2>4
<1>9. \/ we' = we
      \/ \E n \in Nodes : AskProvider(n) \/ \E p \in Nodes \ {n} : Withdraw(n, p)
      \/ \E t \in Threads : AddWantlist(t)
  BY <1>1 DEF Next, NodeStep, ProcessEntry, FindProviders, AllAsked, VisitPeer, Receive, HandleWant,
     Begin, Gather, GatherAdd, CopyBlocks, DeleteBlocks, Send, SendFails, Discard, Break, Notice, vars, requestVars
<1>10. Len(we[r]) \in Nat
  BY <1>4
<1> QED
  BY <1>5, <1>6, <1>7, <1>8, <1>9, <1>10

(* What a message, a queue or a thread goes back to stays there. *)
LEMMA JustifiedStays ==
  ASSUME Grown, NEW q \in Pairs
  PROVE  /\ \A m : Justified(q, m) => Justified(q, m)'
         /\ \A c : Requested(Flip(q), c) => Requested(Flip(q), c)'
         /\ Justified(q, Empty)'
<1>1. Flip(q) \in Pairs
  BY FlipPair
<1>2. \A c : /\ Requested(Flip(q), c) => Requested(Flip(q), c)'
             /\ Requested(q, c) => Requested(q, c)'
  BY <1>1 DEF Grown
<1>3. ASSUME NEW m, Justified(q, m) PROVE Justified(q, m)'
  BY <1>2, <1>3 DEF Justified
<1>4. Justified(q, Empty)'
  <2>1. ToSet(<<>>) = {}
    BY ShortSequences
  <2> QED BY <2>1 DEF Justified, Empty
<1> QED
  BY <1>2, <1>3, <1>4

(* A queue that only loses, or whose entries are only marked. *)
LEMMA QueuedStays ==
  ASSUME Grown, NEW q \in Pairs, Queued(q),
         \A w \in ToSet(they'[q]) : \E v \in ToSet(they[q]) : v.cid = w.cid,
         ToSet(inbox'[q]) \subseteq ToSet(inbox[q]),
         ToSet(blocks'[q]) \subseteq ToSet(blocks[q]),
         ToSet(link'[q]) \subseteq ToSet(link[q])
  PROVE  Queued(q)'
<1>1. /\ \A m : Justified(q, m) => Justified(q, m)'
      /\ \A c : Requested(Flip(q), c) => Requested(Flip(q), c)'
  BY JustifiedStays
<1> QED
  BY <1>1 DEF Queued

(* A thread that keeps what it has. *)
LEMMA BuiltStays ==
  ASSUME Grown, Inner, NEW t \in Threads, Built(t),
         pc'[t] = pc[t], peer'[t] = peer[t], found'[t] = found[t], msg'[t] = msg[t]
  PROVE  Built(t)'
<1> PICK q : q = Pair(t)
  OBVIOUS
<1>1. Pair(t)' = q
  BY DEF Pair
<1>2. CASE Working(t)
  <2>1. q \in Pairs
    BY <1>2, WorksOnPair
  <2>2. /\ \A m : Justified(q, m) => Justified(q, m)'
        /\ \A c : Requested(Flip(q), c) => Requested(Flip(q), c)'
    BY <2>1, JustifiedStays
  <2>3. ASSUME pc'[t] = "add" PROVE Requested(Flip(Pair(t)), found[t])'
    <3>1. Requested(Flip(q), found[t])
      BY <2>3 DEF Built
    <3>2. PICK c : c = found[t]
      OBVIOUS
    <3>3. Requested(Flip(q), c)'
      BY <2>2, <3>1, <3>2
    <3> QED BY <1>1, <3>2, <3>3 DEF Requested
  <2>4. ASSUME pc'[t] \in {"delete", "wantlist", "send"} PROVE Justified(Pair(t), msg[t])'
    <3>1. Justified(q, msg[t])
      BY <2>4 DEF Built
    <3>2. PICK m : m = msg[t]
      OBVIOUS
    <3>3. Justified(q, m)'
      BY <2>2, <3>1, <3>2
    <3> QED BY <1>1, <3>2, <3>3 DEF Justified, Requested
  <2> QED BY <2>3, <2>4 DEF Built
<1>3. CASE ~Working(t)
  BY <1>3 DEF Built, Working
<1> QED
  BY <1>2, <1>3

\* A thread that does nothing.
Kept(t) == pc'[t] = pc[t] /\ peer'[t] = peer[t] /\ found'[t] = found[t] /\ msg'[t] = msg[t]

\* A link that stays or is cut.
Cut == \A q \in Pairs : link'[q] = link[q] \/ link'[q] = <<>>

(* The steps that add nothing to a queue or a message. *)
LEMMA ChainLoses ==
  ASSUME Grown, Inner, Chain, UNCHANGED <<they, inbox, blocks>>, Cut,
         \A t \in Threads : Kept(t) \/ pc'[t] \in {"idle", "next", "begin", "gather", "copy"}
  PROVE  Chain'
<1>1. ASSUME NEW q \in Pairs PROVE Queued(q)'
  <2>1. ToSet(link'[q]) \subseteq ToSet(link[q])
    <3>1. ToSet(<<>>) = {}
      BY ShortSequences
    <3> QED BY <3>1 DEF Cut
  <2>2. Queued(q) /\ they'[q] = they[q] /\ inbox'[q] = inbox[q] /\ blocks'[q] = blocks[q]
    BY DEF Chain
  <2> QED BY <2>1, <2>2, QueuedStays
<1>2. ASSUME NEW t \in Threads PROVE Built(t)'
  <2>1. CASE Kept(t)
    BY <2>1, BuiltStays DEF Kept, Chain
  <2>2. CASE pc'[t] \in {"idle", "next", "begin", "gather", "copy"}
    BY <2>2 DEF Built
  <2> QED BY <2>1, <2>2
<1> QED
  BY <1>1, <1>2 DEF Chain

(* Failures that lose a message. *)
LEMMA FailureChain ==
  ASSUME Grown, Inner, Chain,
         \/ \E t \in Threads : SendFails(t)
         \/ \E n \in Nodes : \E p \in Nodes \ {n} : Discard(n, p)
  PROVE  Chain'
<1>1. ASSUME NEW t \in Threads, SendFails(t) PROVE Chain'
  <2>1. UNCHANGED <<they, inbox, blocks, link>> /\ Finish(t)
    BY <1>1, SendFailsEnds
  <2>2. pc \in [Threads -> Steps] /\ peer \in [Threads -> Nodes \cup {NoPeer}]
        /\ found \in [Threads -> Cids \cup {NoCid}] /\ msg \in [Threads -> Messages]
    BY DEF Inner, Variables
  <2>3. ASSUME NEW u \in Threads PROVE Kept(u) \/ pc'[u] \in {"idle", "next", "begin", "gather", "copy"}
    BY <2>1, <2>2 DEF Kept, Finish, Goto
  <2> QED BY <2>1, <2>3, ChainLoses DEF Cut
<1>2. ASSUME NEW n \in Nodes, NEW p \in Nodes \ {n}, Discard(n, p) PROVE Chain'
  <2>1. UNCHANGED <<they, blocks, pc, peer, found, msg>>
        /\ \A q \in Pairs : /\ ToSet(link'[q]) \subseteq ToSet(link[q])
                            /\ ToSet(inbox'[q]) \subseteq ToSet(inbox[q])
    BY <1>2, DiscardLoses DEF localVars
  <2>2. \A q \in Pairs : Queued(q)'
    BY <2>1, QueuedStays DEF Chain
  <2>3. \A t \in Threads : Built(t)'
    BY <2>1, BuiltStays DEF Chain
  <2> QED BY <2>2, <2>3 DEF Chain
<1> QED
  BY <1>1, <1>2

(* What ends or begins a connection only cuts links. *)
LEMMA OnlyCut ==
  ASSUME Inner
  PROVE  /\ \A S : Drop(S) => Cut
         /\ \A q \in Pairs : Connect(q) => Cut
         /\ UNCHANGED link => Cut
<1>1. ASSUME NEW S, Drop(S) PROVE Cut
  BY <1>1 DEF Drop, Cut
<1>2. ASSUME NEW q \in Pairs, Connect(q) PROVE Cut
  <2>1. link' = link \/ link' = [link EXCEPT ![q] = <<>>, ![Flip(q)] = <<>>]
    BY <1>2 DEF Connect
  <2> QED BY <2>1, FlipPair DEF Cut, Inner, Tables
<1> QED
  BY <1>1, <1>2 DEF Cut

(* Asking providers, withdrawing a want, visiting a peer, a connection that
   breaks and the begin of process_entry are such steps. *)
LEMMA OutsideChain ==
  ASSUME Grown, Inner, Chain,
         \/ \E n \in Nodes : \/ \E c \in Cids : FindProviders(n, c)
                             \/ AskProvider(n) \/ AllAsked(n)
                             \/ \E p \in Nodes \ {n} : VisitPeer(n, p) \/ Withdraw(n, p)
         \/ \E q \in Pairs : Break(q) \/ Notice(q)
         \/ \E t \in Threads : Begin(t)
  PROVE  Chain'
<1>0. pc \in [Threads -> Steps] /\ peer \in [Threads -> Nodes \cup {NoPeer}]
      /\ found \in [Threads -> Cids \cup {NoCid}] /\ msg \in [Threads -> Messages]
  BY DEF Inner, Variables
<1>1. ASSUME NEW n \in Nodes, \/ \E c \in Cids : FindProviders(n, c)
                              \/ AskProvider(n) \/ AllAsked(n)
                              \/ \E p \in Nodes \ {n} : VisitPeer(n, p)
      PROVE  Chain'
  <2>1. UNCHANGED <<they, inbox, blocks, link, msg, found>>
    BY <1>1 DEF FindProviders, AskProvider, AllAsked, VisitPeer, requestVars, netVars
  <2>2. PICK t \in Threads : /\ \E x \in {"idle", "next", "begin"} : pc' = [pc EXCEPT ![t] = x]
                             /\ UNCHANGED peer \/ \E p : peer' = [peer EXCEPT ![t] = p]
    <3>1. <<n, "wants">> \in Threads /\ <<n, "peers">> \in Threads
      BY ThreadNode
    <3>2. CASE (\E c \in Cids : FindProviders(n, c)) \/ AllAsked(n)
      <4> <<n, "wants">> \in Threads
        BY <3>1
      <4> WITNESS <<n, "wants">> \in Threads
      <4> QED BY <3>2 DEF FindProviders, AllAsked, Goto
    <3>3. CASE AskProvider(n)
      <4> <<n, "wants">> \in Threads
        BY <3>1
      <4> WITNESS <<n, "wants">> \in Threads
      <4> QED BY <3>3 DEF AskProvider, Goto
    <3>4. CASE \E p \in Nodes \ {n} : VisitPeer(n, p)
      <4> <<n, "peers">> \in Threads
        BY <3>1
      <4> WITNESS <<n, "peers">> \in Threads
      <4> QED BY <3>4 DEF VisitPeer, Goto
    <3> QED BY <1>1, <3>2, <3>3, <3>4
  <2>3. ASSUME NEW u \in Threads PROVE Kept(u) \/ pc'[u] \in {"idle", "next", "begin", "gather", "copy"}
    BY <1>0, <2>1, <2>2 DEF Kept
  <2> QED BY <2>1, <2>3, ChainLoses, OnlyCut
<1>2. ASSUME NEW n \in Nodes, \E p \in Nodes \ {n} : Withdraw(n, p) PROVE Chain'
  <2>1. UNCHANGED <<they, inbox, blocks, link, pc, peer, found, msg>>
    BY <1>2 DEF Withdraw, netVars, localVars
  <2> QED BY <2>1, ChainLoses, OnlyCut DEF Kept
<1>3. ASSUME NEW q \in Pairs, Break(q) \/ Notice(q) PROVE Chain'
  <2>1. UNCHANGED <<they, inbox, blocks, pc, peer, found, msg>>
    BY <1>3 DEF Break, Notice, requestVars, localVars
  <2>2. Cut
    BY <1>3, OnlyCut DEF Break, Notice
  <2> QED BY <2>1, <2>2, ChainLoses DEF Kept
<1>4. ASSUME NEW t \in Threads, Begin(t) PROVE Chain'
  <2>1. UNCHANGED <<they, inbox, blocks>> /\ pc[t] = "begin"
    BY <1>4 DEF Begin, requestVars
  <2>2. Cut
    <3>1. Pair(t) \in Pairs
      BY <2>1, WorksOnPair DEF Working
    <3> QED BY <1>4, <3>1, OnlyCut DEF Begin, netVars
  <2>3. \/ Goto(t, "gather") /\ UNCHANGED <<peer, found, msg>>
        \/ Finish(t)
    BY <1>4 DEF Begin
  <2>4. ASSUME NEW u \in Threads PROVE Kept(u) \/ pc'[u] \in {"idle", "next", "begin", "gather", "copy"}
    BY <1>0, <2>3 DEF Kept, Finish, Goto
  <2> QED BY <2>1, <2>2, <2>4, ChainLoses
<1> QED
  BY <1>1, <1>2, <1>3, <1>4

(* get_blocks_they_want: the block is one that an entry wants. *)
LEMMA GatherChain ==
  ASSUME Grown, Inner, Inner', Chain, NEW t \in Threads, Gather(t) \/ GatherAdd(t) PROVE Chain'
<1> PICK q : q = Pair(t)
  OBVIOUS
<1>1. q \in Pairs /\ peer' = peer /\ msg' = msg /\ inbox' = inbox /\ link' = link /\ Queued(q)
      /\ they[q] \in Seq(Wants) /\ Pair(t)' = q
  <2>1. Working(t) /\ peer' = peer /\ msg' = msg /\ inbox' = inbox /\ link' = link
    BY DEF Gather, GatherAdd, Working, netVars
  <2>2. q \in Pairs
    BY <2>1, WorksOnPair
  <2> QED BY <2>1, <2>2 DEF Chain, Inner, Tables, Pair
<1>2. /\ \A c : Requested(Flip(q), c) => Requested(Flip(q), c)'
  BY <1>1, JustifiedStays
<1>3. ASSUME NEW u \in Threads \ {t} PROVE Built(u)'
  <2>1. Kept(u)
    BY <1>1 DEF Gather, GatherAdd, Kept, Goto, Inner, Variables
  <2> QED BY <2>1, BuiltStays DEF Kept, Chain
<1>4. CASE Gather(t)
  <2>1. UNCHANGED <<they, blocks>> /\ pc[t] = "gather" /\ i[t] >= 1 /\ i[t] \in Int
    BY <1>4 DEF Gather, requestVars, Inner, Local, Variables
  <2>2. ASSUME NEW r \in Pairs PROVE Queued(r)'
    BY <1>1, <2>1, QueuedStays DEF Chain
  <2>3. Built(t)'
    <3>1. CASE pc'[t] = "add"
      <4>1. i[t] <= Len(they[q]) /\ found' = [found EXCEPT ![t] = they[q][i[t]].cid]
        BY <1>4, <2>1, <3>1 DEF Gather, Goto, Inner, Variables
      <4>2. i[t] \in 1 .. Len(they[q])
        BY <1>1, <2>1, <4>1
      <4>3. they[q][i[t]] \in ToSet(they[q])
        BY <1>1, <4>2, InSequence
      <4>4. Requested(Flip(q), they[q][i[t]].cid)
        BY <1>1, <4>3 DEF Queued
      <4>5. found'[t] = they[q][i[t]].cid
        BY <4>1 DEF Inner, Variables
      <4>6. PICK c : c = they[q][i[t]].cid
        OBVIOUS
      <4>7. Requested(Flip(q), c)'
        BY <1>2, <4>4, <4>6
      <4> QED BY <1>1, <3>1, <4>5, <4>6, <4>7 DEF Built, Requested
    <3>2. CASE pc'[t] # "add"
      <4>1. pc'[t] \in {"gather", "copy"}
        BY <1>4, <2>1, <3>2 DEF Gather, Goto, Inner, Variables
      <4> QED BY <4>1 DEF Built
    <3> QED BY <3>1, <3>2
  <2>4. ASSUME NEW u \in Threads PROVE Built(u)'
    BY <1>3, <2>3
  <2> QED BY <2>2, <2>4 DEF Chain
<1>5. CASE GatherAdd(t)
  <2>1. pc'[t] = "gather" /\ pc[t] = "add"
    BY <1>5 DEF GatherAdd, Goto, Inner, Variables
  <2>2. Requested(Flip(q), found[t]) /\ found[t] \in Cids
    BY <2>1 DEF Chain, Built, Inner, Local
  <2>3. /\ \A r \in Pairs : /\ Len(they'[r]) = Len(they[r])
                            /\ \A k \in 1 .. Len(they[r]) : they'[r][k].cid = they[r][k].cid
    BY <1>5, GatherAddMarks
  <2>4. ASSUME NEW r \in Pairs, NEW w \in ToSet(they'[r]) PROVE \E v \in ToSet(they[r]) : v.cid = w.cid
    <3>1. they[r] \in Seq(Wants) /\ they'[r] \in Seq(Wants)
      BY DEF Inner, Tables
    <3>2. PICK k \in 1 .. Len(they'[r]) : w = they'[r][k]
      BY <3>1, InSequence
    <3>3. k \in 1 .. Len(they[r]) /\ they[r][k].cid = w.cid
      BY <2>3, <3>2
    <3>4. they[r][k] \in ToSet(they[r])
      BY <3>1, <3>3, InSequence
    <3> QED BY <3>3, <3>4
  <2>5. blocks \in [Pairs -> Seq(Cids)] /\ blocks' = [blocks EXCEPT ![q] = Append(@, found[t])]
    BY <1>5 DEF GatherAdd, Inner, Tables
  <2>6. ASSUME NEW r \in Pairs \ {q} PROVE Queued(r)'
    <3>1. blocks'[r] = blocks[r]
      BY <2>5
    <3> QED BY <1>1, <2>4, <3>1, QueuedStays DEF Chain
  <2>7. Queued(q)'
    <3>1. ToSet(blocks'[q]) = ToSet(blocks[q]) \cup {found[t]}
      BY <1>1, <2>2, <2>5, InSequence
    <3>2. \A m : Justified(q, m) => Justified(q, m)'
      BY <1>1, JustifiedStays
    <3> QED BY <1>1, <1>2, <2>2, <2>4, <3>1, <3>2 DEF Queued
  <2>8. Built(t)'
    BY <2>1 DEF Built
  <2> QED BY <1>3, <2>6, <2>7, <2>8 DEF Chain
<1> QED
  BY <1>4, <1>5

(* The message takes blocks that are queued; the want of each of them is marked. *)
LEMMA CopyBlocksChain ==
  ASSUME Grown, Inner, Inner', Chain, NEW t \in Threads, CopyBlocks(t) PROVE Chain'
<1> PICK q : q = Pair(t)
  OBVIOUS
<1>1. /\ pc[t] = "copy" /\ pc'[t] = "delete" /\ q \in Pairs /\ Queued(q) /\ Pair(t)' = q /\ msg[t] = Empty
      /\ UNCHANGED <<peer, found, inbox, blocks, link>>
  <2>1. pc[t] = "copy" /\ Goto(t, "delete") /\ UNCHANGED <<peer, found, inbox, blocks, link>>
    BY DEF CopyBlocks, netVars
  <2>2. q \in Pairs
    BY <2>1, WorksOnPair DEF Working
  <2> QED BY <2>1, <2>2 DEF Chain, Inner, Local, Variables, Goto, Pair
<1>2. msg'[t] = [Empty EXCEPT !.payload = blocks[q]] /\ \A u \in Threads \ {t} : msg'[u] = msg[u]
  BY <1>1 DEF CopyBlocks, Inner, Variables
<1>3. ASSUME NEW u \in Threads \ {t} PROVE Built(u)'
  <2>1. Kept(u)
    BY <1>1, <1>2 DEF CopyBlocks, Kept, Goto, Inner, Variables
  <2> QED BY <2>1, BuiltStays DEF Kept, Chain
<1>4. ASSUME NEW r \in Pairs PROVE Queued(r)'
  <2>1. ASSUME NEW w \in ToSet(they'[r]) PROVE \E v \in ToSet(they[r]) : v.cid = w.cid
    <3>1. they[r] \in Seq(Wants) /\ they'[r] \in Seq(Wants)
      BY DEF Inner, Tables
    <3>2. Len(they'[r]) = Len(they[r]) /\ \A k \in 1 .. Len(they[r]) : they'[r][k].cid = they[r][k].cid
      <4>1. they' = [they EXCEPT ![q] = CancelCids(they[q], ToSet(blocks[q]))]
        BY DEF CopyBlocks
      <4>2. they \in [Pairs -> Seq(Wants)] /\ they[q] \in Seq(Wants)
        BY <1>1 DEF Inner, Tables
      <4>3. they'[r] = they[r] \/ they'[r] = CancelCids(they[r], ToSet(blocks[q]))
        BY <4>1, <4>2
      <4> QED BY <3>1, <4>3, CancelCidsMarks
    <3>3. PICK k \in 1 .. Len(they'[r]) : w = they'[r][k]
      BY <3>1, InSequence
    <3>4. k \in 1 .. Len(they[r]) /\ they[r][k].cid = w.cid
      BY <3>2, <3>3
    <3>5. they[r][k] \in ToSet(they[r])
      BY <3>1, <3>4, InSequence
    <3> QED BY <3>4, <3>5
  <2> QED BY <1>1, <2>1, QueuedStays DEF Chain
<1>5. Built(t)'
  <2>1. msg'[t].payload = blocks[q] /\ msg'[t].wantlist = <<>>
    BY <1>2 DEF Empty
  <2>2. ToSet(<<>>) = {}
    BY ShortSequences
  <2>3. \A c \in ToSet(blocks[q]) : Requested(Flip(q), c)'
    BY <1>1, JustifiedStays DEF Queued
  <2>4. Justified(Pair(t), msg[t])'
    BY <1>1, <2>1, <2>2, <2>3 DEF Justified, Requested
  <2> QED BY <1>1, <2>4 DEF Built
<1> QED
  BY <1>3, <1>4, <1>5 DEF Chain

(* The blocks leave the queue, and stay in the message. *)
LEMMA DeleteBlocksChain ==
  ASSUME Grown, Inner, Chain, NEW t \in Threads, DeleteBlocks(t) PROVE Chain'
<1> PICK q : q = Pair(t)
  OBVIOUS
<1>1. /\ pc[t] = "delete" /\ pc'[t] = "wantlist" /\ q \in Pairs /\ Pair(t)' = q
      /\ UNCHANGED <<peer, found, msg, they, inbox, link>>
  <2>1. pc[t] = "delete" /\ Goto(t, "wantlist") /\ UNCHANGED <<peer, found, msg, they, inbox, link>>
    BY DEF DeleteBlocks, netVars
  <2>2. q \in Pairs
    BY <2>1, WorksOnPair DEF Working
  <2> QED BY <2>1, <2>2 DEF Inner, Variables, Goto, Pair
<1>2. ASSUME NEW u \in Threads \ {t} PROVE Built(u)'
  <2>1. Kept(u)
    BY <1>1 DEF DeleteBlocks, Kept, Goto, Inner, Variables
  <2> QED BY <2>1, BuiltStays DEF Kept, Chain
<1>3. ASSUME NEW r \in Pairs PROVE Queued(r)'
  <2>1. ToSet(blocks'[r]) \subseteq ToSet(blocks[r])
    <3>1. blocks[q] \in Seq(Cids) /\ tot[t] \in Nat
      BY <1>1 DEF Inner, Tables, Variables
    <3>2. ToSet(SubSeq(blocks[q], tot[t] + 1, Len(blocks[q]))) \subseteq ToSet(blocks[q])
      BY <3>1, InSubSeq
    <3>3. \/ blocks'[r] = blocks[r]
          \/ r = q /\ blocks'[r] = SubSeq(blocks[q], tot[t] + 1, Len(blocks[q]))
      BY DEF DeleteBlocks, Inner, Tables
    <3> QED BY <3>2, <3>3
  <2> QED BY <1>1, <2>1, QueuedStays DEF Chain
<1>4. Built(t)'
  <2>1. Justified(q, msg[t])
    BY <1>1 DEF Chain, Built
  <2>2. PICK m : m = msg[t]
    OBVIOUS
  <2>3. Justified(q, m)'
    BY <1>1, <2>1, <2>2, JustifiedStays
  <2>4. Justified(Pair(t), msg[t])'
    BY <1>1, <2>2, <2>3 DEF Justified, Requested
  <2> QED BY <1>1, <2>4 DEF Built
<1> QED
  BY <1>2, <1>3, <1>4 DEF Chain

(* The wants of the message are marked as sent with it. *)
LEMMA AddWantlistChain ==
  ASSUME Grown, Inner, Inner', Chain, NEW t \in Threads, AddWantlist(t) PROVE Chain'
<1> PICK q : q = Pair(t)
  OBVIOUS
<1>1. /\ pc[t] = "wantlist" /\ pc'[t] = "send" /\ q \in Pairs /\ Pair(t)' = q
      /\ UNCHANGED <<peer, found, they, inbox, blocks, link>>
  <2>1. pc[t] = "wantlist" /\ Goto(t, "send") /\ UNCHANGED <<peer, found, they, inbox, blocks, link>>
    BY DEF AddWantlist, netVars
  <2>2. q \in Pairs
    BY <2>1, WorksOnPair DEF Working
  <2> QED BY <2>1, <2>2 DEF Inner, Variables, Goto, Pair
<1>2. /\ Len(we'[q]) = Len(we[q]) /\ we'[q] \in Seq(CidEntries)
      /\ \A k \in 1 .. Len(we[q]) :
           we'[q][k].cid = we[q][k].cid /\ (~we[q][k].cancel => we'[q][k].request_has_been_sent)
      /\ msg'[t].payload = msg[t].payload
      /\ \A w \in ToSet(msg'[t].wantlist) : ItemOf(w, we[q])
  <2>1. we'[q] \in Seq(CidEntries)
    BY <1>1 DEF Inner, Tables
  <2>2. /\ Len(we'[q]) = Len(we[q]) /\ msg'[t].payload = msg[t].payload
        /\ \A k \in 1 .. Len(we[q]) : we'[q][k].cid = we[q][k].cid
    BY AddWantlistMarks
  <2>3. \A k \in 1 .. Len(we[q]) : ~we[q][k].cancel => we'[q][k].request_has_been_sent
    BY AddWantlistMarks
  <2>4. \A w \in ToSet(msg'[t].wantlist) : ItemOf(w, we[q])
    BY AddWantlistMarks
  <2> QED BY <2>1, <2>2, <2>3, <2>4
<1>3. ASSUME NEW u \in Threads \ {t} PROVE Built(u)'
  <2>1. Kept(u)
    BY <1>1 DEF AddWantlist, Kept, Goto, Inner, Variables
  <2> QED BY <2>1, BuiltStays DEF Kept, Chain
<1>4. ASSUME NEW r \in Pairs PROVE Queued(r)'
  BY <1>1, QueuedStays DEF Chain
<1>5. Built(t)'
  <2>1. \A c \in ToSet(msg[t].payload) : Requested(Flip(q), c)
    BY <1>1 DEF Chain, Built, Justified
  <2>2. \A c \in ToSet(msg[t].payload) : Requested(Flip(q), c)'
    BY <1>1, <2>1, JustifiedStays
  <2>3. ASSUME NEW w \in ToSet(msg'[t].wantlist), ~w.cancel PROVE Requested(q, w.cid)'
    <3>1. PICK k \in 1 .. Len(we[q]) : w.cid = we[q][k].cid /\ w.cancel = we[q][k].cancel
      BY <1>2 DEF ItemOf
    <3>2. k \in 1 .. Len(we'[q]) /\ we'[q][k].cid = w.cid /\ we'[q][k].request_has_been_sent
      BY <1>2, <2>3, <3>1
    <3>3. we'[q][k] \in ToSet(we'[q])
      BY <1>2, <3>2, InSequence
    <3> QED BY <3>2, <3>3 DEF Requested
  <2>4. Justified(Pair(t), msg[t])'
    BY <1>1, <1>2, <2>2, <2>3 DEF Justified, Requested
  <2> QED BY <1>1, <2>4 DEF Built
<1> QED
  BY <1>3, <1>4, <1>5 DEF Chain

(* A message that is sent is the one the thread has built. *)
LEMMA SendChain ==
  ASSUME Grown, Inner, Chain, NEW t \in Threads, Send(t) PROVE Chain'
<1> PICK q : q = Pair(t)
  OBVIOUS
<1>1. /\ pc[t] = "send" /\ q \in Pairs /\ Finish(t) /\ UNCHANGED <<they, inbox, blocks>>
      /\ \A r \in Pairs : \/ link'[r] = link[r]
                          \/ link'[r] = <<>>
                          \/ r = q /\ (link'[r] = Append(link[r], msg[t]) \/ link'[r] = <<msg[t]>>)
  BY SendLinks DEF Send, requestVars
<1>2. ASSUME NEW u \in Threads PROVE Built(u)'
  <2>1. CASE u = t
    <3>1. pc'[t] \in {"idle", "next"}
      BY <1>1 DEF Finish, Goto, Inner, Variables
    <3> QED BY <2>1, <3>1 DEF Built
  <2>2. CASE u # t
    <3>1. Kept(u)
      BY <1>1, <2>2 DEF Kept, Finish, Goto, Inner, Variables
    <3> QED BY <3>1, BuiltStays DEF Kept, Chain
  <2> QED BY <2>1, <2>2
<1>3. ASSUME NEW r \in Pairs PROVE Queued(r)'
  <2>1. Queued(r) /\ link[r] \in Seq(Messages) /\ msg[t] \in Messages
    BY DEF Chain, Inner, Tables, Variables
  <2>2. /\ \A m : Justified(r, m) => Justified(r, m)'
        /\ \A c : Requested(Flip(r), c) => Requested(Flip(r), c)'
    BY JustifiedStays
  <2>3. ASSUME NEW m \in ToSet(link'[r]) PROVE m \in ToSet(link[r]) \/ (r = q /\ m = msg[t])
    <3>1. ToSet(<<>>) = {} /\ ToSet(<<msg[t]>>) = {msg[t]}
      BY ShortSequences
    <3>2. ToSet(Append(link[r], msg[t])) = ToSet(link[r]) \cup {msg[t]}
      BY <2>1, InSequence
    <3> QED BY <1>1, <3>1, <3>2
  <2>4. ASSUME NEW m \in ToSet(link'[r]) PROVE Justified(r, m)'
    <3>1. Justified(r, m)
      BY <1>1, <2>1, <2>3 DEF Queued, Chain, Built
    <3> QED BY <2>2, <3>1
  <2> QED BY <1>1, <2>1, <2>2, <2>4 DEF Queued
<1> QED
  BY <1>2, <1>3 DEF Chain

(* A message that is read hands its wants to the handler. *)
LEMMA ReceiveChain ==
  ASSUME Grown, Inner, Chain, NEW n \in Nodes, NEW p \in Nodes \ {n}, Receive(n, p) PROVE Chain'
<1> PICK q : q = <<n, p>>
  OBVIOUS
<1> PICK r : r = <<p, n>>
  OBVIOUS
<1> PICK m : m = Head(link[r])
  OBVIOUS
<1>1. q \in Pairs /\ r \in Pairs /\ Flip(q) = r /\ q # r
  BY NodePair
<1>2. /\ link[r] # <<>> /\ link' = [link EXCEPT ![r] = Tail(link[r])]
      /\ inbox' = [inbox EXCEPT ![q] = m.wantlist]
      /\ UNCHANGED <<they, blocks, pc, peer, found, msg>>
  BY DEF Receive, localVars
<1>3. link \in [Pairs -> Seq(Messages)] /\ inbox \in [Pairs -> Seq(Wants)]
  BY DEF Inner, Tables
<1>4. m \in ToSet(link[r]) /\ ToSet(Tail(link[r])) \subseteq ToSet(link[r])
  <2>1. link[r] \in Seq(Messages) /\ link[r] # <<>>
    BY <1>1, <1>2, <1>3
  <2>2. Head(link[r]) \in ToSet(link[r]) /\ ToSet(link[r]) = ToSet(Tail(link[r])) \cup {Head(link[r])}
    BY <2>1, InSequence
  <2> QED BY <2>2
<1>5. ASSUME NEW u \in Threads PROVE Built(u)'
  BY <1>2, BuiltStays DEF Chain
<1>6. ASSUME NEW x \in Pairs PROVE ToSet(link'[x]) \subseteq ToSet(link[x])
  BY <1>1, <1>2, <1>3, <1>4
<1>7. ASSUME NEW x \in Pairs \ {q} PROVE Queued(x)'
  <2>1. inbox'[x] = inbox[x] /\ they'[x] = they[x] /\ blocks'[x] = blocks[x]
    BY <1>2, <1>3
  <2> QED BY <1>6, <2>1, QueuedStays DEF Chain
<1>8. Queued(q)'
  <2>1. Justified(r, m) /\ Queued(q)
    BY <1>1, <1>4 DEF Chain, Queued
  <2>2. /\ \A x : Justified(q, x) => Justified(q, x)'
        /\ \A c : Requested(Flip(q), c) => Requested(Flip(q), c)'
    BY <1>1, JustifiedStays
  <2>3. inbox'[q] = m.wantlist
    BY <1>1, <1>2, <1>3
  <2>4. \A w \in ToSet(m.wantlist) : w.cancel \/ Requested(Flip(q), w.cid)
    BY <1>1, <2>1 DEF Justified
  <2>5. \A x \in ToSet(link'[q]) : Justified(q, x)
    BY <1>1, <1>6, <2>1 DEF Queued
  <2> QED BY <1>2, <2>1, <2>2, <2>3, <2>4, <2>5 DEF Queued
<1> QED
  BY <1>5, <1>7, <1>8 DEF Chain

(* adjust_cid_queue queues what the message wants. *)
LEMMA HandleWantChain ==
  ASSUME Grown, Inner, Chain, NEW n \in Nodes, NEW p \in Nodes \ {n}, HandleWant(n, p) PROVE Chain'
<1> PICK q : q = <<n, p>>
  OBVIOUS
<1> PICK w : w = Head(inbox[q])
  OBVIOUS
<1>1. /\ q \in Pairs /\ w \in Wants /\ w \in ToSet(inbox[q])
      /\ \A r \in Pairs : ToSet(inbox'[r]) \subseteq ToSet(inbox[r])
      /\ \A r \in Pairs \ {q} : they'[r] = they[r]
      /\ \A r \in Pairs : link'[r] = link[r] \/ link'[r] = <<>>
  BY HandleWantMoves
<1>2. Moved(q, w)
  BY HandleWantMoves
<1>3. UNCHANGED <<blocks, pc, peer, found, msg>>
  BY DEF HandleWant
<1>4. ASSUME NEW u \in Threads PROVE Built(u)'
  BY <1>3, BuiltStays DEF Chain
<1>5. ToSet(<<>>) = {} /\ ToSet(<<w>>) = {w}
  BY ShortSequences
<1>6. ASSUME NEW r \in Pairs PROVE ToSet(link'[r]) \subseteq ToSet(link[r])
  BY <1>1, <1>5
<1>7. ASSUME NEW r \in Pairs \ {q} PROVE Queued(r)'
  BY <1>1, <1>3, <1>6, QueuedStays DEF Chain
<1>8. Queued(q)'
  <2>1. Queued(q)
    BY <1>1 DEF Chain
  <2>2. /\ \A x : Justified(q, x) => Justified(q, x)'
        /\ \A c : Requested(Flip(q), c) => Requested(Flip(q), c)'
    BY <1>1, JustifiedStays
  <2>3. ASSUME NEW v \in ToSet(they'[q]) PROVE Requested(Flip(q), v.cid)
    <3>1. they'[q] = they[q] \/ they'[q] = <<>> \/ (they'[q] = <<w>> /\ ~w.cancel)
      BY <1>2 DEF Moved
    <3> QED BY <1>1, <1>5, <2>1, <3>1 DEF Queued
  <2> QED BY <1>1, <1>3, <1>6, <2>1, <2>2, <2>3 DEF Queued
<1> QED
  BY <1>4, <1>7, <1>8 DEF Chain

(* At the start there is nothing to justify. *)
LEMMA InitChain == Init => Chain
<1>1. SUFFICES ASSUME Init PROVE Chain
  OBVIOUS
<1>2. ToSet(<<>>) = {}
  BY ShortSequences
<1>3. ASSUME NEW q \in Pairs PROVE Queued(q)
  BY <1>1, <1>2 DEF Init, Queued
<1>4. ASSUME NEW t \in Threads PROVE Built(t)
  BY <1>1 DEF Init, Built
<1> QED
  BY <1>3, <1>4 DEF Chain

(* No step breaks the chain. *)
LEMMA StepChain == Inner /\ Chain /\ [Next]_vars => Chain'
<1>1. SUFFICES ASSUME Inner, Chain, [Next]_vars PROVE Chain'
  OBVIOUS
<1>2. Grown /\ Inner'
  BY <1>1, RequestsGrow, StepInner
<1>3. CASE UNCHANGED vars
  <2>1. UNCHANGED <<they, inbox, blocks, link, pc, peer, found, msg>>
    BY <1>3 DEF vars, requestVars, netVars, localVars
  <2> QED BY <1>1, <1>2, <2>1, ChainLoses, OnlyCut DEF Kept
<1>4. ASSUME NEW t \in Threads, ProcessEntry(t) PROVE Chain'
  BY <1>1, <1>2, <1>4, OutsideChain, GatherChain, CopyBlocksChain, DeleteBlocksChain, AddWantlistChain,
     SendChain DEF ProcessEntry
<1>5. ASSUME NEW n \in Nodes, NodeStep(n) PROVE Chain'
  BY <1>1, <1>2, <1>5, OutsideChain, ReceiveChain, HandleWantChain, FailureChain DEF NodeStep
<1>6. ASSUME NEW q \in Pairs, Break(q) \/ Notice(q) PROVE Chain'
  BY <1>1, <1>2, <1>6, OutsideChain
<1>7. ASSUME NEW t \in Threads, SendFails(t) PROVE Chain'
  BY <1>1, <1>2, <1>7, FailureChain
<1> QED
  BY <1>1, <1>3, <1>4, <1>5, <1>6, <1>7 DEF Next

(* The chain means that only what was asked for is under way. *)
LEMMA ChainAnswers == Inner /\ Chain => OnlyWhatWasAsked
<1>1. SUFFICES ASSUME Inner, Chain, NEW q \in Pairs, NEW m \in Underway(q), NEW c \in ToSet(m.payload)
               PROVE  Requested(Flip(q), c)
  BY DEF OnlyWhatWasAsked, Requested
<1>2. CASE m \in ToSet(link[q])
  BY <1>1, <1>2 DEF Chain, Queued, Justified
<1>3. ASSUME NEW t \in Threads, Pair(t) = q, m = msg[t] PROVE Requested(Flip(q), c)
  <2>1. CASE pc[t] \in {"delete", "wantlist", "send"}
    BY <1>1, <1>3, <2>1 DEF Chain, Built, Justified
  <2>2. CASE pc[t] \notin {"delete", "wantlist", "send"}
    <3>1. m = Empty
      BY <1>1, <1>3, <2>2 DEF Inner, Local
    <3>3. ToSet(<<>>) = {}
      BY ShortSequences
    <3> QED BY <1>1, <3>1, <3>3 DEF Empty
  <2> QED BY <2>1, <2>2
<1> QED
  BY <1>1, <1>2, <1>3 DEF Underway

(* A node is sent only what it has asked this peer for, in every state and for
   any number of nodes: two threads without a lock, a cancel that takes an
   entry away under one of them, lost connections and the queue that
   adjust_cid_queue mishandles never put another block into a message. *)
THEOREM OnlyAnswers == Spec => []OnlyWhatWasAsked
<1>1. Init => Inner /\ Chain
  BY InitInner, InitChain
<1>2. (Inner /\ Chain) /\ [Next]_vars => (Inner /\ Chain)'
  BY StepInner, StepChain
<1>3. Inner /\ Chain => OnlyWhatWasAsked
  BY ChainAnswers
<1> QED
  BY <1>1, <1>2, <1>3, PTL DEF Spec

-----------------------------------------------------------------------------
(* Connections. *)

\* Nothing has happened to the connection of q.
Holds(q) == faults = 0 /\ q[1] \notin crashed /\ q[2] \notin crashed

\* Both ends are connected or none is; what is connected is taken for connected,
\* and the other way round while nothing has happened.
WireOK(q) ==
  /\ q \in up <=> Flip(q) \in up
  /\ q \notin up => link[q] = <<>>
  /\ q \in up => q \in sees
  /\ Holds(q) /\ q \in sees => q \in up

InUse == {"gather", "add", "copy", "delete", "wantlist", "send"}

\* A thread that builds a message has a connection to send it on.
Plugged(t) == pc[t] \in InUse /\ Holds(Pair(t)) => Pair(t) \in up

Wires == (\A q \in Pairs : WireOK(q)) /\ \A t \in Threads : Plugged(t)

\* A thread that does not begin to build a message.
Goes(t) == pc'[t] \in InUse => pc[t] \in InUse /\ peer'[t] = peer[t]

(* A step that leaves the connections. *)
LEMMA WiresStay ==
  ASSUME Wires, UNCHANGED <<up, sees, faults, crashed>>,
         \A q \in Pairs \ up : link'[q] = link[q],
         \A t \in Threads : Goes(t)
  PROVE  Wires'
<1>1. ASSUME NEW q \in Pairs PROVE WireOK(q)'
  BY DEF Wires, WireOK, Holds
<1>2. ASSUME NEW t \in Threads PROVE Plugged(t)'
  BY DEF Wires, Plugged, Goes, Holds, Pair
<1> QED
  BY <1>1, <1>2 DEF Wires

(* A step after which nothing is said of connections that hold. *)
LEMMA WiresLose ==
  ASSUME Wires, UNCHANGED <<up, sees>>, faults' # 0,
         \A q \in Pairs : link[q] = <<>> => link'[q] = <<>>
  PROVE  Wires'
<1>1. ASSUME NEW q \in Pairs PROVE WireOK(q)'
  BY DEF Wires, WireOK, Holds
<1>2. ASSUME NEW t \in Threads PROVE Plugged(t)'
  BY DEF Plugged, Holds
<1> QED
  BY <1>1, <1>2 DEF Wires

(* A step that ends connections, and that something has happened to. *)
LEMMA WiresDrop ==
  ASSUME Inner, Wires, NEW S \in SUBSET Pairs, Drop(S), UNCHANGED sees,
         \A q \in Pairs : Holds(q)' => Holds(q) /\ q \notin S,
         \A q \in S : Flip(q) \in S,
         \A t \in Threads : Goes(t)
  PROVE  Wires'
<1>1. ASSUME NEW q \in Pairs PROVE WireOK(q)'
  <2>1. /\ WireOK(q) /\ up' = up \ S /\ link'[q] = IF q \in S THEN <<>> ELSE link[q]
        /\ Flip(q) \in Pairs /\ Flip(Flip(q)) = q
    BY FlipPair DEF Wires, Drop
  <2>2. q \in S <=> Flip(q) \in S
    BY <2>1
  <2>3. sees' = sees /\ (Holds(q)' => Holds(q) /\ q \notin S)
    OBVIOUS
  <2> QED BY <2>1, <2>2, <2>3 DEF WireOK
<1>2. ASSUME NEW t \in Threads PROVE Plugged(t)'
  <2> SUFFICES ASSUME pc'[t] \in InUse, Holds(Pair(t))' PROVE Pair(t)' \in up'
    BY DEF Plugged
  <2> PICK q : q = Pair(t)
    OBVIOUS
  <2>1. pc[t] \in InUse /\ Pair(t)' = q
    BY DEF Goes, Pair
  <2>2. q \in Pairs
    BY <2>1, WorksOnPair DEF Working, InUse
  <2>3. Holds(q)'
    BY <2>1 DEF Holds
  <2>4. q \in up /\ q \notin S
    BY <2>1, <2>2, <2>3 DEF Wires, Plugged
  <2> QED BY <2>1, <2>4 DEF Drop
<1> QED
  BY <1>1, <1>2 DEF Wires

(* A step that connects the two ends of q. *)
LEMMA WiresConnect ==
  ASSUME Inner, Wires, NEW q \in Pairs, NEW t \in Threads, q = Pair(t),
         up' = up \cup {q, Flip(q)}, sees' = sees \cup {q, Flip(q)}, UNCHANGED <<faults, crashed, peer>>,
         \A r \in Pairs \ {q, Flip(q)} : link'[r] = link[r],
         \A u \in Threads \ {t} : Goes(u)
  PROVE  Wires'
<1>1. /\ Flip(q) \in Pairs /\ Flip(Flip(q)) = q
  BY FlipPair
<1>2. ASSUME NEW r \in Pairs PROVE WireOK(r)'
  <2>1. WireOK(r) /\ Flip(r) \in Pairs /\ Flip(Flip(r)) = r /\ (Holds(r)' => Holds(r))
    BY FlipPair DEF Wires, Holds
  <2> QED BY <1>1, <2>1 DEF WireOK
<1>3. ASSUME NEW u \in Threads PROVE Plugged(u)'
  <2>1. CASE u = t
    BY <2>1 DEF Plugged, Pair
  <2>2. CASE u # t
    BY <2>2 DEF Wires, Plugged, Goes, Holds, Pair
  <2> QED BY <2>1, <2>2
<1> QED
  BY <1>2, <1>3 DEF Wires

(* A process that dies takes its connections with it. *)
LEMMA WiresCrash ==
  ASSUME Inner, Wires, NEW n \in Nodes, Crash(n), UNCHANGED <<sees, faults>>,
         \A t \in Threads : Goes(t)
  PROVE  Wires'
<1>1. Touching(n) \in SUBSET Pairs /\ Drop(Touching(n)) /\ \A q \in Touching(n) : Flip(q) \in Touching(n)
  BY FlipPair DEF Touching, Crash
<1>2. \A q \in Pairs : Holds(q)' => Holds(q) /\ q \notin Touching(n)
  BY DEF Holds, Touching, Crash
<1> QED
  BY <1>1, <1>2, WiresDrop

(* At the start nobody is connected. *)
LEMMA InitWires == Init => Wires
<1>1. SUFFICES ASSUME Init PROVE Wires
  OBVIOUS
<1>2. ASSUME NEW q \in Pairs PROVE WireOK(q)
  BY <1>1, FlipPair DEF Init, WireOK
<1>3. ASSUME NEW t \in Threads PROVE Plugged(t)
  BY <1>1 DEF Init, Plugged, InUse
<1> QED
  BY <1>2, <1>3 DEF Wires

(* A thread that ends, or goes to a step that builds nothing, and the threads
   that do nothing. *)
LEMMA ThreadsGo ==
  ASSUME Inner, NEW t \in Threads
  PROVE  /\ \A x \in {"idle", "next", "begin"} : pc' = [pc EXCEPT ![t] = x]
              /\ (UNCHANGED peer \/ \E p : peer' = [peer EXCEPT ![t] = p]) => \A u \in Threads : Goes(u)
         /\ \A x \in InUse : pc[t] \in InUse /\ pc' = [pc EXCEPT ![t] = x] /\ UNCHANGED peer =>
              \A u \in Threads : Goes(u)
         /\ Goto(t, "gather") /\ UNCHANGED peer => \A u \in Threads \ {t} : Goes(u)
         /\ Finish(t) => \A u \in Threads : Goes(u)
         /\ UNCHANGED <<pc, peer>> => \A u \in Threads : Goes(u)
<1>1. pc \in [Threads -> Steps] /\ peer \in [Threads -> Nodes \cup {NoPeer}]
  BY DEF Inner, Variables
<1>2. Finish(t) => /\ \E x \in {"idle", "next", "begin"} : pc' = [pc EXCEPT ![t] = x]
                   /\ peer' = [peer EXCEPT ![t] = NoPeer]
  BY DEF Finish, Goto
<1>3. ASSUME NEW x \in {"idle", "next", "begin"}, pc' = [pc EXCEPT ![t] = x],
             UNCHANGED peer \/ \E p : peer' = [peer EXCEPT ![t] = p],
             NEW u \in Threads
      PROVE  Goes(u)
  BY <1>1, <1>3 DEF Goes, InUse
<1>4. ASSUME NEW x \in InUse, pc[t] \in InUse, pc' = [pc EXCEPT ![t] = x], UNCHANGED peer, NEW u \in Threads
      PROVE  Goes(u)
  BY <1>1, <1>4 DEF Goes
<1>5. ASSUME Goto(t, "gather"), UNCHANGED peer, NEW u \in Threads \ {t} PROVE Goes(u)
  BY <1>1, <1>5 DEF Goes, Goto
<1>6. ASSUME Finish(t), NEW u \in Threads PROVE Goes(u)
  <2>1. PICK x \in {"idle", "next", "begin"} : pc' = [pc EXCEPT ![t] = x]
    BY <1>2, <1>6
  <2> QED BY <1>2, <1>3, <1>6, <2>1
<1>7. ASSUME UNCHANGED <<pc, peer>>, NEW u \in Threads PROVE Goes(u)
  BY <1>7 DEF Goes
<1> QED
  BY <1>3, <1>4, <1>5, <1>6, <1>7

(* No step leaves one end connected, or a thread at work without a connection
   while nothing has happened to it. *)
LEMMA StepWires == Inner /\ Wires /\ [Next]_vars => Wires'
<1>1. SUFFICES ASSUME Inner, Wires, [Next]_vars PROVE Wires'
  OBVIOUS
<1>2. CASE UNCHANGED vars
  <2>1. UNCHANGED <<up, sees, link, faults, crashed, pc, peer>>
    BY <1>2 DEF vars, netVars, localVars
  <2> QED BY <1>1, <2>1, WiresStay DEF Goes
<1>3. ASSUME NEW n \in Nodes, NodeStep(n) PROVE Wires'
  <2>1. <<n, "wants">> \in Threads /\ <<n, "peers">> \in Threads
    BY ThreadNode
  <2>2. CASE \/ \E c \in Cids : FindProviders(n, c)
             \/ AskProvider(n) \/ AllAsked(n)
             \/ \E p \in Nodes \ {n} : VisitPeer(n, p)
    <3>1. UNCHANGED <<up, sees, link, faults, crashed>>
      BY <2>2 DEF FindProviders, AskProvider, AllAsked, VisitPeer, netVars
    <3>2. \E t \in Threads : \E x \in {"idle", "next", "begin"} :
            /\ pc' = [pc EXCEPT ![t] = x]
            /\ UNCHANGED peer \/ \E p : peer' = [peer EXCEPT ![t] = p]
      <4>1. CASE (\E c \in Cids : FindProviders(n, c)) \/ AllAsked(n)
        BY <2>1, <4>1 DEF FindProviders, AllAsked, Goto
      <4>2. CASE AskProvider(n)
        BY <2>1, <4>2 DEF AskProvider, Goto
      <4>3. CASE \E p \in Nodes \ {n} : VisitPeer(n, p)
        BY <2>1, <4>3 DEF VisitPeer, Goto
      <4> QED BY <2>2, <4>1, <4>2, <4>3
    <3>3. \A u \in Threads : Goes(u)
      BY <1>1, <3>2, ThreadsGo
    <3> QED BY <1>1, <3>1, <3>3, WiresStay
  <2>3. ASSUME NEW p \in Nodes \ {n}, Withdraw(n, p) PROVE Wires'
    <3>1. UNCHANGED <<up, sees, link, faults, crashed, pc, peer>>
      BY <2>3 DEF Withdraw, netVars, localVars
    <3> QED BY <1>1, <3>1, WiresStay DEF Goes
  <2>4. ASSUME NEW p \in Nodes \ {n}, Receive(n, p) PROVE Wires'
    <3>1. UNCHANGED <<up, sees, faults, crashed, pc, peer>>
      BY <2>4 DEF Receive, localVars
    <3>2. <<p, n>> \in Pairs /\ link[<<p, n>>] # <<>> /\ link' = [link EXCEPT ![<<p, n>>] = Tail(@)]
      BY <2>4, NodePair DEF Receive
    <3>3. <<p, n>> \in up
      BY <1>1, <3>2 DEF Wires, WireOK
    <3>4. \A q \in Pairs : q # <<p, n>> => link'[q] = link[q]
      BY <1>1, <3>2 DEF Inner, Tables
    <3> QED BY <1>1, <3>1, <3>3, <3>4, WiresStay DEF Goes
  <2>5. ASSUME NEW p \in Nodes \ {n}, HandleWant(n, p) PROVE Wires'
    <3>1. UNCHANGED <<sees, faults, pc, peer>> /\ (UNCHANGED <<up, link, crashed>> \/ Crash(n))
      BY <2>5 DEF HandleWant
    <3>2. \A u \in Threads : Goes(u)
      BY <3>1 DEF Goes
    <3>3. CASE UNCHANGED <<up, link, crashed>>
      BY <1>1, <3>1, <3>2, <3>3, WiresStay
    <3>4. CASE Crash(n)
      BY <1>1, <3>1, <3>2, <3>4, WiresCrash
    <3> QED BY <3>1, <3>3, <3>4
  <2>9. ASSUME NEW p \in Nodes \ {n}, Discard(n, p) PROVE Wires'
    <3>1. /\ UNCHANGED <<up, sees>> /\ faults' # 0
          /\ \A q \in Pairs : link[q] = <<>> => link'[q] = <<>>
      BY <1>1, <2>9, DiscardLoses
    <3> QED BY <1>1, <3>1, WiresLose
  <2> QED BY <1>3, <2>2, <2>3, <2>4, <2>5, <2>9 DEF NodeStep
<1>4. ASSUME NEW t \in Threads, Begin(t) PROVE Wires'
  <2> PICK q : q = Pair(t)
    OBVIOUS
  <2>1. pc[t] = "begin" /\ q \in Pairs /\ crashed' = crashed /\ Flip(q) \in Pairs
    BY <1>1, <1>4, WorksOnPair, FlipPair DEF Begin, Working
  <2>2. CASE q \in sees /\ Goto(t, "gather") /\ UNCHANGED <<peer, netVars>>
    <3>1. UNCHANGED <<up, sees, link, faults, peer>>
      BY <2>2 DEF netVars
    <3>2. ASSUME NEW r \in Pairs PROVE WireOK(r)'
      BY <1>1, <2>1, <3>1 DEF Wires, WireOK, Holds
    <3>3. ASSUME NEW u \in Threads \ {t} PROVE Plugged(u)'
      <4>1. Goes(u)
        BY <1>1, <2>2, ThreadsGo
      <4> QED BY <1>1, <2>1, <3>1, <4>1 DEF Wires, Plugged, Goes, Holds, Pair
    <3>4. Plugged(t)'
      <4>1. Pair(t)' = q /\ (Holds(q)' => Holds(q))
        BY <2>1, <3>1 DEF Pair, Holds
      <4>2. Holds(Pair(t))' => Holds(q)
        BY <2>1, <3>1, <4>1 DEF Holds
      <4> QED BY <1>1, <2>1, <2>2, <3>1, <4>1, <4>2 DEF Wires, WireOK, Plugged
    <3> QED BY <3>2, <3>3, <3>4 DEF Wires
  <2>3. CASE Connect(q) /\ Goto(t, "gather") /\ UNCHANGED <<peer, faults>>
    <3>1. \A r \in Pairs \ {q, Flip(q)} : link'[r] = link[r]
      BY <1>1, <2>1, <2>3 DEF Connect, Inner, Tables
    <3>2. \A u \in Threads \ {t} : Goes(u)
      BY <1>1, <2>3, ThreadsGo
    <3>3. up' = up \cup {q, Flip(q)} /\ sees' = sees \cup {q, Flip(q)}
      BY <2>3 DEF Connect
    <3> QED BY <1>1, <2>1, <2>3, <3>1, <3>2, <3>3, WiresConnect
  <2>4. CASE Finish(t) /\ UNCHANGED netVars
    <3>1. \A u \in Threads : Goes(u)
      BY <1>1, <2>4, ThreadsGo
    <3> QED BY <1>1, <2>1, <2>4, <3>1, WiresStay DEF netVars
  <2>5. CASE Finish(t) /\ UNCHANGED <<up, sees, link>> /\ faults' = faults + 1
    <3>1. \A u \in Threads : Goes(u)
      BY <1>1, <2>5, ThreadsGo
    <3>2. faults' # 0
      BY <1>1, <2>5, NetworkAssumption DEF Inner, Tables
    <3>3. ASSUME NEW r \in Pairs PROVE WireOK(r)'
      BY <1>1, <2>5, <3>2 DEF Wires, WireOK, Holds
    <3>4. ASSUME NEW u \in Threads PROVE Plugged(u)'
      BY <3>2 DEF Plugged, Holds
    <3> QED BY <3>3, <3>4 DEF Wires
  <2> QED BY <1>4, <2>2, <2>3, <2>4, <2>5 DEF Begin, Fault
<1>5. ASSUME NEW t \in Threads,
             Gather(t) \/ GatherAdd(t) \/ CopyBlocks(t) \/ DeleteBlocks(t) \/ AddWantlist(t)
      PROVE  Wires'
  <2>1. UNCHANGED <<up, sees, link, faults, crashed, peer>>
    BY <1>5 DEF Gather, GatherAdd, CopyBlocks, DeleteBlocks, AddWantlist, netVars
  <2>2. pc[t] \in InUse /\ (pc' = pc \/ \E x \in InUse : pc' = [pc EXCEPT ![t] = x])
    BY <1>5 DEF Gather, GatherAdd, CopyBlocks, DeleteBlocks, AddWantlist, Goto, InUse
  <2>3. \A u \in Threads : Goes(u)
    BY <1>1, <2>1, <2>2, ThreadsGo
  <2> QED BY <1>1, <2>1, <2>3, WiresStay
<1>6. ASSUME NEW t \in Threads, Send(t) PROVE Wires'
  <2> PICK q : q = Pair(t)
    OBVIOUS
  <2>1. q \in Pairs /\ t[1] \in Nodes /\ faults' = faults /\ Finish(t) /\ Flip(q) \in Pairs /\ Flip(q) # q
    BY <1>1, <1>6, WorksOnPair, ThreadNode, FlipPair DEF Send, Working
  <2>2. \A u \in Threads : Goes(u)
    BY <1>1, <2>1, ThreadsGo
  <2>3. CASE q \in up /\ link' = [link EXCEPT ![q] = Append(@, msg[t])] /\ UNCHANGED <<up, sees, crashed>>
    <3>1. \A r \in Pairs : r # q => link'[r] = link[r]
      BY <1>1, <2>3 DEF Inner, Tables
    <3> QED BY <1>1, <2>1, <2>2, <2>3, <3>1, WiresStay
  <2>4. CASE UNCHANGED <<up, sees, link, crashed>>
    BY <1>1, <2>1, <2>2, <2>4, WiresStay
  <2>5. CASE /\ up' = up \cup {q, Flip(q)} /\ sees' = sees \cup {q, Flip(q)}
             /\ link' = [link EXCEPT ![q] = <<msg[t]>>, ![Flip(q)] = <<>>] /\ UNCHANGED crashed
    <3>1. \A r \in Pairs \ {q, Flip(q)} : link'[r] = link[r]
      BY <1>1, <2>1, <2>5 DEF Inner, Tables
    <3>2. ASSUME NEW r \in Pairs PROVE WireOK(r)'
      <4>1. WireOK(r) /\ Flip(r) \in Pairs /\ Flip(Flip(r)) = r /\ (Holds(r)' => Holds(r))
            /\ Flip(Flip(q)) = q
        BY <1>1, <2>1, <2>5, FlipPair DEF Wires, Holds
      <4> QED BY <2>5, <3>1, <4>1 DEF WireOK
    <3>3. ASSUME NEW u \in Threads PROVE Plugged(u)'
      BY <1>1, <2>1, <2>2, <2>5 DEF Wires, Plugged, Goes, Holds, Pair
    <3> QED BY <3>2, <3>3 DEF Wires
  <2>6. CASE Crash(t[1]) /\ UNCHANGED sees
    BY <1>1, <2>1, <2>2, <2>6, WiresCrash
  <2> QED BY <1>6, <2>3, <2>4, <2>5, <2>6 DEF Send
<1>7. ASSUME NEW q \in Pairs, Break(q) PROVE Wires'
  <2>1. {q, Flip(q)} \in SUBSET Pairs /\ \A r \in {q, Flip(q)} : Flip(r) \in {q, Flip(q)}
    BY FlipPair
  <2>2. faults' # 0
    BY <1>1, <1>7, NetworkAssumption DEF Break, Fault, Inner, Tables
  <2>3. \A r \in Pairs : Holds(r)' => Holds(r) /\ r \notin {q, Flip(q)}
    BY <2>2 DEF Holds
  <2>4. \A u \in Threads : Goes(u)
    BY <1>7 DEF Break, Goes, localVars
  <2> QED BY <1>1, <1>7, <2>1, <2>3, <2>4, WiresDrop DEF Break
<1>8. ASSUME NEW q \in Pairs, Notice(q) PROVE Wires'
  <2>1. UNCHANGED <<up, link, faults, crashed, pc, peer>> /\ sees' = sees \ {q} /\ q \notin up
    BY <1>8 DEF Notice, localVars
  <2>2. ASSUME NEW r \in Pairs PROVE WireOK(r)'
    BY <1>1, <2>1 DEF Wires, WireOK, Holds
  <2>3. ASSUME NEW u \in Threads PROVE Plugged(u)'
    BY <1>1, <2>1 DEF Wires, Plugged, Holds, Pair
  <2> QED BY <2>2, <2>3 DEF Wires
<1>9. ASSUME NEW t \in Threads, SendFails(t) PROVE Wires'
  <2>1. UNCHANGED <<up, sees, link>> /\ faults' # 0
    BY <1>1, <1>9, SendFailsEnds
  <2> QED BY <1>1, <2>1, WiresLose
<1> QED
  BY <1>1, <1>2, <1>3, <1>4, <1>5, <1>6, <1>7, <1>8, <1>9 DEF Next, ProcessEntry

-----------------------------------------------------------------------------
(* Nodes that withdraw nothing. *)

\* The only want of q[2] that q[1] knows of is for c.
OnlyCid(q, c) == they[q] # <<>> /\ they[q][1].cid = c

NoCancel(s) == \A w \in ToSet(s) : ~w.cancel

\* Nothing is withdrawn, and all blocks that q[1] has for q[2] are for one want.
Steady(q) ==
  /\ NoCancel(we[q])
  /\ NoCancel(inbox[q])
  /\ \A m \in ToSet(link[q]) : NoCancel(m.wantlist)
  /\ \A c \in ToSet(blocks[q]) : OnlyCid(q, c)

\* The same for what a thread has in its hands.
Single(t) ==
  /\ pc[t] = "add" => OnlyCid(Pair(t), found[t])
  /\ pc[t] = "delete" => \A c \in ToSet(msg[t].payload) : OnlyCid(Pair(t), c)
  /\ NoCancel(msg[t].wantlist)

OneWant == (\A q \in Pairs : Steady(q)) /\ \A t \in Threads : Single(t)

\* The want stays.
Fixed == \A q \in Pairs : \A c : OnlyCid(q, c) => OnlyCid(q, c)'

(* Without cancels the first want of a peer stays the only one. *)
LEMMA WantsFixed == Inner /\ OneWant /\ [Next]_vars => Fixed
<1>1. SUFFICES ASSUME Inner, OneWant, [Next]_vars, NEW q \in Pairs, NEW c, OnlyCid(q, c)
               PROVE  OnlyCid(q, c)'
  BY DEF Fixed
<1>2. they[q] \in Seq(Wants) /\ they[q] # <<>> /\ they[q][1].cid = c /\ 1 \in 1 .. Len(they[q])
  BY <1>1 DEF Inner, Tables, OnlyCid
<1>3. CASE they' = they
  BY <1>1, <1>3 DEF OnlyCid
<1>4. CASE Len(they'[q]) = Len(they[q]) /\ they'[q][1].cid = they[q][1].cid
  BY <1>2, <1>4 DEF OnlyCid
<1>5. ASSUME NEW t \in Threads, GatherAdd(t) PROVE Len(they'[q]) = Len(they[q]) /\ they'[q][1].cid = they[q][1].cid
  <2> PICK r : r = Pair(t)
    OBVIOUS
  <2> QED BY <1>1, <1>2, <1>5, GatherAddMarks
<1>6. ASSUME NEW t \in Threads, CopyBlocks(t) PROVE Len(they'[q]) = Len(they[q]) /\ they'[q][1].cid = they[q][1].cid
  <2> PICK r : r = Pair(t)
    OBVIOUS
  <2>1. they' = [they EXCEPT ![r] = CancelCids(they[r], ToSet(blocks[r]))]
    BY <1>6 DEF CopyBlocks
  <2>2. they'[q] = they[q] \/ they'[q] = CancelCids(they[q], ToSet(blocks[r]))
    BY <1>1, <2>1 DEF Inner, Tables
  <2> QED BY <1>2, <2>2, CancelCidsMarks
<1>7. ASSUME NEW n \in Nodes, NEW p \in Nodes \ {n}, HandleWant(n, p) PROVE they'[q] = they[q]
  <2> PICK r : r = <<n, p>>
    OBVIOUS
  <2> PICK w : w = Head(inbox[r])
    OBVIOUS
  <2>1. r \in Pairs /\ w \in ToSet(inbox[r]) /\ \A x \in Pairs \ {r} : they'[x] = they[x]
    BY <1>1, <1>7, HandleWantMoves
  <2>2. Moved(r, w)
    BY <1>1, <1>7, HandleWantMoves
  <2>3. ~w.cancel
    BY <1>1, <2>1 DEF OneWant, Steady, NoCancel
  <2>4. they' = they \/ they[r] = <<>>
    BY <2>2, <2>3 DEF Moved
  <2> QED BY <1>2, <2>1, <2>4
<1>8. \/ they' = they
      \/ \E t \in Threads : GatherAdd(t) \/ CopyBlocks(t)
      \/ \E n \in Nodes : \E p \in Nodes \ {n} : HandleWant(n, p)
  BY <1>1 DEF Next, NodeStep, ProcessEntry, FindProviders, AskProvider, AllAsked, VisitPeer, Withdraw,
     Receive, Begin, Gather, DeleteBlocks, AddWantlist, Send, SendFails, Discard, Break, Notice, vars, requestVars
<1> QED
  BY <1>3, <1>4, <1>5, <1>6, <1>7, <1>8 DEF OnlyCid

(* What the queues keep. *)
LEMMA SteadyStays ==
  ASSUME Fixed, NEW q \in Pairs, Steady(q), NoCancel(we[q])',
         ToSet(inbox'[q]) \subseteq ToSet(inbox[q]),
         ToSet(blocks'[q]) \subseteq ToSet(blocks[q]),
         ToSet(link'[q]) \subseteq ToSet(link[q])
  PROVE  Steady(q)'
BY DEF Fixed, Steady, NoCancel

(* What a thread keeps. *)
LEMMA SingleStays ==
  ASSUME Fixed, Inner, NEW t \in Threads, Single(t), Kept(t)
  PROVE  Single(t)'
<1> PICK q : q = Pair(t)
  OBVIOUS
<1>1. Pair(t)' = q /\ pc'[t] = pc[t] /\ found'[t] = found[t] /\ msg'[t] = msg[t]
  BY DEF Kept, Pair
<1>2. ASSUME pc[t] = "add" PROVE OnlyCid(Pair(t), found[t])'
  <2>1. q \in Pairs /\ OnlyCid(q, found[t])
    BY <1>2, WorksOnPair DEF Working, Single
  <2>2. PICK c : c = found[t]
    OBVIOUS
  <2>3. OnlyCid(q, c)'
    BY <2>1, <2>2 DEF Fixed
  <2> QED BY <1>1, <2>2, <2>3 DEF OnlyCid
<1>3. ASSUME pc[t] = "delete", NEW c \in ToSet(msg[t].payload) PROVE OnlyCid(Pair(t), c)'
  <2>1. q \in Pairs /\ OnlyCid(q, c)
    BY <1>3, WorksOnPair DEF Working, Single
  <2>2. OnlyCid(q, c)'
    BY <2>1 DEF Fixed
  <2> QED BY <1>1, <2>2 DEF OnlyCid
<1>4. NoCancel(msg[t].wantlist)'
  BY <1>1 DEF Single, NoCancel
<1> QED
  BY <1>1, <1>2, <1>3, <1>4 DEF Single

(* A thread at another step has a message without cancels. *)
LEMMA SingleMoves ==
  ASSUME NEW t \in Threads, Single(t), msg'[t] = msg[t] \/ msg'[t] = Empty, pc'[t] \notin {"add", "delete"}
  PROVE  Single(t)'
<1>1. NoCancel(Empty.wantlist)
  BY ShortSequences DEF NoCancel, Empty
<1>2. NoCancel(msg[t].wantlist)'
  BY <1>1 DEF Single, NoCancel
<1> QED
  BY <1>2 DEF Single

(* The steps that add nothing to a queue or a message. *)
LEMMA OneWantLoses ==
  ASSUME Fixed, Inner, OneWant, UNCHANGED <<inbox, blocks>>, Cut,
         \A q \in Pairs : NoCancel(we[q])',
         \A t \in Threads : \/ Kept(t)
                            \/ /\ msg'[t] = msg[t] \/ msg'[t] = Empty
                               /\ pc'[t] \notin {"add", "delete"}
  PROVE  OneWant'
<1>1. ASSUME NEW q \in Pairs PROVE Steady(q)'
  <2>1. ToSet(link'[q]) \subseteq ToSet(link[q])
    BY ShortSequences DEF Cut
  <2>2. Steady(q) /\ inbox'[q] = inbox[q] /\ blocks'[q] = blocks[q] /\ NoCancel(we[q])'
    BY DEF OneWant
  <2> QED BY <2>1, <2>2, SteadyStays
<1>2. ASSUME NEW t \in Threads PROVE Single(t)'
  BY SingleStays, SingleMoves DEF OneWant
<1> QED
  BY <1>1, <1>2 DEF OneWant

(* Failures that lose a message. *)
LEMMA FailureOneWant ==
  ASSUME Fixed, Inner, OneWant, \A q \in Pairs : NoCancel(we[q])',
         \/ \E t \in Threads : SendFails(t)
         \/ \E n \in Nodes : \E p \in Nodes \ {n} : Discard(n, p)
  PROVE  OneWant'
<1>1. ASSUME NEW t \in Threads, SendFails(t) PROVE OneWant'
  <2>1. UNCHANGED <<inbox, blocks, link>> /\ Finish(t)
    BY <1>1, SendFailsEnds
  <2>2. pc \in [Threads -> Steps] /\ peer \in [Threads -> Nodes \cup {NoPeer}]
        /\ found \in [Threads -> Cids \cup {NoCid}] /\ msg \in [Threads -> Messages]
    BY DEF Inner, Variables
  <2>3. ASSUME NEW u \in Threads
        PROVE  Kept(u) \/ ((msg'[u] = msg[u] \/ msg'[u] = Empty) /\ pc'[u] \notin {"add", "delete"})
    BY <2>1, <2>2 DEF Kept, Finish, Goto
  <2> QED BY <2>1, <2>3, OneWantLoses DEF Cut
<1>2. ASSUME NEW n \in Nodes, NEW p \in Nodes \ {n}, Discard(n, p) PROVE OneWant'
  <2>1. UNCHANGED <<blocks, pc, peer, found, msg>>
        /\ \A q \in Pairs : /\ ToSet(link'[q]) \subseteq ToSet(link[q])
                            /\ ToSet(inbox'[q]) \subseteq ToSet(inbox[q])
    BY <1>2, DiscardLoses DEF localVars
  <2>2. \A q \in Pairs : Steady(q)'
    BY <2>1, SteadyStays DEF OneWant
  <2>3. \A t \in Threads : Single(t)'
    BY <2>1, SingleStays DEF OneWant, Kept
  <2> QED BY <2>2, <2>3 DEF OneWant
<1> QED
  BY <1>1, <1>2

(* Without nodes that withdraw wants, no entry of cids_we_want is a cancel. *)
LEMMA NothingWithdrawn ==
  ASSUME Cancelling = {}, Inner, OneWant, [Next]_vars, NEW r \in Pairs
  PROVE  NoCancel(we[r])'
<1>1. we \in [Pairs -> Seq(CidEntries)] /\ we[r] \in Seq(CidEntries) /\ NoCancel(we[r])
  BY DEF Inner, Tables, OneWant, Steady
<1>2. CASE we' = we
  BY <1>1, <1>2 DEF NoCancel
<1>3. ASSUME NEW n \in Nodes, AskProvider(n) PROVE NoCancel(we[r])'
  <2> DEFINE e == [cid |-> cid[n], cancel |-> FALSE, request_has_been_sent |-> FALSE,
                   cancel_has_been_sent |-> FALSE]
  <2>1. PICK p \in providers[n] : we' = [we EXCEPT ![<<n, p>>] = Append(@, e)]
    BY <1>3 DEF AskProvider
  <2>2. cid[n] \in Cids
    BY <1>3, ThreadNode DEF AskProvider, Inner, Wanting
  <2>3. e \in CidEntries /\ ~e.cancel
    BY <2>2 DEF CidEntries
  <2> HIDE DEF e
  <2>4. we'[r] = we[r] \/ we'[r] = Append(we[r], e)
    BY <1>1, <2>1
  <2>5. ToSet(Append(we[r], e)) = ToSet(we[r]) \cup {e}
    BY <1>1, <2>3, InSequence
  <2>6. \A w \in ToSet(we'[r]) : ~w.cancel
    BY <1>1, <2>3, <2>4, <2>5 DEF NoCancel
  <2> QED BY <2>6 DEF NoCancel
<1>4. ASSUME NEW t \in Threads, AddWantlist(t) PROVE NoCancel(we[r])'
  <2> PICK q : q = Pair(t)
    OBVIOUS
  <2>1. CASE r # q
    <3>1. we'[r] = we[r]
      BY <1>4, <2>1, AddWantlistMarks
    <3> QED BY <1>1, <3>1 DEF NoCancel
  <2>2. CASE r = q
    <3>1. we'[q] \in Seq(CidEntries) /\ Len(we'[q]) = Len(we[q])
      BY <1>4, AddWantlistMarks, <2>2
    <3>2. \A k \in 1 .. Len(we[q]) : we'[q][k].cancel = we[q][k].cancel
      BY <1>4, AddWantlistMarks
    <3>3. ASSUME NEW w \in ToSet(we'[q]) PROVE ~w.cancel
      <4>1. PICK k \in 1 .. Len(we'[q]) : w = we'[q][k]
        BY <3>1, InSequence
      <4>2. we[q][k] \in ToSet(we[q])
        BY <1>1, <2>2, <3>1, <4>1, InSequence
      <4> QED BY <1>1, <2>2, <3>1, <3>2, <4>1, <4>2 DEF NoCancel
    <3> QED BY <2>2, <3>3 DEF NoCancel
  <2> QED BY <2>1, <2>2
<1>5. \/ we' = we
      \/ \E n \in Nodes : AskProvider(n)
      \/ \E t \in Threads : AddWantlist(t)
  BY DEF Next, NodeStep, ProcessEntry, FindProviders, AllAsked, VisitPeer, Withdraw, Receive, HandleWant,
     Begin, Gather, GatherAdd, CopyBlocks, DeleteBlocks, Send, SendFails, Discard, Break, Notice, vars, requestVars
<1> QED
  BY <1>2, <1>3, <1>4, <1>5

(* The steps outside process_entry, and its begin. *)
LEMMA OutsideOneWant ==
  ASSUME Cancelling = {}, Fixed, Inner, OneWant, \A q \in Pairs : NoCancel(we[q])',
         \/ \E n \in Nodes : \/ \E c \in Cids : FindProviders(n, c)
                             \/ AskProvider(n) \/ AllAsked(n)
                             \/ \E p \in Nodes \ {n} : VisitPeer(n, p) \/ Withdraw(n, p)
         \/ \E q \in Pairs : Break(q) \/ Notice(q)
         \/ \E t \in Threads : Begin(t)
  PROVE  OneWant'
<1>0. pc \in [Threads -> Steps] /\ peer \in [Threads -> Nodes \cup {NoPeer}]
      /\ found \in [Threads -> Cids \cup {NoCid}] /\ msg \in [Threads -> Messages]
  BY DEF Inner, Variables
<1>1. ASSUME NEW n \in Nodes, \/ \E c \in Cids : FindProviders(n, c)
                              \/ AskProvider(n) \/ AllAsked(n)
                              \/ \E p \in Nodes \ {n} : VisitPeer(n, p)
      PROVE  OneWant'
  <2>1. UNCHANGED <<inbox, blocks, link, msg, found>>
    BY <1>1 DEF FindProviders, AskProvider, AllAsked, VisitPeer, requestVars, netVars
  <2>2. PICK t \in Threads : /\ \E x \in {"idle", "next", "begin"} : pc' = [pc EXCEPT ![t] = x]
                             /\ UNCHANGED peer \/ \E p : peer' = [peer EXCEPT ![t] = p]
    <3>1. <<n, "wants">> \in Threads /\ <<n, "peers">> \in Threads
      BY ThreadNode
    <3>2. CASE (\E c \in Cids : FindProviders(n, c)) \/ AllAsked(n)
      BY <3>1, <3>2 DEF FindProviders, AllAsked, Goto
    <3>3. CASE AskProvider(n)
      BY <3>1, <3>3 DEF AskProvider, Goto
    <3>4. CASE \E p \in Nodes \ {n} : VisitPeer(n, p)
      BY <3>1, <3>4 DEF VisitPeer, Goto
    <3> QED BY <1>1, <3>2, <3>3, <3>4
  <2>3. ASSUME NEW u \in Threads PROVE Kept(u) \/ (msg'[u] = msg[u] /\ pc'[u] \notin {"add", "delete"})
    BY <1>0, <2>1, <2>2 DEF Kept
  <2> QED BY <2>1, <2>3, OneWantLoses, OnlyCut
<1>2. ASSUME NEW n \in Nodes, \E p \in Nodes \ {n} : Withdraw(n, p) PROVE OneWant'
  BY <1>2 DEF Withdraw
<1>3. ASSUME NEW q \in Pairs, Break(q) \/ Notice(q) PROVE OneWant'
  <2>1. UNCHANGED <<inbox, blocks, pc, peer, found, msg>>
    BY <1>3 DEF Break, Notice, requestVars, localVars
  <2>2. Cut
    BY <1>3, OnlyCut DEF Break, Notice
  <2> QED BY <2>1, <2>2, OneWantLoses DEF Kept
<1>4. ASSUME NEW t \in Threads, Begin(t) PROVE OneWant'
  <2>1. UNCHANGED <<inbox, blocks>> /\ pc[t] = "begin"
    BY <1>4 DEF Begin, requestVars
  <2>2. Cut
    <3>1. Pair(t) \in Pairs
      BY <2>1, WorksOnPair DEF Working
    <3> QED BY <1>4, <3>1, OnlyCut DEF Begin, netVars
  <2>3. \/ Goto(t, "gather") /\ UNCHANGED <<peer, found, msg>>
        \/ Finish(t)
    BY <1>4 DEF Begin
  <2>4. ASSUME NEW u \in Threads
        PROVE  Kept(u) \/ ((msg'[u] = msg[u] \/ msg'[u] = Empty) /\ pc'[u] \notin {"add", "delete"})
    BY <1>0, <2>3 DEF Kept, Finish, Goto
  <2> QED BY <2>1, <2>2, <2>4, OneWantLoses
<1> QED
  BY <1>1, <1>2, <1>3, <1>4

(* The steps that gather blocks: what is queued is the block of the one want. *)
LEMMA GatherOneWant ==
  ASSUME Fixed, Inner, OneWant, \A q \in Pairs : NoCancel(we[q])',
         NEW t \in Threads, Gather(t) \/ GatherAdd(t)
  PROVE  OneWant'
<1> PICK q : q = Pair(t)
  OBVIOUS
<1>1. /\ q \in Pairs /\ peer' = peer /\ msg' = msg /\ inbox' = inbox /\ link' = link
      /\ they[q] \in Seq(Wants) /\ Pair(t)' = q /\ Len(they[q]) <= 1
  <2>1. Working(t) /\ peer' = peer /\ msg' = msg /\ inbox' = inbox /\ link' = link
    BY DEF Gather, GatherAdd, Working, netVars
  <2>2. q \in Pairs
    BY <2>1, WorksOnPair
  <2> QED BY <2>1, <2>2 DEF Inner, Tables, Pair
<1>2. \A c : OnlyCid(q, c) => OnlyCid(q, c)'
  BY <1>1 DEF Fixed
<1>3. ASSUME NEW u \in Threads \ {t} PROVE Single(u)'
  <2>1. Kept(u)
    BY <1>1 DEF Gather, GatherAdd, Kept, Goto, Inner, Variables
  <2> QED BY <2>1, SingleStays DEF OneWant
<1>4. CASE Gather(t)
  <2>1. blocks' = blocks /\ they' = they /\ pc[t] = "gather" /\ i[t] >= 1 /\ i[t] \in Int
    BY <1>4 DEF Gather, requestVars, Inner, Local, Variables
  <2>2. ASSUME NEW r \in Pairs PROVE Steady(r)'
    BY <1>1, <2>1, SteadyStays DEF OneWant
  <2>3. Single(t)'
    <3>1. CASE pc'[t] = "add"
      <4>1. i[t] <= Len(they[q]) /\ found' = [found EXCEPT ![t] = they[q][i[t]].cid]
        BY <1>4, <2>1, <3>1 DEF Gather, Goto, Inner, Variables
      <4>2. i[t] = 1 /\ they[q] # <<>>
        BY <1>1, <2>1, <4>1
      <4>3. found'[t] = they[q][1].cid
        BY <4>1, <4>2 DEF Inner, Variables
      <4>4. OnlyCid(Pair(t), found[t])'
        BY <1>1, <2>1, <4>2, <4>3 DEF OnlyCid
      <4>5. NoCancel(msg[t].wantlist)'
        BY <1>1 DEF OneWant, Single, NoCancel
      <4> QED BY <3>1, <4>4, <4>5 DEF Single
    <3>2. CASE pc'[t] # "add"
      <4>1. pc'[t] \in {"gather", "copy"}
        BY <1>4, <2>1, <3>2 DEF Gather, Goto, Inner, Variables
      <4> QED BY <1>1, <4>1, SingleMoves DEF OneWant
    <3> QED BY <3>1, <3>2
  <2> QED BY <1>3, <2>2, <2>3 DEF OneWant
<1>5. CASE GatherAdd(t)
  <2>1. pc'[t] = "gather" /\ pc[t] = "add"
    BY <1>5 DEF GatherAdd, Goto, Inner, Variables
  <2>2. OnlyCid(q, found[t]) /\ found[t] \in Cids
    BY <2>1 DEF OneWant, Single, Inner, Local
  <2>3. blocks \in [Pairs -> Seq(Cids)] /\ blocks' = [blocks EXCEPT ![q] = Append(@, found[t])]
    BY <1>5 DEF GatherAdd, Inner, Tables
  <2>4. ASSUME NEW r \in Pairs \ {q} PROVE Steady(r)'
    <3>1. blocks'[r] = blocks[r]
      BY <2>3
    <3> QED BY <1>1, <3>1, SteadyStays DEF OneWant
  <2>5. Steady(q)'
    <3>1. ToSet(blocks'[q]) = ToSet(blocks[q]) \cup {found[t]}
      BY <1>1, <2>2, <2>3, InSequence
    <3>2. Steady(q) /\ NoCancel(we[q])'
      BY <1>1 DEF OneWant
    <3>3. \A c \in ToSet(blocks'[q]) : OnlyCid(q, c)'
      BY <1>2, <2>2, <3>1, <3>2 DEF Steady
    <3> QED BY <1>1, <3>2, <3>3 DEF Steady, NoCancel
  <2>6. Single(t)'
    BY <1>1, <2>1, SingleMoves DEF OneWant
  <2> QED BY <1>3, <2>4, <2>5, <2>6 DEF OneWant
<1> QED
  BY <1>4, <1>5

(* The steps that build and send a message. *)
LEMMA BuildOneWant ==
  ASSUME Fixed, Inner, OneWant, \A q \in Pairs : NoCancel(we[q])',
         NEW t \in Threads, CopyBlocks(t) \/ DeleteBlocks(t) \/ AddWantlist(t) \/ Send(t)
  PROVE  OneWant'
<1> PICK q : q = Pair(t)
  OBVIOUS
<1>1. q \in Pairs /\ Steady(q) /\ inbox' = inbox
  <2>1. Working(t) /\ inbox' = inbox
    BY DEF CopyBlocks, DeleteBlocks, AddWantlist, Send, Working
  <2>2. q \in Pairs
    BY <2>1, WorksOnPair
  <2> QED BY <2>1, <2>2 DEF OneWant
<1>2. ASSUME NEW u \in Threads \ {t} PROVE Single(u)'
  <2>1. Kept(u)
    BY DEF CopyBlocks, DeleteBlocks, AddWantlist, Send, Finish, Kept, Goto, Inner, Variables
  <2> QED BY <2>1, SingleStays DEF OneWant
<1>3. CASE CopyBlocks(t)
  <2>1. /\ pc[t] = "copy" /\ pc'[t] = "delete" /\ UNCHANGED <<blocks, link>> /\ msg[t] = Empty /\ Pair(t)' = q
    BY <1>3 DEF CopyBlocks, Goto, Inner, Local, Variables, netVars, Pair
  <2>2. msg'[t] = [Empty EXCEPT !.payload = blocks[q]]
    BY <1>3, <2>1 DEF CopyBlocks, Inner, Variables
  <2>3. msg'[t].payload = blocks[q] /\ msg'[t].wantlist = <<>>
    BY <2>2 DEF Empty
  <2>4. ASSUME NEW r \in Pairs PROVE Steady(r)'
    BY <1>1, <2>1, SteadyStays DEF OneWant
  <2>5. \A c \in ToSet(blocks[q]) : OnlyCid(q, c)'
    BY <1>1 DEF Steady, Fixed
  <2>6. \A c \in ToSet(msg'[t].payload) : OnlyCid(Pair(t), c)'
    BY <2>1, <2>3, <2>5 DEF OnlyCid
  <2>7. NoCancel(msg[t].wantlist)'
    BY <2>3, ShortSequences DEF NoCancel
  <2>8. Single(t)'
    BY <2>1, <2>6, <2>7 DEF Single
  <2> QED BY <1>2, <2>4, <2>8 DEF OneWant
<1>4. CASE DeleteBlocks(t)
  <2>1. pc'[t] = "wantlist" /\ msg' = msg /\ link' = link
    BY <1>4 DEF DeleteBlocks, Goto, Inner, Variables, netVars
  <2>2. ASSUME NEW r \in Pairs PROVE ToSet(blocks'[r]) \subseteq ToSet(blocks[r])
    <3>1. blocks[q] \in Seq(Cids) /\ tot[t] \in Nat
      BY <1>1 DEF Inner, Tables, Variables
    <3>2. ToSet(SubSeq(blocks[q], tot[t] + 1, Len(blocks[q]))) \subseteq ToSet(blocks[q])
      BY <3>1, InSubSeq
    <3>3. \/ blocks'[r] = blocks[r]
          \/ r = q /\ blocks'[r] = SubSeq(blocks[q], tot[t] + 1, Len(blocks[q]))
      BY <1>4 DEF DeleteBlocks, Inner, Tables
    <3> QED BY <3>2, <3>3
  <2>3. ASSUME NEW r \in Pairs PROVE Steady(r)'
    BY <1>1, <2>1, <2>2, SteadyStays DEF OneWant
  <2>4. Single(t)'
    BY <2>1, SingleMoves DEF OneWant
  <2> QED BY <1>2, <2>3, <2>4 DEF OneWant
<1>5. CASE AddWantlist(t)
  <2>1. pc'[t] = "send" /\ blocks' = blocks /\ link' = link
    BY <1>5 DEF AddWantlist, Goto, Inner, Variables, netVars
  <2>2. ASSUME NEW r \in Pairs PROVE Steady(r)'
    BY <1>1, <2>1, SteadyStays DEF OneWant
  <2>3. ASSUME NEW w \in ToSet(msg'[t].wantlist) PROVE ~w.cancel
    <3>1. ItemOf(w, we[q])
      BY <1>5, AddWantlistMarks
    <3>2. PICK k \in 1 .. Len(we[q]) : w.cancel = we[q][k].cancel
      BY <3>1 DEF ItemOf
    <3>3. we[q] \in Seq(CidEntries)
      BY <1>1 DEF Inner, Tables
    <3>4. we[q][k] \in ToSet(we[q])
      BY <3>3, InSequence
    <3> QED BY <1>1, <3>2, <3>4 DEF Steady, NoCancel
  <2>4. Single(t)'
    BY <2>1, <2>3 DEF Single, NoCancel
  <2> QED BY <1>2, <2>2, <2>4 DEF OneWant
<1>6. CASE Send(t)
  <2>1. /\ Finish(t) /\ blocks' = blocks
        /\ \A r \in Pairs : \/ link'[r] = link[r]
                            \/ link'[r] = <<>>
                            \/ r = q /\ (link'[r] = Append(link[r], msg[t]) \/ link'[r] = <<msg[t]>>)
    BY <1>6, SendLinks DEF Send, requestVars
  <2>2. Single(t)'
    <3>1. pc'[t] \notin {"add", "delete"} /\ msg'[t] = Empty
      BY <2>1 DEF Finish, Goto, Inner, Variables
    <3> QED BY <3>1, SingleMoves DEF OneWant
  <2>3. ASSUME NEW r \in Pairs PROVE Steady(r)'
    <3>1. Steady(r) /\ link[r] \in Seq(Messages) /\ msg[t] \in Messages /\ NoCancel(msg[t].wantlist)
      BY DEF OneWant, Single, Inner, Tables, Variables
    <3>2. ToSet(<<>>) = {} /\ ToSet(<<msg[t]>>) = {msg[t]}
          /\ ToSet(Append(link[r], msg[t])) = ToSet(link[r]) \cup {msg[t]}
      BY <3>1, InSequence, ShortSequences
    <3>3. ASSUME NEW m \in ToSet(link'[r]) PROVE NoCancel(m.wantlist)
      <4>1. m \in ToSet(link[r]) \/ m = msg[t]
        BY <2>1, <3>2
      <4> QED BY <3>1, <4>1 DEF Steady
    <3>4. \A c \in ToSet(blocks[r]) : OnlyCid(r, c)'
      BY <3>1 DEF Steady, Fixed
    <3>5. NoCancel(we[r])'
      OBVIOUS
    <3> QED BY <1>1, <2>1, <3>1, <3>3, <3>4, <3>5 DEF Steady, NoCancel
  <2> QED BY <1>2, <2>2, <2>3 DEF OneWant
<1> QED
  BY <1>3, <1>4, <1>5, <1>6

(* The handler of messages. *)
LEMMA HandlerOneWant ==
  ASSUME Fixed, Inner, OneWant, \A q \in Pairs : NoCancel(we[q])',
         NEW n \in Nodes, NEW p \in Nodes \ {n}, Receive(n, p) \/ HandleWant(n, p)
  PROVE  OneWant'
<1>1. UNCHANGED <<blocks, pc, peer, found, msg>>
  BY DEF Receive, HandleWant, localVars
<1>2. ASSUME NEW u \in Threads PROVE Single(u)'
  BY <1>1, SingleStays DEF OneWant, Kept
<1>3. CASE Receive(n, p)
  <2> PICK q : q = <<n, p>>
    OBVIOUS
  <2> PICK r : r = <<p, n>>
    OBVIOUS
  <2> PICK m : m = Head(link[r])
    OBVIOUS
  <2>1. q \in Pairs /\ r \in Pairs
    BY NodePair
  <2>2. /\ link[r] # <<>> /\ link' = [link EXCEPT ![r] = Tail(link[r])]
        /\ inbox' = [inbox EXCEPT ![q] = m.wantlist]
    BY <1>3 DEF Receive
  <2>3. link \in [Pairs -> Seq(Messages)] /\ inbox \in [Pairs -> Seq(Wants)]
    BY DEF Inner, Tables
  <2>4. m \in ToSet(link[r]) /\ ToSet(Tail(link[r])) \subseteq ToSet(link[r])
    <3>1. link[r] \in Seq(Messages) /\ link[r] # <<>>
      BY <2>1, <2>2, <2>3
    <3>2. Head(link[r]) \in ToSet(link[r]) /\ ToSet(link[r]) = ToSet(Tail(link[r])) \cup {Head(link[r])}
      BY <3>1, InSequence
    <3> QED BY <3>2
  <2>5. ASSUME NEW x \in Pairs PROVE Steady(x)'
    <3>1. ToSet(link'[x]) \subseteq ToSet(link[x]) /\ Steady(x) /\ NoCancel(we[x])'
      BY <2>1, <2>2, <2>3, <2>4 DEF OneWant
    <3>2. NoCancel(inbox'[x])
      <4>1. inbox'[x] = inbox[x] \/ inbox'[x] = m.wantlist
        BY <2>2, <2>3
      <4>2. NoCancel(m.wantlist)
        BY <2>1, <2>4 DEF OneWant, Steady
      <4> QED BY <3>1, <4>1, <4>2 DEF Steady
    <3>3. \A c \in ToSet(blocks[x]) : OnlyCid(x, c)'
      BY <3>1 DEF Steady, Fixed
    <3>4. \A k \in ToSet(link'[x]) : NoCancel(k.wantlist)
      BY <3>1 DEF Steady
    <3> QED BY <1>1, <3>1, <3>2, <3>3, <3>4 DEF Steady, NoCancel
  <2> QED BY <1>2, <2>5 DEF OneWant
<1>4. CASE HandleWant(n, p)
  <2>1. ASSUME NEW r \in Pairs PROVE Steady(r)'
    <3> PICK q : q = <<n, p>>
      OBVIOUS
    <3> PICK w : w = Head(inbox[q])
      OBVIOUS
    <3>1. ToSet(inbox'[r]) \subseteq ToSet(inbox[r]) /\ (link'[r] = link[r] \/ link'[r] = <<>>)
      BY <1>4, HandleWantMoves
    <3>2. ToSet(link'[r]) \subseteq ToSet(link[r])
      BY <3>1, ShortSequences
    <3> QED BY <1>1, <3>1, <3>2, SteadyStays DEF OneWant
  <2> QED BY <1>2, <2>1 DEF OneWant
<1> QED
  BY <1>3, <1>4

(* At the start nothing is wanted. *)
LEMMA InitOneWant == Init => OneWant
<1>1. SUFFICES ASSUME Init PROVE OneWant
  OBVIOUS
<1>2. ASSUME NEW q \in Pairs PROVE Steady(q)
  BY <1>1, ShortSequences DEF Init, Steady, NoCancel
<1>3. ASSUME NEW t \in Threads PROVE Single(t)
  BY <1>1, ShortSequences DEF Init, Single, NoCancel, Empty
<1> QED
  BY <1>2, <1>3 DEF OneWant

(* Without nodes that withdraw wants a node works on one want of a peer. *)
LEMMA StepOneWant == Cancelling = {} /\ Inner /\ OneWant /\ [Next]_vars => OneWant'
<1>1. SUFFICES ASSUME Cancelling = {}, Inner, OneWant, [Next]_vars PROVE OneWant'
  OBVIOUS
<1>2. Fixed
  BY <1>1, WantsFixed
<1>3. \A q \in Pairs : NoCancel(we[q])'
  BY <1>1, NothingWithdrawn
<1>4. CASE UNCHANGED vars
  <2>1. UNCHANGED <<inbox, blocks, link, pc, peer, found, msg>>
    BY <1>4 DEF vars, requestVars, netVars, localVars
  <2> QED BY <1>1, <1>2, <1>3, <2>1, OneWantLoses, OnlyCut DEF Kept
<1>5. ASSUME NEW t \in Threads, ProcessEntry(t) PROVE OneWant'
  BY <1>1, <1>2, <1>3, <1>5, OutsideOneWant, GatherOneWant, BuildOneWant DEF ProcessEntry
<1>6. ASSUME NEW n \in Nodes, NodeStep(n) PROVE OneWant'
  BY <1>1, <1>2, <1>3, <1>6, OutsideOneWant, HandlerOneWant, FailureOneWant DEF NodeStep
<1>7. ASSUME NEW q \in Pairs, Break(q) \/ Notice(q) PROVE OneWant'
  BY <1>1, <1>2, <1>3, <1>7, OutsideOneWant
<1>8. ASSUME NEW t \in Threads, SendFails(t) PROVE OneWant'
  BY <1>1, <1>2, <1>3, <1>8, FailureOneWant
<1> QED
  BY <1>1, <1>4, <1>5, <1>6, <1>7, <1>8 DEF Next

-----------------------------------------------------------------------------
(* Blocks that are copied and then deleted. *)

Deleting(t) == pc[t] = "delete" /\ tot[t] > 0

\* A thread that has not shared its blocks is the only one that is about to
\* delete them, and it deletes what it has copied.
Alone(t) ==
  t[1] \notin shared /\ Deleting(t) =>
    /\ \A u \in Threads \ {t} : Pair(u) = Pair(t) => ~Deleting(u)
    /\ tot[t] <= Len(blocks[Pair(t)])
    /\ \A k \in 1 .. tot[t] : blocks[Pair(t)][k] \in ToSet(msg[t].payload)

Copied(t) == pc[t] = "delete" => tot[t] = Len(msg[t].payload)

Copies == \A t \in Threads : Alone(t) /\ Copied(t)

\* A thread that is about to delete was so before.
Waits(t) ==
  pc'[t] = "delete" =>
    pc[t] = "delete" /\ peer'[t] = peer[t] /\ tot'[t] = tot[t] /\ msg'[t] = msg[t]

(* A step that copies nothing, and adds at most a block at the end. *)
LEMMA CopiesStay ==
  ASSUME Inner, Copies, shared \subseteq shared', \A t \in Threads : Waits(t),
         \A q \in Pairs : blocks'[q] = blocks[q] \/ \E c \in Cids : blocks'[q] = Append(blocks[q], c)
  PROVE  Copies'
<1>1. ASSUME NEW t \in Threads PROVE Copied(t)'
  BY DEF Copies, Copied, Waits
<1>2. ASSUME NEW t \in Threads PROVE Alone(t)'
  <2> SUFFICES ASSUME t[1] \notin shared', Deleting(t)' PROVE Alone(t)'
    BY DEF Alone
  <2> PICK q : q = Pair(t)
    OBVIOUS
  <2>1. /\ Deleting(t) /\ Pair(t)' = q /\ t[1] \notin shared /\ tot'[t] = tot[t] /\ msg'[t] = msg[t]
    BY DEF Waits, Deleting, Pair
  <2>2. /\ \A u \in Threads \ {t} : Pair(u) = q => ~Deleting(u)
        /\ tot[t] <= Len(blocks[q])
        /\ \A k \in 1 .. tot[t] : blocks[q][k] \in ToSet(msg[t].payload)
    BY <2>1 DEF Copies, Alone
  <2>3. q \in Pairs /\ blocks[q] \in Seq(Cids) /\ tot[t] \in Nat
    <3>1. q \in Pairs
      BY <2>1, WorksOnPair DEF Working, Deleting
    <3> QED BY <3>1 DEF Inner, Tables, Variables
  <2>4. ASSUME NEW u \in Threads \ {t}, Pair(u)' = q PROVE ~Deleting(u)'
    BY <2>2, <2>4 DEF Waits, Deleting, Pair
  <2>5. Len(blocks[q]) <= Len(blocks'[q]) /\ \A k \in 1 .. Len(blocks[q]) : blocks'[q][k] = blocks[q][k]
    <3>1. CASE blocks'[q] = blocks[q]
      BY <2>3, <3>1
    <3>2. ASSUME NEW c \in Cids, blocks'[q] = Append(blocks[q], c)
          PROVE  Len(blocks[q]) <= Len(blocks'[q])
                 /\ \A k \in 1 .. Len(blocks[q]) : blocks'[q][k] = blocks[q][k]
      <4>1. Len(Append(blocks[q], c)) = Len(blocks[q]) + 1 /\ Len(blocks[q]) \in Nat
            /\ \A k \in 1 .. Len(blocks[q]) : Append(blocks[q], c)[k] = blocks[q][k]
        BY <2>3
      <4> QED BY <3>2, <4>1
    <3> QED BY <2>3, <3>1, <3>2
  <2>6. Len(blocks[q]) \in Nat /\ Len(blocks'[q]) \in Nat
    <3>1. \A c \in Cids : Append(blocks[q], c) \in Seq(Cids)
      BY <2>3
    <3>2. blocks'[q] \in Seq(Cids)
      BY <2>3, <3>1
    <3> QED BY <2>3, <3>2
  <2>7. tot[t] <= Len(blocks'[q])
    BY <2>2, <2>3, <2>5, <2>6
  <2>8. \A k \in 1 .. tot[t] : blocks'[q][k] \in ToSet(msg[t].payload)
    BY <2>2, <2>3, <2>5, <2>6
  <2> QED BY <2>1, <2>4, <2>7, <2>8 DEF Alone
<1> QED
  BY <1>1, <1>2 DEF Copies

(* message_add_blocks: whoever copies blocks that another thread has copied and
   not yet deleted shares them. *)
LEMMA CopyBlocksCopies ==
  ASSUME Inner, Copies, NEW t \in Threads, CopyBlocks(t) PROVE Copies'
<1> PICK q : q = Pair(t)
  OBVIOUS
<1>1. /\ pc[t] = "copy" /\ q \in Pairs /\ q[1] = t[1] /\ blocks' = blocks /\ peer' = peer
      /\ blocks[q] \in Seq(Cids)
      /\ pc' = [pc EXCEPT ![t] = "delete"] /\ tot' = [tot EXCEPT ![t] = Len(blocks[q])]
  <2>1. pc[t] = "copy"
    BY DEF CopyBlocks
  <2>2. q \in Pairs /\ q[1] = t[1]
    BY <2>1, WorksOnPair DEF Working
  <2> QED BY <2>1, <2>2 DEF CopyBlocks, Goto, Inner, Tables
<1>2. msg'[t].payload = blocks[q] /\ \A u \in Threads \ {t} : msg'[u] = msg[u]
  <2>1. msg[t] \in Messages /\ msg \in [Threads -> Messages]
    BY DEF Inner, Variables
  <2>2. msg'[t] = [msg[t] EXCEPT !.payload = blocks[q]] /\ \A u \in Threads \ {t} : msg'[u] = msg[u]
    BY <2>1 DEF CopyBlocks
  <2> QED BY <2>1, <2>2 DEF Messages
<1>3. /\ pc'[t] = "delete" /\ tot'[t] = Len(blocks[q]) /\ Pair(t)' = q
      /\ \A u \in Threads \ {t} : pc'[u] = pc[u] /\ tot'[u] = tot[u] /\ Pair(u)' = Pair(u)
  BY <1>1 DEF Inner, Variables, Pair
<1>4. /\ shared \subseteq shared'
      /\ blocks[q] # <<>> /\ (\E u \in Threads \ {t} : Pair(u) = q /\ Deleting(u)) => t[1] \in shared'
  BY <1>1 DEF CopyBlocks, Deleting
<1>5. Len(blocks[q]) \in Nat /\ (Len(blocks[q]) > 0 => blocks[q] # <<>>)
  BY <1>1
<1>6. Copied(t)' /\ \A u \in Threads \ {t} : Copied(u)'
  BY <1>2, <1>3 DEF Copies, Copied
<1>7. Alone(t)'
  <2> SUFFICES ASSUME t[1] \notin shared', Deleting(t)' PROVE Alone(t)'
    BY DEF Alone
  <2>1. \A u \in Threads \ {t} : Pair(u) = q => ~Deleting(u)
    BY <1>3, <1>4, <1>5 DEF Deleting
  <2>2. \A u \in Threads \ {t} : Pair(u)' = q => ~Deleting(u)'
    BY <1>3, <2>1 DEF Deleting
  <2>3. \A k \in 1 .. Len(blocks[q]) : blocks[q][k] \in ToSet(blocks[q])
    BY <1>1, InSequence
  <2>4. tot'[t] <= Len(blocks'[q])
    BY <1>1, <1>3, <1>5
  <2>5. \A k \in 1 .. tot'[t] : blocks'[q][k] \in ToSet(msg'[t].payload)
    BY <1>1, <1>2, <1>3, <2>3
  <2> QED BY <1>3, <2>2, <2>4, <2>5 DEF Alone
<1>8. ASSUME NEW u \in Threads \ {t} PROVE Alone(u)'
  <2> SUFFICES ASSUME u[1] \notin shared', Deleting(u)' PROVE Alone(u)'
    BY DEF Alone
  <2> PICK r : r = Pair(u)
    OBVIOUS
  <2>1. Deleting(u) /\ u[1] \notin shared /\ Pair(u)' = r /\ msg'[u] = msg[u] /\ tot'[u] = tot[u]
    BY <1>2, <1>3, <1>4 DEF Deleting
  <2>2. /\ \A x \in Threads \ {u} : Pair(x) = r => ~Deleting(x)
        /\ tot[u] <= Len(blocks[r]) /\ \A k \in 1 .. tot[u] : blocks[r][k] \in ToSet(msg[u].payload)
    BY <2>1 DEF Copies, Alone
  <2>3. ASSUME r = q PROVE ~Deleting(t)'
    <3>1. u[1] = t[1]
      BY <2>1, <2>3, <1>1 DEF Pair
    <3>2. blocks[q] = <<>>
      BY <1>4, <2>1, <2>3, <3>1
    <3>3. Len(<<>>) = 0
      OBVIOUS
    <3> QED BY <1>3, <3>2, <3>3 DEF Deleting
  <2>4. ASSUME NEW x \in Threads \ {u}, Pair(x)' = r PROVE ~Deleting(x)'
    <3>1. CASE x = t
      BY <1>3, <2>3, <2>4, <3>1
    <3>2. CASE x # t
      BY <1>3, <2>2, <2>4, <3>2 DEF Deleting
    <3> QED BY <3>1, <3>2
  <2> QED BY <1>1, <2>1, <2>2, <2>4 DEF Alone
<1> QED
  BY <1>6, <1>7, <1>8 DEF Copies

(* A thread that has copied nothing deletes nothing. *)
LEMMA DeleteBlocksCopies ==
  ASSUME Inner, Copies, NEW t \in Threads, DeleteBlocks(t) PROVE Copies'
<1> PICK q : q = Pair(t)
  OBVIOUS
<1>1. /\ pc[t] = "delete" /\ q \in Pairs /\ q[1] = t[1] /\ shared' = shared /\ peer' = peer /\ msg' = msg
      /\ blocks[q] \in Seq(Cids) /\ blocks \in [Pairs -> Seq(Cids)] /\ tot[t] \in Nat
      /\ pc' = [pc EXCEPT ![t] = "wantlist"] /\ tot' = [tot EXCEPT ![t] = 0]
      /\ blocks' = [blocks EXCEPT ![q] = SubSeq(blocks[q], tot[t] + 1, Len(blocks[q]))]
  <2>1. pc[t] = "delete"
    BY DEF DeleteBlocks
  <2>2. q \in Pairs /\ q[1] = t[1]
    BY <2>1, WorksOnPair DEF Working
  <2> QED BY <2>1, <2>2 DEF DeleteBlocks, Goto, Inner, Tables, Variables
<1>2. pc'[t] = "wantlist"
      /\ \A u \in Threads \ {t} : pc'[u] = pc[u] /\ tot'[u] = tot[u] /\ Pair(u)' = Pair(u)
  BY <1>1 DEF Inner, Variables, Pair
<1>3. Copied(t)' /\ \A u \in Threads \ {t} : Copied(u)'
  BY <1>1, <1>2 DEF Copies, Copied
<1>4. Alone(t)'
  BY <1>2 DEF Alone, Deleting
<1>5. ASSUME NEW u \in Threads \ {t} PROVE Alone(u)'
  <2> SUFFICES ASSUME u[1] \notin shared', Deleting(u)' PROVE Alone(u)'
    BY DEF Alone
  <2> PICK r : r = Pair(u)
    OBVIOUS
  <2>1. Deleting(u) /\ u[1] \notin shared /\ Pair(u)' = r /\ msg'[u] = msg[u] /\ tot'[u] = tot[u]
    BY <1>1, <1>2 DEF Deleting
  <2>2. /\ \A x \in Threads \ {u} : Pair(x) = r => ~Deleting(x)
        /\ tot[u] <= Len(blocks[r]) /\ \A k \in 1 .. tot[u] : blocks[r][k] \in ToSet(msg[u].payload)
    BY <2>1 DEF Copies, Alone
  <2>3. blocks'[r] = blocks[r]
    <3>1. CASE r # q
      <4>1. r \in Pairs
        BY <2>1, WorksOnPair DEF Deleting, Working
      <4> QED BY <1>1, <3>1, <4>1
    <3>2. CASE r = q
      <4>1. tot[t] = 0
        BY <1>1, <2>2, <3>2 DEF Deleting
      <4> DEFINE s == blocks[q]
      <4>2. s \in Seq(Cids) /\ blocks'[q] = SubSeq(s, 1, Len(s))
        BY <1>1, <4>1
      <4> HIDE DEF s
      <4>3. SubSeq(s, 1, Len(s)) = s
        BY <4>2
      <4> QED BY <3>2, <4>2, <4>3 DEF s
    <3> QED BY <3>1, <3>2
  <2>4. \A x \in Threads \ {u} : Pair(x)' = r => ~Deleting(x)'
    BY <1>2, <2>2 DEF Deleting
  <2> QED BY <2>1, <2>2, <2>3, <2>4 DEF Alone
<1> QED
  BY <1>3, <1>4, <1>5 DEF Copies

(* At the start nobody deletes. *)
LEMMA InitCopies == Init => Copies
BY DEF Init, Copies, Alone, Copied, Deleting

(* No step takes away, unshared, what a thread is about to delete. *)
LEMMA StepCopies == Inner /\ Copies /\ [Next]_vars => Copies'
<1>1. SUFFICES ASSUME Inner, Copies, [Next]_vars PROVE Copies'
  OBVIOUS
<1>0. pc \in [Threads -> Steps] /\ peer \in [Threads -> Nodes \cup {NoPeer}]
      /\ tot \in [Threads -> Nat] /\ msg \in [Threads -> Messages]
  BY <1>1 DEF Inner, Variables
<1>2. CASE UNCHANGED vars
  <2>1. UNCHANGED <<shared, blocks, pc, peer, tot, msg>>
    BY <1>2 DEF vars, requestVars, localVars
  <2> QED BY <1>1, <2>1, CopiesStay DEF Waits
<1>3. ASSUME NEW n \in Nodes, NodeStep(n) PROVE Copies'
  <2>1. UNCHANGED <<shared, blocks, tot, msg>>
    BY <1>3 DEF NodeStep, FindProviders, AskProvider, AllAsked, VisitPeer, Withdraw, Receive, HandleWant,
       Discard, requestVars, localVars
  <2>2. <<n, "wants">> \in Threads /\ <<n, "peers">> \in Threads
    BY ThreadNode
  <2>3. \/ UNCHANGED <<pc, peer>>
        \/ \E t \in Threads : /\ \E x \in {"idle", "next", "begin"} : pc' = [pc EXCEPT ![t] = x]
                              /\ UNCHANGED peer \/ \E p : peer' = [peer EXCEPT ![t] = p]
    <3>1. CASE (\E c \in Cids : FindProviders(n, c)) \/ AllAsked(n)
      BY <2>2, <3>1 DEF FindProviders, AllAsked, Goto
    <3>2. CASE AskProvider(n)
      BY <2>2, <3>2 DEF AskProvider, Goto
    <3>3. CASE \E p \in Nodes \ {n} : VisitPeer(n, p)
      BY <2>2, <3>3 DEF VisitPeer, Goto
    <3>4. CASE \E p \in Nodes \ {n} : Withdraw(n, p) \/ Receive(n, p) \/ HandleWant(n, p) \/ Discard(n, p)
      BY <3>4 DEF Withdraw, Receive, HandleWant, Discard, localVars
    <3> QED BY <1>3, <3>1, <3>2, <3>3, <3>4 DEF NodeStep
  <2>4. ASSUME NEW u \in Threads PROVE Waits(u)
    BY <1>0, <2>1, <2>3 DEF Waits
  <2> QED BY <1>1, <2>1, <2>4, CopiesStay
<1>4. ASSUME NEW t \in Threads, Begin(t) \/ Gather(t) \/ AddWantlist(t) \/ Send(t) \/ SendFails(t)
      PROVE  Copies'
  <2>1. UNCHANGED <<shared, blocks>>
    BY <1>4 DEF Begin, Gather, AddWantlist, Send, SendFails, requestVars
  <2>2. ASSUME NEW u \in Threads PROVE Waits(u)
    <3>1. CASE Begin(t)
      BY <1>0, <3>1 DEF Waits, Begin, Finish, Goto
    <3>2. CASE Gather(t)
      BY <1>0, <3>2 DEF Waits, Gather, Goto
    <3>3. CASE AddWantlist(t)
      BY <1>0, <3>3 DEF Waits, AddWantlist, Goto
    <3>4. CASE Send(t)
      BY <1>0, <3>4 DEF Waits, Send, Finish, Goto
    <3>5. CASE SendFails(t)
      BY <1>0, <3>5 DEF Waits, SendFails, Finish, Goto
    <3> QED BY <1>4, <3>1, <3>2, <3>3, <3>4, <3>5
  <2> QED BY <1>1, <2>1, <2>2, CopiesStay
<1>5. ASSUME NEW t \in Threads, GatherAdd(t) PROVE Copies'
  <2>1. shared' = shared /\ blocks' = [blocks EXCEPT ![Pair(t)] = Append(@, found[t])] /\ found[t] \in Cids
    BY <1>1, <1>5 DEF GatherAdd, Inner, Local
  <2>2. \A q \in Pairs : blocks'[q] = blocks[q] \/ \E c \in Cids : blocks'[q] = Append(blocks[q], c)
    BY <1>1, <2>1 DEF Inner, Tables
  <2>3. ASSUME NEW u \in Threads PROVE Waits(u)
    BY <1>0, <1>5 DEF Waits, GatherAdd, Goto
  <2> QED BY <1>1, <2>1, <2>2, <2>3, CopiesStay
<1>6. ASSUME NEW q \in Pairs, Break(q) \/ Notice(q) PROVE Copies'
  <2>1. UNCHANGED <<shared, blocks, pc, peer, tot, msg>>
    BY <1>6 DEF Break, Notice, requestVars, localVars
  <2> QED BY <1>1, <2>1, CopiesStay DEF Waits
<1> QED
  BY <1>1, <1>2, <1>3, <1>4, <1>5, <1>6, CopyBlocksCopies, DeleteBlocksCopies DEF Next, ProcessEntry

-----------------------------------------------------------------------------
(* Where the block of a marked want is. *)

\* The block waits to be sent, is on its way or has arrived.
Reach(q, c) ==
  \/ c \in ToSet(blocks[q])
  \/ \E u \in Threads : Pair(u) = q /\ c \in ToSet(msg[u].payload)
  \/ \E m \in ToSet(link[q]) : c \in ToSet(m.payload)
  \/ c \in store[q[2]]

Calm(q) == Cancelling = {} \/ q[1] \notin shared

Serves(q) == Calm(q) /\ Holds(q) => \A w \in ToSet(they[q]) : w.cancel => Reach(q, w.cid)

Serving == \A q \in Pairs : Serves(q)

Network == Inner /\ Wires /\ Copies /\ (Cancelling = {} => OneWant)

\* A thread that loses nothing.
Keeps(t) ==
  \/ peer'[t] = peer[t] /\ msg'[t].payload = msg[t].payload
  \/ ToSet(msg[t].payload) = {}

(* What stays where it is can be reached. *)
LEMMA ReachStays ==
  ASSUME NEW q \in Pairs, NEW c, Reach(q, c),
         ToSet(blocks[q]) \subseteq ToSet(blocks'[q]), ToSet(link[q]) \subseteq ToSet(link'[q]),
         store[q[2]] \subseteq store'[q[2]], \A t \in Threads : Keeps(t)
  PROVE  Reach(q, c)'
<1>1. ASSUME NEW u \in Threads, Pair(u) = q, c \in ToSet(msg[u].payload)
      PROVE  Pair(u)' = q /\ c \in ToSet(msg'[u].payload)
  BY <1>1 DEF Keeps, Pair
<1> QED
  BY <1>1 DEF Reach

(* A thread that has not copied blocks has none to lose. *)
LEMMA NothingToLose ==
  ASSUME Inner, NEW t \in Threads, pc[t] \notin {"delete", "wantlist", "send"}
  PROVE  ToSet(msg[t].payload) = {}
<1>1. msg[t] = Empty
  BY DEF Inner, Local
<1> QED
  BY <1>1, ShortSequences DEF Empty

(* What happens to a connection cannot be undone, nor that blocks were shared. *)
LEMMA HoldsBefore ==
  ASSUME Inner, [Next]_vars, NEW q \in Pairs
  PROVE  (Calm(q)' => Calm(q)) /\ (Holds(q)' => Holds(q))
<1>1. shared \subseteq shared'
  BY DEF Next, NodeStep, ProcessEntry, FindProviders, AskProvider, AllAsked, VisitPeer, Withdraw, Receive,
     HandleWant, Begin, Gather, GatherAdd, CopyBlocks, DeleteBlocks, AddWantlist, Send, SendFails, Discard, Break, Notice, vars
<1>2. crashed \subseteq crashed'
  <2>1. ASSUME NEW t \in Threads, Send(t) PROVE crashed \subseteq crashed'
    BY <2>1 DEF Send, Crash
  <2>2. ASSUME NEW n \in Nodes, NEW p \in Nodes \ {n}, HandleWant(n, p) PROVE crashed \subseteq crashed'
    BY <2>2 DEF HandleWant, Crash
  <2> QED BY <2>1, <2>2 DEF Next, NodeStep, ProcessEntry, FindProviders, AskProvider, AllAsked, VisitPeer,
     Withdraw, Receive, Begin, Gather, GatherAdd, CopyBlocks, DeleteBlocks, AddWantlist, SendFails, Discard, Break, Notice, vars
<1>3. faults' = faults \/ faults' = faults + 1
  BY DEF Fault, Next, NodeStep, ProcessEntry, FindProviders, AskProvider, AllAsked, VisitPeer, Withdraw, Receive,
     HandleWant, Begin, Gather, GatherAdd, CopyBlocks, DeleteBlocks, AddWantlist, Send, SendFails, Discard, Break, Notice, vars,
     netVars
<1>4. faults' = 0 => faults = 0
  BY <1>3, NetworkAssumption DEF Inner, Tables
<1> QED
  BY <1>1, <1>2, <1>4 DEF Calm, Holds

(* Blocks behind those that are deleted stay. *)
LEMMA RestOfSequence ==
  ASSUME NEW S, NEW s \in Seq(S), NEW n \in Nat, NEW k \in 1 .. Len(s), k > n
  PROVE  s[k] \in ToSet(SubSeq(s, n + 1, Len(s)))
<1> DEFINE u == SubSeq(s, n + 1, Len(s))
<1>1. n + 1 \in Nat \ {0} /\ n + 1 <= Len(s)
  OBVIOUS
<1>2. u \in Seq(S) /\ Len(u) = Len(s) - n /\ \A j \in 1 .. (Len(s) - n) : u[j] = s[j + n]
  <2>1. u \in Seq(S) /\ Len(u) = Len(s) - n
    BY <1>1, SubSeqProperties
  <2>2. \A j \in 1 .. (Len(s) - n) : u[j] = s[j + n]
    BY <1>1, SubSeqProperties
  <2> QED BY <2>1, <2>2
<1>3. k - n \in 1 .. (Len(s) - n) /\ (k - n) + n = k
  OBVIOUS
<1> HIDE DEF u
<1>4. u[k - n] = s[k] /\ k - n \in 1 .. Len(u)
  BY <1>2, <1>3
<1>5. s[k] \in ToSet(u)
  BY <1>2, <1>4, InSequence
<1> QED
  BY <1>5 DEF u

(* The blocks that a thread deletes are in its message. *)
LEMMA ReachDelete ==
  ASSUME Network, NEW t \in Threads, DeleteBlocks(t), NEW q \in Pairs, NEW c, Reach(q, c), Calm(q)
  PROVE  Reach(q, c)'
<1>0. Inner
  BY DEF Network
<1>1. /\ pc[t] = "delete" /\ UNCHANGED <<store, link, peer, msg>>
      /\ blocks' = [blocks EXCEPT ![Pair(t)] = SubSeq(@, tot[t] + 1, Len(@))]
  BY DEF DeleteBlocks, netVars
<1>2. blocks \in [Pairs -> Seq(Cids)] /\ blocks[q] \in Seq(Cids) /\ tot[t] \in Nat
  BY <1>0 DEF Inner, Tables, Variables
<1>3. \A u \in Threads : Keeps(u)
  BY <1>1 DEF Keeps
<1>4. CASE q # Pair(t)
  <2>1. blocks'[q] = blocks[q]
    BY <1>1, <1>2, <1>4
  <2> QED BY <1>1, <1>3, <2>1, ReachStays
<1>5. CASE q = Pair(t) /\ c \notin ToSet(blocks[q])
  <2>1. \/ \E u \in Threads : Pair(u)' = q /\ c \in ToSet(msg'[u].payload)
        \/ \E m \in ToSet(link'[q]) : c \in ToSet(m.payload)
        \/ c \in store'[q[2]]
    BY <1>1, <1>5 DEF Reach, Pair
  <2> QED BY <2>1 DEF Reach
<1>6. CASE q = Pair(t) /\ c \in ToSet(blocks[q])
  <2>1. PICK k \in 1 .. Len(blocks[q]) : c = blocks[q][k]
    BY <1>2, <1>6, InSequence
  <2>2. CASE k > tot[t]
    <3>1. blocks[q][k] \in ToSet(SubSeq(blocks[q], tot[t] + 1, Len(blocks[q])))
      BY <1>2, <2>2, RestOfSequence
    <3>2. blocks'[q] = SubSeq(blocks[q], tot[t] + 1, Len(blocks[q]))
      BY <1>1, <1>2, <1>6
    <3> QED BY <2>1, <3>1, <3>2 DEF Reach
  <2>3. CASE ~(k > tot[t])
    <3>1. k \in 1 .. tot[t] /\ Deleting(t)
      <4>1. k \in Nat /\ k >= 1
        BY <1>2
      <4> QED BY <1>1, <1>2, <2>3, <4>1 DEF Deleting
    <3>2. Alone(t) /\ Copied(t) /\ msg[t].payload \in Seq(Cids) /\ q[1] = t[1]
      BY <1>0, <1>6 DEF Network, Copies, Inner, Variables, Messages, Pair
    <3>3. CASE t[1] \notin shared
      <4>1. c \in ToSet(msg[t].payload)
        BY <1>6, <2>1, <3>1, <3>2, <3>3 DEF Alone
      <4> QED BY <1>1, <1>6, <4>1 DEF Reach, Pair
    <3>4. CASE t[1] \in shared
      <4>1. OneWant
        BY <3>2, <3>4 DEF Calm, Network
      <4>2. OnlyCid(q, c)
        BY <1>6, <4>1 DEF OneWant, Steady
      <4>3. Len(msg[t].payload) = tot[t] /\ tot[t] > 0
        BY <1>1, <3>1, <3>2 DEF Copied, Deleting
      <4>4. 1 \in 1 .. Len(msg[t].payload)
        BY <1>2, <4>3
      <4>5. msg[t].payload[1] \in ToSet(msg[t].payload)
        BY <3>2, <4>4, InSequence
      <4>6. OnlyCid(q, msg[t].payload[1])
        BY <1>1, <1>6, <4>1, <4>5 DEF OneWant, Single
      <4>7. c \in ToSet(msg[t].payload)
        BY <4>2, <4>5, <4>6 DEF OnlyCid
      <4> QED BY <1>1, <1>6, <4>7 DEF Reach, Pair
    <3> QED BY <3>3, <3>4
  <2> QED BY <2>2, <2>3
<1> QED
  BY <1>4, <1>5, <1>6

(* A message that is sent while nothing has happened to the connection is on
   the link, behind what is there. *)
LEMMA SendOnLink ==
  ASSUME Network, NEW t \in Threads, Send(t), NEW q \in Pairs, Holds(q), Holds(q)'
  PROVE  ToSet(link[q]) \subseteq ToSet(link'[q]) /\ (q = Pair(t) => msg[t] \in ToSet(link'[q]))
<1> PICK r : r = Pair(t)
  OBVIOUS
<1>0. Inner /\ Wires
  BY DEF Network
<1>1. pc[t] = "send" /\ r \in Pairs /\ r[1] = t[1] /\ Flip(r) \in Pairs /\ Flip(r) # r
  BY <1>0, WorksOnPair, FlipPair DEF Send, Working
<1>2. link \in [Pairs -> Seq(Messages)] /\ msg[t] \in Messages /\ link[q] \in Seq(Messages)
  BY <1>0 DEF Inner, Tables, Variables
<1>3. q \in {r, Flip(r)} => Holds(r) /\ r \in up /\ r \in sees
  <2>1. q \in {r, Flip(r)} => Holds(r)
    BY <1>1, FlipPair DEF Holds
  <2>2. Holds(r) => r \in up
    BY <1>0, <1>1 DEF Wires, Plugged, InUse
  <2> QED BY <1>0, <1>1, <2>1, <2>2 DEF Wires, WireOK
<1>4. CASE link' = [link EXCEPT ![r] = Append(@, msg[t])]
  <2>1. ToSet(Append(link[q], msg[t])) = ToSet(link[q]) \cup {msg[t]}
    BY <1>2, InSequence
  <2>2. link'[q] = IF q = r THEN Append(link[q], msg[t]) ELSE link[q]
    BY <1>2, <1>4
  <2> QED BY <2>1, <2>2
<1>5. CASE r \notin up /\ link' = link
  BY <1>3, <1>5
<1>6. CASE r \notin sees /\ link' = [link EXCEPT ![r] = <<msg[t]>>, ![Flip(r)] = <<>>]
  <2>1. q # r /\ q # Flip(r)
    BY <1>3, <1>6
  <2> QED BY <1>2, <1>6, <2>1
<1>7. CASE Crash(t[1])
  <2>1. q \notin Touching(t[1])
    BY <1>7 DEF Holds, Touching, Crash
  <2>2. q # r
    BY <1>1, <1>7 DEF Holds, Crash
  <2> QED BY <1>7, <2>1, <2>2 DEF Crash, Drop
<1> QED
  BY <1>4, <1>5, <1>6, <1>7 DEF Send

(* The blocks of the message are on the link then. *)
LEMMA ReachSend ==
  ASSUME Network, NEW t \in Threads, Send(t), NEW q \in Pairs, NEW c, Reach(q, c), Holds(q), Holds(q)'
  PROVE  Reach(q, c)'
<1>1. Inner /\ UNCHANGED <<store, blocks>> /\ Finish(t)
  BY DEF Network, Send, requestVars
<1>2. \A u \in Threads \ {t} : peer'[u] = peer[u] /\ msg'[u] = msg[u]
  BY <1>1 DEF Finish, Inner, Variables
<1>3. ToSet(link[q]) \subseteq ToSet(link'[q]) /\ (q = Pair(t) => msg[t] \in ToSet(link'[q]))
  BY SendOnLink
<1>4. CASE \E u \in Threads : Pair(u) = q /\ c \in ToSet(msg[u].payload)
  <2>1. PICK u \in Threads : Pair(u) = q /\ c \in ToSet(msg[u].payload)
    BY <1>4
  <2>2. CASE u = t
    BY <1>3, <2>1, <2>2 DEF Reach
  <2>3. CASE u # t
    <3>1. Pair(u)' = q /\ c \in ToSet(msg'[u].payload)
      BY <1>2, <2>1, <2>3 DEF Pair
    <3> QED BY <3>1 DEF Reach
  <2> QED BY <2>2, <2>3
<1> QED
  BY <1>1, <1>3, <1>4 DEF Reach

(* A message that is read brings its blocks into the blockstore. *)
LEMMA ReachReceive ==
  ASSUME Inner, NEW n \in Nodes, NEW p \in Nodes \ {n}, Receive(n, p), NEW q \in Pairs, NEW c, Reach(q, c)
  PROVE  Reach(q, c)'
<1> PICK r : r = <<p, n>>
  OBVIOUS
<1>1. /\ UNCHANGED <<blocks, peer, msg>> /\ r \in Pairs /\ r[2] = n /\ link[r] # <<>>
      /\ link' = [link EXCEPT ![r] = Tail(link[r])]
      /\ store' = [store EXCEPT ![n] = @ \cup ToSet(Head(link[r]).payload)]
  BY NodePair DEF Receive, localVars
<1>2. link \in [Pairs -> Seq(Messages)] /\ store \in [Nodes -> SUBSET Cids] /\ q[2] \in Nodes
  BY FlipPair DEF Inner, Tables
<1>3. store[q[2]] \subseteq store'[q[2]]
  BY <1>1, <1>2
<1>4. CASE q # r
  <2>1. link'[q] = link[q]
    BY <1>1, <1>2, <1>4
  <2>2. \A u \in Threads : Keeps(u)
    BY <1>1 DEF Keeps
  <2> QED BY <1>1, <1>3, <2>1, <2>2, ReachStays
<1>5. CASE q = r
  <2>1. ToSet(link[r]) = ToSet(Tail(link[r])) \cup {Head(link[r])}
    <3>1. link[r] \in Seq(Messages) /\ link[r] # <<>>
      BY <1>1, <1>2
    <3> QED BY <3>1, InSequence
  <2>2. link'[q] = Tail(link[r]) /\ ToSet(Head(link[r]).payload) \subseteq store'[q[2]]
    BY <1>1, <1>2, <1>5
  <2>3. ASSUME NEW m \in ToSet(link[q]), c \in ToSet(m.payload)
        PROVE  (\E k \in ToSet(link'[q]) : c \in ToSet(k.payload)) \/ c \in store'[q[2]]
    BY <1>5, <2>1, <2>2, <2>3
  <2>4. ASSUME NEW u \in Threads, Pair(u) = q, c \in ToSet(msg[u].payload)
        PROVE  Pair(u)' = q /\ c \in ToSet(msg'[u].payload)
    BY <1>1, <2>4 DEF Pair
  <2> QED BY <1>1, <1>3, <2>3, <2>4 DEF Reach
<1> QED
  BY <1>4, <1>5

(* The begin of process_entry: a new connection has nothing on its links to lose. *)
LEMMA BeginKeepsLinks ==
  ASSUME Network, NEW t \in Threads, Begin(t), NEW q \in Pairs
  PROVE  link'[q] = link[q]
<1> PICK r : r = Pair(t)
  OBVIOUS
<1>0. Inner /\ Wires
  BY DEF Network
<1>1. r \in Pairs /\ Flip(r) \in Pairs
  BY <1>0, WorksOnPair, FlipPair DEF Begin, Working
<1>2. CASE link' = link
  BY <1>2
<1>3. CASE Connect(r)
  <2>1. r \notin up => link[r] = <<>> /\ link[Flip(r)] = <<>>
    BY <1>0, <1>1 DEF Wires, WireOK
  <2>2. link' = link \/ (r \notin up /\ link' = [link EXCEPT ![r] = <<>>, ![Flip(r)] = <<>>])
    BY <1>3 DEF Connect
  <2>3. link \in [Pairs -> Seq(Messages)]
    BY <1>0 DEF Inner, Tables
  <2> QED BY <1>1, <2>1, <2>2, <2>3
<1> QED
  BY <1>2, <1>3 DEF Begin, Fault, netVars

(* So no block is lost there. *)
LEMMA ReachBegin ==
  ASSUME Network, NEW t \in Threads, Begin(t), NEW q \in Pairs, NEW c, Reach(q, c)
  PROVE  Reach(q, c)'
<1>0. Inner
  BY DEF Network
<1>1. pc[t] = "begin" /\ UNCHANGED <<store, blocks>>
  BY DEF Begin, requestVars
<1>2. \A u \in Threads : Keeps(u)
  <2>1. ToSet(msg[t].payload) = {}
    BY <1>0, <1>1, NothingToLose
  <2>2. \A u \in Threads \ {t} : peer'[u] = peer[u] /\ msg'[u] = msg[u]
    BY <1>0 DEF Begin, Finish, Inner, Variables
  <2> QED BY <2>1, <2>2 DEF Keeps
<1> QED
  BY <1>1, <1>2, BeginKeepsLinks, ReachStays

(* No step loses a block while nothing has happened to the connection. *)
LEMMA ReachStep ==
  ASSUME Network, [Next]_vars, NEW q \in Pairs, NEW c, Reach(q, c), Calm(q)', Holds(q)'
  PROVE  Reach(q, c)'
<1>0. Inner /\ Calm(q) /\ Holds(q)
  BY HoldsBefore DEF Network
<1>1. CASE UNCHANGED vars
  <2>1. UNCHANGED <<store, blocks, link, peer, msg>>
    BY <1>1 DEF vars, requestVars, netVars, localVars
  <2> QED BY <2>1, ReachStays DEF Keeps
<1>2. ASSUME NEW n \in Nodes, NodeStep(n) PROVE Reach(q, c)'
  <2>1. <<n, "wants">> \in Threads /\ <<n, "peers">> \in Threads
    BY ThreadNode
  <2>2. CASE (\E d \in Cids : FindProviders(n, d)) \/ AllAsked(n) \/ \E p \in Nodes \ {n} : Withdraw(n, p)
    <3>1. UNCHANGED <<store, blocks, link, peer, msg>>
      BY <2>2 DEF FindProviders, AllAsked, Withdraw, requestVars, netVars, localVars
    <3> QED BY <3>1, ReachStays DEF Keeps
  <2>3. CASE AskProvider(n)
    <3>1. UNCHANGED <<store, blocks, link, msg>> /\ pc[<<n, "wants">>] = "next"
          /\ \E p : peer' = [peer EXCEPT ![<<n, "wants">>] = p]
      BY <2>3 DEF AskProvider, netVars
    <3>2. ToSet(msg[<<n, "wants">>].payload) = {}
      BY <1>0, <2>1, <3>1, NothingToLose
    <3>3. \A u \in Threads : Keeps(u)
      BY <1>0, <3>1, <3>2 DEF Keeps, Inner, Variables
    <3> QED BY <3>1, <3>3, ReachStays
  <2>4. ASSUME NEW p \in Nodes \ {n}, VisitPeer(n, p) PROVE Reach(q, c)'
    <3>1. UNCHANGED <<store, blocks, link, msg>> /\ pc[<<n, "peers">>] = "idle"
          /\ peer' = [peer EXCEPT ![<<n, "peers">>] = p]
      BY <2>4 DEF VisitPeer, netVars, requestVars
    <3>2. ToSet(msg[<<n, "peers">>].payload) = {}
      BY <1>0, <2>1, <3>1, NothingToLose
    <3>3. \A u \in Threads : Keeps(u)
      BY <1>0, <3>1, <3>2 DEF Keeps, Inner, Variables
    <3> QED BY <3>1, <3>3, ReachStays
  <2>5. ASSUME NEW p \in Nodes \ {n}, HandleWant(n, p) PROVE Reach(q, c)'
    <3>1. UNCHANGED <<store, blocks, peer, msg>> /\ (link' = link \/ Crash(n))
      BY <2>5 DEF HandleWant
    <3>2. link'[q] = link[q]
      <4>1. CASE Crash(n)
        <5>1. q \notin Touching(n)
          BY <4>1 DEF Holds, Touching, Crash
        <5> QED BY <4>1, <5>1 DEF Crash, Drop
      <4> QED BY <3>1, <4>1
    <3> QED BY <3>1, <3>2, ReachStays DEF Keeps
  <2>6. ASSUME NEW p \in Nodes \ {n}, Receive(n, p) PROVE Reach(q, c)'
    BY <1>0, <2>6, ReachReceive
  <2>7. ASSUME NEW p \in Nodes \ {n}, Discard(n, p) PROVE FALSE
    BY <1>0, <2>7, DiscardLoses DEF Holds
  <2> QED BY <1>2, <2>2, <2>3, <2>4, <2>5, <2>6, <2>7 DEF NodeStep
<1>3. ASSUME NEW t \in Threads, Gather(t) \/ GatherAdd(t) PROVE Reach(q, c)'
  <2>1. UNCHANGED <<store, link, peer, msg>>
    BY <1>3 DEF Gather, GatherAdd, netVars
  <2>2. ToSet(blocks[q]) \subseteq ToSet(blocks'[q])
    <3>1. CASE blocks' = blocks
      BY <3>1
    <3>2. CASE GatherAdd(t)
      <4>1. found[t] \in Cids /\ blocks' = [blocks EXCEPT ![Pair(t)] = Append(@, found[t])]
        BY <1>0, <3>2 DEF GatherAdd, Inner, Local
      <4>2. blocks \in [Pairs -> Seq(Cids)] /\ blocks[q] \in Seq(Cids)
        BY <1>0 DEF Inner, Tables
      <4>3. ToSet(Append(blocks[q], found[t])) = ToSet(blocks[q]) \cup {found[t]}
        BY <4>1, <4>2, InSequence
      <4>4. blocks'[q] = blocks[q] \/ blocks'[q] = Append(blocks[q], found[t])
        BY <4>1, <4>2
      <4> QED BY <4>3, <4>4
    <3> QED BY <1>3, <3>1, <3>2 DEF Gather, requestVars
  <2> QED BY <2>1, <2>2, ReachStays DEF Keeps
<1>4. ASSUME NEW t \in Threads, CopyBlocks(t) PROVE Reach(q, c)'
  <2>1. UNCHANGED <<store, blocks, link, peer>> /\ pc[t] = "copy" /\ \A u \in Threads \ {t} : msg'[u] = msg[u]
    BY <1>0, <1>4 DEF CopyBlocks, netVars, Inner, Variables
  <2>2. ToSet(msg[t].payload) = {}
    BY <1>0, <2>1, NothingToLose
  <2>3. \A u \in Threads : Keeps(u)
    BY <2>1, <2>2 DEF Keeps
  <2> QED BY <2>1, <2>3, ReachStays
<1>5. ASSUME NEW t \in Threads, AddWantlist(t) PROVE Reach(q, c)'
  <2>1. UNCHANGED <<store, blocks, link, peer>>
    BY <1>5 DEF AddWantlist, netVars
  <2>2. msg'[t].payload = msg[t].payload /\ \A u \in Threads \ {t} : msg'[u] = msg[u]
    BY <1>0, <1>5, AddWantlistMarks
  <2>3. \A u \in Threads : Keeps(u)
    BY <2>1, <2>2 DEF Keeps
  <2> QED BY <2>1, <2>3, ReachStays
<1>6. ASSUME NEW r \in Pairs, Break(r) PROVE FALSE
  BY <1>0, <1>6, NetworkAssumption DEF Break, Fault, Inner, Tables, Holds
<1>7. ASSUME NEW r \in Pairs, Notice(r) PROVE Reach(q, c)'
  <2>1. UNCHANGED <<store, blocks, link, peer, msg>>
    BY <1>7 DEF Notice, requestVars, localVars
  <2> QED BY <2>1, ReachStays DEF Keeps
<1>8. ASSUME NEW t \in Threads, Begin(t) \/ DeleteBlocks(t) \/ Send(t) PROVE Reach(q, c)'
  BY <1>0, <1>8, ReachBegin, ReachDelete, ReachSend
<1>9. ASSUME NEW t \in Threads, SendFails(t) PROVE FALSE
  BY <1>0, <1>9, SendFailsEnds DEF Holds
<1> QED
  BY <1>1, <1>2, <1>3, <1>4, <1>5, <1>6, <1>7, <1>8, <1>9 DEF Next, ProcessEntry

(* A want is marked only when its block is in blocks_we_want_to_send. *)
LEMMA MarksAreServed ==
  ASSUME Inner, Inner', [Next]_vars, NEW q \in Pairs, NEW w \in ToSet(they'[q]), w.cancel
  PROVE  \/ \E v \in ToSet(they[q]) : v.cancel /\ v.cid = w.cid
         \/ w.cid \in ToSet(blocks'[q])
<1>1. they[q] \in Seq(Wants) /\ they'[q] \in Seq(Wants) /\ they \in [Pairs -> Seq(Wants)]
  BY DEF Inner, Tables
<1>2. CASE they'[q] = they[q]
  BY <1>2
<1>3. PICK k \in 1 .. Len(they'[q]) : w = they'[q][k]
  BY <1>1, InSequence
<1>4. ASSUME NEW t \in Threads, GatherAdd(t), they'[q] # they[q]
      PROVE  \/ \E v \in ToSet(they[q]) : v.cancel /\ v.cid = w.cid
             \/ w.cid \in ToSet(blocks'[q])
  <2> PICK r : r = Pair(t)
    OBVIOUS
  <2>1. /\ q = r /\ found[t] \in Cids /\ Len(they'[q]) = Len(they[q])
        /\ \A j \in 1 .. Len(they[q]) : they'[q][j].cid = they[q][j].cid
    BY <1>4, GatherAddMarks
  <2>2. \A j \in 1 .. Len(they[r]) : they'[r][j].cancel => they[r][j].cancel \/ they[r][j].cid = found[t]
    BY <1>4, GatherAddMarks
  <2>3. k \in 1 .. Len(they[q]) /\ they[q][k].cid = w.cid
    BY <1>3, <2>1
  <2>4. they[q][k].cancel \/ w.cid = found[t]
    BY <1>3, <2>1, <2>2, <2>3
  <2>5. they[q][k] \in ToSet(they[q])
    BY <1>1, <2>3, InSequence
  <2>6. found[t] \in ToSet(blocks'[q])
    <3>1. blocks \in [Pairs -> Seq(Cids)] /\ blocks[q] \in Seq(Cids)
      BY DEF Inner, Tables
    <3>2. blocks'[q] = Append(blocks[q], found[t])
      BY <1>4, <2>1, <3>1 DEF GatherAdd
    <3> QED BY <2>1, <3>1, <3>2, InSequence
  <2> QED BY <2>3, <2>4, <2>5, <2>6
<1>5. ASSUME NEW t \in Threads, CopyBlocks(t), they'[q] # they[q]
      PROVE  \/ \E v \in ToSet(they[q]) : v.cancel /\ v.cid = w.cid
             \/ w.cid \in ToSet(blocks'[q])
  <2> PICK r : r = Pair(t)
    OBVIOUS
  <2>1. they' = [they EXCEPT ![r] = CancelCids(they[r], ToSet(blocks[r]))] /\ blocks' = blocks
    BY <1>5 DEF CopyBlocks
  <2>2. q = r /\ they'[q] = CancelCids(they[q], ToSet(blocks[q]))
    BY <1>1, <1>5, <2>1
  <2> DEFINE s == CancelCids(they[q], ToSet(blocks[q]))
  <2>3. Len(s) = Len(they[q])
        /\ \A j \in 1 .. Len(they[q]) :
             s[j].cid = they[q][j].cid /\ (s[j].cancel => they[q][j].cancel \/ s[j].cid \in ToSet(blocks[q]))
    BY <1>1, CancelCidsMarks
  <2> HIDE DEF s
  <2>4. they'[q] = s
    BY <2>2 DEF s
  <2>5. /\ k \in 1 .. Len(they[q]) /\ they[q][k].cid = w.cid
        /\ they[q][k].cancel \/ w.cid \in ToSet(blocks[q])
    BY <1>3, <2>3, <2>4
  <2>6. they[q][k] \in ToSet(they[q])
    BY <1>1, <2>5, InSequence
  <2> QED BY <2>1, <2>5, <2>6
<1>6. ASSUME NEW n \in Nodes, NEW p \in Nodes \ {n}, HandleWant(n, p) PROVE they'[q] = they[q]
  <2> PICK r : r = <<n, p>>
    OBVIOUS
  <2> PICK x : x = Head(inbox[r])
    OBVIOUS
  <2>1. \A y \in Pairs \ {r} : they'[y] = they[y]
    BY <1>6, HandleWantMoves
  <2>2. Moved(r, x)
    BY <1>6, HandleWantMoves
  <2>3. CASE q = r
    <3>1. they'[q] = they[q] \/ they'[q] = <<>> \/ (they'[q] = <<x>> /\ ~x.cancel)
      BY <2>2, <2>3 DEF Moved
    <3>2. ToSet(<<>>) = {} /\ ToSet(<<x>>) = {x}
      BY ShortSequences
    <3> QED BY <3>1, <3>2
  <2> QED BY <2>1, <2>3
<1>7. \/ they' = they
      \/ \E t \in Threads : GatherAdd(t) \/ CopyBlocks(t)
      \/ \E n \in Nodes : \E p \in Nodes \ {n} : HandleWant(n, p)
  BY DEF Next, NodeStep, ProcessEntry, FindProviders, AskProvider, AllAsked, VisitPeer, Withdraw,
     Receive, Begin, Gather, DeleteBlocks, AddWantlist, Send, SendFails, Discard, Break, Notice, vars, requestVars
<1> QED
  BY <1>2, <1>4, <1>5, <1>6, <1>7

(* The invariants of the network hold together. *)
LEMMA StepNetwork == Network /\ [Next]_vars => Network'
BY StepInner, StepWires, StepCopies, StepOneWant DEF Network

(* No step leaves a marked want without its block. *)
LEMMA StepServing == Network /\ Serving /\ [Next]_vars => Serving'
<1>1. SUFFICES ASSUME Network, Serving, [Next]_vars, NEW q \in Pairs, Calm(q)', Holds(q)',
                      NEW w \in ToSet(they'[q]), w.cancel
               PROVE  Reach(q, w.cid)'
  BY DEF Serving, Serves
<1>2. Inner /\ Inner' /\ Calm(q) /\ Holds(q)
  BY <1>1, StepInner, HoldsBefore DEF Network
<1>3. CASE w.cid \in ToSet(blocks'[q])
  BY <1>3 DEF Reach
<1>4. ASSUME NEW v \in ToSet(they[q]), v.cancel, v.cid = w.cid PROVE Reach(q, w.cid)'
  <2>1. Reach(q, w.cid)
    BY <1>1, <1>2, <1>4 DEF Serving, Serves
  <2> QED BY <1>1, <2>1, ReachStep
<1> QED
  BY <1>1, <1>2, <1>3, <1>4, MarksAreServed

(* What the invariant says is what is promised. *)
LEMMA ServingMeans == Serving => MarkedMeansServed
<1>1. SUFFICES ASSUME Serving, NEW q \in Pairs, Calm(q), {q[1], q[2]} \cap crashed = {}, faults = 0,
                      NEW w \in ToSet(they[q]), w.cancel
               PROVE  \/ w.cid \in ToSet(blocks[q])
                      \/ \E m \in Underway(q) : w.cid \in ToSet(m.payload)
                      \/ w.cid \in store[q[2]]
  BY DEF MarkedMeansServed, Served, Calm
<1>2. Holds(q)
  BY <1>1 DEF Holds
<1>3. Reach(q, w.cid)
  BY <1>1, <1>2 DEF Serving, Serves
<1> QED
  BY <1>3 DEF Reach, Underway

(* A want that is marked as answered has a block waiting to be sent, on its way
   or arrived, as long as both processes live and the connection holds; where
   wants may be withdrawn, as long as the two threads of the node have not
   copied the same blocks. *)
THEOREM MarkedWantsAreServed == Spec => []MarkedMeansServed
<1>1. Init => Network /\ Serving
  <2>1. SUFFICES ASSUME Init PROVE Serving
    BY InitInner, InitWires, InitCopies, InitOneWant DEF Network
  <2> QED BY <2>1, ShortSequences DEF Init, Serving, Serves
<1>2. (Network /\ Serving) /\ [Next]_vars => (Network /\ Serving)'
  BY StepNetwork, StepServing
<1>3. Network /\ Serving => MarkedMeansServed
  BY ServingMeans
<1> QED
  BY <1>1, <1>2, <1>3, PTL DEF Spec

-----------------------------------------------------------------------------
(* Where the wants are that were sent. *)

\* q[1] has sent q[2] a want.
Sent(q) == \E e \in ToSet(we[q]) : e.request_has_been_sent

\* A want of q[1] is in a message that is complete, on the link, with the handler
\* of q[2], or in cids_they_want of q[2].
Going(q) ==
  \/ \E u \in Threads : Pair(u) = q /\ pc[u] = "send" /\ ToSet(msg[u].wantlist) # {}
  \/ \E m \in ToSet(link[q]) : ToSet(m.wantlist) # {}
  \/ inbox[Flip(q)] # <<>>
  \/ they[Flip(q)] # <<>>

Delivers(q) == Holds(q) /\ Sent(q) => Going(q)

Delivering == \A q \in Pairs : Delivers(q)

\* A thread that has a message to send keeps it.
Waiting(t) == pc[t] = "send" => pc'[t] = "send" /\ peer'[t] = peer[t] /\ msg'[t] = msg[t]

(* A step that moves no want. *)
LEMMA GoingStays ==
  ASSUME NEW q \in Pairs, Going(q), \A t \in Threads : Waiting(t),
         ToSet(link[q]) \subseteq ToSet(link'[q]), inbox'[Flip(q)] = inbox[Flip(q)],
         they[Flip(q)] # <<>> => they'[Flip(q)] # <<>>
  PROVE  Going(q)'
<1>1. ASSUME NEW u \in Threads, Pair(u) = q, pc[u] = "send", ToSet(msg[u].wantlist) # {}
      PROVE  Pair(u)' = q /\ pc'[u] = "send" /\ ToSet(msg'[u].wantlist) # {}
  BY <1>1 DEF Waiting, Pair
<1> QED
  BY <1>1 DEF Going

(* A cids_they_want with a want keeps it, where nothing is withdrawn. *)
LEMMA WantStays ==
  ASSUME Inner, OneWant, [Next]_vars, NEW q \in Pairs, they[q] # <<>>
  PROVE  they'[q] # <<>>
<1>1. OnlyCid(q, they[q][1].cid)
  BY DEF OnlyCid
<1>2. \A c : OnlyCid(q, c) => OnlyCid(q, c)'
  BY WantsFixed DEF Fixed
<1> QED
  BY <1>1, <1>2 DEF OnlyCid

(* A message that is sent has its wants on the link. *)
LEMMA GoingSend ==
  ASSUME Network, OneWant, [Next]_vars, NEW t \in Threads, Send(t), NEW q \in Pairs, Going(q), Holds(q),
         Holds(q)'
  PROVE  Going(q)'
<1>1. Inner /\ UNCHANGED <<they, inbox>> /\ Finish(t)
  BY DEF Network, Send, requestVars
<1>2. \A u \in Threads \ {t} : pc'[u] = pc[u] /\ peer'[u] = peer[u] /\ msg'[u] = msg[u]
  BY <1>1 DEF Finish, Goto, Inner, Variables
<1>3. ToSet(link[q]) \subseteq ToSet(link'[q]) /\ (q = Pair(t) => msg[t] \in ToSet(link'[q]))
  BY SendOnLink
<1>4. ASSUME NEW u \in Threads, Pair(u) = q, pc[u] = "send", ToSet(msg[u].wantlist) # {} PROVE Going(q)'
  <2>1. CASE u = t
    BY <1>3, <1>4, <2>1 DEF Going
  <2>2. CASE u # t
    <3>1. Pair(u)' = q /\ pc'[u] = "send" /\ ToSet(msg'[u].wantlist) # {}
      BY <1>2, <1>4, <2>2 DEF Pair
    <3> QED BY <3>1 DEF Going
  <2> QED BY <2>1, <2>2
<1> QED
  BY <1>1, <1>3, <1>4 DEF Going

(* The handler gets the wants of the message that is read; it has none left of
   the one before. *)
LEMMA GoingReceive ==
  ASSUME Inner, NEW n \in Nodes, NEW p \in Nodes \ {n}, Receive(n, p), NEW q \in Pairs, Going(q)
  PROVE  Going(q)'
<1> PICK r : r = <<p, n>>
  OBVIOUS
<1> PICK f : f = <<n, p>>
  OBVIOUS
<1>1. /\ r \in Pairs /\ f \in Pairs /\ Flip(r) = f /\ Flip(q) \in Pairs /\ (Flip(q) = f => q = r)
  BY NodePair, FlipPair DEF Flip
<1>2. /\ UNCHANGED <<they, pc, peer, msg>> /\ link[r] # <<>> /\ inbox[f] = <<>>
      /\ link' = [link EXCEPT ![r] = Tail(link[r])]
      /\ inbox' = [inbox EXCEPT ![f] = Head(link[r]).wantlist]
  BY DEF Receive, localVars
<1>3. link \in [Pairs -> Seq(Messages)] /\ inbox \in [Pairs -> Seq(Wants)]
  BY DEF Inner, Tables
<1>4. \A u \in Threads : Waiting(u)
  BY <1>2 DEF Waiting
<1>5. CASE q # r
  <2>1. link'[q] = link[q] /\ inbox'[Flip(q)] = inbox[Flip(q)]
    BY <1>1, <1>2, <1>3, <1>5
  <2> QED BY <1>2, <1>4, <2>1, GoingStays
<1>6. CASE q = r
  <2>1. ToSet(link[r]) = ToSet(Tail(link[r])) \cup {Head(link[r])}
    <3>1. link[r] \in Seq(Messages) /\ link[r] # <<>>
      BY <1>1, <1>2, <1>3
    <3> QED BY <3>1, InSequence
  <2>2. link'[q] = Tail(link[r]) /\ inbox'[Flip(q)] = Head(link[r]).wantlist /\ inbox[Flip(q)] = <<>>
    BY <1>1, <1>2, <1>3, <1>6
  <2>3. ASSUME NEW m \in ToSet(link[q]), ToSet(m.wantlist) # {}
        PROVE  (\E k \in ToSet(link'[q]) : ToSet(k.wantlist) # {}) \/ inbox'[Flip(q)] # <<>>
    BY <1>6, <2>1, <2>2, <2>3, ShortSequences
  <2>4. ASSUME NEW u \in Threads, Pair(u) = q, pc[u] = "send", ToSet(msg[u].wantlist) # {}
        PROVE  Pair(u)' = q /\ pc'[u] = "send" /\ ToSet(msg'[u].wantlist) # {}
    BY <1>2, <2>4 DEF Pair
  <2> QED BY <1>2, <2>2, <2>3, <2>4 DEF Going
<1> QED
  BY <1>5, <1>6

(* adjust_cid_queue puts a want into an empty cids_they_want; the want it cannot
   place finds another one there. *)
LEMMA GoingHandle ==
  ASSUME Inner, OneWant, [Next]_vars, NEW n \in Nodes, NEW p \in Nodes \ {n}, HandleWant(n, p),
         NEW q \in Pairs, Going(q), Holds(q)'
  PROVE  Going(q)'
<1> PICK f : f = <<n, p>>
  OBVIOUS
<1>1. f \in Pairs /\ Flip(q) \in Pairs
  BY NodePair, FlipPair
<1>2. UNCHANGED <<pc, peer, msg>> /\ (link' = link \/ Crash(n))
  BY DEF HandleWant
<1>3. inbox' = [inbox EXCEPT ![f] = Tail(inbox[f])] /\ inbox[f] # <<>>
  BY DEF HandleWant
<1>4. link'[q] = link[q]
  <2>1. CASE Crash(n)
    <3>1. q \notin Touching(n)
      BY <2>1 DEF Holds, Touching, Crash
    <3> QED BY <2>1, <3>1 DEF Crash, Drop
  <2> QED BY <1>2, <2>1
<1>5. they[Flip(q)] # <<>> => they'[Flip(q)] # <<>>
  BY <1>1, WantStays
<1>6. CASE Flip(q) # f
  <2>1. inbox'[Flip(q)] = inbox[Flip(q)]
    BY <1>1, <1>3, <1>6 DEF Inner, Tables
  <2> QED BY <1>2, <1>4, <1>5, <2>1, GoingStays DEF Waiting
<1>7. CASE Flip(q) = f
  <2>1. they'[f] # <<>>
    <3>1. CASE they[f] # <<>>
      BY <1>5, <1>7, <3>1
    <3>2. CASE they[f] = <<>>
      <4>1. Head(inbox[f]) \in ToSet(inbox[f])
        <5>1. inbox[f] \in Seq(Wants) /\ inbox[f] # <<>>
          BY <1>1, <1>3 DEF Inner, Tables
        <5> QED BY <5>1, InSequence
      <4>2. ~Head(inbox[f]).cancel
        BY <1>1, <4>1 DEF OneWant, Steady, NoCancel
      <4>3. they' = [they EXCEPT ![f] = <<Head(inbox[f])>>]
        BY <3>2, <4>2 DEF HandleWant
      <4>4. they'[f] = <<Head(inbox[f])>>
        BY <1>1, <4>3 DEF Inner, Tables
      <4> QED BY <4>4
    <3> QED BY <3>1, <3>2
  <2> QED BY <1>7, <2>1 DEF Going
<1> QED
  BY <1>6, <1>7

(* No step loses the last want while nothing has happened to the connection. *)
LEMMA GoingStep ==
  ASSUME Network, OneWant, [Next]_vars, NEW q \in Pairs, Going(q), Holds(q)'
  PROVE  Going(q)'
<1>0. Inner /\ Holds(q) /\ Flip(q) \in Pairs
  BY HoldsBefore, FlipPair DEF Network
<1>1. they[Flip(q)] # <<>> => they'[Flip(q)] # <<>>
  BY <1>0, WantStays
<1>2. /\ pc \in [Threads -> Steps] /\ peer \in [Threads -> Nodes \cup {NoPeer}]
      /\ msg \in [Threads -> Messages]
  BY <1>0 DEF Inner, Variables
<1>3. CASE UNCHANGED vars
  <2>1. UNCHANGED <<inbox, link, pc, peer, msg>>
    BY <1>3 DEF vars, netVars, localVars
  <2> QED BY <1>1, <2>1, GoingStays DEF Waiting
<1>4. ASSUME NEW n \in Nodes, NodeStep(n) PROVE Going(q)'
  <2>1. CASE \E p \in Nodes \ {n} : Withdraw(n, p)
    <3>1. UNCHANGED <<inbox, link, pc, peer, msg>>
      BY <2>1 DEF Withdraw, netVars, localVars
    <3> QED BY <1>1, <3>1, GoingStays DEF Waiting
  <2>2. CASE \/ \E c \in Cids : FindProviders(n, c)
             \/ AskProvider(n) \/ AllAsked(n) \/ \E p \in Nodes \ {n} : VisitPeer(n, p)
    <3>1. UNCHANGED <<inbox, link, msg>>
      BY <2>2 DEF FindProviders, AskProvider, AllAsked, VisitPeer, netVars
    <3>2. \A u \in Threads : pc[u] = "send" => pc'[u] = "send" /\ peer'[u] = peer[u]
      BY <1>2, <2>2 DEF FindProviders, AskProvider, AllAsked, VisitPeer, Goto
    <3> QED BY <1>1, <3>1, <3>2, GoingStays DEF Waiting
  <2>3. ASSUME NEW p \in Nodes \ {n}, HandleWant(n, p) \/ Receive(n, p) PROVE Going(q)'
    BY <1>0, <2>3, GoingHandle, GoingReceive
  <2>4. ASSUME NEW p \in Nodes \ {n}, Discard(n, p) PROVE FALSE
    BY <1>0, <2>4, DiscardLoses DEF Holds
  <2> QED BY <1>4, <2>1, <2>2, <2>3, <2>4 DEF NodeStep
<1>5. ASSUME NEW t \in Threads, Gather(t) \/ GatherAdd(t) \/ CopyBlocks(t) \/ DeleteBlocks(t) \/ AddWantlist(t)
      PROVE  Going(q)'
  <2>1. UNCHANGED <<inbox, link, peer>> /\ pc[t] # "send"
    BY <1>5 DEF Gather, GatherAdd, CopyBlocks, DeleteBlocks, AddWantlist, netVars
  <2>2. \A u \in Threads \ {t} : pc'[u] = pc[u] /\ msg'[u] = msg[u]
    BY <1>2, <1>5 DEF Gather, GatherAdd, CopyBlocks, DeleteBlocks, AddWantlist, Goto
  <2> QED BY <1>1, <2>1, <2>2, GoingStays DEF Waiting
<1>6. ASSUME NEW r \in Pairs, Break(r) PROVE FALSE
  BY <1>0, <1>6, NetworkAssumption DEF Break, Fault, Inner, Tables, Holds
<1>7. ASSUME NEW r \in Pairs, Notice(r) PROVE Going(q)'
  <2>1. UNCHANGED <<inbox, link, pc, peer, msg>>
    BY <1>7 DEF Notice, localVars
  <2> QED BY <1>1, <2>1, GoingStays DEF Waiting
<1>8. ASSUME NEW t \in Threads, Begin(t) PROVE Going(q)'
  <2>1. link'[q] = link[q] /\ UNCHANGED inbox /\ pc[t] = "begin"
    BY <1>8, BeginKeepsLinks DEF Begin
  <2>2. \A u \in Threads \ {t} : pc'[u] = pc[u] /\ peer'[u] = peer[u] /\ msg'[u] = msg[u]
    BY <1>2, <1>8 DEF Begin, Finish, Goto
  <2> QED BY <1>1, <2>1, <2>2, GoingStays DEF Waiting
<1>9. ASSUME NEW t \in Threads, Send(t) PROVE Going(q)'
  BY <1>0, <1>9, GoingSend
<1>10. ASSUME NEW t \in Threads, SendFails(t) PROVE FALSE
  BY <1>0, <1>10, SendFailsEnds DEF Holds
<1> QED
  BY <1>3, <1>4, <1>5, <1>6, <1>7, <1>8, <1>9, <1>10 DEF Next, ProcessEntry

(* A want is marked as sent only when it is in the message. *)
LEMMA MarkedIsInMessage ==
  ASSUME Cancelling = {}, Inner, OneWant, [Next]_vars, NEW q \in Pairs, Sent(q)', ~Sent(q)
  PROVE  Going(q)'
<1>1. we \in [Pairs -> Seq(CidEntries)] /\ we[q] \in Seq(CidEntries)
  BY DEF Inner, Tables
<1>2. ASSUME we'[q] = we[q] PROVE FALSE
  BY <1>2 DEF Sent
<1>3. ASSUME NEW n \in Nodes, AskProvider(n) PROVE FALSE
  <2> DEFINE e == [cid |-> cid[n], cancel |-> FALSE, request_has_been_sent |-> FALSE,
                   cancel_has_been_sent |-> FALSE]
  <2>1. PICK p \in providers[n] : we' = [we EXCEPT ![<<n, p>>] = Append(@, e)]
    BY <1>3 DEF AskProvider
  <2>2. cid[n] \in Cids
    BY <1>3, ThreadNode DEF AskProvider, Inner, Wanting
  <2>3. e \in CidEntries /\ ~e.request_has_been_sent
    BY <2>2 DEF CidEntries
  <2> HIDE DEF e
  <2>4. we'[q] = we[q] \/ we'[q] = Append(we[q], e)
    BY <1>1, <2>1
  <2>5. ToSet(Append(we[q], e)) = ToSet(we[q]) \cup {e}
    BY <1>1, <2>3, InSequence
  <2> QED BY <2>3, <2>4, <2>5 DEF Sent
<1>4. ASSUME NEW t \in Threads, AddWantlist(t) PROVE Going(q)'
  <2>1. Pair(t) = q
    BY <1>2, <1>4, AddWantlistMarks
  <2>2. PICK e \in ToSet(we'[q]) : e.request_has_been_sent
    BY DEF Sent
  <2>3. we'[q] \in Seq(CidEntries) /\ Len(we'[q]) = Len(we[q])
    BY <1>4, <2>1, AddWantlistMarks
  <2>4. PICK k \in 1 .. Len(we[q]) : e = we'[q][k]
    BY <2>3, InSequence
  <2>5. we[q][k] \in ToSet(we[q])
    BY <1>1, InSequence
  <2>6. ToSend(we[q][k])
    BY <2>5 DEF Sent, OneWant, Steady, NoCancel, ToSend
  <2>7. ToSet(msg'[t].wantlist) # {}
    BY <1>4, <2>1, <2>6, AddWantlistMarks
  <2>8. pc'[t] = "send" /\ Pair(t)' = q
    BY <1>4, <2>1 DEF AddWantlist, Goto, Inner, Variables, Pair
  <2> QED BY <2>7, <2>8 DEF Going
<1>5. \/ we' = we
      \/ \E n \in Nodes : AskProvider(n)
      \/ \E t \in Threads : AddWantlist(t)
  BY DEF Next, NodeStep, ProcessEntry, FindProviders, AllAsked, VisitPeer, Withdraw, Receive, HandleWant,
     Begin, Gather, GatherAdd, CopyBlocks, DeleteBlocks, Send, SendFails, Discard, Break, Notice, vars, requestVars
<1> QED
  BY <1>2, <1>3, <1>4, <1>5

(* No step leaves a peer that was sent wants without one of them. *)
LEMMA StepDelivering == Cancelling = {} /\ Network /\ Delivering /\ [Next]_vars => Delivering'
<1>1. SUFFICES ASSUME Cancelling = {}, Network, Delivering, [Next]_vars, NEW q \in Pairs, Holds(q)', Sent(q)'
               PROVE  Going(q)'
  BY DEF Delivering, Delivers
<1>2. Inner /\ OneWant /\ Holds(q)
  BY <1>1, HoldsBefore DEF Network
<1>3. CASE Sent(q)
  <2>1. Going(q)
    BY <1>1, <1>2, <1>3 DEF Delivering, Delivers
  <2> QED BY <1>1, <1>2, <2>1, GoingStep
<1>4. CASE ~Sent(q)
  BY <1>1, <1>2, <1>4, MarkedIsInMessage
<1> QED
  BY <1>3, <1>4

(* What the handler and cids_they_want have, and what is under way, are wants
   that were sent. *)
LEMMA GoingWasSent ==
  ASSUME Inner, Chain, OneWant, NEW q \in Pairs, Going(q)
  PROVE  \E c : Requested(q, c) /\ OnItsWay(q, c)
<1>1. Flip(q) \in Pairs /\ Flip(Flip(q)) = q
  BY FlipPair
<1>2. inbox[Flip(q)] \in Seq(Wants) /\ they[Flip(q)] \in Seq(Wants)
  BY <1>1 DEF Inner, Tables
<1>3. ASSUME NEW u \in Threads, Pair(u) = q, pc[u] = "send", NEW w \in ToSet(msg[u].wantlist)
      PROVE  Requested(q, w.cid) /\ OnItsWay(q, w.cid)
  <2>1. ~w.cancel
    BY <1>3 DEF OneWant, Single, NoCancel
  <2>2. Requested(q, w.cid)
    BY <1>3, <2>1 DEF Chain, Built, Justified
  <2>3. msg[u] \in Underway(q)
    BY <1>3 DEF Underway
  <2> QED BY <1>3, <2>2, <2>3 DEF OnItsWay
<1>4. ASSUME NEW m \in ToSet(link[q]), NEW w \in ToSet(m.wantlist)
      PROVE  Requested(q, w.cid) /\ OnItsWay(q, w.cid)
  <2>1. ~w.cancel
    BY <1>4 DEF OneWant, Steady, NoCancel
  <2>2. Requested(q, w.cid)
    BY <1>4, <2>1 DEF Chain, Queued, Justified
  <2>3. m \in Underway(q)
    BY <1>4 DEF Underway
  <2> QED BY <1>4, <2>2, <2>3 DEF OnItsWay
<1>5. ASSUME NEW w \in ToSet(inbox[Flip(q)]) \cup ToSet(they[Flip(q)])
      PROVE  Requested(q, w.cid) /\ OnItsWay(q, w.cid)
  <2>1. w \in ToSet(inbox[Flip(q)]) => ~w.cancel
    BY <1>1 DEF OneWant, Steady, NoCancel
  <2>2. Requested(q, w.cid)
    BY <1>1, <1>5, <2>1 DEF Chain, Queued
  <2> QED BY <1>5, <2>2 DEF OnItsWay, Received
<1>6. /\ inbox[Flip(q)] # <<>> => ToSet(inbox[Flip(q)]) # {}
      /\ they[Flip(q)] # <<>> => ToSet(they[Flip(q)]) # {}
  BY <1>2, InSequence
<1> QED
  BY <1>3, <1>4, <1>5, <1>6 DEF Going

\* Of the wants that q[1] has sent to q[2], one is on its way or queued.
OneIsQueued(q) ==
  Holds(q) /\ Sent(q) => \E c : Requested(q, c) /\ OnItsWay(q, c)

(* The invariants hold together, where nothing is withdrawn. *)
LEMMA DeliveringInvariance ==
  ASSUME Cancelling = {}
  PROVE  Spec => [](Network /\ Chain /\ Delivering)
<1>1. Init => Network /\ Chain /\ Delivering
  <2>1. SUFFICES ASSUME Init PROVE Delivering
    BY InitInner, InitWires, InitCopies, InitOneWant, InitChain DEF Network
  <2> QED BY <2>1, ShortSequences DEF Init, Delivering, Delivers, Sent
<1>2. (Network /\ Chain /\ Delivering) /\ [Next]_vars => (Network /\ Chain /\ Delivering)'
  BY StepNetwork, StepChain, StepDelivering DEF Network
<1> QED
  BY <1>1, <1>2, PTL DEF Spec

(* Between nodes that withdraw nothing, as this program's: as long as both
   processes live and the connection holds, a peer that was sent wants has queued
   one of them in cids_they_want, or one is on its way to it.  However many wants
   there are and in whatever order two threads send them, adjust_cid_queue loses
   a want only where it already has another one. *)
THEOREM OneWantIsQueued ==
  ASSUME Cancelling = {}
  PROVE  Spec => [](\A q \in Pairs : OneIsQueued(q))
<1>1. Network /\ Chain /\ Delivering => \A q \in Pairs : OneIsQueued(q)
  BY GoingWasSent DEF Network, Delivering, Delivers, OneIsQueued
<1> QED
  BY <1>1, DeliveringInvariance, PTL

(* "The remotes will queue the file": it is so as long as no node has wanted more
   than one block of the same peer.  The want that add_wantlist_items has marked as
   sent is on its way or in cids_they_want of the provider, while the connection
   holds and both processes live.  With a second want it is false, as the run
   bitswap_second_want shows. *)
THEOREM RemoteQueuesTheOnlyFile ==
  ASSUME Cancelling = {}
  PROVE  Spec => []((\A q \in Pairs : Len(we[q]) <= 1) => RemoteQueuesTheFile)
<1>1. ASSUME Network, Chain, Delivering, \A q \in Pairs : Len(we[q]) <= 1 PROVE RemoteQueuesTheFile
  <2>1. SUFFICES ASSUME NEW q \in Pairs, faults = 0, NEW e \in ToSet(we[q]), SentTo(q, e)
                 PROVE  OnItsWay(q, e.cid)
    BY DEF RemoteQueuesTheFile
  <2>2. Holds(q) /\ Sent(q)
    BY <2>1 DEF SentTo, Holds, Sent
  <2>3. PICK c : Requested(q, c) /\ OnItsWay(q, c)
    BY <1>1, <2>2, GoingWasSent DEF Network, Delivering, Delivers
  <2>4. PICK d \in ToSet(we[q]) : d.cid = c
    BY <2>3 DEF Requested
  <2>5. we[q] \in Seq(CidEntries) /\ Len(we[q]) <= 1
    BY <1>1 DEF Network, Inner, Tables
  <2>6. d = e
    <3>1. PICK j \in 1 .. Len(we[q]) : d = we[q][j]
      BY <2>5, InSequence
    <3>2. PICK k \in 1 .. Len(we[q]) : e = we[q][k]
      BY <2>1, <2>5, InSequence
    <3>3. j = k
      BY <2>5
    <3> QED BY <3>1, <3>2, <3>3
  <2> QED BY <2>3, <2>4, <2>6
<1> QED
  BY <1>1, DeliveringInvariance, PTL
=============================================================================
