------------------------------- MODULE Bitswap -------------------------------
(***************************************************************************)
(* The remote half of the bitswap exchange: nodes that ask each other for  *)
(* blocks and send each other blocks.                                      *)
(*                                                                         *)
(* A node keeps one PeerRequest per peer (peer_request_queue.c): the cids  *)
(* the peer wants, the cids we want of it and the blocks to send.  Two     *)
(* threads of the node run peer_request_process_entry on it without a      *)
(* lock: the wantlist processor, when it asks the providers of a cid       *)
(* (wantlist_queue.c), and the peer request processor, which goes through  *)
(* the peers again and again (engine.c).  A third kind of thread reads     *)
(* messages and applies them (network.c).                                  *)
(*                                                                         *)
(* A connection is a pair of FIFO links that can break; a break loses what *)
(* is under way.  What the wantlist does with a block that has arrived is  *)
(* in module Wantlist.  An operation on a vector is one step.              *)
(***************************************************************************)
EXTENDS Integers, Sequences, SequencesExt

CONSTANTS
  Nodes,        \* the nodes
  Cids,         \* the content identifiers
  Stores,       \* what the blockstores may hold at the start
  Addresses,    \* <<n, p>>: n knows an address of p that it can dial
  Cancelling,   \* nodes that withdraw wants, as other implementations do
  MaxInFlight,  \* messages a link holds before a writer has to wait
  MaxFaults,    \* connections that break, allocations and decodings that fail
  NoPeer, NoCid

Pairs == {q \in Nodes \X Nodes : q[1] # q[2]}
Flip(q) == <<q[2], q[1]>>

\* The threads of a node that run process_entry.
Threads == Nodes \X {"wants", "peers"}

ASSUME NetworkAssumption ==
  /\ Stores \subseteq [Nodes -> SUBSET Cids]
  /\ Addresses \subseteq Pairs
  /\ Cancelling \subseteq Nodes
  /\ MaxInFlight \in Nat \ {0}
  /\ MaxFaults \in Nat
  /\ NoPeer \notin Nodes
  /\ NoCid \notin Cids

\* A WantlistEntry of a message, and the message.
Wants    == [cid : Cids, cancel : BOOLEAN]
Messages == [payload : Seq(Cids), wantlist : Seq(Wants)]
Empty    == [payload |-> <<>>, wantlist |-> <<>>]

\* A CidEntry of cids_they_want is a want: cancel is set once the block is
\* about to be sent.  One of cids_we_want also records what has been sent.
CidEntries == [cid : Cids, cancel : BOOLEAN, request_has_been_sent : BOOLEAN,
               cancel_has_been_sent : BOOLEAN]

VARIABLES
  store,   \* store[n]: cids in the blockstore of n
  asked,   \* asked[n]: cids the wantlist processor of n has asked for
  request, \* the pairs <<n, p>> such that n has a PeerRequest for p
  they,    \* they[<<n, p>>]: cids_they_want, what p wants of n
  we,      \* we[<<n, p>>]: cids_we_want, what n wants of p
  blocks,  \* blocks[<<n, p>>]: blocks_we_want_to_send
  up,      \* the pairs that are really connected
  sees,    \* the pairs <<n, p>> such that n takes p for connected
  link,    \* link[<<n, p>>]: messages from n that p has not read
  inbox,   \* inbox[<<n, p>>]: wants of the message of p that n is handling
  pc, peer, msg,  \* locals of the threads in process_entry
  i,       \* their index in cids_they_want, negative if the entry has gone
  found,   \* the cid of the block they got from the blockstore
  tot,     \* tot_blocks, the number of blocks they copied
  cid,     \* cid[n]: the cid whose providers are being asked
  providers,  \* providers[n]: those still to be asked
  faults,  \* how many of them did
  shared,  \* nodes that have put one struct Block into two messages
  crashed  \* nodes whose process has died

requestVars == <<request, they, we, blocks>>
netVars     == <<up, sees, link, faults>>
localVars   == <<pc, peer, i, found, tot, msg>>
wantVars    == <<asked, cid, providers>>
vars == <<store, requestVars, netVars, inbox, localVars, wantVars, shared,
          crashed>>

Init ==
  /\ store \in Stores
  /\ asked = [n \in Nodes |-> {}]
  /\ request = {}
  /\ they = [q \in Pairs |-> <<>>]
  /\ we = [q \in Pairs |-> <<>>]
  /\ blocks = [q \in Pairs |-> <<>>]
  /\ up = {}
  /\ sees = {}
  /\ link = [q \in Pairs |-> <<>>]
  /\ inbox = [q \in Pairs |-> <<>>]
  /\ pc = [t \in Threads |-> "idle"]
  /\ peer = [t \in Threads |-> NoPeer]
  /\ i = [t \in Threads |-> 0]
  /\ found = [t \in Threads |-> NoCid]
  /\ tot = [t \in Threads |-> 0]
  /\ msg = [t \in Threads |-> Empty]
  /\ cid = [n \in Nodes |-> NoCid]
  /\ providers = [n \in Nodes |-> {}]
  /\ faults = 0
  /\ shared = {}
  /\ crashed = {}

Goto(t, there) == pc' = [pc EXCEPT ![t] = there]

\* The PeerRequest a thread works on.
Pair(t) == <<t[1], peer[t]>>

-----------------------------------------------------------------------------
(* What ends a connection, or a node. *)

Touching(n) == {q \in Pairs : n \in {q[1], q[2]}}

Drop(S) ==
  /\ up' = up \ S
  /\ link' = [q \in Pairs |-> IF q \in S THEN <<>> ELSE link[q]]

\* The process dies; its peers notice when they look.
Crash(n) ==
  /\ crashed' = crashed \cup {n}
  /\ Drop(Touching(n))

Fault == faults < MaxFaults /\ faults' = faults + 1

\* A connection breaks; neither side knows yet.
Break(q) ==
  /\ q \in up
  /\ Fault
  /\ Drop({q, Flip(q)})
  /\ UNCHANGED <<store, requestVars, sees, inbox, localVars, wantVars, shared,
                 crashed>>

\* peek reports an error: libp2p_peer_handle_connection_error.
Notice(q) ==
  /\ q \in sees \ up
  /\ q[1] \notin crashed
  /\ pc[<<q[1], "peers">>] = "idle"
  /\ sees' = sees \ {q}
  /\ UNCHANGED <<store, requestVars, up, link, faults, inbox, localVars,
                 wantVars, shared, crashed>>

-----------------------------------------------------------------------------
(* Asking the providers of a cid. *)

\* get_block_remote: the router names providers of a cid that a local session
\* waits for.
FindProviders(n, c) ==
  /\ n \notin crashed
  /\ pc[<<n, "wants">>] = "idle"
  /\ c \notin store[n] \cup asked[n]
  /\ \E S \in (SUBSET (Nodes \ {n})) \ {{}} :
       providers' = [providers EXCEPT ![n] = S]
  /\ asked' = [asked EXCEPT ![n] = @ \cup {c}]
  /\ cid' = [cid EXCEPT ![n] = c]
  /\ Goto(<<n, "wants">>, "next")
  /\ UNCHANGED <<store, requestVars, netVars, inbox, peer, i, found, tot, msg,
                 shared, crashed>>

\* One turn of its loop: put the cid into the provider's PeerRequest (making
\* one if there is none) and process that.
AskProvider(n) ==
  LET t == <<n, "wants">> IN
  /\ n \notin crashed
  /\ pc[t] = "next"
  /\ \E p \in providers[n] :
       /\ providers' = [providers EXCEPT ![n] = @ \ {p}]
       /\ request' = request \cup {<<n, p>>}
       /\ we' = [we EXCEPT ![<<n, p>>] =
                   Append(@, [cid |-> cid[n], cancel |-> FALSE,
                              request_has_been_sent |-> FALSE,
                              cancel_has_been_sent |-> FALSE])]
       /\ peer' = [peer EXCEPT ![t] = p]
  /\ Goto(t, "begin")
  /\ UNCHANGED <<store, asked, they, blocks, netVars, inbox, i, found, tot, msg, cid,
                 shared, crashed>>

AllAsked(n) ==
  /\ n \notin crashed
  /\ pc[<<n, "wants">>] = "next"
  /\ providers[n] = {}
  /\ cid' = [cid EXCEPT ![n] = NoCid]
  /\ Goto(<<n, "wants">>, "idle")
  /\ UNCHANGED <<store, asked, requestVars, netVars, inbox, peer, i, found, tot,
                 msg, providers, shared, crashed>>

\* A node of Cancelling no longer wants what it has asked p for.
Withdraw(n, p) ==
  /\ n \in Cancelling \ crashed
  /\ \E k \in 1..Len(we[<<n, p>>]) :
       /\ ~we[<<n, p>>][k].cancel
       /\ we' = [we EXCEPT ![<<n, p>>][k].cancel = TRUE]
  /\ UNCHANGED <<store, request, they, blocks, netVars, inbox, localVars,
                 wantVars, shared, crashed>>

\* The peer request processor comes to a peer that has a PeerRequest.
VisitPeer(n, p) ==
  LET t == <<n, "peers">> IN
  /\ n \notin crashed
  /\ pc[t] = "idle"
  /\ <<n, p>> \in request
  /\ peer' = [peer EXCEPT ![t] = p]
  /\ Goto(t, "begin")
  /\ UNCHANGED <<store, requestVars, netVars, inbox, i, found, tot, msg,
                 wantVars, shared, crashed>>

-----------------------------------------------------------------------------
(* ipfs_bitswap_peer_request_process_entry. *)

Finish(t) ==
  /\ Goto(t, IF t[2] = "wants" THEN "next" ELSE "idle")
  /\ peer' = [peer EXCEPT ![t] = NoPeer]
  /\ i' = [i EXCEPT ![t] = 0]
  /\ found' = [found EXCEPT ![t] = NoCid]
  /\ tot' = [tot EXCEPT ![t] = 0]
  /\ msg' = [msg EXCEPT ![t] = Empty]


\* need_to_connect: is there a want or a cancel to send, a want to answer or a
\* block to send?
ToSend(e) == IF e.cancel THEN ~e.cancel_has_been_sent
                         ELSE ~e.request_has_been_sent

NeedToConnect(q) ==
  \/ \E k \in 1..Len(we[q]) : ToSend(we[q][k])
  \/ \E k \in 1..Len(they[q]) : ~they[q][k].cancel
  \/ blocks[q] # <<>>

\* libp2p_peer_connect: both sides see the new connection.  It fails if the
\* peer cannot be dialled or the network drops it.
CanConnect(q) == q \in Addresses /\ q[2] \notin crashed

Connect(q) ==
  /\ up' = up \cup {q, Flip(q)}
  /\ sees' = sees \cup {q, Flip(q)}
  /\ link' = IF q \in up THEN link
             ELSE [link EXCEPT ![q] = <<>>, ![Flip(q)] = <<>>]

\* Is there something to do, and a connection to do it on?
Begin(t) ==
  LET q == Pair(t) IN
  /\ pc[t] = "begin"
  /\ \/ /\ NeedToConnect(q)
        /\ q \in sees
        /\ Goto(t, "gather")
        /\ i' = [i EXCEPT ![t] = 1]
        /\ UNCHANGED <<peer, found, tot, msg, netVars>>
     \/ /\ NeedToConnect(q)
        /\ q \notin sees
        /\ CanConnect(q)
        /\ Connect(q)
        /\ Goto(t, "gather")
        /\ i' = [i EXCEPT ![t] = 1]
        /\ UNCHANGED <<peer, found, tot, msg, faults>>
     \/ /\ NeedToConnect(q)
        /\ q \notin sees
        /\ CanConnect(q)
        /\ Fault
        /\ Finish(t)
        /\ UNCHANGED <<up, sees, link>>
     \/ /\ NeedToConnect(q) => q \notin sees /\ ~CanConnect(q)
        /\ Finish(t)
        /\ UNCHANGED netVars
  /\ UNCHANGED <<store, requestVars, inbox, wantVars, shared, crashed>>

\* get_blocks_they_want: one turn of its loop, up to the blockstore's answer.
Gather(t) ==
  LET q == Pair(t) IN
  /\ pc[t] = "gather"
  /\ \/ /\ i[t] > Len(they[q])
        /\ Goto(t, "copy")
        /\ UNCHANGED <<i, found>>
     \/ /\ i[t] <= Len(they[q])
        /\ ~they[q][i[t]].cancel
        /\ they[q][i[t]].cid \in store[q[1]]
        /\ found' = [found EXCEPT ![t] = they[q][i[t]].cid]
        /\ Goto(t, "add")
        /\ UNCHANGED i
     \/ /\ i[t] <= Len(they[q])
        /\ they[q][i[t]].cancel \/ they[q][i[t]].cid \notin store[q[1]]
        /\ i' = [i EXCEPT ![t] = @ + 1]
        /\ UNCHANGED <<pc, found>>
  /\ UNCHANGED <<store, requestVars, netVars, inbox, peer, tot, msg, wantVars,
                 shared, crashed>>

\* The block goes to blocks_we_want_to_send and the want is marked, if it is
\* still there: the handler of a cancel may have deleted it.
GatherAdd(t) ==
  LET q == Pair(t) IN
  /\ pc[t] = "add"
  /\ blocks' = [blocks EXCEPT ![q] = Append(@, found[t])]
  /\ they' = IF i[t] > 0 THEN [they EXCEPT ![q][i[t]].cancel = TRUE] ELSE they
  /\ i' = [i EXCEPT ![t] = IF @ > 0 THEN @ + 1 ELSE 1 - @]
  /\ found' = [found EXCEPT ![t] = NoCid]
  /\ Goto(t, "gather")
  /\ UNCHANGED <<store, request, we, netVars, inbox, peer, tot, msg, wantVars,
                 shared, crashed>>

\* message_cancel_cid for each of the cids: the first entry for it is marked.
CancelCids(entries, cids) ==
  [k \in 1..Len(entries) |->
     IF /\ entries[k].cid \in cids
        /\ \A j \in 1..(k-1) : entries[j].cid # entries[k].cid
     THEN [entries[k] EXCEPT !.cancel = TRUE]
     ELSE entries[k]]

\* message_add_blocks: the message takes the blocks (not copies of them), and
\* message_free will free them ...
CopyBlocks(t) ==
  LET q == Pair(t) IN
  /\ pc[t] = "copy"
  /\ msg' = [msg EXCEPT ![t].payload = blocks[q]]
  /\ tot' = [tot EXCEPT ![t] = Len(blocks[q])]
  /\ they' = [they EXCEPT ![q] = CancelCids(@, ToSet(blocks[q]))]
  /\ shared' = IF /\ blocks[q] # <<>>
                  /\ \E u \in Threads \ {t} :
                       Pair(u) = q /\ pc[u] = "delete" /\ tot[u] > 0
               THEN shared \cup {q[1]}
               ELSE shared
  /\ Goto(t, "delete")
  /\ UNCHANGED <<store, request, we, blocks, netVars, inbox, peer, i, found,
                 wantVars, crashed>>

\* Mutant: all blocks are deleted, copied or not.
DeleteAllBlocks(t) ==
  LET q == Pair(t) IN
  /\ pc[t] = "delete"
  /\ blocks' = [blocks EXCEPT ![q] = <<>>]
  /\ tot' = [tot EXCEPT ![t] = 0]
  /\ Goto(t, "wantlist")
  /\ UNCHANGED <<store, request, they, we, netVars, inbox, peer, i, found, msg,
                 wantVars, shared, crashed>>

\* ... and they are deleted from the front of blocks_we_want_to_send.
DeleteBlocks(t) ==
  LET q == Pair(t) IN
  /\ pc[t] = "delete"
  /\ blocks' = [blocks EXCEPT ![q] = SubSeq(@, tot[t] + 1, Len(@))]
  /\ tot' = [tot EXCEPT ![t] = 0]
  /\ Goto(t, "wantlist")
  /\ UNCHANGED <<store, request, they, we, netVars, inbox, peer, i, found, msg,
                 wantVars, shared, crashed>>

\* message_add_wantlist_items: every want and every cancel that has not been
\* sent ...
WantlistItems(entries) ==
  LET items[k \in 0..Len(entries)] ==
        CASE k = 0 -> <<>>
          [] k > 0 /\ ToSend(entries[k]) ->
               Append(items[k - 1], [cid |-> entries[k].cid, cancel |-> entries[k].cancel])
          [] OTHER -> items[k - 1]
  IN  items[Len(entries)]

\* ... which is marked as sent.
MarkSent(e) == IF e.cancel THEN [e EXCEPT !.cancel_has_been_sent = TRUE]
                           ELSE [e EXCEPT !.request_has_been_sent = TRUE]

AddWantlist(t) ==
  LET q == Pair(t) IN
  /\ pc[t] = "wantlist"
  /\ msg' = [msg EXCEPT ![t].wantlist = WantlistItems(we[q])]
  /\ we' = [we EXCEPT ![q] = [k \in 1..Len(@) |-> MarkSent(@[k])]]
  /\ Goto(t, "send")
  /\ UNCHANGED <<store, request, they, blocks, netVars, inbox, peer, i, found,
                 tot, wantVars, shared, crashed>>

\* Mutant: a write that would have to wait is given up and not reported.
SendDrops(t) ==
  LET q == Pair(t) IN
  /\ pc[t] = "send"
  /\ link' = IF q \in sees \cap up /\ Len(link[q]) < MaxInFlight
             THEN [link EXCEPT ![q] = Append(@, msg[t])]
             ELSE link
  /\ Finish(t)
  /\ UNCHANGED <<store, requestVars, up, sees, inbox, wantVars, faults, shared,
                 crashed>>

\* network_send_message: connect again if need be and write.  A write to a
\* broken connection fails.  The message and its blocks are freed in any case;
\* a block that is in two messages is freed twice, and the process may die.
Send(t) ==
  LET q == Pair(t) IN
  /\ pc[t] = "send"
  /\ \/ /\ q \in sees \cap up
        /\ Len(link[q]) < MaxInFlight
        /\ link' = [link EXCEPT ![q] = Append(@, msg[t])]
        /\ UNCHANGED <<up, sees, crashed>>
     \/ /\ q \notin up
        /\ UNCHANGED <<up, sees, link, crashed>>
     \/ /\ q \notin sees
        /\ CanConnect(q)
        /\ up' = up \cup {q, Flip(q)}
        /\ sees' = sees \cup {q, Flip(q)}
        /\ link' = [link EXCEPT ![q] = <<msg[t]>>, ![Flip(q)] = <<>>]
        /\ UNCHANGED crashed
     \/ /\ t[1] \in shared
        /\ msg[t].payload # <<>>
        /\ Crash(t[1])
        /\ UNCHANGED sees
  /\ Finish(t)
  /\ UNCHANGED <<store, requestVars, inbox, wantVars, faults, shared>>

\* The message cannot be encoded: it is given up, with what was marked as sent.
SendFails(t) ==
  /\ t[1] \notin crashed
  /\ pc[t] = "send"
  /\ Fault
  /\ Finish(t)
  /\ UNCHANGED <<store, requestVars, up, sees, link, inbox, wantVars, shared, crashed>>

ProcessEntry(t) ==
  /\ t[1] \notin crashed
  /\ \/ Begin(t)
     \/ Gather(t)
     \/ GatherAdd(t)
     \/ CopyBlocks(t)
     \/ DeleteBlocks(t)
     \/ AddWantlist(t)
     \/ Send(t)

-----------------------------------------------------------------------------
(* ipfs_bitswap_network_handle_message at n, for a message from p. *)

\* The blocks go to the exchange, which stores them; a wantlist finds or makes
\* the PeerRequest of p (find_peer is one step here, and what becomes of a request
\* that two threads make at the same time is in module PeerRequestQueue).
Receive(n, p) ==
  LET m == Head(link[<<p, n>>]) IN
  /\ n \notin crashed
  /\ inbox[<<n, p>>] = <<>>
  /\ link[<<p, n>>] # <<>>
  /\ link' = [link EXCEPT ![<<p, n>>] = Tail(@)]
  /\ store' = [store EXCEPT ![n] = @ \cup ToSet(m.payload)]
  /\ inbox' = [inbox EXCEPT ![<<n, p>>] = m.wantlist]
  /\ request' = IF m.wantlist = <<>> THEN request ELSE request \cup {<<n, p>>}
  /\ UNCHANGED <<they, we, blocks, up, sees, faults, localVars, wantVars,
                 shared, crashed>>

\* What makes n discard a message, or the rest of it.
Discard(n, p) ==
  LET q == <<n, p>>
      m == Head(link[Flip(q)])
  IN
  /\ n \notin crashed
  /\ Fault
  /\ \/ \* It cannot be decoded.
        /\ inbox[q] = <<>>
        /\ link[Flip(q)] # <<>>
        /\ link' = [link EXCEPT ![Flip(q)] = Tail(@)]
        /\ UNCHANGED <<store, inbox>>
     \/ \* The blocks are stored, but the sender of the wantlist is unknown.
        /\ inbox[q] = <<>>
        /\ link[Flip(q)] # <<>>
        /\ m.wantlist # <<>>
        /\ link' = [link EXCEPT ![Flip(q)] = Tail(@)]
        /\ store' = [store EXCEPT ![n] = @ \cup ToSet(m.payload)]
        /\ UNCHANGED inbox
     \/ \* The cid of a want cannot be decoded.
        /\ inbox[q] # <<>>
        /\ inbox' = [inbox EXCEPT ![q] = <<>>]
        /\ UNCHANGED <<store, link>>
  /\ UNCHANGED <<requestVars, up, sees, localVars, wantVars, shared, crashed>>

\* Mutant: a cancel is taken for a want.
HandleWantIgnoresCancel(n, p) ==
  LET q == <<n, p>>
      w == Head(inbox[q])
  IN
  /\ n \notin crashed
  /\ inbox[q] # <<>>
  /\ inbox' = [inbox EXCEPT ![q] = Tail(@)]
  /\ they' = IF they[q] = <<>>
             THEN [they EXCEPT ![q] = <<[w EXCEPT !.cancel = FALSE]>>]
             ELSE they
  /\ UNCHANGED <<store, request, we, blocks, netVars, localVars, wantVars,
                 shared, crashed>>

\* Mutant: the search is left out, everything is put at the end of the vector.
HandleWantQueues(n, p) ==
  LET q == <<n, p>>
  IN
  /\ n \notin crashed
  /\ inbox[q] # <<>>
  /\ inbox' = [inbox EXCEPT ![q] = Tail(@)]
  /\ they' = [they EXCEPT ![q] = Append(@, Head(inbox[q]))]
  /\ UNCHANGED <<store, request, we, blocks, netVars, localVars, wantVars,
                 shared, crashed>>

\* adjust_cid_queue for the next want of the message.  Its loop advances the
\* vector instead of the index, so it can only find the first entry; with
\* another cid in front it reads past the vector, which kills the process or
\* adds the want to something that is not a vector.
HandleWant(n, p) ==
  LET q == <<n, p>>
      w == Head(inbox[q])
  IN
  /\ n \notin crashed
  /\ inbox[q] # <<>>
  /\ inbox' = [inbox EXCEPT ![q] = Tail(@)]
  /\ \/ /\ they[q] = <<>>
        /\ they' = IF w.cancel THEN they ELSE [they EXCEPT ![q] = <<w>>]
        /\ UNCHANGED <<i, up, link, crashed>>
     \/ /\ they[q] # <<>>
        /\ they[q][1].cid = w.cid
        /\ they' = IF w.cancel THEN [they EXCEPT ![q] = Tail(@)] ELSE they
        /\ i' = IF w.cancel
                THEN [t \in Threads |->
                        IF Pair(t) = q /\ pc[t] = "add" /\ i[t] > 0 THEN -i[t] ELSE i[t]]
                ELSE i
        /\ UNCHANGED <<up, link, crashed>>
     \/ /\ they[q] # <<>>
        /\ they[q][1].cid # w.cid
        /\ \/ Crash(n)
           \/ UNCHANGED <<up, link, crashed>>
        /\ UNCHANGED <<they, i>>
  /\ UNCHANGED <<store, request, we, blocks, sees, faults, pc, peer, found, tot,
                 msg, wantVars, shared>>

-----------------------------------------------------------------------------
NodeStep(n) ==
  \/ \E c \in Cids : FindProviders(n, c)
  \/ AskProvider(n)
  \/ AllAsked(n)
  \/ \E p \in Nodes \ {n} : VisitPeer(n, p)
  \/ \E p \in Nodes \ {n} : Withdraw(n, p)
  \/ \E p \in Nodes \ {n} : Receive(n, p)
  \/ \E p \in Nodes \ {n} : HandleWant(n, p)
  \/ \E p \in Nodes \ {n} : Discard(n, p)

Next ==
  \/ \E n \in Nodes : NodeStep(n)
  \/ \E t \in Threads : ProcessEntry(t) \/ SendFails(t)
  \/ \E q \in Pairs : Break(q)
  \/ \E q \in Pairs : Notice(q)

Spec == Init /\ [][Next]_vars

\* Every thread goes on.  The peer request processor goes round the peers, so
\* each of them gets its turn; messages are read as they come.
Fairness ==
  /\ \A n \in Nodes : WF_vars(AskProvider(n)) /\ WF_vars(AllAsked(n))
  /\ \A t \in Threads : WF_vars(ProcessEntry(t))
  /\ \A q \in Pairs : /\ SF_vars(VisitPeer(q[1], q[2]))
                      /\ WF_vars(Receive(q[1], q[2]))
                      /\ WF_vars(HandleWant(q[1], q[2]))

FairSpec == Spec /\ Fairness

-----------------------------------------------------------------------------
(* Properties. *)

Steps == {"idle", "next", "begin", "gather", "add", "copy", "delete",
          "wantlist", "send"}

\* Types of the variables; cids_they_want, as adjust_cid_queue fills it, never has
\* more than one entry, whatever is wanted and withdrawn.
TypeOK ==
  /\ store \in [Nodes -> SUBSET Cids]
  /\ asked \in [Nodes -> SUBSET Cids]
  /\ request \in SUBSET Pairs
  /\ \A q \in Pairs : they[q] \in Seq(Wants) /\ Len(they[q]) <= 1
  /\ \A q \in Pairs : we[q] \in Seq(CidEntries)
  /\ \A q \in Pairs : blocks[q] \in Seq(Cids)
  /\ up \in SUBSET Pairs
  /\ sees \in SUBSET Pairs
  /\ \A q \in Pairs : link[q] \in Seq(Messages) /\ Len(link[q]) <= MaxInFlight
  /\ \A q \in Pairs : inbox[q] \in Seq(Wants)
  /\ pc \in [Threads -> Steps]
  /\ peer \in [Threads -> Nodes \cup {NoPeer}]
  /\ i \in [Threads -> Int]
  /\ found \in [Threads -> Cids \cup {NoCid}]
  /\ tot \in [Threads -> Nat]
  /\ msg \in [Threads -> Messages]
  /\ cid \in [Nodes -> Cids \cup {NoCid}]
  /\ providers \in [Nodes -> SUBSET Nodes]
  /\ faults \in 0..MaxFaults
  /\ shared \in SUBSET Nodes
  /\ crashed \in SUBSET Nodes

\* The messages of n for p that p has not read: those being built and those
\* on the link.
Underway(q) ==
  {msg[t] : t \in {u \in Threads : Pair(u) = q}} \cup ToSet(link[q])

\* The wants of n that p has received and not yet put into its request.
Received(q) == ToSet(inbox[Flip(q)])

\* A node is sent only what it asked this peer for: each block that
\* process_entry puts into a message for p answers a want that p's
\* get_block_remote recorded for this node and sent to it.
OnlyWhatWasAsked ==
  \A q \in Pairs : \A m \in Underway(q) : \A c \in ToSet(m.payload) :
    \E e \in ToSet(we[Flip(q)]) : e.cid = c /\ e.request_has_been_sent

\* A want that is marked as answered (get_blocks_they_want sets cancel before
\* anything is sent) has a block waiting to be sent, on its way, or arrived,
\* as long as both processes live and the connection holds.
Served(q) ==
  ({q[1], q[2]} \cap crashed = {} /\ faults = 0) =>
    \A w \in ToSet(they[q]) : w.cancel =>
      \/ w.cid \in ToSet(blocks[q])
      \/ \E m \in Underway(q) : w.cid \in ToSet(m.payload)
      \/ w.cid \in store[q[2]]

\* That is so for nodes that withdraw nothing, as this program's; with wants that
\* are withdrawn, while the two threads have not copied the same blocks: the
\* second of them deletes as many blocks as it copied, and after a cancel these
\* are blocks for other wants.
MarkedMeansServed ==
  \A q \in Pairs : Cancelling = {} \/ q[1] \notin shared => Served(q)

OnItsWay(q, c) ==
  \/ \E m \in Underway(q) : \E w \in ToSet(m.wantlist) : w.cid = c
  \/ \E w \in Received(q) \cup ToSet(they[Flip(q)]) : w.cid = c

\* q[1] has marked the want as sent, and both processes live.
SentTo(q, e) ==
  e.request_has_been_sent /\ ~e.cancel /\ {q[1], q[2]} \cap crashed = {}

\* "The remotes will queue the file": a want that add_wantlist_items has
\* marked as sent is on its way, or the provider has it in cids_they_want, as
\* long as the connection holds.
RemoteQueuesTheFile ==
  \A q \in Pairs : faults = 0 =>
    \A e \in ToSet(we[q]) : SentTo(q, e) => OnItsWay(q, e.cid)

\* A want is only marked as sent when it has been sent: a send that fails in
\* network_send_message leaves no want of its message marked.
FailedSendKeepsWants ==
  [][\A t \in Threads :
       (pc[t] = "send" /\ pc'[t] # "send" /\ link' = link) =>
         \A k \in 1..Len(we[Pair(t)]) :
           (\E w \in ToSet(msg[t].wantlist) : w.cid = we[Pair(t)][k].cid) =>
              ~we'[Pair(t)][k].request_has_been_sent]_vars

\* No struct Block is in the messages of two threads: each of them frees the
\* blocks of its message.
BlockInOneMessage == shared = {}

\* process_entry sends a message only when it has something to say.
NoEmptyMessage ==
  \A q \in Pairs : \A m \in ToSet(link[q]) : m # Empty


=============================================================================
