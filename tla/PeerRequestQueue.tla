-------------------------- MODULE PeerRequestQueue --------------------------
(***************************************************************************)
(* The list of PeerRequests of a node (exchange/bitswap/                   *)
(* peer_request_queue.c): entries linked by next and prior, with first and *)
(* last.                                                                   *)
(*                                                                         *)
(* The threads of the program call find_peer and find_entry, which use no  *)
(* lock, so each of their reads and writes is a step.  add, remove and pop *)
(* hold queue_mutex and are a step each; only tests call them, from one    *)
(* thread.                                                                 *)
(*                                                                         *)
(* An entry is the number of its allocation; 0 is NULL.                    *)
(***************************************************************************)
EXTENDS Integers, FiniteSets

CONSTANTS
  Threads,
  Peers,
  Operations,  \* which of find_peer, find_entry, add, remove and pop are called
  MaxEntries,  \* entries that are ever allocated
  NoPeer

NULL    == 0
Entries == 1..MaxEntries

ASSUME QueueAssumption ==
  /\ MaxEntries \in Nat
  /\ NoPeer \notin Peers
  /\ Operations \subseteq {"find_peer", "find_entry", "add", "remove", "pop"}

VARIABLES
  first, last,  \* queue->first, queue->last
  next, prior,  \* the links of each entry
  owner,        \* owner[e]: the peer of e's request, NoPeer if not allocated
  used,         \* entries allocated so far
  freed,        \* entries that have been freed
  pc,           \* where each thread is
  op, arg,      \* its call
  cur,          \* its walking pointer
  new,          \* the entry it has made
  ret,          \* ret[t]: the entry its last call returned, NULL if none
  crash         \* why the process died, "no" while it lives

list   == <<first, last, next, prior, owner, used, freed>>
locals == <<pc, op, arg, cur, new, ret>>
vars   == <<list, locals, crash>>

Init ==
  /\ first = NULL
  /\ last = NULL
  /\ next = [e \in Entries |-> NULL]
  /\ prior = [e \in Entries |-> NULL]
  /\ owner = [e \in Entries |-> NoPeer]
  /\ used = 0
  /\ freed = {}
  /\ pc = [t \in Threads |-> "idle"]
  /\ op = [t \in Threads |-> "none"]
  /\ arg = [t \in Threads |-> NoPeer]
  /\ cur = [t \in Threads |-> NULL]
  /\ new = [t \in Threads |-> NULL]
  /\ ret = [t \in Threads |-> NULL]
  /\ crash = "no"

Goto(t, there) == pc' = [pc EXCEPT ![t] = there]
Die(why) == crash' = why /\ UNCHANGED <<list, locals>>

-----------------------------------------------------------------------------
(* ipfs_peer_request_queue_find_peer and ..._queue_find_entry. *)

\* entry = queue->first.  (The bound keeps an entry for every walk.)
Call(t, o, p) ==
  /\ pc[t] = "idle"
  /\ o \in Operations \cap {"find_peer", "find_entry"}
  /\ o = "find_peer" =>
       used + Cardinality({u \in Threads : pc[u] = "walk"}) < MaxEntries
  /\ op' = [op EXCEPT ![t] = o]
  /\ arg' = [arg EXCEPT ![t] = p]
  /\ cur' = [cur EXCEPT ![t] = first]
  /\ ret' = [ret EXCEPT ![t] = NULL]
  /\ Goto(t, "walk")
  /\ UNCHANGED <<list, new, crash>>

\* libp2p_peer_compare(entry->current->peer, peer) == 0
WalkFound(t) ==
  /\ pc[t] = "walk"
  /\ cur[t] \notin {NULL} \cup freed
  /\ owner[cur[t]] = arg[t]
  /\ ret' = [ret EXCEPT ![t] = cur[t]]
  /\ Goto(t, "idle")
  /\ UNCHANGED <<list, op, arg, cur, new, crash>>

\* Mutant: the pointer is not advanced.
WalkNextStays(t) ==
  /\ pc[t] = "walk"
  /\ cur[t] \notin {NULL} \cup freed
  /\ owner[cur[t]] # arg[t]
  /\ UNCHANGED vars

WalkNext(t) ==
  /\ pc[t] = "walk"
  /\ cur[t] \notin {NULL} \cup freed
  /\ owner[cur[t]] # arg[t]
  /\ cur' = [cur EXCEPT ![t] = next[cur[t]]]
  /\ UNCHANGED <<list, pc, op, arg, new, ret, crash>>

WalkFreed(t) ==
  /\ pc[t] = "walk"
  /\ cur[t] \in freed
  /\ Die("freed entry")

\* find_entry returns NULL.
NotFound(t) ==
  /\ pc[t] = "walk"
  /\ cur[t] = NULL
  /\ op[t] = "find_entry"
  /\ Goto(t, "idle")
  /\ UNCHANGED <<list, op, arg, cur, new, ret, crash>>

\* find_peer makes an entry ...
Create(t) ==
  /\ pc[t] = "walk"
  /\ cur[t] = NULL
  /\ op[t] = "find_peer"
  /\ used < MaxEntries
  /\ used' = used + 1
  /\ owner' = [owner EXCEPT ![used + 1] = arg[t]]
  /\ new' = [new EXCEPT ![t] = used + 1]
  /\ Goto(t, "attach")
  /\ UNCHANGED <<first, last, next, prior, freed, op, arg, cur, ret, crash>>

\* ... and attaches it: as the first one ...
AttachTest(t) ==
  /\ pc[t] = "attach"
  /\ Goto(t, IF first = NULL THEN "first" ELSE "next")
  /\ UNCHANGED <<list, op, arg, cur, new, ret, crash>>

AttachFirst(t) ==
  /\ pc[t] = "first"
  /\ first' = new[t]
  /\ Goto(t, "last")
  /\ UNCHANGED <<last, next, prior, owner, used, freed, op, arg, cur, new, ret,
                 crash>>

\* Mutant: the new entry is linked in a ring with the first one.
AttachNextRing(t) ==
  /\ pc[t] = "next"
  /\ last \notin {NULL} \cup freed
  /\ next' = [next EXCEPT ![last] = new[t], ![new[t]] = first]
  /\ Goto(t, "prior")
  /\ UNCHANGED <<first, last, prior, owner, used, freed, op, arg, cur, new, ret,
                 crash>>

\* ... or behind the last one: queue->last->next = entry, ...
AttachNext(t) ==
  /\ pc[t] = "next"
  /\ last \notin {NULL} \cup freed
  /\ next' = [next EXCEPT ![last] = new[t]]
  /\ Goto(t, "prior")
  /\ UNCHANGED <<first, last, prior, owner, used, freed, op, arg, cur, new, ret,
                 crash>>

AttachNextFails(t) ==
  /\ pc[t] = "next"
  /\ last \in {NULL} \cup freed
  /\ Die(IF last = NULL THEN "NULL last" ELSE "freed entry")

\* Mutant: the back link is forgotten.
AttachPriorSkipped(t) ==
  /\ pc[t] = "prior"
  /\ Goto(t, "last")
  /\ UNCHANGED <<list, op, arg, cur, new, ret, crash>>

\* ... entry->prior = queue->last, ...
AttachPrior(t) ==
  /\ pc[t] = "prior"
  /\ prior' = [prior EXCEPT ![new[t]] = last]
  /\ Goto(t, "last")
  /\ UNCHANGED <<first, last, next, owner, used, freed, op, arg, cur, new, ret,
                 crash>>

\* ... queue->last = entry.
AttachLast(t) ==
  /\ pc[t] = "last"
  /\ last' = new[t]
  /\ ret' = [ret EXCEPT ![t] = new[t]]
  /\ new' = [new EXCEPT ![t] = NULL]
  /\ Goto(t, "idle")
  /\ UNCHANGED <<first, next, prior, owner, used, freed, op, arg, cur, crash>>

Step(t) ==
  \/ WalkFound(t)
  \/ WalkNext(t)
  \/ WalkFreed(t)
  \/ NotFound(t)
  \/ Create(t)
  \/ AttachTest(t)
  \/ AttachFirst(t)
  \/ AttachNext(t)
  \/ AttachNextFails(t)
  \/ AttachPrior(t)
  \/ AttachLast(t)

-----------------------------------------------------------------------------
(* The operations that hold queue_mutex. *)

\* The entries a walk from e comes to.
Walk(e, link) ==
  LET reached[k \in 0..MaxEntries] ==
        IF k = 0 THEN {e} \ {NULL}
        ELSE reached[k-1] \cup ({link[x] : x \in reached[k-1]} \ {NULL})
  IN reached[MaxEntries]

\* ipfs_bitswap_peer_request_queue_add: last is moved, its next is not set.
Add(p) ==
  /\ "add" \in Operations
  /\ used < MaxEntries
  /\ used' = used + 1
  /\ owner' = [owner EXCEPT ![used + 1] = p]
  /\ prior' = [prior EXCEPT ![used + 1] = last]
  /\ last' = used + 1
  /\ first' = IF first = NULL THEN used + 1 ELSE first
  /\ UNCHANGED <<next, freed, locals, crash>>

\* Mutant: the entry behind it is freed.
RemoveFreesNext(e) ==
  /\ "remove" \in Operations
  /\ e \in Walk(first, next) \ freed
  /\ prior[e] \notin {NULL} \cup freed
  /\ next' = [next EXCEPT ![prior[e]] = next[e], ![e] = NULL]
  /\ prior' = [prior EXCEPT ![e] = NULL]
  /\ freed' = freed \cup {next[e]}
  /\ UNCHANGED <<first, last, owner, used, locals, crash>>

\* Mutant: the links of the entry are cleared, that of its prior is not.
RemoveKeepsLink(e) ==
  /\ "remove" \in Operations
  /\ e \in Walk(first, next) \ freed
  /\ prior[e] \notin {NULL} \cup freed
  /\ next' = [next EXCEPT ![e] = NULL]
  /\ prior' = [prior EXCEPT ![e] = NULL]
  /\ freed' = freed \cup {e}
  /\ UNCHANGED <<first, last, owner, used, locals, crash>>

\* ipfs_bitswap_peer_request_queue_remove of an entry that find_entry finds:
\* entry->prior->next = entry->next.
Remove(e) ==
  /\ "remove" \in Operations
  /\ e \in Walk(first, next) \ freed
  /\ \/ /\ prior[e] = NULL
        /\ Die("NULL prior")
     \/ /\ prior[e] \in freed
        /\ Die("freed entry")
     \/ /\ prior[e] \notin {NULL} \cup freed
        /\ next' = [next EXCEPT ![prior[e]] = next[e], ![e] = NULL]
        /\ prior' = [prior EXCEPT ![e] = NULL]
        /\ freed' = freed \cup {e}
        /\ UNCHANGED <<first, last, owner, used, locals, crash>>

\* ipfs_bitswap_peer_request_queue_pop of an entry that has something to do:
\* it is put behind the last one and keeps its own next.
Pop ==
  /\ "pop" \in Operations
  /\ first # NULL
  /\ \/ /\ first \in freed \/ (next[first] # NULL /\ last \in freed)
        /\ Die("freed entry")
     \/ /\ first \notin freed
        /\ next[first] # NULL
        /\ last \notin freed
        /\ first' = next[first]
        /\ next' = [next EXCEPT ![last] = first]
        /\ last' = first
        /\ UNCHANGED <<prior, owner, used, freed, locals, crash>>

-----------------------------------------------------------------------------
Next ==
  /\ crash = "no"
  /\ \/ \E t \in Threads, o \in Operations, p \in Peers : Call(t, o, p)
     \/ \E t \in Threads : Step(t)
     \/ /\ \A t \in Threads : pc[t] = "idle"
        /\ \/ \E p \in Peers : Add(p)
           \/ \E e \in Entries : Remove(e)
           \/ Pop

Spec == Init /\ [][Next]_vars

\* A thread that has begun a call goes on with it.
FairSpec == Spec /\ \A t \in Threads : WF_vars(crash = "no" /\ Step(t))

-----------------------------------------------------------------------------
(* Properties. *)

\* Types of the variables: only allocated entries are linked.
TypeOK ==
  /\ used \in 0..MaxEntries
  /\ first \in 0..used
  /\ last \in 0..used
  /\ next \in [Entries -> 0..used]
  /\ prior \in [Entries -> 0..used]
  /\ owner \in [Entries -> Peers \cup {NoPeer}]
  /\ freed \subseteq Entries
  /\ pc \in [Threads -> {"idle", "walk", "attach", "first", "next", "prior",
                         "last"}]
  /\ op \in [Threads -> {"none", "find_peer", "find_entry"}]
  /\ arg \in [Threads -> Peers \cup {NoPeer}]
  /\ cur \in [Threads -> 0..used]
  /\ new \in [Threads -> 0..used]
  /\ ret \in [Threads -> 0..used]
  /\ crash \in {"no", "NULL last", "NULL prior", "freed entry"}

\* TypeOK and what the proofs rest on besides: a search returns a request of the
\* peer it was asked for, and the entry a thread is attaching is for its peer.
OwnRequest ==
  \A t \in Threads : ret[t] # NULL => owner[ret[t]] = arg[t]

IInv ==
  /\ TypeOK
  /\ OwnRequest
  /\ \A t \in Threads : pc[t] \in {"attach", "first", "next", "prior", "last"}
                          => new[t] # NULL /\ owner[new[t]] = arg[t]

\* The walks of find_peer and find_entry come to an end: no entry is reached
\* again from its next, although several threads link entries at once.
WalksEnd ==
  \A e \in Entries : next[e] # NULL => e \notin Walk(next[e], next)

\* queue_free, which goes from last along prior, frees every entry, also those
\* queue_add has made and a search cannot reach.  It holds of one thread, as
\* long as queue_remove has freed no entry and queue_pop has not moved the one
\* that was made first.
FreeReleasesAll ==
  (/\ \A t \in Threads : pc[t] = "idle"
   /\ freed = {}
   /\ WalksEnd
   /\ first \in {NULL, 1}) => Walk(last, prior) = 1..used

\* A search never comes to a request that queue_remove has freed: the entry
\* whose next remove changes, the removed one's prior, is the one the search
\* came from.  It holds of one thread, until queue_pop has moved the entry that
\* was made first.
FreedIsNotFound ==
  (WalksEnd /\ first \in {NULL, 1}) => Walk(first, next) \cap freed = {}

\* Every call of find_peer and find_entry returns.
CallsReturn ==
  \A t \in Threads : pc[t] = "walk" ~> (pc[t] = "idle" \/ crash # "no")

\* Several threads that ask for a peer get the same request.
OneRequestPerPeer ==
  \A t, u \in Threads :
    (ret[t] # NULL /\ ret[u] # NULL /\ arg[t] = arg[u]) => ret[t] = ret[u]

\* find_peer may be called by several threads: it does not dereference
\* queue->last before the thread that made the first entry has set it.
LastIsSet == crash # "NULL last"

\* A request that queue_add puts at the end of the queue can be found there.
AddedIsFound == 1..used \subseteq Walk(first, next)

\* queue_remove removes a request wherever it is, the first one too.
RemoveIsSafe == crash # "NULL prior"

=============================================================================
