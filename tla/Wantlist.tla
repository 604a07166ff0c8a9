------------------------------ MODULE Wantlist ------------------------------
(***************************************************************************)
(* The local half of the bitswap exchange of one node: the wantlist, the   *)
(* threads that share it and the block files they race on.                 *)
(*                                                                         *)
(*   - a caller runs ipfs_bitswap_get_block or ipfs_bitswap_get_block_async *)
(*     once (exchange/bitswap/bitswap.c);                                  *)
(*   - the wantlist processor is the engine thread of                      *)
(*     exchange/bitswap/engine.c;                                          *)
(*   - a receiver is a thread that dispatches network messages and runs    *)
(*     ipfs_bitswap_has_block for a block that came in.                    *)
(*                                                                         *)
(* wantlist->queue is a sequence of entries.  Entries are never taken out  *)
(* of it, so the pointer a thread keeps to an entry is an index.  Only     *)
(* local sessions exist in the program and any two of them compare equal,  *)
(* so the vector sessionsRequesting is its total.  The total is written by *)
(* threads that do not hold the mutex: reading it and writing it back are  *)
(* separate steps.                                                         *)
(***************************************************************************)
EXTENDS Integers, Sequences

CONSTANTS
  Cids,         \* the content identifiers that may be asked for
  GetCallers,   \* threads that call get_block
  AsyncCallers, \* threads that call get_block_async
  Receivers,    \* threads that call has_block
  Processor,    \* the wantlist processor thread
  Free,         \* value of a mutex nobody holds
  NoCid,        \* cid of a thread that has not been given one
  Timeout,      \* polls before get_block stops looking (60 in the code)
  MaxAttempts   \* failed provider searches tolerated (10 in the code)

Callers == GetCallers \cup AsyncCallers
Threads == Callers \cup Receivers \cup {Processor}

ASSUME ThreadAssumption ==
  /\ GetCallers \cap AsyncCallers = {}
  /\ Callers \cap Receivers = {}
  /\ Processor \notin Callers \cup Receivers
  /\ Free \notin Threads
  /\ NoCid \notin Cids

ASSUME BoundAssumption ==
  /\ Timeout \in Nat \ {0}
  /\ MaxAttempts \in Nat

(***************************************************************************)
(* A block file is written in two system calls: fwrite passes the whole    *)
(* buffers on (the head) and fclose flushes what is left (the tail).  A    *)
(* file is the set of parts it holds; fopen "wb" empties it.               *)
(***************************************************************************)
Parts  == {"head", "tail"}
Absent == {"no file"}
Files  == (SUBSET Parts) \cup {Absent}

(***************************************************************************)
(* What a struct Block pointer designates.  "building": a block that the   *)
(* decoder has allocated and not filled (its cid is NULL).  "hollow": a    *)
(* block that has its cid and not its bytes.  "freed": memory that the     *)
(* decoder freed on an error without clearing the pointer.                 *)
(***************************************************************************)
Blocks == {"NULL", "building", "hollow", "full", "freed"}

Results == {"none", "full", "hollow", "freed", "queued", "timeout"}

Entries == [cid : Cids, block : Blocks, attempts : Nat,
            asked_network : BOOLEAN, sessions : Nat]

VARIABLES
  queue,         \* wantlist->queue, the entries in the order they were added
  mutex,         \* holder of wantlist->wantlist_mutex
  file,          \* the blockstore's files
  datastore,     \* cids that have a record in the datastore
  unstored,      \* history: cids without a file whose Put has failed
  pc,            \* where each thread is
  cid,           \* the cid each thread works on
  ent,           \* index of the entry each thread points to, 0 for NULL
  total,         \* total of sessionsRequesting as each thread last read it
  timeTaken,     \* get_block's count of polls
  result,        \* what a caller got back
  scan,          \* i of the give-up loop of the processor
  local_request, \* the processor's local variable of that name
  have_local,    \* the processor's local variable of that name
  buffer,        \* file contents the processor has read and not decoded
  crash          \* why the process died, "no" while it lives

\* A local variable that is out of scope has its initial value.

callVars == <<timeTaken, result>>
procVars == <<scan, local_request, have_local, buffer>>
vars == <<queue, mutex, file, datastore, unstored, pc, cid, ent, total,
          callVars, procVars, crash>>

-----------------------------------------------------------------------------
(* The queue. *)

\* ipfs_bitswap_wantlist_queue_find: index of the first entry for c, or 0.
Find(c) ==
  IF \E i \in 1..Len(queue) : queue[i].cid = c
  THEN CHOOSE i \in 1..Len(queue) :
         queue[i].cid = c /\ \A j \in 1..(i-1) : queue[j].cid # c
  ELSE 0

\* ipfs_bitswap_wantlist_queue_entry_new, with the first session added.
NewEntry(c) == [cid |-> c, block |-> "NULL", attempts |-> 0,
                asked_network |-> FALSE, sessions |-> 1]

\* Mutant: pop does not look at the block of an entry.
PendingFilled(i) == ~queue[i].asked_network

\* The entries ipfs_bitswap_wantlist_queue_pop looks for.
Pending(i) == queue[i].block = "NULL" /\ ~queue[i].asked_network

\* The entry it returns is the first of them.
Pop(i) == Pending(i) /\ \A j \in 1..(i-1) : ~Pending(j)

\* The values *block may designate once ipfs_blocks_block_protobuf_decode
\* has run on the contents f of a file.  An empty buffer decodes without
\* error; a truncated one fails; one whose head is a hole does either.
Decoded(f) ==
  CASE f = Parts    -> {"full"}
    [] f = {}       -> {"hollow"}
    [] f = {"head"} -> {"freed"}
    [] f = {"tail"} -> {"freed", "hollow"}
    [] OTHER        -> {}

-----------------------------------------------------------------------------
Init ==
  /\ queue = <<>>
  /\ mutex = Free
  /\ file \in [Cids -> {Absent, Parts}]
  /\ datastore = {c \in Cids : file[c] = Parts}
  /\ unstored = {}
  /\ pc = [t \in Threads |-> "idle"]
  /\ cid = [t \in Callers \cup Receivers |-> NoCid]
  /\ ent = [t \in Threads |-> 0]
  /\ total = [t \in Threads |-> 0]
  /\ timeTaken = [t \in Callers |-> 0]
  /\ result = [t \in Callers |-> "none"]
  /\ scan = 0
  /\ local_request = FALSE
  /\ have_local = FALSE
  /\ buffer = {}
  /\ crash = "no"

Goto(t, there) == pc' = [pc EXCEPT ![t] = there]

-----------------------------------------------------------------------------
(* get_block and get_block_async. *)

\* The call, and its first step: ask the blockstore.  A file that decodes is
\* the answer, whatever it decodes to.
CallGet(t, c) ==
  /\ pc[t] = "idle"
  /\ cid' = [cid EXCEPT ![t] = c]
  /\ \/ /\ file[c] = Absent
        /\ Goto(t, "lock")
        /\ UNCHANGED result
     \/ \E b \in Decoded(file[c]) :
          IF b = "freed"
          THEN Goto(t, "lock") /\ UNCHANGED result
          ELSE /\ Goto(t, "done")
               /\ result' = [result EXCEPT
                    ![t] = IF t \in AsyncCallers THEN "queued" ELSE b]
  /\ UNCHANGED <<queue, mutex, file, datastore, unstored, ent, total,
                 timeTaken, procVars, crash>>

\* Mutant: the search does not wait for the mutex.
AddFindUnlocked(t) ==
  /\ pc[t] = "lock"
  /\ mutex' = t
  /\ ent' = [ent EXCEPT ![t] = Find(cid[t])]
  /\ Goto(t, "append")
  /\ UNCHANGED <<queue, file, datastore, unstored, cid, total, callVars,
                 procVars, crash>>

\* wantlist_queue_add takes the mutex and looks for the cid.
AddFind(t) ==
  /\ pc[t] = "lock"
  /\ mutex = Free
  /\ mutex' = t
  /\ ent' = [ent EXCEPT ![t] = Find(cid[t])]
  /\ Goto(t, "append")
  /\ UNCHANGED <<queue, file, datastore, unstored, cid, total, callVars,
                 procVars, crash>>

\* Mutant: the pointer is to the entry before the new one.
AddEntryOffByOne(t) ==
  /\ pc[t] = "append"
  /\ IF ent[t] = 0
     THEN /\ queue' = Append(queue, NewEntry(cid[t]))
          /\ ent' = [ent EXCEPT ![t] = Len(queue)]
          /\ total' = [total EXCEPT ![t] = 1]
     ELSE /\ total' = [total EXCEPT ![t] = queue[ent[t]].sessions]
          /\ UNCHANGED <<queue, ent>>
  /\ Goto(t, "session")
  /\ UNCHANGED <<mutex, file, datastore, unstored, cid, callVars, procVars,
                 crash>>

\* It appends an entry that holds the session when there is none.
AddEntry(t) ==
  /\ pc[t] = "append"
  /\ IF ent[t] = 0
     THEN /\ queue' = Append(queue, NewEntry(cid[t]))
          /\ ent' = [ent EXCEPT ![t] = Len(queue) + 1]
          /\ total' = [total EXCEPT ![t] = 1]
     ELSE /\ total' = [total EXCEPT ![t] = queue[ent[t]].sessions]
          /\ UNCHANGED <<queue, ent>>
  /\ Goto(t, "session")
  /\ UNCHANGED <<mutex, file, datastore, unstored, cid, callVars, procVars,
                 crash>>

\* Mutant: get_block_async returns with the mutex.
AddSessionKeepsLock(t) ==
  /\ pc[t] = "session"
  /\ queue' = [queue EXCEPT ![ent[t]].sessions = total[t] + 1]
  /\ IF t \in AsyncCallers
     THEN /\ Goto(t, "done")
          /\ result' = [result EXCEPT ![t] = "queued"]
          /\ UNCHANGED mutex
     ELSE Goto(t, "poll") /\ UNCHANGED result /\ mutex' = Free
  /\ total' = [total EXCEPT ![t] = 0]
  /\ UNCHANGED <<file, datastore, unstored, cid, ent, timeTaken, procVars,
                 crash>>

\* It adds the session (for a new entry, a second time) and unlocks.
\* get_block_async returns here; get_block starts to poll.
AddSession(t) ==
  /\ pc[t] = "session"
  /\ queue' = [queue EXCEPT ![ent[t]].sessions = total[t] + 1]
  /\ mutex' = Free
  /\ IF t \in AsyncCallers
     THEN Goto(t, "done") /\ result' = [result EXCEPT ![t] = "queued"]
     ELSE Goto(t, "poll") /\ UNCHANGED result
  /\ total' = [total EXCEPT ![t] = 0]
  /\ UNCHANGED <<file, datastore, unstored, cid, ent, timeTaken, procVars,
                 crash>>

\* One turn of the loop finds a block: copy it.  ipfs_cid_copy dereferences
\* the NULL cid of a block that is still being decoded.
PollFilled(t) ==
  /\ pc[t] = "poll"
  /\ queue[ent[t]].block # "NULL"
  /\ IF queue[ent[t]].block = "building"
     THEN crash' = "NULL cid" /\ UNCHANGED <<pc, result>>
     ELSE /\ result' = [result EXCEPT ![t] = queue[ent[t]].block]
          /\ Goto(t, "remove")
          /\ UNCHANGED crash
  /\ UNCHANGED <<queue, mutex, file, datastore, unstored, cid, ent, total,
                 timeTaken, procVars>>

\* Mutant: the timeout falls through to the answer of a found block.
PollEmptyFound(t) ==
  /\ pc[t] = "poll"
  /\ queue[ent[t]].block = "NULL"
  /\ timeTaken' = [timeTaken EXCEPT ![t] = @ + 1]
  /\ IF timeTaken[t] + 1 >= Timeout
     THEN Goto(t, "remove") /\ result' = [result EXCEPT ![t] = "full"]
     ELSE UNCHANGED <<pc, result>>
  /\ UNCHANGED <<queue, mutex, file, datastore, unstored, cid, ent, total,
                 procVars, crash>>

\* One turn finds none: count it, and stop looking at the timeout.
PollEmpty(t) ==
  /\ pc[t] = "poll"
  /\ queue[ent[t]].block = "NULL"
  /\ timeTaken' = [timeTaken EXCEPT ![t] = @ + 1]
  /\ IF timeTaken[t] + 1 >= Timeout
     THEN Goto(t, "remove") /\ result' = [result EXCEPT ![t] = "timeout"]
     ELSE UNCHANGED <<pc, result>>
  /\ UNCHANGED <<queue, mutex, file, datastore, unstored, cid, ent, total,
                 procVars, crash>>

\* Mutant: a session is taken out although none is left.
RemoveFindUnchecked(t) ==
  /\ pc[t] = "remove"
  /\ total' = [total EXCEPT ![t] = queue[Find(cid[t])].sessions]
  /\ Goto(t, "decrement")
  /\ UNCHANGED <<queue, mutex, file, datastore, unstored, cid, ent, callVars,
                 procVars, crash>>

\* want_manager_remove: find the entry and a session equal to ours, without
\* the mutex, ...
RemoveFind(t) ==
  /\ pc[t] = "remove"
  /\ LET i == Find(cid[t])
     IN IF queue[i].sessions = 0
        THEN Goto(t, "done") /\ UNCHANGED total
        ELSE /\ total' = [total EXCEPT ![t] = queue[i].sessions]
             /\ Goto(t, "decrement")
  /\ UNCHANGED <<queue, mutex, file, datastore, unstored, cid, ent, callVars,
                 procVars, crash>>

\* ... and delete it from the vector.  The entry stays.
RemoveDelete(t) ==
  /\ pc[t] = "decrement"
  /\ queue' = [queue EXCEPT ![Find(cid[t])].sessions = total[t] - 1]
  /\ total' = [total EXCEPT ![t] = 0]
  /\ Goto(t, "done")
  /\ UNCHANGED <<mutex, file, datastore, unstored, cid, ent, callVars,
                 procVars, crash>>

Caller(t) ==
  \/ \E c \in Cids : CallGet(t, c)
  \/ AddFind(t)
  \/ AddEntry(t)
  \/ AddSession(t)
  \/ PollFilled(t)
  \/ PollEmpty(t)
  \/ RemoveFind(t)
  \/ RemoveDelete(t)

-----------------------------------------------------------------------------
(* has_block. *)

\* blockstore Put returns 0 before it comes to the file: no memory for the
\* key or the file name, or a block that does not encode.  has_block ignores
\* the result and goes on.
PutFails(r, c) ==
  /\ pc[r] = "idle"
  /\ cid' = [cid EXCEPT ![r] = c]
  /\ unstored' = IF file[c] = Absent THEN unstored \cup {c} ELSE unstored
  /\ Goto(r, "index")
  /\ UNCHANGED <<queue, mutex, file, datastore, ent, total, callVars,
                 procVars, crash>>

\* The file cannot be opened, and fwrite dereferences the NULL that fopen
\* returned.
PutNoFile(r) ==
  /\ pc[r] = "idle"
  /\ crash' = "NULL file"
  /\ UNCHANGED <<queue, mutex, file, datastore, unstored, pc, cid, ent, total,
                 callVars, procVars>>

\* blockstore Put opens the file, which truncates it.
PutOpen(r, c) ==
  /\ pc[r] = "idle"
  /\ cid' = [cid EXCEPT ![r] = c]
  /\ file' = [file EXCEPT ![c] = {}]
  /\ unstored' = unstored \ {c}
  /\ Goto(r, "fwrite")
  /\ UNCHANGED <<queue, mutex, datastore, ent, total, callVars, procVars,
                 crash>>

PutWrite(r) ==
  /\ pc[r] = "fwrite"
  /\ file' = [file EXCEPT ![cid[r]] = @ \cup {"head"}]
  /\ Goto(r, "fclose")
  /\ UNCHANGED <<queue, mutex, datastore, unstored, cid, ent, total, callVars,
                 procVars, crash>>

PutClose(r) ==
  /\ pc[r] = "fclose"
  /\ file' = [file EXCEPT ![cid[r]] = @ \cup {"tail"}]
  /\ Goto(r, "index")
  /\ UNCHANGED <<queue, mutex, datastore, unstored, cid, ent, total, callVars,
                 procVars, crash>>

\* Mutant: a file whose write came up short is removed, as a block that was
\* never there.
PutShortUnlinks(r) ==
  /\ pc[r] \in {"fwrite", "fclose"}
  /\ file' = [file EXCEPT ![cid[r]] = Absent]
  /\ Goto(r, "index")
  /\ UNCHANGED <<queue, mutex, datastore, unstored, cid, ent, total, callVars,
                 procVars, crash>>

\* A write that comes up short: Put returns 0, which has_block ignores.
PutShort(r) ==
  /\ pc[r] \in {"fwrite", "fclose"}
  /\ Goto(r, "index")
  /\ UNCHANGED <<queue, mutex, file, datastore, unstored, cid, ent, total,
                 callVars, procVars, crash>>

\* The datastore record; a failure is ignored too.
PutIndex(r) ==
  /\ pc[r] = "index"
  /\ datastore' \in {datastore, datastore \cup {cid[r]}}
  /\ Goto(r, "notify")
  /\ UNCHANGED <<queue, mutex, file, unstored, cid, ent, total, callVars,
                 procVars, crash>>

\* Mutant: the entry that waits for the block is not given it.
NotifyNobody(r) ==
  /\ pc[r] = "notify"
  /\ IF queue = <<>> /\ mutex = Free
     THEN crash' = "NULL queue" /\ UNCHANGED <<pc, cid>>
     ELSE /\ Goto(r, "idle")
          /\ cid' = [cid EXCEPT ![r] = NoCid]
          /\ UNCHANGED crash
  /\ UNCHANGED <<queue, mutex, file, datastore, unstored, ent, total,
                 callVars, procVars>>

\* Give the block to the entry that waits for it.  wantlist->queue is NULL
\* until the first want takes the mutex, and wantlist_queue_find dereferences
\* it.
Notify(r) ==
  /\ pc[r] = "notify"
  /\ IF queue = <<>> /\ mutex = Free
     THEN crash' = "NULL queue" /\ UNCHANGED <<queue, pc, cid>>
     ELSE /\ IF Find(cid[r]) = 0
             THEN UNCHANGED queue
             ELSE queue' = [queue EXCEPT ![Find(cid[r])].block = "full"]
          /\ Goto(r, "idle")
          /\ cid' = [cid EXCEPT ![r] = NoCid]
          /\ UNCHANGED crash
  /\ UNCHANGED <<mutex, file, datastore, unstored, ent, total, callVars,
                 procVars>>

Receiver(r) ==
  \/ \E c \in Cids : PutOpen(r, c) \/ PutFails(r, c)
  \/ PutNoFile(r)
  \/ PutWrite(r)
  \/ PutClose(r)
  \/ PutShort(r)
  \/ PutIndex(r)
  \/ Notify(r)

-----------------------------------------------------------------------------
(* The wantlist processor. *)

Item == ent[Processor]

\* Mutant: the number of attempts is not looked at.
ProcPopForever ==
  /\ pc[Processor] = "idle"
  /\ mutex = Free
  /\ \E i \in 1..Len(queue) :
       Pop(i) /\ ent' = [ent EXCEPT ![Processor] = i]
  /\ Goto(Processor, "process")
  /\ UNCHANGED <<queue, mutex, file, datastore, unstored, cid, total,
                 callVars, procVars, crash>>

\* wantlist_queue_pop, and the choice the loop makes on what it returns.
ProcPop ==
  /\ pc[Processor] = "idle"
  /\ mutex = Free
  /\ \E i \in 1..Len(queue) :
       /\ Pop(i)
       /\ ent' = [ent EXCEPT ![Processor] = i]
       /\ Goto(Processor,
            IF queue[i].attempts > MaxAttempts THEN "give up" ELSE "process")
  /\ UNCHANGED <<queue, mutex, file, datastore, unstored, cid, total,
                 callVars, procVars, crash>>

\* Nothing to pop: the thread sleeps.
ProcSleep ==
  /\ pc[Processor] = "idle"
  /\ mutex = Free
  /\ ~\E i \in 1..Len(queue) : Pending(i)
  /\ UNCHANGED vars

ProcLoop ==
  /\ Goto(Processor, "idle")
  /\ ent' = [ent EXCEPT ![Processor] = 0]

\* Tried too often: remove the sessions one by one, with an index that moves
\* on while the vector shrinks.
GiveUpFind ==
  /\ pc[Processor] = "give up"
  /\ IF scan < queue[Item].sessions
     THEN /\ total' = [total EXCEPT ![Processor] = queue[Item].sessions]
          /\ Goto(Processor, "give up delete")
          /\ UNCHANGED <<ent, scan>>
     ELSE ProcLoop /\ scan' = 0 /\ UNCHANGED total
  /\ UNCHANGED <<queue, mutex, file, datastore, unstored, cid, callVars,
                 local_request, have_local, buffer, crash>>

GiveUpDelete ==
  /\ pc[Processor] = "give up delete"
  /\ queue' = [queue EXCEPT ![Item].sessions = total[Processor] - 1]
  /\ total' = [total EXCEPT ![Processor] = 0]
  /\ scan' = scan + 1
  /\ Goto(Processor, "give up")
  /\ UNCHANGED <<mutex, file, datastore, unstored, cid, ent, callVars,
                 local_request, have_local, buffer, crash>>

\* process_entry: is a local session waiting?
ProcessStart ==
  /\ pc[Processor] = "process"
  /\ local_request' = (queue[Item].sessions > 0)
  /\ Goto(Processor, "get")
  /\ UNCHANGED <<queue, mutex, file, datastore, unstored, cid, ent, total,
                 callVars, scan, have_local, buffer, crash>>

\* The blockstore's Get writes to entry->block: the decoder allocates the
\* block there before it fills it.
ProcessGet ==
  /\ pc[Processor] = "get"
  /\ IF file[queue[Item].cid] = Absent
     THEN Goto(Processor, "decide") /\ UNCHANGED <<queue, buffer>>
     ELSE /\ buffer' = file[queue[Item].cid]
          /\ queue' = [queue EXCEPT ![Item].block = "building"]
          /\ Goto(Processor, "decode")
  /\ UNCHANGED <<mutex, file, datastore, unstored, cid, ent, total, callVars,
                 scan, local_request, have_local, crash>>

\* The decoder goes through entry->block every time: if has_block has put its
\* own block there meanwhile, that is the block it fills or frees.
ProcessDecode ==
  /\ pc[Processor] = "decode"
  /\ \E b \in Decoded(buffer) :
       /\ have_local' = (b # "freed")
       /\ queue' = [queue EXCEPT ![Item].block =
                      IF b = "hollow" /\ @ = "full" THEN @ ELSE b]
  /\ buffer' = {}
  /\ Goto(Processor, "decide")
  /\ UNCHANGED <<mutex, file, datastore, unstored, cid, ent, total, callVars,
                 scan, local_request, crash>>

\* Go to the network for a block that is wanted here and not found here.
\* The router finds providers, who are then asked, or it does not.
ProcessDecide ==
  /\ pc[Processor] = "decide"
  /\ \/ /\ local_request /\ ~have_local
        /\ queue' \in {[queue EXCEPT ![Item].attempts = @ + 1],
                       [queue EXCEPT ![Item].asked_network = TRUE]}
     \/ /\ ~(local_request /\ ~have_local)
        /\ UNCHANGED queue
  /\ ProcLoop
  /\ local_request' = FALSE
  /\ have_local' = FALSE
  /\ UNCHANGED <<mutex, file, datastore, unstored, cid, total, callVars, scan,
                 buffer, crash>>

Process ==
  \/ ProcPop
  \/ ProcSleep
  \/ GiveUpFind
  \/ GiveUpDelete
  \/ ProcessStart
  \/ ProcessGet
  \/ ProcessDecode
  \/ ProcessDecide

-----------------------------------------------------------------------------
\* Once the process has died nothing moves.
Dead == crash # "no" /\ UNCHANGED vars

Next ==
  \/ /\ crash = "no"
     /\ \/ \E t \in Callers : Caller(t)
        \/ \E r \in Receivers : Receiver(r)
        \/ Process
  \/ Dead

Spec == Init /\ [][Next]_vars

\* What the operating system's scheduler gives: a thread that can take a step
\* of a call it is in takes it some time.  Nobody has to start a call, and the
\* network owes nobody a block.
CallerStep(t) == AddFind(t) \/ AddEntry(t) \/ AddSession(t) \/ PollFilled(t)
                 \/ PollEmpty(t) \/ RemoveFind(t) \/ RemoveDelete(t)
ReceiverStep(r) == PutWrite(r) \/ PutClose(r) \/ PutShort(r) \/ PutIndex(r)
                   \/ Notify(r)
Running(A) == crash = "no" /\ A

Fairness ==
  /\ \A t \in Callers : WF_vars(Running(CallerStep(t)))
  /\ \A r \in Receivers : WF_vars(Running(ReceiverStep(r)))
  /\ WF_vars(Running(Process))

FairSpec == Spec /\ Fairness

-----------------------------------------------------------------------------
(* Properties. *)

CallerPlaces == {"idle", "lock", "append", "session", "poll", "remove",
                 "decrement", "done"}
ReceiverPlaces == {"idle", "fwrite", "fclose", "index", "notify"}
ProcessorPlaces == {"idle", "process", "get", "decode", "decide", "give up",
                    "give up delete"}

PlacesOK ==
  /\ pc \in [Threads -> CallerPlaces \cup ReceiverPlaces \cup ProcessorPlaces]
  /\ \A t \in Callers : pc[t] \in CallerPlaces
  /\ \A r \in Receivers : pc[r] \in ReceiverPlaces
  /\ pc[Processor] \in ProcessorPlaces

SharedOK ==
  /\ queue \in Seq(Entries)
  /\ mutex \in Callers \cup {Free}
  /\ file \in [Cids -> Files]
  /\ datastore \in SUBSET Cids
  /\ unstored \in SUBSET Cids

LocalsOK ==
  /\ cid \in [Callers \cup Receivers -> Cids \cup {NoCid}]
  /\ \A t \in Callers \cup Receivers : pc[t] # "idle" => cid[t] \in Cids
  /\ ent \in [Threads -> Nat]
  /\ total \in [Threads -> Nat]
  /\ timeTaken \in [Callers -> Nat]
  /\ result \in [Callers -> Results]
  /\ scan \in Nat
  /\ local_request \in BOOLEAN
  /\ have_local \in BOOLEAN
  /\ buffer \in SUBSET Parts
  /\ crash \in {"no", "NULL cid", "NULL queue", "NULL file"}

\* Every variable has values of its type; the program counters are those of
\* their kind of thread, and a thread in a call has been given a cid.
TypeOK == PlacesOK /\ SharedOK /\ LocalsOK

\* However many threads ask for a block at once, the wantlist has one entry for
\* it: wantlist_queue_add searches and appends under one hold of the mutex.
UniqueEntries ==
  \A i, j \in 1..Len(queue) : queue[i].cid = queue[j].cid => i = j

\* A caller that keeps a pointer to an entry while other threads add, fill and
\* give up entries points to the entry of its own cid all along, and it is the
\* entry that want_manager_remove finds again by the cid (get_block polls
\* want_entry without the mutex).
PointsToOwnEntry ==
  \A t \in Callers :
    pc[t] \in {"session", "poll", "remove", "decrement"} =>
      ent[t] # 0 /\ ent[t] = Find(cid[t])

\* What has_block leaves behind of a block: a file, unless Put returned before
\* it made one.
Kept(c) == file[c] # Absent \/ c \in unstored

\* A waiter is never woken, and no call returns with a block, before the block
\* has a file in the blockstore, whatever becomes of the writes to the file:
\* has_block stores first and notifies last.  The one exception is a block
\* whose Put failed before it opened a file: has_block does not look at the
\* result.
StoredBeforeReturned ==
  /\ \A i \in 1..Len(queue) : queue[i].block # "NULL" => Kept(queue[i].cid)
  /\ \A t \in Callers :
       result[t] \in {"full", "hollow", "freed"} => Kept(cid[t])

\* A datastore record, which the journal takes for proof that the node has the
\* block, is only there when the blockstore has a file for the block, however
\* short; again but for a block whose Put failed before it opened a file.
IndexedAfterStored == \A c \in datastore : Kept(c)

\* The router is asked for the providers of a cid at most MaxAttempts + 1 times,
\* and an entry that was given up has never been asked of the network.
BoundedRetries ==
  \A i \in 1..Len(queue) :
    /\ queue[i].attempts <= MaxAttempts + 1
    /\ queue[i].asked_network => queue[i].attempts <= MaxAttempts

\* The entry has a whole block and the processor is not at work on it.
Settled(i) ==
  /\ queue[i].block = "full"
  /\ ~(Item = i /\ pc[Processor] \in {"process", "get", "decode"})

\* No step of any thread moves an entry or drops one, and a whole block that an
\* entry has while the processor is not at work on the entry stays there for
\* good: wantlist_queue_pop skips an entry that has a block, so the processor,
\* which decodes into entry->block, never comes back to it.  This is what lets
\* get_block poll its entry without the mutex.
KeepsEntries ==
  \A i \in 1..Len(queue) :
    /\ i <= Len(queue')
    /\ queue'[i].cid = queue[i].cid
    /\ Settled(i) => Settled(i)'

DeliveredStays == [][KeepsEntries]_vars

\* While the process lives, a caller that waits for its turn or polls comes back
\* (get_block stops looking after Timeout polls).
GetBlockTerminates ==
  \A t \in Callers : pc[t] = "lock" ~> (pc[t] = "done" \/ crash # "no")

\* A block that is completely stored while an entry wants it ends up in that
\* entry, also when it came in between get_block's look at the blockstore and
\* the entry's creation (then it is the processor that must find it).  The
\* processor comes to the entry when no entry before it is pending: an entry
\* that was given up stays the one wantlist_queue_pop returns.
StoredBlockReachesEntry ==
  \A c \in Cids :
    (/\ Find(c) # 0
     /\ file[c] = Parts
     /\ \A j \in 1..(Find(c) - 1) : ~Pending(j)) ~>
      \/ crash # "no"
      \/ \E i \in 1..Len(queue) : queue[i].cid = c /\ queue[i].block # "NULL"

-----------------------------------------------------------------------------
(* The inductive invariant behind the invariants above.  RetryInv is what    *)
(* BoundedRetries needs besides it.                                          *)

\* The mutex is held exactly between AddFind and AddSession, so an entry that
\* AddFind did not find is still not there when AddEntry appends it.
MutexInv ==
  \A t \in Callers :
    /\ (mutex = t) <=> (pc[t] \in {"append", "session"})
    /\ (pc[t] = "append" /\ ent[t] = 0)
         => \A i \in 1..Len(queue) : queue[i].cid # cid[t]

\* Pointers to entries are in bounds and lead to the right cid.
EntryInv ==
  /\ \A t \in Callers :
       \/ pc[t] \in {"session", "poll", "remove", "decrement"}
       \/ pc[t] = "append" /\ ent[t] # 0
       => ent[t] \in 1..Len(queue) /\ queue[ent[t]].cid = cid[t]
  /\ pc[Processor] # "idle" => Item \in 1..Len(queue)

\* A thread that is about to take a session out has seen one.
TotalInv ==
  /\ \A t \in Callers : pc[t] = "decrement" => total[t] > 0
  /\ pc[Processor] = "give up delete" => total[Processor] > 0

\* A thread that fills an entry works on a cid that has a file, or on one whose
\* Put failed before it made a file.
FileInv ==
  /\ \A r \in Receivers :
       /\ pc[r] # "idle" => Kept(cid[r])
       /\ pc[r] \in {"fwrite", "fclose"} => file[cid[r]] # Absent
  /\ pc[Processor] = "decode" => file[queue[Item].cid] # Absent

\* The entry the processor works on has attempts left and was not asked for;
\* nobody else counts attempts or marks an entry as asked for.
RetryInv ==
  pc[Processor] \in {"process", "get", "decode", "decide"} =>
    queue[Item].attempts <= MaxAttempts /\ ~queue[Item].asked_network

\* A call has its answer exactly when it has left the loop.
ResultInv ==
  \A t \in Callers :
    /\ (result[t] = "none")
         <=> (pc[t] \in {"idle", "lock", "append", "session", "poll"})
    /\ t \in AsyncCallers => pc[t] # "poll"
    /\ pc[t] = "idle" => cid[t] = NoCid

IInv ==
  /\ TypeOK
  /\ UniqueEntries
  /\ StoredBeforeReturned
  /\ IndexedAfterStored
  /\ MutexInv
  /\ EntryInv
  /\ TotalInv
  /\ FileInv
  /\ ResultInv

-----------------------------------------------------------------------------
(* What comments of the code say and the code does not do. *)

\* bitswap.h and exchange.h: when get_block returns true the caller has the
\* block it asked for.
ReturnsTheBlock == \A t \in Callers : result[t] \notin {"hollow", "freed"}

\* bitswap.c: "add the block to the blockstore", then "add it to the datastore".
\* A record has a file, also when the blockstore could not take the block.
RecordHasFile == \A c \in datastore : file[c] # Absent

\* exchange.h: GetBlock gives the block to the caller that waits for it.  A
\* block that has_block has put in an entry is not taken back.
NeverTakenBack ==
  [][\A i \in 1..Len(queue) :
       queue[i].block = "full" => queue'[i].block = "full"]_vars

\* exchange.h: HasBlock announces a block, whenever it comes.
HasBlockIsSafe == crash # "NULL queue"

\* exchange.h: GetBlock reports true or false; polling an entry that the
\* processor fills does not end the process.
PollingIsSafe == crash # "NULL cid"

\* engine.c: "if there is something on the queue process it".  Every entry is
\* looked at in the end, whatever became of the entries before it.
EveryEntryIsTried ==
  \A c \in Cids :
    Find(c) # 0 ~>
      \E i \in 1..Len(queue) :
        /\ queue[i].cid = c
        /\ \/ queue[i].block # "NULL"
           \/ queue[i].asked_network
           \/ queue[i].attempts > 0

\* want_manager.h: the wantlist is reference counted.  Callers that have all
\* come back leave no reference behind.
LastCallerReleases ==
  (\A t \in Callers : t \in GetCallers /\ pc[t] = "done")
    => \A i \in 1..Len(queue) : queue[i].sessions = 0

\* want_manager.h: a reference that is given up is not the one another caller
\* holds: a caller that polls keeps its entry wanted until the processor gives
\* the entry up.
WaiterKeepsReference ==
  \A t \in GetCallers :
    /\ pc[t] = "poll"
    /\ queue[ent[t]].attempts <= MaxAttempts
    => queue[ent[t]].sessions > 0

-----------------------------------------------------------------------------
(* The wantlist implements the exchange that exchange.h promises. *)

Status(t) ==
  CASE result[t] \in {"full", "hollow", "freed"} -> "found"
    [] result[t] \in {"timeout", "queued"} -> result[t]
    [] OTHER -> IF pc[t] = "idle" THEN "idle" ELSE "waiting"

Statuses  == [t \in Callers |-> Status(t)]
Wants     == [t \in Callers |-> cid[t]]
Available == {c \in Cids : Kept(c)}

Exchange == INSTANCE BlockExchange WITH
  status <- Statuses, want <- Wants, available <- Available

\* Every call on the exchange gets one answer, for the cid of the call, and the
\* answer is "found" only for a block that has reached the node; a get_block
\* gives up and a get_block_async returns without an answer.
ImplementsExchange == Exchange!Spec
=============================================================================
