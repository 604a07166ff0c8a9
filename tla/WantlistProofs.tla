--------------------------- MODULE WantlistProofs ---------------------------
(***************************************************************************)
(* Proofs about Wantlist, for any sets of threads and cids and any bounds. *)
(*                                                                         *)
(* The invariants are not inductive alone.  UniqueEntries needs MutexInv:  *)
(* between a search that finds nothing and the append nobody else appends. *)
(* PointsToOwnEntry needs EntryInv, and StoredBeforeReturned needs FileInv *)
(* (a thread that fills an entry has a file for it, or its Put failed) and *)
(* ResultInv.  IInv is their conjunction.  On top of it: what a step may   *)
(* do to an entry (DeliveredStays), the bound on the attempts              *)
(* (BoundedRetries, with RetryInv), and the refinement of BlockExchange.   *)
(***************************************************************************)
EXTENDS Wantlist, SequenceTheorems, TLAPS

USE DEF Kept

\* Writing one entry leaves the queue's length and its other entries alone.
LEMMA UpdateEntry ==
  ASSUME NEW q \in Seq(Entries), NEW i \in 1..Len(q), NEW e \in Entries
  PROVE  /\ [q EXCEPT ![i] = e] \in Seq(Entries)
         /\ Len([q EXCEPT ![i] = e]) = Len(q)
         /\ [q EXCEPT ![i] = e][i] = e
         /\ \A j \in 1..Len(q) : j # i => [q EXCEPT ![i] = e][j] = q[j]
  BY ExceptSeq

\* wantlist_queue_add's append keeps the entries that are there.
LEMMA AppendEntry ==
  ASSUME NEW q \in Seq(Entries), NEW e \in Entries
  PROVE  /\ Append(q, e) \in Seq(Entries)
         /\ Len(Append(q, e)) = Len(q) + 1
         /\ \A j \in 1..Len(q) : Append(q, e)[j] = q[j]
         /\ Append(q, e)[Len(q) + 1] = e
  BY AppendProperties

\* What process_entry does to an entry when the router finds nobody.
LEMMA EntryTried ==
  ASSUME NEW e \in Entries
  PROVE  /\ [e EXCEPT !.attempts = @ + 1] \in Entries
         /\ [e EXCEPT !.attempts = @ + 1].cid = e.cid
         /\ [e EXCEPT !.attempts = @ + 1].block = e.block
  BY DEF Entries

\* What process_entry does to an entry when providers were asked.
LEMMA EntryAsked ==
  ASSUME NEW e \in Entries
  PROVE  /\ [e EXCEPT !.asked_network = TRUE] \in Entries
         /\ [e EXCEPT !.asked_network = TRUE].cid = e.cid
         /\ [e EXCEPT !.asked_network = TRUE].block = e.block
  BY DEF Entries

\* fopen "wb" makes an empty file, and a write to a file leaves a file.
LEMMA PartOfFile ==
  /\ {} \in Files /\ {} # Absent
  /\ \A f \in Files, p \in Parts :
       f # Absent => f \cup {p} \in Files /\ f \cup {p} # Absent
  BY DEF Files, Absent, Parts

\* wantlist_queue_find returns the one entry of a cid, or NULL when the queue
\* has none.
LEMMA FindProperties ==
  ASSUME queue \in Seq(Entries), UniqueEntries, NEW c
  PROVE  /\ Find(c) \in 0..Len(queue)
         /\ Find(c) = 0 <=> \A i \in 1..Len(queue) : queue[i].cid # c
         /\ \A i \in 1..Len(queue) : queue[i].cid = c => Find(c) = i
  <1>0. Len(queue) \in Nat
    BY LenProperties
  <1>1. CASE \E i \in 1..Len(queue) : queue[i].cid = c
    <2>1. PICK i \in 1..Len(queue) : queue[i].cid = c
      BY <1>1
    <2>2. \A j \in 1..Len(queue) : queue[j].cid = c => j = i
      BY <2>1 DEF UniqueEntries
    <2>3. queue[i].cid = c /\ \A j \in 1..(i-1) : queue[j].cid # c
      BY <1>0, <2>1, <2>2
    <2>4. Find(c) \in 1..Len(queue) /\ queue[Find(c)].cid = c
      BY <1>1, <2>3 DEF Find
    <2>5. QED
      BY <1>0, <2>1, <2>2, <2>4
  <1>2. CASE ~\E i \in 1..Len(queue) : queue[i].cid = c
    BY <1>0, <1>2 DEF Find
  <1>3. QED
    BY <1>1, <1>2

\* The engine starts in a state that satisfies the inductive invariant.
LEMMA InitIInv == Init => IInv
  <1> SUFFICES ASSUME Init PROVE IInv
    OBVIOUS
  <1> USE DEF Init
  <1>1. queue \in Seq(Entries) /\ Len(queue) = 0
    BY EmptySeq
  <1>2. file \in [Cids -> Files] /\ buffer \in SUBSET Parts
    BY DEF Files, Absent, Parts
  <1>3. IndexedAfterStored
    BY DEF IndexedAfterStored, Absent, Parts
  <1>4. PlacesOK /\ \A t \in Threads : pc[t] = "idle"
    BY DEF PlacesOK, CallerPlaces, ReceiverPlaces, ProcessorPlaces, Threads
  <1>5. mutex \in Callers \cup {Free} /\ \A t \in Callers : mutex # t
    BY ThreadAssumption DEF Threads
  <1>6. SharedOK /\ LocalsOK
    BY <1>1, <1>2, <1>4, <1>5 DEF SharedOK, LocalsOK, Threads, Results
  <1>7. UniqueEntries /\ StoredBeforeReturned
    BY <1>1 DEF UniqueEntries, StoredBeforeReturned
  <1>8. MutexInv /\ EntryInv /\ TotalInv /\ FileInv /\ ResultInv
    BY <1>1, <1>4, <1>5 DEF MutexInv, EntryInv, TotalInv, FileInv, ResultInv,
       Threads, Callers
  <1>9. QED
    BY <1>3, <1>4, <1>6, <1>7, <1>8 DEF IInv, TypeOK

\* Every step of every thread preserves the inductive invariant: one step of
\* the proof per action, and under it one per conjunct.
LEMMA StepIInv == IInv /\ [Next]_vars => IInv'
  <1> SUFFICES ASSUME IInv, [Next]_vars PROVE IInv'
    OBVIOUS
  <1>0. /\ queue \in Seq(Entries)
        /\ Len(queue) \in Nat
        /\ \A i \in 1..Len(queue) : queue[i] \in Entries
    BY LenProperties, ElementOfSeq DEF IInv, TypeOK, SharedOK
  <1>l. Len(queue) \in Nat
    BY <1>0
  <1>t. /\ pc \in [Threads -> CallerPlaces \cup ReceiverPlaces \cup ProcessorPlaces]
        /\ ent \in [Threads -> Nat]
        /\ total \in [Threads -> Nat]
        /\ scan \in Nat
    BY DEF IInv, TypeOK, PlacesOK, LocalsOK
  <1>a. /\ \A t \in Callers : t \in Threads /\ t # Processor /\ t # Free /\ t \notin Receivers
        /\ \A r \in Receivers : r \in Threads /\ r # Processor /\ r \notin Callers
        /\ Processor \in Threads /\ Processor \notin Receivers \cup Callers
        /\ AsyncCallers \subseteq Callers
        /\ Free \notin Callers
    BY ThreadAssumption DEF Threads, Callers
  <1>f. ASSUME NEW c
        PROVE  /\ Find(c) \in 0..Len(queue)
               /\ Find(c) = 0 <=> \A i \in 1..Len(queue) : queue[i].cid # c
               /\ \A i \in 1..Len(queue) : queue[i].cid = c => Find(c) = i
    BY <1>0, FindProperties DEF IInv
  <1>1. ASSUME NEW t \in Callers, crash = "no", AddFind(t) PROVE IInv'
    <2> USE <1>0, <1>a, <1>1 DEF IInv, AddFind, Goto, callVars, procVars
    <2>f. /\ Find(cid[t]) \in 0..Len(queue)
          /\ Find(cid[t]) = 0 <=> \A i \in 1..Len(queue) : queue[i].cid # cid[t]
          /\ \A i \in 1..Len(queue) : queue[i].cid = cid[t] => Find(cid[t]) = i
      BY <1>f
    <2>1. PlacesOK'
      BY DEF TypeOK, PlacesOK, CallerPlaces, ReceiverPlaces, ProcessorPlaces
    <2>2. SharedOK'
      BY DEF TypeOK, SharedOK
    <2>3. LocalsOK'
      BY <2>f DEF TypeOK, PlacesOK, SharedOK, LocalsOK, Results
    <2>4. (UniqueEntries /\ StoredBeforeReturned /\ IndexedAfterStored)'
      BY DEF TypeOK, PlacesOK, SharedOK, LocalsOK, UniqueEntries,
         StoredBeforeReturned, IndexedAfterStored
    <2>5. MutexInv'
      BY <2>f DEF TypeOK, PlacesOK, SharedOK, LocalsOK, MutexInv
    <2>6. (EntryInv /\ TotalInv)'
      BY <2>f DEF TypeOK, PlacesOK, SharedOK, LocalsOK, EntryInv, TotalInv,
         Item, ProcessorPlaces
    <2>7. FileInv'
      BY DEF TypeOK, PlacesOK, SharedOK, LocalsOK, FileInv, Item
    <2>8. ResultInv'
      BY DEF TypeOK, PlacesOK, SharedOK, LocalsOK, ResultInv
    <2>9. QED
      BY <2>1, <2>2, <2>3, <2>4, <2>5, <2>6, <2>7, <2>8 DEF IInv, TypeOK
  <1>2. ASSUME NEW t \in Callers, crash = "no", PollFilled(t) PROVE IInv'
    <2> USE <1>0, <1>a, <1>2 DEF IInv, PollFilled, Goto, callVars, procVars
    <2>b. /\ queue[ent[t]].block \in Blocks
          /\ Kept(queue[ent[t]].cid)
          /\ queue[ent[t]].cid = cid[t]
      BY DEF EntryInv, Entries, StoredBeforeReturned
    <2>1. PlacesOK'
      BY DEF TypeOK, PlacesOK, CallerPlaces, ReceiverPlaces, ProcessorPlaces
    <2>2. SharedOK'
      BY DEF TypeOK, SharedOK
    <2>3. LocalsOK'
      BY <2>b DEF TypeOK, PlacesOK, SharedOK, LocalsOK, Results, Blocks
    <2>4. (UniqueEntries /\ StoredBeforeReturned /\ IndexedAfterStored)'
      BY <2>b DEF TypeOK, PlacesOK, SharedOK, LocalsOK, UniqueEntries,
         StoredBeforeReturned, IndexedAfterStored, Blocks
    <2>5. MutexInv'
      BY DEF TypeOK, PlacesOK, SharedOK, LocalsOK, MutexInv
    <2>6. (EntryInv /\ TotalInv)'
      BY DEF TypeOK, PlacesOK, SharedOK, LocalsOK, EntryInv, TotalInv, Item,
         ProcessorPlaces
    <2>7. FileInv'
      BY DEF TypeOK, PlacesOK, SharedOK, LocalsOK, FileInv, Item
    <2>8. ResultInv'
      BY <2>b DEF TypeOK, PlacesOK, SharedOK, LocalsOK, ResultInv, Blocks
    <2>9. QED
      BY <2>1, <2>2, <2>3, <2>4, <2>5, <2>6, <2>7, <2>8 DEF IInv, TypeOK
  <1>3. ASSUME NEW t \in Callers, crash = "no", PollEmpty(t) PROVE IInv'
    <2> USE <1>0, <1>a, <1>3 DEF IInv, PollEmpty, Goto, callVars, procVars
    <2>1. PlacesOK'
      BY DEF TypeOK, PlacesOK, CallerPlaces, ReceiverPlaces, ProcessorPlaces
    <2>2. SharedOK'
      BY DEF TypeOK, SharedOK
    <2>3. LocalsOK'
      <3>1. timeTaken' \in [Callers -> Nat]
        BY DEF TypeOK, LocalsOK
      <3>2. result' \in [Callers -> Results]
        BY DEF TypeOK, LocalsOK, Results
      <3>3. \A u \in Callers \cup Receivers : pc'[u] # "idle" => cid[u] \in Cids
        BY DEF TypeOK, PlacesOK, LocalsOK
      <3> QED
        BY <3>1, <3>2, <3>3 DEF TypeOK, PlacesOK, LocalsOK
    <2>4. (UniqueEntries /\ StoredBeforeReturned /\ IndexedAfterStored)'
      BY DEF TypeOK, PlacesOK, SharedOK, LocalsOK, UniqueEntries,
         StoredBeforeReturned, IndexedAfterStored
    <2>5. MutexInv'
      BY DEF TypeOK, PlacesOK, SharedOK, LocalsOK, MutexInv
    <2>6. (EntryInv /\ TotalInv)'
      BY DEF TypeOK, PlacesOK, SharedOK, LocalsOK, EntryInv, TotalInv, Item,
         ProcessorPlaces
    <2>7. FileInv'
      BY DEF TypeOK, PlacesOK, SharedOK, LocalsOK, FileInv, Item
    <2>8. ResultInv'
      BY DEF TypeOK, PlacesOK, SharedOK, LocalsOK, ResultInv
    <2>9. QED
      BY <2>1, <2>2, <2>3, <2>4, <2>5, <2>6, <2>7, <2>8 DEF IInv, TypeOK
  <1>4. ASSUME NEW t \in Callers, crash = "no", RemoveFind(t) PROVE IInv'
    <2> USE <1>0, <1>a, <1>4 DEF IInv, RemoveFind, Goto, callVars, procVars
    <2>f. Find(cid[t]) = ent[t] /\ ent[t] \in 1..Len(queue)
      BY <1>f DEF EntryInv
    <2>g. queue[ent[t]].sessions \in Nat
      BY <2>f DEF Entries
    <2>1. PlacesOK'
      BY DEF TypeOK, PlacesOK, CallerPlaces, ReceiverPlaces, ProcessorPlaces
    <2>2. SharedOK'
      BY DEF TypeOK, SharedOK
    <2>3. LocalsOK'
      <3>1. total' \in [Threads -> Nat]
        BY <2>f, <2>g DEF TypeOK, LocalsOK
      <3>2. \A u \in Callers \cup Receivers : pc'[u] # "idle" => cid[u] \in Cids
        BY DEF TypeOK, PlacesOK, LocalsOK
      <3> QED
        BY <3>1, <3>2 DEF TypeOK, LocalsOK
    <2>4. (UniqueEntries /\ StoredBeforeReturned /\ IndexedAfterStored)'
      BY DEF TypeOK, PlacesOK, SharedOK, LocalsOK, UniqueEntries,
         StoredBeforeReturned, IndexedAfterStored
    <2>5. MutexInv'
      BY DEF TypeOK, PlacesOK, SharedOK, LocalsOK, MutexInv
    <2>6. (EntryInv /\ TotalInv)'
      <3>1. pc'[t] = "decrement" => total'[t] > 0
        <4>1. CASE queue[ent[t]].sessions = 0
          BY <4>1, <2>f, <2>g DEF TypeOK, PlacesOK, LocalsOK
        <4>2. CASE ~(queue[ent[t]].sessions = 0)
          BY <4>2, <2>f, <2>g DEF TypeOK, PlacesOK, LocalsOK
        <4> QED
          BY <4>1, <4>2
      <3>2. \A u \in Callers \ {t} : pc'[u] = pc[u] /\ total'[u] = total[u]
        BY DEF TypeOK, PlacesOK, LocalsOK
      <3>8. EntryInv'
        BY <3>1, <3>2, <2>f, <2>g DEF TypeOK, PlacesOK, SharedOK, LocalsOK,
           EntryInv, Item
      <3>9. TotalInv'
        BY <3>1, <3>2, <2>f, <2>g DEF TypeOK, PlacesOK, SharedOK, LocalsOK,
           TotalInv
      <3> QED
        BY <3>8, <3>9
    <2>7. FileInv'
      BY DEF TypeOK, PlacesOK, SharedOK, LocalsOK, FileInv, Item
    <2>8. ResultInv'
      BY DEF TypeOK, PlacesOK, SharedOK, LocalsOK, ResultInv
    <2>9. QED
      BY <2>1, <2>2, <2>3, <2>4, <2>5, <2>6, <2>7, <2>8 DEF IInv, TypeOK
  <1>5. ASSUME NEW r \in Receivers, crash = "no", PutShort(r) PROVE IInv'
    <2> USE <1>0, <1>a, <1>5 DEF IInv, PutShort, Goto, callVars, procVars
    <2>1. PlacesOK'
      BY DEF TypeOK, PlacesOK, CallerPlaces, ReceiverPlaces, ProcessorPlaces
    <2>2. SharedOK'
      BY DEF TypeOK, SharedOK
    <2>3. LocalsOK'
      BY DEF TypeOK, PlacesOK, SharedOK, LocalsOK, Results
    <2>4. (UniqueEntries /\ StoredBeforeReturned /\ IndexedAfterStored)'
      BY DEF TypeOK, PlacesOK, SharedOK, LocalsOK, UniqueEntries,
         StoredBeforeReturned, IndexedAfterStored
    <2>5. MutexInv'
      BY DEF TypeOK, PlacesOK, SharedOK, LocalsOK, MutexInv
    <2>6. (EntryInv /\ TotalInv)'
      BY DEF TypeOK, PlacesOK, SharedOK, LocalsOK, EntryInv, TotalInv, Item,
         ProcessorPlaces
    <2>7. FileInv'
      BY DEF TypeOK, PlacesOK, SharedOK, LocalsOK, FileInv, Item
    <2>8. ResultInv'
      BY DEF TypeOK, PlacesOK, SharedOK, LocalsOK, ResultInv
    <2>9. QED
      BY <2>1, <2>2, <2>3, <2>4, <2>5, <2>6, <2>7, <2>8 DEF IInv, TypeOK
  <1>6. ASSUME NEW r \in Receivers, crash = "no", PutIndex(r) PROVE IInv'
    <2> USE <1>0, <1>a, <1>6 DEF IInv, PutIndex, Goto, callVars, procVars
    <2>1. PlacesOK'
      BY DEF TypeOK, PlacesOK, CallerPlaces, ReceiverPlaces, ProcessorPlaces
    <2>2. SharedOK'
      BY DEF TypeOK, SharedOK, LocalsOK
    <2>3. LocalsOK'
      BY DEF TypeOK, PlacesOK, SharedOK, LocalsOK, Results
    <2>4. (UniqueEntries /\ StoredBeforeReturned /\ IndexedAfterStored)'
      BY DEF TypeOK, PlacesOK, SharedOK, LocalsOK, UniqueEntries,
         StoredBeforeReturned, IndexedAfterStored, FileInv
    <2>5. MutexInv'
      BY DEF TypeOK, PlacesOK, SharedOK, LocalsOK, MutexInv
    <2>6. (EntryInv /\ TotalInv)'
      BY DEF TypeOK, PlacesOK, SharedOK, LocalsOK, EntryInv, TotalInv, Item,
         ProcessorPlaces
    <2>7. FileInv'
      BY DEF TypeOK, PlacesOK, SharedOK, LocalsOK, FileInv, Item
    <2>8. ResultInv'
      BY DEF TypeOK, PlacesOK, SharedOK, LocalsOK, ResultInv
    <2>9. QED
      BY <2>1, <2>2, <2>3, <2>4, <2>5, <2>6, <2>7, <2>8 DEF IInv, TypeOK
  <1>7. ASSUME crash = "no", ProcPop PROVE IInv'
    <2>e. PICK k \in 1..Len(queue) : ent' = [ent EXCEPT ![Processor] = k]
      BY <1>7 DEF ProcPop
    <2>k. k \in Nat
      BY <1>l
    <2>t. ent' \in [Threads -> Nat]
      BY <1>t, <2>e, <2>k
    <2> USE <1>0, <1>a, <1>7 DEF IInv, ProcPop, Goto, callVars, procVars
    <2>1. PlacesOK'
      BY DEF TypeOK, PlacesOK, CallerPlaces, ReceiverPlaces, ProcessorPlaces
    <2>2. SharedOK'
      BY DEF TypeOK, SharedOK
    <2>3. LocalsOK'
      <3>1. \A u \in Callers \cup Receivers : pc'[u] = pc[u]
        BY DEF TypeOK, PlacesOK
      <3> QED
        BY <2>t, <3>1 DEF TypeOK, PlacesOK, LocalsOK
    <2>4. (UniqueEntries /\ StoredBeforeReturned /\ IndexedAfterStored)'
      BY DEF TypeOK, PlacesOK, SharedOK, LocalsOK, UniqueEntries,
         StoredBeforeReturned, IndexedAfterStored
    <2>5. MutexInv'
      BY DEF TypeOK, PlacesOK, SharedOK, LocalsOK, MutexInv
    <2>6. (EntryInv /\ TotalInv)'
      BY DEF TypeOK, PlacesOK, SharedOK, LocalsOK, EntryInv, TotalInv, Item,
         ProcessorPlaces
    <2>7. FileInv'
      BY DEF TypeOK, PlacesOK, SharedOK, LocalsOK, FileInv, Item
    <2>8. ResultInv'
      BY DEF TypeOK, PlacesOK, SharedOK, LocalsOK, ResultInv
    <2>9. QED
      BY <2>1, <2>2, <2>3, <2>4, <2>5, <2>6, <2>7, <2>8 DEF IInv, TypeOK
  <1>8. ASSUME crash = "no", ProcSleep PROVE IInv'
    <2> USE <1>0, <1>a, <1>8 DEF IInv, ProcSleep, Goto, callVars, procVars, vars
    <2>1. PlacesOK'
      BY DEF TypeOK, PlacesOK, CallerPlaces, ReceiverPlaces, ProcessorPlaces
    <2>2. SharedOK'
      BY DEF TypeOK, SharedOK
    <2>3. LocalsOK'
      BY DEF TypeOK, PlacesOK, SharedOK, LocalsOK, Results
    <2>4. (UniqueEntries /\ StoredBeforeReturned /\ IndexedAfterStored)'
      BY DEF TypeOK, PlacesOK, SharedOK, LocalsOK, UniqueEntries,
         StoredBeforeReturned, IndexedAfterStored
    <2>5. MutexInv'
      BY DEF TypeOK, PlacesOK, SharedOK, LocalsOK, MutexInv
    <2>6. (EntryInv /\ TotalInv)'
      BY DEF TypeOK, PlacesOK, SharedOK, LocalsOK, EntryInv, TotalInv, Item,
         ProcessorPlaces
    <2>7. FileInv'
      BY DEF TypeOK, PlacesOK, SharedOK, LocalsOK, FileInv, Item
    <2>8. ResultInv'
      BY DEF TypeOK, PlacesOK, SharedOK, LocalsOK, ResultInv
    <2>9. QED
      BY <2>1, <2>2, <2>3, <2>4, <2>5, <2>6, <2>7, <2>8 DEF IInv, TypeOK
  <1>9. ASSUME crash = "no", GiveUpFind PROVE IInv'
    <2>g. Item \in 1..Len(queue) /\ queue[Item].sessions \in Nat /\ scan \in Nat
      BY <1>0, <1>9 DEF IInv, TypeOK, LocalsOK, EntryInv, Entries, GiveUpFind
    <2>i. \/ /\ scan < queue[Item].sessions
             /\ total' = [total EXCEPT ![Processor] = queue[Item].sessions]
             /\ ent' = ent /\ scan' = scan
          \/ /\ pc' = [pc EXCEPT ![Processor] = "idle"]
             /\ ent' = [ent EXCEPT ![Processor] = 0] /\ scan' = 0 /\ total' = total
      BY <1>9 DEF GiveUpFind, ProcLoop, Goto
    <2>t. ent' \in [Threads -> Nat] /\ total' \in [Threads -> Nat] /\ scan' \in Nat
      BY <1>t, <2>g, <2>i
    <2>k. scan < queue[Item].sessions => queue[Item].sessions > 0
      BY <2>g
    <2>j. /\ pc'[Processor] # "idle" => ent'[Processor] \in 1..Len(queue)
          /\ pc'[Processor] = "give up delete" => total'[Processor] > 0
      BY <1>a, <1>t, <2>g, <2>i, <2>k DEF Item
    <2> USE <1>0, <1>a, <1>9 DEF IInv, GiveUpFind, Goto, callVars, procVars, ProcLoop
    <2>h. \A u \in Callers \cup Receivers : pc'[u] = pc[u] /\ ent'[u] = ent[u] /\ total'[u] = total[u]
      BY DEF TypeOK, PlacesOK, LocalsOK
    <2>1. PlacesOK'
      BY DEF TypeOK, PlacesOK, CallerPlaces, ReceiverPlaces, ProcessorPlaces
    <2>2. SharedOK'
      BY DEF TypeOK, SharedOK
    <2>3. LocalsOK'
      <3>1. \A u \in Callers \cup Receivers : pc'[u] # "idle" => cid[u] \in Cids
        BY <2>h DEF TypeOK, PlacesOK, LocalsOK
      <3> QED
        BY <2>t, <3>1 DEF TypeOK, PlacesOK, LocalsOK
    <2>4. (UniqueEntries /\ StoredBeforeReturned /\ IndexedAfterStored)'
      BY DEF TypeOK, PlacesOK, SharedOK, LocalsOK, UniqueEntries,
         StoredBeforeReturned, IndexedAfterStored
    <2>5. MutexInv'
      BY DEF TypeOK, PlacesOK, SharedOK, LocalsOK, MutexInv
    <2>6. (EntryInv /\ TotalInv)'
      <3>8. EntryInv'
        BY <2>h, <2>j DEF TypeOK, PlacesOK, SharedOK, LocalsOK, EntryInv, Item
      <3>9. TotalInv'
        BY <2>h, <2>j DEF TypeOK, PlacesOK, SharedOK, LocalsOK, TotalInv
      <3> QED
        BY <3>8, <3>9
    <2>7. FileInv'
      BY DEF TypeOK, PlacesOK, SharedOK, LocalsOK, FileInv, Item
    <2>8. ResultInv'
      BY DEF TypeOK, PlacesOK, SharedOK, LocalsOK, ResultInv
    <2>9. QED
      BY <2>1, <2>2, <2>3, <2>4, <2>5, <2>6, <2>7, <2>8 DEF IInv, TypeOK
  <1>10. ASSUME crash = "no", ProcessStart PROVE IInv'
    <2> USE <1>0, <1>a, <1>10 DEF IInv, ProcessStart, Goto, callVars, procVars
    <2>1. PlacesOK'
      BY DEF TypeOK, PlacesOK, CallerPlaces, ReceiverPlaces, ProcessorPlaces
    <2>2. SharedOK'
      BY DEF TypeOK, SharedOK
    <2>3. LocalsOK'
      BY DEF TypeOK, PlacesOK, SharedOK, LocalsOK, Results
    <2>4. (UniqueEntries /\ StoredBeforeReturned /\ IndexedAfterStored)'
      BY DEF TypeOK, PlacesOK, SharedOK, LocalsOK, UniqueEntries,
         StoredBeforeReturned, IndexedAfterStored
    <2>5. MutexInv'
      BY DEF TypeOK, PlacesOK, SharedOK, LocalsOK, MutexInv
    <2>6. (EntryInv /\ TotalInv)'
      BY DEF TypeOK, PlacesOK, SharedOK, LocalsOK, EntryInv, TotalInv, Item,
         ProcessorPlaces
    <2>7. FileInv'
      BY DEF TypeOK, PlacesOK, SharedOK, LocalsOK, FileInv, Item
    <2>8. ResultInv'
      BY DEF TypeOK, PlacesOK, SharedOK, LocalsOK, ResultInv
    <2>9. QED
      BY <2>1, <2>2, <2>3, <2>4, <2>5, <2>6, <2>7, <2>8 DEF IInv, TypeOK
  <1>11. ASSUME NEW t \in Callers, NEW c \in Cids, crash = "no", CallGet(t, c) PROVE IInv'
    <2> USE <1>0, <1>a, <1>11 DEF IInv, CallGet, Goto, callVars, procVars
    <2>c. cid'[t] = c /\ \A u \in (Callers \cup Receivers) \ {t} : cid'[u] = cid[u]
      BY DEF TypeOK, LocalsOK
    <2>r. /\ \A u \in Callers \ {t} : result'[u] = result[u] /\ pc'[u] = pc[u]
          /\ \/ result'[t] = "none" /\ pc'[t] = "lock"
             \/ result'[t] \in {"queued", "full", "hollow"} /\ pc'[t] = "done" /\ file[c] # Absent
      <3>1. result[t] = "none"
        BY DEF ResultInv
      <3>2. CASE file[c] = Absent /\ Goto(t, "lock") /\ UNCHANGED result
        BY <3>1, <3>2 DEF TypeOK, PlacesOK, LocalsOK
      <3>3. ASSUME NEW b \in Decoded(file[c]),
                   IF b = "freed"
                   THEN Goto(t, "lock") /\ UNCHANGED result
                   ELSE /\ Goto(t, "done")
                        /\ result' = [result EXCEPT
                             ![t] = IF t \in AsyncCallers THEN "queued" ELSE b]
            PROVE /\ \A u \in Callers \ {t} : result'[u] = result[u] /\ pc'[u] = pc[u]
                  /\ \/ result'[t] = "none" /\ pc'[t] = "lock"
                     \/ result'[t] \in {"queued", "full", "hollow"} /\ pc'[t] = "done" /\ file[c] # Absent
        <4>1. b \in {"full", "hollow", "freed"} /\ file[c] # Absent
          BY <3>3 DEF Decoded, Parts, Absent
        <4> QED
          BY <3>1, <3>3, <4>1 DEF TypeOK, PlacesOK, LocalsOK
      <3> QED
        BY <3>2, <3>3
    <2>1. PlacesOK'
      BY DEF TypeOK, PlacesOK, CallerPlaces, ReceiverPlaces, ProcessorPlaces
    <2>2. SharedOK'
      BY DEF TypeOK, SharedOK
    <2>3. LocalsOK'
      BY DEF TypeOK, PlacesOK, SharedOK, LocalsOK, Results, Decoded
    <2>4. (UniqueEntries /\ StoredBeforeReturned /\ IndexedAfterStored)'
      BY <2>c, <2>r DEF TypeOK, PlacesOK, SharedOK, LocalsOK, UniqueEntries,
         StoredBeforeReturned, IndexedAfterStored
    <2>5. MutexInv'
      BY DEF TypeOK, PlacesOK, SharedOK, LocalsOK, MutexInv
    <2>6. (EntryInv /\ TotalInv)'
      BY DEF TypeOK, PlacesOK, SharedOK, LocalsOK, EntryInv, TotalInv, Item,
         ProcessorPlaces
    <2>7. FileInv'
      BY DEF TypeOK, PlacesOK, SharedOK, LocalsOK, FileInv, Item
    <2>8. ResultInv'
      BY <2>c, <2>r DEF TypeOK, PlacesOK, SharedOK, LocalsOK, ResultInv
    <2>9. QED
      BY <2>1, <2>2, <2>3, <2>4, <2>5, <2>6, <2>7, <2>8 DEF IInv, TypeOK
  <1>12. ASSUME NEW t \in Callers, crash = "no", AddSession(t) PROVE IInv'
    <2>i. ent[t] \in 1..Len(queue)
      BY <1>12 DEF IInv, EntryInv, AddSession
    <2>v. total[t] + 1 \in Nat
      BY <1>t, <1>a
    <2>e. /\ [queue[ent[t]] EXCEPT !.sessions = total[t] + 1] \in Entries
          /\ [queue[ent[t]] EXCEPT !.sessions = total[t] + 1].cid = queue[ent[t]].cid
          /\ [queue[ent[t]] EXCEPT !.sessions = total[t] + 1].block = queue[ent[t]].block
      BY <1>0, <2>i, <2>v DEF Entries
    <2>w. queue' = [queue EXCEPT ![ent[t]] =
                     [queue[ent[t]] EXCEPT !.sessions = total[t] + 1]]
      BY <1>12 DEF AddSession
    <2>q. /\ queue' \in Seq(Entries) /\ Len(queue') = Len(queue)
          /\ \A j \in 1..Len(queue) :
               queue'[j].cid = queue[j].cid /\ queue'[j].block = queue[j].block
      BY <1>0, <2>i, <2>e, <2>w, UpdateEntry
    <2> USE <1>0, <1>a, <1>12 DEF IInv, AddSession, Goto, callVars, procVars
    <2>1. PlacesOK'
      BY DEF TypeOK, PlacesOK, CallerPlaces, ReceiverPlaces, ProcessorPlaces
    <2>2. SharedOK'
      BY <2>q DEF TypeOK, SharedOK
    <2>3. LocalsOK'
      BY DEF TypeOK, PlacesOK, SharedOK, LocalsOK, Results
    <2>4. (UniqueEntries /\ StoredBeforeReturned /\ IndexedAfterStored)'
      BY <2>q DEF TypeOK, PlacesOK, SharedOK, LocalsOK, UniqueEntries,
         StoredBeforeReturned, IndexedAfterStored
    <2>5. MutexInv'
      BY <2>q DEF TypeOK, PlacesOK, SharedOK, LocalsOK, MutexInv
    <2>6. (EntryInv /\ TotalInv)'
      <3>8. EntryInv'
        BY <2>q DEF TypeOK, PlacesOK, SharedOK, LocalsOK, EntryInv, Item
      <3>9. TotalInv'
        BY <2>q DEF TypeOK, PlacesOK, SharedOK, LocalsOK, TotalInv
      <3> QED
        BY <3>8, <3>9
    <2>7. FileInv'
      BY <2>q DEF TypeOK, PlacesOK, SharedOK, LocalsOK, FileInv, Item
    <2>8. ResultInv'
      BY DEF TypeOK, PlacesOK, SharedOK, LocalsOK, ResultInv
    <2>9. QED
      BY <2>1, <2>2, <2>3, <2>4, <2>5, <2>6, <2>7, <2>8 DEF IInv, TypeOK
  <1>13. ASSUME NEW t \in Callers, crash = "no", RemoveDelete(t) PROVE IInv'
    <2>f. Find(cid[t]) = ent[t]
      BY <1>f, <1>13 DEF IInv, EntryInv, RemoveDelete
    <2>i. ent[t] \in 1..Len(queue)
      BY <1>13 DEF IInv, EntryInv, RemoveDelete
    <2>v. total[t] - 1 \in Nat
      <3>1. total[t] \in Nat
        BY <1>t, <1>a
      <3>2. total[t] > 0
        BY <1>13 DEF IInv, TotalInv, RemoveDelete
      <3> QED
        BY <3>1, <3>2
    <2>e. /\ [queue[ent[t]] EXCEPT !.sessions = total[t] - 1] \in Entries
          /\ [queue[ent[t]] EXCEPT !.sessions = total[t] - 1].cid = queue[ent[t]].cid
          /\ [queue[ent[t]] EXCEPT !.sessions = total[t] - 1].block = queue[ent[t]].block
      BY <1>0, <2>i, <2>v DEF Entries
    <2>w. queue' = [queue EXCEPT ![ent[t]] =
                     [queue[ent[t]] EXCEPT !.sessions = total[t] - 1]]
      BY <1>13, <2>f DEF RemoveDelete
    <2>q. /\ queue' \in Seq(Entries) /\ Len(queue') = Len(queue)
          /\ \A j \in 1..Len(queue) :
               queue'[j].cid = queue[j].cid /\ queue'[j].block = queue[j].block
      BY <1>0, <2>i, <2>e, <2>w, UpdateEntry
    <2> USE <1>0, <1>a, <1>13 DEF IInv, RemoveDelete, Goto, callVars, procVars
    <2>1. PlacesOK'
      BY DEF TypeOK, PlacesOK, CallerPlaces, ReceiverPlaces, ProcessorPlaces
    <2>2. SharedOK'
      BY <2>q DEF TypeOK, SharedOK
    <2>3. LocalsOK'
      BY DEF TypeOK, PlacesOK, SharedOK, LocalsOK, Results
    <2>4. (UniqueEntries /\ StoredBeforeReturned /\ IndexedAfterStored)'
      BY <2>q DEF TypeOK, PlacesOK, SharedOK, LocalsOK, UniqueEntries,
         StoredBeforeReturned, IndexedAfterStored
    <2>5. MutexInv'
      BY <2>q DEF TypeOK, PlacesOK, SharedOK, LocalsOK, MutexInv
    <2>6. (EntryInv /\ TotalInv)'
      <3>8. EntryInv'
        BY <2>q DEF TypeOK, PlacesOK, SharedOK, LocalsOK, EntryInv, Item
      <3>9. TotalInv'
        BY <2>q DEF TypeOK, PlacesOK, SharedOK, LocalsOK, TotalInv
      <3> QED
        BY <3>8, <3>9
    <2>7. FileInv'
      BY <2>q DEF TypeOK, PlacesOK, SharedOK, LocalsOK, FileInv, Item
    <2>8. ResultInv'
      BY DEF TypeOK, PlacesOK, SharedOK, LocalsOK, ResultInv
    <2>9. QED
      BY <2>1, <2>2, <2>3, <2>4, <2>5, <2>6, <2>7, <2>8 DEF IInv, TypeOK
  <1>14. ASSUME crash = "no", GiveUpDelete PROVE IInv'
    <2>i. Item \in 1..Len(queue)
      BY <1>14 DEF IInv, EntryInv, GiveUpDelete
    <2>v. total[Processor] - 1 \in Nat
      <3>1. total[Processor] \in Nat
        BY <1>t, <1>a
      <3>2. total[Processor] > 0
        BY <1>14 DEF IInv, TotalInv, GiveUpDelete
      <3> QED
        BY <3>1, <3>2
    <2>e. /\ [queue[Item] EXCEPT !.sessions = total[Processor] - 1] \in Entries
          /\ [queue[Item] EXCEPT !.sessions = total[Processor] - 1].cid = queue[Item].cid
          /\ [queue[Item] EXCEPT !.sessions = total[Processor] - 1].block = queue[Item].block
      BY <1>0, <2>i, <2>v DEF Entries
    <2>w. queue' = [queue EXCEPT ![Item] =
                     [queue[Item] EXCEPT !.sessions = total[Processor] - 1]]
      BY <1>14 DEF GiveUpDelete
    <2>q. /\ queue' \in Seq(Entries) /\ Len(queue') = Len(queue)
          /\ \A j \in 1..Len(queue) :
               queue'[j].cid = queue[j].cid /\ queue'[j].block = queue[j].block
      BY <1>0, <2>i, <2>e, <2>w, UpdateEntry
    <2>t. scan' \in Nat /\ total' \in [Threads -> Nat]
      <3>1. scan' = scan + 1 /\ total' = [total EXCEPT ![Processor] = 0]
        BY <1>14 DEF GiveUpDelete
      <3>2. scan + 1 \in Nat
        BY <1>t
      <3>3. [total EXCEPT ![Processor] = 0] \in [Threads -> Nat]
        BY <1>t
      <3> QED
        BY <3>1, <3>2, <3>3
    <2>h. \A u \in Callers \cup Receivers : pc'[u] = pc[u]
      BY <1>a, <1>t, <1>14 DEF GiveUpDelete, Goto
    <2> USE <1>0, <1>a, <1>14 DEF IInv, GiveUpDelete, Goto, callVars, procVars
    <2>1. PlacesOK'
      BY DEF TypeOK, PlacesOK, CallerPlaces, ReceiverPlaces, ProcessorPlaces
    <2>2. SharedOK'
      BY <2>q DEF TypeOK, SharedOK
    <2>3. LocalsOK'
      BY <2>t, <2>h DEF TypeOK, PlacesOK, SharedOK, LocalsOK, Results
    <2>4. (UniqueEntries /\ StoredBeforeReturned /\ IndexedAfterStored)'
      <3>1. UniqueEntries'
        BY <2>q DEF UniqueEntries
      <3>2. UNCHANGED <<file, datastore, unstored, result, cid>>
        OBVIOUS
      <3>3. StoredBeforeReturned'
        BY ONLY <2>q, <3>2, IInv DEF IInv, StoredBeforeReturned
      <3>4. IndexedAfterStored'
        BY ONLY <3>2, IInv DEF IInv, IndexedAfterStored
      <3> QED
        BY <3>1, <3>3, <3>4
    <2>5. MutexInv'
      BY <2>q DEF TypeOK, PlacesOK, SharedOK, LocalsOK, MutexInv
    <2>6. (EntryInv /\ TotalInv)'
      <3>8. EntryInv'
        BY <2>q DEF TypeOK, PlacesOK, SharedOK, LocalsOK, EntryInv, Item
      <3>9. TotalInv'
        BY <2>q DEF TypeOK, PlacesOK, SharedOK, LocalsOK, TotalInv
      <3> QED
        BY <3>8, <3>9
    <2>7. FileInv'
      BY <2>q DEF TypeOK, PlacesOK, SharedOK, LocalsOK, FileInv, Item
    <2>8. ResultInv'
      BY DEF TypeOK, PlacesOK, SharedOK, LocalsOK, ResultInv
    <2>9. QED
      BY <2>1, <2>2, <2>3, <2>4, <2>5, <2>6, <2>7, <2>8 DEF IInv, TypeOK
  <1>15. ASSUME crash = "no", ProcessGet PROVE IInv'
    <2>i. Item \in 1..Len(queue)
      BY <1>15 DEF IInv, EntryInv, ProcessGet
    <2>e. [queue[Item] EXCEPT !.block = "building"] \in Entries
      BY <1>0, <2>i DEF Entries, Blocks
    <2>q. /\ queue' \in Seq(Entries) /\ Len(queue') = Len(queue)
          /\ \A j \in 1..Len(queue) :
               /\ queue'[j].cid = queue[j].cid
               /\ queue'[j].block # queue[j].block => file[queue[j].cid] # Absent
          /\ pc'[Processor] = "decode" => file[queue[Item].cid] # Absent
      <3>1. CASE file[queue[Item].cid] = Absent
        BY <1>0, <1>a, <1>t, <1>15, <3>1 DEF ProcessGet, Goto
      <3>2. CASE file[queue[Item].cid] # Absent
        <4>1. queue' = [queue EXCEPT ![Item] = [queue[Item] EXCEPT !.block = "building"]]
          BY <1>15, <3>2 DEF ProcessGet
        <4> QED
          BY <1>0, <2>i, <2>e, <3>2, <4>1, UpdateEntry DEF Entries
      <3> QED
        BY <3>1, <3>2
    <2>b. buffer' \in SUBSET Parts
      <3>1. file[queue[Item].cid] \in Files
        BY <1>0, <2>i DEF IInv, TypeOK, SharedOK, Entries
      <3> QED
        BY <1>15, <3>1 DEF ProcessGet, IInv, TypeOK, LocalsOK, Files
    <2> USE <1>0, <1>a, <1>15 DEF IInv, ProcessGet, Goto, callVars, procVars
    <2>1. PlacesOK'
      BY DEF TypeOK, PlacesOK, CallerPlaces, ReceiverPlaces, ProcessorPlaces
    <2>2. SharedOK'
      BY <2>q DEF TypeOK, SharedOK
    <2>3. LocalsOK'
      BY <2>b DEF TypeOK, PlacesOK, SharedOK, LocalsOK, Results
    <2>4. (UniqueEntries /\ StoredBeforeReturned /\ IndexedAfterStored)'
      BY <2>q DEF TypeOK, PlacesOK, SharedOK, LocalsOK, UniqueEntries,
         StoredBeforeReturned, IndexedAfterStored
    <2>5. MutexInv'
      BY <2>q DEF TypeOK, PlacesOK, SharedOK, LocalsOK, MutexInv
    <2>6. (EntryInv /\ TotalInv)'
      <3>8. EntryInv'
        BY <2>q DEF TypeOK, PlacesOK, SharedOK, LocalsOK, EntryInv, Item
      <3>9. TotalInv'
        BY <2>q DEF TypeOK, PlacesOK, SharedOK, LocalsOK, TotalInv
      <3> QED
        BY <3>8, <3>9
    <2>7. FileInv'
      <3>1. Item' = Item /\ Item \in 1..Len(queue)
        BY <2>i DEF Item
      <3>2. pc'[Processor] = "decode" => file[queue'[Item].cid] # Absent
        BY <2>q, <3>1
      <3>3. \A r \in Receivers : pc'[r] = pc[r]
        BY DEF TypeOK, PlacesOK
      <3> QED
        BY <3>1, <3>2, <3>3 DEF FileInv
    <2>8. ResultInv'
      BY DEF TypeOK, PlacesOK, SharedOK, LocalsOK, ResultInv
    <2>9. QED
      BY <2>1, <2>2, <2>3, <2>4, <2>5, <2>6, <2>7, <2>8 DEF IInv, TypeOK
  <1>16. ASSUME crash = "no", ProcessDecode PROVE IInv'
    <2>i. Item \in 1..Len(queue) /\ file[queue[Item].cid] # Absent
      BY <1>16 DEF IInv, EntryInv, FileInv, ProcessDecode
    <2>b. PICK b \in Decoded(buffer) :
            /\ have_local' = (b # "freed")
            /\ queue' = [queue EXCEPT ![Item].block =
                           IF b = "hollow" /\ @ = "full" THEN @ ELSE b]
      BY <1>16 DEF ProcessDecode
    <2>c. b \in {"full", "hollow", "freed"}
      BY <2>b DEF Decoded
    <2> DEFINE e == [queue[Item] EXCEPT !.block =
                       IF b = "hollow" /\ queue[Item].block = "full" THEN "full" ELSE b]
    <2>e. e \in Entries /\ e.cid = queue[Item].cid
      BY <1>0, <2>i, <2>c DEF Entries, Blocks
    <2>w. queue' = [queue EXCEPT ![Item] = e]
      BY <1>0, <2>b, <2>i DEF Entries
    <2> HIDE DEF e
    <2>q. /\ queue' \in Seq(Entries) /\ Len(queue') = Len(queue)
          /\ \A j \in 1..Len(queue) :
               /\ queue'[j].cid = queue[j].cid
               /\ queue'[j].block # queue[j].block => file[queue[j].cid] # Absent
      BY <1>0, <2>i, <2>e, <2>w, UpdateEntry
    <2> USE <1>0, <1>a, <1>16 DEF IInv, ProcessDecode, Goto, callVars, procVars
    <2>1. PlacesOK'
      BY DEF TypeOK, PlacesOK, CallerPlaces, ReceiverPlaces, ProcessorPlaces
    <2>2. SharedOK'
      BY <2>q DEF TypeOK, SharedOK
    <2>3. LocalsOK'
      BY DEF TypeOK, PlacesOK, SharedOK, LocalsOK, Results
    <2>4. (UniqueEntries /\ StoredBeforeReturned /\ IndexedAfterStored)'
      BY <2>q DEF TypeOK, PlacesOK, SharedOK, LocalsOK, UniqueEntries,
         StoredBeforeReturned, IndexedAfterStored
    <2>5. MutexInv'
      BY <2>q DEF TypeOK, PlacesOK, SharedOK, LocalsOK, MutexInv
    <2>6. (EntryInv /\ TotalInv)'
      <3>8. EntryInv'
        BY <2>q DEF TypeOK, PlacesOK, SharedOK, LocalsOK, EntryInv, Item
      <3>9. TotalInv'
        BY <2>q DEF TypeOK, PlacesOK, SharedOK, LocalsOK, TotalInv
      <3> QED
        BY <3>8, <3>9
    <2>7. FileInv'
      BY <2>q DEF TypeOK, PlacesOK, SharedOK, LocalsOK, FileInv, Item
    <2>8. ResultInv'
      BY DEF TypeOK, PlacesOK, SharedOK, LocalsOK, ResultInv
    <2>9. QED
      BY <2>1, <2>2, <2>3, <2>4, <2>5, <2>6, <2>7, <2>8 DEF IInv, TypeOK
  <1>17. ASSUME crash = "no", ProcessDecide PROVE IInv'
    <2>i. Item \in 1..Len(queue)
      BY <1>17 DEF IInv, EntryInv, ProcessDecide
    <2>e. queue[Item] \in Entries
      BY <1>0, <2>i
    <2>w. \/ queue' = [queue EXCEPT ![Item] = [queue[Item] EXCEPT !.attempts = @ + 1]]
          \/ queue' = [queue EXCEPT ![Item] = [queue[Item] EXCEPT !.asked_network = TRUE]]
          \/ queue' = queue
      BY <1>17 DEF ProcessDecide
    <2>q. /\ queue' \in Seq(Entries) /\ Len(queue') = Len(queue)
          /\ \A j \in 1..Len(queue) :
               queue'[j].cid = queue[j].cid /\ queue'[j].block = queue[j].block
      <3>1. ASSUME NEW e \in Entries, e.cid = queue[Item].cid, e.block = queue[Item].block,
                   queue' = [queue EXCEPT ![Item] = e]
            PROVE  /\ queue' \in Seq(Entries) /\ Len(queue') = Len(queue)
                   /\ \A j \in 1..Len(queue) :
                        queue'[j].cid = queue[j].cid /\ queue'[j].block = queue[j].block
        BY <1>0, <2>i, <3>1, UpdateEntry
      <3>2. CASE queue' = queue
        BY <1>0, <3>2
      <3> QED
        BY <2>e, <2>w, <3>1, <3>2, EntryTried, EntryAsked
    <2>t. ent' \in [Threads -> Nat]
      BY <1>t, <1>17 DEF ProcessDecide, ProcLoop
    <2>h. /\ \A u \in Callers \cup Receivers : pc'[u] = pc[u] /\ ent'[u] = ent[u]
          /\ pc'[Processor] = "idle"
      BY <1>a, <1>t, <1>17 DEF ProcessDecide, ProcLoop, Goto
    <2> USE <1>0, <1>a, <1>17 DEF IInv, ProcessDecide, Goto, callVars, procVars, ProcLoop
    <2>1. PlacesOK'
      BY DEF TypeOK, PlacesOK, CallerPlaces, ReceiverPlaces, ProcessorPlaces
    <2>2. SharedOK'
      BY <2>q, <2>h DEF TypeOK, SharedOK
    <2>3. LocalsOK'
      BY <2>t, <2>h DEF TypeOK, PlacesOK, SharedOK, LocalsOK, Results
    <2>4. (UniqueEntries /\ StoredBeforeReturned /\ IndexedAfterStored)'
      BY <2>q, <2>h DEF TypeOK, PlacesOK, SharedOK, LocalsOK, UniqueEntries,
         StoredBeforeReturned, IndexedAfterStored
    <2>5. MutexInv'
      BY <2>q, <2>h DEF TypeOK, PlacesOK, SharedOK, LocalsOK, MutexInv
    <2>6. (EntryInv /\ TotalInv)'
      <3>8. EntryInv'
        BY <2>q, <2>h DEF TypeOK, PlacesOK, SharedOK, LocalsOK, EntryInv, Item
      <3>9. TotalInv'
        BY <2>q, <2>h DEF TypeOK, PlacesOK, SharedOK, LocalsOK, TotalInv
      <3> QED
        BY <3>8, <3>9
    <2>7. FileInv'
      BY <2>q, <2>h DEF TypeOK, PlacesOK, SharedOK, LocalsOK, FileInv, Item
    <2>8. ResultInv'
      BY DEF TypeOK, PlacesOK, SharedOK, LocalsOK, ResultInv
    <2>9. QED
      BY <2>1, <2>2, <2>3, <2>4, <2>5, <2>6, <2>7, <2>8 DEF IInv, TypeOK
  <1>18. ASSUME NEW r \in Receivers, NEW c \in Cids, crash = "no", PutOpen(r, c) PROVE IInv'
    <2>c. c \in Cids /\ cid'[r] = c /\ \A u \in (Callers \cup Receivers) \ {r} : cid'[u] = cid[u]
      BY <1>a, <1>18 DEF IInv, TypeOK, LocalsOK, PutOpen
    <2>d. {} \in Files /\ {} # Absent
      BY <1>18, <2>c, PartOfFile DEF IInv, TypeOK, SharedOK, FileInv, PutOpen
    <2>o. /\ file' \in [Cids -> Files]
          /\ file'[c] # Absent
          /\ \A d \in Cids : file[d] # Absent => file'[d] # Absent
          /\ \A d \in Cids : Kept(d) => Kept(d)'
      BY <1>18, <2>c, <2>d DEF IInv, TypeOK, SharedOK, PutOpen
    <2>p. \A i \in 1..Len(queue) : queue[i].cid \in Cids
      BY <1>0 DEF Entries
    <2>s. \A u \in Callers : result[u] \in {"full", "hollow", "freed"} => cid[u] \in Cids
      BY DEF IInv, TypeOK, LocalsOK, ResultInv
    <2> USE <1>0, <1>a, <1>18 DEF IInv, PutOpen, Goto, callVars, procVars
    <2>1. PlacesOK'
      BY DEF TypeOK, PlacesOK, CallerPlaces, ReceiverPlaces, ProcessorPlaces
    <2>2. SharedOK'
      BY <2>o DEF TypeOK, SharedOK
    <2>3. LocalsOK'
      BY DEF TypeOK, PlacesOK, SharedOK, LocalsOK, Results
    <2>4. (UniqueEntries /\ StoredBeforeReturned /\ IndexedAfterStored)'
      <3>1. UniqueEntries'
        BY DEF UniqueEntries
      <3>2. IndexedAfterStored'
        BY <2>o DEF TypeOK, SharedOK, IndexedAfterStored
      <3>3. \A i \in 1..Len(queue) : queue[i].block # "NULL" => Kept(queue[i].cid)'
        BY <2>o, <2>p DEF StoredBeforeReturned
      <3>4. \A u \in Callers : result[u] \in {"full", "hollow", "freed"} => Kept(cid[u])'
        BY <2>c, <2>o, <2>s DEF StoredBeforeReturned
      <3> QED
        BY <3>1, <3>2, <3>3, <3>4 DEF StoredBeforeReturned
    <2>5. MutexInv'
      BY DEF TypeOK, PlacesOK, SharedOK, LocalsOK, MutexInv
    <2>6. (EntryInv /\ TotalInv)'
      BY DEF TypeOK, PlacesOK, SharedOK, LocalsOK, EntryInv, TotalInv, Item,
         ProcessorPlaces
    <2>7. FileInv'
      <3>1. \A u \in Receivers :
              /\ pc'[u] # "idle" => cid'[u] \in Cids /\ Kept(cid[u])'
              /\ pc'[u] \in {"fwrite", "fclose"} => file'[cid'[u]] # Absent
        BY <2>c, <2>o DEF TypeOK, PlacesOK, LocalsOK, FileInv
      <3>2. pc'[Processor] = "decode" => file'[queue[Item].cid] # Absent
        BY <2>o, <2>p DEF TypeOK, PlacesOK, FileInv, EntryInv, ProcessorPlaces
      <3> QED
        BY <3>1, <3>2 DEF FileInv, Item
    <2>8. ResultInv'
      BY DEF TypeOK, PlacesOK, SharedOK, LocalsOK, ResultInv
    <2>9. QED
      BY <2>1, <2>2, <2>3, <2>4, <2>5, <2>6, <2>7, <2>8 DEF IInv, TypeOK
  <1>19. ASSUME NEW r \in Receivers, crash = "no", PutWrite(r) PROVE IInv'
    <2>c. cid[r] \in Cids /\ cid'[r] = cid[r] /\ \A u \in (Callers \cup Receivers) \ {r} : cid'[u] = cid[u]
      BY <1>a, <1>19 DEF IInv, TypeOK, LocalsOK, PutWrite
    <2>d. (file[cid[r]] \cup {"head"}) \in Files /\ (file[cid[r]] \cup {"head"}) # Absent
      BY <1>19, <2>c, PartOfFile DEF IInv, TypeOK, SharedOK, FileInv,
         PutWrite, Parts
    <2>o. /\ file' \in [Cids -> Files]
          /\ file'[cid[r]] # Absent
          /\ \A d \in Cids : file[d] # Absent => file'[d] # Absent
          /\ \A d \in Cids : Kept(d) => Kept(d)'
      BY <1>19, <2>c, <2>d DEF IInv, TypeOK, SharedOK, PutWrite
    <2>p. \A i \in 1..Len(queue) : queue[i].cid \in Cids
      BY <1>0 DEF Entries
    <2>s. \A u \in Callers : result[u] \in {"full", "hollow", "freed"} => cid[u] \in Cids
      BY DEF IInv, TypeOK, LocalsOK, ResultInv
    <2> USE <1>0, <1>a, <1>19 DEF IInv, PutWrite, Goto, callVars, procVars
    <2>1. PlacesOK'
      BY DEF TypeOK, PlacesOK, CallerPlaces, ReceiverPlaces, ProcessorPlaces
    <2>2. SharedOK'
      BY <2>o DEF TypeOK, SharedOK
    <2>3. LocalsOK'
      BY DEF TypeOK, PlacesOK, SharedOK, LocalsOK, Results
    <2>4. (UniqueEntries /\ StoredBeforeReturned /\ IndexedAfterStored)'
      <3>1. UniqueEntries'
        BY DEF UniqueEntries
      <3>2. IndexedAfterStored'
        BY <2>o DEF TypeOK, SharedOK, IndexedAfterStored
      <3>3. \A i \in 1..Len(queue) : queue[i].block # "NULL" => Kept(queue[i].cid)'
        BY <2>o, <2>p DEF StoredBeforeReturned
      <3>4. \A u \in Callers : result[u] \in {"full", "hollow", "freed"} => Kept(cid[u])'
        BY <2>c, <2>o, <2>s DEF StoredBeforeReturned
      <3> QED
        BY <3>1, <3>2, <3>3, <3>4 DEF StoredBeforeReturned
    <2>5. MutexInv'
      BY DEF TypeOK, PlacesOK, SharedOK, LocalsOK, MutexInv
    <2>6. (EntryInv /\ TotalInv)'
      BY DEF TypeOK, PlacesOK, SharedOK, LocalsOK, EntryInv, TotalInv, Item,
         ProcessorPlaces
    <2>7. FileInv'
      <3>1. \A u \in Receivers :
              /\ pc'[u] # "idle" => cid'[u] \in Cids /\ Kept(cid[u])'
              /\ pc'[u] \in {"fwrite", "fclose"} => file'[cid'[u]] # Absent
        BY <2>c, <2>o DEF TypeOK, PlacesOK, LocalsOK, FileInv
      <3>2. pc'[Processor] = "decode" => file'[queue[Item].cid] # Absent
        BY <2>o, <2>p DEF TypeOK, PlacesOK, FileInv, EntryInv, ProcessorPlaces
      <3> QED
        BY <3>1, <3>2 DEF FileInv, Item
    <2>8. ResultInv'
      BY DEF TypeOK, PlacesOK, SharedOK, LocalsOK, ResultInv
    <2>9. QED
      BY <2>1, <2>2, <2>3, <2>4, <2>5, <2>6, <2>7, <2>8 DEF IInv, TypeOK
  <1>20. ASSUME NEW r \in Receivers, crash = "no", PutClose(r) PROVE IInv'
    <2>c. cid[r] \in Cids /\ cid'[r] = cid[r] /\ \A u \in (Callers \cup Receivers) \ {r} : cid'[u] = cid[u]
      BY <1>a, <1>20 DEF IInv, TypeOK, LocalsOK, PutClose
    <2>d. (file[cid[r]] \cup {"tail"}) \in Files /\ (file[cid[r]] \cup {"tail"}) # Absent
      BY <1>20, <2>c, PartOfFile DEF IInv, TypeOK, SharedOK, FileInv,
         PutClose, Parts
    <2>o. /\ file' \in [Cids -> Files]
          /\ file'[cid[r]] # Absent
          /\ \A d \in Cids : file[d] # Absent => file'[d] # Absent
          /\ \A d \in Cids : Kept(d) => Kept(d)'
      BY <1>20, <2>c, <2>d DEF IInv, TypeOK, SharedOK, PutClose
    <2>p. \A i \in 1..Len(queue) : queue[i].cid \in Cids
      BY <1>0 DEF Entries
    <2>s. \A u \in Callers : result[u] \in {"full", "hollow", "freed"} => cid[u] \in Cids
      BY DEF IInv, TypeOK, LocalsOK, ResultInv
    <2> USE <1>0, <1>a, <1>20 DEF IInv, PutClose, Goto, callVars, procVars
    <2>1. PlacesOK'
      BY DEF TypeOK, PlacesOK, CallerPlaces, ReceiverPlaces, ProcessorPlaces
    <2>2. SharedOK'
      BY <2>o DEF TypeOK, SharedOK
    <2>3. LocalsOK'
      BY DEF TypeOK, PlacesOK, SharedOK, LocalsOK, Results
    <2>4. (UniqueEntries /\ StoredBeforeReturned /\ IndexedAfterStored)'
      <3>1. UniqueEntries'
        BY DEF UniqueEntries
      <3>2. IndexedAfterStored'
        BY <2>o DEF TypeOK, SharedOK, IndexedAfterStored
      <3>3. \A i \in 1..Len(queue) : queue[i].block # "NULL" => Kept(queue[i].cid)'
        BY <2>o, <2>p DEF StoredBeforeReturned
      <3>4. \A u \in Callers : result[u] \in {"full", "hollow", "freed"} => Kept(cid[u])'
        BY <2>c, <2>o, <2>s DEF StoredBeforeReturned
      <3> QED
        BY <3>1, <3>2, <3>3, <3>4 DEF StoredBeforeReturned
    <2>5. MutexInv'
      BY DEF TypeOK, PlacesOK, SharedOK, LocalsOK, MutexInv
    <2>6. (EntryInv /\ TotalInv)'
      BY DEF TypeOK, PlacesOK, SharedOK, LocalsOK, EntryInv, TotalInv, Item,
         ProcessorPlaces
    <2>7. FileInv'
      <3>1. \A u \in Receivers :
              /\ pc'[u] # "idle" => cid'[u] \in Cids /\ Kept(cid[u])'
              /\ pc'[u] \in {"fwrite", "fclose"} => file'[cid'[u]] # Absent
        BY <2>c, <2>o DEF TypeOK, PlacesOK, LocalsOK, FileInv
      <3>2. pc'[Processor] = "decode" => file'[queue[Item].cid] # Absent
        BY <2>o, <2>p DEF TypeOK, PlacesOK, FileInv, EntryInv, ProcessorPlaces
      <3> QED
        BY <3>1, <3>2 DEF FileInv, Item
    <2>8. ResultInv'
      BY DEF TypeOK, PlacesOK, SharedOK, LocalsOK, ResultInv
    <2>9. QED
      BY <2>1, <2>2, <2>3, <2>4, <2>5, <2>6, <2>7, <2>8 DEF IInv, TypeOK
  <1>21. ASSUME NEW r \in Receivers, crash = "no", Notify(r) PROVE IInv'
    <2>f. Find(cid[r]) \in 0..Len(queue) /\ \A i \in 1..Len(queue) : queue[i].cid = cid[r] => Find(cid[r]) = i
      BY <1>f
    <2>q. /\ queue' \in Seq(Entries) /\ Len(queue') = Len(queue)
          /\ \A j \in 1..Len(queue) :
               /\ queue'[j].cid = queue[j].cid
               /\ queue'[j].block # queue[j].block => Kept(queue[j].cid)
      <3>1. CASE queue' = queue
        BY <1>0, <3>1
      <3>2. CASE Find(cid[r]) # 0 /\ queue' = [queue EXCEPT ![Find(cid[r])].block = "full"]
        <4> DEFINE i == Find(cid[r])
        <4>1. i \in 1..Len(queue) /\ queue[i].cid = cid[r] /\ Kept(cid[r])
          BY <1>f, <1>l, <1>21, <3>2 DEF IInv, FileInv, Notify
        <4> HIDE DEF i
        <4>2. [queue[i] EXCEPT !.block = "full"] \in Entries
          BY <1>0, <4>1 DEF Entries, Blocks
        <4>3. queue' = [queue EXCEPT ![i] = [queue[i] EXCEPT !.block = "full"]]
          BY <3>2 DEF i
        <4> QED
          BY <1>0, <4>1, <4>2, <4>3, UpdateEntry DEF Entries
      <3> QED
        BY <1>21, <3>1, <3>2 DEF Notify
    <2>h. /\ UNCHANGED <<mutex, file, datastore, unstored, ent, total, timeTaken, result, scan, local_request, have_local, buffer>>
          /\ crash' \in {"no", "NULL cid", "NULL queue", "NULL file"}
      BY <1>21 DEF Notify, callVars, procVars
    <2>m. /\ \A u \in (Callers \cup Receivers \cup {Processor}) \ {r} : pc'[u] = pc[u]
          /\ \A u \in (Callers \cup Receivers) \ {r} : cid'[u] = cid[u]
          /\ \/ pc'[r] = pc[r] /\ cid'[r] = cid[r]
             \/ pc'[r] = "idle" /\ cid'[r] = NoCid
          /\ pc' \in [Threads -> CallerPlaces \cup ReceiverPlaces \cup ProcessorPlaces]
          /\ cid' \in [Callers \cup Receivers -> Cids \cup {NoCid}]
      BY <1>a, <1>t, <1>21 DEF Notify, Goto, IInv, TypeOK, LocalsOK,
         ReceiverPlaces
    <2> USE <1>0, <1>a DEF IInv
    <2>1. PlacesOK'
      BY <2>q, <2>h, <2>m DEF TypeOK, PlacesOK, CallerPlaces, ReceiverPlaces,
         ProcessorPlaces
    <2>2. SharedOK'
      BY <2>q, <2>h, <2>m DEF TypeOK, SharedOK
    <2>3. LocalsOK'
      BY <2>q, <2>h, <2>m DEF TypeOK, PlacesOK, SharedOK, LocalsOK, Results
    <2>4. (UniqueEntries /\ StoredBeforeReturned /\ IndexedAfterStored)'
      BY <2>q, <2>h, <2>m DEF TypeOK, PlacesOK, SharedOK, LocalsOK,
         UniqueEntries, StoredBeforeReturned, IndexedAfterStored
    <2>5. MutexInv'
      BY <2>q, <2>h, <2>m DEF MutexInv
    <2>6. (EntryInv /\ TotalInv)'
      <3>8. EntryInv'
        BY <2>q, <2>h, <2>m DEF TypeOK, PlacesOK, SharedOK, LocalsOK,
           EntryInv, Item
      <3>9. TotalInv'
        BY <2>q, <2>h, <2>m DEF TypeOK, PlacesOK, SharedOK, LocalsOK, TotalInv
      <3> QED
        BY <3>8, <3>9
    <2>7. FileInv'
      <3>1. \A u \in Receivers :
              /\ pc'[u] # "idle" => Kept(cid[u])'
              /\ pc'[u] \in {"fwrite", "fclose"} => file'[cid'[u]] # Absent
        BY <2>h, <2>m DEF FileInv
      <3>2. pc'[Processor] = "decode" => file'[queue'[Item'].cid] # Absent
        BY <2>q, <2>h, <2>m DEF FileInv, EntryInv, Item
      <3> QED
        BY <3>1, <3>2 DEF FileInv
    <2>8. ResultInv'
      BY <2>q, <2>h, <2>m DEF TypeOK, PlacesOK, SharedOK, LocalsOK, ResultInv
    <2>9. QED
      BY <2>1, <2>2, <2>3, <2>4, <2>5, <2>6, <2>7, <2>8 DEF IInv, TypeOK
  <1>22. ASSUME NEW t \in Callers, crash = "no", AddEntry(t) PROVE IInv'
    <2>n. NewEntry(cid[t]) \in Entries /\ NewEntry(cid[t]).cid = cid[t] /\ NewEntry(cid[t]).block = "NULL"
      BY <1>22 DEF IInv, TypeOK, LocalsOK, AddEntry, NewEntry, Entries, Blocks
    <2>q. \/ /\ ent[t] # 0 /\ ent' = ent /\ queue' = queue
             /\ total' = [total EXCEPT ![t] = queue[ent[t]].sessions]
          \/ /\ ent[t] = 0
             /\ queue' = Append(queue, NewEntry(cid[t]))
             /\ ent' = [ent EXCEPT ![t] = Len(queue) + 1]
             /\ total' = [total EXCEPT ![t] = 1]
      BY <1>22 DEF AddEntry
    <2>a. /\ queue' \in Seq(Entries)
          /\ Len(queue') >= Len(queue) /\ Len(queue') \in Nat
          /\ \A j \in 1..Len(queue) : queue'[j] = queue[j]
          /\ ent'[t] \in 1..Len(queue') /\ queue'[ent'[t]].cid = cid[t]
          /\ \A j \in 1..Len(queue') : j \notin 1..Len(queue) =>
               queue'[j].cid = cid[t] /\ queue'[j].block = "NULL" /\ j = Len(queue) + 1 /\ ent[t] = 0
      <3>1. CASE ent[t] # 0
        BY <1>0, <1>22, <2>q, <3>1 DEF IInv, EntryInv, AddEntry
      <3>2. CASE ent[t] = 0
        <4>1. /\ queue' \in Seq(Entries) /\ Len(queue') = Len(queue) + 1
              /\ \A j \in 1..Len(queue) : queue'[j] = queue[j]
              /\ queue'[Len(queue) + 1] = NewEntry(cid[t])
          <5>1. queue' = Append(queue, NewEntry(cid[t]))
            BY <2>q, <3>2
          <5>2. queue \in Seq(Entries) /\ NewEntry(cid[t]) \in Entries
            BY <1>0, <2>n
          <5> HIDE DEF NewEntry
          <5> QED
            BY <5>1, <5>2, AppendEntry
        <4>2. ent'[t] = Len(queue) + 1
          BY <1>a, <1>t, <2>q, <3>2
        <4> QED
          BY <1>l, <2>n, <3>2, <4>1, <4>2
      <3> QED
        BY <3>1, <3>2
    <2>b. ent' \in [Threads -> Nat] /\ \A u \in Threads \ {t} : ent'[u] = ent[u] /\ total'[u] = total[u]
      <3>1. Len(queue) + 1 \in Nat
        BY <1>l
      <3> QED
        BY <1>a, <1>t, <2>q, <3>1
    <2>c. total' \in [Threads -> Nat]
      <3>1. ent[t] # 0 => queue[ent[t]].sessions \in Nat
        BY <1>0, <1>22 DEF IInv, EntryInv, AddEntry, Entries
      <3> QED
        BY <1>t, <2>q, <3>1
    <2>h. /\ UNCHANGED <<mutex, file, datastore, unstored, cid, timeTaken, result, scan, local_request, have_local, buffer, crash>>
          /\ pc[t] = "append" /\ pc'[t] = "session"
          /\ \A u \in Threads \ {t} : pc'[u] = pc[u]
          /\ pc' \in [Threads -> CallerPlaces \cup ReceiverPlaces \cup ProcessorPlaces]
      BY <1>a, <1>t, <1>22 DEF AddEntry, Goto, callVars, procVars, CallerPlaces
    <2> USE <1>0, <1>a DEF IInv
    <2>1. PlacesOK'
      BY <2>h DEF TypeOK, PlacesOK, CallerPlaces, ReceiverPlaces,
         ProcessorPlaces
    <2>2. SharedOK'
      BY <2>a, <2>h DEF TypeOK, SharedOK
    <2>3. LocalsOK'
      BY <2>b, <2>c, <2>h DEF TypeOK, PlacesOK, SharedOK, LocalsOK, Results
    <2>4. (UniqueEntries /\ StoredBeforeReturned /\ IndexedAfterStored)'
      <3>1. UniqueEntries'
        <4>1. \A i, j \in 1..Len(queue) : queue'[i].cid = queue'[j].cid => i = j
          BY <2>a DEF UniqueEntries
        <4>2. ent[t] = 0 => \A i \in 1..Len(queue) : queue'[i].cid # cid[t]
          BY <2>a, <2>h DEF MutexInv
        <4> QED
          BY <2>a, <4>1, <4>2 DEF UniqueEntries
      <3>2. \A i \in 1..Len(queue') : queue'[i].block # "NULL" => Kept(queue'[i].cid)
        BY <2>a DEF StoredBeforeReturned
      <3> QED
        BY <2>h, <3>1, <3>2 DEF StoredBeforeReturned, IndexedAfterStored
    <2>5. MutexInv'
      BY <2>a, <2>b, <2>h DEF TypeOK, PlacesOK, SharedOK, LocalsOK, MutexInv
    <2>6. (EntryInv /\ TotalInv)'
      <3>1. ASSUME NEW i \in 1..Len(queue) PROVE i \in 1..Len(queue') /\ queue'[i] = queue[i]
        BY <2>a
      <3>2. \A u \in Callers \ {t} : pc'[u] = pc[u] /\ ent'[u] = ent[u] /\ cid'[u] = cid[u] /\ total'[u] = total[u]
        BY <2>b, <2>h
      <3>3. /\ pc'[Processor] = pc[Processor] /\ Item' = Item
            /\ total'[Processor] = total[Processor]
        BY <2>b, <2>h DEF Item
      <3>4. ASSUME NEW u \in Callers \ {t},
                   \/ pc'[u] \in {"session", "poll", "remove", "decrement"}
                   \/ pc'[u] = "append" /\ ent'[u] # 0
            PROVE  ent'[u] \in 1..Len(queue') /\ queue'[ent'[u]].cid = cid'[u]
        BY <3>1, <3>2, <3>4 DEF EntryInv
      <3>5. pc'[Processor] # "idle" => Item' \in 1..Len(queue')
        BY <3>1, <3>3 DEF EntryInv
      <3>6. EntryInv'
        BY <2>a, <2>h, <3>4, <3>5 DEF EntryInv
      <3>7. TotalInv'
        BY <2>h, <3>2, <3>3 DEF TotalInv
      <3> QED
        BY <3>6, <3>7
    <2>7. FileInv'
      <3>1. pc[Processor] = "decode" => Item \in 1..Len(queue)
        BY DEF EntryInv
      <3>2. Item' = Item
        BY <2>b DEF Item
      <3>3. pc[Processor] = "decode" => file[queue'[Item].cid] # Absent
        BY <2>a, <3>1 DEF FileInv
      <3> QED
        BY <2>h, <3>2, <3>3 DEF FileInv
    <2>8. ResultInv'
      BY <2>h DEF TypeOK, PlacesOK, SharedOK, LocalsOK, ResultInv
    <2>9. QED
      BY <2>1, <2>2, <2>3, <2>4, <2>5, <2>6, <2>7, <2>8 DEF IInv, TypeOK
  <1>28. ASSUME NEW r \in Receivers, NEW c \in Cids, crash = "no", PutFails(r, c) PROVE IInv'
    <2> USE <1>0, <1>a, <1>28 DEF IInv, PutFails, Goto, callVars, procVars
    <2>c. cid'[r] = c /\ \A u \in (Callers \cup Receivers) \ {r} : cid'[u] = cid[u]
      BY DEF TypeOK, LocalsOK
    <2>o. unstored' \in SUBSET Cids /\ Kept(c)' /\ \A d \in Cids : Kept(d) => Kept(d)'
      BY DEF TypeOK, SharedOK
    <2>p. \A i \in 1..Len(queue) : queue[i].cid \in Cids
      BY DEF Entries
    <2>s. \A u \in Callers : result[u] \in {"full", "hollow", "freed"} => cid[u] \in Cids
      BY DEF TypeOK, LocalsOK, ResultInv
    <2>1. PlacesOK'
      BY DEF TypeOK, PlacesOK, CallerPlaces, ReceiverPlaces, ProcessorPlaces
    <2>2. SharedOK'
      BY <2>o DEF TypeOK, SharedOK
    <2>3. LocalsOK'
      BY DEF TypeOK, PlacesOK, SharedOK, LocalsOK, Results
    <2>4. (UniqueEntries /\ StoredBeforeReturned /\ IndexedAfterStored)'
      <3>1. UniqueEntries'
        BY DEF UniqueEntries
      <3>2. IndexedAfterStored'
        BY <2>o DEF TypeOK, SharedOK, IndexedAfterStored
      <3>3. \A i \in 1..Len(queue) : queue[i].block # "NULL" => Kept(queue[i].cid)'
        BY <2>o, <2>p DEF StoredBeforeReturned
      <3>4. \A u \in Callers : result[u] \in {"full", "hollow", "freed"} => Kept(cid[u])'
        BY <2>c, <2>o, <2>s DEF StoredBeforeReturned
      <3> QED
        BY <3>1, <3>2, <3>3, <3>4 DEF StoredBeforeReturned
    <2>5. MutexInv'
      BY DEF TypeOK, PlacesOK, SharedOK, LocalsOK, MutexInv
    <2>6. (EntryInv /\ TotalInv)'
      BY DEF TypeOK, PlacesOK, SharedOK, LocalsOK, EntryInv, TotalInv, Item,
         ProcessorPlaces
    <2>7. FileInv'
      <3>1. \A u \in Receivers :
              /\ pc'[u] # "idle" => cid'[u] \in Cids /\ Kept(cid[u])'
              /\ pc'[u] \in {"fwrite", "fclose"} => file'[cid'[u]] # Absent
        BY <2>c, <2>o DEF TypeOK, PlacesOK, LocalsOK, FileInv
      <3>2. pc'[Processor] = "decode" => file'[queue[Item].cid] # Absent
        BY <2>o, <2>p DEF TypeOK, PlacesOK, FileInv, EntryInv, ProcessorPlaces
      <3> QED
        BY <3>1, <3>2 DEF FileInv, Item
    <2>8. ResultInv'
      BY DEF TypeOK, PlacesOK, SharedOK, LocalsOK, ResultInv
    <2>9. QED
      BY <2>1, <2>2, <2>3, <2>4, <2>5, <2>6, <2>7, <2>8 DEF IInv, TypeOK
  <1>29. ASSUME NEW r \in Receivers, crash = "no", PutNoFile(r) PROVE IInv'
    BY <1>29 DEF PutNoFile, callVars, procVars, IInv, TypeOK, PlacesOK,
       SharedOK, LocalsOK, UniqueEntries, StoredBeforeReturned,
       IndexedAfterStored, MutexInv, EntryInv, TotalInv, FileInv, ResultInv, Item
  <1>23. CASE UNCHANGED vars
    BY <1>23 DEF vars, callVars, procVars, IInv, TypeOK, PlacesOK, SharedOK,
       LocalsOK, UniqueEntries, StoredBeforeReturned, IndexedAfterStored,
       MutexInv, EntryInv, TotalInv, FileInv, ResultInv, Item
  <1>24. ASSUME crash = "no", NEW t \in Callers, Caller(t) PROVE IInv'
    BY <1>1, <1>2, <1>3, <1>4, <1>11, <1>12, <1>13, <1>22, <1>24 DEF Caller
  <1>25. ASSUME crash = "no", NEW r \in Receivers, Receiver(r) PROVE IInv'
    BY <1>5, <1>6, <1>18, <1>19, <1>20, <1>21, <1>25, <1>28, <1>29 DEF Receiver
  <1>26. ASSUME crash = "no", Process PROVE IInv'
    BY <1>7, <1>8, <1>9, <1>10, <1>14, <1>15, <1>16, <1>17, <1>26 DEF Process
  <1>27. QED
    BY <1>23, <1>24, <1>25, <1>26 DEF Next, Dead

(***************************************************************************)
(* IInv holds in every reachable state of the program, whatever the        *)
(* numbers of threads and cids and whatever the timeouts.                  *)
(***************************************************************************)
THEOREM Invariance == Spec => []IInv
  BY InitIInv, StepIInv, PTL DEF Spec

(***************************************************************************)
(* Type correctness of the wantlist, its threads and the block files.      *)
(***************************************************************************)
THEOREM TypeCorrect == Spec => []TypeOK
  <1>1. IInv => TypeOK
    BY DEF IInv
  <1>2. QED
    BY Invariance, <1>1, PTL

(***************************************************************************)
(* wantlist_queue_add makes one entry per cid, however many threads call   *)
(* it at the same time: its search and its append are under one hold of    *)
(* wantlist_mutex.                                                         *)
(***************************************************************************)
THEOREM OneEntryPerCid == Spec => []UniqueEntries
  <1>1. IInv => UniqueEntries
    BY DEF IInv
  <1>2. QED
    BY Invariance, <1>1, PTL

(***************************************************************************)
(* The entry pointer that get_block polls without the mutex is, in every   *)
(* reachable state, the entry of its own cid and the one                   *)
(* want_manager_remove finds.                                              *)
(***************************************************************************)
THEOREM OwnEntry == Spec => []PointsToOwnEntry
  <1>1. IInv => PointsToOwnEntry
    <2> SUFFICES ASSUME IInv, NEW t \in Callers,
                        pc[t] \in {"session", "poll", "remove", "decrement"}
                 PROVE  ent[t] # 0 /\ ent[t] = Find(cid[t])
      BY DEF PointsToOwnEntry
    <2>1. queue \in Seq(Entries) /\ UniqueEntries /\ Len(queue) \in Nat
      BY LenProperties DEF IInv, TypeOK, SharedOK
    <2>2. ent[t] \in 1..Len(queue) /\ queue[ent[t]].cid = cid[t]
      BY DEF IInv, EntryInv
    <2>3. QED
      BY <2>1, <2>2, FindProperties
  <1>2. QED
    BY Invariance, <1>1, PTL

(***************************************************************************)
(* No waiter is woken and no call returns with a block before the block    *)
(* has a file, or Put has failed without one: has_block and process_entry  *)
(* go through the blockstore first, and a short write leaves a file.       *)
(***************************************************************************)
THEOREM StoredFirst == Spec => []StoredBeforeReturned
  <1>1. IInv => StoredBeforeReturned
    BY DEF IInv
  <1>2. QED
    BY Invariance, <1>1, PTL

(***************************************************************************)
(* A datastore record implies a block file, however short, unless Put      *)
(* failed before it made one: has_block puts the file first.               *)
(***************************************************************************)
THEOREM RecordedAfterStored == Spec => []IndexedAfterStored
  <1>1. IInv => IndexedAfterStored
    BY DEF IInv
  <1>2. QED
    BY Invariance, <1>1, PTL
-----------------------------------------------------------------------------
(* What a step may do to an entry. *)

\* Counting an attempt or marking an entry as asked for is the last step of
\* process_entry; a new entry starts with neither.
CountsInDecide ==
  /\ \A i \in 1..Len(queue) :
       \/ ProcessDecide
       \/ /\ queue'[i].attempts = queue[i].attempts
          /\ queue'[i].asked_network = queue[i].asked_network
  /\ \A i \in 1..Len(queue') : i \notin 1..Len(queue) =>
       queue'[i].attempts = 0 /\ ~queue'[i].asked_network

\* No entry is moved or dropped.
Stays ==
  \A i \in 1..Len(queue) : i <= Len(queue') /\ queue'[i].cid = queue[i].cid

\* A whole block is overwritten by nobody but the processor, in its own entry.
OverwritesOwn ==
  \A i \in 1..Len(queue) :
    queue[i].block = "full" =>
      \/ queue'[i].block = "full"
      \/ Item = i /\ pc[Processor] \in {"get", "decode"}

\* A write to one entry that keeps its cid, and its whole block unless it is
\* the processor that writes.
LEMMA WriteEntry ==
  ASSUME queue \in Seq(Entries), NEW k \in 1..Len(queue), NEW e \in Entries,
         queue' = [queue EXCEPT ![k] = e], e.cid = queue[k].cid,
         queue[k].block = "full" =>
           \/ e.block = "full"
           \/ Item = k /\ pc[Processor] \in {"get", "decode"},
         \/ ProcessDecide
         \/ /\ e.attempts = queue[k].attempts
            /\ e.asked_network = queue[k].asked_network
  PROVE  Stays /\ CountsInDecide /\ OverwritesOwn
  <1>1. /\ Len(queue) \in Nat /\ Len(queue') = Len(queue) /\ queue'[k] = e
        /\ \A j \in 1..Len(queue) : j # k => queue'[j] = queue[j]
    BY UpdateEntry, LenProperties
  <1>2. Stays /\ OverwritesOwn
    BY <1>1 DEF Stays, OverwritesOwn
  <1>3. CountsInDecide
    BY <1>1 DEF CountsInDecide
  <1>4. QED
    BY <1>2, <1>3

\* No step drops or moves an entry, only process_entry counts, and only the
\* processor overwrites a whole block, of the entry it works on.
LEMMA StepEntries == IInv /\ [Next]_vars => Stays /\ CountsInDecide /\ OverwritesOwn
  <1> SUFFICES ASSUME IInv, [Next]_vars PROVE Stays /\ CountsInDecide /\ OverwritesOwn
    OBVIOUS
  <1>0. /\ queue \in Seq(Entries)
        /\ Len(queue) \in Nat
        /\ \A i \in 1..Len(queue) : queue[i] \in Entries
    BY LenProperties, ElementOfSeq DEF IInv, TypeOK, SharedOK
  <1>t. /\ total \in [Threads -> Nat]
        /\ Processor \in Threads /\ Callers \subseteq Threads
    BY DEF IInv, TypeOK, LocalsOK, Threads, Callers
  <1>f. ASSUME NEW c
        PROVE  /\ Find(c) \in 0..Len(queue)
               /\ \A i \in 1..Len(queue) : queue[i].cid = c => Find(c) = i
    BY <1>0, FindProperties DEF IInv
  <1>1. CASE queue' = queue
    BY <1>0, <1>1 DEF Stays, CountsInDecide, OverwritesOwn
  <1>2. ASSUME NEW t \in Callers, AddEntry(t) PROVE Stays /\ CountsInDecide /\ OverwritesOwn
    <2>1. CASE ent[t] = 0
      <3>1. /\ NewEntry(cid[t]) \in Entries
            /\ NewEntry(cid[t]).attempts = 0 /\ ~NewEntry(cid[t]).asked_network
        BY <1>2 DEF IInv, TypeOK, LocalsOK, AddEntry, NewEntry, Entries, Blocks
      <3>2. queue' = Append(queue, NewEntry(cid[t]))
        BY <1>2, <2>1 DEF AddEntry
      <3> HIDE DEF NewEntry
      <3>3. /\ Len(queue') = Len(queue) + 1
            /\ \A j \in 1..Len(queue) : queue'[j] = queue[j]
            /\ queue'[Len(queue) + 1] = NewEntry(cid[t])
        BY <1>0, <3>1, <3>2, AppendEntry
      <3>4. QED
        BY <1>0, <3>1, <3>3 DEF Stays, CountsInDecide, OverwritesOwn
    <2>2. CASE ent[t] # 0
      BY <1>1, <1>2, <2>2 DEF AddEntry
    <2>3. QED
      BY <2>1, <2>2
  <1>3. ASSUME NEW k \in 1..Len(queue), NEW n \in Nat,
               queue' = [queue EXCEPT ![k].sessions = n]
        PROVE  Stays /\ CountsInDecide /\ OverwritesOwn
    <2> DEFINE e == [queue[k] EXCEPT !.sessions = n]
    <2>1. /\ e \in Entries /\ e.cid = queue[k].cid /\ e.block = queue[k].block
          /\ e.attempts = queue[k].attempts
          /\ e.asked_network = queue[k].asked_network
      BY <1>0 DEF Entries
    <2>2. queue' = [queue EXCEPT ![k] = e]
      BY <1>3
    <2> HIDE DEF e
    <2>3. QED
      BY <1>0, <2>1, <2>2, WriteEntry
  <1>4. ASSUME NEW k \in 1..Len(queue), NEW b \in Blocks,
               \/ b = "full"
               \/ Item = k /\ pc[Processor] \in {"get", "decode"},
               queue' = [queue EXCEPT ![k].block = b]
        PROVE  Stays /\ CountsInDecide /\ OverwritesOwn
    <2> DEFINE e == [queue[k] EXCEPT !.block = b]
    <2>1. /\ e \in Entries /\ e.cid = queue[k].cid /\ e.block = b
          /\ e.attempts = queue[k].attempts
          /\ e.asked_network = queue[k].asked_network
      BY <1>0 DEF Entries
    <2>2. queue' = [queue EXCEPT ![k] = e]
      BY <1>4
    <2> HIDE DEF e
    <2>3. QED
      BY <1>0, <1>4, <2>1, <2>2, WriteEntry
  <1>5. ASSUME NEW t \in Callers, AddSession(t) PROVE Stays /\ CountsInDecide /\ OverwritesOwn
    <2>1. ent[t] \in 1..Len(queue) /\ total[t] + 1 \in Nat
      BY <1>t, <1>5 DEF IInv, EntryInv, AddSession
    <2>2. QED
      BY <1>3, <1>5, <2>1 DEF AddSession
  <1>6. ASSUME NEW t \in Callers, RemoveDelete(t) PROVE Stays /\ CountsInDecide /\ OverwritesOwn
    <2>1. ent[t] \in 1..Len(queue) /\ queue[ent[t]].cid = cid[t]
      BY <1>6 DEF IInv, EntryInv, RemoveDelete
    <2>2. Find(cid[t]) \in 1..Len(queue)
      BY <1>f, <2>1
    <2>3. total[t] \in Nat /\ total[t] > 0
      BY <1>t, <1>6 DEF IInv, TotalInv, RemoveDelete
    <2>4. total[t] - 1 \in Nat
      BY <2>3
    <2>5. QED
      BY <1>3, <1>6, <2>2, <2>4 DEF RemoveDelete
  <1>7. ASSUME GiveUpDelete PROVE Stays /\ CountsInDecide /\ OverwritesOwn
    <2>1. Item \in 1..Len(queue)
      BY <1>7 DEF IInv, EntryInv, GiveUpDelete
    <2>2. total[Processor] \in Nat /\ total[Processor] > 0
      BY <1>t, <1>7 DEF IInv, TotalInv, GiveUpDelete
    <2>3. total[Processor] - 1 \in Nat
      BY <2>2
    <2>4. QED
      BY <1>3, <1>7, <2>1, <2>3 DEF GiveUpDelete
  <1>8. ASSUME NEW r \in Receivers, Notify(r) PROVE Stays /\ CountsInDecide /\ OverwritesOwn
    <2>1. CASE Find(cid[r]) # 0 /\ queue' = [queue EXCEPT ![Find(cid[r])].block = "full"]
      <3>1. Find(cid[r]) \in 1..Len(queue)
        BY <1>0, <1>f, <2>1
      <3>2. "full" \in Blocks
        BY DEF Blocks
      <3>3. QED
        BY <1>4, <2>1, <3>1, <3>2
    <2>2. QED
      BY <1>1, <1>8, <2>1 DEF Notify
  <1>9. ASSUME ProcessGet PROVE Stays /\ CountsInDecide /\ OverwritesOwn
    <2>1. Item \in 1..Len(queue) /\ pc[Processor] = "get"
      BY <1>9 DEF IInv, EntryInv, ProcessGet
    <2>2. CASE queue' = [queue EXCEPT ![Item].block = "building"]
      BY <1>4, <2>1, <2>2 DEF Blocks
    <2>3. QED
      BY <1>1, <1>9, <2>2 DEF ProcessGet
  <1>10. ASSUME ProcessDecode PROVE Stays /\ CountsInDecide /\ OverwritesOwn
    <2>1. Item \in 1..Len(queue) /\ pc[Processor] = "decode"
      BY <1>10 DEF IInv, EntryInv, ProcessDecode
    <2>2. PICK b \in Decoded(buffer) :
            queue' = [queue EXCEPT ![Item].block =
                        IF b = "hollow" /\ @ = "full" THEN @ ELSE b]
      BY <1>10 DEF ProcessDecode
    <2>3. b \in Blocks
      BY <2>2 DEF Decoded, Blocks
    <2>4. CASE b = "hollow" /\ queue[Item].block = "full"
      <3>1. queue' = [queue EXCEPT ![Item].block = "full"]
        BY <2>2, <2>4
      <3>2. QED
        BY <1>4, <2>1, <3>1 DEF Blocks
    <2>5. CASE ~(b = "hollow" /\ queue[Item].block = "full")
      <3>1. queue' = [queue EXCEPT ![Item].block = b]
        BY <2>2, <2>5
      <3>2. QED
        BY <1>4, <2>1, <2>3, <3>1
    <2>6. QED
      BY <2>4, <2>5
  <1>11. ASSUME ProcessDecide PROVE Stays /\ CountsInDecide /\ OverwritesOwn
    <2>1. Item \in 1..Len(queue)
      BY <1>11 DEF IInv, EntryInv, ProcessDecide
    <2>2. queue[Item] \in Entries
      BY <1>0, <2>1
    <2>3. \/ queue' = [queue EXCEPT ![Item] = [queue[Item] EXCEPT !.attempts = @ + 1]]
          \/ queue' = [queue EXCEPT ![Item] = [queue[Item] EXCEPT !.asked_network = TRUE]]
          \/ queue' = queue
      BY <1>11 DEF ProcessDecide
    <2>4. ASSUME NEW e \in Entries, e.cid = queue[Item].cid, e.block = queue[Item].block,
                 queue' = [queue EXCEPT ![Item] = e]
          PROVE  Stays /\ CountsInDecide /\ OverwritesOwn
      BY <1>0, <1>11, <2>1, <2>4, WriteEntry
    <2>5. QED
      BY <1>1, <2>2, <2>3, <2>4, EntryTried, EntryAsked
  <1>12. ASSUME NEW t \in Callers, Caller(t) PROVE Stays /\ CountsInDecide /\ OverwritesOwn
    <2>1. CASE \E c \in Cids : CallGet(t, c)
      BY <1>1, <2>1 DEF CallGet
    <2>2. CASE AddFind(t) \/ PollFilled(t) \/ PollEmpty(t) \/ RemoveFind(t)
      BY <1>1, <2>2 DEF AddFind, PollFilled, PollEmpty, RemoveFind
    <2>3. QED
      BY <1>2, <1>5, <1>6, <1>12, <2>1, <2>2 DEF Caller
  <1>13. ASSUME NEW r \in Receivers, Receiver(r) PROVE Stays /\ CountsInDecide /\ OverwritesOwn
    <2>1. CASE \E c \in Cids : PutOpen(r, c) \/ PutFails(r, c)
      BY <1>1, <2>1 DEF PutOpen, PutFails
    <2>2. CASE PutNoFile(r) \/ PutWrite(r) \/ PutClose(r) \/ PutShort(r) \/ PutIndex(r)
      BY <1>1, <2>2 DEF PutNoFile, PutWrite, PutClose, PutShort, PutIndex
    <2>3. QED
      BY <1>8, <1>13, <2>1, <2>2 DEF Receiver
  <1>14. ASSUME Process PROVE Stays /\ CountsInDecide /\ OverwritesOwn
    <2>1. CASE ProcPop \/ ProcSleep \/ GiveUpFind \/ ProcessStart
      BY <1>1, <2>1 DEF ProcPop, ProcSleep, GiveUpFind, ProcessStart, vars
    <2>2. QED
      BY <1>7, <1>9, <1>10, <1>11, <1>14, <2>1 DEF Process
  <1>15. CASE UNCHANGED vars
    BY <1>1, <1>15 DEF vars
  <1>16. QED
    BY <1>12, <1>13, <1>14, <1>15 DEF Next, Dead

\* The processor does not come to an entry that has a block: pop skips it.
LEMMA StepSettled ==
  IInv /\ [Next]_vars => \A i \in 1..Len(queue) : Settled(i) => Settled(i)'
  <1> SUFFICES ASSUME IInv, [Next]_vars, NEW i \in 1..Len(queue), Settled(i)
               PROVE  Settled(i)'
    OBVIOUS
  <1>a. /\ pc \in [Threads -> CallerPlaces \cup ReceiverPlaces \cup ProcessorPlaces]
        /\ ent \in [Threads -> Nat]
        /\ \A t \in Callers \cup Receivers : t \in Threads /\ t # Processor
        /\ Processor \in Threads
    BY ThreadAssumption DEF IInv, TypeOK, PlacesOK, LocalsOK, Threads, Callers
  <1>1. queue'[i].block = "full"
    BY StepEntries DEF OverwritesOwn, Settled
  <1>2. ASSUME UNCHANGED <<pc[Processor], ent[Processor]>> PROVE Settled(i)'
    BY <1>1, <1>2 DEF Settled, Item
  <1>3. ASSUME NEW t \in Callers, Caller(t) PROVE UNCHANGED <<pc[Processor], ent[Processor]>>
    BY <1>a, <1>3 DEF Caller, CallGet, AddFind, AddEntry, AddSession, PollFilled,
       PollEmpty, RemoveFind, RemoveDelete, Goto
  <1>4. ASSUME NEW r \in Receivers, Receiver(r) PROVE UNCHANGED <<pc[Processor], ent[Processor]>>
    BY <1>a, <1>4 DEF Receiver, PutOpen, PutFails, PutNoFile, PutWrite, PutClose,
       PutShort, PutIndex, Notify, Goto
  <1>5. CASE ProcPop
    <2>1. PICK j \in 1..Len(queue) : Pop(j) /\ ent' = [ent EXCEPT ![Processor] = j]
      BY <1>5 DEF ProcPop
    <2>2. Item' = j /\ j # i
      BY <1>a, <2>1 DEF Item, Pop, Pending, Settled
    <2> QED
      BY <1>1, <2>2 DEF Settled
  <1>6. CASE ProcessStart \/ ProcessGet
    <2>1. pc[Processor] \in {"process", "get"} /\ Item' = Item
      BY <1>6 DEF ProcessStart, ProcessGet, Item
    <2> QED
      BY <1>1, <2>1 DEF Settled
  <1>7. CASE GiveUpFind \/ GiveUpDelete \/ ProcessDecode \/ ProcessDecide
    <2>1. pc'[Processor] \in {"idle", "give up", "give up delete", "decide"}
      BY <1>a, <1>7 DEF GiveUpFind, GiveUpDelete, ProcessDecode, ProcessDecide,
         ProcLoop, Goto
    <2> QED
      BY <1>1, <2>1 DEF Settled
  <1>8. CASE UNCHANGED vars
    BY <1>2, <1>8 DEF vars
  <1> QED
    BY <1>2, <1>3, <1>4, <1>5, <1>6, <1>7, <1>8 DEF Next, Dead, Process, ProcSleep

(***************************************************************************)
(* get_block may poll its entry without wantlist_mutex: whatever the other *)
(* callers, the receivers and the processor do, its entry stays where it   *)
(* is, keeps its cid and, once it holds a whole block that the processor   *)
(* is not at work on, holds it for good.                                   *)
(***************************************************************************)
THEOREM EntriesAreKept == Spec => DeliveredStays
  <1>1. IInv /\ [Next]_vars => [KeepsEntries]_vars
    BY StepEntries, StepSettled DEF Stays, KeepsEntries
  <1>2. QED
    BY Invariance, <1>1, PTL DEF Spec, DeliveredStays

-----------------------------------------------------------------------------
(* The number of attempts. *)

\* What the processor works on when a step begins.
Processing == pc[Processor] \in {"process", "get", "decode", "decide"}

\* The bound on the attempts is inductive together with RetryInv: the attempts
\* are compared when an entry is popped and counted three steps later.
LEMMA StepRetries ==
  IInv /\ BoundedRetries /\ RetryInv /\ [Next]_vars => (BoundedRetries /\ RetryInv)'
  <1> SUFFICES ASSUME IInv, BoundedRetries, RetryInv, [Next]_vars
               PROVE  (BoundedRetries /\ RetryInv)'
    OBVIOUS
  <1>0. /\ queue \in Seq(Entries)
        /\ Len(queue) \in Nat
        /\ \A i \in 1..Len(queue) :
             queue[i].attempts \in Nat /\ queue[i].asked_network \in BOOLEAN
        /\ pc[Processor] # "idle" => Item \in 1..Len(queue)
    <2>1. queue \in Seq(Entries) /\ Len(queue) \in Nat
      BY LenProperties DEF IInv, TypeOK, SharedOK
    <2>2. \A i \in 1..Len(queue) : queue[i] \in Entries
      BY <2>1, ElementOfSeq
    <2>3. \A i \in 1..Len(queue) :
            queue[i].attempts \in Nat /\ queue[i].asked_network \in BOOLEAN
      BY <2>2 DEF Entries
    <2>4. pc[Processor] # "idle" => Item \in 1..Len(queue)
      BY DEF IInv, EntryInv
    <2>5. QED
      BY <2>1, <2>3, <2>4
  <1>m. MaxAttempts \in Nat
    BY BoundAssumption
  <1>t. /\ pc \in [Threads -> CallerPlaces \cup ReceiverPlaces \cup ProcessorPlaces]
        /\ ent \in [Threads -> Nat]
    BY DEF IInv, TypeOK, PlacesOK, LocalsOK
  <1>a. /\ \A t \in Callers : t \in Threads /\ t # Processor
        /\ \A r \in Receivers : r \in Threads /\ r # Processor
        /\ Processor \in Threads
    BY ThreadAssumption DEF Threads, Callers
  <1>k. Stays /\ CountsInDecide
    BY StepEntries
  <1>1. ASSUME \A i \in 1..Len(queue) :
                 /\ queue'[i].attempts = queue[i].attempts
                 /\ queue'[i].asked_network = queue[i].asked_network
        PROVE  BoundedRetries'
    BY <1>0, <1>1, <1>k, <1>m DEF BoundedRetries, CountsInDecide
  <1>2. ASSUME \A i \in 1..Len(queue) :
                 /\ queue'[i].attempts = queue[i].attempts
                 /\ queue'[i].asked_network = queue[i].asked_network,
               Processing' => Processing /\ Item' = Item
        PROVE  RetryInv'
    BY <1>0, <1>2 DEF RetryInv, Processing
  <1>3. CASE ProcessDecide
    <2>1. pc'[Processor] = "idle"
      BY <1>3, <1>a, <1>t DEF ProcessDecide, ProcLoop, Goto
    <2>2. /\ Item \in 1..Len(queue)
          /\ queue[Item].attempts <= MaxAttempts /\ ~queue[Item].asked_network
      BY <1>0, <1>3 DEF RetryInv, ProcessDecide
    <2>3. CASE queue' = [queue EXCEPT ![Item].attempts = @ + 1]
      <3>1. /\ Len(queue') = Len(queue)
            /\ queue'[Item].attempts = queue[Item].attempts + 1
            /\ queue'[Item].asked_network = queue[Item].asked_network
            /\ \A j \in 1..Len(queue) : j # Item => queue'[j] = queue[j]
        <4> DEFINE e == [queue[Item] EXCEPT !.attempts = @ + 1]
        <4>1. queue[Item] \in Entries
          BY <1>0, <2>2, ElementOfSeq
        <4>2. /\ e \in Entries /\ e.attempts = queue[Item].attempts + 1
              /\ e.asked_network = queue[Item].asked_network
          BY <4>1 DEF Entries
        <4>3. queue' = [queue EXCEPT ![Item] = e]
          BY <2>3
        <4> HIDE DEF e
        <4>4. QED
          BY <1>0, <2>2, <4>2, <4>3, UpdateEntry
      <3>2. QED
        BY <1>0, <1>m, <2>1, <2>2, <3>1 DEF BoundedRetries, RetryInv
    <2>4. CASE queue' = [queue EXCEPT ![Item].asked_network = TRUE]
      <3>1. /\ Len(queue') = Len(queue)
            /\ queue'[Item].attempts = queue[Item].attempts
            /\ \A j \in 1..Len(queue) : j # Item => queue'[j] = queue[j]
        <4> DEFINE e == [queue[Item] EXCEPT !.asked_network = TRUE]
        <4>1. queue[Item] \in Entries
          BY <1>0, <2>2, ElementOfSeq
        <4>2. e \in Entries /\ e.attempts = queue[Item].attempts
          BY <4>1 DEF Entries
        <4>3. queue' = [queue EXCEPT ![Item] = e]
          BY <2>4
        <4> HIDE DEF e
        <4>4. QED
          BY <1>0, <2>2, <4>2, <4>3, UpdateEntry
      <3>2. QED
        BY <1>0, <1>m, <2>1, <2>2, <3>1 DEF BoundedRetries, RetryInv
    <2>5. CASE queue' = queue
      BY <2>1, <2>5 DEF BoundedRetries, RetryInv
    <2>6. QED
      BY <1>3, <2>3, <2>4, <2>5 DEF ProcessDecide
  <1>4. CASE ProcPop
    <2>1. queue' = queue
      BY <1>4 DEF ProcPop
    <2>2. PICK i \in 1..Len(queue) :
            /\ Pending(i)
            /\ ent' = [ent EXCEPT ![Processor] = i]
            /\ pc' = [pc EXCEPT ![Processor] =
                        IF queue[i].attempts > MaxAttempts THEN "give up" ELSE "process"]
      BY <1>4 DEF ProcPop, Pop, Goto
    <2>3. Item' = i
      BY <1>a, <1>t, <2>2 DEF Item
    <2>4. pc'[Processor] \in {"process", "get", "decode", "decide"}
            => queue[i].attempts <= MaxAttempts
      <3>1. CASE queue[i].attempts > MaxAttempts
        BY <1>a, <1>t, <2>2, <3>1
      <3>2. CASE ~(queue[i].attempts > MaxAttempts)
        BY <1>0, <1>m, <3>2
      <3>3. QED
        BY <3>1, <3>2
    <2>5. RetryInv'
      BY <2>1, <2>2, <2>3, <2>4 DEF RetryInv, Pending
    <2>6. QED
      BY <1>1, <2>1, <2>5
  <1>5. ASSUME ~ProcessDecide, Processing' => Processing /\ Item' = Item
        PROVE  (BoundedRetries /\ RetryInv)'
    BY <1>1, <1>2, <1>5, <1>k DEF CountsInDecide
  <1>6. ASSUME pc'[Processor] = pc[Processor], Item' = Item, ~ProcessDecide
        PROVE  (BoundedRetries /\ RetryInv)'
    BY <1>5, <1>6 DEF Processing
  <1>7. CASE ProcSleep \/ GiveUpFind \/ GiveUpDelete \/ ProcessStart \/ ProcessGet
             \/ ProcessDecode
    <2>1. ~ProcessDecide
      BY <1>7 DEF ProcessDecide, ProcSleep, GiveUpFind, GiveUpDelete,
         ProcessStart, ProcessGet, ProcessDecode
    <2>2. Processing' => Processing /\ Item' = Item
      <3>1. CASE ProcSleep
        BY <3>1 DEF ProcSleep, Processing, Item, vars
      <3>2. CASE GiveUpFind \/ GiveUpDelete
        BY <1>a, <1>t, <3>2 DEF GiveUpFind, GiveUpDelete, Processing, ProcLoop, Goto
      <3>3. CASE ProcessStart \/ ProcessGet \/ ProcessDecode
        BY <1>a, <1>t, <3>3 DEF ProcessStart, ProcessGet, ProcessDecode,
           Processing, Item, Goto
      <3>4. QED
        BY <1>7, <3>1, <3>2, <3>3
    <2>3. QED
      BY <1>5, <2>1, <2>2
  <1>8. CASE ProcessDecide \/ ProcPop
    BY <1>3, <1>4, <1>8
  <1>9. ASSUME NEW t \in Callers, Caller(t), ~ProcessDecide
        PROVE  (BoundedRetries /\ RetryInv)'
    <2>1. ent' = ent \/ \E n : ent' = [ent EXCEPT ![t] = n]
      BY <1>9 DEF Caller, CallGet, AddFind, AddEntry, AddSession, PollFilled,
         PollEmpty, RemoveFind, RemoveDelete
    <2>2. pc' = pc \/ \E there : pc' = [pc EXCEPT ![t] = there]
      BY <1>9 DEF Caller, CallGet, AddFind, AddEntry, AddSession, PollFilled,
         PollEmpty, RemoveFind, RemoveDelete, Goto
    <2>3. pc'[Processor] = pc[Processor] /\ Item' = Item
      BY <1>a, <1>t, <2>1, <2>2 DEF Item
    <2>4. QED
      BY <1>6, <1>9, <2>3
  <1>10. ASSUME NEW r \in Receivers, Receiver(r), ~ProcessDecide
         PROVE  (BoundedRetries /\ RetryInv)'
    <2>1. ent' = ent
      BY <1>10 DEF Receiver, PutOpen, PutFails, PutNoFile, PutWrite, PutClose, PutShort, PutIndex, Notify
    <2>2. pc' = pc \/ \E there : pc' = [pc EXCEPT ![r] = there]
      BY <1>10 DEF Receiver, PutOpen, PutFails, PutNoFile, PutWrite, PutClose, PutShort, PutIndex,
         Notify, Goto
    <2>3. pc'[Processor] = pc[Processor] /\ Item' = Item
      BY <1>a, <1>t, <2>1, <2>2 DEF Item
    <2>4. QED
      BY <1>6, <1>10, <2>3
  <1>11. CASE UNCHANGED vars
    BY <1>11 DEF vars, BoundedRetries, RetryInv, Item
  <1>12. QED
    BY <1>7, <1>8, <1>9, <1>10, <1>11 DEF Next, Dead, Process

(***************************************************************************)
(* The processor asks the router for one cid at most MaxAttempts + 1       *)
(* times, and an entry that was given up was never asked of the network.   *)
(***************************************************************************)
THEOREM RetriesAreBounded == Spec => []BoundedRetries
  <1>1. Init => BoundedRetries /\ RetryInv
    <2>1. ASSUME Init PROVE Len(queue) = 0 /\ pc[Processor] = "idle"
      BY <2>1, EmptySeq DEF Init, Threads
    <2>2. QED
      BY <2>1 DEF BoundedRetries, RetryInv
  <1>2. QED
    BY Invariance, <1>1, StepRetries, PTL DEF Spec

-----------------------------------------------------------------------------
(* The refinement of BlockExchange. *)

\* What a caller of the exchange sees: whether it has called, and its answer.
LEMMA StatusValues ==
  ASSUME IInv, NEW t \in Callers
  PROVE  /\ pc[t] = "idle" => Status(t) = "idle"
         /\ pc[t] \in {"lock", "append", "session", "poll"} => Status(t) = "waiting"
         /\ result[t] \in {"full", "hollow", "freed"} => Status(t) = "found"
         /\ result[t] \in {"timeout", "queued"} => Status(t) = result[t]
  <1>1. (result[t] = "none") <=> (pc[t] \in {"idle", "lock", "append", "session", "poll"})
    BY DEF IInv, ResultInv
  <1>2. QED
    BY <1>1 DEF Status

\* The initial states of the wantlist are initial states of the exchange.
LEMMA InitExchange == Init => Exchange!Init
  <1> SUFFICES ASSUME Init PROVE Exchange!Init
    OBVIOUS
  <1>1. \A t \in Callers : Status(t) = "idle" /\ cid[t] = NoCid
    BY DEF Init, Status, Callers, Threads
  <1>2. Statuses = [t \in GetCallers \cup AsyncCallers |-> "idle"]
    BY <1>1 DEF Statuses, Callers
  <1>3. Wants = [t \in GetCallers \cup AsyncCallers |-> NoCid]
    BY <1>1 DEF Wants, Callers
  <1>4. Available \in SUBSET Cids
    BY DEF Available
  <1>5. QED
    BY <1>2, <1>3, <1>4 DEF Exchange!Init, Exchange!XCallers

\* A step that changes the answer and the cid of caller t only.
LEMMA OneCall ==
  ASSUME IInv, NEW t \in Callers,
         \A u \in Callers \ {t} : /\ result'[u] = result[u]
                                  /\ pc'[u] = pc[u]
                                  /\ cid'[u] = cid[u],
         file' = file, unstored' = unstored
  PROVE  /\ Statuses' = [Statuses EXCEPT ![t] = Status(t)']
         /\ Wants' = [Wants EXCEPT ![t] = cid'[t]]
         /\ Available' = Available
  <1>1. \A u \in Callers \ {t} : Status(u)' = Status(u)
    BY DEF Status
  <1>2. Statuses' = [u \in Callers |-> IF u = t THEN Status(t)' ELSE Statuses[u]]
    BY <1>1 DEF Statuses
  <1>3. Statuses' = [Statuses EXCEPT ![t] = Status(t)']
    BY <1>2 DEF Statuses
  <1>4. Wants' = [Wants EXCEPT ![t] = cid'[t]]
    BY DEF Wants
  <1>5. QED
    BY <1>3, <1>4 DEF Available

\* Every step of the wantlist is a step of the exchange or leaves what its
\* callers see as it was.
LEMMA StepExchange == IInv /\ IInv' /\ [Next]_vars => [Exchange!Next]_Exchange!xvars
  <1> SUFFICES ASSUME IInv, IInv', [Next]_vars PROVE [Exchange!Next]_Exchange!xvars
    OBVIOUS
  <1>t. /\ pc \in [Threads -> CallerPlaces \cup ReceiverPlaces \cup ProcessorPlaces]
        /\ cid \in [Callers \cup Receivers -> Cids \cup {NoCid}]
        /\ result \in [Callers -> Results]
        /\ file \in [Cids -> Files] /\ unstored \in SUBSET Cids
    BY DEF IInv, TypeOK, PlacesOK, LocalsOK, SharedOK
  <1>a. /\ \A t \in Callers : t \in Threads /\ t # Processor /\ t \notin Receivers
        /\ Processor \notin Callers
        /\ \A t \in Callers : t \notin AsyncCallers <=> t \in GetCallers
        /\ Exchange!XCallers = Callers
    BY ThreadAssumption DEF Threads, Callers, Exchange!XCallers
  <1>s. ASSUME NEW t \in Callers
        PROVE  /\ pc[t] = "idle" => Status(t) = "idle"
               /\ pc[t] \in {"lock", "append", "session", "poll"} => Status(t) = "waiting"
               /\ result[t] \in {"full", "hollow", "freed"} => Status(t) = "found"
               /\ result[t] \in {"timeout", "queued"} => Status(t) = result[t]
               /\ Statuses[t] = Status(t) /\ Wants[t] = cid[t]
    BY StatusValues DEF Statuses, Wants
  <1>p. ASSUME NEW t \in Callers
        PROVE  /\ pc'[t] = "idle" => Status(t)' = "idle"
               /\ pc'[t] \in {"lock", "append", "session", "poll"} => Status(t)' = "waiting"
               /\ result'[t] \in {"full", "hollow", "freed"} => Status(t)' = "found"
               /\ result'[t] \in {"timeout", "queued"} => Status(t)' = result'[t]
    <2>1. (result[t] = "none")' <=> (pc[t] \in {"idle", "lock", "append", "session", "poll"})'
      BY DEF IInv, ResultInv
    <2>2. QED
      BY <2>1 DEF Status
  <1>q. ASSUME \A u \in Callers : /\ result'[u] = result[u]
                                  /\ pc'[u] = "idle" <=> pc[u] = "idle"
                                  /\ cid'[u] = cid[u],
               \A c \in Cids : Kept(c)' <=> Kept(c)
        PROVE  UNCHANGED Exchange!xvars
    <2>1. \A u \in Callers : Status(u)' = Status(u)
      BY <1>q DEF Status
    <2>2. Statuses' = Statuses
      BY <2>1 DEF Statuses
    <2>3. Wants' = Wants
      BY <1>q DEF Wants
    <2>4. Available' = Available
      BY <1>q DEF Available
    <2>5. QED
      BY <2>2, <2>3, <2>4 DEF Exchange!xvars
  <1>1. ASSUME NEW t \in Callers, NEW c \in Cids, CallGet(t, c)
        PROVE  Exchange!Next
    <2>1. /\ Statuses' = [Statuses EXCEPT ![t] = Status(t)']
          /\ Wants' = [Wants EXCEPT ![t] = c]
          /\ Available' = Available
      <3>1. /\ \A u \in Callers \ {t} : /\ result'[u] = result[u]
                                        /\ pc'[u] = pc[u]
                                        /\ cid'[u] = cid[u]
            /\ file' = file /\ unstored' = unstored /\ cid'[t] = c
        BY <1>1, <1>a, <1>t DEF CallGet, Goto
      <3>2. QED
        BY <3>1, OneCall
    <2>2. Statuses[t] = "idle"
      BY <1>1, <1>s DEF CallGet
    <2>3. CASE pc'[t] = "lock"
      <3>1. Status(t)' = "waiting"
        BY <1>p, <2>3
      <3>2. Exchange!Ask(t, c)
        BY <2>1, <2>2, <3>1 DEF Exchange!Ask
      <3>3. QED
        BY <1>a, <3>2 DEF Exchange!Next
    <2>4. CASE pc'[t] # "lock"
      <3>1. PICK b \in Decoded(file[c]) :
              /\ b # "freed"
              /\ result' = [result EXCEPT ![t] = IF t \in AsyncCallers THEN "queued" ELSE b]
        BY <1>1, <1>a, <1>t, <2>4 DEF CallGet, Goto
      <3>2. b \in {"full", "hollow"} /\ c \in Available
        BY <3>1 DEF Decoded, Available, Absent, Parts
      <3>3. result'[t] = IF t \in AsyncCallers THEN "queued" ELSE b
        BY <1>t, <3>1
      <3>4. Status(t)' = IF t \in AsyncCallers THEN "queued" ELSE "found"
        BY <1>p, <3>2, <3>3
      <3>5. Exchange!AskAvailable(t, c)
        BY <2>1, <2>2, <3>2, <3>4 DEF Exchange!AskAvailable
      <3>6. QED
        BY <1>a, <3>5 DEF Exchange!Next
    <2>5. QED
      BY <2>3, <2>4
  <1>2. ASSUME NEW t \in Callers, AddSession(t) \/ PollFilled(t) \/ PollEmpty(t)
        PROVE  [Exchange!Next]_Exchange!xvars
    <2>1. /\ Statuses' = [Statuses EXCEPT ![t] = Status(t)']
          /\ Wants' = Wants /\ Available' = Available
      <3>1. /\ \A u \in Callers \ {t} : /\ result'[u] = result[u]
                                        /\ pc'[u] = pc[u]
                                        /\ cid'[u] = cid[u]
            /\ file' = file /\ unstored' = unstored /\ cid' = cid
        BY <1>2, <1>a, <1>t DEF AddSession, PollFilled, PollEmpty, Goto
      <3>2. Wants' = Wants
        BY <3>1 DEF Wants
      <3>3. QED
        BY <3>1, <3>2, OneCall
    <2>2. Statuses[t] = "waiting"
      BY <1>2, <1>s DEF AddSession, PollFilled, PollEmpty
    <2>3. CASE Status(t)' = "waiting"
      <3>1. Statuses' = Statuses
        BY <2>1, <2>2, <2>3 DEF Statuses
      <3>2. QED
        BY <2>1, <3>1 DEF Exchange!xvars
    <2>4. CASE AddSession(t) /\ Status(t)' # "waiting"
      <3>1. t \in AsyncCallers /\ result'[t] = "queued"
        <4>1. CASE t \in AsyncCallers
          BY <1>t, <2>4, <4>1 DEF AddSession
        <4>2. CASE t \notin AsyncCallers
          BY <1>a, <1>p, <1>t, <2>4, <4>2 DEF AddSession, Goto
        <4>3. QED
          BY <4>1, <4>2
      <3>2. Exchange!Enqueue(t)
        BY <1>p, <2>1, <2>2, <3>1 DEF Exchange!Enqueue
      <3>3. QED
        BY <1>a, <3>2 DEF Exchange!Next
    <2>5. CASE PollFilled(t) /\ Status(t)' # "waiting"
      <3>1. t \in GetCallers
        BY <1>a, <2>5 DEF IInv, ResultInv, PollFilled
      <3>2. ent[t] \in 1..Len(queue) /\ queue[ent[t]].cid = cid[t]
        BY <2>5 DEF IInv, EntryInv, PollFilled
      <3>3. queue[ent[t]].block \in Blocks /\ cid[t] \in Cids
        <4>1. queue[ent[t]] \in Entries
          BY <3>2, ElementOfSeq DEF IInv, TypeOK, SharedOK
        <4>2. QED
          BY <3>2, <4>1 DEF Entries
      <3>4. Wants[t] \in Available
        <4>1. Kept(cid[t])
          BY <2>5, <3>2 DEF IInv, StoredBeforeReturned, PollFilled
        <4>2. Wants[t] = cid[t]
          BY <1>s
        <4>3. QED
          BY <3>3, <4>1, <4>2 DEF Available
      <3>5. result'[t] = queue[ent[t]].block /\ queue[ent[t]].block # "building"
        <4>1. CASE queue[ent[t]].block = "building"
          BY <1>p, <2>5, <4>1 DEF PollFilled
        <4>2. CASE queue[ent[t]].block # "building"
          BY <1>t, <2>5, <4>2 DEF PollFilled
        <4>3. QED
          BY <4>1, <4>2
      <3>6. result'[t] \in {"full", "hollow", "freed"}
        BY <2>5, <3>3, <3>5 DEF Blocks, PollFilled
      <3>7. Exchange!Find(t)
        BY <1>p, <2>1, <2>2, <3>1, <3>4, <3>6 DEF Exchange!Find
      <3>8. QED
        BY <1>a, <3>7 DEF Exchange!Next
    <2>6. CASE PollEmpty(t) /\ Status(t)' # "waiting"
      <3>1. t \in GetCallers
        BY <1>a, <2>6 DEF IInv, ResultInv, PollEmpty
      <3>2. result'[t] = "timeout"
        <4>1. CASE timeTaken[t] + 1 >= Timeout
          BY <1>t, <2>6, <4>1 DEF PollEmpty
        <4>2. CASE ~(timeTaken[t] + 1 >= Timeout)
          BY <1>p, <2>6, <4>2 DEF PollEmpty
        <4>3. QED
          BY <4>1, <4>2
      <3>3. Exchange!GiveUp(t)
        BY <1>p, <2>1, <2>2, <3>1, <3>2 DEF Exchange!GiveUp
      <3>4. QED
        BY <1>a, <3>3 DEF Exchange!Next
    <2>7. QED
      BY <1>2, <2>3, <2>4, <2>5, <2>6
  <1>3. ASSUME NEW t \in Callers, AddFind(t) \/ AddEntry(t) \/ RemoveFind(t) \/ RemoveDelete(t)
        PROVE  UNCHANGED Exchange!xvars
    <2>1. /\ result' = result /\ cid' = cid /\ file' = file /\ unstored' = unstored
          /\ \A u \in Callers : pc'[u] = "idle" <=> pc[u] = "idle"
      BY <1>3, <1>a, <1>t DEF AddFind, AddEntry, RemoveFind, RemoveDelete, Goto, callVars
    <2>2. QED
      BY <1>q, <2>1
  <1>4. ASSUME NEW r \in Receivers, Receiver(r) PROVE [Exchange!Next]_Exchange!xvars
    <2>1. \A u \in Callers : /\ result'[u] = result[u]
                             /\ pc'[u] = pc[u]
                             /\ cid'[u] = cid[u]
      BY <1>4, <1>a, <1>t DEF Receiver, PutOpen, PutFails, PutNoFile, PutWrite, PutClose, PutShort,
         PutIndex, Notify, Goto, callVars
    <2>2. CASE \E c \in Cids : PutOpen(r, c)
      <3>1. PICK c \in Cids : PutOpen(r, c)
        BY <2>2
      <3>2. Available' = Available \cup {c}
        BY <1>t, <3>1, PartOfFile DEF Available, PutOpen
      <3>3. Statuses' = Statuses /\ Wants' = Wants
        BY <2>1 DEF Statuses, Wants, Status
      <3>4. QED
        BY <3>2, <3>3 DEF Exchange!Store, Exchange!Next
    <2>3. CASE PutWrite(r) \/ PutClose(r)
      <3>1. cid[r] \in Cids /\ file[cid[r]] # Absent
        BY <2>3 DEF PutWrite, PutClose, IInv, TypeOK, LocalsOK, FileInv
      <3>2. PICK p \in Parts : file' = [file EXCEPT ![cid[r]] = @ \cup {p}]
        BY <2>3 DEF PutWrite, PutClose, Parts
      <3>3. \A c \in Cids : Kept(c)' <=> Kept(c)
        BY <1>t, <2>3, <3>1, <3>2, PartOfFile DEF PutWrite, PutClose
      <3>4. QED
        BY <1>q, <2>1, <3>3
    <2>4. CASE PutNoFile(r) \/ PutShort(r) \/ PutIndex(r) \/ Notify(r)
      <3>1. file' = file /\ unstored' = unstored
        BY <2>4 DEF PutNoFile, PutShort, PutIndex, Notify
      <3>2. QED
        BY <1>q, <2>1, <3>1
    <2>5. CASE \E c \in Cids : PutFails(r, c)
      <3>1. PICK c \in Cids : PutFails(r, c)
        BY <2>5
      <3>2. Available' = Available \cup {c}
        BY <1>t, <3>1 DEF Available, PutFails
      <3>3. Statuses' = Statuses /\ Wants' = Wants
        BY <2>1 DEF Statuses, Wants, Status
      <3>4. QED
        BY <3>2, <3>3 DEF Exchange!Store, Exchange!Next
    <2>6. QED
      BY <1>4, <2>2, <2>3, <2>4, <2>5 DEF Receiver
  <1>5. ASSUME Process PROVE UNCHANGED Exchange!xvars
    <2>1. result' = result /\ cid' = cid /\ file' = file /\ unstored' = unstored
      BY <1>5 DEF Process, ProcPop, ProcSleep, GiveUpFind, GiveUpDelete,
         ProcessStart, ProcessGet, ProcessDecode, ProcessDecide, callVars, vars
    <2>2. pc' = pc \/ \E there : pc' = [pc EXCEPT ![Processor] = there]
      BY <1>5 DEF Process, ProcPop, ProcSleep, GiveUpFind, GiveUpDelete,
         ProcessStart, ProcessGet, ProcessDecode, ProcessDecide, ProcLoop, Goto, vars
    <2>3. \A u \in Callers : pc'[u] = pc[u]
      BY <1>a, <1>t, <2>2
    <2>4. QED
      BY <1>q, <2>1, <2>3
  <1>6. CASE UNCHANGED vars
    BY <1>6, <1>q DEF vars, callVars
  <1>7. ASSUME NEW t \in Callers, Caller(t) PROVE [Exchange!Next]_Exchange!xvars
    BY <1>1, <1>2, <1>3, <1>7 DEF Caller
  <1>8. QED
    BY <1>4, <1>5, <1>6, <1>7 DEF Next, Dead

(***************************************************************************)
(* The wantlist with all its unlocked reads and writes implements the      *)
(* exchange of exchange.h: each call gets one answer, for its own cid, and *)
(* it is "found" only for a block that has reached the node.               *)
(***************************************************************************)
THEOREM Refinement == Spec => ImplementsExchange
  BY InitExchange, StepExchange, Invariance, PTL
     DEF Spec, ImplementsExchange, Exchange!Spec

=============================================================================
