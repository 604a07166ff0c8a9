------------------------------- MODULE Journal -------------------------------
(***************************************************************************)
(* The journal protocol (journal/journal.c) on top of the datastore: a      *)
(* thread that handles the journal messages of other nodes while another    *)
(* thread adds blocks and publishes names, and the maintenance that         *)
(* announces this node's journal to a replication peer (core/null.c).       *)
(***************************************************************************)
EXTENDS Datastore

CONSTANTS
  Handler,       \* the thread that handles journal messages
  Messages,      \* what the entries of a message can be: sequences of entries
  LastN,         \* ipfs_journal_sync asks for the last 10 records
  AnnounceSecs   \* replication->announce_minutes * 60

VARIABLES
  incoming,      \* entries of the message that are not compared yet
  todo,          \* what is left to do for it
  adjusted,      \* the adjustments that were made (history)
  lastConnect    \* when the replication peer was sent its last message

jvars == <<incoming, todo, adjusted, lastConnect>>
vars == <<dsvars, jvars>>

ASSUME HandlerAssumption == Handler \in Threads
ASSUME LastNAssumption == LastN \in Nat \ {0}

Entries == [hash : Keys \cup Names, timestamp : Times \cup {0}]

ASSUME MessagesAssumption == Messages \subseteq Seq(Entries)

Todos == [action : {"JOURNAL_ENTRY_NEEDED", "JOURNAL_TIME_ADJUST"}, entry : Entries]

-----------------------------------------------------------------------------
(* ipfs_journal_handle_message *)

\* A message whose clock is within five minutes of ours.  When the header came
\* alone the message is read into memory that is freed before it is decoded, and
\* when it did not, one byte too many is decoded: it may also be dropped (no
\* step) or end the process (Crash).
Receive(m) ==
  /\ pc[Handler] = "idle" /\ incoming = <<>> /\ todo = <<>>
  /\ incoming' = m
  /\ UNCHANGED <<dsvars, todo, adjusted, lastConnect>>

TimeDiffers(rec, e) ==
  /\ e.timestamp # 0
  /\ rec.timestamp = 0 \/ e.timestamp < rec.timestamp

\* ipfs_journal_build_todo: one entry of the message, and one datastore_get.
BuildTodo ==
  /\ incoming # <<>> /\ writer = NoThread
  /\ LET e   == Head(incoming)
         rec == lmdb_get(e.hash)
     IN  todo' = CASE rec = NoRecord ->
                        Append(todo, [action |-> "JOURNAL_ENTRY_NEEDED", entry |-> e])
                   [] rec # NoRecord /\ TimeDiffers(rec, e) ->
                        Append(todo, [action |-> "JOURNAL_TIME_ADJUST", entry |-> e])
                   [] OTHER -> todo
  /\ incoming' = Tail(incoming)
  /\ UNCHANGED <<dsvars, adjusted, lastConnect>>

NextTodo(action) ==
  /\ pc[Handler] = "idle" /\ incoming = <<>>
  /\ todo # <<>> /\ Head(todo).action = action

\* JOURNAL_ENTRY_NEEDED: the exchange has the block or is asked for it.  Either way
\* the block pointer given to GetBlockAsync stays NULL (bitswap.c:228 declares a
\* local of the same name), so the time of the other node is forgotten.
WantEntry ==
  /\ NextTodo("JOURNAL_ENTRY_NEEDED")
  /\ todo' = Tail(todo)
  /\ UNCHANGED <<dsvars, incoming, adjusted, lastConnect>>

\* ipfs_journal_adjust_time: the record is read again, and is old enough by now.
\* A todo of this kind was built from a record, which is never deleted, and from
\* an entry with a time.
NothingToAdjust ==
  /\ NextTodo("JOURNAL_TIME_ADJUST") /\ writer = NoThread
  /\ LET e   == Head(todo).entry
         rec == lmdb_get(e.hash)
     IN  /\ rec # NoRecord /\ e.timestamp # 0 /\ rec.timestamp <= e.timestamp
         /\ adjusted' = adjusted \cup {e}
  /\ todo' = Tail(todo)
  /\ UNCHANGED <<dsvars, incoming, lastConnect>>

\* datastore_get fails: the handler goes on with the next todo.
CannotRead ==
  /\ NextTodo("JOURNAL_TIME_ADJUST")
  /\ Fault
  /\ todo' = Tail(todo)
  /\ UNCHANGED <<data, journal, files, writer, pc, arg, clock, incoming, adjusted, lastConnect>>

\* Otherwise it is put back with the time of the other node (with its own when
\* the other node has none).
AdjustTime ==
  /\ NextTodo("JOURNAL_TIME_ADJUST") /\ writer = NoThread
  /\ LET e   == Head(todo).entry
         rec == lmdb_get(e.hash)
     IN  /\ rec # NoRecord
         /\ e.timestamp = 0 \/ rec.timestamp > e.timestamp
         /\ arg' = [arg EXCEPT ![Handler] =
                      IF e.timestamp = 0 THEN rec
                      ELSE [rec EXCEPT !.timestamp = e.timestamp]]
  /\ pc' = [pc EXCEPT ![Handler] = "begin"]
  /\ UNCHANGED <<data, journal, files, writer, clock, faults, jvars>>

\* The put of the adjusted record returned, and the handler goes on whatever it
\* returned.
Adjusted ==
  LET e == Head(todo).entry
  IN  /\ todo' = Tail(todo)
      /\ adjusted' = IF e.timestamp = 0 THEN adjusted ELSE adjusted \cup {e}
      /\ UNCHANGED <<incoming, lastConnect>>

\* A step of a put by a thread, and what the handler does when its put is over.
PutOf(t) ==
  /\ PutStep(t)
  /\ IF t = Handler /\ pc'[t] = "idle" THEN Adjusted ELSE UNCHANGED jvars

-----------------------------------------------------------------------------
(* Maintenance: ipfs_null_do_maintenance, ipfs_journal_sync. *)

\* ipfs_journal_get_last: the last record; then cursor_get, given that record as
\* what to look for, finds it again after going back one (and adds it again) as
\* long as the one before has the same time, and stops otherwise.
ipfs_journal_get_last(n) ==
  LET last == CursorLast
      prev == CursorPrevious(last)
  IN  IF prev # NoRecord /\ SearchFinds(prev, last)
      THEN [i \in 1..n |-> last]
      ELSE <<last>>

Due == clock - lastConnect > AnnounceSecs

\* Nothing to announce, or one message that was sent.  A send that fails, and a
\* peer that cannot be connected, leave lastConnect alone.
Sync ==
  /\ Due /\ writer = NoThread
  /\ journal # {} => Len(ipfs_journal_get_last(LastN)) = 1
  /\ lastConnect' = clock
  /\ UNCHANGED <<dsvars, incoming, todo, adjusted>>

\* The process ends: it is killed, or a message repeated one record and
\* ipfs_journal_free_records freed it again.  The tables stay.
Crash ==
  /\ DSCrash
  /\ incoming' = <<>> /\ todo' = <<>>
  /\ lastConnect' = 0
  /\ UNCHANGED adjusted

-----------------------------------------------------------------------------
Init ==
  /\ DSInit
  /\ incoming = <<>> /\ todo = <<>> /\ adjusted = {}
  /\ lastConnect = 0

Next ==
  \/ \E t \in Threads \ {Handler} :
       /\ \/ \E k \in Keys : AddBlock(t, k)
          \/ \E k \in Names, p \in Paths : Publish(t, k, p)
       /\ UNCHANGED jvars
  \/ \E t \in Threads : PutOf(t)
  \/ Tick /\ UNCHANGED jvars
  \/ \E m \in Messages : Receive(m)
  \/ BuildTodo \/ WantEntry \/ NothingToAdjust \/ CannotRead \/ AdjustTime
  \/ Sync
  \/ Crash

Spec == Init /\ [][Next]_vars

-----------------------------------------------------------------------------
(* Types of the two tables, of each thread's place in the code and of the
   handler's todo list (struct JournalToDo).                              *)
TypeOK ==
  /\ DSTypeOK
  /\ incoming \in Seq(Entries) /\ todo \in Seq(Todos)
  /\ adjusted \subseteq Entries
  /\ lastConnect \in Times \cup {0}

\* Once the handler has dealt with an entry whose record was here when the message
\* was compared (JOURNAL_TIME_ADJUST), and while no call has failed, a record of the
\* block has a time that is not later than the other node's: whatever other threads
\* put between its two reads and its write, the older time is kept.
EarliestKept ==
  faults = 0 =>
    \A e \in adjusted :
      \E r \in data : r.key = e.hash /\ r.timestamp <= e.timestamp

\* While no call has failed, the one write transaction is always held by a thread
\* that is about to end it: no search of the journal inside put runs off the end of
\* the table and no path out of put keeps the transaction, so nobody waits for
\* ever in mdb_txn_begin.
TransactionEnds ==
  faults = 0 =>
    /\ writer # NoThread => pc[writer] = "body"
    /\ \A t \in Threads : pc[t] # "stuck"

\* "Retrieve the last n records from the journalstore" (ipfs_journal_get_last).
LastRecords ==
  (journal # {} /\ faults = 0) =>
    LET got == ipfs_journal_get_last(LastN)
    IN  {got[i] : i \in 1..Len(got)} =
          {x \in journal : Cardinality({y \in journal : JournalBefore(x, y)}) < LastN}
=============================================================================
