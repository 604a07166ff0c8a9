------------------------------ MODULE Datastore ------------------------------
(***************************************************************************)
(* The datastore and the journalstore of a repository: two LMDB tables that *)
(* put writes in one transaction (repo/fsrepo/lmdb_datastore.c,             *)
(* repo/fsrepo/lmdb_journalstore.c, datastore/ds_helper.c), and the name    *)
(* records the publisher keeps among them (namesys/publisher.c).            *)
(*                                                                         *)
(* Both tables are opened with MDB_DUPSORT: a key has a set of values, a    *)
(* second put of a key adds a value, and a get returns the first one in the *)
(* order of the bytes.  LMDB has one write transaction at a time, and the   *)
(* code opens no other kind, so get and put both wait for it.               *)
(***************************************************************************)
EXTENDS Integers, FiniteSets, Sequences

CONSTANTS
  Keys,        \* hashes of blocks
  Names,       \* hashes of peer ids, the keys of name records
  Paths,       \* what a name can be published as
  Times,       \* seconds the clock shows
  Threads,     \* threads of the process that use the datastore
  NoThread, NoRecord,
  Garbage,     \* what dead stack memory holds
  MaxFaults    \* failures of malloc, of LMDB and of dead stack memory

VARIABLES
  data,        \* table DATASTORE: a set of records
  journal,     \* table JOURNALSTORE: a set of journal records
  files,       \* blocks whose file is in the blockstore
  writer,      \* the thread that holds LMDB's write transaction
  pc,          \* where a thread is in put
  arg,         \* the record a thread puts
  clock,       \* os_utils_gmtime
  faults

dsvars == <<data, journal, files, writer, pc, arg, clock, faults>>

\* Eight bytes of a varint, the buffers of the code, hold a time.
ASSUME TimesAssumption == Times \subseteq {t \in Nat \ {0} : t \div 128^4 < 128^4}
ASSUME NamesAssumption == Keys \cap Names = {}
ASSUME FaultsAssumption == MaxFaults \in Nat
\* Hashes have one length: a hash is its bytes read as a number.
ASSUME HashesAssumption == Keys \cup Names \subseteq Nat
ASSUME ThreadsAssumption == NoThread \notin Threads

\* The value of a block's record is the base32 form of its key.
ds_key_from_binary(k) == <<"base32", k>>

Values == {ds_key_from_binary(k) : k \in Keys} \cup Paths

Records == [key : Keys \cup Names, timestamp : Times \cup {0}, value : Values]

JournalRecords ==
  [timestamp : Times \cup {0}, hash : Keys \cup Names \cup {Garbage},
   pin : {0, 1}, pending : {0, 1}]

ASSUME NoRecordAssumption == NoRecord \notin Records \cup JournalRecords

-----------------------------------------------------------------------------
(* Byte order. *)

\* t without its n lowest groups of seven bits.
Shifted(t, n) == IF n <= 4 THEN t \div 128^n ELSE (t \div 128^4) \div 128^(n - 4)

\* varint_encode: seven bits a byte, the lowest first, a mark on all but the
\* last, in at most eight bytes.
VarintSize(t) == CHOOSE n \in 1..8 : Shifted(t, n) = 0 /\ (n > 1 => Shifted(t, n - 1) # 0)

Varint(t) ==
  [i \in 1..VarintSize(t) |->
     (Shifted(t, i - 1) % 128) + (IF i < VarintSize(t) THEN 128 ELSE 0)]

\* LMDB compares keys and duplicate values with memcmp, a prefix first.
Precedes(a, b) ==
  \E i \in 1..Len(b) :
    /\ \A j \in 1..(i - 1) : j <= Len(a) /\ a[j] = b[j]
    /\ i > Len(a) \/ a[i] < b[i]

\* The journal is sorted by its key, the time, and then by pin, pending, hash.
JournalBefore(x, y) ==
  \/ Precedes(Varint(x.timestamp), Varint(y.timestamp))
  \/ /\ x.timestamp = y.timestamp
     /\ \/ x.pin < y.pin
        \/ x.pin = y.pin /\ x.pending < y.pending
        \/ /\ x.pin = y.pin /\ x.pending = y.pending
           /\ x.hash \in Nat /\ y.hash \in Nat /\ x.hash < y.hash

-----------------------------------------------------------------------------
(* Reading. *)

\* mdb_get on a table of duplicates: the value whose bytes come first, and the
\* bytes begin with the time.
lmdb_get(k) ==
  LET same == {r \in data : r.key = k}
  IN  IF same = {} THEN NoRecord
      ELSE CHOOSE r \in same :
             \A s \in same : ~Precedes(Varint(s.timestamp), Varint(r.timestamp))

CursorFirst == CHOOSE x \in journal : \A y \in journal : ~JournalBefore(y, x)

CursorLast == CHOOSE x \in journal : \A y \in journal : ~JournalBefore(x, y)

CursorPrevious(x) ==
  LET before == {y \in journal : JournalBefore(y, x)}
  IN  IF before = {} THEN NoRecord
      ELSE CHOOSE y \in before : \A z \in before : ~JournalBefore(y, z)

\* composite_key_compare is 0.
SameEntry(x, y) == x.timestamp = y.timestamp /\ x.hash = y.hash

\* Mutant: the search does not stop at another time.
CandidatesOnlyEqual(start, rec) ==
  {x \in journal : (x = start \/ JournalBefore(start, x)) /\ SameEntry(x, rec)}

\* cursor_get looking for rec from position start: on to the first entry that is
\* rec or has another time.  At the end of the table mdb_cursor_get leaves the
\* entry as it was and the loop never ends.
Candidates(start, rec) ==
  {x \in journal : /\ x = start \/ JournalBefore(start, x)
                   /\ SameEntry(x, rec) \/ x.timestamp # rec.timestamp}

SearchSpins(start, rec) == Candidates(start, rec) = {}

SearchStop(start, rec) ==
  LET c == Candidates(start, rec)
  IN  CHOOSE x \in c : \A y \in c : ~JournalBefore(y, x)

SearchFinds(start, rec) ==
  ~SearchSpins(start, rec) /\ SameEntry(SearchStop(start, rec), rec)

-----------------------------------------------------------------------------
(* lmdb_put, between the begin and the end of its transaction. *)

\* Mutant: the record that is there decides the time of the one that comes in.
KeepStored(r) ==
  LET old == lmdb_get(r.key)
  IN  IF old # NoRecord THEN [r EXCEPT !.timestamp = old.timestamp] ELSE r

\* What we have is older than what is coming in.
KeepOlder(r) ==
  LET old == lmdb_get(r.key)
  IN  IF old # NoRecord /\ old.timestamp # 0 /\ r.timestamp > old.timestamp
      THEN [r EXCEPT !.timestamp = old.timestamp]
      ELSE r

\* Mutant: a time that is missing is not filled in.
StampOnlyNewer(r) ==
  IF r.timestamp > clock THEN [r EXCEPT !.timestamp = clock] ELSE r

\* "Put in the timestamp if it isn't there already (or is newer)".
Stamp(r) ==
  IF r.timestamp = 0 \/ r.timestamp > clock
  THEN [r EXCEPT !.timestamp = clock] ELSE r

\* The journal record that put looks for: a new one has no flags.
Criteria(r) ==
  [timestamp |-> r.timestamp, hash |-> r.key, pin |-> 0, pending |-> 0]

\* lmdb_journalstore_get_record starts at the first entry of the table.
LookUpSpins(r) ==
  /\ lmdb_get(r.key) # NoRecord
  /\ journal # {}
  /\ SearchSpins(CursorFirst, Criteria(KeepOlder(r)))

JournalRecordOf(r) ==
  LET c == Criteria(KeepOlder(r))
  IN  IF journal # {} /\ SearchFinds(CursorFirst, c)
      THEN [c EXCEPT !.pin     = SearchStop(CursorFirst, c).pin,
                     !.pending = SearchStop(CursorFirst, c).pending]
      ELSE c

\* What put writes: the data record unless the same pair is there
\* (MDB_NODUPDATA) ...
Stored(r) == Stamp(KeepOlder(r))

\* Mutant: the journal record keeps the time that the record came with.
JournalAddedUnstamped(r) ==
  CASE Stored(r) \in data -> {}
    [] lmdb_get(r.key) = NoRecord ->
         {[timestamp |-> r.timestamp, hash |-> r.key, pin |-> 1, pending |-> 1]}
    [] OTHER -> {}

\* Mutant: a new record is not journalled, only a changed one.
JournalAddedOnChange(r) ==
  IF Stored(r) \notin data /\ lmdb_get(r.key) # NoRecord
  THEN {[JournalRecordOf(r) EXCEPT !.timestamp = Stored(r).timestamp]} ELSE {}

\* ... and a journal record for a new key ...
JournalNew(r) ==
  [timestamp |-> Stored(r).timestamp, hash |-> r.key, pin |-> 1, pending |-> 1]

\* ... or the one that was found, once more with the new time.
JournalAgain(r) == [JournalRecordOf(r) EXCEPT !.timestamp = Stored(r).timestamp]

JournalAdded(r) ==
  IF Stored(r) \in data THEN {}
  ELSE IF lmdb_get(r.key) = NoRecord THEN {JournalNew(r)}
  ELSE IF JournalRecordOf(r).timestamp # Stored(r).timestamp THEN {JournalAgain(r)}
  ELSE {}

\* MDB_KEYEXIST is not 0; a record stored without a journal record returns the
\* 0 of mdb_put.
PutReturns(r) == Stored(r) \in data \/ JournalAdded(r) # {}

-----------------------------------------------------------------------------
(* The threads. *)

\* Mutant: the record is stored before the file is written.
AddRecordFirst(t, k) ==
  /\ pc[t] = "idle"
  /\ arg' = [arg EXCEPT ![t] =
               [key |-> k, timestamp |-> 0, value |-> ds_key_from_binary(k)]]
  /\ pc' = [pc EXCEPT ![t] = "begin"]
  /\ files' = IF \E r \in data : r.key = k THEN files \cup {k} ELSE files
  /\ UNCHANGED <<data, journal, writer, clock, faults>>

\* ipfs_repo_fsrepo_block_write: the file first, then the record, unless the file
\* failed.  (has_block of bitswap.c ignores that failure: see PutFails in Wantlist.)
AddBlock(t, k) ==
  /\ pc[t] = "idle"
  /\ files' = files \cup {k}
  /\ arg' = [arg EXCEPT ![t] =
               [key |-> k, timestamp |-> 0, value |-> ds_key_from_binary(k)]]
  /\ pc' = [pc EXCEPT ![t] = "begin"]
  /\ UNCHANGED <<data, journal, writer, clock, faults>>

\* ipfs_namesys_publisher_publish: the path under the hash of the peer id.  What
\* it sends to the network afterwards does not change its answer.
Publish(t, k, p) ==
  /\ pc[t] = "idle"
  /\ arg' = [arg EXCEPT ![t] = [key |-> k, timestamp |-> 0, value |-> p]]
  /\ pc' = [pc EXCEPT ![t] = "begin"]
  /\ UNCHANGED <<data, journal, files, writer, clock, faults>>

\* mdb_txn_begin waits for the transaction under way.
Begin(t) ==
  /\ pc[t] = "begin" /\ writer = NoThread
  /\ writer' = t
  /\ pc' = [pc EXCEPT ![t] = "body"]
  /\ UNCHANGED <<data, journal, files, arg, clock, faults>>

Return(t) ==
  /\ pc' = [pc EXCEPT ![t] = "idle"]
  /\ arg' = [arg EXCEPT ![t] = NoRecord]

\* One transaction, from cursor_open to mdb_txn_commit.
Put(t) ==
  /\ pc[t] = "body" /\ writer = t
  /\ ~LookUpSpins(arg[t])
  /\ data' = data \cup {Stored(arg[t])}
  /\ journal' = journal \cup JournalAdded(arg[t])
  /\ writer' = NoThread
  /\ Return(t)
  /\ UNCHANGED <<files, clock, faults>>

\* The search for the journal record never ends, inside the transaction.
PutSpins(t) ==
  /\ pc[t] = "body" /\ writer = t
  /\ LookUpSpins(arg[t])
  /\ pc' = [pc EXCEPT ![t] = "stuck"]
  /\ UNCHANGED <<data, journal, files, writer, arg, clock, faults>>

Fault == faults < MaxFaults /\ faults' = faults + 1

\* No memory for the cursor or for the search criteria: put returns and leaves
\* its transaction open.
PutLeaks(t) ==
  /\ pc[t] = "body" /\ writer = t /\ Fault
  /\ Return(t)
  /\ UNCHANGED <<data, journal, files, writer, clock>>

\* No memory for the journal record, or mdb_put of it fails: the data record is
\* committed all the same ("Continuing").
PutWithoutJournal(t) ==
  /\ pc[t] = "body" /\ writer = t /\ Fault
  /\ ~LookUpSpins(arg[t]) /\ JournalAdded(arg[t]) # {}
  /\ data' = data \cup {Stored(arg[t])}
  /\ writer' = NoThread
  /\ Return(t)
  /\ UNCHANGED <<journal, files, clock>>

\* The journal's key and value are read from stack buffers of functions that
\* have returned; anything may be in them by now.
PutGarbage(t) ==
  /\ pc[t] = "body" /\ writer = t /\ Fault
  /\ ~LookUpSpins(arg[t]) /\ JournalAdded(arg[t]) # {}
  /\ data' = data \cup {Stored(arg[t])}
  /\ \E x \in JournalAdded(arg[t]), s \in Times :
       journal' = journal \cup {[x EXCEPT !.hash = Garbage, !.timestamp = s]}
  /\ writer' = NoThread
  /\ Return(t)
  /\ UNCHANGED <<files, clock>>

\* mdb_put or mdb_txn_commit fails; put does not look at the commit.
PutLost(t) ==
  /\ pc[t] = "body" /\ writer = t /\ Fault
  /\ writer' = NoThread
  /\ Return(t)
  /\ UNCHANGED <<data, journal, files, clock>>

Tick ==
  /\ \E s \in Times : s > clock /\ clock' = s
  /\ UNCHANGED <<data, journal, files, writer, pc, arg, faults>>

DSInit ==
  /\ data = {} /\ journal = {} /\ files = {}
  /\ writer = NoThread
  /\ pc = [t \in Threads |-> "idle"]
  /\ arg = [t \in Threads |-> NoRecord]
  /\ clock \in {s \in Times : \A u \in Times : s <= u}
  /\ faults = 0

\* The process ends and is started again: its transaction is undone, its lock
\* is released.
DSCrash ==
  /\ writer' = NoThread
  /\ pc' = [t \in Threads |-> "idle"]
  /\ arg' = [t \in Threads |-> NoRecord]
  /\ UNCHANGED <<data, journal, files, clock, faults>>

PutStep(t) ==
  \/ Begin(t) \/ Put(t) \/ PutSpins(t)
  \/ PutLeaks(t) \/ PutWithoutJournal(t) \/ PutGarbage(t) \/ PutLost(t)

-----------------------------------------------------------------------------
(* Properties of the two tables. *)

(* Types of the tables and of the locals of put and get; no stored record has
   the time 0 that datastore records are created with.                      *)
DSTypeOK ==
  /\ data \subseteq Records /\ \A r \in data : r.timestamp # 0
  /\ journal \subseteq JournalRecords /\ \A x \in journal : x.timestamp # 0
  /\ files \subseteq Keys
  /\ writer \in Threads \cup {NoThread}
  /\ pc \in [Threads -> {"idle", "begin", "body", "stuck"}]
  /\ arg \in [Threads -> Records \cup {NoRecord}]
  /\ clock \in Times
  /\ faults \in 0..MaxFaults

\* A data record and its journal record are written in one transaction: as long
\* as no call has failed, every key has a journal record, whatever the order of
\* the puts and wherever the process was killed.
DataJournalled ==
  faults = 0 => \A r \in data : \E x \in journal : x.hash = r.key

\* ... and every journal record, which sync announces to other nodes, has the
\* time of a record that is stored.
JournalMatchesData ==
  faults = 0 =>
    \A x \in journal :
      \E r \in data : r.key = x.hash /\ r.timestamp = x.timestamp

\* A record implies the file of its block: readers look for the record first and
\* open the file on the strength of it (ipfs_repo_fsrepo_block_read).
RecordMeansFile == \A r \in data : r.key \in Keys => r.key \in files

\* "Write (or update) data in the datastore with the specified key": the last
\* published path is the one that a get of the name returns.
PutUpdates ==
  [][\A t \in Threads : \A r \in {arg[t]} :
       (pc[t] = "body" /\ pc'[t] = "idle" /\ Stored(r) \in data'
          /\ PutReturns(r) /\ faults' = 0)
         => lmdb_get(r.key)'.value = r.value]_dsvars
=============================================================================
