------------------------------ MODULE MCJournal ------------------------------
(* One block, one name, two threads.   In the order of their varint bytes   *)
(* 256 (80 02) comes between 128 (80 01) and 129 (81 01).                     *)
EXTENDS Journal

CONSTANTS writerThread, handlerThread, pathA, pathB

MCTimes == {128, 129, 256}

\* An entry without a time, and one record twice: ipfs_journal_get_last repeats
\* the last record.
MCMessages ==
  {<<[hash |-> 1, timestamp |-> 129], [hash |-> 2, timestamp |-> 0]>>,
   <<[hash |-> 1, timestamp |-> 128], [hash |-> 1, timestamp |-> 128]>>}
=============================================================================
