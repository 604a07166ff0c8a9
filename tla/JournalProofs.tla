---------------------------- MODULE JournalProofs ----------------------------
(***************************************************************************)
(* Proofs about the two tables and the journal protocol, for any number of  *)
(* threads, keys, names, times and messages.                                *)
(***************************************************************************)
EXTENDS Journal, SequenceTheorems, Induction

-----------------------------------------------------------------------------
(* The order of the bytes. *)

AllTimes == {t \in Nat : t \div 128^4 < 128^4}

Digit(t, i) == Shifted(t, i - 1) % 128

(* A shift is a division by 128, and eight of them leave nothing. *)
LEMMA ShiftDivides ==
  ASSUME NEW t \in AllTimes
  PROVE  /\ Shifted(t, 0) = t /\ Shifted(t, 8) = 0
         /\ \A n \in 0..8 : Shifted(t, n) \in Nat
         /\ \A n \in 0..7 : Shifted(t, n + 1) = Shifted(t, n) \div 128
<1>1. 128^0 = 1 /\ 128^1 = 128 /\ 128^2 = 16384 /\ 128^3 = 2097152 /\ 128^4 = 268435456
  OBVIOUS
<1> DEFINE h == t \div 268435456
<1>2. t \in Nat /\ h \in Nat /\ h < 268435456
  BY <1>1 DEF AllTimes
<1>3. \A x \in Nat : /\ x \div 1 = x
                     /\ x \div 128 \in Nat /\ x \div 16384 \in Nat /\ x \div 2097152 \in Nat
                     /\ x \div 268435456 \in Nat
                     /\ x \div 16384 = (x \div 128) \div 128
                     /\ x \div 2097152 = (x \div 16384) \div 128
                     /\ x \div 268435456 = (x \div 2097152) \div 128
                     /\ x < 268435456 => x \div 268435456 = 0
  OBVIOUS
<1>4. /\ Shifted(t, 0) = t /\ Shifted(t, 1) = t \div 128 /\ Shifted(t, 2) = t \div 16384
      /\ Shifted(t, 3) = t \div 2097152 /\ Shifted(t, 4) = h
  BY <1>1, <1>2, <1>3 DEF Shifted
<1>5. /\ Shifted(t, 5) = h \div 128 /\ Shifted(t, 6) = h \div 16384
      /\ Shifted(t, 7) = h \div 2097152 /\ Shifted(t, 8) = h \div 268435456
  BY <1>1 DEF Shifted
<1>6. \A n \in 0..8 : n = 0 \/ n = 1 \/ n = 2 \/ n = 3 \/ n = 4 \/ n = 5 \/ n = 6 \/ n = 7 \/ n = 8
  OBVIOUS
<1>7. ASSUME NEW n \in 0..8 PROVE Shifted(t, n) \in Nat
  <2> HIDE DEF h
  <2> QED BY <1>2, <1>3, <1>4, <1>5, <1>6
<1>8. /\ Shifted(t, 1) = Shifted(t, 0) \div 128 /\ Shifted(t, 2) = Shifted(t, 1) \div 128
      /\ Shifted(t, 3) = Shifted(t, 2) \div 128 /\ Shifted(t, 4) = Shifted(t, 3) \div 128
      /\ Shifted(t, 5) = Shifted(t, 4) \div 128 /\ Shifted(t, 6) = Shifted(t, 5) \div 128
      /\ Shifted(t, 7) = Shifted(t, 6) \div 128 /\ Shifted(t, 8) = Shifted(t, 7) \div 128
  BY <1>2, <1>3, <1>4, <1>5
<1>9. ASSUME NEW n \in 0..7 PROVE Shifted(t, n + 1) = Shifted(t, n) \div 128
  <2>1. n = 0 \/ n = 1 \/ n = 2 \/ n = 3 \/ n = 4 \/ n = 5 \/ n = 6 \/ n = 7
    OBVIOUS
  <2> QED BY <1>8, <2>1
<1> QED
  BY <1>2, <1>3, <1>4, <1>5, <1>7, <1>9

(* varint_encode uses one to eight bytes, and they hold the time. *)
LEMMA VarintSizeBounds ==
  ASSUME NEW t \in AllTimes
  PROVE  /\ VarintSize(t) \in 1..8
         /\ Shifted(t, VarintSize(t)) = 0
<1> DEFINE Ends == {n \in 1..8 : Shifted(t, n) = 0}
<1>1. Ends \subseteq Nat /\ Ends # {}
  BY ShiftDivides
<1>2. PICK n \in Ends : \A m \in Ends : n <= m
  BY <1>1, SmallestNumber
<1>3. n > 1 => Shifted(t, n - 1) # 0
  BY <1>2
<1>4. \E k \in 1..8 : Shifted(t, k) = 0 /\ (k > 1 => Shifted(t, k - 1) # 0)
  BY <1>2, <1>3
<1> QED
  BY <1>4 DEF VarintSize

(* Each byte is a number; all bytes but the last carry the mark. *)
LEMMA VarintBytes ==
  ASSUME NEW t \in AllTimes
  PROVE  /\ Len(Varint(t)) = VarintSize(t)
         /\ \A i \in 1..VarintSize(t) :
              /\ Varint(t)[i] = Digit(t, i) + (IF i < VarintSize(t) THEN 128 ELSE 0)
              /\ Digit(t, i) \in Int /\ Digit(t, i) >= 0 /\ Digit(t, i) < 128
<1>1. VarintSize(t) \in 1..8
  BY VarintSizeBounds
<1>2. Len(Varint(t)) = VarintSize(t)
  BY <1>1 DEF Varint
<1>3. \A i \in 1..VarintSize(t) :
        Varint(t)[i] = Digit(t, i) + (IF i < VarintSize(t) THEN 128 ELSE 0)
  BY <1>1 DEF Varint, Digit
<1>4. ASSUME NEW i \in 1..VarintSize(t)
      PROVE  Digit(t, i) \in Int /\ Digit(t, i) >= 0 /\ Digit(t, i) < 128
  <2>1. Shifted(t, i - 1) \in Nat
    BY <1>1, ShiftDivides
  <2> QED BY <2>1 DEF Digit
<1> QED
  BY <1>2, <1>3, <1>4

(* The encoded time is a sequence of one to eight numbers. *)
LEMMA VarintType ==
  ASSUME NEW t \in AllTimes
  PROVE  /\ Len(Varint(t)) \in 1..8
         /\ \A i \in 1..Len(Varint(t)) : Varint(t)[i] \in Int
<1>1. VarintSize(t) \in 1..8 /\ Len(Varint(t)) = VarintSize(t)
  BY VarintSizeBounds, VarintBytes
<1>2. ASSUME NEW i \in 1..VarintSize(t) PROVE Varint(t)[i] \in Int
  BY <1>1, VarintBytes
<1> QED
  BY <1>1, <1>2

(* The digits determine a time: from the last one on, what is left of both
   times before each shift is the same. *)
LEMMA DigitsDetermine ==
  ASSUME NEW t \in AllTimes, NEW u \in AllTimes,
         VarintSize(t) = VarintSize(u),
         \A i \in 1..VarintSize(t) : Digit(t, i) = Digit(u, i)
  PROVE  t = u
<1> DEFINE n       == VarintSize(t)
           Same(k) == k <= n => Shifted(t, k) = Shifted(u, k)
<1>1. n \in 1..8 /\ Shifted(t, n) = 0 /\ Shifted(u, n) = 0
  BY VarintSizeBounds
<1> HIDE DEF n
<1>2. ASSUME NEW k \in 0..7, Same(k + 1) PROVE Same(k)
  <2>1. CASE k = n
    BY <1>1, <2>1
  <2>2. CASE k < n
    <3>1. Shifted(t, k + 1) = Shifted(u, k + 1)
      BY <1>1, <1>2, <2>2
    <3>2. k + 1 \in 1..n /\ (k + 1) - 1 = k
      BY <1>1, <2>2
    <3>3. Shifted(t, k) % 128 = Shifted(u, k) % 128
      BY <3>2 DEF Digit, n
    <3>4. /\ Shifted(t, k) \in Nat /\ Shifted(u, k) \in Nat
          /\ Shifted(t, k) \div 128 = Shifted(u, k) \div 128
      BY <3>1, ShiftDivides
    <3>5. \A x, y \in Nat : x \div 128 = y \div 128 /\ x % 128 = y % 128 => x = y
      OBVIOUS
    <3> QED BY <3>3, <3>4, <3>5
  <2> QED BY <1>1, <2>1, <2>2
<1>3. Same(8)
  BY <1>1
<1> HIDE DEF Same
<1>4. \A k \in 0..7 : Same(k + 1) => Same(k)
  BY <1>2
<1>5. Same(0)
  <2> DEFINE Sames == {k \in 0..8 : Same(k)}
  <2>1. PICK k \in Sames : \A m \in Sames : k <= m
    <3>1. 8 \in Sames /\ Sames \subseteq Nat
      BY <1>3
    <3> HIDE DEF Sames
    <3> QED BY <3>1, SmallestNumber
  <2>2. CASE k # 0
    <3>1. k - 1 \in 0..7 /\ (k - 1) + 1 = k
      BY <2>2
    <3>2. Same(k - 1)
      BY <1>4, <3>1
    <3> QED BY <2>1, <3>1, <3>2
  <2> QED BY <2>2
<1> QED
  BY <1>1, <1>5, ShiftDivides DEF Same

(* memcmp of the encoded times: no time precedes itself ... *)
LEMMA PrecedesIrreflexive ==
  ASSUME NEW t \in AllTimes
  PROVE  ~Precedes(Varint(t), Varint(t))
  BY VarintType DEF Precedes

(* ... precedence is transitive ... *)
LEMMA PrecedesTransitive ==
  ASSUME NEW t \in AllTimes, NEW u \in AllTimes, NEW v \in AllTimes,
         Precedes(Varint(t), Varint(u)), Precedes(Varint(u), Varint(v))
  PROVE  Precedes(Varint(t), Varint(v))
<1> DEFINE a == Varint(t) b == Varint(u) c == Varint(v)
<1>1. /\ Len(a) \in Nat /\ Len(b) \in Nat /\ Len(c) \in Nat
      /\ \A i \in 1..Len(a) : a[i] \in Int
      /\ \A i \in 1..Len(b) : b[i] \in Int
      /\ \A i \in 1..Len(c) : c[i] \in Int
  BY VarintType
<1>2. PICK i \in 1..Len(b) :
        /\ \A j \in 1..(i - 1) : j <= Len(a) /\ a[j] = b[j]
        /\ i > Len(a) \/ a[i] < b[i]
  BY DEF Precedes
<1>3. PICK k \in 1..Len(c) :
        /\ \A j \in 1..(k - 1) : j <= Len(b) /\ b[j] = c[j]
        /\ k > Len(b) \/ b[k] < c[k]
  BY DEF Precedes
<1> HIDE DEF a, b, c
<1>4. CASE i <= k
  <2>1. i \in 1..Len(c)
    BY <1>1, <1>2, <1>3, <1>4
  <2>2. \A j \in 1..(i - 1) : j <= Len(a) /\ a[j] = c[j]
    BY <1>1, <1>2, <1>3, <1>4
  <2>3. i > Len(a) \/ a[i] < c[i]
    BY <1>1, <1>2, <1>3, <1>4
  <2> QED BY <2>1, <2>2, <2>3 DEF Precedes, a, c
<1>5. CASE k < i
  <2>1. \A j \in 1..(k - 1) : j <= Len(a) /\ a[j] = c[j]
    BY <1>1, <1>2, <1>3, <1>5
  <2>2. a[k] < c[k]
    BY <1>1, <1>2, <1>3, <1>5
  <2> QED BY <2>1, <2>2 DEF Precedes, a, c
<1> QED
  BY <1>1, <1>2, <1>3, <1>4, <1>5

(* ... and of two different times one precedes the other: a varint is not the
   prefix of another one. *)
LEMMA PrecedesTotal ==
  ASSUME NEW t \in AllTimes, NEW u \in AllTimes, t # u
  PROVE  Precedes(Varint(t), Varint(u)) \/ Precedes(Varint(u), Varint(t))
<1> DEFINE a == Varint(t) b == Varint(u) n == VarintSize(t) m == VarintSize(u)
<1>1. n \in 1..8 /\ m \in 1..8 /\ Len(a) = n /\ Len(b) = m
  BY VarintBytes, VarintSizeBounds
<1>2. /\ \A i \in 1..n : a[i] \in Int /\ (i < n => a[i] >= 128) /\ (i = n => a[i] < 128)
      /\ \A i \in 1..m : b[i] \in Int /\ (i < m => b[i] >= 128) /\ (i = m => b[i] < 128)
  BY VarintBytes, VarintSizeBounds
<1>3. \E i \in 1..8 : i <= n /\ i <= m /\ a[i] # b[i]
  <2> SUFFICES ASSUME \A i \in 1..8 : i <= n /\ i <= m => a[i] = b[i] PROVE FALSE
    OBVIOUS
  <2>1. n = m
    <3> HIDE DEF a, b, n, m
    <3> QED BY <1>1, <1>2
  <2>2. ASSUME NEW i \in 1..n PROVE Digit(t, i) = Digit(u, i)
    <3>1. a[i] = b[i]
      BY <1>1, <2>1
    <3>2. /\ a[i] = Digit(t, i) + (IF i < n THEN 128 ELSE 0) /\ Digit(t, i) \in Int
          /\ b[i] = Digit(u, i) + (IF i < n THEN 128 ELSE 0) /\ Digit(u, i) \in Int
      BY <2>1, VarintBytes
    <3>3. CASE i < n
      <4>1. Digit(t, i) + 128 = Digit(u, i) + 128
        BY <3>1, <3>2, <3>3
      <4>2. \A x, y \in Int : x + 128 = y + 128 => x = y
        OBVIOUS
      <4> QED BY <3>2, <4>1, <4>2
    <3>4. CASE ~(i < n)
      <4>1. Digit(t, i) + 0 = Digit(u, i) + 0
        BY <3>1, <3>2, <3>4
      <4>2. \A x, y \in Int : x + 0 = y + 0 => x = y
        OBVIOUS
      <4> QED BY <3>2, <4>1, <4>2
    <3> QED BY <3>3, <3>4
  <2> QED BY <2>1, <2>2, DigitsDetermine
<1> HIDE DEF a, b, n, m
<1>4. \E i \in 1..8 : /\ i <= n /\ i <= m /\ a[i] # b[i]
                      /\ \A j \in 1..(i - 1) : a[j] = b[j]
  BY <1>1, <1>3
<1>5. PICK i \in 1..8 : /\ i <= n /\ i <= m /\ a[i] # b[i]
                        /\ \A j \in 1..(i - 1) : a[j] = b[j]
  BY <1>4
<1>6. a[i] < b[i] \/ b[i] < a[i]
  BY <1>1, <1>2, <1>5
<1> QED
  BY <1>1, <1>5, <1>6 DEF Precedes, a, b

(* Times are numbers that eight bytes of a varint hold. *)
LEMMA TimesBounds == Times \cup {0} \subseteq AllTimes /\ Times \subseteq Nat \ {0}
<1>1. 0 \in AllTimes
  BY DEF AllTimes
<1> QED
  BY <1>1, TimesAssumption DEF AllTimes

(* The order of the journal, time, pin, pending, hash: no record comes before
   itself ... *)
LEMMA JournalBeforeIrreflexive ==
  ASSUME NEW x \in JournalRecords
  PROVE  ~JournalBefore(x, x)
<1>1. x.timestamp \in AllTimes /\ x.pin \in {0, 1} /\ x.pending \in {0, 1}
  BY TimesBounds DEF JournalRecords
<1>2. ~Precedes(Varint(x.timestamp), Varint(x.timestamp))
  BY <1>1, PrecedesIrreflexive
<1> QED
  BY <1>1, <1>2 DEF JournalBefore

(* ... and it is transitive. *)
LEMMA JournalBeforeTransitive ==
  ASSUME NEW x \in JournalRecords, NEW y \in JournalRecords, NEW z \in JournalRecords,
         JournalBefore(x, y), JournalBefore(y, z)
  PROVE  JournalBefore(x, z)
<1>1. /\ x.timestamp \in AllTimes /\ x.pin \in {0, 1} /\ x.pending \in {0, 1}
      /\ y.timestamp \in AllTimes /\ y.pin \in {0, 1} /\ y.pending \in {0, 1}
      /\ z.timestamp \in AllTimes /\ z.pin \in {0, 1} /\ z.pending \in {0, 1}
  BY TimesBounds DEF JournalRecords
<1>2. CASE x.timestamp = y.timestamp /\ y.timestamp = z.timestamp
  <2>1. /\ ~Precedes(Varint(x.timestamp), Varint(y.timestamp))
        /\ ~Precedes(Varint(y.timestamp), Varint(z.timestamp))
    BY <1>1, <1>2, PrecedesIrreflexive
  <2> QED BY <1>1, <1>2, <2>1 DEF JournalBefore
<1>3. CASE x.timestamp = y.timestamp /\ y.timestamp # z.timestamp
  BY <1>3 DEF JournalBefore
<1>4. CASE x.timestamp # y.timestamp /\ y.timestamp = z.timestamp
  BY <1>4 DEF JournalBefore
<1>5. CASE x.timestamp # y.timestamp /\ y.timestamp # z.timestamp
  <2>1. /\ Precedes(Varint(x.timestamp), Varint(y.timestamp))
        /\ Precedes(Varint(y.timestamp), Varint(z.timestamp))
    BY <1>5 DEF JournalBefore
  <2>2. Precedes(Varint(x.timestamp), Varint(z.timestamp))
    BY <1>1, <2>1, PrecedesTransitive
  <2> QED BY <2>2 DEF JournalBefore
<1> QED
  BY <1>2, <1>3, <1>4, <1>5

-----------------------------------------------------------------------------
(* The tables: a cursor always has a first record.  The number of records is not
   bounded, so this is shown along the behaviour, one added record at a time.  *)

DataFirst(S) ==
  \E r \in S : \A s \in S : ~Precedes(Varint(s.timestamp), Varint(r.timestamp))

JournalFirst(S) == \E x \in S : \A y \in S : ~JournalBefore(y, x)

DataWellOrdered(D) == \A S \in SUBSET D : S # {} => DataFirst(S)

JournalWellOrdered(J) == \A S \in SUBSET J : S # {} => JournalFirst(S)

DataOrdered == DataWellOrdered(data)

JournalOrdered == JournalWellOrdered(journal)

(* A record more in the table DATASTORE. *)
LEMMA DataGrows ==
  ASSUME NEW D, NEW r, D \subseteq Records, r \in Records,
         DataWellOrdered(D)
  PROVE  DataWellOrdered(D \cup {r})
<1> SUFFICES ASSUME NEW S \in SUBSET (D \cup {r}), S # {} PROVE DataFirst(S)
  BY DEF DataWellOrdered
<1>0. \A s \in D \cup {r} : s.timestamp \in AllTimes
  BY TimesBounds DEF Records
<1>1. CASE r \notin S
  BY <1>1 DEF DataWellOrdered
<1>2. CASE S = {r}
  <2>1. ~Precedes(Varint(r.timestamp), Varint(r.timestamp))
    BY <1>0, PrecedesIrreflexive
  <2> QED BY <1>2, <2>1 DEF DataFirst
<1>3. CASE r \in S /\ S # {r}
  <2>1. S \ {r} \in SUBSET D /\ S \ {r} # {}
    BY <1>3
  <2>2. PICK f \in S \ {r} :
          \A s \in S \ {r} : ~Precedes(Varint(s.timestamp), Varint(f.timestamp))
    BY <2>1 DEF DataWellOrdered, DataFirst
  <2>3. CASE ~Precedes(Varint(r.timestamp), Varint(f.timestamp))
    BY <2>2, <2>3 DEF DataFirst
  <2>4. CASE Precedes(Varint(r.timestamp), Varint(f.timestamp))
    <3>1. ASSUME NEW s \in S, Precedes(Varint(s.timestamp), Varint(r.timestamp)) PROVE FALSE
      <4>1. CASE s = r
        BY <1>0, <3>1, <4>1, PrecedesIrreflexive
      <4>2. CASE s # r
        <5>1. Precedes(Varint(s.timestamp), Varint(f.timestamp))
          BY <1>0, <2>2, <2>4, <3>1, PrecedesTransitive
        <5> QED BY <2>2, <4>2, <5>1
      <4> QED BY <4>1, <4>2
    <3> QED BY <1>3, <3>1 DEF DataFirst
  <2> QED BY <2>3, <2>4
<1> QED
  BY <1>1, <1>2, <1>3

(* A record more in the table JOURNALSTORE. *)
LEMMA JournalGrows ==
  ASSUME NEW J, NEW x, J \subseteq JournalRecords, x \in JournalRecords,
         JournalWellOrdered(J)
  PROVE  JournalWellOrdered(J \cup {x})
<1> SUFFICES ASSUME NEW S \in SUBSET (J \cup {x}), S # {} PROVE JournalFirst(S)
  BY DEF JournalWellOrdered
<1>0. S \subseteq JournalRecords
  OBVIOUS
<1>1. CASE x \notin S
  BY <1>1 DEF JournalWellOrdered
<1>2. CASE S = {x}
  BY <1>2, JournalBeforeIrreflexive DEF JournalFirst
<1>3. CASE x \in S /\ S # {x}
  <2>1. S \ {x} \in SUBSET J /\ S \ {x} # {}
    BY <1>3
  <2>2. PICK f \in S \ {x} : \A y \in S \ {x} : ~JournalBefore(y, f)
    BY <2>1 DEF JournalWellOrdered, JournalFirst
  <2>3. CASE ~JournalBefore(x, f)
    BY <2>2, <2>3 DEF JournalFirst
  <2>4. CASE JournalBefore(x, f)
    <3>1. ASSUME NEW y \in S, JournalBefore(y, x) PROVE FALSE
      <4>1. CASE y = x
        BY <3>1, <4>1, JournalBeforeIrreflexive
      <4>2. CASE y # x
        BY <1>0, <2>2, <2>4, <3>1, <4>2, JournalBeforeTransitive
      <4> QED BY <4>1, <4>2
    <3> QED BY <1>3, <3>1 DEF JournalFirst
  <2> QED BY <2>3, <2>4
<1> QED
  BY <1>1, <1>2, <1>3

-----------------------------------------------------------------------------
(* What put reads and writes. *)

(* mdb_get returns a record of the key, and none only when there is none. *)
LEMMA GetReturns ==
  ASSUME DSTypeOK, DataOrdered, NEW k
  PROVE  /\ lmdb_get(k) # NoRecord => lmdb_get(k) \in data /\ lmdb_get(k).key = k
         /\ lmdb_get(k) = NoRecord => \A r \in data : r.key # k
<1> DEFINE same == {r \in data : r.key = k}
<1>1. CASE same = {}
  BY <1>1 DEF lmdb_get
<1>2. CASE same # {}
  <2>1. DataFirst(same)
    BY <1>2 DEF DataOrdered, DataWellOrdered
  <2>2. lmdb_get(k) = CHOOSE r \in same :
          \A s \in same : ~Precedes(Varint(s.timestamp), Varint(r.timestamp))
    BY <1>2 DEF lmdb_get
  <2>3. lmdb_get(k) \in same
    BY <2>1, <2>2 DEF DataFirst
  <2>4. lmdb_get(k) \in data /\ lmdb_get(k).key = k
    BY <2>3
  <2>5. lmdb_get(k) # NoRecord
    BY <2>4, NoRecordAssumption DEF DSTypeOK
  <2> QED BY <2>4, <2>5
<1> QED
  BY <1>1, <1>2

(* The time of a record is a number. *)
LEMMA RecordTime ==
  ASSUME NEW r \in Records
  PROVE  r.timestamp \in Nat /\ (r.timestamp # 0 => r.timestamp \in Times)
<1>1. r.timestamp \in Times \cup {0}
  BY DEF Records
<1>2. \A t \in Times : t \in Nat
  BY TimesBounds
<1> QED
  BY <1>1, <1>2

(* A record that put writes keeps its key; it has a time, and not a later one
   than the one it came with. *)
LEMMA StoredRecord ==
  ASSUME DSTypeOK, DataOrdered, NEW r \in Records
  PROVE  /\ KeepOlder(r) \in Records /\ KeepOlder(r).key = r.key
         /\ Stored(r) \in Records /\ Stored(r).key = r.key
         /\ Stored(r).timestamp # 0
         /\ r.timestamp # 0 => Stored(r).timestamp <= r.timestamp
<1> DEFINE old == lmdb_get(r.key)
<1>1. old # NoRecord => old \in Records /\ old.timestamp \in Times
  BY GetReturns DEF DSTypeOK, Records
<1>2. /\ KeepOlder(r) \in Records /\ KeepOlder(r).key = r.key
      /\ r.timestamp # 0 => KeepOlder(r).timestamp # 0 /\ KeepOlder(r).timestamp <= r.timestamp
  <2>1. CASE old # NoRecord /\ old.timestamp # 0 /\ r.timestamp > old.timestamp
    <3>1. KeepOlder(r) = [r EXCEPT !.timestamp = old.timestamp]
      BY <2>1 DEF KeepOlder
    <3>2. KeepOlder(r) \in Records /\ KeepOlder(r).key = r.key /\ KeepOlder(r).timestamp = old.timestamp
      BY <1>1, <2>1, <3>1 DEF Records
    <3>3. old.timestamp \in Nat /\ r.timestamp \in Nat
      BY <1>1, <2>1, RecordTime
    <3> QED BY <2>1, <3>2, <3>3
  <2>2. CASE ~(old # NoRecord /\ old.timestamp # 0 /\ r.timestamp > old.timestamp)
    <3>1. KeepOlder(r) = r
      BY <2>2 DEF KeepOlder
    <3>2. r.timestamp \in Nat
      BY RecordTime
    <3> QED BY <3>1, <3>2
  <2> QED BY <2>1, <2>2
<1>3. ASSUME NEW q \in Records
      PROVE  /\ Stamp(q) \in Records /\ Stamp(q).key = q.key /\ Stamp(q).timestamp # 0
             /\ q.timestamp # 0 => Stamp(q).timestamp <= q.timestamp
  <2>0. clock \in Times /\ clock \in Nat /\ clock # 0 /\ q.timestamp \in Nat
    BY TimesBounds, RecordTime DEF DSTypeOK
  <2>1. CASE q.timestamp = 0 \/ q.timestamp > clock
    <3>1. Stamp(q) = [q EXCEPT !.timestamp = clock]
      BY <2>1 DEF Stamp
    <3>2. Stamp(q) \in Records /\ Stamp(q).key = q.key /\ Stamp(q).timestamp = clock
      BY <2>0, <3>1 DEF Records
    <3> QED BY <2>0, <2>1, <3>2
  <2>2. CASE ~(q.timestamp = 0 \/ q.timestamp > clock)
    <3>1. Stamp(q) = q
      BY <2>2 DEF Stamp
    <3> QED BY <2>0, <2>2, <3>1
  <2> QED BY <2>1, <2>2
<1>4. /\ Stored(r) \in Records /\ Stored(r).key = r.key /\ Stored(r).timestamp # 0
      /\ KeepOlder(r).timestamp # 0 => Stored(r).timestamp <= KeepOlder(r).timestamp
  BY <1>2, <1>3 DEF Stored
<1>5. /\ r.timestamp \in Nat /\ KeepOlder(r).timestamp \in Nat /\ Stored(r).timestamp \in Nat
  BY <1>2, <1>4, RecordTime
<1> QED
  BY <1>2, <1>4, <1>5

(* The search stops at a record of the journal. *)
LEMMA StopIsInJournal ==
  ASSUME JournalOrdered, NEW start, NEW c, ~SearchSpins(start, c)
  PROVE  SearchStop(start, c) \in journal
<1>1. Candidates(start, c) \in SUBSET journal /\ Candidates(start, c) # {}
  BY DEF SearchSpins, Candidates
<1>2. JournalFirst(Candidates(start, c))
  BY <1>1 DEF JournalOrdered, JournalWellOrdered
<1>3. SearchStop(start, c) \in Candidates(start, c)
  BY <1>2 DEF SearchStop, JournalFirst
<1> QED
  BY <1>1, <1>3

(* Put adds at most one journal record; it has the key and the time of the data
   record that the same transaction writes. *)
LEMMA JournalAddedRecord ==
  ASSUME DSTypeOK, DataOrdered, JournalOrdered, NEW r \in Records
  PROVE  /\ JournalAdded(r) = {} \/ \E x : JournalAdded(r) = {x}
         /\ \A x \in JournalAdded(r) :
              /\ x \in JournalRecords
              /\ x.hash = r.key /\ x.timestamp = Stored(r).timestamp
         /\ Stored(r) \notin data /\ lmdb_get(r.key) = NoRecord => JournalAdded(r) # {}
<1>1. Stored(r).timestamp \in Times /\ r.key \in Keys \cup Names
  BY StoredRecord DEF Records
<1>2. /\ JournalNew(r) \in JournalRecords /\ JournalNew(r).hash = r.key
      /\ JournalNew(r).timestamp = Stored(r).timestamp
  BY <1>1 DEF JournalNew, JournalRecords
<1>3. /\ JournalAgain(r) \in JournalRecords /\ JournalAgain(r).hash = r.key
      /\ JournalAgain(r).timestamp = Stored(r).timestamp
  <2> DEFINE c == Criteria(KeepOlder(r))
  <2>1. c \in JournalRecords /\ c.hash = r.key
    BY StoredRecord DEF Criteria, JournalRecords, Records
  <2>2. JournalRecordOf(r) \in JournalRecords /\ JournalRecordOf(r).hash = r.key
    <3>1. CASE journal # {} /\ SearchFinds(CursorFirst, c)
      <4> DEFINE stop == SearchStop(CursorFirst, c)
      <4>1. stop \in JournalRecords
        BY <3>1, StopIsInJournal DEF SearchFinds, DSTypeOK
      <4>2. JournalRecordOf(r) = [c EXCEPT !.pin = stop.pin, !.pending = stop.pending]
        BY <3>1 DEF JournalRecordOf
      <4> HIDE DEF stop, c
      <4> QED BY <2>1, <4>1, <4>2 DEF JournalRecords
    <3>2. CASE ~(journal # {} /\ SearchFinds(CursorFirst, c))
      <4>1. JournalRecordOf(r) = c
        BY <3>2 DEF JournalRecordOf
      <4> QED BY <2>1, <4>1
    <3> QED BY <3>1, <3>2
  <2> QED BY <1>1, <2>2 DEF JournalAgain, JournalRecords
<1> QED
  BY <1>2, <1>3 DEF JournalAdded

(* The search of the journal inside put comes to an end: the key has a journal
   record, and from the first record of the table the search meets that one or,
   before it, one of another time. *)
LEMMA LookUpEnds ==
  ASSUME DSTypeOK, DataOrdered, JournalOrdered, DataJournalled, JournalMatchesData,
         faults = 0, NEW r \in Records
  PROVE  ~LookUpSpins(r)
<1> SUFFICES ASSUME lmdb_get(r.key) # NoRecord, journal # {}
             PROVE  Candidates(CursorFirst, Criteria(KeepOlder(r))) # {}
  BY DEF LookUpSpins, SearchSpins
<1> DEFINE first == CursorFirst
           c     == Criteria(KeepOlder(r))
<1>1. first \in journal /\ \A y \in journal : ~JournalBefore(y, first)
  <2>1. JournalFirst(journal)
    BY DEF JournalOrdered, JournalWellOrdered
  <2> QED BY <2>1 DEF JournalFirst, CursorFirst
<1>2. c.hash = r.key
  BY StoredRecord DEF Criteria
<1>3. PICK y \in journal : y.hash = r.key
  BY GetReturns DEF DataJournalled
<1>4. \A x \in journal : /\ x \in JournalRecords /\ x.timestamp \in AllTimes
                         /\ x.pin \in {0, 1} /\ x.pending \in {0, 1} /\ x.hash \in Nat
  <2>1. \A x \in journal : x \in JournalRecords
    BY DEF DSTypeOK
  <2>2. \A x \in JournalRecords : x.timestamp \in AllTimes /\ x.pin \in {0, 1} /\ x.pending \in {0, 1}
    BY TimesBounds DEF JournalRecords
  <2>3. \A x \in journal : x.hash \in Keys \cup Names
    BY DEF JournalMatchesData, DSTypeOK, Records
  <2> QED BY <2>1, <2>2, <2>3, HashesAssumption
<1>5. \A x \in journal : (x = first \/ JournalBefore(first, x)) /\ (SameEntry(x, c) \/ x.timestamp # c.timestamp)
        => x \in Candidates(first, c)
  BY DEF Candidates
<1>6. y = first \/ JournalBefore(first, y)
  <2>1. CASE y.timestamp = first.timestamp
    <3>1. ~(/\ y.pin = first.pin /\ y.pending = first.pending /\ y.hash = first.hash) => y # first
      OBVIOUS
    <3>2. y.pin = first.pin /\ y.pending = first.pending /\ y.hash = first.hash => y = first
      <4>1. y \in JournalRecords /\ first \in JournalRecords
        BY <1>1, <1>3, <1>4
      <4> HIDE DEF first
      <4> QED BY <2>1, <4>1 DEF JournalRecords
    <3>3. ~JournalBefore(y, first)
      BY <1>1, <1>3
    <3>4. /\ y.pin \in {0, 1} /\ y.pending \in {0, 1} /\ y.hash \in Nat
          /\ first.pin \in {0, 1} /\ first.pending \in {0, 1} /\ first.hash \in Nat
      BY <1>1, <1>3, <1>4
    <3> HIDE DEF first
    <3> QED BY <2>1, <3>2, <3>3, <3>4 DEF JournalBefore
  <2>2. CASE y.timestamp # first.timestamp
    <3>1. \/ Precedes(Varint(first.timestamp), Varint(y.timestamp))
          \/ Precedes(Varint(y.timestamp), Varint(first.timestamp))
      BY <1>1, <1>3, <1>4, <2>2, PrecedesTotal
    <3> QED BY <1>1, <1>3, <3>1 DEF JournalBefore
  <2> QED BY <2>1, <2>2
<1> HIDE DEF first, c
<1>7. CASE y.timestamp = c.timestamp
  BY <1>2, <1>3, <1>5, <1>6, <1>7 DEF SameEntry, first, c
<1>8. CASE y.timestamp # c.timestamp
  BY <1>3, <1>5, <1>6, <1>8 DEF first, c
<1> QED
  BY <1>7, <1>8

-----------------------------------------------------------------------------
(* The inductive invariant. *)

Putting(t) == pc[t] \in {"begin", "body"}

\* What a thread is about to put has its file.
ArgsHaveFiles ==
  \A t \in Threads :
    Putting(t) => arg[t] \in Records /\ (arg[t].key \in Keys => arg[t].key \in files)

\* The thread inside the transaction is the one that holds it.
OneWriter ==
  faults = 0 =>
    \A t \in Threads : pc[t] # "stuck" /\ (writer = t <=> pc[t] = "body")

\* The handler puts the entry at the head of its list, with the entry's time.
HandlerPuts ==
  Putting(Handler) =>
    /\ incoming = <<>> /\ todo # <<>>
    /\ arg[Handler].key = Head(todo).entry.hash
    /\ Head(todo).entry.timestamp # 0 => arg[Handler].timestamp = Head(todo).entry.timestamp

Tables == TypeOK /\ DataOrdered /\ JournalOrdered

IInv ==
  /\ Tables
  /\ ArgsHaveFiles /\ RecordMeansFile
  /\ OneWriter /\ HandlerPuts
  /\ DataJournalled /\ JournalMatchesData /\ EarliestKept

(* Empty tables and idle threads satisfy it. *)
LEMMA InitIInv == Init => IInv
<1> SUFFICES ASSUME Init PROVE IInv
  OBVIOUS
<1> USE DEF Init, DSInit
<1>1. TypeOK
  <2>1. incoming \in Seq(Entries) /\ todo \in Seq(Todos)
    BY EmptySeq
  <2>2. clock \in Times /\ faults \in 0..MaxFaults
    BY FaultsAssumption
  <2>3. pc \in [Threads -> {"idle", "begin", "body", "stuck"}]
    OBVIOUS
  <2> QED BY <2>1, <2>2, <2>3 DEF TypeOK, DSTypeOK
<1>2. DataOrdered /\ JournalOrdered
  BY DEF DataOrdered, JournalOrdered, DataWellOrdered, JournalWellOrdered
<1>3. \A t \in Threads : pc[t] = "idle" /\ writer # t
  BY ThreadsAssumption
<1>4. ArgsHaveFiles /\ OneWriter /\ HandlerPuts
  BY <1>3, HandlerAssumption DEF ArgsHaveFiles, OneWriter, HandlerPuts, Putting
<1> QED
  BY <1>1, <1>2, <1>4
     DEF IInv, Tables, RecordMeansFile, DataJournalled, JournalMatchesData, EarliestKept

(* What a step that writes neither table leaves as it is. *)
LEMMA SameTables ==
  ASSUME IInv, UNCHANGED <<data, journal>>, files \subseteq files', faults' = faults \/ faults' # 0
  PROVE  /\ DataOrdered' /\ JournalOrdered' /\ RecordMeansFile'
         /\ DataJournalled' /\ JournalMatchesData'
         /\ adjusted' = adjusted => EarliestKept'
<1>1. DataOrdered' /\ JournalOrdered'
  BY DEF IInv, Tables, DataOrdered, JournalOrdered
<1>2. RecordMeansFile'
  BY DEF IInv, RecordMeansFile
<1>3. DataJournalled' /\ JournalMatchesData'
  BY DEF IInv, DataJournalled, JournalMatchesData
<1>4. adjusted' = adjusted => EarliestKept'
  BY DEF IInv, EarliestKept
<1> QED
  BY <1>1, <1>2, <1>3, <1>4

(* AddBlock and publish, up to the call of put. *)
LEMMA CallPut ==
  ASSUME IInv, NEW t \in Threads \ {Handler}, UNCHANGED jvars,
         \/ \E k \in Keys : AddBlock(t, k)
         \/ \E k \in Names, p \in Paths : Publish(t, k, p)
  PROVE  IInv'
<1>0. TypeOK
  BY DEF IInv, Tables
<1>1. PICK r \in Records :
        /\ pc[t] = "idle"
        /\ arg' = [arg EXCEPT ![t] = r]
        /\ pc' = [pc EXCEPT ![t] = "begin"]
        /\ files \subseteq files' /\ files' \subseteq Keys
        /\ r.key \in Keys => r.key \in files'
        /\ UNCHANGED <<data, journal, writer, clock, faults>>
  <2>1. CASE \E k \in Keys : AddBlock(t, k)
    <3>1. PICK k \in Keys : AddBlock(t, k)
      BY <2>1
    <3> DEFINE r == [key |-> k, timestamp |-> 0, value |-> ds_key_from_binary(k)]
    <3>2. r \in Records /\ r.key = k
      BY DEF Records, Values
    <3> QED BY <1>0, <3>1, <3>2 DEF AddBlock, TypeOK, DSTypeOK
  <2>2. CASE \E k \in Names, p \in Paths : Publish(t, k, p)
    <3>1. PICK k \in Names, p \in Paths : Publish(t, k, p)
      BY <2>2
    <3> DEFINE r == [key |-> k, timestamp |-> 0, value |-> p]
    <3>2. r \in Records /\ r.key \notin Keys
      BY NamesAssumption DEF Records, Values
    <3> QED BY <1>0, <3>1, <3>2 DEF Publish, TypeOK, DSTypeOK
  <2> QED BY <2>1, <2>2
<1>2. TypeOK'
  <2>1. DSTypeOK'
    BY <1>0, <1>1 DEF TypeOK, DSTypeOK
  <2> QED BY <1>0, <2>1 DEF TypeOK, jvars
<1>3. ArgsHaveFiles'
  BY <1>0, <1>1 DEF IInv, ArgsHaveFiles, Putting, TypeOK, DSTypeOK
<1>4. OneWriter'
  BY <1>0, <1>1 DEF IInv, OneWriter, TypeOK, DSTypeOK
<1>5. HandlerPuts'
  BY <1>0, <1>1, HandlerAssumption DEF IInv, HandlerPuts, Putting, TypeOK, DSTypeOK, jvars
<1> QED
  BY <1>1, <1>2, <1>3, <1>4, <1>5, SameTables DEF IInv, Tables, jvars

(* What the transaction writes: the data record, and with it at most one journal
   record of the same key and time. *)
LEMMA WritesKeepTables ==
  ASSUME IInv, NEW r \in Records, r.key \in Keys => r.key \in files,
         data' = data \cup {Stored(r)},
         journal' = journal \/ (\E x \in JournalRecords : x.timestamp # 0 /\ journal' = journal \cup {x}),
         UNCHANGED files
  PROVE  /\ data' \subseteq Records /\ \A s \in data' : s.timestamp # 0
         /\ journal' \subseteq JournalRecords /\ \A x \in journal' : x.timestamp # 0
         /\ DataOrdered' /\ JournalOrdered' /\ RecordMeansFile'
<1>0. DSTypeOK /\ DataOrdered /\ JournalOrdered
  BY DEF IInv, Tables, TypeOK
<1>1. Stored(r) \in Records /\ Stored(r).key = r.key /\ Stored(r).timestamp # 0
  BY <1>0, StoredRecord
<1>2. /\ data' \subseteq Records /\ \A s \in data' : s.timestamp # 0
      /\ journal' \subseteq JournalRecords /\ \A x \in journal' : x.timestamp # 0
  BY <1>0, <1>1 DEF DSTypeOK
<1>3. DataOrdered'
  BY <1>0, <1>1, DataGrows DEF DataOrdered, DSTypeOK
<1>4. JournalOrdered'
  BY <1>0, JournalGrows DEF JournalOrdered, DSTypeOK
<1>5. RecordMeansFile'
  BY <1>1 DEF IInv, RecordMeansFile
<1> QED
  BY <1>2, <1>3, <1>4, <1>5

(* The end of a put, whichever way it ends: the thread is idle again. *)
LEMMA PutEnds ==
  ASSUME IInv, NEW t \in Threads, pc[t] = "body", Return(t), UNCHANGED <<files, clock>>,
         IF t = Handler /\ pc'[t] = "idle" THEN Adjusted ELSE UNCHANGED jvars
  PROVE  /\ pc'[t] = "idle"
         /\ pc' \in [Threads -> {"idle", "begin", "body", "stuck"}]
         /\ arg' \in [Threads -> Records \cup {NoRecord}]
         /\ incoming' \in Seq(Entries) /\ todo' \in Seq(Todos)
         /\ adjusted' \subseteq Entries /\ lastConnect' = lastConnect
         /\ ArgsHaveFiles' /\ HandlerPuts'
<1>0. TypeOK
  BY DEF IInv, Tables
<1>1. /\ pc'[t] = "idle"
      /\ pc' \in [Threads -> {"idle", "begin", "body", "stuck"}]
      /\ arg' \in [Threads -> Records \cup {NoRecord}]
  BY <1>0 DEF Return, TypeOK, DSTypeOK
<1>2. ArgsHaveFiles'
  BY <1>0 DEF IInv, ArgsHaveFiles, Putting, Return, TypeOK, DSTypeOK
<1>3. CASE t = Handler
  <2>1. Adjusted /\ todo # <<>>
    BY <1>1, <1>3 DEF IInv, HandlerPuts, Putting
  <2>2. Head(todo) \in Todos /\ Tail(todo) \in Seq(Todos)
    BY <1>0, <2>1, HeadTailProperties DEF TypeOK
  <2>3. Head(todo).entry \in Entries
    BY <2>2 DEF Todos
  <2>4. HandlerPuts'
    BY <1>1, <1>3 DEF HandlerPuts, Putting
  <2>5. incoming' \in Seq(Entries) /\ todo' \in Seq(Todos) /\ lastConnect' = lastConnect
    BY <1>0, <2>1, <2>2 DEF Adjusted, TypeOK
  <2>6. adjusted' \subseteq Entries
    BY <1>0, <2>1, <2>3 DEF Adjusted, TypeOK
  <2> QED BY <1>1, <1>2, <2>4, <2>5, <2>6
<1>4. CASE t # Handler
  <2>1. UNCHANGED jvars
    BY <1>4
  <2>2. pc'[Handler] = pc[Handler] /\ arg'[Handler] = arg[Handler]
    BY <1>0, <1>4, HandlerAssumption DEF Return, TypeOK, DSTypeOK
  <2>3. HandlerPuts'
    BY <2>1, <2>2 DEF IInv, HandlerPuts, Putting, jvars
  <2> QED BY <1>0, <1>1, <1>2, <2>1, <2>3 DEF TypeOK, jvars
<1> QED
  BY <1>3, <1>4

(* Begin. *)
LEMMA BeginKeeps ==
  ASSUME IInv, NEW t \in Threads, Begin(t),
         IF t = Handler /\ pc'[t] = "idle" THEN Adjusted ELSE UNCHANGED jvars
  PROVE  IInv'
<1>0. TypeOK
  BY DEF IInv, Tables
<1>1. pc'[t] = "body" /\ UNCHANGED jvars
  BY <1>0 DEF Begin, TypeOK, DSTypeOK
<1>2. TypeOK'
  <2>1. DSTypeOK'
    BY <1>0 DEF Begin, TypeOK, DSTypeOK
  <2> QED BY <1>0, <1>1, <2>1 DEF TypeOK, jvars
<1>3. ArgsHaveFiles'
  BY <1>0 DEF IInv, ArgsHaveFiles, Putting, Begin, TypeOK, DSTypeOK
<1>4. OneWriter'
  BY <1>0, ThreadsAssumption DEF IInv, OneWriter, Begin, TypeOK, DSTypeOK
<1>5. HandlerPuts'
  BY <1>0, <1>1, HandlerAssumption DEF IInv, HandlerPuts, Putting, Begin, TypeOK, DSTypeOK, jvars
<1> QED
  BY <1>1, <1>2, <1>3, <1>4, <1>5, SameTables DEF IInv, Tables, Begin, jvars

(* Put: the transaction is committed as a whole. *)
LEMMA PutKeeps ==
  ASSUME IInv, NEW t \in Threads, Put(t),
         IF t = Handler /\ pc'[t] = "idle" THEN Adjusted ELSE UNCHANGED jvars
  PROVE  IInv'
<1>0. TypeOK /\ DSTypeOK /\ DataOrdered /\ JournalOrdered
  BY DEF IInv, Tables, TypeOK
<1> DEFINE r == arg[t]
<1>1. r \in Records /\ (r.key \in Keys => r.key \in files)
  BY DEF IInv, ArgsHaveFiles, Putting, Put
<1>2. /\ Stored(r) \in Records /\ Stored(r).key = r.key /\ Stored(r).timestamp # 0
      /\ r.timestamp # 0 => Stored(r).timestamp <= r.timestamp
  BY <1>0, <1>1, StoredRecord
<1>3. /\ JournalAdded(r) = {} \/ \E x : JournalAdded(r) = {x}
      /\ \A x \in JournalAdded(r) :
           x \in JournalRecords /\ x.hash = r.key /\ x.timestamp = Stored(r).timestamp
      /\ Stored(r) \notin data /\ lmdb_get(r.key) = NoRecord => JournalAdded(r) # {}
  BY <1>0, <1>1, JournalAddedRecord
<1>4. data' = data \cup {Stored(r)} /\ journal' = journal \cup JournalAdded(r)
  BY DEF Put
<1> HIDE DEF r
<1>5. /\ data' \subseteq Records /\ \A s \in data' : s.timestamp # 0
      /\ journal' \subseteq JournalRecords /\ \A x \in journal' : x.timestamp # 0
      /\ DataOrdered' /\ JournalOrdered' /\ RecordMeansFile'
  <2>1. journal' = journal \/ (\E x \in JournalRecords : x.timestamp # 0 /\ journal' = journal \cup {x})
    BY <1>2, <1>3, <1>4
  <2>2. UNCHANGED files
    BY DEF Put
  <2> QED BY <1>1, <1>4, <2>1, <2>2, WritesKeepTables
<1>6. /\ pc'[t] = "idle"
      /\ pc' \in [Threads -> {"idle", "begin", "body", "stuck"}]
      /\ arg' \in [Threads -> Records \cup {NoRecord}]
      /\ incoming' \in Seq(Entries) /\ todo' \in Seq(Todos)
      /\ adjusted' \subseteq Entries /\ lastConnect' = lastConnect
      /\ ArgsHaveFiles' /\ HandlerPuts'
  <2>1. pc[t] = "body" /\ Return(t) /\ UNCHANGED <<files, clock>>
    BY DEF Put
  <2> QED BY <2>1, PutEnds
<1>7. TypeOK'
  <2>1. DSTypeOK'
    BY <1>0, <1>5, <1>6 DEF Put, DSTypeOK
  <2> QED BY <1>0, <1>6, <2>1 DEF TypeOK
<1>8. OneWriter'
  <2>1. pc' = [pc EXCEPT ![t] = "idle"] /\ writer' = NoThread /\ faults' = faults /\ writer = t
    BY DEF Put, Return
  <2> QED BY <1>0, <2>1, ThreadsAssumption DEF IInv, OneWriter, DSTypeOK
<1>9. DataJournalled'
  <2> SUFFICES ASSUME faults' = 0, NEW s \in data' PROVE \E x \in journal' : x.hash = s.key
    BY DEF DataJournalled
  <2>1. \A q \in data : \E x \in journal' : x.hash = q.key
    BY <1>4 DEF IInv, DataJournalled, Put
  <2>2. CASE s \in data
    BY <2>1, <2>2
  <2>3. CASE s = Stored(r) /\ s \notin data
    <3>1. CASE lmdb_get(r.key) = NoRecord
      BY <1>2, <1>3, <1>4, <2>3, <3>1
    <3>2. CASE lmdb_get(r.key) # NoRecord
      <4>1. lmdb_get(r.key) \in data /\ lmdb_get(r.key).key = r.key
        BY <1>0, <3>2, GetReturns
      <4> QED BY <1>2, <2>1, <2>3, <4>1
    <3> QED BY <3>1, <3>2
  <2> QED BY <1>4, <2>2, <2>3
<1>10. JournalMatchesData'
  BY <1>2, <1>3, <1>4 DEF IInv, JournalMatchesData, Put
<1>11. EarliestKept'
  <2> SUFFICES ASSUME faults' = 0, NEW e \in adjusted'
               PROVE  \E s \in data' : s.key = e.hash /\ s.timestamp <= e.timestamp
    BY DEF EarliestKept
  <2>1. CASE e \in adjusted
    BY <1>4, <2>1 DEF IInv, EarliestKept, Put
  <2>2. CASE e \notin adjusted
    <3>1. t = Handler /\ e = Head(todo).entry /\ e.timestamp # 0
      BY <1>6, <2>2 DEF Adjusted, jvars
    <3>2. r.key = e.hash /\ r.timestamp = e.timestamp
      BY <3>1 DEF IInv, HandlerPuts, Putting, Put, r
    <3> QED BY <1>2, <1>4, <3>1, <3>2
  <2> QED BY <2>1, <2>2
<1> QED
  BY <1>5, <1>6, <1>7, <1>8, <1>9, <1>10, <1>11 DEF IInv, Tables

(* The failures: each is counted, and what the tables hold keeps its type. *)
LEMMA FailureKeeps ==
  ASSUME IInv, NEW t \in Threads,
         PutLeaks(t) \/ PutWithoutJournal(t) \/ PutGarbage(t) \/ PutLost(t),
         IF t = Handler /\ pc'[t] = "idle" THEN Adjusted ELSE UNCHANGED jvars
  PROVE  IInv'
<1>0. TypeOK /\ DSTypeOK /\ DataOrdered /\ JournalOrdered
  BY DEF IInv, Tables, TypeOK
<1> DEFINE r == arg[t]
<1>1. /\ pc[t] = "body" /\ writer = t /\ Fault /\ Return(t) /\ UNCHANGED <<files, clock>>
      /\ writer' \in Threads \cup {NoThread}
  BY DEF PutLeaks, PutWithoutJournal, PutGarbage, PutLost
<1>2. faults' # 0 /\ faults' \in 0..MaxFaults
  BY <1>0, <1>1, FaultsAssumption DEF Fault, DSTypeOK
<1>3. r \in Records /\ (r.key \in Keys => r.key \in files)
  BY <1>1 DEF IInv, ArgsHaveFiles, Putting
<1>4. /\ pc' \in [Threads -> {"idle", "begin", "body", "stuck"}]
      /\ arg' \in [Threads -> Records \cup {NoRecord}]
      /\ incoming' \in Seq(Entries) /\ todo' \in Seq(Todos)
      /\ adjusted' \subseteq Entries /\ lastConnect' = lastConnect
      /\ ArgsHaveFiles' /\ HandlerPuts'
  BY <1>1, PutEnds
<1>5. /\ data' \subseteq Records /\ \A s \in data' : s.timestamp # 0
      /\ journal' \subseteq JournalRecords /\ \A x \in journal' : x.timestamp # 0
      /\ DataOrdered' /\ JournalOrdered' /\ RecordMeansFile'
  <2>1. CASE PutLeaks(t) \/ PutLost(t)
    <3>1. UNCHANGED <<data, journal, files>>
      BY <2>1 DEF PutLeaks, PutLost
    <3>2. /\ data' \subseteq Records /\ \A s \in data' : s.timestamp # 0
          /\ journal' \subseteq JournalRecords /\ \A x \in journal' : x.timestamp # 0
      BY <1>0, <3>1 DEF DSTypeOK
    <3> QED BY <1>2, <3>1, <3>2, SameTables
  <2>2. CASE PutWithoutJournal(t)
    <3>1. data' = data \cup {Stored(r)} /\ UNCHANGED <<journal, files>>
      BY <2>2 DEF PutWithoutJournal
    <3> HIDE DEF r
    <3> QED BY <1>3, <3>1, WritesKeepTables
  <2>3. CASE PutGarbage(t)
    <3>1. PICK x \in JournalAdded(r), s \in Times :
            journal' = journal \cup {[x EXCEPT !.hash = Garbage, !.timestamp = s]}
      BY <2>3 DEF PutGarbage
    <3>2. x \in JournalRecords
      BY <1>0, <1>3, JournalAddedRecord
    <3>3. LET g == [x EXCEPT !.hash = Garbage, !.timestamp = s]
          IN  g \in JournalRecords /\ g.timestamp # 0
      BY <3>2, TimesBounds DEF JournalRecords
    <3>4. data' = data \cup {Stored(r)} /\ UNCHANGED files
      BY <2>3 DEF PutGarbage
    <3> HIDE DEF r
    <3> QED BY <1>3, <3>1, <3>3, <3>4, WritesKeepTables
  <2> QED BY <2>1, <2>2, <2>3
<1>6. TypeOK'
  <2>1. DSTypeOK'
    BY <1>0, <1>1, <1>2, <1>4, <1>5 DEF DSTypeOK
  <2> QED BY <1>0, <1>4, <2>1 DEF TypeOK
<1>7. OneWriter' /\ DataJournalled' /\ JournalMatchesData' /\ EarliestKept'
  BY <1>2 DEF OneWriter, DataJournalled, JournalMatchesData, EarliestKept
<1> QED
  BY <1>4, <1>5, <1>6, <1>7 DEF IInv, Tables

(* A search that does not end needs an earlier failure. *)
LEMMA SpinKeeps ==
  ASSUME IInv, NEW t \in Threads, PutSpins(t),
         IF t = Handler /\ pc'[t] = "idle" THEN Adjusted ELSE UNCHANGED jvars
  PROVE  IInv'
<1>0. TypeOK /\ DSTypeOK /\ DataOrdered /\ JournalOrdered
  BY DEF IInv, Tables, TypeOK
<1>1. faults # 0
  <2>1. arg[t] \in Records /\ LookUpSpins(arg[t])
    BY DEF IInv, ArgsHaveFiles, Putting, PutSpins
  <2> QED BY <1>0, <2>1, LookUpEnds DEF IInv
<1>2. pc' = [pc EXCEPT ![t] = "stuck"] /\ UNCHANGED <<data, journal, files, writer, arg, clock, faults>>
  BY DEF PutSpins
<1>3. pc'[t] = "stuck" /\ UNCHANGED jvars
  BY <1>0, <1>2 DEF DSTypeOK
<1>4. TypeOK'
  <2>1. DSTypeOK'
    BY <1>0, <1>2 DEF DSTypeOK
  <2> QED BY <1>0, <1>3, <2>1 DEF TypeOK, jvars
<1>5. ArgsHaveFiles'
  BY <1>0, <1>2 DEF IInv, ArgsHaveFiles, Putting, DSTypeOK
<1>6. HandlerPuts'
  BY <1>0, <1>2, <1>3, HandlerAssumption DEF IInv, HandlerPuts, Putting, DSTypeOK, jvars
<1>7. OneWriter'
  BY <1>1, <1>2 DEF OneWriter
<1> QED
  BY <1>2, <1>3, <1>4, <1>5, <1>6, <1>7, SameTables DEF IInv, Tables, jvars

(* The handler's own steps. *)
LEMMA HandlerKeeps ==
  ASSUME IInv,
         (\E m \in Messages : Receive(m)) \/ BuildTodo \/ WantEntry \/ NothingToAdjust
  PROVE  IInv'
<1>0. TypeOK /\ DSTypeOK /\ DataOrdered
  BY DEF IInv, Tables, TypeOK
<1>1. UNCHANGED dsvars /\ ~Putting(Handler)
  BY DEF IInv, HandlerPuts, Putting, Receive, BuildTodo, WantEntry, NothingToAdjust, NextTodo
<1>2. UNCHANGED <<data, journal, files, writer, pc, arg, clock, faults>>
  BY <1>1 DEF dsvars
<1>3. DSTypeOK' /\ ArgsHaveFiles' /\ OneWriter' /\ HandlerPuts'
  BY <1>0, <1>1, <1>2 DEF IInv, DSTypeOK, ArgsHaveFiles, OneWriter, HandlerPuts, Putting
<1>4. TypeOK' /\ EarliestKept'
  <2>1. CASE \E m \in Messages : Receive(m)
    <3>1. incoming' \in Seq(Entries) /\ UNCHANGED <<todo, adjusted, lastConnect>>
      BY <2>1, MessagesAssumption DEF Receive
    <3> QED BY <1>0, <1>2, <1>3, <3>1, SameTables DEF TypeOK
  <2>2. CASE BuildTodo
    <3>0. incoming # <<>> /\ incoming' = Tail(incoming) /\ UNCHANGED <<adjusted, lastConnect>>
      BY <2>2 DEF BuildTodo
    <3>1. Head(incoming) \in Entries /\ incoming' \in Seq(Entries)
      BY <1>0, <3>0, HeadTailProperties DEF TypeOK
    <3>2. \A a \in {"JOURNAL_ENTRY_NEEDED", "JOURNAL_TIME_ADJUST"} :
            Append(todo, [action |-> a, entry |-> Head(incoming)]) \in Seq(Todos)
      <4>1. \A a \in {"JOURNAL_ENTRY_NEEDED", "JOURNAL_TIME_ADJUST"} :
              [action |-> a, entry |-> Head(incoming)] \in Todos
        BY <3>1 DEF Todos
      <4> QED BY <1>0, <4>1, AppendProperties DEF TypeOK
    <3>3. \/ todo' = todo
          \/ todo' = Append(todo, [action |-> "JOURNAL_ENTRY_NEEDED", entry |-> Head(incoming)])
          \/ todo' = Append(todo, [action |-> "JOURNAL_TIME_ADJUST", entry |-> Head(incoming)])
      BY <2>2 DEF BuildTodo
    <3>4. todo' \in Seq(Todos)
      BY <1>0, <3>2, <3>3 DEF TypeOK
    <3> QED BY <1>0, <1>2, <1>3, <3>0, <3>1, <3>4, SameTables DEF TypeOK
  <2>3. CASE WantEntry
    <3>1. todo # <<>> /\ todo' = Tail(todo) /\ UNCHANGED <<incoming, adjusted, lastConnect>>
      BY <2>3 DEF WantEntry, NextTodo
    <3>2. todo' \in Seq(Todos)
      BY <1>0, <3>1, HeadTailProperties DEF TypeOK
    <3> QED BY <1>0, <1>2, <1>3, <3>1, <3>2, SameTables DEF TypeOK
  <2>5. CASE NothingToAdjust
    <3> DEFINE e == Head(todo).entry
               rec == lmdb_get(e.hash)
    <3>1. todo # <<>> /\ todo' = Tail(todo) /\ UNCHANGED <<incoming, lastConnect>>
      BY <2>5 DEF NothingToAdjust, NextTodo
    <3>2. \/ adjusted' = adjusted
          \/ rec # NoRecord /\ rec.timestamp <= e.timestamp /\ adjusted' = adjusted \cup {e}
      BY <2>5 DEF NothingToAdjust
    <3>3. Head(todo) \in Todos /\ todo' \in Seq(Todos)
      BY <1>0, <3>1, HeadTailProperties DEF TypeOK
    <3>4. e \in Entries
      BY <3>3 DEF Todos
    <3>5. adjusted' \subseteq Entries
      BY <1>0, <3>2, <3>4 DEF TypeOK
    <3>6. rec # NoRecord => rec \in data /\ rec.key = e.hash
      BY <1>0, GetReturns
    <3>7. EarliestKept'
      BY <1>2, <3>2, <3>6 DEF IInv, EarliestKept
    <3> QED BY <1>0, <1>3, <3>1, <3>3, <3>5, <3>7 DEF TypeOK
  <2> QED BY <2>1, <2>2, <2>3, <2>5
<1> QED
  BY <1>2, <1>3, <1>4, SameTables DEF IInv, Tables

(* The handler reads the record again and calls put with the older time. *)
LEMMA AdjustKeeps ==
  ASSUME IInv, AdjustTime
  PROVE  IInv'
<1>0. TypeOK /\ DSTypeOK /\ DataOrdered
  BY DEF IInv, Tables, TypeOK
<1> DEFINE e   == Head(todo).entry
           rec == lmdb_get(e.hash)
           new == IF e.timestamp = 0 THEN rec ELSE [rec EXCEPT !.timestamp = e.timestamp]
<1>1. /\ pc[Handler] = "idle" /\ incoming = <<>> /\ todo # <<>>
      /\ rec # NoRecord
      /\ arg' = [arg EXCEPT ![Handler] = new] /\ pc' = [pc EXCEPT ![Handler] = "begin"]
      /\ UNCHANGED <<data, journal, files, writer, clock, faults, jvars>>
  BY DEF AdjustTime, NextTodo
<1>2. rec \in data /\ rec \in Records /\ rec.key = e.hash
  BY <1>0, <1>1, GetReturns DEF DSTypeOK
<1>3. e \in Entries
  <2>1. Head(todo) \in Todos
    BY <1>0, <1>1, HeadTailProperties DEF TypeOK
  <2> QED BY <2>1 DEF Todos
<1>4. new \in Records /\ new.key = e.hash /\ (e.timestamp # 0 => new.timestamp = e.timestamp)
  <2> HIDE DEF e, rec
  <2>1. CASE e.timestamp = 0
    BY <1>2, <2>1
  <2>2. CASE e.timestamp # 0
    BY <1>2, <1>3, <2>2 DEF Records, Entries
  <2> QED BY <2>1, <2>2
<1>5. new.key \in Keys => new.key \in files
  BY <1>2, <1>4 DEF IInv, RecordMeansFile
<1> HIDE DEF new
<1>6. TypeOK'
  <2>1. DSTypeOK'
    BY <1>0, <1>1, <1>4 DEF DSTypeOK
  <2> QED BY <1>0, <1>1, <2>1 DEF TypeOK, jvars
<1>7. ArgsHaveFiles'
  BY <1>0, <1>1, <1>4, <1>5, HandlerAssumption DEF IInv, ArgsHaveFiles, Putting, DSTypeOK
<1>8. OneWriter'
  BY <1>0, <1>1, HandlerAssumption DEF IInv, OneWriter, DSTypeOK
<1>9. HandlerPuts'
  <2>1. arg'[Handler] = new /\ UNCHANGED <<incoming, todo>>
    BY <1>0, <1>1, HandlerAssumption DEF DSTypeOK, jvars
  <2> QED BY <1>1, <1>4, <2>1 DEF HandlerPuts
<1> QED
  BY <1>1, <1>6, <1>7, <1>8, <1>9, SameTables DEF IInv, Tables, jvars

(* Clock, maintenance and the end of the process. *)
LEMMA OthersKeep ==
  ASSUME IInv, (Tick /\ UNCHANGED jvars) \/ Sync \/ Crash
  PROVE  IInv'
<1>0. TypeOK /\ DSTypeOK
  BY DEF IInv, Tables, TypeOK
<1>1. CASE Tick /\ UNCHANGED jvars
  <2>1. clock' \in Times /\ UNCHANGED <<data, journal, files, writer, pc, arg, faults, jvars>>
    BY <1>1 DEF Tick
  <2>2. TypeOK'
    BY <1>0, <2>1 DEF TypeOK, DSTypeOK, jvars
  <2>3. ArgsHaveFiles' /\ OneWriter' /\ HandlerPuts'
    BY <2>1 DEF IInv, ArgsHaveFiles, OneWriter, HandlerPuts, Putting, jvars
  <2> QED BY <2>1, <2>2, <2>3, SameTables DEF IInv, Tables, jvars
<1>2. CASE Sync
  <2>1. /\ lastConnect' = clock
        /\ UNCHANGED <<data, journal, files, writer, pc, arg, clock, faults, incoming, todo, adjusted>>
    BY <1>2 DEF Sync, dsvars
  <2>2. TypeOK'
    BY <1>0, <2>1 DEF TypeOK, DSTypeOK
  <2>3. ArgsHaveFiles' /\ OneWriter' /\ HandlerPuts'
    BY <2>1 DEF IInv, ArgsHaveFiles, OneWriter, HandlerPuts, Putting
  <2> QED BY <2>1, <2>2, <2>3, SameTables DEF IInv, Tables
<1>3. CASE Crash
  <2>1. /\ writer' = NoThread /\ pc' = [t \in Threads |-> "idle"] /\ arg' = [t \in Threads |-> NoRecord]
        /\ UNCHANGED <<data, journal, files, clock, faults, adjusted>>
        /\ incoming' = <<>> /\ todo' = <<>> /\ lastConnect' = 0
    BY <1>3 DEF Crash, DSCrash
  <2>2. incoming' \in Seq(Entries) /\ todo' \in Seq(Todos)
    BY <2>1, EmptySeq
  <2>3. TypeOK'
    BY <1>0, <2>1, <2>2 DEF TypeOK, DSTypeOK
  <2>4. \A t \in Threads : pc'[t] = "idle" /\ writer' # t
    BY <2>1, ThreadsAssumption
  <2>5. ArgsHaveFiles' /\ OneWriter' /\ HandlerPuts'
    BY <2>4, HandlerAssumption DEF ArgsHaveFiles, OneWriter, HandlerPuts, Putting
  <2> QED BY <2>1, <2>3, <2>5, SameTables DEF IInv, Tables
<1> QED
  BY <1>1, <1>2, <1>3

(* A read that fails: the tables stay, and the properties of failure-free
   behaviours no longer say anything. *)
LEMMA CannotReadKeeps ==
  ASSUME IInv, CannotRead
  PROVE  IInv'
<1>0. TypeOK /\ DSTypeOK
  BY DEF IInv, Tables, TypeOK
<1>1. /\ UNCHANGED <<data, journal, files, writer, pc, arg, clock, incoming, adjusted, lastConnect>>
      /\ ~Putting(Handler) /\ todo # <<>> /\ todo' = Tail(todo)
      /\ faults < MaxFaults /\ faults' = faults + 1
  BY DEF CannotRead, NextTodo, Fault, Putting
<1>2. faults' \in 0..MaxFaults /\ faults' # 0
  BY <1>0, <1>1, FaultsAssumption DEF DSTypeOK
<1>3. todo' \in Seq(Todos)
  BY <1>0, <1>1, HeadTailProperties DEF TypeOK
<1>4. DSTypeOK' /\ ArgsHaveFiles' /\ OneWriter' /\ HandlerPuts'
  BY <1>0, <1>1, <1>2 DEF IInv, DSTypeOK, ArgsHaveFiles, OneWriter, HandlerPuts, Putting
<1>5. TypeOK'
  BY <1>0, <1>1, <1>3, <1>4 DEF TypeOK
<1> QED
  BY <1>1, <1>2, <1>4, <1>5, SameTables DEF IInv, Tables

(* Every step of every thread keeps the invariant. *)
LEMMA StepIInv == IInv /\ [Next]_vars => IInv'
<1> SUFFICES ASSUME IInv, [Next]_vars PROVE IInv'
  OBVIOUS
<1>1. ASSUME NEW t \in Threads \ {Handler},
             \/ \E k \in Keys : AddBlock(t, k)
             \/ \E k \in Names, p \in Paths : Publish(t, k, p),
             UNCHANGED jvars
      PROVE  IInv'
  BY <1>1, CallPut
<1>2. ASSUME NEW t \in Threads, PutOf(t) PROVE IInv'
  <2>1. IF t = Handler /\ pc'[t] = "idle" THEN Adjusted ELSE UNCHANGED jvars
    BY <1>2 DEF PutOf
  <2>2. CASE Begin(t)
    BY <2>1, <2>2, BeginKeeps
  <2>3. CASE Put(t)
    BY <2>1, <2>3, PutKeeps
  <2>4. CASE PutSpins(t)
    BY <2>1, <2>4, SpinKeeps
  <2>5. CASE PutLeaks(t) \/ PutWithoutJournal(t) \/ PutGarbage(t) \/ PutLost(t)
    BY <2>1, <2>5, FailureKeeps
  <2> QED BY <1>2, <2>2, <2>3, <2>4, <2>5 DEF PutOf, PutStep
<1>3. CASE (Tick /\ UNCHANGED jvars) \/ Sync \/ Crash
  BY <1>3, OthersKeep
<1>4. CASE (\E m \in Messages : Receive(m)) \/ BuildTodo \/ WantEntry \/ NothingToAdjust
  BY <1>4, HandlerKeeps
<1>7. CASE CannotRead
  BY <1>7, CannotReadKeeps
<1>5. CASE AdjustTime
  BY <1>5, AdjustKeeps
<1>6. CASE UNCHANGED vars
  <2>1. UNCHANGED <<data, journal, files, writer, pc, arg, clock, faults, incoming, todo, adjusted, lastConnect>>
    BY <1>6 DEF vars, dsvars, jvars
  <2>2. TypeOK' /\ ArgsHaveFiles' /\ OneWriter' /\ HandlerPuts'
    BY <2>1 DEF IInv, Tables, TypeOK, DSTypeOK, ArgsHaveFiles, OneWriter, HandlerPuts, Putting
  <2> QED BY <2>1, <2>2, SameTables DEF IInv, Tables
<1> QED
  BY <1>1, <1>2, <1>3, <1>4, <1>5, <1>6, <1>7 DEF Next

(* The invariant holds in every reachable state. *)
THEOREM Invariance == Spec => []IInv
  BY InitIInv, StepIInv, PTL DEF Spec

(* Types of the tables, of put's locals and of the handler's list. *)
THEOREM Typing == Spec => []TypeOK
<1>1. IInv => TypeOK
  BY DEF IInv, Tables
<1> QED
  BY <1>1, Invariance, PTL

(* A record in the datastore implies the file of its block, after any crash and
   any failure of malloc or of LMDB. *)
THEOREM RecordsHaveFiles == Spec => []RecordMeansFile
<1>1. IInv => RecordMeansFile
  BY DEF IInv
<1> QED
  BY <1>1, Invariance, PTL

(* Data and journal are written together: every record has its journal record ... *)
THEOREM EveryRecordIsJournalled == Spec => []DataJournalled
<1>1. IInv => DataJournalled
  BY DEF IInv
<1> QED
  BY <1>1, Invariance, PTL

(* ... and every journal record has the time of a record that is stored. *)
THEOREM JournalTellsTheTruth == Spec => []JournalMatchesData
<1>1. IInv => JournalMatchesData
  BY DEF IInv
<1> QED
  BY <1>1, Invariance, PTL

(* The older time is kept, whatever other threads put between the handler's reads
   and its write. *)
THEOREM OlderTimeIsKept == Spec => []EarliestKept
<1>1. IInv => EarliestKept
  BY DEF IInv
<1> QED
  BY <1>1, Invariance, PTL

(* While no call has failed, whoever holds the write transaction is about to end
   it: no search of the journal runs off the end of the table. *)
THEOREM NoTransactionIsKept == Spec => []TransactionEnds
<1>1. IInv => TransactionEnds
  BY DEF IInv, Tables, TypeOK, DSTypeOK, OneWriter, TransactionEnds
<1> QED
  BY <1>1, Invariance, PTL
=============================================================================
