----------------------- MODULE PeerRequestQueueProofs -----------------------
(***************************************************************************)
(* Proofs about PeerRequestQueue for any number of threads and peers, any  *)
(* mix of operations and any bound on the allocations, unless a theorem    *)
(* says otherwise.                                                         *)
(*                                                                         *)
(* IInv adds to TypeOK, that nothing points beyond the entries allocated   *)
(* so far, whose peers the entries are that are returned or attached.      *)
(*                                                                         *)
(* WalksEnd follows from Order: the entries can be ranked so that next     *)
(* goes up and prior goes down.  FreeReleasesAll follows from Layout, the  *)
(* three shapes the list has while one thread works on it.                 *)
(***************************************************************************)
EXTENDS PeerRequestQueue, FiniteSetTheorems, Induction

\* An empty queue satisfies the invariant.
LEMMA InitIInv == Init => IInv
  <1> SUFFICES ASSUME Init PROVE IInv
    OBVIOUS
  <1>1. TypeOK
    BY QueueAssumption DEF Init, TypeOK, Entries, NULL
  <1>2. OwnRequest
    BY DEF Init, OwnRequest
  <1>3. QED
    BY <1>1, <1>2 DEF Init, IInv

\* An entry that is about to be allocated is one of Entries and used by nobody.
LEMMA Fresh ==
  ASSUME TypeOK, used < MaxEntries
  PROVE  /\ used + 1 \in Entries
         /\ used + 1 \in 1..(used + 1)
         /\ used + 1 \in 0..MaxEntries
         /\ 0..used \subseteq 0..(used + 1)
         /\ 1..used \subseteq 1..(used + 1)
         /\ 0..used \subseteq Entries \cup {NULL}
         /\ \A e \in 0..used : e # used + 1
  <1>1. used \in 0..MaxEntries
    BY DEF TypeOK
  <1>2. QED
    BY <1>1, QueueAssumption DEF Entries, NULL

\* Pointers are NULL or lead to entries.
LEMMA Allocated ==
  ASSUME TypeOK
  PROVE  NULL \in 0..used /\ 0..used \subseteq Entries \cup {NULL}
  <1>1. used \in 0..MaxEntries
    BY DEF TypeOK
  <1>2. QED
    BY <1>1, QueueAssumption DEF Entries, NULL

\* Every step of a thread, and every operation under the mutex, keeps the
\* types: no pointer to an entry that is not allocated is ever written.
LEMMA StepTypeOK ==
  ASSUME IInv, Next
  PROVE  TypeOK'
  <1> USE DEF NULL
  <1>0. TypeOK /\ NULL \in 0..used /\ 0..used \subseteq Entries \cup {NULL}
    BY Allocated DEF IInv
  <1>1. ASSUME NEW t \in Threads, NEW o \in Operations, NEW p \in Peers,
               Call(t, o, p)
        PROVE  TypeOK'
    <2>1. o \in {"find_peer", "find_entry"}
      BY <1>1 DEF Call
    <2>2. QED
      BY <1>0, <1>1, <2>1 DEF Call, TypeOK, Goto, list
  <1>2. ASSUME NEW t \in Threads, WalkFound(t)
        PROVE  TypeOK'
    BY <1>0, <1>2 DEF WalkFound, TypeOK, Goto, list
  <1>3. ASSUME NEW t \in Threads, WalkNext(t)
        PROVE  TypeOK'
    BY <1>0, <1>3 DEF WalkNext, TypeOK, Goto, list
  <1>4. ASSUME NEW t \in Threads, WalkFreed(t)
        PROVE  TypeOK'
    BY <1>0, <1>4 DEF WalkFreed, Die, TypeOK, list, locals
  <1>5. ASSUME NEW t \in Threads, NotFound(t)
        PROVE  TypeOK'
    BY <1>0, <1>5 DEF NotFound, TypeOK, Goto, list
  <1>6. ASSUME NEW t \in Threads, Create(t)
        PROVE  TypeOK'
    <2>1. used < MaxEntries /\ used' = used + 1
      BY <1>6 DEF Create
    <2>2. /\ used + 1 \in Entries
          /\ used + 1 \in 0..MaxEntries
          /\ used + 1 \in 0..(used + 1)
          /\ 0..used \subseteq 0..(used + 1)
          /\ 1..used \subseteq 1..(used + 1)
      BY <1>0, <2>1, Fresh
    <2>3. QED
      BY <1>0, <1>6, <2>1, <2>2 DEF Create, TypeOK, Goto
  <1>7. ASSUME NEW t \in Threads, AttachTest(t)
        PROVE  TypeOK'
    BY <1>0, <1>7 DEF AttachTest, TypeOK, Goto, list
  <1>8. ASSUME NEW t \in Threads, AttachFirst(t)
        PROVE  TypeOK'
    BY <1>0, <1>8 DEF AttachFirst, TypeOK, Goto
  <1>9. ASSUME NEW t \in Threads, AttachNext(t)
        PROVE  TypeOK'
    BY <1>0, <1>9 DEF AttachNext, TypeOK, Goto
  <1>10. ASSUME NEW t \in Threads, AttachNextFails(t)
         PROVE  TypeOK'
    BY <1>0, <1>10 DEF AttachNextFails, Die, TypeOK, list, locals
  <1>11. ASSUME NEW t \in Threads, AttachPrior(t)
         PROVE  TypeOK'
    BY <1>0, <1>11 DEF AttachPrior, TypeOK, Goto
  <1>12. ASSUME NEW t \in Threads, AttachLast(t)
         PROVE  TypeOK'
    BY <1>0, <1>12 DEF AttachLast, TypeOK, Goto
  <1>13. ASSUME NEW p \in Peers, Add(p)
         PROVE  TypeOK'
    <2>1. used < MaxEntries /\ used' = used + 1
      BY <1>13 DEF Add
    <2>2. /\ used + 1 \in Entries
          /\ used + 1 \in 0..MaxEntries
          /\ used + 1 \in 0..(used + 1)
          /\ 0..used \subseteq 0..(used + 1)
          /\ 1..used \subseteq 1..(used + 1)
      BY <1>0, <2>1, Fresh
    <2>3. QED
      BY <1>0, <1>13, <2>1, <2>2 DEF Add, TypeOK, locals
  <1>14. ASSUME NEW e \in Entries, Remove(e)
         PROVE  TypeOK'
    <2>1. CASE prior[e] = NULL /\ Die("NULL prior")
      BY <1>0, <2>1 DEF Die, TypeOK, list, locals
    <2>2. CASE prior[e] \in freed /\ Die("freed entry")
      BY <1>0, <2>2 DEF Die, TypeOK, list, locals
    <2>3. CASE /\ prior[e] \notin {NULL} \cup freed
               /\ next' = [next EXCEPT ![prior[e]] = next[e], ![e] = NULL]
               /\ prior' = [prior EXCEPT ![e] = NULL]
               /\ freed' = freed \cup {e}
               /\ UNCHANGED <<first, last, owner, used, locals, crash>>
      <3>1. next[e] \in 0..used
        BY <1>0 DEF TypeOK
      <3>2. next' \in [Entries -> 0..used] /\ prior' \in [Entries -> 0..used]
        BY <1>0, <2>3, <3>1 DEF TypeOK
      <3>3. QED
        BY <1>0, <2>3, <3>2 DEF TypeOK, locals
    <2>4. QED
      BY <1>14, <2>1, <2>2, <2>3 DEF Remove
  <1>15. ASSUME Pop
         PROVE  TypeOK'
    <2>1. CASE Die("freed entry")
      BY <1>0, <2>1 DEF Die, TypeOK, list, locals
    <2>2. CASE /\ first # NULL
               /\ first' = next[first]
               /\ next' = [next EXCEPT ![last] = first]
               /\ last' = first
               /\ UNCHANGED <<prior, owner, used, freed, locals, crash>>
      <3>1. first \in Entries /\ first \in 0..used /\ next[first] \in 0..used
        BY <1>0, <2>2 DEF TypeOK
      <3>2. next' \in [Entries -> 0..used]
        BY <1>0, <2>2, <3>1 DEF TypeOK
      <3>3. QED
        BY <1>0, <2>2, <3>1, <3>2 DEF TypeOK, locals
    <2>3. QED
      BY <1>15, <2>1, <2>2 DEF Pop
  <1>16. QED
    BY <1>1, <1>2, <1>3, <1>4, <1>5, <1>6, <1>7, <1>8, <1>9, <1>10, <1>11,
       <1>12, <1>13, <1>14, <1>15 DEF Next, Step

\* Every step keeps the link between a thread, the entry it makes or gets and
\* the peer it was asked for.
LEMMA StepIInv == IInv /\ [Next]_vars => IInv'
  <1> SUFFICES ASSUME IInv, [Next]_vars PROVE IInv'
    OBVIOUS
  <1> DEFINE Attaching == {"attach", "first", "next", "prior", "last"}
             Own(t) == /\ ret[t] # NULL => owner[ret[t]] = arg[t]
                       /\ pc[t] \in Attaching => /\ new[t] # NULL
                                                 /\ owner[new[t]] = arg[t]
  <1>0. /\ \A t \in Threads : Own(t)
        /\ TypeOK
        /\ NULL \in 0..used /\ 0..used \subseteq Entries \cup {NULL}
        /\ pc \in [Threads -> Attaching \cup {"idle", "walk"}]
        /\ arg \in [Threads -> Peers \cup {NoPeer}]
        /\ ret \in [Threads -> 0..used]
        /\ new \in [Threads -> 0..used]
        /\ cur \in [Threads -> 0..used]
    BY Allocated DEF IInv, OwnRequest, TypeOK
  <1>1. ASSUME UNCHANGED vars PROVE IInv'
    BY <1>0, <1>1 DEF vars, list, locals, IInv, TypeOK, OwnRequest
  <1>2. ASSUME Next PROVE IInv'
    <2>1. TypeOK'
      BY <1>2, StepTypeOK
    <2>2. SUFFICES ASSUME NEW u \in Threads PROVE Own(u)'
      BY <2>1 DEF IInv, OwnRequest
    <2>3. ASSUME owner' = owner, UNCHANGED <<pc, arg, new, ret>> PROVE Own(u)'
      BY <1>0, <2>3
    <2>4. ASSUME NEW t \in Threads, NEW o \in Operations, NEW p \in Peers,
                 Call(t, o, p)
          PROVE  Own(u)'
      BY <1>0, <2>4 DEF Call, Goto, list
    <2>5. ASSUME NEW t \in Threads, WalkFound(t) PROVE Own(u)'
      BY <1>0, <2>5 DEF WalkFound, Goto, list
    <2>6. ASSUME NEW t \in Threads, WalkNext(t) PROVE Own(u)'
      BY <2>3, <2>6 DEF WalkNext, list
    <2>7. ASSUME NEW t \in Threads, NotFound(t) PROVE Own(u)'
      BY <1>0, <2>7 DEF NotFound, Goto, list
    <2>8. ASSUME NEW t \in Threads, Create(t) PROVE Own(u)'
      <3>1. used + 1 \in Entries /\ \A e \in 0..used : e # used + 1
        BY <1>0, <2>8, Fresh DEF Create
      <3>2. used + 1 # NULL
        BY <1>0, <3>1
      <3>3. owner' = [owner EXCEPT ![used + 1] = arg[t]]
            /\ owner \in [Entries -> Peers \cup {NoPeer}]
        BY <1>0, <2>8 DEF Create, TypeOK
      <3>4. \A e \in 0..used : e # NULL => owner'[e] = owner[e]
        BY <1>0, <3>1, <3>3
      <3>5. owner'[used + 1] = arg[t]
        BY <3>1, <3>3
      <3>6. UNCHANGED <<arg, ret>> /\ new' = [new EXCEPT ![t] = used + 1]
            /\ pc' = [pc EXCEPT ![t] = "attach"]
        BY <2>8 DEF Create, Goto
      <3>7. ret'[u] # NULL => owner'[ret'[u]] = arg'[u]
        BY <1>0, <3>4, <3>6
      <3>8. CASE u = t
        BY <1>0, <3>2, <3>5, <3>6, <3>7, <3>8
      <3>9. CASE u # t
        <4>1. pc'[u] = pc[u] /\ new'[u] = new[u] /\ new[u] \in 0..used
          BY <1>0, <3>6, <3>9
        <4>2. QED
          BY <1>0, <3>4, <3>6, <3>7, <4>1
      <3>10. QED
        BY <3>8, <3>9
    <2>9. ASSUME NEW t \in Threads, AttachTest(t) PROVE Own(u)'
      BY <1>0, <2>9 DEF AttachTest, Goto, list
    <2>10. ASSUME NEW t \in Threads, AttachFirst(t) PROVE Own(u)'
      BY <1>0, <2>10 DEF AttachFirst, Goto
    <2>11. ASSUME NEW t \in Threads, AttachNext(t) PROVE Own(u)'
      BY <1>0, <2>11 DEF AttachNext, Goto
    <2>12. ASSUME NEW t \in Threads, AttachPrior(t) PROVE Own(u)'
      BY <1>0, <2>12 DEF AttachPrior, Goto
    <2>13. ASSUME NEW t \in Threads, AttachLast(t) PROVE Own(u)'
      BY <1>0, <2>13 DEF AttachLast, Goto
    <2>14. ASSUME NEW why, Die(why) PROVE Own(u)'
      BY <2>3, <2>14 DEF Die, list, locals
    <2>15. ASSUME NEW p \in Peers, Add(p) PROVE Own(u)'
      <3>1. used + 1 \in Entries /\ \A e \in 0..used : e # used + 1
        BY <1>0, <2>15, Fresh DEF Add
      <3>2. owner' = [owner EXCEPT ![used + 1] = p]
            /\ owner \in [Entries -> Peers \cup {NoPeer}]
        BY <1>0, <2>15 DEF Add, TypeOK
      <3>3. \A e \in 0..used : e # NULL => owner'[e] = owner[e]
        BY <1>0, <3>1, <3>2
      <3>4. UNCHANGED <<pc, arg, new, ret>>
        BY <2>15 DEF Add, locals
      <3>5. QED
        BY <1>0, <3>3, <3>4
    <2>16. ASSUME NEW e \in Entries, Remove(e) PROVE Own(u)'
      BY <2>3, <2>14, <2>16 DEF Remove, locals
    <2>17. ASSUME Pop PROVE Own(u)'
      BY <2>3, <2>14, <2>17 DEF Pop, locals
    <2>18. QED
      BY <1>2, <2>4, <2>5, <2>6, <2>7, <2>8, <2>9, <2>10, <2>11, <2>12, <2>13,
         <2>14, <2>15, <2>16, <2>17
         DEF Next, Step, WalkFreed, AttachNextFails
  <1>3. QED
    BY <1>1, <1>2

\* The inductive invariant holds throughout.
THEOREM Invariance == Spec => []IInv
  <1>1. IInv /\ [Next]_vars => IInv'
    BY StepIInv
  <1>2. QED
    BY InitIInv, <1>1, PTL DEF Spec

\* Type correctness of the list and of its threads' locals: no pointer to an
\* entry that is not allocated is ever written.
THEOREM TypeCorrect == Spec => []TypeOK
  <1>1. IInv => TypeOK
    BY DEF IInv
  <1>2. QED
    BY Invariance, <1>1, PTL

-----------------------------------------------------------------------------
(* The entries a walk comes to. *)

\* W[k] is what a walk from e along link comes to in k steps.
IsWalk(W, e, link) ==
  W = [k \in 0..MaxEntries |->
         IF k = 0 THEN {e} \ {NULL}
         ELSE W[k-1] \cup ({link[x] : x \in W[k-1]} \ {NULL})]

\* The definition of Walk is a recursion over the number of steps; that there
\* is such a function comes first.
LEMMA WalkDefined ==
  ASSUME NEW e, NEW link
  PROVE  \E W : IsWalk(W, e, link) /\ Walk(e, link) = W[MaxEntries]
  <1> DEFINE Body(f, k) == IF k = 0 THEN {e} \ {NULL}
                           ELSE f[k-1] \cup ({link[x] : x \in f[k-1]} \ {NULL})
             Is(f, m) == f = [k \in 0..m |-> Body(f, k)]
             undefined == {m \in Nat : ~\E f : Is(f, m)}
             reached[k \in 0..MaxEntries] ==
               IF k = 0 THEN {e} \ {NULL}
               ELSE reached[k-1] \cup ({link[x] : x \in reached[k-1]} \ {NULL})
  <1>1. ASSUME undefined # {} PROVE FALSE
    <2>1. PICK m \in undefined : \A k \in undefined : m <= k
      <3> HIDE DEF undefined
      <3>1. undefined \subseteq Nat
        BY DEF undefined
      <3> QED BY <1>1, <3>1, SmallestNumber
    <2>2. m # 0
      <3> DEFINE f0 == [k \in 0..0 |-> {e} \ {NULL}]
      <3>1. Is(f0, 0)
        OBVIOUS
      <3> HIDE DEF Is, f0
      <3>2. \E h : Is(h, 0)
        BY <3>1
      <3> QED BY <3>2
    <2>3. m - 1 \in Nat
      BY <2>2
    <2>4. m - 1 \notin undefined
      <3> HIDE DEF undefined
      <3>1. undefined \subseteq Nat
        BY DEF undefined
      <3> QED BY <2>1, <3>1
    <2>5. PICK f : Is(f, m - 1)
      <3> HIDE DEF Is
      <3> QED BY <2>3, <2>4
    <2> DEFINE g == [k \in 0..m |-> IF k = m THEN Body(f, m) ELSE f[k]]
    <2>6. ASSUME NEW k \in 0..m PROVE g[k] = Body(g, k)
      <3>1. CASE k = m
        <4>1. g[m] = Body(f, m) /\ g[m-1] = f[m-1]
          <5> HIDE DEF Body
          <5> QED BY <2>2
        <4> HIDE DEF g
        <4> QED BY <2>2, <3>1, <4>1
      <3>2. CASE k # m
        <4>1. k \in 0..(m - 1)
          BY <3>2
        <4>2. f[k] = Body(f, k)
          <5> HIDE DEF Body
          <5> QED BY <2>5, <4>1
        <4>3. g[k] = f[k] /\ (k # 0 => g[k-1] = f[k-1])
          <5> HIDE DEF Body
          <5> QED BY <3>2, <4>1
        <4> HIDE DEF g
        <4> QED BY <4>2, <4>3
      <3> QED BY <3>1, <3>2
    <2>7. Is(g, m)
      <3> HIDE DEF Body
      <3>1. g = [k \in 0..m |-> g[k]]
        OBVIOUS
      <3> HIDE DEF g
      <3> QED BY <2>6, <3>1
    <2> HIDE DEF Is, g
    <2>8. \E h : Is(h, m)
      BY <2>7
    <2> QED BY <2>8
  <1>2. \E f : Is(f, MaxEntries)
    <2>1. MaxEntries \in Nat /\ MaxEntries \notin undefined
      <3> HIDE DEF undefined
      <3> QED BY <1>1, QueueAssumption
    <2> HIDE DEF Is
    <2> QED BY <2>1
  <1>3. reached = [k \in 0..MaxEntries |-> Body(reached, k)]
    BY <1>2
  <1>4. Walk(e, link) = reached[MaxEntries]
    BY DEF Walk
  <1> HIDE DEF reached
  <1>5. IsWalk(reached, e, link)
    BY <1>3 DEF IsWalk
  <1> QED
    BY <1>4, <1>5

\* The equations of a walk.
LEMMA WalkSteps ==
  ASSUME NEW W, NEW e, NEW link, IsWalk(W, e, link)
  PROVE  /\ W[0] = {e} \ {NULL}
         /\ \A k \in 1..MaxEntries :
              W[k] = W[k-1] \cup ({link[x] : x \in W[k-1]} \ {NULL})
  <1> DEFINE Body(k) == IF k = 0 THEN {e} \ {NULL}
                        ELSE W[k-1] \cup ({link[x] : x \in W[k-1]} \ {NULL})
  <1>1. W = [k \in 0..MaxEntries |-> Body(k)]
    BY DEF IsWalk
  <1>2. ASSUME NEW k \in 0..MaxEntries PROVE W[k] = Body(k)
    <2> HIDE DEF Body
    <2> QED BY <1>1
  <1>3. 0 \in 0..MaxEntries /\ \A k \in 1..MaxEntries : k \in 0..MaxEntries /\ k # 0
    BY QueueAssumption
  <1> QED
    BY <1>2, <1>3

\* A set that has the beginning and all successors of its elements has the
\* whole walk.
LEMMA WalkInside ==
  ASSUME NEW e, NEW link, NEW S, e # NULL => e \in S,
         \A x \in S : link[x] # NULL => link[x] \in S
  PROVE  Walk(e, link) \subseteq S
  <1>1. PICK W : IsWalk(W, e, link) /\ Walk(e, link) = W[MaxEntries]
    BY WalkDefined
  <1>2. /\ W[0] = {e} \ {NULL}
        /\ \A k \in 1..MaxEntries :
             W[k] = W[k-1] \cup ({link[x] : x \in W[k-1]} \ {NULL})
    BY <1>1, WalkSteps
  <1> DEFINE outside == {k \in 0..MaxEntries : ~(W[k] \subseteq S)}
  <1>3. ASSUME outside # {} PROVE FALSE
    <2>1. outside \subseteq Nat
      BY QueueAssumption
    <2>2. PICK k \in outside : \A m \in outside : k <= m
      <3> HIDE DEF outside
      <3> QED BY <1>3, <2>1, SmallestNumber
    <2>3. k # 0
      BY <1>2, <2>2
    <2>4. k \in 1..MaxEntries /\ k - 1 \in 0..MaxEntries /\ k - 1 < k
      BY <2>3, QueueAssumption
    <2>5. W[k-1] \subseteq S
      BY <2>2, <2>4
    <2>6. W[k] = W[k-1] \cup ({link[x] : x \in W[k-1]} \ {NULL})
      BY <1>2, <2>4
    <2>7. W[k] \subseteq S
      BY <2>5, <2>6
    <2> QED BY <2>2, <2>7
  <1> QED
    BY <1>1, <1>3, QueueAssumption

-----------------------------------------------------------------------------
(* Walks end, as long as nobody calls pop. *)

Attaching == {"attach", "first", "next", "prior", "last"}

\* There is an order of the entries, the one in which they became the last
\* one, along which next goes up and prior goes down.
Ascends(r, link) == \A e \in Entries : link[e] # NULL => r[e] < r[link[e]]

Descends(r, link) == \A e \in Entries : link[e] # NULL => r[link[e]] < r[e]

Ranked == \E r \in [Entries -> Nat] : Ascends(r, next) /\ Descends(r, prior)

\* An entry that is being attached is its thread's own, and nothing comes after
\* it: it can still be put anywhere in the order.
Apart(t) ==
  pc[t] \in Attaching =>
    /\ next[new[t]] = NULL
    /\ last # new[t]
    /\ \A e \in Entries : prior[e] # new[t]
    /\ \A u \in Threads \ {t} : pc[u] \in Attaching => new[u] # new[t]

Unused == \A e \in Entries : e > used => next[e] = NULL

Order == Ranked /\ Unused /\ \A t \in Threads : Apart(t)

\* Nothing that goes up comes back.
LEMMA RankedEnds ==
  ASSUME TypeOK, Ranked
  PROVE  WalksEnd
  <1>1. PICK r \in [Entries -> Nat] : Ascends(r, next) /\ Descends(r, prior)
    BY DEF Ranked
  <1>2. next \in [Entries -> Entries \cup {NULL}]
    BY Allocated DEF TypeOK
  <1> SUFFICES ASSUME NEW e \in Entries, next[e] # NULL, e \in Walk(next[e], next)
               PROVE  FALSE
    BY DEF WalksEnd
  <1> DEFINE S == {x \in Entries : r[x] >= r[next[e]]}
  <1>3. next[e] \in S
    BY <1>2
  <1>4. ASSUME NEW x \in S, next[x] # NULL PROVE next[x] \in S
    BY <1>1, <1>2, <1>4 DEF Ascends
  <1> HIDE DEF S
  <1>5. Walk(next[e], next) \subseteq S
    BY <1>3, <1>4, WalkInside
  <1>6. e \in S
    BY <1>5
  <1> QED
    BY <1>1, <1>2, <1>6 DEF Ascends, S

\* Steps that link nothing.
LEMMA OrderStays ==
  ASSUME Order, UNCHANGED <<next, prior, last, used, new>>,
         \A t \in Threads : pc'[t] \in Attaching <=> pc[t] \in Attaching
  PROVE  Order'
  BY DEF Order, Ranked, Unused, Apart, Ascends, Descends

\* An entry that nothing comes after can be put after another one.
LEMMA Raise ==
  ASSUME NEW r \in [Entries -> Nat], NEW nx \in [Entries -> Entries \cup {NULL}],
         NEW pr \in [Entries -> Entries \cup {NULL}],
         Ascends(r, nx), Descends(r, pr),
         NEW y \in Entries, NEW x \in Entries, x # y,
         nx[y] = NULL, \A e \in Entries : pr[e] # y
  PROVE  \E s \in [Entries -> Nat] : Ascends(s, nx) /\ Descends(s, pr) /\ s[x] < s[y]
  <1> DEFINE s == [r EXCEPT ![y] = r[y] + r[x] + 1]
  <1>1. /\ s \in [Entries -> Nat] /\ s[x] = r[x] /\ s[y] = r[y] + r[x] + 1
        /\ \A e \in Entries : e # y => s[e] = r[e]
        /\ \A e \in Entries : r[e] \in Nat /\ r[e] <= s[e]
    OBVIOUS
  <1> HIDE DEF s
  <1>2. Ascends(s, nx)
    <2> SUFFICES ASSUME NEW e \in Entries, nx[e] # NULL PROVE s[e] < s[nx[e]]
      BY DEF Ascends
    <2>1. nx[e] \in Entries /\ r[e] < r[nx[e]] /\ e # y
      BY DEF Ascends
    <2>2. s[e] = r[e] /\ r[nx[e]] <= s[nx[e]] /\ s[nx[e]] \in Nat /\ r[e] \in Nat /\ r[nx[e]] \in Nat
      BY <1>1, <2>1
    <2> QED BY <2>1, <2>2
  <1>3. Descends(s, pr)
    <2> SUFFICES ASSUME NEW e \in Entries, pr[e] # NULL PROVE s[pr[e]] < s[e]
      BY DEF Descends
    <2>1. pr[e] \in Entries /\ r[pr[e]] < r[e] /\ pr[e] # y
      BY DEF Descends
    <2>2. s[pr[e]] = r[pr[e]] /\ r[e] <= s[e] /\ s[e] \in Nat /\ r[e] \in Nat /\ r[pr[e]] \in Nat
      BY <1>1, <2>1
    <2> QED BY <2>1, <2>2
  <1>4. r[x] \in Nat /\ r[y] \in Nat /\ s[x] < s[y]
    BY <1>1
  <1> QED
    BY <1>1, <1>2, <1>3, <1>4

\* Every step but pop's keeps the order: a link is only written from the last
\* entry to one that nothing comes after, or over an entry that is removed.
LEMMA StepOrder ==
  ASSUME IInv, Order, "pop" \notin Operations, [Next]_vars
  PROVE  Order'
  <1> USE DEF NULL
  <1>a. TypeOK /\ used \in Nat /\ NULL \notin Entries
    <2>1. TypeOK /\ used \in 0..MaxEntries
      BY DEF IInv, TypeOK
    <2> QED BY <2>1, QueueAssumption DEF Entries
  <1>b. 0..used \subseteq Entries \cup {NULL}
    BY <1>a, Allocated
  <1>c. /\ next \in [Entries -> 0..used] /\ prior \in [Entries -> 0..used]
        /\ last \in 0..used /\ new \in [Threads -> 0..used]
        /\ pc \in [Threads -> Attaching \cup {"idle", "walk"}]
        /\ \A t \in Threads : pc[t] \in Attaching => new[t] # NULL
    BY <1>a DEF IInv, TypeOK, Attaching
  <1>0. /\ TypeOK /\ used \in Nat
        /\ next \in [Entries -> Entries \cup {NULL}] /\ prior \in [Entries -> Entries \cup {NULL}]
        /\ last \in Entries \cup {NULL}
        /\ pc \in [Threads -> Attaching \cup {"idle", "walk"}]
        /\ new \in [Threads -> Entries \cup {NULL}]
        /\ \A t \in Threads : pc[t] \in Attaching => new[t] \in Entries /\ new[t] # NULL
        /\ \A t \in Threads : Apart(t)
        /\ Unused /\ Ranked
        /\ NULL \notin Entries
    <2> HIDE DEF NULL
    <2> QED BY <1>a, <1>b, <1>c DEF Order
  <1>r. PICK r \in [Entries -> Nat] : Ascends(r, next) /\ Descends(r, prior)
    BY <1>0 DEF Ranked
  <1>1. ASSUME NEW t \in Threads, NEW o \in Operations, NEW p \in Peers, Call(t, o, p)
        PROVE  Order'
    BY <1>0, <1>1, OrderStays DEF Call, Goto, list, Attaching
  <1>2. ASSUME NEW t \in Threads,
               WalkFound(t) \/ WalkNext(t) \/ NotFound(t) \/ AttachTest(t) \/ AttachFirst(t)
        PROVE  Order'
    <2>1. UNCHANGED <<next, prior, last, used, new>>
      BY <1>2 DEF WalkFound, WalkNext, NotFound, AttachTest, AttachFirst, list
    <2>2. \A u \in Threads : pc'[u] \in Attaching <=> pc[u] \in Attaching
      BY <1>0, <1>2 DEF WalkFound, WalkNext, NotFound, AttachTest, AttachFirst, Goto, Attaching
    <2> QED BY <2>1, <2>2, OrderStays
  <1>3. ASSUME UNCHANGED <<list, locals>> PROVE Order'
    BY <1>3, OrderStays DEF list, locals
  <1>4. ASSUME NEW t \in Threads, Create(t) PROVE Order'
    <2>1. /\ UNCHANGED <<next, prior, last>> /\ used' = used + 1
          /\ new' = [new EXCEPT ![t] = used + 1] /\ pc' = [pc EXCEPT ![t] = "attach"]
      BY <1>4 DEF Create, Goto
    <2>2. used + 1 \in Entries /\ used \in Nat /\ \A e \in 0..used : e # used + 1
      BY <1>0, <1>4, Fresh DEF Create, TypeOK
    <2>3. /\ last \in 0..used /\ next \in [Entries -> 0..used] /\ prior \in [Entries -> 0..used]
          /\ new \in [Threads -> 0..used]
      BY <1>0 DEF TypeOK
    <2>4. Ranked' /\ Unused'
      <3>1. \A e \in Entries : e \in Nat
        BY DEF Entries
      <3> QED BY <1>0, <1>r, <2>1, <2>2, <3>1 DEF Ranked, Unused, Ascends, Descends
    <2>5. ASSUME NEW u \in Threads PROVE Apart(u)'
      <3>1. CASE u = t
        <4>1. next[used + 1] = NULL
          BY <1>0, <2>2 DEF Unused
        <4> QED BY <1>0, <2>1, <2>2, <2>3, <3>1, <4>1 DEF Apart
      <3>2. CASE u # t
        BY <1>0, <2>1, <2>2, <2>3, <3>2 DEF Apart
      <3> QED BY <3>1, <3>2
    <2> QED BY <2>4, <2>5 DEF Order
  <1>5. ASSUME NEW t \in Threads, AttachNext(t) PROVE Order'
    <2>1. /\ UNCHANGED <<prior, last, used, new>> /\ pc' = [pc EXCEPT ![t] = "prior"]
          /\ pc[t] = "next" /\ last # NULL /\ next' = [next EXCEPT ![last] = new[t]]
      BY <1>5 DEF AttachNext, Goto
    <2>2. /\ new[t] \in Entries /\ new[t] # NULL /\ last \in Entries /\ last # new[t]
          /\ next[new[t]] = NULL /\ \A e \in Entries : prior[e] # new[t]
      BY <1>0, <2>1 DEF Apart, Attaching
    <2>3. PICK s \in [Entries -> Nat] : Ascends(s, next) /\ Descends(s, prior) /\ s[last] < s[new[t]]
      BY <1>0, <1>r, <2>2, Raise
    <2>4. Ranked'
      BY <1>0, <2>1, <2>2, <2>3 DEF Ranked, Ascends, Descends
    <2>5. Unused'
      <3>1. last \in 0..used /\ used \in Nat
        BY <1>0 DEF TypeOK
      <3>2. \A e \in Entries : e > used => e # last
        BY <3>1 DEF Entries
      <3> QED BY <1>0, <2>1, <2>2, <3>2 DEF Unused
    <2>6. ASSUME NEW u \in Threads PROVE Apart(u)'
      <3>1. \A v \in Threads : pc'[v] \in Attaching <=> pc[v] \in Attaching
        BY <1>0, <2>1 DEF Attaching
      <3>2. pc[u] \in Attaching => new[u] \in Entries /\ last # new[u] /\ next'[new[u]] = next[new[u]]
        BY <1>0, <2>1, <2>2 DEF Apart
      <3> QED BY <1>0, <2>1, <3>1, <3>2 DEF Apart
    <2> QED BY <2>4, <2>5, <2>6 DEF Order
  <1>6. ASSUME NEW t \in Threads, AttachPrior(t) PROVE Order'
    <2>1. /\ UNCHANGED <<next, last, used, new>> /\ pc' = [pc EXCEPT ![t] = "last"]
          /\ pc[t] = "prior" /\ prior' = [prior EXCEPT ![new[t]] = last]
      BY <1>6 DEF AttachPrior, Goto
    <2>2. /\ new[t] \in Entries /\ last # new[t]
          /\ next[new[t]] = NULL /\ \A e \in Entries : prior[e] # new[t]
      BY <1>0, <2>1 DEF Apart, Attaching
    <2>3. Ranked'
      <3>1. CASE last = NULL
        BY <1>0, <1>r, <2>1, <2>2, <3>1 DEF Ranked, Ascends, Descends
      <3>2. CASE last # NULL
        <4>1. PICK s \in [Entries -> Nat] : Ascends(s, next) /\ Descends(s, prior) /\ s[last] < s[new[t]]
          BY <1>0, <1>r, <2>2, <3>2, Raise
        <4> QED BY <1>0, <2>1, <2>2, <3>2, <4>1 DEF Ranked, Ascends, Descends
      <3> QED BY <3>1, <3>2
    <2>4. ASSUME NEW u \in Threads PROVE Apart(u)'
      <3>1. \A v \in Threads : pc'[v] \in Attaching <=> pc[v] \in Attaching
        BY <1>0, <2>1 DEF Attaching
      <3>2. pc[u] \in Attaching => \A e \in Entries : prior'[e] # new[u]
        BY <1>0, <2>1, <2>2 DEF Apart
      <3> QED BY <1>0, <2>1, <3>1, <3>2 DEF Apart
    <2> QED BY <1>0, <2>1, <2>3, <2>4 DEF Order, Unused
  <1>7. ASSUME NEW t \in Threads, AttachLast(t) PROVE Order'
    <2>1. /\ UNCHANGED <<next, prior, used>> /\ pc' = [pc EXCEPT ![t] = "idle"]
          /\ pc[t] = "last" /\ last' = new[t] /\ new' = [new EXCEPT ![t] = NULL]
      BY <1>7 DEF AttachLast, Goto
    <2>2. ASSUME NEW u \in Threads PROVE Apart(u)'
      <3>1. CASE u = t
        BY <1>0, <2>1, <3>1 DEF Apart, Attaching
      <3>2. CASE u # t
        <4>1. pc[t] \in Attaching
          BY <2>1 DEF Attaching
        <4>2. pc'[u] = pc[u] /\ new'[u] = new[u]
          BY <1>0, <2>1, <3>2
        <4>3. \A v \in Threads : pc'[v] \in Attaching => pc[v] \in Attaching /\ new'[v] = new[v]
          BY <1>0, <2>1 DEF Attaching
        <4> QED BY <1>0, <2>1, <3>2, <4>1, <4>2, <4>3 DEF Apart
      <3> QED BY <3>1, <3>2
    <2> QED BY <1>0, <1>r, <2>1, <2>2 DEF Order, Unused, Ranked, Ascends, Descends
  <1>8. ASSUME \A t \in Threads : pc[t] = "idle", NEW p \in Peers, Add(p) PROVE Order'
    <2>1. /\ used' = used + 1 /\ prior' = [prior EXCEPT ![used + 1] = last]
          /\ last' = used + 1 /\ UNCHANGED <<next, pc, new>>
      BY <1>8 DEF Add, locals
    <2>2. used + 1 \in Entries /\ used \in Nat /\ \A e \in 0..used : e # used + 1
      BY <1>0, <1>8, Fresh DEF Add, TypeOK
    <2>3. last \in 0..used /\ next \in [Entries -> 0..used] /\ prior \in [Entries -> 0..used]
      BY <1>0 DEF TypeOK
    <2>4. last # used + 1 /\ \A e \in Entries : prior[e] # used + 1
      BY <2>2, <2>3
    <2>5. next[used + 1] = NULL
      BY <1>0, <2>2 DEF Unused
    <2>6. Ranked'
      <3>1. CASE last = NULL
        BY <1>0, <1>r, <2>1, <2>2, <3>1 DEF Ranked, Ascends, Descends
      <3>2. CASE last # NULL
        <4>1. PICK s \in [Entries -> Nat] : Ascends(s, next) /\ Descends(s, prior) /\ s[last] < s[used + 1]
          BY <1>0, <1>r, <2>2, <2>4, <2>5, <3>2, Raise
        <4> QED BY <1>0, <2>1, <2>2, <3>2, <4>1 DEF Ranked, Ascends, Descends
      <3> QED BY <3>1, <3>2
    <2>7. Unused'
      <3>1. \A e \in Entries : e \in Nat
        BY DEF Entries
      <3> QED BY <1>0, <2>1, <2>2, <3>1 DEF Unused
    <2>8. \A t \in Threads : Apart(t)'
      BY <1>8, <2>1 DEF Apart, Attaching
    <2> QED BY <2>6, <2>7, <2>8 DEF Order
  <1>9. ASSUME \A t \in Threads : pc[t] = "idle", NEW e \in Entries, Remove(e) PROVE Order'
    <2>1. CASE \E why : Die(why)
      BY <1>3, <2>1 DEF Die
    <2>2. CASE /\ prior[e] # NULL
               /\ next' = [next EXCEPT ![prior[e]] = next[e], ![e] = NULL]
               /\ prior' = [prior EXCEPT ![e] = NULL]
               /\ UNCHANGED <<last, used, pc, new>>
      <3>1. prior[e] \in Entries /\ r[prior[e]] < r[e]
        BY <1>0, <1>r, <2>2 DEF Descends
      <3>2. prior[e] # e
        BY <3>1
      <3>3. /\ next'[prior[e]] = next[e] /\ next'[e] = NULL
            /\ \A x \in Entries \ {e, prior[e]} : next'[x] = next[x]
        BY <1>0, <2>2, <3>1, <3>2
      <3>4. Ascends(r, next')
        <4> SUFFICES ASSUME NEW x \in Entries, next'[x] # NULL PROVE r[x] < r[next'[x]]
          BY DEF Ascends
        <4>1. CASE x = prior[e]
          <5>1. next[e] \in Entries /\ r[e] < r[next[e]] /\ next'[x] = next[e]
            BY <1>0, <1>r, <3>3, <4>1 DEF Ascends
          <5>2. r[e] \in Nat /\ r[prior[e]] \in Nat /\ r[next[e]] \in Nat
            BY <3>1, <5>1
          <5> QED BY <3>1, <4>1, <5>1, <5>2
        <4>2. CASE x # prior[e]
          BY <1>r, <3>3, <4>2 DEF Ascends
        <4> QED BY <4>1, <4>2
      <3>5. Descends(r, prior')
        BY <1>0, <1>r, <2>2 DEF Descends
      <3>6. Unused'
        <4>1. used \in Nat /\ prior[e] \in 0..used
          BY <1>0 DEF TypeOK
        <4>2. \A x \in Entries : x > used => x # prior[e] /\ x \in Nat
          BY <4>1 DEF Entries
        <4> QED BY <1>0, <2>2, <3>3, <4>2 DEF Unused
      <3>7. \A t \in Threads : Apart(t)'
        BY <1>9, <2>2 DEF Apart, Attaching
      <3>8. Ranked'
        BY <1>r, <3>4, <3>5 DEF Ranked
      <3> QED BY <3>6, <3>7, <3>8 DEF Order
    <2> QED BY <1>9, <2>1, <2>2 DEF Remove, locals
  <1> QED
    <2>1. CASE UNCHANGED vars
      BY <1>3, <2>1 DEF vars
    <2>2. CASE Next
      BY <1>1, <1>2, <1>3, <1>4, <1>5, <1>6, <1>7, <1>8, <1>9, <2>2
         DEF Next, Step, Pop, WalkFreed, AttachNextFails, Die
    <2> QED BY <2>1, <2>2

\* The searches of find_peer and find_entry end: however many threads append to
\* the list at once, without a lock, and whatever add and remove did before, no
\* entry can be reached from its own next.  (queue_pop makes the list a ring.)
THEOREM SearchesEnd == ASSUME "pop" \notin Operations PROVE Spec => []WalksEnd
  <1>1. Init => Order
    <2> SUFFICES ASSUME Init PROVE Order
      OBVIOUS
    <2>1. [e \in Entries |-> 0] \in [Entries -> Nat]
      OBVIOUS
    <2>2. Ranked
      BY <2>1 DEF Ranked, Ascends, Descends, Init
    <2> QED BY <2>2 DEF Order, Unused, Apart, Attaching, Init
  <1>2. IInv /\ Order /\ [Next]_vars => Order'
    BY StepOrder
  <1>3. IInv /\ Order => WalksEnd
    BY RankedEnds DEF IInv, Order
  <1> QED
    BY <1>1, <1>2, <1>3, Invariance, PTL DEF Spec

-----------------------------------------------------------------------------
(* What queue_free reaches. *)

\* A walk has come to everything it can reach after as many steps as there are
\* entries: each step that is not the last one finds an entry more.
LEMMA WalkCloses ==
  ASSUME NEW e \in Entries, NEW link, NEW D, D \subseteq Entries, e \in D,
         \A x \in D : link[x] \in D
  PROVE  e \in Walk(e, link) /\ \A x \in Walk(e, link) : link[x] \in Walk(e, link)
  <1>0. NULL \notin Entries /\ MaxEntries \in Nat
    BY QueueAssumption DEF NULL, Entries
  <1>1. PICK W : IsWalk(W, e, link) /\ Walk(e, link) = W[MaxEntries]
    BY WalkDefined
  <1>2. /\ W[0] = {e} \ {NULL}
        /\ \A k \in 1..MaxEntries :
             W[k] = W[k-1] \cup ({link[x] : x \in W[k-1]} \ {NULL})
    BY <1>1, WalkSteps
  <1> DEFINE Closed(S) == \A x \in S : link[x] \in S
             Good(k) == /\ e \in W[k] /\ W[k] \subseteq D
                        /\ Closed(W[k]) \/ Cardinality(W[k]) >= k + 1
             bad == {k \in 0..MaxEntries : ~Good(k)}
  <1>3. IsFiniteSet(D) /\ IsFiniteSet(Entries) /\ Cardinality(Entries) = MaxEntries
    <2>1. IsFiniteSet(Entries) /\ Cardinality(Entries) = MaxEntries
      <3>1. /\ IsFiniteSet(1..MaxEntries)
            /\ Cardinality(1..MaxEntries) = IF 1 > MaxEntries THEN 0 ELSE MaxEntries - 1 + 1
        BY <1>0, FS_Interval
      <3> QED BY <1>0, <3>1 DEF Entries
    <2> QED BY <2>1, FS_Subset
  <1>4. Good(0)
    <2>1. W[0] = {e}
      BY <1>0, <1>2
    <2>2. Cardinality(W[0]) = 1
      BY <2>1, FS_Singleton
    <2> QED BY <2>1, <2>2
  <1>5. ASSUME NEW k \in 1..MaxEntries, Good(k - 1) PROVE Good(k)
    <2> DEFINE V == W[k-1]
    <2>1. W[k] = V \cup ({link[x] : x \in V} \ {NULL})
      BY <1>2
    <2>2. \A x \in V : link[x] # NULL
      BY <1>0, <1>5
    <2>3. W[k] = V \cup {link[x] : x \in V}
      BY <2>1, <2>2
    <2>4. e \in W[k] /\ W[k] \subseteq D
      BY <1>5, <2>3
    <2>5. CASE Closed(V)
      <3>1. W[k] = V
        BY <2>3, <2>5
      <3> QED BY <2>4, <2>5, <3>1
    <2>6. CASE ~Closed(V)
      <3>1. PICK y \in W[k] : y \notin V
        BY <2>3, <2>6
      <3>2. IsFiniteSet(V) /\ IsFiniteSet(W[k])
        BY <1>3, <1>5, <2>4, FS_Subset
      <3>3. Cardinality(V) \in Nat /\ Cardinality(W[k]) \in Nat
        BY <3>2, FS_CardinalityType
      <3>4. V \subseteq W[k] /\ V # W[k]
        BY <2>3, <3>1
      <3>5. Cardinality(V) < Cardinality(W[k])
        <4> HIDE DEF V
        <4> QED BY <3>2, <3>3, <3>4, FS_Subset
      <3>6. Cardinality(V) >= (k - 1) + 1
        BY <1>5, <2>6
      <3>7. Cardinality(W[k]) >= k + 1
        <4> HIDE DEF V
        <4> QED BY <3>3, <3>5, <3>6
      <3> QED BY <2>4, <3>7
    <2> QED BY <2>5, <2>6
  <1> HIDE DEF Good
  <1>6. Good(MaxEntries)
    <2>1. CASE bad # {}
      <3>1. bad \subseteq Nat
        BY <1>0
      <3>2. PICK k \in bad : \A m \in bad : k <= m
        <4> HIDE DEF bad
        <4> QED BY <2>1, <3>1, SmallestNumber
      <3>3. k # 0
        BY <1>4, <3>2
      <3>4. k \in 1..MaxEntries /\ k - 1 \in 0..MaxEntries /\ k - 1 < k
        BY <1>0, <3>3
      <3>5. Good(k - 1)
        BY <3>2, <3>4
      <3> QED BY <1>5, <3>2, <3>4, <3>5
    <2>2. CASE bad = {}
      BY <1>0, <2>2
    <2> QED BY <2>1, <2>2
  <1>7. Cardinality(W[MaxEntries]) <= MaxEntries /\ Cardinality(W[MaxEntries]) \in Nat
    <2>1. W[MaxEntries] \subseteq Entries
      BY <1>6 DEF Good
    <2> QED BY <1>3, <2>1, FS_Subset, FS_CardinalityType
  <1>8. Closed(W[MaxEntries])
    BY <1>0, <1>6, <1>7 DEF Good
  <1> QED
    BY <1>1, <1>6, <1>8 DEF Good

\* Where every entry has a next one there is a ring.
LEMMA ClosedHasRing ==
  ASSUME TypeOK, NEW C, C \subseteq Entries, C # {}, \A e \in C : next[e] \in C
  PROVE  ~WalksEnd
  <1> DEFINE Closed(D) == D # {} /\ \A e \in D : next[e] \in D
             sizes == {Cardinality(D) : D \in {D \in SUBSET C : Closed(D)}}
  <1>0. NULL \notin Entries /\ IsFiniteSet(C)
    <2>1. IsFiniteSet(Entries)
      BY QueueAssumption, FS_Interval DEF Entries
    <2>2. IsFiniteSet(C)
      BY <2>1, FS_Subset
    <2>3. NULL \notin Entries
      BY QueueAssumption DEF NULL, Entries
    <2> QED BY <2>2, <2>3
  <1>1. \A D \in SUBSET C : IsFiniteSet(D) /\ Cardinality(D) \in Nat
    BY <1>0, FS_Subset, FS_CardinalityType
  <1>2. sizes \subseteq Nat
    BY <1>1
  <1>3. Closed(C) /\ C \in SUBSET C
    OBVIOUS
  <1>4. PICK n \in sizes : \A m \in sizes : n <= m
    <2>1. Cardinality(C) \in sizes
      BY <1>3
    <2> HIDE DEF sizes
    <2> QED BY <1>2, <2>1, SmallestNumber
  <1>5. PICK D \in SUBSET C : Closed(D) /\ n = Cardinality(D)
    BY <1>4
  <1>6. PICK e \in D : TRUE
    BY <1>5
  <1> DEFINE R == Walk(next[e], next)
  <1>7. e \in Entries /\ next[e] \in D /\ next[e] \in Entries
    BY <1>5, <1>6
  <1>8. next[e] \in R /\ \A x \in R : next[x] \in R
    BY <1>5, <1>7, WalkCloses
  <1>9. R \subseteq D
    BY <1>5, <1>7, WalkInside
  <1> HIDE DEF R
  <1>10. Closed(R) /\ R \in SUBSET C
    BY <1>8, <1>9
  <1>11. n <= Cardinality(R)
    BY <1>4, <1>10
  <1>12. R = D
    <2>1. IsFiniteSet(D) /\ Cardinality(R) \in Nat /\ Cardinality(D) \in Nat
      BY <1>1, <1>10
    <2>2. R # D => Cardinality(R) < Cardinality(D)
      BY <1>9, <2>1, FS_Subset
    <2> QED BY <1>5, <1>11, <2>1, <2>2
  <1> QED
    BY <1>0, <1>6, <1>7, <1>12 DEF WalksEnd, R

\* Along prior from the newest entry a walk comes to all of them.
LEMMA WalkBack ==
  ASSUME TypeOK, last = used, \A e \in 1..used : prior[e] = e - 1
  PROVE  Walk(last, prior) = 1..used
  <1>0. used \in 0..MaxEntries /\ MaxEntries \in Nat /\ used \in Nat /\ used <= MaxEntries
    <2>1. used \in 0..MaxEntries
      BY DEF TypeOK
    <2> QED BY <2>1, QueueAssumption
  <1>1. PICK W : IsWalk(W, last, prior) /\ Walk(last, prior) = W[MaxEntries]
    BY WalkDefined
  <1>2. /\ W[0] = {last} \ {NULL}
        /\ \A k \in 1..MaxEntries :
             W[k] = W[k-1] \cup ({prior[x] : x \in W[k-1]} \ {NULL})
    BY <1>1, WalkSteps
  <1> DEFINE Good(k) == W[k] = {x \in 1..used : x >= used - k}
             bad == {k \in 0..MaxEntries : ~Good(k)}
  <1>3. Good(0)
    BY <1>0, <1>2 DEF NULL
  <1>4. ASSUME NEW k \in 1..MaxEntries, Good(k - 1) PROVE Good(k)
    <2>1. W[k] = W[k-1] \cup ({prior[x] : x \in W[k-1]} \ {NULL})
      BY <1>2
    <2>2. W[k-1] = {x \in 1..used : x >= used - (k - 1)}
      BY <1>4
    <2>3. ASSUME NEW y \in W[k] PROVE y \in 1..used /\ y >= used - k
      <3>1. CASE y \in W[k-1]
        BY <1>0, <2>2, <3>1
      <3>2. CASE y \notin W[k-1]
        <4>1. PICK x \in W[k-1] : y = prior[x] /\ y # NULL
          BY <2>1, <2>3, <3>2
        <4>2. x \in 1..used /\ y = x - 1 /\ x >= used - (k - 1)
          BY <2>2, <4>1
        <4> QED BY <1>0, <4>1, <4>2 DEF NULL
      <3> QED BY <3>1, <3>2
    <2>4. ASSUME NEW y \in 1..used, y >= used - k PROVE y \in W[k]
      <3>1. CASE y >= used - (k - 1)
        BY <2>1, <2>2, <3>1
      <3>2. CASE ~(y >= used - (k - 1))
        <4>1. y + 1 \in 1..used /\ y + 1 >= used - (k - 1) /\ (y + 1) - 1 = y
          BY <1>0, <2>4, <3>2
        <4>2. y + 1 \in W[k-1] /\ prior[y + 1] = y /\ y # NULL
          BY <2>2, <4>1 DEF NULL
        <4> QED BY <2>1, <4>2
      <3> QED BY <3>1, <3>2
    <2> QED BY <2>3, <2>4
  <1> HIDE DEF Good
  <1>5. Good(MaxEntries)
    <2>1. CASE bad # {}
      <3>1. bad \subseteq Nat
        BY <1>0
      <3>2. PICK k \in bad : \A m \in bad : k <= m
        <4> HIDE DEF bad
        <4> QED BY <2>1, <3>1, SmallestNumber
      <3>3. k # 0
        BY <1>3, <3>2
      <3>4. k \in 1..MaxEntries /\ k - 1 \in 0..MaxEntries /\ k - 1 < k
        BY <1>0, <3>3
      <3>5. Good(k - 1)
        BY <3>2, <3>4
      <3> QED BY <1>4, <3>2, <3>4, <3>5
    <2>2. CASE bad = {}
      BY <1>0, <2>2
    <2> QED BY <2>1, <2>2
  <1>6. {x \in 1..used : x >= used - MaxEntries} = 1..used
    BY <1>0
  <1> QED
    BY <1>1, <1>5, <1>6 DEF Good

\* With one thread the list has one of three shapes until queue_remove frees an
\* entry.  Before queue_pop moves one the entries stand in the order they were
\* made in, each of them or none linked to the one after it by next, and all by
\* prior, but for the entry that is just being attached.
Settled ==
  /\ last = used
  /\ first = IF used = 0 THEN NULL ELSE 1
  /\ \A e \in 1..used : prior[e] = e - 1

Growing(t) ==
  /\ used > 0
  /\ new[t] = used
  /\ last = used - 1
  /\ first = IF used = 1 /\ pc[t] # "last" THEN NULL ELSE 1
  /\ pc[t] = "first" => used = 1
  /\ pc[t] \in {"next", "prior"} => used > 1
  /\ \A e \in 1..(used - 1) : prior[e] = e - 1
  /\ prior[used] = IF pc[t] = "last" THEN used - 1 ELSE NULL

InOrder ==
  /\ \A e \in Entries : next[e] \in {NULL, e + 1}
  /\ \A e \in Entries : e > used => prior[e] = NULL
  /\ \A t \in Threads : pc[t] \in Attaching => Growing(t)
  /\ (\A t \in Threads : pc[t] \notin Attaching) => Settled

\* queue_pop closes a ring, in which a search for a new peer never comes to the
\* point where it makes an entry, ...
InRing(C) ==
  /\ first \in C
  /\ \A e \in C : next[e] \in C
  /\ \A t \in Threads : /\ pc[t] \in {"idle", "walk"}
                        /\ pc[t] = "walk" => cur[t] \in C

Circular == \E C \in SUBSET (1..used) : InRing(C)

\* ... or, where queue_add has left out a link, leaves the first entry behind
\* for good.
LeftBehind(B) ==
  /\ 1 \in B
  /\ first \notin B \cup {NULL}
  /\ \A e \in Entries : next[e] \in B => e \in B
  /\ \A t \in Threads : pc[t] \in Attaching => new[t] \notin B /\ pc[t] # "first"

Passed == \E B \in SUBSET (1..used) : LeftBehind(B)

Layout == freed = {} => InOrder \/ Circular \/ Passed

\* The steps of find_peer and find_entry keep the entries in order.
LEMMA InOrderSteps ==
  ASSUME IInv, InOrder, \A t, u \in Threads : t = u, NEW t \in Threads,
         \/ \E o \in Operations, p \in Peers : Call(t, o, p)
         \/ WalkFound(t) \/ WalkNext(t) \/ NotFound(t) \/ Create(t) \/ AttachTest(t)
         \/ AttachFirst(t) \/ AttachNext(t) \/ AttachPrior(t) \/ AttachLast(t)
  PROVE  InOrder'
  <1> USE DEF NULL
  <1>0. /\ TypeOK /\ used \in Nat /\ MaxEntries \in Nat /\ used <= MaxEntries
        /\ first \in 0..used /\ last \in 0..used
        /\ next \in [Entries -> 0..used] /\ prior \in [Entries -> 0..used]
        /\ pc \in [Threads -> Attaching \cup {"idle", "walk"}]
        /\ new \in [Threads -> 0..used]
        /\ \A e \in Entries : e \in Nat /\ e # 0
        /\ \A e \in 1..used : e \in Entries
    <2>1. TypeOK /\ used \in 0..MaxEntries
      BY DEF IInv, TypeOK
    <2>2. /\ used \in Nat /\ MaxEntries \in Nat /\ used <= MaxEntries
          /\ \A e \in Entries : e \in Nat /\ e # 0
          /\ \A e \in 1..used : e \in Entries
      BY <2>1, QueueAssumption DEF Entries
    <2> QED BY <2>1, <2>2 DEF TypeOK, Attaching
  <1>1. /\ \A e \in Entries : next[e] \in {NULL, e + 1}
        /\ \A e \in Entries : e > used => prior[e] = NULL
        /\ IF pc[t] \in Attaching THEN Growing(t) ELSE Settled
    BY DEF InOrder
  <1> SUFFICES /\ \A e \in Entries : next'[e] \in {NULL, e + 1}
               /\ \A e \in Entries : e > used' => prior'[e] = NULL
               /\ IF pc'[t] \in Attaching THEN Growing(t)' ELSE Settled'
    BY DEF InOrder
  <1>2. ASSUME UNCHANGED list, pc[t] \notin Attaching, pc'[t] \notin Attaching
        PROVE  InOrder'
    BY <1>1, <1>2 DEF list, Settled, InOrder
  <1>3. CASE \E o \in Operations, p \in Peers : Call(t, o, p)
    BY <1>0, <1>1, <1>3 DEF Call, Goto, list, Attaching, Settled
  <1>4. CASE WalkFound(t)
    BY <1>0, <1>1, <1>4 DEF WalkFound, Goto, list, Attaching, Settled
  <1>5. CASE WalkNext(t)
    BY <1>0, <1>1, <1>5 DEF WalkNext, Goto, list, Attaching, Settled
  <1>6. CASE NotFound(t)
    BY <1>0, <1>1, <1>6 DEF NotFound, Goto, list, Attaching, Settled
  <1>7. CASE Create(t)
    <2>1. /\ pc[t] \notin Attaching /\ pc'[t] = "attach" /\ "attach" \in Attaching
          /\ used' = used + 1 /\ new'[t] = used + 1 /\ used < MaxEntries
          /\ UNCHANGED <<first, last, next, prior>>
      BY <1>0, <1>7 DEF Create, Goto, Attaching
    <2>2. Settled
      BY <1>1, <2>1
    <2>3. prior[used + 1] = NULL
      BY <1>0, <1>1, <2>1 DEF Entries
    <2>4. Growing(t)'
      BY <1>0, <2>1, <2>2, <2>3 DEF Settled, Growing
    <2> QED BY <1>0, <1>1, <2>1, <2>4
  <1>8. CASE AttachTest(t)
    BY <1>0, <1>1, <1>8 DEF AttachTest, Goto, list, Attaching, Growing
  <1>9. CASE AttachFirst(t)
    BY <1>0, <1>1, <1>9 DEF AttachFirst, Goto, Attaching, Growing
  <1>10. CASE AttachNext(t)
    BY <1>0, <1>1, <1>10 DEF AttachNext, Goto, Attaching, Growing
  <1>11. CASE AttachPrior(t)
    BY <1>0, <1>1, <1>11 DEF AttachPrior, Goto, Attaching, Growing
  <1>12. CASE AttachLast(t)
    BY <1>0, <1>1, <1>12 DEF AttachLast, Goto, Attaching, Growing, Settled
  <1> QED
    BY <1>3, <1>4, <1>5, <1>6, <1>7, <1>8, <1>9, <1>10, <1>11, <1>12

\* queue_pop moves the first entry of the list in order behind the last one.
LEMMA InOrderPop ==
  ASSUME IInv, InOrder, freed = {}, \A t \in Threads : pc[t] = "idle",
         Pop
  PROVE  Circular' \/ Passed'
  <1> USE DEF NULL
  <1>0. /\ TypeOK /\ used \in Nat /\ MaxEntries \in Nat /\ used <= MaxEntries
        /\ next \in [Entries -> 0..used]
        /\ \A e \in Entries : e \in Nat /\ e # 0
        /\ \A e \in 1..used : e \in Entries
    <2>1. TypeOK /\ used \in 0..MaxEntries
      BY DEF IInv, TypeOK
    <2>2. /\ used \in Nat /\ MaxEntries \in Nat /\ used <= MaxEntries
          /\ \A e \in Entries : e \in Nat /\ e # 0
          /\ \A e \in 1..used : e \in Entries
      BY <2>1, QueueAssumption DEF Entries
    <2> QED BY <2>1, <2>2 DEF TypeOK
  <1>1. Settled /\ \A e \in Entries : next[e] \in {NULL, e + 1}
    BY DEF InOrder, Attaching
  <1>2. /\ first # NULL /\ next[first] # NULL /\ first' = next[first]
        /\ next' = [next EXCEPT ![last] = first] /\ used' = used
        /\ UNCHANGED <<pc, cur, new>>
    BY DEF Pop, locals
  <1>3. first = 1 /\ last = used /\ used > 0 /\ 1 \in Entries
    BY <1>0, <1>1, <1>2 DEF Settled
  <1>4. next[1] = 2 /\ used >= 2
    BY <1>0, <1>1, <1>2, <1>3
  <1>5. /\ first' = 2 /\ next'[used] = 1 /\ used \in Entries
        /\ \A e \in Entries : e # used => next'[e] = next[e]
    BY <1>0, <1>2, <1>3, <1>4
  <1>6. CASE \E m \in 2..(used - 1) : next[m] = NULL
    <2>1. PICK m \in 2..(used - 1) : next[m] = NULL
      BY <1>6
    <2> DEFINE B == {1} \cup ((m + 1)..used)
    <2>2. B \in SUBSET (1..used')
      BY <1>0, <1>2, <1>3
    <2>3. 1 \in B /\ first' \notin B \cup {NULL}
      BY <1>0, <1>5
    <2>4. \A e \in Entries : next'[e] \in B => e \in B
      <3> SUFFICES ASSUME NEW e \in Entries, next'[e] \in B PROVE e \in B
        OBVIOUS
      <3>1. CASE e = used
        BY <1>0, <1>4, <2>1, <3>1
      <3>2. CASE e # used
        <4>1. next[e] = e + 1 /\ e + 1 \in B /\ e # m
          BY <1>0, <1>1, <1>5, <2>1, <3>2
        <4> QED BY <1>0, <4>1
      <3> QED BY <3>1, <3>2
    <2>5. \A t \in Threads : pc'[t] \notin Attaching
      BY <1>2 DEF Attaching
    <2>6. B' = B
      BY <1>2
    <2> HIDE DEF B
    <2>7. LeftBehind(B)'
      BY <2>3, <2>4, <2>5, <2>6 DEF LeftBehind
    <2> QED BY <2>2, <2>6, <2>7 DEF Passed
  <1>7. CASE \A m \in 2..(used - 1) : next[m] # NULL
    <2>1. \A e \in 1..used : next'[e] \in 1..used
      <3> SUFFICES ASSUME NEW e \in 1..used PROVE next'[e] \in 1..used
        OBVIOUS
      <3>1. CASE e = used
        BY <1>0, <1>4, <1>5, <3>1
      <3>2. CASE e # used
        <4>1. next[e] = e + 1
          BY <1>0, <1>1, <1>4, <1>7, <3>2
        <4> QED BY <1>0, <1>5, <3>2, <4>1
      <3> QED BY <3>1, <3>2
    <2>2. first' \in 1..used /\ \A t \in Threads : pc'[t] = "idle"
      BY <1>0, <1>2, <1>4, <1>5
    <2>3. InRing(1..used)'
      BY <1>2, <2>1, <2>2 DEF InRing
    <2> QED BY <1>2, <2>3 DEF Circular
  <1> QED BY <1>6, <1>7

\* Every step keeps the list in one of the three shapes.
LEMMA StepLayout ==
  ASSUME IInv, Layout, \A t, u \in Threads : t = u, [Next]_vars
  PROVE  Layout'
  <1> USE DEF NULL
  <1>0. /\ TypeOK /\ used \in Nat /\ MaxEntries \in Nat /\ used <= MaxEntries
        /\ first \in 0..used /\ last \in 0..used
        /\ next \in [Entries -> 0..used] /\ prior \in [Entries -> 0..used]
        /\ pc \in [Threads -> Attaching \cup {"idle", "walk"}]
        /\ new \in [Threads -> 0..used] /\ cur \in [Threads -> 0..used]
        /\ \A e \in Entries : e \in Nat /\ e # 0
        /\ \A e \in 1..used : e \in Entries
    <2>1. TypeOK /\ used \in 0..MaxEntries
      BY DEF IInv, TypeOK
    <2>2. /\ used \in Nat /\ MaxEntries \in Nat /\ used <= MaxEntries
          /\ \A e \in Entries : e \in Nat /\ e # 0
          /\ \A e \in 1..used : e \in Entries
      BY <2>1, QueueAssumption DEF Entries
    <2> QED BY <2>1, <2>2 DEF TypeOK, Attaching
  <1> DEFINE Walking(t) == \/ \E o \in Operations, p \in Peers : Call(t, o, p)
                           \/ WalkFound(t) \/ WalkNext(t) \/ NotFound(t)
             Attach(t) == \/ AttachTest(t) \/ AttachFirst(t) \/ AttachNext(t)
                          \/ AttachPrior(t) \/ AttachLast(t)
  <1>1. ASSUME UNCHANGED <<list, locals>> PROVE Layout'
    BY <1>1 DEF list, locals, Layout, InOrder, Settled, Growing, Circular, InRing,
                Passed, LeftBehind
  <1>2. ASSUME NEW t \in Threads, Walking(t) \/ Create(t) \/ Attach(t), freed = {}
        PROVE  InOrder' \/ Circular' \/ Passed'
    <2>1. CASE InOrder
      BY <1>2, <2>1, InOrderSteps
    <2>2. CASE Circular
      <3>1. PICK C \in SUBSET (1..used) : InRing(C)
        BY <2>2 DEF Circular
      <3>2. 0 \notin C /\ C \subseteq Entries
        BY <1>0
      <3>3. Walking(t) /\ UNCHANGED list
        BY <1>0, <1>2, <3>1, <3>2
           DEF InRing, Create, AttachTest, AttachFirst, AttachNext, AttachPrior,
               AttachLast, Call, WalkFound, WalkNext, NotFound, Attaching
      <3>4. \A u \in Threads : u = t
        OBVIOUS
      <3>5. pc'[t] \in {"idle", "walk"} /\ (pc'[t] = "walk" => cur'[t] \in C)
        BY <1>0, <3>1, <3>3 DEF InRing, Call, WalkFound, WalkNext, NotFound, Goto
      <3>6. first' = first /\ next' = next /\ used' = used
        BY <3>3 DEF list
      <3>7. InRing(C)'
        BY <3>1, <3>4, <3>5, <3>6 DEF InRing
      <3> QED BY <3>6, <3>7 DEF Circular
    <2>3. CASE Passed
      <3>1. PICK B \in SUBSET (1..used) : LeftBehind(B)
        BY <2>3 DEF Passed
      <3>2. /\ 1 \in B /\ first \notin B /\ first # NULL
            /\ \A e \in Entries : next[e] \in B => e \in B
            /\ pc[t] \in Attaching => new[t] \notin B /\ pc[t] # "first"
        BY <3>1 DEF LeftBehind
      <3>3. B \in SUBSET (1..used')
        <4>1. used' = used \/ used' = used + 1
          BY <1>2 DEF Create, AttachTest, AttachFirst, AttachNext, AttachPrior,
               AttachLast, Call, WalkFound, WalkNext, NotFound, list
        <4> QED BY <1>0, <4>1
      <3>4. first' = first
        BY <1>2, <3>2 DEF Create, AttachTest, AttachFirst, AttachNext, AttachPrior,
               AttachLast, Call, WalkFound, WalkNext, NotFound, list, Attaching
      <3>5. pc'[t] \in Attaching => new'[t] \notin B /\ pc'[t] # "first"
        <4>1. CASE Walking(t)
          BY <1>0, <4>1 DEF Call, WalkFound, WalkNext, NotFound, Goto, Attaching
        <4>2. CASE Create(t)
          BY <1>0, <4>2 DEF Create, Goto
        <4>3. CASE Attach(t)
          BY <1>0, <3>2, <4>3 DEF AttachTest, AttachFirst, AttachNext, AttachPrior,
               AttachLast, Goto, Attaching
        <4> QED BY <1>2, <4>1, <4>2, <4>3
      <3>6. \A e \in Entries : next'[e] \in B => e \in B
        <4>1. CASE AttachNext(t)
          BY <1>0, <3>2, <4>1 DEF AttachNext, Attaching
        <4>2. CASE ~AttachNext(t)
          BY <1>2, <3>2, <4>2 DEF Create, AttachTest, AttachFirst, AttachPrior,
               AttachLast, Call, WalkFound, WalkNext, NotFound, list
        <4> QED BY <4>1, <4>2
      <3>7. LeftBehind(B)'
        BY <3>2, <3>4, <3>5, <3>6 DEF LeftBehind
      <3> QED BY <3>3, <3>7 DEF Passed
    <2> QED BY <1>2, <2>1, <2>2, <2>3 DEF Layout
  <1>3. ASSUME \A t \in Threads : pc[t] = "idle", NEW p \in Peers, Add(p), freed = {}
        PROVE  InOrder' \/ Circular' \/ Passed'
    <2>1. /\ used' = used + 1 /\ prior' = [prior EXCEPT ![used + 1] = last]
          /\ last' = used + 1 /\ UNCHANGED <<next, pc, new, cur>>
          /\ first' = (IF first = NULL THEN used + 1 ELSE first)
          /\ used + 1 \in Entries
      BY <1>0, <1>3, Fresh DEF Add, locals
    <2>2. CASE InOrder
      <3>1. Settled
        BY <1>3, <2>2 DEF InOrder, Attaching
      <3>2. Settled'
        BY <1>0, <2>1, <3>1 DEF Settled
      <3> QED BY <1>0, <1>3, <2>1, <2>2, <3>2 DEF InOrder, Attaching
    <2>3. CASE Circular
      <3>1. PICK C \in SUBSET (1..used) : InRing(C)
        BY <2>3 DEF Circular
      <3>2. C \in SUBSET (1..used') /\ 0 \notin C
        BY <1>0, <2>1
      <3>3. InRing(C)'
        BY <2>1, <3>1, <3>2 DEF InRing
      <3> QED BY <3>2, <3>3 DEF Circular
    <2>4. CASE Passed
      <3>1. PICK B \in SUBSET (1..used) : LeftBehind(B)
        BY <2>4 DEF Passed
      <3>2. B \in SUBSET (1..used')
        BY <1>0, <2>1
      <3>3. LeftBehind(B)'
        BY <2>1, <3>1 DEF LeftBehind
      <3> QED BY <3>2, <3>3 DEF Passed
    <2> QED BY <1>3, <2>2, <2>3, <2>4 DEF Layout
  <1>4. ASSUME \A t \in Threads : pc[t] = "idle", Pop, freed = {}
        PROVE  InOrder' \/ Circular' \/ Passed'
    <2>1. /\ first # NULL /\ next[first] # NULL /\ first' = next[first]
          /\ next' = [next EXCEPT ![last] = first] /\ used' = used
          /\ UNCHANGED <<pc, cur, new>>
      BY <1>4 DEF Pop, locals
    <2>2. CASE InOrder
      BY <1>4, <2>2, InOrderPop
    <2>3. CASE Circular
      <3>1. PICK C \in SUBSET (1..used) : InRing(C)
        BY <2>3 DEF Circular
      <3>2. first' \in C /\ \A e \in C : next'[e] \in C
        BY <1>0, <2>1, <3>1 DEF InRing
      <3>3. InRing(C)'
        BY <2>1, <3>1, <3>2 DEF InRing
      <3> QED BY <2>1, <3>3 DEF Circular
    <2>4. CASE Passed
      <3>1. PICK B \in SUBSET (1..used) : LeftBehind(B)
        BY <2>4 DEF Passed
      <3>2. /\ 1 \in B /\ first \notin B /\ first \in Entries
            /\ \A e \in Entries : next[e] \in B => e \in B
        BY <1>0, <3>1 DEF LeftBehind
      <3>3. first' \notin B \cup {NULL} /\ \A e \in Entries : next'[e] \in B => e \in B
        BY <1>0, <2>1, <3>2
      <3>4. LeftBehind(B)'
        BY <2>1, <3>1, <3>3 DEF LeftBehind
      <3> QED BY <2>1, <3>4 DEF Passed
    <2> QED BY <1>4, <2>2, <2>3, <2>4 DEF Layout
  <1>5. ASSUME NEW e \in Entries, Remove(e) PROVE Layout'
    <2>1. CASE \E why : Die(why)
      BY <1>1, <2>1 DEF Die
    <2>2. CASE freed' = freed \cup {e}
      BY <2>2 DEF Layout
    <2> QED BY <1>5, <2>1, <2>2 DEF Remove
  <1>6. CASE UNCHANGED vars
    BY <1>1, <1>6 DEF vars
  <1>7. CASE Next
    <2>1. CASE \E t \in Threads : Walking(t) \/ Create(t) \/ Attach(t)
      <3>1. freed' = freed
        BY <2>1 DEF Create, AttachTest, AttachFirst, AttachNext, AttachPrior,
               AttachLast, Call, WalkFound, WalkNext, NotFound, list
      <3> HIDE DEF Walking, Attach
      <3> QED BY <1>2, <2>1, <3>1 DEF Layout
    <2>2. CASE \E t \in Threads : WalkFreed(t) \/ AttachNextFails(t)
      BY <1>1, <2>2 DEF WalkFreed, AttachNextFails, Die
    <2>3. CASE (\A t \in Threads : pc[t] = "idle") /\ \E p \in Peers : Add(p)
      <3>1. freed' = freed
        BY <2>3 DEF Add
      <3> QED BY <1>3, <2>3, <3>1 DEF Layout
    <2>4. CASE \E e \in Entries : Remove(e)
      BY <1>5, <2>4
    <2>5. CASE (\A t \in Threads : pc[t] = "idle") /\ Pop
      <3>1. freed' = freed
        BY <2>5 DEF Pop, Die, list
      <3> QED BY <1>4, <2>5, <3>1 DEF Layout
    <2> QED
      BY <1>7, <2>1, <2>2, <2>3, <2>4, <2>5 DEF Next, Step
  <1> QED
    BY <1>6, <1>7

\* What the three shapes say about queue_free.
LEMMA LayoutReleases ==
  ASSUME TypeOK, Layout
  PROVE  FreeReleasesAll
  <1> SUFFICES ASSUME \A t \in Threads : pc[t] = "idle", freed = {}, WalksEnd,
                      first \in {NULL, 1}
               PROVE  Walk(last, prior) = 1..used
    BY DEF FreeReleasesAll
  <1>0. 1..used \subseteq Entries
    <2>1. used \in 0..MaxEntries
      BY DEF TypeOK
    <2> QED BY <2>1, QueueAssumption DEF Entries
  <1>1. CASE InOrder
    <2>1. Settled
      BY <1>1 DEF InOrder, Attaching
    <2> QED BY <2>1, WalkBack DEF Settled
  <1>2. CASE Circular
    <2>1. PICK C \in SUBSET (1..used) : InRing(C)
      BY <1>2 DEF Circular
    <2>2. C \subseteq Entries /\ C # {} /\ \A e \in C : next[e] \in C
      BY <1>0, <2>1 DEF InRing
    <2> QED BY <2>2, ClosedHasRing
  <1>3. CASE Passed
    BY <1>3 DEF Passed, LeftBehind
  <1> QED
    BY <1>1, <1>2, <1>3 DEF Layout

\* queue_free releases every entry, also those queue_add has left unreachable
\* from first, whatever one thread did before, as long as queue_remove has freed
\* none, the list ends and the entry made first is still first.
THEOREM FreeReachesAll ==
  ASSUME \A t, u \in Threads : t = u PROVE Spec => []FreeReleasesAll
  <1>1. Init => Layout
    <2> SUFFICES ASSUME Init PROVE InOrder
      BY DEF Layout
    <2> QED BY DEF Init, InOrder, Settled, Attaching, NULL
  <1>2. IInv /\ Layout /\ [Next]_vars => Layout'
    BY StepLayout
  <1>3. IInv /\ Layout => FreeReleasesAll
    BY LayoutReleases DEF IInv
  <1> QED
    BY <1>1, <1>2, <1>3, Invariance, PTL DEF Spec

=============================================================================
