-------------------------- MODULE RepositoryProofs --------------------------
(***************************************************************************)
(* Proofs about the repository, for any number of processes and keys.       *)
(*                                                                         *)
(* OneMaker is inductive: mkdir lets one process through.                   *)
(* OpenReadsTheFile rests on where each token of the file stands (IsFile):  *)
(* for every key that fs_repo_open_config searches for, no token between    *)
(* the start of the search and the right one has its text.  OneIdentity     *)
(* rests on both, and on a file that is written once (WrittenOnce).         *)
(***************************************************************************)
EXTENDS Repository, TLAPS

\* What a file was written from is a record that has a key.
IsConfig(c) == c = [x \in DOMAIN c |-> c[x]] /\ "key" \in DOMAIN c

WholeOfConfig == file.state = "whole" => IsConfig(file.of)

IInv == OneMaker /\ WholeOfConfig

(* The configuration that init makes is such a record. *)
LEMMA NewConfigShape == ASSUME NEW p PROVE IsConfig(NewConfig(p)) /\ NewConfig(p).key = key[p]
  BY DEF IsConfig, NewConfig, DefaultConfig

(* The user's edit keeps the key. *)
LEMMA EditShape ==
  ASSUME NEW c, IsConfig(c), NEW peers, NEW announce
  PROVE  LET d == [c EXCEPT !.peers = peers, !.announce = announce]
         IN  IsConfig(d) /\ d.key = c.key
  BY DEF IsConfig

(* The empty directory that init starts from satisfies the invariant. *)
LEMMA InitIInv == Init => IInv
<1> SUFFICES ASSUME Init PROVE IInv
  OBVIOUS
<1>1. file.state = "absent"
  BY DEF Init, NoFile
<1>2. TypeOK
  BY <1>1 DEF Init, TypeOK, Places
<1>3. \A p \in Procs : pc[p] = "idle"
  BY DEF Init
<1>4. \A p \in Procs : pc[p] \notin Making
  BY <1>3 DEF Making, Written, WithDatastore, WithBlockstore
<1> QED
  BY <1>1, <1>2, <1>4 DEF IInv, WholeOfConfig, OneMaker, Making, Written, WithDatastore

(* Every step of init, of open, of a crash and of the user keeps the invariant. *)
LEMMA StepIInv == IInv /\ [Next]_vars => IInv'
<1> SUFFICES ASSUME IInv, [Next]_vars PROVE IInv'
  OBVIOUS
<1> USE DEF IInv, WholeOfConfig, OneMaker, TypeOK, Places, Making, Written, WithDatastore,
            WithBlockstore, Goto, disk
<1>1. ASSUME NEW p \in Procs, ipfs_repo_get_directory(p) PROVE IInv'
  BY <1>1 DEF ipfs_repo_get_directory
<1>2. ASSUME NEW p \in Procs, os_mkdir(p) PROVE IInv'
  BY <1>2 DEF os_mkdir, MkdirSucceeds
<1>3. ASSUME NEW p \in Procs, ipfs_repo_config_init(p) PROVE IInv'
  BY <1>3 DEF ipfs_repo_config_init
<1>4. ASSUME NEW p \in Procs, ipfs_repo_fsrepo_init(p) PROVE IInv'
  BY <1>4 DEF ipfs_repo_fsrepo_init
<1>5. ASSUME NEW p \in Procs, fs_repo_write_config_file(p) PROVE IInv'
  BY <1>5 DEF fs_repo_write_config_file
<1>6. ASSUME NEW p \in Procs, OpenForWriting(p) PROVE IInv'
  BY <1>6 DEF OpenForWriting
<1>7. ASSUME NEW p \in Procs, WritePart(p) \/ WriteFails(p) PROVE IInv'
  BY <1>7 DEF WritePart, WriteFails
<1>8. ASSUME NEW p \in Procs, WriteWhole(p) PROVE IInv'
  BY <1>8, NewConfigShape DEF WriteWhole
<1>9. ASSUME NEW p \in Procs, ipfs_repo_fsrepo_datastore_init(p) PROVE IInv'
  BY <1>9 DEF ipfs_repo_fsrepo_datastore_init
<1>10. ASSUME NEW p \in Procs, ipfs_repo_fsrepo_blockstore_init(p) PROVE IInv'
  BY <1>10 DEF ipfs_repo_fsrepo_blockstore_init
<1>11. ASSUME NEW p \in Procs, make_ipfs_repository(p) PROVE IInv'
  BY <1>11 DEF make_ipfs_repository
<1>12. ASSUME NEW p \in Procs, Open(p) PROVE IInv'
  <2>1. PICK to \in {"open_config", "refused", "undefined", "open_datastore", "opened"} :
          pc' = [pc EXCEPT ![p] = to]
    <3>1. CASE ipfs_repo_fsrepo_open(p)
      BY <3>1 DEF ipfs_repo_fsrepo_open
    <3>2. CASE fs_repo_open_config(p)
      <4> DEFINE opens == Parses /\ ConfigOf(file.tokens) # Unset
      <4>1. pc' = [pc EXCEPT ![p] = CASE file.state = "empty" -> "undefined"
                                      [] opens                -> "open_datastore"
                                      [] OTHER                -> "refused"]
        BY <3>2 DEF fs_repo_open_config
      <4>0. file.state = "empty" => ~opens
        BY DEF Parses
      <4> HIDE DEF opens
      <4>2. CASE file.state = "empty"
        BY <4>0, <4>1, <4>2
      <4>3. CASE file.state # "empty" /\ opens
        BY <4>1, <4>3
      <4>4. CASE file.state # "empty" /\ ~opens
        BY <4>1, <4>4
      <4> QED BY <4>2, <4>3, <4>4
    <3>3. CASE fs_repo_open_datastore(p)
      BY <3>3 DEF fs_repo_open_datastore
    <3> QED BY <1>12, <3>1, <3>2, <3>3 DEF Open
  <2>2. UNCHANGED <<disk, key>>
    BY <1>12 DEF Open, ipfs_repo_fsrepo_open, fs_repo_open_config, fs_repo_open_datastore
  <2> QED BY <2>1, <2>2
<1>13. ASSUME NEW p \in Procs, Dies(p) PROVE IInv'
  BY <1>13 DEF Dies
<1>14. ASSUME NEW peers \in Edits, EditReplication(peers) PROVE IInv'
  <2>1. IsConfig(file.of) /\ file'.state = "whole"
    BY <1>14 DEF EditReplication
  <2>2. IsConfig(file'.of) /\ file'.of.key = file.of.key
    <3>1. file'.of = [file.of EXCEPT !.peers = peers, !.announce = "true"]
      BY <1>14 DEF EditReplication, Replicating
    <3>2. LET d == [file.of EXCEPT !.peers = peers, !.announce = "true"]
          IN  IsConfig(d) /\ d.key = file.of.key
      <4> HIDE DEF IInv, OneMaker
      <4> QED BY <2>1, EditShape, Zenon
    <3> QED BY <3>1, <3>2
  <2>3. UNCHANGED <<directory, datastore_dir, blockstore_dir, pc, key>>
    BY <1>14 DEF EditReplication
  <2> QED BY <1>14, <2>1, <2>2, <2>3 DEF EditReplication
<1>15. CASE UNCHANGED vars
  BY <1>15 DEF vars
<1> QED
  BY <1>1, <1>2, <1>3, <1>4, <1>5, <1>6, <1>7, <1>8, <1>9, <1>10, <1>11, <1>12, <1>13, <1>14,
     <1>15 DEF Next, Initialise

(* mkdir decides who makes the repository: at every moment at most one process
   is at it, and its file is its own. *)
THEOREM SingleMaker == Spec => []OneMaker
<1>1. IInv => OneMaker
  BY DEF IInv
<1> QED
  BY <1>1, InitIInv, StepIInv, PTL DEF Spec

-----------------------------------------------------------------------------
(* The file as a sequence of tokens. *)

IsSeq(s) == \E V : s \in Seq(V)

LEMMA Cat ==
  \A s, t : IsSeq(s) /\ IsSeq(t) =>
         /\ IsSeq(s \o t)
         /\ Len(s) \in Nat /\ Len(t) \in Nat
         /\ Len(s \o t) = Len(s) + Len(t)
         /\ \A i \in 1..Len(s) : (s \o t)[i] = s[i]
         /\ \A i \in 1..Len(t) : (s \o t)[Len(s) + i] = t[i]
  <1> TAKE s, t
  <1> HAVE IsSeq(s) /\ IsSeq(t)
  <1>1. PICK V1 : s \in Seq(V1)
    BY DEF IsSeq
  <1>2. PICK V2 : t \in Seq(V2)
    BY DEF IsSeq
  <1> DEFINE V == V1 \cup V2
  <1>3. s \in Seq(V) /\ t \in Seq(V)
    BY <1>1, <1>2
  <1> HIDE DEF V
  <1>4. s \o t \in Seq(V)
    BY <1>3
  <1>5. IsSeq(s \o t)
    BY <1>4 DEF IsSeq
  <1> QED BY <1>3, <1>5

LEMMA ArrayTokens ==
  ASSUME NEW s, IsSeq(s)
  PROVE  /\ IsSeq(Array(s)) /\ Len(Array(s)) = Len(s) + 1
         /\ Array(s)[1] = Bracket(Len(s))
         /\ \A i \in 1..Len(s) : Array(s)[1 + i] = String(s[i])
  <1> DEFINE a == Bracket(Len(s))
             h == <<a>>
             r == [i \in 1..Len(s) |-> String(s[i])]
  <1>0. Len(s) \in Nat
    BY DEF IsSeq
  <1>1. IsSeq(h) /\ Len(h) = 1 /\ h[1] = a
    <2> HIDE DEF a
    <2>1. h \in Seq({a})
      OBVIOUS
    <2> QED BY <2>1 DEF IsSeq
  <1>2. IsSeq(r) /\ Len(r) = Len(s)
    <2> DEFINE V == {String(s[i]) : i \in 1..Len(s)}
    <2>1. r \in Seq(V) /\ Len(r) = Len(s)
      BY <1>0
    <2> QED BY <2>1 DEF IsSeq
  <1>3. Array(s) = h \o r
    BY DEF Array
  <1>4. \A i \in 1..Len(s) : r[i] = String(s[i])
    OBVIOUS
  <1> HIDE DEF h, r, a
  <1>5. /\ IsSeq(h \o r) /\ Len(h \o r) = Len(h) + Len(r)
        /\ \A i \in 1..Len(h) : (h \o r)[i] = h[i]
        /\ \A i \in 1..Len(r) : (h \o r)[Len(h) + i] = r[i]
    <2>1. IsSeq(h) /\ IsSeq(r)
      BY <1>1, <1>2
    <2> QED BY <2>1, Cat
  <1>6. (h \o r)[1] = a
    BY <1>1, <1>5
  <1>7. Len(h \o r) = Len(s) + 1
    BY <1>0, <1>1, <1>2, <1>5
  <1>8. ASSUME NEW i \in 1..Len(s) PROVE (h \o r)[1 + i] = String(s[i])
    BY <1>0, <1>1, <1>2, <1>4, <1>5
  <1> QED BY <1>3, <1>5, <1>6, <1>7, <1>8 DEF a


\* The parts of the file between its two arrays.
Begin(c) ==
  <<Object,
    String("Identity"), Object, String("PeerID"), String(c.id), String("PrivKey"), String(c.key),
    String("Datastore"), Object, String("Type"), String(c.type), String("Path"), String(c.path),
    String("Params"), Primitive("null"),
    String("Addresses"), Object, String("Swarm")>>

Middle(c) ==
  <<String("API"), String(c.api), String("Gateway"), String(c.gateway),
    String("Mounts"), Object, String("IPFS"), String("/ipfs"), String("Bootstrap")>>

End == <<String("Gateway"), Object, String("API"), Object, String("Swarm"), Object>>

Section ==
  <<String("Replication"), Object, String("Announce"), Primitive("true"), String("Peers")>>

\* They are sequences.
LEMMA PartsAreSequences ==
  ASSUME NEW c
  PROVE  /\ IsSeq(Begin(c)) /\ Len(Begin(c)) = 18
         /\ IsSeq(Middle(c)) /\ Len(Middle(c)) = 9
         /\ IsSeq(End) /\ Len(End) = 6
         /\ IsSeq(Section) /\ Len(Section) = 5
  <1>1. Begin(c) \in Seq({Begin(c)[i] : i \in 1..18}) /\ Len(Begin(c)) = 18
    BY DEF Begin
  <1>2. Middle(c) \in Seq({Middle(c)[i] : i \in 1..9}) /\ Len(Middle(c)) = 9
    BY DEF Middle
  <1>3. End \in Seq({End[i] : i \in 1..6}) /\ Len(End) = 6
    BY DEF End
  <1>4. Section \in Seq({Section[i] : i \in 1..5}) /\ Len(Section) = 5
    BY DEF Section
  <1> QED
    BY <1>1, <1>2, <1>3, <1>4 DEF IsSeq

\* The sequence s is in t behind the first off elements.
At(t, off, s) == off + Len(s) <= Len(t) /\ \A i \in 1..Len(s) : t[off + i] = s[i]

\* What is in the first of two sequences is in both together, ...
LEMMA AtLeft ==
  ASSUME NEW x, NEW y, NEW s, NEW off \in Nat, IsSeq(x), IsSeq(y), IsSeq(s), At(x, off, s)
  PROVE  At(x \o y, off, s)
  <1>1. /\ Len(x) \in Nat /\ Len(y) \in Nat /\ Len(x \o y) = Len(x) + Len(y)
        /\ \A i \in 1..Len(x) : (x \o y)[i] = x[i]
    BY Cat
  <1>2. Len(s) \in Nat
    BY DEF IsSeq
  <1>3. off + Len(s) <= Len(x) /\ \A i \in 1..Len(s) : x[off + i] = s[i]
    BY DEF At
  <1> DEFINE z == x \o y
  <1> HIDE DEF z
  <1>4. Len(z) = Len(x) + Len(y) /\ \A i \in 1..Len(x) : z[i] = x[i]
    BY <1>1 DEF z
  <1>5. ASSUME NEW i \in 1..Len(s) PROVE z[off + i] = s[i]
    <2>1. off + i \in 1..Len(x)
      BY <1>1, <1>2, <1>3
    <2> QED BY <1>3, <1>4, <2>1
  <1>6. off + Len(s) <= Len(z)
    BY <1>1, <1>2, <1>3, <1>4
  <1>7. At(z, off, s)
    BY <1>5, <1>6 DEF At
  <1> QED
    BY <1>7 DEF z

\* ... and the second is behind the first.
LEMMA AtRight ==
  ASSUME NEW x, NEW y, IsSeq(x), IsSeq(y)
  PROVE  IsSeq(x \o y) /\ Len(x \o y) = Len(x) + Len(y) /\ At(x \o y, 0, x) /\ At(x \o y, Len(x), y)
  <1>1. /\ IsSeq(x \o y)
        /\ Len(x) \in Nat /\ Len(y) \in Nat /\ Len(x \o y) = Len(x) + Len(y)
        /\ \A i \in 1..Len(x) : (x \o y)[i] = x[i]
        /\ \A i \in 1..Len(y) : (x \o y)[Len(x) + i] = y[i]
    BY Cat
  <1> DEFINE z == x \o y
  <1> HIDE DEF z
  <1>2. /\ Len(x) \in Nat /\ Len(y) \in Nat /\ Len(z) = Len(x) + Len(y)
        /\ \A i \in 1..Len(x) : z[i] = x[i]
        /\ \A i \in 1..Len(y) : z[Len(x) + i] = y[i]
    BY <1>1 DEF z
  <1>3. At(z, 0, x)
    <2>1. \A i \in 1..Len(x) : 0 + i = i
      OBVIOUS
    <2> QED BY <1>2, <2>1 DEF At
  <1>4. At(z, Len(x), y)
    BY <1>2 DEF At
  <1> QED
    BY <1>1, <1>3, <1>4 DEF z

\* How many bootstrap peers there are.
N == Len(BootstrapPeers)

\* Where everything is in a file that was written with the key k, whatever has
\* been added behind it.
IsFile(t, k) ==
  LET c == DefaultConfig(k)
  IN  /\ IsSeq(t)
      /\ At(t, 0, Begin(c))
      /\ At(t, 18, Array(c.swarm))
      /\ At(t, 21, Middle(c))
      /\ At(t, 30, Array(BootstrapPeers))
      /\ At(t, 31 + N, End)

\* The lists of the default configuration.
LEMMA ListsAreSequences ==
  ASSUME NEW k
  PROVE  LET c == DefaultConfig(k)
         IN  /\ IsSeq(c.swarm) /\ Len(c.swarm) = 2 /\ IsSeq(Array(c.swarm)) /\ Len(Array(c.swarm)) = 3
             /\ c.bootstrap = BootstrapPeers /\ IsSeq(BootstrapPeers) /\ N \in Nat
             /\ IsSeq(Array(BootstrapPeers)) /\ Len(Array(BootstrapPeers)) = N + 1
  <1> DEFINE c == DefaultConfig(k)
  <1>1. c.bootstrap = BootstrapPeers /\ IsSeq(BootstrapPeers) /\ N \in Nat
    BY TextsAssumption DEF DefaultConfig, IsSeq, N
  <1>2. IsSeq(c.swarm) /\ Len(c.swarm) = 2
    <2>1. c.swarm = <<"/ip4/0.0.0.0/tcp/4001", "/ip6/::/tcp/4001">>
      BY DEF DefaultConfig
    <2>2. c.swarm \in Seq({"/ip4/0.0.0.0/tcp/4001", "/ip6/::/tcp/4001"}) /\ Len(c.swarm) = 2
      BY <2>1
    <2> QED BY <2>2 DEF IsSeq
  <1> HIDE DEF c
  <1>3. IsSeq(Array(c.swarm)) /\ Len(Array(c.swarm)) = Len(c.swarm) + 1
    BY <1>2, ArrayTokens
  <1>4. Len(Array(c.swarm)) = 3
    BY <1>2, <1>3
  <1>5. IsSeq(Array(BootstrapPeers)) /\ Len(Array(BootstrapPeers)) = N + 1
    BY <1>1, ArrayTokens DEF N
  <1> QED
    BY <1>1, <1>2, <1>3, <1>4, <1>5 DEF c

LEMMA WholeFile ==
  ASSUME NEW k
  PROVE  LET t == repo_config_write_config_file(DefaultConfig(k))
         IN  IsFile(t, k) /\ Len(t) = 37 + N
  <1> DEFINE c == DefaultConfig(k)
             a == Begin(c)
             b == Array(c.swarm)
             m == Middle(c)
             d == Array(BootstrapPeers)
             ab == a \o b
             abm == ab \o m
             abmd == abm \o d
             t == abmd \o End
  <1>1. repo_config_write_config_file(c) = t
    <2>1. c.bootstrap = BootstrapPeers
      BY ListsAreSequences
    <2> QED BY <2>1 DEF repo_config_write_config_file, Begin, Middle, End
  <1>2. /\ IsSeq(a) /\ IsSeq(b) /\ IsSeq(m) /\ IsSeq(d) /\ IsSeq(End) /\ N \in Nat
        /\ Len(a) = 18 /\ Len(b) = 3 /\ Len(m) = 9 /\ Len(d) = N + 1 /\ Len(End) = 6
    BY PartsAreSequences, ListsAreSequences
  <1> HIDE DEF a, b, m, d
  <1>3. /\ IsSeq(ab) /\ Len(ab) = Len(a) + Len(b) /\ At(ab, 0, a) /\ At(ab, Len(a), b)
    BY <1>2, AtRight
  <1>3a. IsSeq(ab) /\ Len(ab) = 21 /\ At(ab, 0, a) /\ At(ab, 18, b)
    BY <1>2, <1>3
  <1> HIDE DEF ab
  <1>4. IsSeq(abm) /\ Len(abm) = Len(ab) + Len(m) /\ At(abm, Len(ab), m)
        /\ At(abm, 0, a) /\ At(abm, 18, b)
    BY <1>2, <1>3a, AtLeft, AtRight
  <1>4a. Len(abm) = 30 /\ At(abm, 21, m)
    BY <1>2, <1>3a, <1>4
  <1> HIDE DEF abm
  <1>5. IsSeq(abmd) /\ Len(abmd) = Len(abm) + Len(d) /\ At(abmd, Len(abm), d)
        /\ At(abmd, 0, a) /\ At(abmd, 18, b) /\ At(abmd, 21, m)
    BY <1>2, <1>4, <1>4a, AtLeft, AtRight
  <1>5a. Len(abmd) = 31 + N /\ At(abmd, 30, d)
    BY <1>2, <1>4a, <1>5
  <1> HIDE DEF abmd
  <1>6. IsSeq(t) /\ Len(t) = Len(abmd) + Len(End) /\ At(t, Len(abmd), End)
        /\ At(t, 0, a) /\ At(t, 18, b) /\ At(t, 21, m) /\ At(t, 30, d)
    BY <1>2, <1>5, <1>5a, AtLeft, AtRight
  <1>6a. Len(t) = 37 + N /\ At(t, 31 + N, End)
    BY <1>2, <1>5a, <1>6
  <1> HIDE DEF t
  <1> QED
    BY <1>1, <1>6, <1>6a DEF IsFile, c, a, b, m, d

\* The user's section comes behind the file.
LEMMA EditedFile ==
  ASSUME NEW k, NEW t, IsFile(t, k), Len(t) = 37 + N, NEW peers, IsSeq(peers)
  PROVE  LET u == t \o ReplicationSection(peers)
         IN  /\ IsFile(u, k) /\ Len(u) = 43 + N + Len(peers)
             /\ At(u, 37 + N, Section) /\ At(u, 42 + N, Array(peers))
  <1> DEFINE c == DefaultConfig(k)
             p == Array(peers)
             r == Section \o p
             u == t \o r
  <1>1. ReplicationSection(peers) = r
    BY DEF ReplicationSection, Section
  <1>2. /\ IsSeq(Section) /\ Len(Section) = 5 /\ IsSeq(End)
        /\ IsSeq(Begin(c)) /\ IsSeq(Middle(c))
        /\ IsSeq(Array(c.swarm)) /\ IsSeq(Array(BootstrapPeers)) /\ N \in Nat
    BY PartsAreSequences, ListsAreSequences
  <1>3. IsSeq(p) /\ Len(p) = Len(peers) + 1 /\ Len(peers) \in Nat
    <2>1. Len(peers) \in Nat
      BY DEF IsSeq
    <2> QED BY <2>1, ArrayTokens
  <1>4. /\ IsSeq(t) /\ At(t, 0, Begin(c)) /\ At(t, 18, Array(c.swarm)) /\ At(t, 21, Middle(c))
        /\ At(t, 30, Array(BootstrapPeers)) /\ At(t, 31 + N, End) /\ 31 + N \in Nat
    BY <1>2 DEF IsFile
  <1> HIDE DEF c, p
  <1>5. IsSeq(r) /\ Len(r) = Len(Section) + Len(p) /\ At(r, 0, Section) /\ At(r, Len(Section), p)
    BY <1>2, <1>3, AtRight
  <1>5a. /\ Len(r) = 6 + Len(peers) /\ Len(Section) = 5
         /\ \A i \in 1..5 : r[0 + i] = Section[i]
         /\ \A i \in 1..Len(p) : r[5 + i] = p[i]
    BY <1>2, <1>3, <1>5 DEF At
  <1> HIDE DEF r
  <1>6. IsSeq(u) /\ Len(u) = Len(t) + Len(r) /\ At(u, Len(t), r)
    BY <1>4, <1>5, AtRight
  <1>7. /\ At(u, 0, Begin(c)) /\ At(u, 18, Array(c.swarm)) /\ At(u, 21, Middle(c))
        /\ At(u, 30, Array(BootstrapPeers)) /\ At(u, 31 + N, End)
    BY <1>2, <1>4, <1>5, AtLeft
  <1> HIDE DEF u
  <1>8. Len(u) = 43 + N + Len(peers) /\ \A i \in 1..Len(r) : u[37 + N + i] = r[i]
    BY <1>2, <1>3, <1>5a, <1>6 DEF At
  <1>9. At(u, 37 + N, Section)
    <2>1. 37 + N + Len(Section) <= Len(u)
      BY <1>2, <1>3, <1>8
    <2>2. ASSUME NEW i \in 1..5 PROVE u[37 + N + i] = Section[i]
      <3>1. i \in 1..Len(r) /\ 0 + i = i
        BY <1>3, <1>5a
      <3> QED BY <1>5a, <1>8, <3>1
    <2> QED BY <1>2, <2>1, <2>2 DEF At
  <1>10. At(u, 42 + N, p)
    <2>1. 42 + N + Len(p) <= Len(u)
      BY <1>2, <1>3, <1>8
    <2>2. ASSUME NEW i \in 1..Len(p) PROVE u[42 + N + i] = p[i]
      <3>1. 5 + i \in 1..Len(r) /\ 37 + N + (5 + i) = 42 + N + i
        BY <1>2, <1>3, <1>5a
      <3>2. u[37 + N + (5 + i)] = r[5 + i]
        BY <1>8, <3>1
      <3> QED BY <1>5a, <3>1, <3>2
    <2> QED BY <2>1, <2>2 DEF At
  <1>11. IsFile(u, k)
    BY <1>6, <1>7 DEF IsFile, c
  <1> QED
    BY <1>1, <1>8, <1>9, <1>10, <1>11 DEF u, p

-----------------------------------------------------------------------------
(* What fs_repo_open_config finds in it. *)

\* The tokens before the bootstrap peers, one by one.
LEMMA FileTokens ==
  ASSUME NEW k, NEW t, IsFile(t, k)
  PROVE  LET c == DefaultConfig(k)
         IN  /\ t[1] = Object /\ t[2] = String("Identity") /\ t[3] = Object
             /\ t[4] = String("PeerID") /\ t[5] = String(PeerIdOf(k))
             /\ t[6] = String("PrivKey") /\ t[7] = String(k)
             /\ t[8] = String("Datastore") /\ t[9] = Object
             /\ t[10] = String("Type") /\ t[11] = String(c.type)
             /\ t[12] = String("Path") /\ t[13] = String(c.path)
             /\ t[14] = String("Params") /\ t[15] = Primitive("null")
             /\ t[16] = String("Addresses") /\ t[17] = Object /\ t[18] = String("Swarm")
             /\ t[19] = Bracket(2)
             /\ t[20] = String(c.swarm[1]) /\ t[21] = String(c.swarm[2])
             /\ t[22] = String("API") /\ t[23] = String(c.api)
             /\ t[24] = String("Gateway") /\ t[25] = String(c.gateway)
             /\ t[26] = String("Mounts") /\ t[27] = Object
             /\ t[28] = String("IPFS") /\ t[29] = String("/ipfs")
             /\ t[30] = String("Bootstrap")
             /\ t[31] = Bracket(N)
             /\ \A i \in 1..N : t[31 + i] = String(BootstrapPeers[i])
             /\ t[32 + N] = String("Gateway") /\ t[33 + N] = Object
             /\ t[34 + N] = String("API") /\ t[35 + N] = Object
             /\ t[36 + N] = String("Swarm") /\ t[37 + N] = Object
             /\ Len(t) \in Nat /\ Len(t) >= 37 + N /\ N \in Nat
  <1> DEFINE c == DefaultConfig(k)
             b == Begin(c)
             m == Middle(c)
             s == Array(c.swarm)
             d == Array(BootstrapPeers)
  <1>1. /\ IsSeq(t) /\ At(t, 0, b) /\ At(t, 18, s) /\ At(t, 21, m) /\ At(t, 30, d) /\ At(t, 31 + N, End)
    BY DEF IsFile
  <1>2. Len(b) = 18 /\ Len(m) = 9 /\ Len(End) = 6 /\ Len(s) = 3 /\ Len(d) = N + 1 /\ N \in Nat
    BY PartsAreSequences, ListsAreSequences
  <1>3. /\ b[1] = Object /\ b[2] = String("Identity") /\ b[3] = Object
        /\ b[4] = String("PeerID") /\ b[5] = String(c.id)
        /\ b[6] = String("PrivKey") /\ b[7] = String(c.key)
        /\ b[8] = String("Datastore") /\ b[9] = Object
        /\ b[10] = String("Type") /\ b[11] = String(c.type)
        /\ b[12] = String("Path") /\ b[13] = String(c.path)
        /\ b[14] = String("Params") /\ b[15] = Primitive("null")
        /\ b[16] = String("Addresses") /\ b[17] = Object /\ b[18] = String("Swarm")
    BY DEF Begin
  <1>4. /\ m[1] = String("API") /\ m[2] = String(c.api)
        /\ m[3] = String("Gateway") /\ m[4] = String(c.gateway)
        /\ m[5] = String("Mounts") /\ m[6] = Object
        /\ m[7] = String("IPFS") /\ m[8] = String("/ipfs") /\ m[9] = String("Bootstrap")
    BY DEF Middle
  <1>5. /\ End[1] = String("Gateway") /\ End[2] = Object /\ End[3] = String("API")
        /\ End[4] = Object /\ End[5] = String("Swarm") /\ End[6] = Object
    BY DEF End
  <1>6. c.id = PeerIdOf(k) /\ c.key = k
    BY DEF DefaultConfig
  <1>7. /\ IsSeq(c.swarm) /\ Len(c.swarm) = 2 /\ IsSeq(BootstrapPeers)
    BY ListsAreSequences
  <1> HIDE DEF c, b, m
  <1>8. /\ s[1] = Bracket(2)
        /\ s[2] = String(c.swarm[1]) /\ s[3] = String(c.swarm[2])
    <2>1. /\ s[1] = Bracket(Len(c.swarm))
          /\ \A i \in 1..Len(c.swarm) : s[1 + i] = String(c.swarm[i])
      BY <1>7, ArrayTokens
    <2> HIDE DEF s
    <2>2. \A i \in 1..2 : s[1 + i] = String(c.swarm[i])
      BY <1>7, <2>1
    <2>3. s[1] = Bracket(2)
      BY <1>7, <2>1
    <2>4. s[1 + 1] = String(c.swarm[1]) /\ s[1 + 2] = String(c.swarm[2])
      BY <2>2
    <2> QED BY <2>3, <2>4
  <1>9. /\ d[1] = Bracket(N)
        /\ \A i \in 1..N : d[1 + i] = String(BootstrapPeers[i])
    BY <1>7, ArrayTokens DEF N
  <1> HIDE DEF s, d
  <1>10. \A i \in 1..18 : t[0 + i] = b[i]
    BY <1>1, <1>2 DEF At
  <1>11. \A i \in 1..3 : t[18 + i] = s[i]
    BY <1>1, <1>2 DEF At
  <1>12. \A i \in 1..9 : t[21 + i] = m[i]
    BY <1>1, <1>2 DEF At
  <1>13. \A i \in 1..(N + 1) : t[30 + i] = d[i]
    BY <1>1, <1>2 DEF At
  <1>14. \A i \in 1..6 : t[31 + N + i] = End[i]
    BY <1>1, <1>2 DEF At
  <1>15. Len(t) \in Nat /\ Len(t) >= 37 + N
    <2>1. Len(t) \in Nat /\ 31 + N + Len(End) <= Len(t)
      BY <1>1 DEF IsSeq, At
    <2> QED BY <1>2, <2>1
  <1>16. /\ t[1] = Object /\ t[2] = String("Identity") /\ t[3] = Object
         /\ t[4] = String("PeerID") /\ t[5] = String(PeerIdOf(k))
         /\ t[6] = String("PrivKey") /\ t[7] = String(k)
         /\ t[8] = String("Datastore") /\ t[9] = Object
         /\ t[10] = String("Type") /\ t[11] = String(c.type)
         /\ t[12] = String("Path") /\ t[13] = String(c.path)
         /\ t[14] = String("Params") /\ t[15] = Primitive("null")
         /\ t[16] = String("Addresses") /\ t[17] = Object /\ t[18] = String("Swarm")
    BY <1>3, <1>6, <1>10
  <1>17. /\ t[19] = Bracket(2)
         /\ t[20] = String(c.swarm[1]) /\ t[21] = String(c.swarm[2])
    BY <1>8, <1>11
  <1>18. /\ t[22] = String("API") /\ t[23] = String(c.api)
         /\ t[24] = String("Gateway") /\ t[25] = String(c.gateway)
         /\ t[26] = String("Mounts") /\ t[27] = Object
         /\ t[28] = String("IPFS") /\ t[29] = String("/ipfs")
         /\ t[30] = String("Bootstrap")
    BY <1>4, <1>12
  <1>19. t[31] = Bracket(N)
    <2>1. 1 \in 1..(N + 1)
      BY <1>2
    <2>2. t[30 + 1] = d[1]
      BY <1>13, <2>1
    <2> QED BY <1>9, <2>2
  <1>20. ASSUME NEW i \in 1..N PROVE t[31 + i] = String(BootstrapPeers[i])
    <2>1. 1 + i \in 1..(N + 1) /\ 30 + (1 + i) = 31 + i
      BY <1>2
    <2>2. t[30 + (1 + i)] = d[1 + i]
      BY <1>13, <2>1
    <2> QED BY <1>9, <2>1, <2>2
  <1>21. /\ t[32 + N] = String("Gateway") /\ t[33 + N] = Object
         /\ t[34 + N] = String("API") /\ t[35 + N] = Object
         /\ t[36 + N] = String("Swarm") /\ t[37 + N] = Object
    <2>1. /\ 31 + N + 1 = 32 + N /\ 31 + N + 2 = 33 + N /\ 31 + N + 3 = 34 + N
          /\ 31 + N + 4 = 35 + N /\ 31 + N + 5 = 36 + N /\ 31 + N + 6 = 37 + N
      BY <1>2
    <2>2. /\ t[31 + N + 1] = End[1] /\ t[31 + N + 2] = End[2] /\ t[31 + N + 3] = End[3]
          /\ t[31 + N + 4] = End[4] /\ t[31 + N + 5] = End[5] /\ t[31 + N + 6] = End[6]
      BY <1>14
    <2> QED BY <1>5, <2>1, <2>2
  <1> QED
    BY <1>2, <1>15, <1>16, <1>17, <1>18, <1>19, <1>20, <1>21 DEF c

\* The bootstrap peers alone.
LEMMA FileBootstrap ==
  ASSUME NEW k, NEW t, IsFile(t, k)
  PROVE  \A i \in 1..N : t[31 + i] = String(BootstrapPeers[i])
  BY FileTokens

\* The fields of tokens.
LEMMA TokenFields ==
  /\ \A v : String(v).type = "string" /\ String(v).text = v
  /\ \A v : Primitive(v).type = "primitive" /\ Primitive(v).text = v
  /\ \A i : Bracket(i).type = "array" /\ Bracket(i).size = i
  /\ Object.type = "object"
  BY DEF String, Primitive, Bracket, Object

IsTag(t, i, tag) == t[i].type = "string" /\ t[i].text = tag

\* The search returns the position it comes to first ...
LEMMA Found ==
  ASSUME NEW t, Len(t) \in Nat, NEW from \in Nat, NEW tag, NEW q \in from..Len(t),
         IsTag(t, q, tag), \A i \in Nat : from <= i /\ i < q => ~IsTag(t, i, tag)
  PROVE  _find_token(t, from, tag) = q
  <1> DEFINE found == {i \in from..Len(t) : t[i].type = "string" /\ t[i].text = tag}
  <1>1. q \in found /\ \A j \in found : q <= j /\ j \in Nat
    BY DEF IsTag
  <1>2. _find_token(t, from, tag) = IF found = {} THEN 0
                                    ELSE CHOOSE i \in found : \A j \in found : i <= j
    BY DEF _find_token
  <1> HIDE DEF found
  <1>3. \A i \in found : (\A j \in found : i <= j) => i = q
    BY <1>1
  <1> QED
    BY <1>1, <1>2, <1>3

\* ... and 0 if there is none.
LEMMA NotFound ==
  ASSUME NEW t, NEW from, NEW tag, \A i \in from..Len(t) : ~IsTag(t, i, tag)
  PROVE  _find_token(t, from, tag) = 0
  BY DEF _find_token, IsTag

\* The positions at which the keys are found.
LEMMA Positions ==
  ASSUME NEW k \in Keys, NEW t, IsFile(t, k)
  PROVE  /\ _find_token(t, 1, "Identity") = 2
         /\ _find_token(t, 2, "PeerID") = 4 /\ _find_token(t, 2, "PrivKey") = 6
         /\ _find_token(t, 2, "Type") = 10 /\ _find_token(t, 2, "Path") = 12
         /\ _find_token(t, 2, "Addresses") = 16
         /\ _find_token(t, 16, "Swarm") = 18
         /\ _find_token(t, 16, "API") = 22 /\ _find_token(t, 16, "Gateway") = 24
         /\ _find_token(t, 16, "Bootstrap") = 30
         /\ \A i \in 16..(37 + N) : ~IsTag(t, i, "Replication")
  <1> DEFINE c == DefaultConfig(k)
  <1>0. k \notin Tags /\ PeerIdOf(k) \notin Tags
    BY TextsAssumption
  <1>1. /\ c.type = "lmdb" /\ c.path = "datastore"
        /\ c.api = "/ip4/127.0.0.1/tcp/5001" /\ c.gateway = "/ip4/127.0.0.1/tcp/8080"
        /\ c.swarm[1] = "/ip4/0.0.0.0/tcp/4001" /\ c.swarm[2] = "/ip6/::/tcp/4001"
    BY DEF DefaultConfig
  <1>2. /\ t[1] = Object /\ t[2] = String("Identity") /\ t[3] = Object
        /\ t[4] = String("PeerID") /\ t[5] = String(PeerIdOf(k))
        /\ t[6] = String("PrivKey") /\ t[7] = String(k)
        /\ t[8] = String("Datastore") /\ t[9] = Object
        /\ t[10] = String("Type") /\ t[11] = String(c.type)
        /\ t[12] = String("Path") /\ t[13] = String(c.path)
        /\ t[14] = String("Params") /\ t[15] = Primitive("null")
        /\ t[16] = String("Addresses") /\ t[17] = Object /\ t[18] = String("Swarm")
        /\ t[19] = Bracket(2)
        /\ t[20] = String(c.swarm[1]) /\ t[21] = String(c.swarm[2])
        /\ t[22] = String("API") /\ t[23] = String(c.api)
        /\ t[24] = String("Gateway") /\ t[25] = String(c.gateway)
        /\ t[26] = String("Mounts") /\ t[27] = Object
        /\ t[28] = String("IPFS") /\ t[29] = String("/ipfs")
        /\ t[30] = String("Bootstrap") /\ t[31] = Bracket(N)
    BY FileTokens
  <1>3. /\ \A i \in 1..N : t[31 + i] = String(BootstrapPeers[i])
        /\ t[32 + N] = String("Gateway") /\ t[33 + N] = Object
        /\ t[34 + N] = String("API") /\ t[35 + N] = Object
        /\ t[36 + N] = String("Swarm") /\ t[37 + N] = Object
        /\ Len(t) \in Nat /\ Len(t) >= 37 + N /\ N \in Nat
    <2>1. \A i \in 1..N : t[31 + i] = String(BootstrapPeers[i])
      BY FileBootstrap
    <2>2. /\ t[32 + N] = String("Gateway") /\ t[33 + N] = Object
          /\ t[34 + N] = String("API") /\ t[35 + N] = Object
      BY FileTokens
    <2>3. t[36 + N] = String("Swarm") /\ t[37 + N] = Object
      BY FileTokens
    <2>4. Len(t) \in Nat /\ Len(t) >= 37 + N /\ N \in Nat
      BY FileTokens
    <2> QED BY <2>1, <2>2, <2>3, <2>4
  <1> HIDE DEF c
  <1>4. /\ IsTag(t, 2, "Identity") /\ IsTag(t, 4, "PeerID") /\ IsTag(t, 6, "PrivKey")
        /\ IsTag(t, 10, "Type") /\ IsTag(t, 12, "Path") /\ IsTag(t, 16, "Addresses")
        /\ IsTag(t, 18, "Swarm") /\ IsTag(t, 22, "API") /\ IsTag(t, 24, "Gateway")
        /\ IsTag(t, 30, "Bootstrap")
    BY <1>2, TokenFields DEF IsTag
  <1>5. \A i \in {1, 3, 9, 15, 17, 19, 27, 31} : t[i].type # "string"
    BY <1>2, TokenFields
  <1>6. /\ t[2].text = "Identity" /\ t[4].text = "PeerID" /\ t[5].text = PeerIdOf(k)
        /\ t[6].text = "PrivKey" /\ t[7].text = k /\ t[8].text = "Datastore"
        /\ t[10].text = "Type" /\ t[11].text = "lmdb" /\ t[12].text = "Path"
        /\ t[13].text = "datastore" /\ t[14].text = "Params" /\ t[16].text = "Addresses"
        /\ t[18].text = "Swarm" /\ t[20].text = "/ip4/0.0.0.0/tcp/4001"
        /\ t[21].text = "/ip6/::/tcp/4001" /\ t[22].text = "API"
        /\ t[23].text = "/ip4/127.0.0.1/tcp/5001" /\ t[24].text = "Gateway"
        /\ t[25].text = "/ip4/127.0.0.1/tcp/8080" /\ t[26].text = "Mounts"
        /\ t[28].text = "IPFS" /\ t[29].text = "/ipfs" /\ t[30].text = "Bootstrap"
    BY <1>1, <1>2, TokenFields
  <1>7a. \A i \in Nat : 1 <= i /\ i < 2 => ~IsTag(t, i, "Identity")
    BY <1>5, <1>6 DEF IsTag
  <1>7b. \A i \in Nat : 2 <= i /\ i < 4 => ~IsTag(t, i, "PeerID")
    BY <1>5, <1>6 DEF IsTag
  <1>7c. \A i \in Nat : 2 <= i /\ i < 6 => ~IsTag(t, i, "PrivKey")
    BY <1>0, <1>5, <1>6 DEF IsTag, Tags
  <1>8. \A i \in Nat : 2 <= i /\ i < 10 => ~IsTag(t, i, "Type")
    BY <1>0, <1>5, <1>6 DEF IsTag, Tags
  <1>9. \A i \in Nat : 2 <= i /\ i < 12 => ~IsTag(t, i, "Path")
    BY <1>0, <1>5, <1>6 DEF IsTag, Tags
  <1>10. \A i \in Nat : 2 <= i /\ i < 16 => ~IsTag(t, i, "Addresses")
    BY <1>0, <1>5, <1>6 DEF IsTag, Tags
  <1>11. \A i \in Nat : 16 <= i /\ i < 18 => ~IsTag(t, i, "Swarm")
    BY <1>5, <1>6 DEF IsTag
  <1>12. \A i \in Nat : 16 <= i /\ i < 22 => ~IsTag(t, i, "API")
    BY <1>5, <1>6 DEF IsTag
  <1>13. \A i \in Nat : 16 <= i /\ i < 24 => ~IsTag(t, i, "Gateway")
    BY <1>5, <1>6 DEF IsTag
  <1>14. \A i \in Nat : 16 <= i /\ i < 30 => ~IsTag(t, i, "Bootstrap")
    BY <1>5, <1>6 DEF IsTag
  <1>15. \A i \in 16..31 : ~IsTag(t, i, "Replication")
    BY <1>5, <1>6 DEF IsTag
  <1>16. \A i \in 16..(37 + N) : ~IsTag(t, i, "Replication")
    <2> SUFFICES ASSUME NEW i \in 16..(37 + N) PROVE ~IsTag(t, i, "Replication")
      OBVIOUS
    <2>1. CASE i \in 16..31
      BY <1>15, <2>1
    <2>2. CASE i \in 32..(31 + N)
      <3>1. i - 31 \in 1..N /\ 31 + (i - 31) = i
        BY <1>3, <2>2
      <3>2. t[i] = String(BootstrapPeers[i - 31])
        BY <1>3, <3>1
      <3>3. BootstrapPeers[i - 31] # "Replication"
        BY <3>1, TextsAssumption DEF N, Tags
      <3> QED BY <3>2, <3>3, TokenFields DEF IsTag
    <2>3. CASE i \in {32 + N, 34 + N, 36 + N}
      <3>1. t[i].text \in {"Gateway", "API", "Swarm"}
        BY <1>3, <2>3, TokenFields
      <3> QED BY <3>1 DEF IsTag
    <2>4. CASE i \in {33 + N, 35 + N, 37 + N}
      <3>1. t[i].type = "object"
        BY <1>3, <2>4, TokenFields
      <3> QED BY <3>1 DEF IsTag
    <2>5. i \in 16..31 \/ i \in 32..(31 + N) \/ i \in {32 + N, 34 + N, 36 + N}
            \/ i \in {33 + N, 35 + N, 37 + N}
      BY <1>3
    <2> QED BY <2>1, <2>2, <2>3, <2>4, <2>5
  <1>17. /\ Len(t) \in Nat /\ Len(t) >= 30
    BY <1>3
  <1>18. _find_token(t, 1, "Identity") = 2
    <2>1. IsTag(t, 2, "Identity") /\ 2 \in 1..Len(t)
      BY <1>4, <1>17
    <2> QED BY <1>7a, <1>17, <2>1, Found
  <1>19. _find_token(t, 2, "PeerID") = 4
    <2>1. IsTag(t, 4, "PeerID") /\ 4 \in 2..Len(t)
      BY <1>4, <1>17
    <2> QED BY <1>7b, <1>17, <2>1, Found
  <1>20. _find_token(t, 2, "PrivKey") = 6
    <2>1. IsTag(t, 6, "PrivKey") /\ 6 \in 2..Len(t)
      BY <1>4, <1>17
    <2> QED BY <1>7c, <1>17, <2>1, Found
  <1>21. _find_token(t, 2, "Type") = 10
    <2>1. IsTag(t, 10, "Type") /\ 10 \in 2..Len(t)
      BY <1>4, <1>17
    <2> QED BY <1>8, <1>17, <2>1, Found
  <1>22. _find_token(t, 2, "Path") = 12
    <2>1. IsTag(t, 12, "Path") /\ 12 \in 2..Len(t)
      BY <1>4, <1>17
    <2> QED BY <1>9, <1>17, <2>1, Found
  <1>23. _find_token(t, 2, "Addresses") = 16
    <2>1. IsTag(t, 16, "Addresses") /\ 16 \in 2..Len(t)
      BY <1>4, <1>17
    <2> QED BY <1>10, <1>17, <2>1, Found
  <1>24. _find_token(t, 16, "Swarm") = 18
    <2>1. IsTag(t, 18, "Swarm") /\ 18 \in 16..Len(t)
      BY <1>4, <1>17
    <2> QED BY <1>11, <1>17, <2>1, Found
  <1>25. _find_token(t, 16, "API") = 22
    <2>1. IsTag(t, 22, "API") /\ 22 \in 16..Len(t)
      BY <1>4, <1>17
    <2> QED BY <1>12, <1>17, <2>1, Found
  <1>26. _find_token(t, 16, "Gateway") = 24
    <2>1. IsTag(t, 24, "Gateway") /\ 24 \in 16..Len(t)
      BY <1>4, <1>17
    <2> QED BY <1>13, <1>17, <2>1, Found
  <1>27. _find_token(t, 16, "Bootstrap") = 30
    <2>1. IsTag(t, 30, "Bootstrap") /\ 30 \in 16..Len(t)
      BY <1>4, <1>17
    <2> QED BY <1>14, <1>17, <2>1, Found
  <1> QED
    BY <1>16, <1>18, <1>19, <1>20, <1>21, <1>22, <1>23, <1>24, <1>25, <1>26, <1>27

\* What is in memory is what was written, without the peers that are no address.
Reads(r, c) ==
  /\ \A f \in {"id", "key", "type", "path", "swarm", "api", "gateway", "announce"} : r[f] = c[f]
  /\ r.bootstrap = Valid(c.bootstrap)
  /\ c.peers = <<>> => r.peers = <<>>
  /\ Len(c.peers) = 1 => r.peers = Valid(c.peers)

\* The values in front of the Replication section.
LEMMA ReadsBack ==
  ASSUME NEW k \in Keys, NEW t, IsFile(t, k), ConfigOf(t) # Unset
  PROVE  LET c == DefaultConfig(k)
             r == ConfigOf(t)
             replication == _find_token(t, 16, "Replication")
             peers == _find_token(t, replication + 1, "Peers")
         IN  /\ r.id = c.id /\ r.key = c.key /\ r.type = c.type /\ r.path = c.path
             /\ r.swarm = c.swarm /\ r.api = c.api /\ r.gateway = c.gateway
             /\ r.bootstrap = Valid(c.bootstrap)
             /\ r.announce = IF replication = 0 THEN Unset
                             ELSE _get_json_int_value(t, replication + 1, "Announce")
             /\ r.peers = IF replication = 0 \/ peers = 0 THEN <<>>
                          ELSE ReplicationPeersAt(t, peers + 1)
  <1> DEFINE c == DefaultConfig(k)
             r == ConfigOf(t)
             replication == _find_token(t, 16, "Replication")
             peers == _find_token(t, replication + 1, "Peers")
             announce == IF replication = 0 THEN Unset
                         ELSE _get_json_int_value(t, replication + 1, "Announce")
             theirs == IF replication = 0 \/ peers = 0 THEN <<>>
                       ELSE ReplicationPeersAt(t, peers + 1)
  <1>1. /\ _find_token(t, 1, "Identity") = 2
        /\ _find_token(t, 2, "PeerID") = 4 /\ _find_token(t, 2, "PrivKey") = 6
        /\ _find_token(t, 2, "Type") = 10 /\ _find_token(t, 2, "Path") = 12
        /\ _find_token(t, 2, "Addresses") = 16
        /\ _find_token(t, 16, "Swarm") = 18
        /\ _find_token(t, 16, "API") = 22 /\ _find_token(t, 16, "Gateway") = 24
        /\ _find_token(t, 16, "Bootstrap") = 30
    BY Positions
  <1>2. /\ t[5] = String(PeerIdOf(k)) /\ t[7] = String(k)
        /\ t[11] = String(c.type) /\ t[13] = String(c.path)
        /\ t[19] = Bracket(2) /\ t[20] = String(c.swarm[1]) /\ t[21] = String(c.swarm[2])
        /\ t[23] = String(c.api) /\ t[25] = String(c.gateway) /\ t[31] = Bracket(N)
    BY FileTokens
  <1>3. \A i \in 1..N : t[31 + i] = String(BootstrapPeers[i])
    BY FileBootstrap
  <1>4. r = [id        |-> _get_json_string_value(t, 2, "PeerID"),
             key       |-> _get_json_string_value(t, 2, "PrivKey"),
             type      |-> _get_json_string_value(t, 2, "Type"),
             path      |-> _get_json_string_value(t, 2, "Path"),
             swarm     |-> ArrayAt(t, 19),
             api       |-> _get_json_string_value(t, 16, "API"),
             gateway   |-> _get_json_string_value(t, 16, "Gateway"),
             bootstrap |-> BootstrapPeersAt(t, 31),
             announce  |-> announce,
             peers     |-> theirs]
    <2>1. 18 + 1 = 19 /\ 30 + 1 = 31
      OBVIOUS
    <2> QED BY <1>1, <2>1 DEF ConfigOf
  <1>5. /\ r.id = _get_json_string_value(t, 2, "PeerID")
        /\ r.key = _get_json_string_value(t, 2, "PrivKey")
        /\ r.type = _get_json_string_value(t, 2, "Type")
        /\ r.path = _get_json_string_value(t, 2, "Path")
        /\ r.swarm = ArrayAt(t, 19)
        /\ r.api = _get_json_string_value(t, 16, "API")
        /\ r.gateway = _get_json_string_value(t, 16, "Gateway")
        /\ r.bootstrap = BootstrapPeersAt(t, 31)
        /\ r.announce = announce /\ r.peers = theirs
    <2> HIDE DEF announce, theirs, r
    <2> QED BY <1>4
  <1>6. /\ c.id = PeerIdOf(k) /\ c.key = k /\ c.bootstrap = BootstrapPeers
        /\ c.swarm = <<c.swarm[1], c.swarm[2]>>
    BY DEF DefaultConfig
  <1> HIDE DEF c, r, announce, theirs
  <1>7. /\ _get_json_string_value(t, 2, "PeerID") = PeerIdOf(k)
        /\ _get_json_string_value(t, 2, "PrivKey") = k
        /\ _get_json_string_value(t, 2, "Type") = c.type
        /\ _get_json_string_value(t, 2, "Path") = c.path
        /\ _get_json_string_value(t, 16, "API") = c.api
        /\ _get_json_string_value(t, 16, "Gateway") = c.gateway
    BY <1>1, <1>2, TokenFields DEF _get_json_string_value
  <1>8. ArrayAt(t, 19) = c.swarm
    <2>1. ArrayAt(t, 19) = [i \in 1..2 |-> t[19 + i].text]
      BY <1>2, TokenFields DEF ArrayAt
    <2>2. t[19 + 1].text = c.swarm[1] /\ t[19 + 2].text = c.swarm[2]
      BY <1>2, TokenFields
    <2>3. [i \in 1..2 |-> t[19 + i].text] = <<t[19 + 1].text, t[19 + 2].text>>
      OBVIOUS
    <2> QED BY <1>6, <2>1, <2>2, <2>3
  <1>9. ArrayAt(t, 31) = BootstrapPeers
    <2>1. ArrayAt(t, 31) = [i \in 1..N |-> t[31 + i].text]
      BY <1>2, TokenFields DEF ArrayAt
    <2>2. \A i \in 1..N : t[31 + i].text = BootstrapPeers[i]
      BY <1>3, TokenFields
    <2>3. BootstrapPeers = [i \in 1..N |-> BootstrapPeers[i]]
      BY TextsAssumption DEF N
    <2> QED BY <2>1, <2>2, <2>3
  <1>10. BootstrapPeersAt(t, 31) = Valid(BootstrapPeers)
    BY <1>9 DEF BootstrapPeersAt
  <1> QED
    BY <1>5, <1>6, <1>7, <1>8, <1>10 DEF c, r, announce, theirs

\* A file as init leaves it is read back, ...
LEMMA NewFileReads ==
  ASSUME NEW k \in Keys, NEW t, IsFile(t, k), Len(t) = 37 + N, ConfigOf(t) # Unset
  PROVE  Reads(ConfigOf(t), DefaultConfig(k))
  <1> DEFINE c == DefaultConfig(k)
             r == ConfigOf(t)
  <1>1. _find_token(t, 16, "Replication") = 0
    <2>1. \A i \in 16..(37 + N) : ~IsTag(t, i, "Replication")
      BY Positions
    <2> QED BY <2>1, NotFound
  <1>2. /\ r.id = c.id /\ r.key = c.key /\ r.type = c.type /\ r.path = c.path
        /\ r.swarm = c.swarm /\ r.api = c.api /\ r.gateway = c.gateway
        /\ r.bootstrap = Valid(c.bootstrap)
        /\ r.announce = Unset /\ r.peers = <<>>
    BY <1>1, ReadsBack
  <1>3. c.announce = Unset /\ c.peers = <<>> /\ Len(c.peers) # 1
    BY DEF DefaultConfig
  <1> HIDE DEF c, r
  <1>4. Reads(r, c)
    BY <1>2, <1>3 DEF Reads
  <1> QED
    BY <1>4 DEF r, c

\* ... and so is one the user has edited.
LEMMA EditedFileReads ==
  ASSUME NEW k \in Keys, NEW t, IsFile(t, k), NEW peers \in Edits,
         At(t, 37 + N, Section), At(t, 42 + N, Array(peers)),
         ConfigOf(t) # Unset
  PROVE  Reads(ConfigOf(t), Replicating(DefaultConfig(k), peers))
  <1> DEFINE c == Replicating(DefaultConfig(k), peers)
             r == ConfigOf(t)
  <1>0. /\ N \in Nat /\ Len(t) \in Nat /\ Len(t) >= 37 + N
        /\ peers \in Seq(Texts) /\ peers # <<>> /\ IsSeq(peers)
    BY FileTokens, TextsAssumption DEF IsSeq
  <1>1. Len(t) >= 42 + N /\ \A i \in 1..5 : t[37 + N + i] = Section[i]
    <2>1. Len(Section) = 5
      BY PartsAreSequences
    <2> QED BY <1>0, <2>1 DEF At
  <1>2. /\ t[38 + N] = String("Replication") /\ t[39 + N] = Object
        /\ t[40 + N] = String("Announce") /\ t[41 + N] = Primitive("true")
        /\ t[42 + N] = String("Peers")
    <2>1. /\ Section[1] = String("Replication") /\ Section[2] = Object
          /\ Section[3] = String("Announce") /\ Section[4] = Primitive("true")
          /\ Section[5] = String("Peers")
      BY DEF Section
    <2>2. /\ 37 + N + 1 = 38 + N /\ 37 + N + 2 = 39 + N /\ 37 + N + 3 = 40 + N
          /\ 37 + N + 4 = 41 + N /\ 37 + N + 5 = 42 + N
      BY <1>0
    <2>3. /\ t[37 + N + 1] = Section[1] /\ t[37 + N + 2] = Section[2]
          /\ t[37 + N + 3] = Section[3] /\ t[37 + N + 4] = Section[4]
          /\ t[37 + N + 5] = Section[5]
      BY <1>1
    <2> QED BY <2>1, <2>2, <2>3
  <1>3. _find_token(t, 16, "Replication") = 38 + N
    <2>1. \A i \in 16..(37 + N) : ~IsTag(t, i, "Replication")
      BY Positions
    <2>2. \A i \in Nat : 16 <= i /\ i < 38 + N => ~IsTag(t, i, "Replication")
      BY <1>0, <2>1
    <2>3. IsTag(t, 38 + N, "Replication") /\ 38 + N \in 16..Len(t)
      BY <1>0, <1>1, <1>2, TokenFields DEF IsTag
    <2> QED BY <1>0, <2>2, <2>3, Found
  <1>4. _find_token(t, 38 + N + 1, "Announce") = 40 + N
    <2>1. IsTag(t, 40 + N, "Announce") /\ 40 + N \in (38 + N + 1)..Len(t) /\ 38 + N + 1 \in Nat
      BY <1>0, <1>1, <1>2, TokenFields DEF IsTag
    <2>2. ~IsTag(t, 39 + N, "Announce")
      BY <1>2, TokenFields DEF IsTag
    <2>3. ASSUME NEW i \in Nat, 38 + N + 1 <= i, i < 40 + N PROVE i = 39 + N
      BY <1>0, <2>3
    <2> QED BY <1>0, <2>1, <2>2, <2>3, Found
  <1>5. _find_token(t, 38 + N + 1, "Peers") = 42 + N
    <2>1. IsTag(t, 42 + N, "Peers") /\ 42 + N \in (38 + N + 1)..Len(t) /\ 38 + N + 1 \in Nat
      BY <1>0, <1>1, <1>2, TokenFields DEF IsTag
    <2>2. ~IsTag(t, 39 + N, "Peers") /\ ~IsTag(t, 40 + N, "Peers") /\ ~IsTag(t, 41 + N, "Peers")
      BY <1>2, TokenFields DEF IsTag
    <2>3. ASSUME NEW i \in Nat, 38 + N + 1 <= i, i < 42 + N PROVE i \in {39 + N, 40 + N, 41 + N}
      BY <1>0, <2>3
    <2> QED BY <1>0, <2>1, <2>2, <2>3, Found
  <1>6. _get_json_int_value(t, 38 + N + 1, "Announce") = "true"
    <2>1. 40 + N # 0 /\ 40 + N + 1 = 41 + N
      BY <1>0
    <2>2. t[41 + N].type = "primitive" /\ t[41 + N].text = "true"
      BY <1>2, TokenFields
    <2> QED BY <1>4, <2>1, <2>2 DEF _get_json_int_value
  <1>7. Len(peers) = 1 => ReplicationPeersAt(t, 42 + N + 1) = Valid(peers)
    <2> SUFFICES ASSUME Len(peers) = 1 PROVE ReplicationPeersAt(t, 42 + N + 1) = Valid(peers)
      OBVIOUS
    <2>1. /\ Len(Array(peers)) = 2 /\ Array(peers)[1] = Bracket(1)
          /\ Array(peers)[1 + 1] = String(peers[1])
      <3>1. /\ Len(Array(peers)) = Len(peers) + 1 /\ Array(peers)[1] = Bracket(Len(peers))
            /\ \A i \in 1..Len(peers) : Array(peers)[1 + i] = String(peers[i])
        BY <1>0, ArrayTokens
      <3>2. 1 \in 1..Len(peers)
        OBVIOUS
      <3> QED BY <3>1, <3>2
    <2>2. t[42 + N + 1] = Bracket(1) /\ t[42 + N + 2] = String(peers[1])
      <3>1. \A i \in 1..2 : t[42 + N + i] = Array(peers)[i]
        BY <2>1 DEF At
      <3> QED BY <2>1, <3>1
    <2>3. [i \in 1..t[42 + N + 1].size |-> t[42 + N + 1 + 1].text] = [i \in 1..1 |-> peers[1]]
      <3>1. 42 + N + 1 + 1 = 42 + N + 2
        BY <1>0
      <3>2. t[42 + N + 1].size = 1 /\ t[42 + N + 1 + 1].text = peers[1]
        BY <2>2, <3>1, TokenFields
      <3> QED BY <3>2
    <2>4. peers = [i \in 1..1 |-> peers[1]]
      BY <1>0
    <2> QED BY <2>3, <2>4 DEF ReplicationPeersAt
  <1>8. /\ r.id = DefaultConfig(k).id /\ r.key = DefaultConfig(k).key
        /\ r.type = DefaultConfig(k).type /\ r.path = DefaultConfig(k).path
        /\ r.swarm = DefaultConfig(k).swarm /\ r.api = DefaultConfig(k).api
        /\ r.gateway = DefaultConfig(k).gateway
        /\ r.bootstrap = Valid(DefaultConfig(k).bootstrap)
    BY ReadsBack
  <1>9. r.announce = "true" /\ (Len(peers) = 1 => r.peers = Valid(peers))
    <2>1. 38 + N # 0 /\ 42 + N # 0
      BY <1>0
    <2>2. r.announce = IF 38 + N = 0 THEN Unset ELSE _get_json_int_value(t, 38 + N + 1, "Announce")
      BY <1>3, ReadsBack
    <2>3. r.peers = IF 38 + N = 0 \/ 42 + N = 0 THEN <<>> ELSE ReplicationPeersAt(t, 42 + N + 1)
      BY <1>3, <1>5, ReadsBack
    <2> HIDE DEF r
    <2> QED BY <1>6, <1>7, <2>1, <2>2, <2>3
  <1>10. /\ c.id = DefaultConfig(k).id /\ c.key = DefaultConfig(k).key
         /\ c.type = DefaultConfig(k).type /\ c.path = DefaultConfig(k).path
         /\ c.swarm = DefaultConfig(k).swarm /\ c.api = DefaultConfig(k).api
         /\ c.gateway = DefaultConfig(k).gateway /\ c.bootstrap = DefaultConfig(k).bootstrap
         /\ c.announce = "true" /\ c.peers = peers
    BY DEF Replicating, DefaultConfig
  <1> HIDE DEF c, r
  <1>11. Reads(r, c)
    BY <1>0, <1>8, <1>9, <1>10 DEF Reads
  <1> QED
    BY <1>11 DEF r, c

-----------------------------------------------------------------------------
(* What was opened is what was written. *)

\* A whole file has the default configuration of some key, with the user's
\* section behind it once it is edited.
WellWritten ==
  file.state = "whole" =>
    \E k \in Keys :
      /\ IsFile(file.tokens, k)
      /\ \/ file.of = DefaultConfig(k) /\ Len(file.tokens) = 37 + N
         \/ \E peers \in Edits : /\ file.of = Replicating(DefaultConfig(k), peers)
                                 /\ At(file.tokens, 37 + N, Section)
                                 /\ At(file.tokens, 42 + N, Array(peers))

HasKey == {"init", "write", "fopen", "fprintf", "fclose"}

\* A process that writes the file has made its key; one that has read it
\* remembers what it read, although the file may be another one by then.
Remembers ==
  /\ conf = [p \in Procs |-> conf[p]] /\ seen = [p \in Procs |-> seen[p]]
  /\ \A p \in Procs :
       /\ pc[p] \in HasKey => key[p] \in Keys
       /\ pc[p] \in {"open_datastore", "opened"} =>
            seen[p] \in Configs /\ Reads(conf[p], seen[p])
       /\ pc[p] = "opened" => datastore_dir

\* Every step keeps the file well written.
LEMMA StepWellWritten ==
  ASSUME IInv, WellWritten, Remembers, [Next]_vars
  PROVE  WellWritten'
  <1>1. CASE file' = file
    BY <1>1 DEF WellWritten
  <1>2. CASE \E p \in Procs : OpenForWriting(p) \/ WritePart(p) \/ WriteFails(p)
    BY <1>2 DEF OpenForWriting, WritePart, WriteFails, WellWritten
  <1>3. ASSUME NEW p \in Procs, WriteWhole(p) PROVE WellWritten'
    <2>1. key[p] \in Keys
      BY <1>3 DEF WriteWhole, Goto, Remembers, HasKey
    <2>2. /\ file'.tokens = repo_config_write_config_file(DefaultConfig(key[p]))
          /\ file'.of = DefaultConfig(key[p])
      BY <1>3 DEF WriteWhole, NewConfig
    <2>3. IsFile(file'.tokens, key[p]) /\ Len(file'.tokens) = 37 + N
      BY <2>2, WholeFile
    <2>4. \E k \in Keys : /\ IsFile(file'.tokens, k)
                          /\ file'.of = DefaultConfig(k) /\ Len(file'.tokens) = 37 + N
      BY <2>1, <2>2, <2>3
    <2> QED BY <2>4 DEF WellWritten
  <1>4. ASSUME NEW peers \in Edits, EditReplication(peers) PROVE WellWritten'
    <2>1. /\ file.state = "whole" /\ file.of.peers = <<>>
          /\ file'.tokens = file.tokens \o ReplicationSection(peers)
          /\ file'.of = Replicating(file.of, peers)
      BY <1>4 DEF EditReplication
    <2>2. PICK k \in Keys :
            /\ IsFile(file.tokens, k)
            /\ \/ file.of = DefaultConfig(k) /\ Len(file.tokens) = 37 + N
               \/ \E e \in Edits : file.of = Replicating(DefaultConfig(k), e)
      BY <2>1 DEF WellWritten
    <2>3. \A e \in Edits : Replicating(DefaultConfig(k), e).peers # <<>>
      BY TextsAssumption DEF Replicating, DefaultConfig
    <2>4. file.of = DefaultConfig(k) /\ Len(file.tokens) = 37 + N
      BY <2>1, <2>2, <2>3
    <2>5. IsSeq(peers)
      BY TextsAssumption DEF IsSeq
    <2>6. /\ IsFile(file'.tokens, k) /\ At(file'.tokens, 37 + N, Section)
          /\ At(file'.tokens, 42 + N, Array(peers))
      BY <2>1, <2>2, <2>4, <2>5, EditedFile
    <2>7. file'.of = Replicating(DefaultConfig(k), peers)
      BY <2>1, <2>4
    <2> QED BY <2>6, <2>7 DEF WellWritten
  <1>5. file' = file \/ (\E p \in Procs : \/ OpenForWriting(p) \/ WritePart(p) \/ WriteFails(p)
                                          \/ WriteWhole(p))
          \/ \E peers \in Edits : EditReplication(peers)
    BY DEF Next, Initialise, Open, vars, disk, ipfs_repo_get_directory, os_mkdir,
           ipfs_repo_config_init, ipfs_repo_fsrepo_init, fs_repo_write_config_file,
           ipfs_repo_fsrepo_datastore_init, ipfs_repo_fsrepo_blockstore_init,
           make_ipfs_repository, ipfs_repo_fsrepo_open, fs_repo_open_config,
           fs_repo_open_datastore, Dies
  <1> QED
    BY <1>1, <1>2, <1>3, <1>4, <1>5

\* A file that is parsed is read back as it was written.
LEMMA ParsedReads ==
  ASSUME WellWritten, Parses, ConfigOf(file.tokens) # Unset
  PROVE  file.of \in Configs /\ Reads(ConfigOf(file.tokens), file.of)
  <1>1. PICK k \in Keys :
          /\ IsFile(file.tokens, k)
          /\ \/ file.of = DefaultConfig(k) /\ Len(file.tokens) = 37 + N
             \/ \E peers \in Edits : /\ file.of = Replicating(DefaultConfig(k), peers)
                                     /\ At(file.tokens, 37 + N, Section)
                                     /\ At(file.tokens, 42 + N, Array(peers))
    BY DEF WellWritten, Parses
  <1>2. CASE file.of = DefaultConfig(k) /\ Len(file.tokens) = 37 + N
    BY <1>1, <1>2, NewFileReads DEF Configs
  <1>3. ASSUME NEW peers \in Edits, file.of = Replicating(DefaultConfig(k), peers),
               At(file.tokens, 37 + N, Section), At(file.tokens, 42 + N, Array(peers))
        PROVE  file.of \in Configs /\ Reads(ConfigOf(file.tokens), file.of)
    BY <1>1, <1>3, EditedFileReads DEF Configs
  <1> QED
    BY <1>1, <1>2, <1>3

\* Every step keeps what the processes remember.
LEMMA StepRemembers ==
  ASSUME IInv, WellWritten, Remembers, [Next]_vars
  PROVE  Remembers'
  <1> DEFINE Mine(p) == /\ pc[p] \in HasKey => key[p] \in Keys
                        /\ pc[p] \in {"open_datastore", "opened"} =>
                             seen[p] \in Configs /\ Reads(conf[p], seen[p])
                        /\ pc[p] = "opened" => datastore_dir
  <1>0. /\ conf = [p \in Procs |-> conf[p]] /\ seen = [p \in Procs |-> seen[p]]
        /\ \A p \in Procs : Mine(p)
        /\ pc \in [Procs -> Places] /\ key \in [Procs -> Keys \cup {Unset}]
    BY DEF Remembers, IInv, OneMaker, TypeOK
  <1>1. ASSUME NEW p \in Procs, UNCHANGED <<conf, seen>>,
               datastore_dir => datastore_dir',
               \A q \in Procs \ {p} : pc'[q] = pc[q] /\ key'[q] = key[q],
               pc'[p] \in HasKey => key'[p] \in Keys,
               pc'[p] \notin {"open_datastore", "opened"}
        PROVE  Remembers'
    <2>1. \A q \in Procs : Mine(q)'
      BY <1>0, <1>1 DEF Reads
    <2> QED BY <1>0, <1>1, <2>1 DEF Remembers
  <1>2. ASSUME UNCHANGED <<conf, seen, datastore_dir, pc, key>> PROVE Remembers'
    BY <1>2 DEF Remembers, Reads
  <1>3. ASSUME NEW p \in Procs, Initialise(p) PROVE Remembers'
    <2>1. UNCHANGED <<conf, seen>> /\ (datastore_dir => datastore_dir')
      BY <1>3 DEF Initialise, disk, ipfs_repo_get_directory, os_mkdir,
           ipfs_repo_config_init, ipfs_repo_fsrepo_init, fs_repo_write_config_file,
           OpenForWriting, WritePart, WriteFails, WriteWhole,
           ipfs_repo_fsrepo_datastore_init, ipfs_repo_fsrepo_blockstore_init,
           make_ipfs_repository
    <2>2. CASE ipfs_repo_config_init(p)
      <3>1. PICK k \in Keys : key' = [key EXCEPT ![p] = k]
        BY <2>2 DEF ipfs_repo_config_init
      <3>2. PICK to \in {"init", "refused", "identity"} : pc' = [pc EXCEPT ![p] = to]
        BY <2>2 DEF ipfs_repo_config_init, Goto
      <3>3. /\ \A q \in Procs \ {p} : pc'[q] = pc[q] /\ key'[q] = key[q]
            /\ key'[p] \in Keys /\ pc'[p] \notin {"open_datastore", "opened"}
        BY <1>0, <3>1, <3>2
      <3> QED BY <1>1, <2>1, <3>3
    <2>3. CASE ~ipfs_repo_config_init(p)
      <3>1. key' = key
        BY <1>3, <2>3 DEF Initialise, ipfs_repo_get_directory, os_mkdir,
           ipfs_repo_fsrepo_init, fs_repo_write_config_file,
           OpenForWriting, WritePart, WriteFails, WriteWhole,
           ipfs_repo_fsrepo_datastore_init, ipfs_repo_fsrepo_blockstore_init,
           make_ipfs_repository
      <3>2. /\ \A q \in Procs \ {p} : pc'[q] = pc[q]
            /\ pc'[p] \in HasKey => pc[p] \in HasKey
            /\ pc'[p] \notin {"open_datastore", "opened"}
        BY <1>0, <1>3, <2>3 DEF Initialise, ipfs_repo_get_directory, os_mkdir,
           ipfs_repo_fsrepo_init, fs_repo_write_config_file,
           OpenForWriting, WritePart, WriteFails, WriteWhole,
           ipfs_repo_fsrepo_datastore_init, ipfs_repo_fsrepo_blockstore_init,
           make_ipfs_repository, Goto, HasKey
      <3>3. pc'[p] \in HasKey => key'[p] \in Keys
        BY <1>0, <3>1, <3>2
      <3> QED BY <1>1, <2>1, <3>1, <3>2, <3>3
    <2> QED BY <2>2, <2>3
  <1>4. ASSUME NEW p \in Procs, ipfs_repo_fsrepo_open(p) \/ Dies(p) PROVE Remembers'
    <2>1. /\ UNCHANGED <<conf, seen, datastore_dir, key>>
          /\ \E to \in {"open_config", "refused", "dead"} : pc' = [pc EXCEPT ![p] = to]
      BY <1>4 DEF ipfs_repo_fsrepo_open, Dies, Goto, disk
    <2>2. /\ \A q \in Procs \ {p} : pc'[q] = pc[q] /\ key'[q] = key[q]
          /\ pc'[p] \notin HasKey /\ pc'[p] \notin {"open_datastore", "opened"}
      BY <1>0, <2>1 DEF HasKey
    <2> QED BY <1>1, <2>1, <2>2
  <1>5. ASSUME NEW p \in Procs, fs_repo_open_config(p) PROVE Remembers'
    <2> DEFINE r == ConfigOf(file.tokens)
               opens == Parses /\ r # Unset
    <2>1. /\ pc' = [pc EXCEPT ![p] = CASE file.state = "empty" -> "undefined"
                                       [] opens                -> "open_datastore"
                                       [] OTHER                -> "refused"]
          /\ conf' = [conf EXCEPT ![p] = IF Parses THEN r ELSE Unset]
          /\ seen' = [seen EXCEPT ![p] = file.of]
          /\ UNCHANGED <<datastore_dir, key>>
      BY <1>5 DEF fs_repo_open_config, Goto, disk
    <2>2. file.state = "empty" => ~opens
      BY DEF Parses
    <2>3. opens => Parses /\ file.of \in Configs /\ Reads(r, file.of)
      BY ParsedReads
    <2> HIDE DEF opens, r
    <2>4. /\ conf' = [q \in Procs |-> conf'[q]] /\ seen' = [q \in Procs |-> seen'[q]]
          /\ conf'[p] = (IF Parses THEN r ELSE Unset) /\ seen'[p] = file.of
          /\ \A q \in Procs \ {p} : conf'[q] = conf[q] /\ seen'[q] = seen[q]
      BY <1>0, <2>1
    <2>5. pc'[p] = IF opens THEN "open_datastore" ELSE IF file.state = "empty" THEN "undefined" ELSE "refused"
      <3>1. CASE opens
        BY <1>0, <2>1, <2>2, <3>1
      <3>2. CASE ~opens /\ file.state = "empty"
        BY <1>0, <2>1, <3>2
      <3>3. CASE ~opens /\ file.state # "empty"
        BY <1>0, <2>1, <3>3
      <3> QED BY <3>1, <3>2, <3>3
    <2>6. \A q \in Procs \ {p} : pc'[q] = pc[q]
      BY <1>0, <2>1
    <2>7. Mine(p)'
      <3>1. CASE opens
        <4>1. conf'[p] = r /\ seen'[p] = file.of /\ pc'[p] = "open_datastore"
          BY <2>3, <2>4, <2>5, <3>1
        <4>2. Reads(conf'[p], seen'[p]) /\ seen'[p] \in Configs
          BY <2>3, <3>1, <4>1
        <4>3. seen'[p] \in Configs' /\ Reads(conf[p], seen[p])'
          BY <4>2 DEF Reads
        <4> QED BY <4>1, <4>3 DEF HasKey
      <3>2. CASE ~opens
        BY <2>5, <3>2 DEF HasKey
      <3> QED BY <3>1, <3>2
    <2>8. ASSUME NEW q \in Procs \ {p} PROVE Mine(q)'
      <3>1. conf'[q] = conf[q] /\ seen'[q] = seen[q] /\ pc'[q] = pc[q] /\ key' = key
        BY <2>1, <2>4, <2>6
      <3> QED BY <1>0, <2>1, <3>1 DEF Reads
    <2> QED BY <2>4, <2>7, <2>8 DEF Remembers
  <1>6. ASSUME NEW p \in Procs, fs_repo_open_datastore(p) PROVE Remembers'
    <2>1. /\ pc[p] = "open_datastore"
          /\ pc' = [pc EXCEPT ![p] = IF conf[p].type = "lmdb" /\ datastore_dir THEN "opened" ELSE "refused"]
          /\ UNCHANGED <<conf, seen, datastore_dir, key>>
      BY <1>6 DEF fs_repo_open_datastore, Goto, disk
    <2>2. \A q \in Procs : Mine(q)'
      BY <1>0, <2>1 DEF HasKey, Reads
    <2> QED BY <1>0, <2>1, <2>2 DEF Remembers
  <1>7. ASSUME NEW peers \in Edits, EditReplication(peers) PROVE Remembers'
    BY <1>2, <1>7 DEF EditReplication
  <1>8. CASE UNCHANGED vars
    BY <1>2, <1>8 DEF vars
  <1> QED
    BY <1>3, <1>4, <1>5, <1>6, <1>7, <1>8 DEF Next, Open

(* The file is well written and its readers remember it. *)
LEMMA ReadersRemember == Spec => [](IInv /\ Remembers)
<1>1. Init => WellWritten /\ Remembers
  <2> SUFFICES ASSUME Init PROVE WellWritten /\ Remembers
    OBVIOUS
  <2>1. file.state = "absent" /\ \A p \in Procs : pc[p] = "idle"
    BY DEF Init, NoFile
  <2>2. conf = [p \in Procs |-> conf[p]] /\ seen = [p \in Procs |-> seen[p]]
    BY DEF Init
  <2> QED BY <2>1, <2>2 DEF WellWritten, Remembers, HasKey
<1>2. IInv /\ WellWritten /\ Remembers /\ [Next]_vars => (WellWritten /\ Remembers)'
  BY StepWellWritten, StepRemembers
<1> QED
  BY <1>1, <1>2, InitIInv, StepIInv, PTL DEF Spec

(* Whoever opens the repository has in memory what was written, to the end and by
   one process, however many keys and values are the same text. *)
THEOREM OpenedIsWritten == Spec => []OpenReadsTheFile
<1>1. Remembers => OpenReadsTheFile
  BY UnsetAssumption DEF Remembers, Reads, OpenReadsTheFile
<1> QED
  BY <1>1, ReadersRemember, PTL

-----------------------------------------------------------------------------
(* The identity lasts. *)

\* Whoever may still write finds no whole file, and whoever has read the file has
\* read the one that is there.
WrittenOnce ==
  /\ file.state # "absent" => directory
  /\ \A p \in Procs : pc[p] \in {"identity", "init", "write", "fopen"} => file.state = "absent"
  /\ \A p \in Procs : pc[p] \in {"fprintf", "fclose"} => file.state \in {"empty", "part"}
  /\ \A p \in Procs : pc[p] \in {"open_datastore", "opened"} =>
       file.state = "whole" /\ seen[p].key = file.of.key

(* The steps of init. *)
LEMMA InitialiseWrittenOnce ==
  ASSUME IInv, WrittenOnce, NEW p \in Procs, Initialise(p)
  PROVE  WrittenOnce'
<1> USE DEF IInv, OneMaker, TypeOK, Places, Making, Written, WithDatastore, WithBlockstore, Goto, disk,
            WrittenOnce
<1>1. CASE ipfs_repo_get_directory(p)
  BY <1>1 DEF ipfs_repo_get_directory
<1>2. CASE os_mkdir(p)
  BY <1>2 DEF os_mkdir, MkdirSucceeds
<1>3. CASE ipfs_repo_config_init(p)
  BY <1>3 DEF ipfs_repo_config_init
<1>4. CASE ipfs_repo_fsrepo_init(p) \/ fs_repo_write_config_file(p)
  BY <1>4 DEF ipfs_repo_fsrepo_init, fs_repo_write_config_file
<1>5. CASE OpenForWriting(p)
  BY <1>5 DEF OpenForWriting
<1>6. CASE WritePart(p) \/ WriteFails(p)
  BY <1>6 DEF WritePart, WriteFails
<1>7. CASE WriteWhole(p)
  BY <1>7 DEF WriteWhole
<1>8. CASE ipfs_repo_fsrepo_datastore_init(p) \/ ipfs_repo_fsrepo_blockstore_init(p)
             \/ make_ipfs_repository(p)
  BY <1>8 DEF ipfs_repo_fsrepo_datastore_init, ipfs_repo_fsrepo_blockstore_init, make_ipfs_repository
<1> QED
  BY <1>1, <1>2, <1>3, <1>4, <1>5, <1>6, <1>7, <1>8 DEF Initialise

(* The steps of open, of a crash and of the user. *)
LEMMA StepWrittenOnce == IInv /\ Remembers /\ WrittenOnce /\ [Next]_vars => WrittenOnce'
<1> SUFFICES ASSUME IInv, Remembers, WrittenOnce, [Next]_vars PROVE WrittenOnce'
  OBVIOUS
<1>1. ASSUME NEW p \in Procs, Initialise(p) PROVE WrittenOnce'
  BY <1>1, InitialiseWrittenOnce
<1>2. ASSUME NEW p \in Procs, ipfs_repo_fsrepo_open(p) \/ fs_repo_open_datastore(p) \/ Dies(p)
      PROVE  WrittenOnce'
  BY <1>2 DEF ipfs_repo_fsrepo_open, fs_repo_open_datastore, Dies, IInv, OneMaker, TypeOK, Places,
              Goto, disk, WrittenOnce
<1>3. ASSUME NEW p \in Procs, fs_repo_open_config(p) PROVE WrittenOnce'
  <2>1. /\ pc' = [pc EXCEPT ![p] = pc'[p]] /\ pc \in [Procs -> Places]
        /\ pc'[p] \in {"undefined", "open_datastore", "refused"}
        /\ pc'[p] = "open_datastore" => file.state = "whole"
        /\ UNCHANGED <<directory, file>> /\ seen' = [seen EXCEPT ![p] = file.of]
    <3> DEFINE opens == Parses /\ ConfigOf(file.tokens) # Unset
               to    == CASE file.state = "empty" -> "undefined"
                          [] opens                -> "open_datastore"
                          [] OTHER                -> "refused"
    <3>1. pc' = [pc EXCEPT ![p] = to] /\ seen' = [seen EXCEPT ![p] = file.of] /\ UNCHANGED disk
      BY <1>3 DEF fs_repo_open_config, Goto
    <3>2. opens => file.state = "whole"
      BY DEF Parses
    <3> HIDE DEF opens
    <3>3. to \in {"undefined", "open_datastore", "refused"} /\ (to = "open_datastore" => file.state = "whole")
      BY <3>2
    <3>4. pc \in [Procs -> Places]
      BY DEF IInv, OneMaker, TypeOK
    <3> HIDE DEF to
    <3> QED BY <3>1, <3>3, <3>4 DEF disk
  <2>2. DOMAIN seen = Procs
    BY DEF Remembers
  <2> QED BY <2>1, <2>2 DEF WrittenOnce
<1>4. ASSUME NEW peers \in Edits, EditReplication(peers) PROVE WrittenOnce'
  <2>1. /\ file.state = "whole" /\ file'.state = "whole" /\ UNCHANGED <<directory, pc, seen>>
        /\ file'.of = [file.of EXCEPT !.peers = peers, !.announce = "true"]
    BY <1>4 DEF EditReplication, Replicating
  <2>2. IsConfig(file.of)
    BY <2>1 DEF IInv, WholeOfConfig
  <2>3. file'.of.key = file.of.key
    <3>1. LET d == [file.of EXCEPT !.peers = peers, !.announce = "true"]
          IN  IsConfig(d) /\ d.key = file.of.key
      BY <2>2, EditShape
    <3> QED BY <2>1, <3>1
  <2> QED BY <2>1, <2>3 DEF WrittenOnce
<1>5. CASE UNCHANGED vars
  BY <1>5 DEF vars, WrittenOnce
<1> QED
  BY <1>1, <1>2, <1>3, <1>4, <1>5 DEF Next, Open

(* However many processes run init and open, wherever they are killed: all that
   have the repository open are the peer that its one init made. *)
THEOREM IdentityLasts == Spec => []OneIdentity
<1>1. Init => WrittenOnce
  BY DEF Init, NoFile, WrittenOnce
<1>2. OneMaker /\ WrittenOnce /\ OpenReadsTheFile => OneIdentity
  <2> SUFFICES ASSUME OneMaker, WrittenOnce, OpenReadsTheFile, NEW p \in Procs, pc[p] = "opened"
               PROVE  /\ file.state = "whole" /\ file.of.key = conf[p].key
                      /\ \A q \in Procs : /\ pc[q] = "opened" => conf[q].key = conf[p].key
                                          /\ pc[q] = "initialised" => key[q] = conf[p].key
    BY DEF OneIdentity
  <2>1. \A q \in Procs : pc[q] = "opened" => conf[q]["key"] = seen[q]["key"]
    BY DEF OpenReadsTheFile
  <2>2. \A q \in Procs : pc[q] = "opened" => file.state = "whole" /\ conf[q].key = file.of.key
    BY <2>1 DEF WrittenOnce
  <2>3. \A q \in Procs : pc[q] = "initialised" => key[q] = file.of.key
    BY DEF OneMaker, Written, WithDatastore, WithBlockstore
  <2> QED BY <2>2, <2>3
<1> QED
  BY <1>1, <1>2, ReadersRemember, StepWrittenOnce, SingleMaker, OpenedIsWritten, PTL DEF Spec
=============================================================================
