----------------------------- MODULE Repository -----------------------------
(***************************************************************************)
(* The repository on disk: `ipfs init' makes it (repo/init.c, the second    *)
(* half of repo/fsrepo/fs_repo.c) and every other command opens it.         *)
(* Processes run at the same time, none of them takes a lock, and each may  *)
(* die between any two steps.                                              *)
(*                                                                         *)
(* The config file is the sequence of its JSON tokens, as jsmn gives them   *)
(* back: fs_repo_open_config searches it for keys by their text alone.      *)
(***************************************************************************)
EXTENDS Integers, SequencesExt

CONSTANTS Procs,
          Keys,         \* key pairs; a key's peer id is <<"id", key>>
          Invalid,      \* keys whose id does not begin with "Qm"
          Texts,        \* what may stand in a list of peers
          Addresses,    \* the texts that are a multiaddress
          BootstrapPeers,           \* what init is given
          Edits,        \* the Replication peers the user may write into the file
          Unset

ASSUME KeysAssumption == Invalid \subseteq Keys /\ Unset \notin Keys

PeerIdOf(k) == <<"id", k>>

\* The names fs_repo_open_config looks for.
Tags == {"Identity", "PeerID", "PrivKey", "Type", "Path", "Addresses", "Swarm", "API",
         "Gateway", "Bootstrap", "Replication", "Announce", "Peers"}

\* Keys are base64 of more than any tag's length and ids begin with Qm; the peers
\* of init are addresses, which begin with a slash.
ASSUME TextsAssumption ==
  /\ \A k \in Keys : k \notin Tags /\ PeerIdOf(k) \notin Tags
  /\ BootstrapPeers \in Seq(Texts \ Tags)
  /\ Edits \subseteq Seq(Texts) \ {<<>>}

VARIABLES
  directory, datastore_dir, blockstore_dir, \* what exists
  file,        \* the config file: "absent", "empty", "part" or "whole", its tokens
               \* and what they were written from
  pc, key,     \* of each process: where it is, the key pair it made,
  counter,     \* how many it made,
  conf,        \* the configuration it has read,
  seen         \* and what the file it read was written from

vars == <<directory, datastore_dir, blockstore_dir, file, pc, key, counter, conf, seen>>

disk == <<directory, datastore_dir, blockstore_dir, file>>

NoFile == [state |-> "absent", tokens |-> <<>>, of |-> Unset]

Init ==
  /\ directory = FALSE /\ datastore_dir = FALSE /\ blockstore_dir = FALSE
  /\ file = NoFile
  /\ pc = [p \in Procs |-> "idle"]
  /\ key = [p \in Procs |-> Unset] /\ counter = [p \in Procs |-> 0]
  /\ conf = [p \in Procs |-> Unset] /\ seen = [p \in Procs |-> Unset]

-----------------------------------------------------------------------------
(* The config file. *)

String(v) == [type |-> "string", text |-> v, size |-> 0]
Primitive(v) == [type |-> "primitive", text |-> v, size |-> 0]
Bracket(n) == [type |-> "array", text |-> "", size |-> n]
Array(s) == <<Bracket(Len(s))>> \o [i \in 1..Len(s) |-> String(s[i])]
Object == [type |-> "object", text |-> "", size |-> 0]

\* Values and keys are both strings.
repo_config_write_config_file(c) ==
     <<Object,
       String("Identity"), Object, String("PeerID"), String(c.id), String("PrivKey"), String(c.key),
       String("Datastore"), Object, String("Type"), String(c.type), String("Path"), String(c.path),
       String("Params"), Primitive("null"),
       String("Addresses"), Object, String("Swarm")>> \o Array(c.swarm)
  \o <<String("API"), String(c.api), String("Gateway"), String(c.gateway),
       String("Mounts"), Object, String("IPFS"), String("/ipfs"),
       String("Bootstrap")>> \o Array(c.bootstrap)
  \o <<String("Gateway"), Object, String("API"), Object, String("Swarm"), Object>>

\* What a user adds: the only way to have a Replication section.
ReplicationSection(peers) ==
  <<String("Replication"), Object, String("Announce"), Primitive("true"), String("Peers")>>
    \o Array(peers)

\* The first string from a position on that has the text, or 0.
_find_token(tokens, from, tag) ==
  LET found == {i \in from..Len(tokens) : tokens[i].type = "string" /\ tokens[i].text = tag}
  IN  IF found = {} THEN 0 ELSE CHOOSE i \in found : \A j \in found : i <= j

_get_json_string_value(tokens, from, tag) ==
  LET pos == _find_token(tokens, from, tag)
  IN  IF pos # 0 /\ tokens[pos + 1].type = "string" THEN tokens[pos + 1].text ELSE Unset

_get_json_int_value(tokens, from, tag) ==
  LET pos == _find_token(tokens, from, tag)
  IN  IF pos # 0 /\ tokens[pos + 1].type = "primitive" THEN tokens[pos + 1].text ELSE Unset

\* The strings of the array at a position.
ArrayAt(tokens, pos) == [i \in 1..tokens[pos].size |-> tokens[pos + i].text]

\* multiaddress_new_from_string
IsMultiaddress(a) == a \in Addresses

\* What is not an address is skipped.
Valid(texts) == SelectSeq(texts, IsMultiaddress)

\* Mutant: the loop over the bootstrap peers reads the first again.
BootstrapWithoutIndex(tokens, pos) ==
  Valid([i \in 1..tokens[pos].size |-> tokens[pos + 1].text])

BootstrapPeersAt(tokens, pos) == Valid(ArrayAt(tokens, pos))

\* The loop over the replication peers does not use its index.
ReplicationPeersAt(tokens, pos) ==
  Valid([i \in 1..tokens[pos].size |-> tokens[pos + 1].text])

\* repo_config_identity_build_private_key: the id is derived from the key.
IdOfKey(k) == IF k \in Keys THEN PeerIdOf(k) ELSE Unset

IdentityMatches(tokens, pos) ==
  LET k == _get_json_string_value(tokens, pos, "PrivKey")
  IN  IdOfKey(k) # Unset /\ _get_json_string_value(tokens, pos, "PeerID") = IdOfKey(k)

ConfigOf(tokens) ==
  LET identity    == _find_token(tokens, 1, "Identity")
      addresses   == _find_token(tokens, identity, "Addresses")
      swarm       == _find_token(tokens, addresses, "Swarm") + 1
      bootstrap   == _find_token(tokens, addresses, "Bootstrap")
      replication == _find_token(tokens, addresses, "Replication")
      peers       == _find_token(tokens, replication + 1, "Peers")
  IN  IF identity = 0 \/ ~IdentityMatches(tokens, identity) \/ addresses = 0 \/ tokens[swarm].type # "array"
      THEN Unset
      ELSE [id        |-> _get_json_string_value(tokens, identity, "PeerID"),
            key       |-> _get_json_string_value(tokens, identity, "PrivKey"),
            type      |-> _get_json_string_value(tokens, identity, "Type"),
            path      |-> _get_json_string_value(tokens, identity, "Path"),
            swarm     |-> ArrayAt(tokens, swarm),
            api       |-> _get_json_string_value(tokens, addresses, "API"),
            gateway   |-> _get_json_string_value(tokens, addresses, "Gateway"),
            bootstrap |-> BootstrapPeersAt(tokens, bootstrap + 1),
            \* Unset: the field keeps what the allocation held
            announce  |-> IF replication = 0 THEN Unset
                          ELSE _get_json_int_value(tokens, replication + 1, "Announce"),
            peers     |-> IF replication = 0 \/ peers = 0 THEN <<>>
                          ELSE ReplicationPeersAt(tokens, peers + 1)]

-----------------------------------------------------------------------------
(* What a file is written from. *)

DefaultConfig(k) ==
  [id |-> PeerIdOf(k), key |-> k, type |-> "lmdb", path |-> "datastore",
   swarm |-> <<"/ip4/0.0.0.0/tcp/4001", "/ip6/::/tcp/4001">>, api |-> "/ip4/127.0.0.1/tcp/5001",
   gateway |-> "/ip4/127.0.0.1/tcp/8080", bootstrap |-> BootstrapPeers, announce |-> Unset,
   peers |-> <<>>]

Replicating(c, peers) == [c EXCEPT !.peers = peers, !.announce = "true"]

Configs == {DefaultConfig(k) : k \in Keys}
             \cup {Replicating(DefaultConfig(k), peers) : k \in Keys, peers \in Edits}

ASSUME UnsetAssumption == Unset \notin Configs

-----------------------------------------------------------------------------
(* ipfs init. *)

Goto(p, from, to) == pc[p] = from /\ pc' = [pc EXCEPT ![p] = to]

\* ipfs_repo_get_directory: refused when the directory is there.
ipfs_repo_get_directory(p) ==
  /\ Goto(p, "idle", IF directory THEN "refused" ELSE "mkdir")
  /\ UNCHANGED <<disk, key, counter, conf, seen>>

\* Mutant: the result of os_mkdir is not looked at.
MkdirUnchecked == TRUE

MkdirSucceeds == ~directory

os_mkdir(p) ==
  /\ Goto(p, "mkdir", IF MkdirSucceeds THEN "identity" ELSE "refused")
  /\ directory' = TRUE
  /\ UNCHANGED <<datastore_dir, blockstore_dir, file, key, counter, conf, seen>>

\* ipfs_repo_config_init: at most five key pairs are tried.
ipfs_repo_config_init(p) ==
  /\ \E k \in Keys \ {key[q] : q \in Procs} :
       LET tried == IF k \in Invalid THEN counter[p] + 1 ELSE counter[p]
       IN  /\ key' = [key EXCEPT ![p] = k] /\ counter' = [counter EXCEPT ![p] = tried]
           /\ Goto(p, "identity", CASE k \notin Invalid -> "init"
                                    [] tried = 5 -> "refused"
                                    [] OTHER -> "identity")
  /\ UNCHANGED <<disk, conf, seen>>

\* repo_config_is_initialized: the file's existence alone, asked twice.
repo_config_is_initialized == file.state # "absent"

ipfs_repo_fsrepo_init(p) ==
  /\ Goto(p, "init", IF repo_config_is_initialized THEN "refused" ELSE "write")
  /\ UNCHANGED <<disk, key, counter, conf, seen>>

fs_repo_write_config_file(p) ==
  /\ Goto(p, "write", IF repo_config_is_initialized THEN "refused" ELSE "fopen")
  /\ UNCHANGED <<disk, key, counter, conf, seen>>

\* fopen with "w" empties what is there.
OpenForWriting(p) ==
  /\ Goto(p, "fopen", "fprintf")
  /\ file' = [state |-> "empty", tokens |-> <<>>, of |-> Unset]
  /\ UNCHANGED <<directory, datastore_dir, blockstore_dir, key, counter, conf, seen>>

NewConfig(p) == DefaultConfig(key[p])

\* The buffer goes to the file in pieces.
WritePart(p) ==
  /\ Goto(p, "fprintf", "fclose")
  /\ file' = [state |-> "part", tokens |-> <<>>, of |-> Unset]
  /\ UNCHANGED <<directory, datastore_dir, blockstore_dir, key, counter, conf, seen>>

\* The key cannot be encoded: what was printed stays, the file is not closed.
WriteFails(p) ==
  /\ Goto(p, "fprintf", "refused")
  /\ file' = [state |-> "part", tokens |-> <<>>, of |-> Unset]
  /\ UNCHANGED <<directory, datastore_dir, blockstore_dir, key, counter, conf, seen>>

WriteWhole(p) ==
  /\ Goto(p, "fclose", "datastore_init")
  /\ file' = [state |-> "whole", tokens |-> repo_config_write_config_file(NewConfig(p)),
              of |-> NewConfig(p)]
  /\ UNCHANGED <<directory, datastore_dir, blockstore_dir, key, counter, conf, seen>>

ipfs_repo_fsrepo_datastore_init(p) ==
  /\ Goto(p, "datastore_init", IF datastore_dir THEN "refused" ELSE "blockstore_init")
  /\ datastore_dir' = TRUE
  /\ UNCHANGED <<directory, blockstore_dir, file, key, counter, conf, seen>>

ipfs_repo_fsrepo_blockstore_init(p) ==
  /\ Goto(p, "blockstore_init", IF blockstore_dir THEN "refused" ELSE "made")
  /\ blockstore_dir' = TRUE
  /\ UNCHANGED <<directory, datastore_dir, file, key, counter, conf, seen>>

\* make_ipfs_repository looks for the file before it reports success.
make_ipfs_repository(p) ==
  /\ Goto(p, "made", IF repo_config_is_initialized THEN "initialised" ELSE "refused")
  /\ UNCHANGED <<disk, key, counter, conf, seen>>

-----------------------------------------------------------------------------
(* Opening it. *)

ipfs_repo_fsrepo_open(p) ==
  /\ Goto(p, "idle", IF repo_config_is_initialized THEN "open_config" ELSE "refused")
  /\ UNCHANGED <<disk, key, counter, conf, seen>>

\* jsmn_parse: a text that ends inside a string or with a bracket open is an error,
\* and every beginning of the file but the whole is one of these (its last bracket
\* closes its first).
Parses == file.state = "whole"

\* fs_repo_open_config.  The result of _read_file is not looked at: with an empty
\* file the pointer that is parsed was never set, and the process dies or refuses.
fs_repo_open_config(p) ==
  LET c == ConfigOf(file.tokens)
  IN  /\ Goto(p, "open_config",
              CASE file.state = "empty" -> "undefined"
                [] Parses /\ c # Unset  -> "open_datastore"
                [] OTHER                -> "refused")
      /\ conf' = [conf EXCEPT ![p] = IF Parses THEN c ELSE Unset]
      /\ seen' = [seen EXCEPT ![p] = file.of]
      /\ UNCHANGED <<disk, key, counter>>

\* fs_repo_open_datastore: lmdb needs its directory; nobody looks for the blockstore's.
fs_repo_open_datastore(p) ==
  /\ Goto(p, "open_datastore", IF conf[p].type = "lmdb" /\ datastore_dir THEN "opened" ELSE "refused")
  /\ UNCHANGED <<disk, key, counter, conf, seen>>

-----------------------------------------------------------------------------

\* A process dies; what it had not flushed is lost.
Dies(p) ==
  /\ pc[p] \notin {"idle", "refused", "undefined", "initialised", "opened", "dead"}
  /\ pc' = [pc EXCEPT ![p] = "dead"]
  /\ UNCHANGED <<disk, key, counter, conf, seen>>

\* The user adds the peers to replicate to, once.
EditReplication(peers) ==
  /\ file.state = "whole" /\ file.of.peers = <<>>
  /\ file' = [state |-> "whole", tokens |-> file.tokens \o ReplicationSection(peers),
              of |-> Replicating(file.of, peers)]
  /\ UNCHANGED <<directory, datastore_dir, blockstore_dir, pc, key, counter, conf, seen>>

Initialise(p) ==
  \/ ipfs_repo_get_directory(p) \/ os_mkdir(p) \/ ipfs_repo_config_init(p)
  \/ ipfs_repo_fsrepo_init(p) \/ fs_repo_write_config_file(p) \/ OpenForWriting(p)
  \/ WritePart(p) \/ WriteFails(p) \/ WriteWhole(p)
  \/ ipfs_repo_fsrepo_datastore_init(p) \/ ipfs_repo_fsrepo_blockstore_init(p)
  \/ make_ipfs_repository(p)

Open(p) == ipfs_repo_fsrepo_open(p) \/ fs_repo_open_config(p) \/ fs_repo_open_datastore(p)

Next ==
  \/ \E p \in Procs : Initialise(p) \/ Open(p) \/ Dies(p)
  \/ \E peers \in Edits : EditReplication(peers)

Spec == Init /\ [][Next]_vars

-----------------------------------------------------------------------------

Places ==
  {"idle", "refused", "mkdir", "identity", "init", "write", "fopen", "fprintf", "fclose",
   "datastore_init", "blockstore_init", "made", "initialised", "open_config", "open_datastore",
   "opened", "undefined", "dead"}

\* Types of the variables, as far as the properties need them.
TypeOK ==
  /\ directory \in BOOLEAN /\ datastore_dir \in BOOLEAN /\ blockstore_dir \in BOOLEAN
  /\ pc \in [Procs -> Places]
  /\ key \in [Procs -> Keys \cup {Unset}]
  /\ file.state \in {"absent", "empty", "part", "whole"}

\* Where a process is that made the directory and did not fail; from where on the
\* file is written, and the directories are made.
WithBlockstore == {"made", "initialised"}
WithDatastore == {"blockstore_init"} \cup WithBlockstore
Written == {"datastore_init"} \cup WithDatastore
Making == {"identity", "init", "write", "fopen", "fprintf", "fclose"} \cup Written

(* mkdir is the lock that the code does not take.  At most one process makes the
   repository, and nobody else writes to it: what an init has made by the time it
   reports success is its own. *)
OneMaker ==
  /\ TypeOK
  /\ \A p \in Procs : pc[p] \in Making => directory
  /\ \A p, q \in Procs : pc[p] \in Making /\ pc[q] \in Making => p = q
  /\ \A p \in Procs : pc[p] \in Written => file.state = "whole" /\ file.of.key = key[p]
  /\ \A p \in Procs : pc[p] \in WithDatastore => datastore_dir
  /\ \A p \in Procs : pc[p] \in WithBlockstore => blockstore_dir

(* The node that a process has opened keeps its identity: whatever inits and opens
   run at the same time or later, and wherever they are killed, nobody writes
   another identity into the file, so that all processes that have the repository
   open are the same peer, the one that the successful init announced. *)
OneIdentity ==
  \A p \in Procs : pc[p] = "opened" =>
    /\ file.state = "whole" /\ file.of.key = conf[p].key
    /\ \A q \in Procs : /\ pc[q] = "opened" => conf[q].key = conf[p].key
                        /\ pc[q] = "initialised" => key[q] = conf[p].key

(* A repository that opens was written to the end, and what is in memory is what
   was written, without the peers that are no address: the search for keys by their
   text finds the right ones although keys and values are not told apart and some
   keys occur twice.  (Of several Replication peers only the first is read.) *)
OpenReadsTheFile ==
  \A p \in Procs : pc[p] = "opened" =>
    /\ seen[p] # Unset /\ datastore_dir
    /\ \A f \in {"id", "key", "type", "path", "swarm", "api", "gateway", "announce"} :
         conf[p][f] = seen[p][f]
    /\ conf[p].bootstrap = Valid(seen[p].bootstrap)
    /\ seen[p].peers = <<>> => conf[p].peers = <<>>
    /\ Len(seen[p].peers) = 1 => conf[p].peers = Valid(seen[p].peers)
=============================================================================
