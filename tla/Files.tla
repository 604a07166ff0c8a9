------------------------------- MODULE Files -------------------------------
(***************************************************************************)
(* Files and directories as nodes of the merkledag: the importer that cuts  *)
(* a file into nodes (importer/importer.c), the exporter that puts it       *)
(* together (importer/exporter.c), the resolver of paths                    *)
(* (importer/resolver.c) and the lists of links (merkledag/node.c).         *)
(*                                                                         *)
(* A node is its own hash: what merkledag_add stores is found under the     *)
(* hash of its content.  A store is a set of nodes.  Bytes are a sequence.  *)
(* `bad' is the set of nodes the blockstore or the datastore fails to write. *)
(* A path is a sequence of names and slashes.                               *)
(***************************************************************************)
EXTENDS Integers, Sequences, SequencesExt

CONSTANTS MAX_DATA_SIZE,   \* the size of a chunk
          NoHash,          \* a node's hash before it was computed
          NoNode           \* NULL

-----------------------------------------------------------------------------
(* Nodes, unixfs objects and their lists. *)

ipfs_unixfs_new == [type |-> "raw", bytes |-> <<>>, file_size |-> 0, blocksizes |-> <<>>]

ipfs_hashtable_node_new == [data |-> <<>>, links |-> <<>>]

ipfs_unixfs_add_data(bytes, unix_fs) == [unix_fs EXCEPT !.bytes = bytes]

ipfs_unixfs_add_blocksize(size, unix_fs) == [unix_fs EXCEPT !.blocksizes = Append(@, size)]

ipfs_hashtable_node_set_data(node, unix_fs) == [node EXCEPT !.data = <<unix_fs>>]

ipfs_hashtable_node_create_directory ==
  ipfs_hashtable_node_set_data(ipfs_hashtable_node_new, [ipfs_unixfs_new EXCEPT !.type = "directory"])

ipfs_hashtable_node_is_directory(node) == node.data # <<>> /\ node.data[1].type = "directory"

ipfs_node_link_create(name, hash) == [name |-> name, hash |-> hash]

\* Mutant: the new link goes to the head of the list.
AddLinkAtHead(node, mylink) == [node EXCEPT !.links = <<mylink>> \o @]

ipfs_hashtable_node_add_link(node, mylink) == [node EXCEPT !.links = Append(@, mylink)]

ipfs_hashtable_node_get_link_by_name(node, name) ==
  SelectInSeq(node.links, LAMBDA l : l.name = name)

-----------------------------------------------------------------------------
(* The importer. *)

\* A node without data gets a new unixfs object; then one more block of it.
ipfs_importer_add_filesize_to_data_section(node, bytes_read) ==
  LET section == IF node.data = <<>> THEN [ipfs_unixfs_new EXCEPT !.type = "file"]
                                     ELSE node.data[1]
      sized == ipfs_unixfs_add_blocksize(bytes_read, section)
  IN  ipfs_hashtable_node_set_data(node, [sized EXCEPT !.file_size = @ + bytes_read])

\* merkledag_add: the hash is computed first, then the node is written.
ipfs_merkledag_add(node, bad) == IF node \in bad THEN <<>> ELSE <<node>>

\* A chunk in a unixfs object.
ChunkUnixFS(bytes) ==
  ipfs_unixfs_add_data(bytes, [ipfs_unixfs_new EXCEPT !.type = "file", !.file_size = Len(bytes)])

\* Whether the chunk becomes a node of its own.
Linked(parent, bytes) == Len(bytes) = MAX_DATA_SIZE \/ parent.links # <<>>

\* Mutant: a chunk that could not be written is linked all the same.
NeverFails(own, wrote) == FALSE

\* The chunk's node was not written: the chunk is not linked, 0 bytes count as read.
ChunkFailed(own, wrote) == own /\ wrote = <<>>

\* The rest of the file, chunk by chunk: the nodes written and the parent's hash.
\* The read that is shorter than a chunk ends the loop, as does a write that
\* fails: import_chunk then returns 0 bytes.
RECURSIVE ipfs_import_chunk(_, _, _)
ipfs_import_chunk(rest, parent, bad) ==
  LET bytes  == SubSeq(rest, 1, IF Len(rest) < MAX_DATA_SIZE THEN Len(rest) ELSE MAX_DATA_SIZE)
      leaf   == ipfs_hashtable_node_set_data(ipfs_hashtable_node_new, ChunkUnixFS(bytes))
      own    == Linked(parent, bytes)
      wrote  == IF own THEN ipfs_merkledag_add(leaf, bad) ELSE <<>>
      filled == IF own
                THEN ipfs_importer_add_filesize_to_data_section(
                       ipfs_hashtable_node_add_link(parent, ipfs_node_link_create("", leaf)),
                       Len(bytes))
                ELSE ipfs_hashtable_node_set_data(parent, ChunkUnixFS(bytes))
  IN  CASE ChunkFailed(own, wrote) -> [node |-> parent, hash |-> NoHash, writes |-> <<>>]
        [] ~ChunkFailed(own, wrote) /\ Len(bytes) < MAX_DATA_SIZE ->
             [node |-> filled, hash |-> filled, writes |-> wrote \o ipfs_merkledag_add(filled, bad)]
        [] OTHER ->
             LET more == ipfs_import_chunk(SubSeq(rest, Len(bytes) + 1, Len(rest)), filled, bad)
             IN  [more EXCEPT !.writes = wrote \o @]

\* What the network is told: the root, then each link.
Provided(node, hash) == <<hash>> \o [i \in 1..Len(node.links) |-> node.links[i].hash]

\* A tree is a file with its bytes, a directory with its named entries, or a file
\* that cannot be opened.  import_file returns 1 whatever became of the writes;
\* only an entry that cannot be opened makes it, and all above it, fail.
RECURSIVE ipfs_import_file(_, _, _)
ipfs_import_file(tree, recursive, bad) ==
  CASE tree.kind = "missing" -> [ok |-> 0, node |-> NoNode, hash |-> NoHash, writes |-> <<>>,
                                 provided |-> <<>>]
    [] tree.kind = "file" ->
         LET r == ipfs_import_chunk(tree.bytes, ipfs_hashtable_node_new, bad)
         IN  [ok |-> 1, node |-> r.node, hash |-> r.hash, writes |-> r.writes,
              provided |-> Provided(r.node, r.hash)]
    [] tree.kind = "directory" ->
         LET entry(acc, e) ==
               IF acc.ok = 0 THEN acc
               ELSE LET r == ipfs_import_file(e.tree, recursive, bad)
                    IN  [ok |-> r.ok, writes |-> acc.writes \o r.writes,
                         provided |-> acc.provided \o r.provided,
                         node |-> ipfs_hashtable_node_add_link(
                                    acc.node, ipfs_node_link_create(e.name, r.hash))]
             none == [ok |-> 1, writes |-> <<>>, provided |-> <<>>,
                      node |-> ipfs_hashtable_node_create_directory]
             all == IF recursive THEN FoldLeft(entry, none, tree.entries) ELSE none
         IN  IF all.ok = 0
             THEN [ok |-> 0, node |-> NoNode, hash |-> NoHash, writes |-> all.writes,
                   provided |-> all.provided]
             ELSE [ok |-> 1, node |-> all.node, hash |-> all.node,
                   writes |-> all.writes \o ipfs_merkledag_add(all.node, bad),
                   provided |-> all.provided \o Provided(all.node, all.node)]

\* An argument of `ipfs add' is a switch [kind |-> "switch", name |-> ...] or a tree.
ipfs_import_is_recursive(args) ==
  \E i \in DOMAIN args : args[i] = [kind |-> "switch", name |-> "-r"]

\* Every argument behind the verb; the switches are left to import_files.
ipfs_import_get_filelist(args) == SelectSeq(args, LAMBDA a : a # [kind |-> "switch", name |-> "add"])

\* Every name that is not a switch, up to the first that fails.
ipfs_import_files(args, bad) ==
  FoldLeft(LAMBDA acc, a :
             IF acc.ok = 0 \/ a.kind = "switch" THEN acc
             ELSE LET r == ipfs_import_file(a, ipfs_import_is_recursive(args), bad)
                  IN  [ok |-> r.ok, writes |-> acc.writes \o r.writes],
           [ok |-> 1, writes |-> <<>>], ipfs_import_get_filelist(args))

-----------------------------------------------------------------------------
(* The exporter. *)

\* What a call that ends the process `returns'.
Crash == -1

\* The decoder refuses a node with nothing in it.
ipfs_exporter_get_node(store, hash) ==
  IF hash \in store /\ hash # ipfs_hashtable_node_new THEN hash ELSE NoNode

\* Whether the decoder returns 1 for the node's data: data of length 0 are
\* decoded to NULL, data that are no unixfs object up to the damage.
Readable(node) == node.data # <<>> /\ node.data[1].type # "damaged"

\* Writing to a stream that has room for `room' bytes.  Stdio keeps the bytes
\* back: `flushed' says whether the call that writes them also finds out.
Fwrite(acc, bytes, room, flushed) ==
  LET all == acc.out \o bytes
      short == Len(all) > room
  IN  [ok |-> IF short /\ flushed THEN 0 ELSE 1, out |-> IF short THEN SubSeq(all, 1, room) ELSE all]

\* The node itself, or one level of links, up to the first that is not found or
\* not written.  What the decoder returns is not looked at: without data there is
\* no object to take the bytes of.  Nor is what fclose returns.
ipfs_exporter_to_filestream(store, hash, room, flushed) ==
  LET node == ipfs_exporter_get_node(store, hash)
      parts == IF node.links = <<>> THEN <<hash>>
               ELSE [i \in 1..Len(node.links) |-> node.links[i].hash]
      write(acc, part) ==
        LET link_node == ipfs_exporter_get_node(store, part)
        IN  CASE acc.ok # 1 -> acc
              [] acc.ok = 1 /\ link_node = NoNode -> [acc EXCEPT !.ok = 0]
              [] acc.ok = 1 /\ link_node # NoNode /\ link_node.data = <<>> -> [acc EXCEPT !.ok = Crash]
              [] OTHER -> Fwrite(acc, link_node.data[1].bytes, room, flushed)
  IN  IF node = NoNode THEN [ok |-> 0, out |-> <<>>]
      ELSE FoldLeft(write, [ok |-> 1, out |-> <<>>], parts)

\* All levels; what a child returns is not looked at, nor what fprintf returns.
RECURSIVE ipfs_exporter_cat_node(_, _, _, _)
ipfs_exporter_cat_node(store, node, file, room) ==
  LET child(acc, l) ==
        LET child_node == ipfs_exporter_get_node(store, l.hash)
        IN  CASE acc.ok = 0 -> acc
              [] acc.ok = 1 /\ child_node = NoNode -> [acc EXCEPT !.ok = 0]
              [] OTHER -> [ok  |-> 1,
                           out |-> ipfs_exporter_cat_node(store, child_node, acc.out, room).out]
  IN  IF ~Readable(node) THEN [ok |-> 0, out |-> file]
      ELSE FoldLeft(child, Fwrite([ok |-> 1, out |-> file], node.data[1].bytes, room, FALSE), node.links)

ipfs_exporter_object_cat_to_file(store, hash, room) ==
  LET read_node == ipfs_exporter_get_node(store, hash)
  IN  IF read_node = NoNode THEN [ok |-> 0, out |-> <<>>]
      ELSE ipfs_exporter_cat_node(store, read_node, <<>>, room)

-----------------------------------------------------------------------------
(* The resolver. *)

Slash == "/"

SlashAfter(path, i) == \E k \in (i + 1)..Len(path) : path[k] = Slash

FirstName(path) == SelectInSeq(path, LAMBDA t : t # Slash)

\* The next name; without a slash behind it, the whole path with the slashes in
\* front of it.
ipfs_resolver_next_path(path) ==
  LET i == FirstName(path)
  IN  CASE i = 0                            -> <<>>
        [] i > 0 /\ SlashAfter(path, i)     -> <<path[i]>>
        [] OTHER                            -> path

\* Slashes, a leading ipfs or ipns, and the node's own id.
RECURSIVE ipfs_resolver_remove_path_prefix(_, _, _)
ipfs_resolver_remove_path_prefix(path, id, first) ==
  CASE path = <<>> -> path
    [] path # <<>> /\ path[1] = Slash -> ipfs_resolver_remove_path_prefix(Tail(path), id, first)
    [] path # <<>> /\ first /\ path[1] \in {"ipfs", "ipns"} ->
         ipfs_resolver_remove_path_prefix(Tail(path), id, FALSE)
    [] path # <<>> /\ path[1] = id -> ipfs_resolver_remove_path_prefix(Tail(path), id, FALSE)
    [] OTHER -> path

\* A hash behind ipfs/ or ipns/ that is not the node's own id; `Qm' is the set of
\* names that are hashes.
ipfs_resolver_is_remote(path, id, Qm) ==
  LET i == FirstName(path)
  IN  /\ i > 0 /\ i + 2 <= Len(path)
      /\ path[i] \in {"ipfs", "ipns"} /\ path[i + 1] = Slash
      /\ path[i + 2] \in Qm /\ path[i + 2] # id

\* The first two names, when a slash follows each, are a peer and the key it is
\* asked for.  `remote' has the peers of the peerstore that can be connected to and
\* give a stream, with what each answers: <<a node>>, one byte <<>>, or nothing that
\* can be read and decoded.  That is not looked at: `response' or `node' has no value.
ipfs_resolver_remote_get(path, id, remote) ==
  LET temp == ipfs_resolver_remove_path_prefix(path, id, TRUE)
      parsed == Len(temp) >= 4 /\ temp[2] = Slash /\ temp[4] = Slash
      asked == parsed /\ temp[1] \in DOMAIN remote
  IN  CASE asked /\ remote[temp[1]].read /\ remote[temp[1]].node # <<>> -> remote[temp[1]].node[1]
        [] asked /\ ~remote[temp[1]].read -> "undefined"
        [] OTHER -> NoNode

\* Looking in a node: the section has to be the name of a link; what follows it
\* is the next section of the path only.
RECURSIVE LookIn(_, _, _)
LookIn(path, from, store) ==
  LET section == ipfs_resolver_next_path(path)
      link == IF Len(section) = 1 THEN ipfs_hashtable_node_get_link_by_name(from, section[1]) ELSE 0
      current == IF link = 0 THEN NoNode ELSE ipfs_exporter_get_node(store, from.links[link].hash)
  IN  CASE section = <<>> \/ ~ipfs_hashtable_node_is_directory(from) \/ current = NoNode -> NoNode
        [] current # NoNode /\ section = path -> current
        [] OTHER -> LookIn(ipfs_resolver_next_path(Tail(path)), current, store)

\* Mutant: the resolver stops at the root.
RootOnly(path, root, store) == root

\* The rest of the path behind the hash.
BelowRoot(path, root, store) ==
  IF Len(path) = 1 THEN root ELSE LookIn(SubSeq(path, 3, Len(path)), root, store)

\* A local path: the root by its hash, then down the links.
ipfs_resolver_get(path, roots, id, store, remote) ==
  LET short == ipfs_resolver_remove_path_prefix(path, id, TRUE)
      root == IF short # <<>> /\ short[1] \in DOMAIN roots
              THEN ipfs_exporter_get_node(store, roots[short[1]]) ELSE NoNode
  IN  CASE ipfs_resolver_is_remote(path, id, DOMAIN roots) -> ipfs_resolver_remote_get(path, id, remote)
        [] root = NoNode -> NoNode
        [] OTHER -> BelowRoot(short, root, store)
=============================================================================
