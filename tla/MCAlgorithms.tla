---------------------------- MODULE MCAlgorithms ----------------------------
(***************************************************************************)
(* The sequential algorithms on all inputs of a small size.  A behaviour    *)
(* has one input and one step, which computes what the code does with it.   *)
(***************************************************************************)
EXTENDS Codec, Files, Http, Names, FiniteSetsExt

CONSTANTS Bytes,       \* the values of a byte of a file
          MaxFile,     \* the longest file
          MaxInList,   \* the most blocks, wants or links in one message or node
          NotRun

VARIABLES input, output

vars == <<input, output>>

UpTo(S, n) == UNION {[1..k -> S] : k \in 0..n}

-----------------------------------------------------------------------------
(* Inputs of the encodings: lengths around the limits of a varint's size. *)

Strings == {[id |-> "NULL", len |-> 0], [id |-> "short", len |-> 1],
            [id |-> "hash", len |-> 32], [id |-> "long", len |-> 128]}

Hash == [id |-> "hash", len |-> 32]

Numbers == {0, 1, 127, 128, 16384}

CidInputs == [version : {0, 1}, codec : {112}, hash : {Hash}]

BlockInputs == [data : Strings, cid : CidInputs]

EntryInputs == [block : {Hash, [id |-> "long", len |-> 128]}, cancel : {0, 1}, priority : {1, 128}]

WantlistInputs == [entries : UpTo(EntryInputs, MaxInList), full : {0, 1}]

MessageInputs ==
  [blocks : {<<>>}, payload : UpTo(BlockInputs, MaxInList), wantlist : {<<>>}]
    \cup [blocks : {<<>>}, payload : UpTo({[data |-> Hash, cid |-> c] : c \in CidInputs}, 1),
          wantlist : UpTo(WantlistInputs, 1)]

LinkInputs == [hash : {Null, Hash}, name : Strings, t_size : Numbers]

NodeInputs == [links : UpTo(LinkInputs, MaxInList), data : Strings]

\* The three that do not come back.
EmptyMessage == [blocks |-> <<>>, payload |-> <<>>, wantlist |-> <<>>]
EmptyNode == [links |-> <<>>, data |-> Null]
EmptyLink == [hash |-> Null, name |-> Null, t_size |-> 0]

UnixFSInputs == [data_type : 0..2, bytes : Strings, file_size : Numbers,
                 blocksizes : UpTo(Numbers, MaxInList)]

JournalInputs ==
  [current_epoch : Numbers, start_epoch : {0, 128}, end_epoch : {0, 128},
   journal_entries : UpTo([timestamp : Numbers, hash : {Hash}, pin : {0, 1}], MaxInList)]

\* Requests with one argument at most and no parameters.
UrlInputs ==
  [command : {"name", "object", "dht", "swarm"},
   sub_command : {NoText, "get", "provide", "resolve", "publish", "connect"},
   params : {<<>>}, arguments : UpTo({"good", "unread", "bad"}, 1)]
    \cup [command : {"other"}, sub_command : {NoText, "get"}, params : {<<>>}, arguments : {<<>>}]

-----------------------------------------------------------------------------
(* Inputs of the importer, the exporter and the resolver. *)

FileTrees == [kind : {"file"}, bytes : UpTo(Bytes, MaxFile)]

SmallFile == [kind |-> "file", bytes |-> <<CHOOSE b \in Bytes : TRUE>>]

LargeFile == [kind |-> "file", bytes |-> [i \in 1..(MAX_DATA_SIZE + 1) |-> CHOOSE b \in Bytes : TRUE]]

Missing == [kind |-> "missing"]

Entries(T) == {<<[name |-> "a", tree |-> s], [name |-> "b", tree |-> t]>> : s \in T, t \in T}
                \cup {<<[name |-> "a", tree |-> s]>> : s \in T} \cup {<<>>}

Directories(T) == [kind : {"directory"}, entries : Entries(T)]

Trees == FileTrees \cup Directories({SmallFile, LargeFile, Missing})
           \cup Directories(Directories({SmallFile, LargeFile}) \cup {SmallFile})

AddArguments ==
  {[kind |-> "switch", name |-> n] : n \in {"add", "-r"}} \cup {SmallFile, LargeFile, Missing}
    \cup Directories({LargeFile})

Imported(tree) == ipfs_import_file(tree, TRUE, {})

Whole(tree) == Range(Imported(tree).writes)

\* Objects of other programs: nodes without data, or with data that are no unixfs
\* object, and links to such nodes.
Leaf(bytes) == ipfs_hashtable_node_set_data(ipfs_hashtable_node_new, ChunkUnixFS(bytes))

Damaged == ipfs_hashtable_node_set_data(ipfs_hashtable_node_new,
             [ipfs_unixfs_new EXCEPT !.type = "damaged", !.bytes = <<0>>])

NoData == ipfs_hashtable_node_add_link(ipfs_hashtable_node_new,
                                       ipfs_node_link_create("", Leaf(<<1>>)))

Linking(node, leaves) ==
  [node EXCEPT !.links = [i \in 1..Len(leaves) |-> ipfs_node_link_create("", leaves[i])]]

Objects ==
  {Linking(node, leaves) : node \in {ipfs_hashtable_node_new, Damaged, Leaf(<<>>)},
                           leaves \in UpTo({Leaf(<<0>>), Leaf(<<1, 0>>), Damaged, NoData}, 2)}

ObjectsBelow(root) == {root, Leaf(<<1>>)} \cup {root.links[i].hash : i \in DOMAIN root.links}

BytesBelow(root) ==
  FlattenSeq([i \in 1..Len(root.links) |->
    IF root.links[i].hash.data = <<>> THEN <<1>> ELSE root.links[i].hash.data[1].bytes])

Rooms == {MAX_DATA_SIZE, MaxFile}

\* What a path names: the reference for the resolver.
RECURSIVE Walk(_, _)
Walk(node, names) ==
  IF names = <<>> THEN node
  ELSE LET i == ipfs_hashtable_node_get_link_by_name(node, Head(names))
       IN  IF i = 0 THEN NoNode ELSE Walk(node.links[i].hash, Tail(names))

Root == "Qm"

\* What a path may have in front of the hash.  `me' is the node's own id: behind
\* /ipfs/ another hash is a remote node's.
PathPrefixes == {<<>>, <<Slash>>, <<Slash, "ipfs", Slash, "me", Slash>>, <<"ipns", Slash>>}

PathOf(prefix, names) ==
  prefix \o <<Root>> \o FlattenSeq([i \in 1..Len(names) |-> <<Slash, names[i]>>])

-----------------------------------------------------------------------------
(* Inputs of the name system.  Names are numbers here: a record of name i leads
   to another name, to a file, or to text that is no path; a chain is n names
   of which each leads to the next and the last to a file. *)

IpnsPath(i) == [prefix |-> "/ipns/", text |-> [form |-> "sha256", hash |-> i], more |-> FALSE]

FilePath == [prefix |-> "/ipfs/", text |-> [form |-> "sha256", hash |-> 0], more |-> FALSE]

Values == {IpnsPath(i) : i \in 1..3}
            \cup {FilePath, [FilePath EXCEPT !.prefix = ""], [IpnsPath(1) EXCEPT !.more = TRUE],
                  [IpnsPath(1) EXCEPT !.text.form = "damaged"]}

Chain(n) == [i \in 1..n |-> IF i = n THEN FilePath ELSE IpnsPath(i + 1)]

RecordInputs == UNION {[D -> Values] : D \in SUBSET (1..3)} \cup {Chain(n) : n \in 9..13}

\* The path that is reached in n rounds: the reference for the resolver.
RECURSIVE After(_, _, _)
After(records, path, n) ==
  IF n = 0 THEN path
  ELSE LET p == After(records, path, n - 1)
       IN  IF p = NoPath \/ p \notin {IpnsPath(i) : i \in DOMAIN records} THEN NoPath
           ELSE records[p.text.hash]

-----------------------------------------------------------------------------

Init ==
  /\ output = NotRun
  /\ \/ \E v \in BlockInputs    : input = [kind |-> "block", value |-> v]
     \/ \E v \in MessageInputs  : input = [kind |-> "message", value |-> v]
     \/ \E v \in NodeInputs     : input = [kind |-> "node", value |-> v]
     \/ \E v \in NodeInputs     : input = [kind |-> "stored", value |-> v]
     \/ \E v \in Strings        : input = [kind |-> "cid", value |-> v]
     \/ \E v \in RecordInputs : \E p \in {"/ipns/", "/ipfs/", ""} : \E r \in BOOLEAN :
          input = [kind |-> "name", records |-> v, recursive |-> r,
                   path |-> [IpnsPath(1) EXCEPT !.prefix = p]]
     \/ \E v \in UnixFSInputs   : input = [kind |-> "unixfs", value |-> v]
     \/ \E v \in JournalInputs  : input = [kind |-> "journal", value |-> v]
     \/ \E v \in UrlInputs : \E method \in {"GET", "POST"} :
          input = [kind |-> "url", value |-> v, method |-> method]
     \/ \E t \in Trees : \E bad \in SUBSET Whole(t) :
          input = [kind |-> "import", tree |-> t, bad |-> bad]
     \/ \E args \in UpTo(AddArguments, 3) : input = [kind |-> "add", args |-> args]
     \/ \E t \in FileTrees : \E lost \in SUBSET Whole(t) : \E room \in Rooms : \E flushed \in BOOLEAN :
          input = [kind |-> "export", root |-> Imported(t).hash, store |-> Whole(t) \ lost,
                   bytes |-> t.bytes, room |-> room, flushed |-> flushed]
     \/ \E root \in Objects : \E room \in Rooms : \E flushed \in BOOLEAN :
          input = [kind |-> "export", root |-> root, store |-> ObjectsBelow(root),
                   bytes |-> BytesBelow(root), room |-> room, flushed |-> flushed]
     \/ \E t \in Trees : \E p \in PathPrefixes : \E names \in UpTo({"a", "b", "c"}, 1) :
          input = [kind |-> "resolve", tree |-> t, path |-> PathOf(p, names), names |-> names,
                   remote |-> <<>>]
     \/ \E t \in Trees : \E read \in BOOLEAN : \E node \in {<<>>, <<Leaf(<<1>>)>>} :
        \E remote \in {<<>>, Root :> [read |-> read, node |-> node]} :
          input = [kind |-> "resolve", tree |-> t, names |-> <<"a">>, remote |-> remote,
                   path |-> PathOf(<<"ipns", Slash>>, <<"a">>) \o <<Slash>>]

\* The encoder with the size its estimate gives, then the decoder.
Encode(kind, Enc(_), Dec(_)) ==
  /\ input.kind = kind /\ output = NotRun
  /\ output' = LET e == Enc(input.value) IN IF e = Failed THEN Failed ELSE Dec(e)
  /\ UNCHANGED input

EncodeBlock ==
  Encode("block", ipfs_blocks_block_protobuf_encode, ipfs_blocks_block_protobuf_decode)
EncodeMessage == Encode("message", message_protobuf_encode, message_protobuf_decode)
EncodeNode ==
  Encode("node", ipfs_hashtable_node_protobuf_encode, ipfs_hashtable_node_protobuf_decode)
\* A node that is written to a block file and read from it.
EncodeStored ==
  Encode("stored",
         LAMBDA n : LET b == ipfs_merkledag_convert_node_to_block(n, Hash)
                    IN  IF b = Failed THEN Failed ELSE ipfs_blocks_block_protobuf_encode(b),
         ipfs_blockstore_get_node)
EncodeCid == Encode("cid", ipfs_cid_hash_to_base58, ipfs_cid_decode_hash_from_base58)
EncodeUnixFS == Encode("unixfs", ipfs_unixfs_protobuf_encode, ipfs_unixfs_protobuf_decode)
EncodeJournal == Encode("journal", ipfs_journal_message_encode, ipfs_journal_message_decode)

\* A client calls the API: the request the server reads and what the client is told.
Request ==
  /\ input.kind = "url" /\ output = NotRun
  /\ LET msg == [head |-> "whole", method |-> input.method, path |-> "api",
                  url |-> ClientUrl(input.value), body |-> "none"]
     IN  \E o \in Outcomes(msg) :
           output' = [read |-> api_build_http_request(msg.url),
                      ok   |-> IF input.method = "GET" THEN ipfs_core_http_request_get(o.answers)
                               ELSE ipfs_core_http_request_post(o.answers)]
  /\ UNCHANGED input

Import ==
  /\ input.kind = "import" /\ output = NotRun
  /\ output' = ipfs_import_file(input.tree, TRUE, input.bad)
  /\ UNCHANGED input

Add ==
  /\ input.kind = "add" /\ output = NotRun
  /\ output' = ipfs_import_files(input.args, {})
  /\ UNCHANGED input

Export ==
  /\ input.kind = "export" /\ output = NotRun
  /\ output' = [get |-> ipfs_exporter_to_filestream(input.store, input.root, input.room, input.flushed),
                cat |-> ipfs_exporter_object_cat_to_file(input.store, input.root, input.room)]
  /\ UNCHANGED input

Resolve ==
  /\ input.kind = "resolve" /\ output = NotRun
  /\ output' = LET r == Imported(input.tree)
               IN  ipfs_resolver_get(input.path, Root :> r.hash, "me", Range(r.writes), input.remote)
  /\ UNCHANGED input

\* `ipfs name resolve'.
ResolveName ==
  /\ input.kind = "name" /\ output = NotRun
  /\ output' = ipfs_namesys_resolver_resolve(input.records, ipfs_name_resolve(input.path),
                                             input.recursive)
  /\ UNCHANGED input

Next == EncodeBlock \/ EncodeMessage \/ EncodeNode \/ EncodeStored \/ EncodeCid
          \/ EncodeUnixFS \/ EncodeJournal \/ ResolveName \/ Request \/ Import \/ Add \/ Export \/ Resolve

Spec == Init /\ [][Next]_vars

Ran(kind) == input.kind = kind /\ output # NotRun

-----------------------------------------------------------------------------
(* What is encoded comes back, and the buffer another function sized is never
   too small for it: the node and unixfs estimates leave fields of length 0
   out that the encoders write.  Three things do not come back: a message with
   nothing in it is decoded to NULL, a node with nothing in it is refused by its
   decoder, and so is a node with an empty link by its encoder, whose estimate
   has no room for the link's empty name.  (The wire has no room for the cid of a bitswap
   1.0 block, nor a URL for a second argument; only hashes of 32 bytes have a
   text form that is read.)  The server of the API reads the
   request that the client meant, and the client is told what came of it, also
   when the server has crashed over it. *)
RoundTrip ==
  /\ \A kind \in {"block", "unixfs", "journal"} : Ran(kind) => output = input.value
  /\ Ran("message") => output = IF input.value = EmptyMessage THEN Null ELSE input.value
  /\ \A kind \in {"node", "stored"} : Ran(kind) =>
       output = IF input.value = EmptyNode \/ EmptyLink \in Range(input.value.links)
                THEN Failed ELSE input.value
  /\ Ran("cid") /\ input.value.len = 32 => output.hash = input.value
  /\ Ran("url") => /\ output.read = input.value
                   /\ output.ok = ipfs_core_http_request_process(input.value).ok

(* A file whose nodes are all there comes back as it was, from `get' and from
   `cat'.  If nodes are missing, neither claims success for less than the file, and
   `get' does not when a write finds the stream full.  (`cat' looks at no write, `get'
   not at those that stdio holds back.)  Of nodes that hold no unixfs object, `cat'
   refuses the root; `get' takes what it can of one, and both go on when a linked
   node is one. *)
ExportsTheFile ==
  Ran("export") =>
    LET roomy == Len(input.bytes) <= input.room
        below == {input.root.links[i].hash : i \in DOMAIN input.root.links}
        file == \A n \in {input.root} \cup below : Readable(n)
    IN  /\ file /\ roomy /\ {input.root} \cup below \subseteq input.store
             => output.get.ok = 1 /\ output.cat.ok = 1
        /\ file /\ output.get.ok = 1 /\ (roomy \/ input.flushed) => output.get.out = input.bytes
        /\ file /\ output.cat.ok = 1 /\ roomy => output.cat.out = input.bytes
        /\ ~Readable(input.root) => output.cat.ok = 0

(* However the writes of a file fail, a node is only written after the nodes it
   links to, so that whoever finds a root finds the file; of a tree this holds
   when no write fails (import_file does not look at what a write returned). *)
LinksBeforeRoots ==
  Ran("add") \/ (Ran("import") /\ (input.tree.kind = "file" \/ input.bad = {})) =>
    \A i \in DOMAIN output.writes : \A j \in DOMAIN output.writes[i].links :
      \E k \in 1..(i - 1) : output.writes[k] = output.writes[i].links[j].hash

(* A hash, or a hash and one name below it, names the node that the directory
   has under that name, with whatever local prefix; a name that is not there
   names nothing.  (Deeper paths the resolver cuts to two names.)  A path to a node
   of another peer names what that peer answers, and nothing if the peer is not
   known, cannot be reached or has nothing; an answer that cannot be read or decoded
   is not noticed, and no claim is made of it. *)
ResolvesOneLevel ==
  Ran("resolve") =>
    LET r == Imported(input.tree)
        remote == ipfs_resolver_is_remote(input.path, "me", {Root})
        asked == remote /\ input.remote # <<>>
    IN  /\ ~remote => output = IF r.ok = 0 THEN NoNode ELSE Walk(r.hash, input.names)
        /\ remote /\ ~asked => output = NoNode
        /\ asked /\ input.remote[Root].read =>
             output = IF input.remote[Root].node = <<>> THEN NoNode ELSE Leaf(<<1>>)

(* A name leads to the end of its chain of records when the chain is no longer
   than 11 records (the counter is compared after it was used; the comment at
   resolver.c:76 says 10) and to nothing when it is longer, broken or goes round; a
   call that is not recursive leads to the next path of the chain.  `/ipfs/...' leads
   to nothing, since `ipfs name resolve' puts /ipns/ in front of it. *)
ResolvesTheName ==
  Ran("name") =>
    LET ends == {After(input.records, IpnsPath(1), n) : n \in 1..(MaxDepth + 1)}
    IN  output = IF input.path.prefix = "/ipfs/" THEN NoPath
                 ELSE IF ~input.recursive THEN After(input.records, IpnsPath(1), 1)
                 ELSE IF \E p \in ends : p # NoPath /\ ~is_ipns_string(p)
                      THEN CHOOSE p \in ends : p # NoPath /\ ~is_ipns_string(p)
                      ELSE NoPath
=============================================================================
