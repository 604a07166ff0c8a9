-------------------------------- MODULE Codec --------------------------------
(***************************************************************************)
(* The protobuf encodings of what the node stores and sends: cids and       *)
(* blocks (cid/cid.c, blocks/block.c), bitswap messages                     *)
(* (exchange/bitswap/message.c), merkledag nodes (merkledag/node.c), unixfs *)
(* objects (unixfs/unixfs.c), journal messages (journal/journal_message.c). *)
(*                                                                         *)
(* Bytes are abstract: a string of bytes is a record of an identity and a   *)
(* length.  Every encoder writes into a buffer whose length another function *)
(* estimated before; an encoding is the list of fields with the number of   *)
(* bytes they take, or Failed when they do not fit.                         *)
(***************************************************************************)
EXTENDS Integers, Sequences, SequencesExt

CONSTANT Failed

-----------------------------------------------------------------------------
(* The protobuf library. *)

VarintLen(n) == CHOOSE k \in 1..4 : n < 128^k /\ (k > 1 => n >= 128^(k - 1))

\* protobuf_encode_varint and protobuf_encode_length_delimited, with a tag of
\* one byte.
VarintField(no, v) == [no |-> no, value |-> v, size |-> 1 + VarintLen(v)]

BytesField(no, bytes) ==
  [no |-> no, value |-> bytes, size |-> 1 + VarintLen(bytes.len) + bytes.len]

Total(fields) == FoldLeft(LAMBDA n, f : n + f.size, 0, fields)

\* Each field has to fit in what is left of the buffer.
Write(fields, buffer_length) ==
  IF Total(fields) <= buffer_length
  THEN [fields |-> fields, len |-> Total(fields)]
  ELSE Failed

\* An encoded message inside another one.
Nested(no, encoded) == BytesField(no, encoded)

\* The decoders' loops: what the fields with a number hold, in order, and the
\* last of them.
All(encoded, no) ==
  LET same == SelectSeq(encoded.fields, LAMBDA f : f.no = no)
  IN  [i \in 1..Len(same) |-> same[i].value]

Field(encoded, no, default) ==
  IF All(encoded, no) = <<>> THEN default ELSE Last(All(encoded, no))

Each(seq, Op(_)) == [i \in 1..Len(seq) |-> Op(seq[i])]

Sizes(seq, Op(_)) == FoldLeft(LAMBDA n, x : n + Op(x), 0, seq)

Null == [id |-> "NULL", len |-> 0]

\* What is in memory that malloc gave and nobody set.
Uninitialised == [id |-> "uninitialised", len |-> 0]

\* "short cut for nulls": most decoders turn an empty buffer into NULL.
Decoded(e, object) == IF e.len = 0 THEN Null ELSE object

-----------------------------------------------------------------------------
(* Cids and blocks. *)

ipfs_cid_protobuf_encode_size(c) == 11 + 12 + c.hash.len + 11

ipfs_cid_protobuf_encode(c) ==
  Write(<<VarintField(1, c.version), VarintField(2, c.codec), BytesField(3, c.hash)>>,
        ipfs_cid_protobuf_encode_size(c))

ipfs_cid_protobuf_decode(e) ==
  Decoded(e, [version |-> Field(e, 1, 0), codec |-> Field(e, 2, 0),
              hash |-> Field(e, 3, Uninitialised)])

ipfs_blocks_block_protobuf_encode_size(b) ==
  22 + ipfs_cid_protobuf_encode_size(b.cid) + b.data.len

ipfs_blocks_block_protobuf_encode(b) ==
  Write(<<BytesField(1, b.data), Nested(2, ipfs_cid_protobuf_encode(b.cid))>>,
        ipfs_blocks_block_protobuf_encode_size(b))

ipfs_blocks_block_protobuf_decode(e) ==
  [data |-> Field(e, 1, Null), cid |-> ipfs_cid_protobuf_decode(Field(e, 2, Null))]

-----------------------------------------------------------------------------
(* Bitswap messages. *)

wantlist_entry_protobuf_encode_size(w) == 33 + w.block.len

wantlist_entry_protobuf_encode(w) ==
  Write(<<BytesField(1, w.block), VarintField(2, w.cancel), VarintField(3, w.priority)>>,
        wantlist_entry_protobuf_encode_size(w))

wantlist_entry_protobuf_decode(e) ==
  Decoded(e, [block    |-> Field(e, 1, Uninitialised),
              cancel   |-> Field(e, 2, Uninitialised),
              priority |-> Field(e, 3, Uninitialised)])

wantlist_protobuf_encode_size(l) ==
  Sizes(l.entries, wantlist_entry_protobuf_encode_size) + 11 + 12 + 11

wantlist_protobuf_encode(l) ==
  Write(Each(l.entries, LAMBDA w : Nested(1, wantlist_entry_protobuf_encode(w)))
          \o <<VarintField(2, l.full)>>,
        wantlist_protobuf_encode_size(l))

wantlist_protobuf_decode(e) ==
  Decoded(e, [entries |-> Each(All(e, 1), wantlist_entry_protobuf_decode),
              full    |-> Field(e, 2, 1)])

message_protobuf_encode_size(m) ==
  Sizes(m.blocks, LAMBDA b : 11 + b.data.len)
    + Sizes(m.payload, LAMBDA b : 11 + ipfs_blocks_block_protobuf_encode_size(b))
    + Sizes(m.wantlist, wantlist_protobuf_encode_size)
    + 11 + 12 + 11

\* wantlist is a list of at most one.
message_protobuf_encode(m) ==
  Write(Each(m.blocks, LAMBDA b : BytesField(1, b.data))
          \o Each(m.payload, LAMBDA b : Nested(2, ipfs_blocks_block_protobuf_encode(b)))
          \o Each(m.wantlist, LAMBDA l : Nested(3, wantlist_protobuf_encode(l))),
        message_protobuf_encode_size(m))

\* A block of bitswap 1.0 is its bytes: the cid is gone.
message_protobuf_decode(e) ==
  Decoded(e, [blocks   |-> Each(All(e, 1), LAMBDA d : [data |-> d]),
              payload  |-> Each(All(e, 2), ipfs_blocks_block_protobuf_decode),
              wantlist |-> Each(All(e, 3), wantlist_protobuf_decode)])

-----------------------------------------------------------------------------
(* Merkledag nodes and unixfs. *)

ipfs_node_link_protobuf_encode_size(l) ==
  (IF l.hash.len > 0 THEN 11 + l.hash.len ELSE 0)
    + (IF l.name.len > 0 THEN 11 + l.name.len ELSE 0)
    + (IF l.t_size > 0 THEN 22 ELSE 0)

\* mh_new: the kind of hash and its length before the hash.
mh_new(hash) == [id |-> <<"sha2-256", hash>>, len |-> hash.len + 2]

\* "name is optional, but they encode it anyways".
ipfs_node_link_protobuf_encode(l) ==
  Write((IF l.hash.len > 0 THEN <<BytesField(1, mh_new(l.hash))>> ELSE <<>>)
          \o <<BytesField(2, l.name)>>
          \o (IF l.t_size > 0 THEN <<VarintField(3, l.t_size)>> ELSE <<>>),
        ipfs_node_link_protobuf_encode_size(l))

\* Mutant: the two bytes in front of the hash are kept.
LinkHashUncut(e) ==
  [hash |-> Field(e, 1, Null), name |-> Field(e, 2, Null), t_size |-> Field(e, 3, 0)]

\* Two bytes are cut from the front of the hash; a hash without them is refused.
ipfs_node_link_protobuf_decode(e) ==
  IF \E i \in DOMAIN All(e, 1) : All(e, 1)[i].len < 2 THEN Failed
  ELSE [hash   |-> IF All(e, 1) = <<>> THEN Null ELSE Field(e, 1, Null).id[2],
        name   |-> Field(e, 2, Null),
        t_size |-> Field(e, 3, 0)]

ipfs_hashtable_node_protobuf_encode_size(n) ==
  Sizes(n.links, LAMBDA l : 11 + ipfs_node_link_protobuf_encode_size(l))
    + (IF n.data.len > 0 THEN 11 + n.data.len ELSE 0)

\* The links come before the data.
ipfs_hashtable_node_protobuf_encode(n) ==
  IF \E i \in DOMAIN n.links : ipfs_node_link_protobuf_encode(n.links[i]) = Failed THEN Failed
  ELSE
  Write(Each(n.links, LAMBDA l : Nested(2, ipfs_node_link_protobuf_encode(l)))
          \o (IF n.data.len > 0 THEN <<BytesField(1, n.data)>> ELSE <<>>),
        ipfs_hashtable_node_protobuf_encode_size(n))

\* An empty buffer is a failure here, and links that cannot be decoded are left
\* out.
ipfs_hashtable_node_protobuf_decode(e) ==
  IF e.len = 0 THEN Failed
  ELSE [links |-> SelectSeq(Each(All(e, 2), ipfs_node_link_protobuf_decode),
                            LAMBDA l : l # Failed),
        data  |-> Field(e, 1, Null)]

\* What is stored of a node: a block whose data is the encoded node.
ipfs_merkledag_convert_node_to_block(n, hash) ==
  LET data == ipfs_hashtable_node_protobuf_encode(n)
  IN  IF data = Failed THEN Failed
      ELSE [data |-> data, cid |-> [version |-> 1, codec |-> 112, hash |-> hash]]

\* The file holds the encoded block.
ipfs_blockstore_get_node(file) ==
  ipfs_hashtable_node_protobuf_decode(ipfs_blocks_block_protobuf_decode(file).data)

ipfs_unixfs_protobuf_encode_size(u) == u.bytes.len + 11 + 2 + 11 + 11 * Len(u.blocksizes)

ipfs_unixfs_protobuf_encode(u) ==
  Write(<<VarintField(1, u.data_type)>>
          \o (IF u.bytes.len > 0 THEN <<BytesField(2, u.bytes)>> ELSE <<>>)
          \o (IF u.file_size > 0 THEN <<VarintField(3, u.file_size)>> ELSE <<>>)
          \o Each(u.blocksizes, LAMBDA s : VarintField(4, s)),
        ipfs_unixfs_protobuf_encode_size(u))

ipfs_unixfs_protobuf_decode(e) ==
  IF e.len = 0 THEN Failed
  ELSE [data_type |-> Field(e, 1, 0), bytes |-> Field(e, 2, Null),
        file_size |-> Field(e, 3, 0), blocksizes |-> All(e, 4)]

-----------------------------------------------------------------------------
(* Journal messages. *)

ipfs_journal_entry_encode_size(j) == j.hash.len + 11 + 1 + 11

ipfs_journal_entry_encode(j) ==
  Write(<<VarintField(1, j.timestamp), BytesField(2, j.hash), VarintField(3, j.pin)>>,
        ipfs_journal_entry_encode_size(j))

ipfs_journal_entry_decode(e) ==
  [timestamp |-> Field(e, 1, 0), hash |-> Field(e, 2, Null),
   pin |-> IF Field(e, 3, 0) = 1 THEN 1 ELSE 0]

ipfs_journal_message_encode_size(m) ==
  33 + Sizes(m.journal_entries, ipfs_journal_entry_encode_size)

ipfs_journal_message_encode(m) ==
  Write(<<VarintField(1, m.current_epoch), VarintField(2, m.start_epoch),
          VarintField(3, m.end_epoch)>>
          \o Each(m.journal_entries, LAMBDA j : Nested(4, ipfs_journal_entry_encode(j))),
        ipfs_journal_message_encode_size(m))

ipfs_journal_message_decode(e) ==
  [current_epoch |-> Field(e, 1, 0), start_epoch |-> Field(e, 2, 0),
   end_epoch |-> Field(e, 3, 0),
   journal_entries |-> Each(All(e, 4), ipfs_journal_entry_decode)]
=============================================================================
