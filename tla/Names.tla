-------------------------------- MODULE Names --------------------------------
(***************************************************************************)
(* Names: the text form of a cid (cid/cid.c) and the resolution of ipns     *)
(* paths from the records that publish stored (namesys/resolver.c,          *)
(* namesys/name.c).                                                         *)
(*                                                                         *)
(* A path has a prefix ("/ipns/", "/ipfs/" or something else), a text in    *)
(* base 58 and says whether more follows the text.  The form of a text is   *)
(* "sha256" (46 characters that begin with Qm), "damaged" (the same with a  *)
(* character base 58 does not have) or "other".                             *)
(***************************************************************************)
EXTENDS Naturals

CONSTANT NoPath        \* the functions return 0

CID_DAG_PROTOBUF == 112

ipfs_cid_new(version, hash, codec) == [version |-> version, codec |-> codec, hash |-> hash]

\* Two bytes say which hash it is; only the multihash of 32 bytes has the form.
ipfs_cid_hash_to_base58(hash) ==
  [form |-> IF hash.len = 32 THEN "sha256" ELSE "other", hash |-> hash]

\* Other forms of a cid are not read yet ("TODO: finish this").
ipfs_cid_decode_hash_from_base58(text) ==
  IF text.form = "sha256" THEN ipfs_cid_new(0, text.hash, CID_DAG_PROTOBUF) ELSE NoPath

\* The slash that is cut off is the first one of the prefix: what follows the
\* text stays, and makes it too long.
ipfs_cid_decode_hash_from_ipfs_ipns_string(path) ==
  IF path.prefix \in {"/ipfs/", "/ipns/"}
  THEN ipfs_cid_decode_hash_from_base58(
         [path.text EXCEPT !.form = IF path.more THEN "other" ELSE @])
  ELSE NoPath

is_ipns_string(path) == path.prefix = "/ipns/"

\* records[h] is what the datastore has under the hash h.
ipfs_namesys_resolver_resolve_once(records, path) ==
  LET cid == ipfs_cid_decode_hash_from_ipfs_ipns_string(path)
  IN  IF cid = NoPath \/ cid.hash \notin DOMAIN records THEN NoPath ELSE records[cid.hash]

MaxDepth == 10

\* Mutant: one round fewer.
TooDeepEarly(counter) == counter >= MaxDepth

\* "if we go more than 10 deep, bail".
TooDeep(counter) == counter > MaxDepth

\* One round of the loop, and those after it.
RECURSIVE Rounds(_, _, _, _)
Rounds(records, path, recursive, counter) ==
  LET result == ipfs_namesys_resolver_resolve_once(records, path)
  IN  IF TooDeep(counter) \/ result = NoPath THEN NoPath
      ELSE IF recursive /\ is_ipns_string(result)
           THEN Rounds(records, result, recursive, counter + 1)
           ELSE result

ipfs_namesys_resolver_resolve(records, path, recursive) == Rounds(records, path, recursive, 0)

\* The client puts the prefix in front of a name that does not have it.
ipfs_name_resolve(path) ==
  IF path.prefix = "/ipns/" THEN path
  ELSE IF path.prefix = "" THEN [path EXCEPT !.prefix = "/ipns/"]
  ELSE [prefix |-> "/ipns/", text |-> [path.text EXCEPT !.form = "other"], more |-> path.more]
=============================================================================
