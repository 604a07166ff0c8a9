----------------------------- MODULE MCWantlist -----------------------------
(* Instances of Wantlist for TLC. *)
EXTENDS Wantlist, TLC

CONSTANT Lost  \* cids whose block nobody has: no file, and none comes in

Symmetry == Permutations(Cids) \cup Permutations(GetCallers)
            \cup Permutations(Receivers)

NoneComes == \A r \in Receivers : cid[r] \notin Lost

\* The fair specification for nodes where the blocks of Lost never turn up:
\* the entries that wait for them are asked for or given up.
LostSpec ==
  /\ Init /\ \A c \in Lost : file[c] = Absent
  /\ [][Next /\ NoneComes']_vars
  /\ Fairness
=============================================================================
