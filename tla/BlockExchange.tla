---------------------------- MODULE BlockExchange ----------------------------
(***************************************************************************)
(* What the Exchange interface (include/ipfs/exchange/exchange.h) promises *)
(* to the threads of a node that ask it for blocks: a call for a cid is    *)
(* answered once, with a block only if that block has reached the node.    *)
(***************************************************************************)
CONSTANTS Cids, GetCallers, AsyncCallers, NoCid

VARIABLES
  status,    \* status[t]: where the call of t is, or how it was answered
  want,      \* want[t]: the cid t asked for
  available  \* the cids whose blocks have reached the node

xvars == <<status, want, available>>

XCallers == GetCallers \cup AsyncCallers

Init ==
  /\ status = [t \in XCallers |-> "idle"]
  /\ want = [t \in XCallers |-> NoCid]
  /\ available \in SUBSET Cids

\* A thread asks for c and waits, ...
Ask(t, c) ==
  /\ status[t] = "idle"
  /\ status' = [status EXCEPT ![t] = "waiting"]
  /\ want' = [want EXCEPT ![t] = c]
  /\ UNCHANGED available

\* ... or is answered at once because the block is there.
AskAvailable(t, c) ==
  /\ status[t] = "idle"
  /\ c \in available
  /\ status' = [status EXCEPT
                  ![t] = IF t \in AsyncCallers THEN "queued" ELSE "found"]
  /\ want' = [want EXCEPT ![t] = c]
  /\ UNCHANGED available

Find(t) ==
  /\ t \in GetCallers
  /\ status[t] = "waiting"
  /\ want[t] \in available
  /\ status' = [status EXCEPT ![t] = "found"]
  /\ UNCHANGED <<want, available>>

GiveUp(t) ==
  /\ t \in GetCallers
  /\ status[t] = "waiting"
  /\ status' = [status EXCEPT ![t] = "timeout"]
  /\ UNCHANGED <<want, available>>

Enqueue(t) ==
  /\ t \in AsyncCallers
  /\ status[t] = "waiting"
  /\ status' = [status EXCEPT ![t] = "queued"]
  /\ UNCHANGED <<want, available>>

\* A block reaches the node.  Blocks are never deleted.
Store(c) ==
  /\ available' = available \cup {c}
  /\ UNCHANGED <<status, want>>

Next ==
  \/ \E t \in XCallers :
       \/ \E c \in Cids : Ask(t, c) \/ AskAvailable(t, c)
       \/ Find(t)
       \/ GiveUp(t)
       \/ Enqueue(t)
  \/ \E c \in Cids : Store(c)

Spec == Init /\ [][Next]_xvars
=============================================================================
