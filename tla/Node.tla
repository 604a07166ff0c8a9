-------------------------------- MODULE Node --------------------------------
(***************************************************************************)
(* The life of a daemon: the node is made (core/ipfs_node.c), its listener  *)
(* runs until somebody stops it (core/daemon.c, core/null.c), and the node  *)
(* is taken down in the order of ipfs_node_free, while the threads of the   *)
(* HTTP API (core/api.c) and of bitswap's engine (engine.c) still run.      *)
(*                                                                         *)
(* The critical sections of conns_lock are single steps, but for the        *)
(* listener's cleanup, in which it may be cancelled; what the threads read  *)
(* without the lock is a step of its own.  A thread that is cancelled goes  *)
(* on until it blocks, reads or closes; if it holds conns_lock, it takes    *)
(* the lock with it.  `crashed' is an access to memory that was freed, to a *)
(* NULL or unset pointer or past the table.                                 *)
(***************************************************************************)
EXTENDS Http, FiniteSets

CONSTANTS Clients,      \* connections to the API
          Messages,     \* [client, msg]: what each client may send
          max_conns,
          MaxFaults,    \* failed allocations and thread creations
          NoClient

ASSUME TableAssumption == max_conns \in Nat
ASSUME ClientsAssumption == NoClient \notin Clients

VARIABLES
  main,                \* where the daemon's main thread is
  node,                \* "none", "alive" or "freed"
  null_listener, null_shutting_down,
  engine, engine_down, \* bitswap's two threads and their flag
  socket,              \* whether the API's socket accepts
  conns, allocated,    \* the table of connections
  conns_count,
  conns_lock,          \* "free", "listener", or "dead": its holder was cancelled
  listener,            \* the API's thread: where it is, its connection, and the
                       \* entry its cleanup is at
  cancelled,           \* whether the listener was cancelled
  worker, slot,        \* the thread of each connection and its index
  worker_cancelled,
  answers, sent,       \* what each client was answered, and what it had sent
  closed,              \* the connections that were closed
  crashed, faults

table  == <<conns, allocated, conns_count, conns_lock>>
talk   == <<answers, sent>>
cancel == <<cancelled, worker_cancelled>>
api    == <<socket, table, listener, cancel, worker, slot, talk, closed>>

rest == <<null_listener, null_shutting_down, engine, engine_down>>

vars == <<main, node, rest, api, crashed, faults>>

EngineThreads == {"wantlist_processor", "peer_request_processor"}

Slots == 1..max_conns

Silent == [head |-> "silent", method |-> "GET", path |-> "api",
           url |-> [path |-> <<"">>, query |-> <<>>], body |-> "none"]

Init ==
  /\ main = "new" /\ node = "none"
  /\ null_listener = "none" /\ null_shutting_down = FALSE
  /\ engine = [t \in EngineThreads |-> "none"] /\ engine_down = FALSE
  /\ socket = FALSE
  /\ conns = [i \in Slots |-> NoClient] /\ allocated = FALSE /\ conns_count = 0
  /\ conns_lock = "free"
  /\ listener = [pc |-> "none", s |-> NoClient, i |-> 1] /\ cancelled = FALSE
  /\ worker = [k \in Clients |-> "none"] /\ slot = [k \in Clients |-> 0]
  /\ worker_cancelled = {}
  /\ answers = [k \in Clients |-> <<>>] /\ sent = [k \in Clients |-> Silent]
  /\ closed = {}
  /\ crashed = FALSE /\ faults = 0

Crash(p) == crashed' = (crashed \/ p)

-----------------------------------------------------------------------------
(* Making the node. *)

\* ipfs_node_online_new: the engine's threads run before the API does.
ipfs_bitswap_engine_start ==
  /\ main = "new"
  /\ engine' = [t \in EngineThreads |-> "running"]
  /\ node' = "alive" /\ main' = "api_start"
  /\ UNCHANGED <<null_listener, null_shutting_down, engine_down, api, crashed, faults>>

api_start ==
  /\ main = "api_start"
  /\ socket' = TRUE /\ allocated' = TRUE
  /\ listener' = [listener EXCEPT !.pc = "accept"]
  /\ main' = "listen"
  /\ UNCHANGED <<node, rest, conns, conns_count, conns_lock, cancel, worker, slot, talk, closed,
                 crashed, faults>>

\* ipfs_daemon_start: the swarm's listener gets a thread, ...
ipfs_daemon_start ==
  /\ main = "listen"
  /\ null_listener' = "starting" /\ main' = "bootstrap"
  /\ UNCHANGED <<node, null_shutting_down, engine, engine_down, api, crashed, faults>>

\* ... the bootstrap peers are dialled a second time (module Routing), and main
\* waits for the thread.
Bootstrap ==
  /\ main = "bootstrap"
  /\ main' = "join"
  /\ UNCHANGED <<node, rest, api, crashed, faults>>

\* The thread begins by forgetting a stop that came before it.
ipfs_null_listen ==
  /\ null_listener = "starting"
  /\ null_listener' = "listening" /\ null_shutting_down' = FALSE
  /\ UNCHANGED <<main, node, engine, engine_down, api, crashed, faults>>

\* After each select the flag is looked at.
NullListenEnds ==
  /\ null_listener = "listening" /\ null_shutting_down
  /\ null_listener' = "done"
  /\ UNCHANGED <<main, node, null_shutting_down, engine, engine_down, api, crashed, faults>>

ipfs_null_shutdown ==
  /\ ~null_shutting_down /\ null_listener \in {"starting", "listening"}
  /\ null_shutting_down' = TRUE
  /\ UNCHANGED <<main, node, null_listener, engine, engine_down, api, crashed, faults>>

-----------------------------------------------------------------------------
(* The API: the listener. *)

ListenerAt(pc) == listener.pc = pc

ListenerGoes(pc) == listener' = [listener EXCEPT !.pc = pc]

\* socket_accept4: a new connection, or none because the socket was shut down.
Accept(k) ==
  /\ ListenerAt("accept") /\ socket /\ ~cancelled /\ worker[k] = "none"
  /\ listener' = [listener EXCEPT !.pc = "check", !.s = k]
  /\ worker' = [worker EXCEPT ![k] = "accepted"]
  /\ UNCHANGED <<main, node, rest, socket, table, cancel, slot, talk, closed, crashed, faults>>

AcceptFails ==
  /\ ListenerAt("accept") /\ ~socket
  /\ ListenerGoes("cleanup")
  /\ UNCHANGED <<main, node, rest, socket, table, cancel, worker, slot, talk, closed, crashed,
                 faults>>

ListenerCancelled ==
  /\ ListenerAt("accept") /\ cancelled
  /\ ListenerGoes("gone")
  /\ UNCHANGED <<main, node, rest, socket, table, cancel, worker, slot, talk, closed, crashed,
                 faults>>

\* close(s) of a connection that is not served, in which a cancelled listener ends.
Refuse(k) ==
  /\ IF cancelled
     THEN worker' = [worker EXCEPT ![k] = "left"] /\ ListenerGoes("gone") /\ UNCHANGED closed
     ELSE worker' = [worker EXCEPT ![k] = "gone"] /\ ListenerGoes("accept")
          /\ closed' = closed \cup {k}

\* The number of connections, read without the lock; one too many is closed.
CheckLimit ==
  /\ ListenerAt("check")
  /\ IF conns_count >= max_conns THEN Refuse(listener.s)
     ELSE ListenerGoes("take") /\ UNCHANGED <<closed, worker>>
  /\ Crash(node = "freed")
  /\ UNCHANGED <<main, node, rest, socket, table, cancel, slot, talk, faults>>

\* The first free entry, or the one behind the table.
FreeSlot == IF \E i \in Slots : conns[i] = NoClient
            THEN CHOOSE i \in Slots : conns[i] = NoClient /\ \A j \in 1..(i - 1) : conns[j] # NoClient
            ELSE max_conns + 1

\* Under the lock: an entry, its parameters and its thread.
Take(k, i) ==
  \/ /\ conns' = [conns EXCEPT ![i] = k]
     /\ conns_count' = conns_count + 1
     /\ worker' = [worker EXCEPT ![k] = "start"] /\ slot' = [slot EXCEPT ![k] = i]
     /\ ListenerGoes("accept")
     /\ UNCHANGED <<conns_lock, closed, faults>>
  \/ \* no memory for the entry, or for the parameters: the entry then stays
     /\ faults < MaxFaults /\ faults' = faults + 1
     /\ \/ UNCHANGED conns \/ conns' = [conns EXCEPT ![i] = k]
     /\ Refuse(k)
     /\ UNCHANGED <<conns_count, conns_lock, slot>>
  \/ \* no thread: one connection is subtracted that was never added, and the
     \* connection is closed before the lock is released
     /\ faults < MaxFaults /\ faults' = faults + 1
     /\ conns_count' = conns_count - 1
     /\ Refuse(k)
     /\ conns_lock' = IF cancelled THEN "dead" ELSE "free"
     /\ UNCHANGED <<conns, slot>>

TakeSlot ==
  /\ ListenerAt("take")
  /\ IF node = "freed" \/ (conns_lock = "free" /\ (~allocated \/ FreeSlot > max_conns))
     THEN Crash(TRUE) /\ UNCHANGED <<conns, conns_count, conns_lock, listener, worker, slot, closed,
                                     faults>>
     ELSE conns_lock = "free" /\ Take(listener.s, FreeSlot) /\ Crash(FALSE)
  /\ UNCHANGED <<main, node, rest, socket, allocated, cancel, talk>>

\* Under the lock, from the listener or from api_stop: every entry, also the empty
\* ones, is looked into when there is a connection; then the table is freed.
Busy == conns_count > 0 /\ allocated

FreeTable ==
  /\ conns' = IF Busy THEN [i \in Slots |-> NoClient] ELSE conns
  /\ conns_count' = IF Busy THEN 0 ELSE conns_count
  /\ allocated' = FALSE

api_connections_cleanup ==
  LET held == IF Busy THEN {conns[i] : i \in Slots} \ {NoClient} ELSE {}
  IN  /\ Crash(node = "freed" \/ (Busy /\ \E i \in Slots : conns[i] = NoClient))
      /\ worker_cancelled' = worker_cancelled \cup held
      /\ closed' = closed \cup held
      /\ FreeTable

\* The listener's own cleanup: the lock, ...
ListenerCleanup ==
  /\ ListenerAt("cleanup")
  /\ conns_lock = "free" \/ node = "freed"
  /\ Crash(node = "freed")
  /\ listener' = [listener EXCEPT !.pc = IF Busy THEN "clean" ELSE "free_table", !.i = 1]
  /\ conns_lock' = "listener"
  /\ UNCHANGED <<main, node, rest, socket, conns, allocated, conns_count, cancel, worker, slot, talk,
                 closed, faults>>

\* ... one entry after the other, in whose close it may end, ...
CleanEntry ==
  /\ ListenerAt("clean") /\ listener.i \in Slots
  /\ LET k == conns[listener.i]
     IN  IF node = "freed" \/ ~allocated \/ k = NoClient
         THEN Crash(TRUE) /\ UNCHANGED <<conns, conns_lock, listener, worker_cancelled, closed>>
         ELSE /\ Crash(FALSE)
              /\ worker_cancelled' = worker_cancelled \cup {k}
              /\ IF cancelled
                 THEN ListenerGoes("gone") /\ conns_lock' = "dead" /\ UNCHANGED <<conns, closed>>
                 ELSE /\ closed' = closed \cup {k}
                      /\ conns' = [conns EXCEPT ![listener.i] = NoClient]
                      /\ listener' = [listener EXCEPT !.i = @ + 1]
                      /\ UNCHANGED conns_lock
  /\ UNCHANGED <<main, node, rest, socket, allocated, conns_count, cancelled, worker, slot, talk,
                 faults>>

\* ... the table and the lock.
CleanTable ==
  /\ ListenerAt("free_table") \/ (ListenerAt("clean") /\ listener.i \notin Slots)
  /\ FreeTable
  /\ conns_lock' = "free"
  /\ ListenerGoes("gone")
  /\ Crash(node = "freed")
  /\ UNCHANGED <<main, node, rest, socket, cancel, worker, slot, talk, closed, faults>>

-----------------------------------------------------------------------------
(* The API: the thread of a connection. *)

WorkerGoes(k, pc) == worker' = [worker EXCEPT ![k] = pc]

\* conns[index] is read without the lock.
Lost(k) == node = "freed" \/ ~allocated \/ conns[slot[k]] = NoClient

WorkerStart(k) ==
  /\ worker[k] = "start"
  /\ Crash(Lost(k))
  /\ WorkerGoes(k, "serve")
  /\ UNCHANGED <<main, node, rest, socket, table, listener, cancel, slot, talk, closed, faults>>

\* The request is read and answered.
Serve(k, msg) ==
  /\ \E o \in Outcomes(msg) :
       /\ answers' = [answers EXCEPT ![k] = o.answers]
       /\ WorkerGoes(k, o.end)
       /\ Crash(o.end = "crash")
  /\ sent' = [sent EXCEPT ![k] = msg]
  /\ UNCHANGED <<main, node, rest, socket, table, listener, cancel, slot, closed, faults>>

api_connection_thread(k) ==
  /\ worker[k] = "serve"
  /\ \E m \in Messages : m.client = k /\ Serve(k, m.msg)

\* A client goes on with its chunk, or its connection fails.
ClientGoesOn(k) ==
  /\ worker[k] = "stalled"
  /\ \E body \in {"chunked", "chunked reset"} : Serve(k, [sent[k] EXCEPT !.body = body])

\* The thread is in a read or in a select.
WorkerCancelled(k) ==
  /\ worker[k] \in {"serve", "stalled"} /\ k \in worker_cancelled
  /\ WorkerGoes(k, "gone")
  /\ UNCHANGED <<main, node, rest, socket, table, listener, cancel, slot, talk, closed, crashed,
                 faults>>

\* At quit the client's address is read, without the lock.
WorkerQuit(k) ==
  /\ worker[k] = "quit"
  /\ Crash(Lost(k))
  /\ WorkerGoes(k, "close")
  /\ UNCHANGED <<main, node, rest, socket, table, listener, cancel, slot, talk, closed, faults>>

\* Mutant: the entry is not cleared.
EntryKept(k) == conns

EntryCleared(k) == [conns EXCEPT ![slot[k]] = NoClient]

\* Under the lock; close is where a cancelled thread ends, and the lock with it.
WorkerClose(k) ==
  /\ worker[k] = "close"
  /\ conns_lock = "free" \/ node = "freed"
  /\ IF k \in worker_cancelled
     THEN /\ Crash(node = "freed")
          /\ conns_lock' = "dead"
          /\ UNCHANGED <<conns, conns_count, closed>>
     ELSE /\ Crash(Lost(k))
          /\ conns' = EntryCleared(k) /\ conns_count' = conns_count - 1
          /\ closed' = closed \cup {k}
          /\ UNCHANGED conns_lock
  /\ WorkerGoes(k, "gone")
  /\ UNCHANGED <<main, node, rest, socket, allocated, listener, cancel, slot, talk, faults>>

-----------------------------------------------------------------------------
(* Taking the node down. *)

\* The daemon's thread is joined.
JoinListener ==
  /\ main = "join" /\ null_listener = "done"
  /\ main' = "api_stop"
  /\ UNCHANGED <<node, rest, api, crashed, faults>>

ShutdownSocket ==
  /\ main = "api_stop"
  /\ socket' = FALSE /\ main' = "api_cancel"
  /\ UNCHANGED <<node, rest, table, listener, cancel, worker, slot, talk, closed, crashed, faults>>

CancelListener ==
  /\ main = "api_cancel"
  /\ cancelled' = TRUE /\ main' = "api_cleanup"
  /\ UNCHANGED <<node, rest, socket, table, listener, worker, slot, worker_cancelled, talk, closed,
                 crashed, faults>>

api_stop ==
  /\ main = "api_cleanup" /\ conns_lock = "free"
  /\ api_connections_cleanup
  /\ main' = "close_exchange"
  /\ UNCHANGED <<node, rest, socket, conns_lock, listener, cancelled, worker, slot, talk, faults>>

\* Mutant: the engine's threads are not told.
EngineNotTold == engine_down

EngineTold == TRUE

ipfs_bitswap_engine_stop ==
  /\ main = "close_exchange"
  /\ engine_down' = EngineTold /\ main' = "join_engine"
  /\ UNCHANGED <<node, null_listener, null_shutting_down, engine, api, crashed, faults>>

\* Both processors look at the flag in every round.
EngineThreadEnds(t) ==
  /\ engine[t] = "running" /\ engine_down
  /\ engine' = [engine EXCEPT ![t] = "gone"]
  /\ UNCHANGED <<main, node, null_listener, null_shutting_down, engine_down, api, crashed, faults>>

JoinEngine ==
  /\ main = "join_engine" /\ \A t \in EngineThreads : engine[t] = "gone"
  /\ main' = "free"
  /\ UNCHANGED <<node, rest, api, crashed, faults>>

\* The rest of ipfs_node_free; nobody has waited for the API's threads.
ipfs_node_free ==
  /\ main = "free"
  /\ node' = "freed" /\ main' = "exited"
  /\ UNCHANGED <<rest, api, crashed, faults>>

-----------------------------------------------------------------------------

Main == \/ ipfs_bitswap_engine_start \/ api_start \/ ipfs_daemon_start \/ Bootstrap \/ JoinListener
        \/ ShutdownSocket \/ CancelListener \/ api_stop \/ ipfs_bitswap_engine_stop
        \/ JoinEngine \/ ipfs_node_free

Listener == \/ CheckLimit \/ TakeSlot \/ AcceptFails \/ ListenerCancelled
            \/ ListenerCleanup \/ CleanEntry \/ CleanTable

Worker(k) == \/ WorkerStart(k) \/ api_connection_thread(k) \/ WorkerCancelled(k)
             \/ WorkerQuit(k) \/ WorkerClose(k)

NullListener == ipfs_null_listen \/ NullListenEnds

Next ==
  /\ ~crashed
  /\ \/ Main \/ Listener \/ NullListener \/ ipfs_null_shutdown
     \/ \E k \in Clients : Accept(k) \/ Worker(k) \/ ClientGoesOn(k)
     \/ \E t \in EngineThreads : EngineThreadEnds(t)

Spec == Init /\ [][Next]_vars

\* Every thread goes on: selects of the API time out, the processors and the
\* swarm's listener sleep for seconds at most.  Nobody has to connect, to stop the
\* daemon or to finish a chunk.
FairSpec ==
  /\ Spec
  /\ WF_vars(~crashed /\ Main) /\ WF_vars(~crashed /\ Listener)
  /\ WF_vars(~crashed /\ NullListener)
  /\ \A k \in Clients : WF_vars(~crashed /\ Worker(k))
  /\ \A t \in EngineThreads : WF_vars(~crashed /\ EngineThreadEnds(t))

-----------------------------------------------------------------------------

(* A message that the API cannot serve: the connection fails while its body is
   read, or it has a parameter without a value, no sub command, or, for the dht,
   an argument that does not decode. *)
Unservable(msg) ==
  LET request == api_build_http_request(msg.url)
  IN  \/ msg.body \in {"reset", "chunked reset"}
      \/ CopiesNull(request)
      \/ request.sub_command = NoText
      \/ request.command = "dht" /\ FreesUnset(request)

Stopping == {"api_cancel", "api_cleanup", "close_exchange", "join_engine", "free", "exited"}

(* As long as nobody stops the daemon, and no allocation fails, the threads of
   the API never touch what is not theirs: the number of connections that the
   listener reads without the lock keeps it inside the table, a worker finds its
   own entry without the lock, and a command that succeeds has a response.  Only
   in the handler of a message that it cannot serve may the daemon crash. *)
RunningIsSafe ==
  crashed /\ faults = 0 =>
    main \in Stopping \/ \E k \in Clients : worker[k] = "crash" /\ Unservable(sent[k])

(* A connection that was accepted is closed, over the limit, after a failure or
   when the API stops, too; and when it was a whole request for the API and its
   thread came to its end, it had one answer.  Left open are the connections of a
   client that leaves a chunk unfinished or whose form has another boundary than
   it says, the one that a cancelled listener was about to refuse, and those that
   wait for a lock whose holder was cancelled. *)
ConnectionsEnd ==
  \A k \in Clients :
    worker[k] # "none" ~>
      \/ crashed \/ conns_lock = "dead"
      \/ worker[k] \in {"stalled", "looping", "left"}
      \/ /\ k \in closed
         /\ (slot[k] # 0 /\ k \notin worker_cancelled /\ sent[k].head = "whole"
               /\ sent[k].method \in {"GET", "POST"} /\ sent[k].path = "api")
              => Len(answers[k]) = 1

(* A stop that the listener sees takes the whole node down: everyone who is
   waited for comes to an end, unless a thread of the API was cancelled with the
   lock that api_stop then waits for.  (A stop that comes before the listener's
   thread runs is forgotten.) *)
DaemonStops ==
  null_listener = "listening" /\ null_shutting_down ~>
    main = "exited" \/ crashed \/ (main = "api_cleanup" /\ conns_lock = "dead")

\* api_stop is never kept waiting for conns_lock by a thread that is gone.
StopIsNotBlocked == ~(main = "api_cleanup" /\ conns_lock = "dead")
=============================================================================
