----------------------------- MODULE NodeProofs -----------------------------
(***************************************************************************)
(* Proofs about the threads of a running daemon, for a table of any size    *)
(* and any number of clients.                                               *)
(***************************************************************************)
EXTENDS Node, FiniteSetTheorems, SequenceTheorems, Induction

-----------------------------------------------------------------------------
(* The answers. *)

(* What a command returns is what it was made of. *)
LEMMA ResultFields ==
  ASSUME NEW ok, NEW response
  PROVE  /\ Result(ok, response).ok = ok
         /\ Result(ok, response).response = response
         /\ Result(ok, response).crash = "no"
  BY DEF Result

\* A command crashes only for want of a sub command or, in the dht, over an
\* argument; and if it succeeds, it made a response.
WellEnded(request, r) ==
  /\ r.crash = "NULL" => request.sub_command = NoText
  /\ r.crash = "wild" => request.command = "dht" /\ FreesUnset(request)
  /\ r.ok => r.response

(* Nothing goes wrong in a result that cannot be NULL and has its response. *)
LEMMA ResultIsWellEnded ==
  ASSUME NEW request, NEW ok, NEW response, ok => response
  PROVE  WellEnded(request, Result(ok, response))
  BY ResultFields DEF WellEnded

(* The strcmp of a NULL is one of a request without a sub command. *)
LEMMA NullIsWellEnded ==
  ASSUME NEW request, request.sub_command = NoText
  PROVE  WellEnded(request, ComparesNull)
  BY DEF WellEnded, ComparesNull

(* Nor in one of the dht's that has its response. *)
LEMMA EachIsWellEnded ==
  ASSUME NEW request, request.command = "dht", NEW ok, NEW response, response
  PROVE  WellEnded(request, ResultOfEach(ok, response, request))
<1> DEFINE crash == IF FreesUnset(request) THEN "wild" ELSE "no"
           r     == [ok |-> ok, response |-> response, crash |-> crash]
<1>1. ResultOfEach(ok, response, request) = r
  BY DEF ResultOfEach
<1>2. crash # "NULL" /\ (crash = "wild" => FreesUnset(request))
  OBVIOUS
<1> HIDE DEF crash
<1>3. r.crash = crash /\ r.response = response
  OBVIOUS
<1> HIDE DEF r
<1>4. WellEnded(request, r)
  BY <1>2, <1>3, Zenon DEF WellEnded
<1> QED BY <1>1, <1>4

(* The dht's commands are well ended. *)
LEMMA DhtIsWellEnded ==
  ASSUME NEW request, request.command = "dht"
  PROVE  WellEnded(request, ipfs_core_http_process_dht(request))
<1>2. WellEnded(request, Result(FALSE, FALSE))
  BY ResultIsWellEnded
<1>3. WellEnded(request, ipfs_core_http_process_dht_provide(request))
  BY EachIsWellEnded DEF ipfs_core_http_process_dht_provide
<1>4. WellEnded(request, ipfs_core_http_process_dht_get(request))
  BY <1>2, EachIsWellEnded DEF ipfs_core_http_process_dht_get
<1>5. CASE request.sub_command = NoText
  BY <1>5, NullIsWellEnded DEF ipfs_core_http_process_dht
<1>6. CASE request.sub_command # NoText /\ request.sub_command = "provide"
  BY <1>3, <1>6 DEF ipfs_core_http_process_dht
<1>7. CASE request.sub_command # NoText /\ request.sub_command = "get"
  BY <1>4, <1>7 DEF ipfs_core_http_process_dht
<1>8. CASE request.sub_command \notin {NoText, "provide", "get"}
  BY <1>2, <1>8 DEF ipfs_core_http_process_dht
<1> QED
  BY <1>5, <1>6, <1>7, <1>8

(* So is every command. *)
LEMMA CommandIsWellEnded ==
  ASSUME NEW request
  PROVE  WellEnded(request, ipfs_core_http_request_process(request))
<1> DEFINE r == ipfs_core_http_request_process(request)
<1>0. WellEnded(request, Result(FALSE, FALSE))
  BY ResultIsWellEnded
<1>1. CASE request.command = "name"
  <2> DEFINE ok == request.sub_command \in {"resolve", "publish"} /\ Good(request.arguments[1])
  <2>1. WellEnded(request, Result(ok, ok))
    BY ResultIsWellEnded
  <2>2. r = IF request.arguments = <<>> THEN Result(FALSE, FALSE)
            ELSE IF request.sub_command = NoText THEN ComparesNull
            ELSE Result(ok, ok)
    BY <1>1 DEF ipfs_core_http_request_process, ipfs_core_http_process_name
  <2> HIDE DEF ok, r
  <2> QED BY <1>0, <2>1, <2>2, NullIsWellEnded DEF r
<1>2. CASE request.command = "object"
  <2> DEFINE one  == request.sub_command = "get" /\ Len(request.arguments) = 1
             ok   == one /\ Good(request.arguments[1])
             made == one /\ Decodes(request.arguments[1])
  <2>1. WellEnded(request, Result(ok, made))
    <3>1. ok => made
      BY DEF Good, Decodes
    <3> HIDE DEF ok, made
    <3> QED BY <3>1, ResultIsWellEnded
  <2>2. r = IF request.sub_command = NoText THEN ComparesNull ELSE Result(ok, made)
    BY <1>2 DEF ipfs_core_http_request_process, ipfs_core_http_process_object
  <2> HIDE DEF ok, made, r
  <2> QED BY <2>1, <2>2, NullIsWellEnded DEF r
<1>3. CASE request.command = "dht"
  BY <1>3, DhtIsWellEnded DEF ipfs_core_http_request_process
<1>4. CASE request.command = "swarm"
  <2> DEFINE ok == request.arguments # <<>> /\ Good(request.arguments[1])
  <2>1. WellEnded(request, Result(ok, ok))
    BY ResultIsWellEnded
  <2>2. r = IF request.sub_command = NoText THEN ComparesNull
            ELSE IF request.sub_command = "connect" THEN Result(ok, ok)
            ELSE Result(FALSE, FALSE)
    BY <1>4 DEF ipfs_core_http_request_process, ipfs_core_http_process_swarm,
                ipfs_core_http_process_swarm_connect
  <2> HIDE DEF ok, r
  <2> QED BY <1>0, <2>1, <2>2, NullIsWellEnded DEF r
<1>5. CASE request.command \notin {"name", "object", "dht", "swarm"}
  BY <1>0, <1>5 DEF ipfs_core_http_request_process
<1> QED
  BY <1>1, <1>2, <1>3, <1>4, <1>5

Ends == {"quit", "crash", "stalled", "looping"}

\* An outcome of a message: it crashes only if the message cannot be served.
Excused(msg, o) == o.end \in Ends /\ (o.end = "crash" => Unservable(msg))

(* A message that is built into a request and processed. *)
LEMMA ProcessedIsExcused ==
  ASSUME NEW msg, NEW o \in Processed(msg)
  PROVE  Excused(msg, o)
<1> DEFINE request == api_build_http_request(msg.url)
           result  == ipfs_core_http_request_process(request)
           null    == \/ CopiesNull(request) \/ result.crash = "NULL"
                      \/ result.ok /\ ~result.response
           died    == Outcome(MethodAnswers(msg), "crash")
           ended   == Outcome(MethodAnswers(msg) \o ApiAnswers(result), "quit")
<1>1. (o = died /\ (null \/ result.crash = "wild")) \/ o = ended
  BY DEF Processed
<1>2. WellEnded(request, result)
  BY CommandIsWellEnded
<1>3. Unservable(msg) <=> \/ msg.body \in {"reset", "chunked reset"}
                          \/ CopiesNull(request)
                          \/ request.sub_command = NoText
                          \/ request.command = "dht" /\ FreesUnset(request)
  BY DEF Unservable
<1>4. died.end = "crash" /\ ended.end = "quit"
  BY DEF Outcome
<1> HIDE DEF request, result, died, ended
<1>5. CASE o = ended
  BY <1>4, <1>5 DEF Excused, Ends
<1>6. CASE o = died /\ (null \/ result.crash = "wild")
  BY <1>2, <1>3, <1>4, <1>6 DEF Excused, Ends, WellEnded
<1> QED BY <1>1, <1>5, <1>6

(* So the thread of a connection crashes only over a message that it cannot serve:
   a command that succeeds has a response to take apart. *)
LEMMA OutcomeIsExcused ==
  ASSUME NEW msg, NEW o \in Outcomes(msg)
  PROVE  Excused(msg, o)
<1>1. \A told, end : Outcome(told, end).end = end
  BY DEF Outcome
<1>2. CASE msg.head = "silent"
  BY <1>1, <1>2 DEF Outcomes, Excused, Ends
<1>3. CASE msg.head \in {"cut", "bad"}
  BY <1>1, <1>3 DEF Outcomes, Excused, Ends
<1>4. CASE msg.head \notin {"silent", "cut", "bad"}
  <2>1. PICK body \in ReadBody(msg) : o \in Handled(msg, body)
    BY <1>4 DEF Outcomes
  <2>2. /\ body \in {"crash", "failed", "read", "stalled"}
        /\ body = "crash" => msg.body \in {"reset", "chunked reset"}
    BY <2>1 DEF ReadBody
  <2>3. CASE body = "crash"
    BY <1>1, <2>1, <2>2, <2>3 DEF Handled, Excused, Ends, Unservable
  <2>4. CASE body \in {"failed", "stalled"}
    BY <1>1, <2>1, <2>4 DEF Handled, Excused, Ends
  <2>5. CASE body = "read"
    BY <1>1, <2>1, <2>5, ProcessedIsExcused DEF Handled, Excused, Ends
  <2> QED BY <2>2, <2>3, <2>4, <2>5
<1> QED
  BY <1>2, <1>3, <1>4

-----------------------------------------------------------------------------
(* The inductive invariant. *)

Early == {"new", "api_start", "listen", "bootstrap", "join", "api_stop"}

Held == {i \in Slots : conns[i] # NoClient}

Serving == {"start", "serve", "stalled", "looping", "quit", "close"}

\* Types of the table and of the API's threads.
TableOK ==
  /\ conns \in [Slots -> Clients \cup {NoClient}]
  /\ worker \in [Clients -> {"none", "accepted", "gone"} \cup Serving]
  /\ slot \in [Clients -> Slots \cup {0}]
  /\ listener \in [pc : {"none", "accept", "check", "take"}, s : Clients \cup {NoClient}, i : Nat]
  /\ DOMAIN sent = Clients

\* Nobody has begun to take the node down.
NobodyStops == ~crashed /\ node # "freed" /\ ~cancelled /\ worker_cancelled = {}

\* Where the listener is, before api_start and after it.
ListenerPlace ==
  IF main \in {"new", "api_start"} THEN listener.pc = "none"
  ELSE socket /\ allocated /\ listener.pc # "none"

\* The count that is read without the lock is the number of entries in use, and a
\* worker's entry is its own.
CountIsHeld == conns_count = Cardinality(Held)

OwnEntries == \A k \in Clients : worker[k] \in Serving => slot[k] \in Slots /\ conns[slot[k]] = k

\* There are workers only once the API runs.
NoEarlyWorkers == main \in {"new", "api_start"} => \A k \in Clients : worker[k] = "none"

\* Between the check and the lock the table does not fill up: only the listener
\* adds to it, and its connection has no worker yet.
RoomForOne ==
  /\ listener.pc \in {"check", "take"} => listener.s \in Clients /\ worker[listener.s] = "accepted"
  /\ listener.pc = "take" => conns_count < max_conns

Safe ==
  /\ TableOK /\ NobodyStops /\ ListenerPlace /\ CountIsHeld
  /\ OwnEntries /\ NoEarlyWorkers /\ RoomForOne

\* A connection's thread has crashed over what its client sent.
HandlerCrashed == crashed /\ \E k \in Clients : worker[k] = "crash" /\ Unservable(sent[k])

IInv ==
  /\ main \in Early \cup Stopping /\ faults \in Nat
  /\ main \in Early /\ faults = 0 => Safe \/ HandlerCrashed

(* The table is finite, and so are its entries in use. *)
LEMMA HeldIsFinite ==
  /\ IsFiniteSet(Slots) /\ Cardinality(Slots) = max_conns
  /\ IsFiniteSet(Held) /\ Cardinality(Held) \in Nat
<1>1. IsFiniteSet(Slots) /\ Cardinality(Slots) = max_conns
  BY TableAssumption, FS_Interval DEF Slots
<1>2. Held \in SUBSET Slots
  BY DEF Held
<1>3. IsFiniteSet(Held)
  BY <1>1, <1>2, FS_Subset
<1> QED
  BY <1>1, <1>3, FS_CardinalityType

(* The listener that was told that there is room finds a free entry. *)
LEMMA FreeSlotFound ==
  ASSUME TableOK, CountIsHeld, conns_count < max_conns
  PROVE  FreeSlot \in Slots /\ conns[FreeSlot] = NoClient
<1> DEFINE free == {i \in Slots : conns[i] = NoClient}
<1>1. free # {}
  <2> SUFFICES ASSUME free = {} PROVE FALSE
    OBVIOUS
  <2>1. Held = Slots
    BY DEF Held
  <2>2. conns_count = max_conns
    BY <2>1, HeldIsFinite DEF CountIsHeld
  <2> QED BY <2>2, TableAssumption
<1>2. free \subseteq Nat
  BY TableAssumption DEF Slots
<1>3. PICK n \in free : \A m \in free : n <= m
  <2> HIDE DEF free
  <2> QED BY <1>1, <1>2, SmallestNumber
<1>4. n \in Slots /\ conns[n] = NoClient /\ \A j \in 1..(n - 1) : conns[j] # NoClient
  <2>1. n \in Slots /\ conns[n] = NoClient
    OBVIOUS
  <2>2. ASSUME NEW j \in 1..(n - 1) PROVE conns[j] # NoClient
    <3>1. j \in Slots /\ ~(n <= j)
      BY <2>1, TableAssumption DEF Slots
    <3> QED BY <1>3, <3>1
  <2> QED BY <2>1, <2>2
<1> QED
  BY <1>4 DEF FreeSlot

(* Before the daemon is made there is nobody. *)
LEMMA InitIInv == Init => IInv
<1> SUFFICES ASSUME Init PROVE IInv
  OBVIOUS
<1> USE DEF Init
<1>1. TableOK
  BY DEF TableOK, Serving
<1>2. CountIsHeld
  <2>1. Held = {}
    BY DEF Held
  <2> QED BY <2>1, FS_EmptySet DEF CountIsHeld
<1>3. ListenerPlace /\ NobodyStops /\ NoEarlyWorkers /\ RoomForOne
  BY DEF ListenerPlace, NobodyStops, NoEarlyWorkers, RoomForOne
<1>4. OwnEntries
  BY DEF OwnEntries, Serving
<1> QED
  BY <1>1, <1>2, <1>3, <1>4 DEF IInv, Safe, Early

(* Steps of main, of the swarm's listener and of the engine up to the stop. *)
LEMMA MainKeepsSafe ==
  ASSUME Safe, main' \in Early,
         Main \/ NullListener \/ ipfs_null_shutdown \/ (\E t \in EngineThreads : EngineThreadEnds(t))
  PROVE  Safe'
<1>1. UNCHANGED <<conns, conns_count, cancelled, worker, slot, worker_cancelled, sent, crashed>>
  BY DEF Early, Main, ipfs_bitswap_engine_start, api_start, ipfs_daemon_start, Bootstrap, JoinListener,
         ShutdownSocket, CancelListener, api_stop, ipfs_bitswap_engine_stop, JoinEngine,
         ipfs_node_free, NullListener, ipfs_null_listen, NullListenEnds, ipfs_null_shutdown,
         EngineThreadEnds, api, table, cancel, talk
<1>2. CASE main = "api_start" /\ api_start
  <2>1. /\ socket' /\ allocated' /\ listener' = [listener EXCEPT !.pc = "accept"]
        /\ main' = "listen" /\ node' = node
    BY <1>2 DEF api_start
  <2>2. TableOK' /\ listener'.pc = "accept"
    BY <1>1, <2>1 DEF Safe, TableOK
  <2>3. CountIsHeld' /\ OwnEntries' /\ NobodyStops'
    BY <1>1, <2>1 DEF Safe, CountIsHeld, Held, OwnEntries, NobodyStops
  <2>4. ListenerPlace' /\ NoEarlyWorkers' /\ RoomForOne'
    BY <2>1, <2>2 DEF ListenerPlace, NoEarlyWorkers, RoomForOne
  <2> QED BY <2>2, <2>3, <2>4 DEF Safe
<1>3. CASE ~api_start
  <2>1. /\ UNCHANGED <<socket, allocated, listener>> /\ node' # "freed"
        /\ main \in {"new", "api_start"} <=> main' \in {"new", "api_start"}
    BY <1>3 DEF Safe, NobodyStops, Early, Main, ipfs_bitswap_engine_start, ipfs_daemon_start,
         Bootstrap, JoinListener,
         ShutdownSocket, CancelListener, api_stop, ipfs_bitswap_engine_stop, JoinEngine,
         ipfs_node_free, NullListener, ipfs_null_listen, NullListenEnds, ipfs_null_shutdown,
         EngineThreadEnds, api, table
  <2>2. TableOK' /\ CountIsHeld' /\ OwnEntries' /\ NobodyStops'
    BY <1>1, <2>1 DEF Safe, TableOK, CountIsHeld, Held, OwnEntries, NobodyStops
  <2>3. ListenerPlace' /\ NoEarlyWorkers' /\ RoomForOne'
    BY <1>1, <2>1 DEF Safe, ListenerPlace, NoEarlyWorkers, RoomForOne
  <2> QED BY <2>2, <2>3 DEF Safe
<1> QED
  BY <1>2, <1>3 DEF api_start

(* The listener's steps. *)
LEMMA ListenerKeepsSafe ==
  ASSUME Safe, faults' = 0, faults \in Nat, main' = main,
         Listener \/ \E k \in Clients : Accept(k)
  PROVE  Safe'
<1> USE DEF ListenerAt, ListenerGoes, table, cancel, talk
<1>0. /\ TableOK /\ NobodyStops /\ listener.pc # "none" /\ socket /\ allocated
      /\ main \notin {"new", "api_start"}
  <2>1. listener.pc # "none"
    BY DEF Listener, CheckLimit, TakeSlot, AcceptFails, ListenerCancelled, ListenerCleanup,
           CleanEntry, CleanTable, Accept
  <2> QED BY <2>1 DEF Safe, ListenerPlace
<1>1. ASSUME NEW k \in Clients, Accept(k) PROVE Safe'
  <2>1. /\ listener' = [listener EXCEPT !.pc = "check", !.s = k] /\ worker[k] = "none"
        /\ worker' = [worker EXCEPT ![k] = "accepted"]
        /\ UNCHANGED <<node, socket, conns, allocated, conns_count, cancelled, slot, worker_cancelled,
                       sent, crashed>>
    BY <1>1 DEF Accept
  <2>2. TableOK' /\ worker'[k] = "accepted" /\ listener'.pc = "check" /\ listener'.s = k
    BY <1>0, <2>1 DEF TableOK
  <2>3. OwnEntries'
    BY <1>0, <2>1 DEF Safe, OwnEntries, TableOK, Serving
  <2>4. CountIsHeld' /\ NobodyStops' /\ ListenerPlace' /\ NoEarlyWorkers'
    BY <1>0, <2>1 DEF Safe, CountIsHeld, Held, NobodyStops, ListenerPlace, NoEarlyWorkers
  <2>5. RoomForOne'
    BY <2>1, <2>2 DEF RoomForOne
  <2> QED BY <2>2, <2>3, <2>4, <2>5 DEF Safe
<1>2. CASE CheckLimit
  <2>0. /\ listener.pc = "check" /\ listener.s \in Clients /\ worker[listener.s] = "accepted"
        /\ UNCHANGED <<node, socket, conns, allocated, conns_count, cancelled, slot, worker_cancelled,
                       sent>>
        /\ crashed' = (crashed \/ node = "freed")
    BY <1>2 DEF CheckLimit, Crash, Safe, RoomForOne
  <2>1. CountIsHeld' /\ NobodyStops'
    BY <1>0, <2>0 DEF Safe, CountIsHeld, Held, NobodyStops
  <2>2. CASE conns_count >= max_conns
    <3>1. /\ worker' = [worker EXCEPT ![listener.s] = "gone"]
          /\ listener' = [listener EXCEPT !.pc = "accept"]
      BY <1>0, <1>2, <2>2 DEF CheckLimit, Refuse, NobodyStops
    <3>2. TableOK' /\ listener'.pc = "accept"
      BY <1>0, <2>0, <3>1 DEF TableOK
    <3>3. OwnEntries'
      BY <1>0, <2>0, <3>1 DEF Safe, OwnEntries, TableOK, Serving
    <3>4. ListenerPlace' /\ NoEarlyWorkers' /\ RoomForOne'
      BY <1>0, <2>0, <3>2 DEF ListenerPlace, NoEarlyWorkers, RoomForOne
    <3> QED BY <2>1, <3>2, <3>3, <3>4 DEF Safe
  <2>3. CASE ~(conns_count >= max_conns)
    <3>1. listener' = [listener EXCEPT !.pc = "take"] /\ worker' = worker
      BY <1>2, <2>3 DEF CheckLimit
    <3>2. TableOK' /\ listener'.pc = "take" /\ listener'.s = listener.s
      BY <1>0, <2>0, <3>1 DEF TableOK
    <3>3. conns_count < max_conns
      BY <2>3, HeldIsFinite, TableAssumption DEF Safe, CountIsHeld
    <3>4. OwnEntries' /\ ListenerPlace' /\ NoEarlyWorkers' /\ RoomForOne'
      BY <1>0, <2>0, <3>1, <3>2, <3>3 DEF Safe, OwnEntries, ListenerPlace, NoEarlyWorkers, RoomForOne
    <3> QED BY <2>1, <3>2, <3>4 DEF Safe
  <2> QED BY <2>2, <2>3
<1>3. CASE TakeSlot
  <2> DEFINE k == listener.s
             i == FreeSlot
  <2>0. /\ listener.pc = "take" /\ k \in Clients /\ worker[k] = "accepted" /\ conns_count < max_conns
        /\ UNCHANGED <<node, socket, allocated, cancelled, worker_cancelled, sent>>
    BY <1>3 DEF TakeSlot, Safe, RoomForOne
  <2>1. i \in Slots /\ conns[i] = NoClient
    BY <1>0, <2>0, FreeSlotFound DEF Safe
  <2>2. ~(node = "freed" \/ (conns_lock = "free" /\ (~allocated \/ i > max_conns)))
    BY <1>0, <2>1, TableAssumption DEF NobodyStops, Slots
  <2>3. /\ crashed' = (crashed \/ FALSE)
        /\ conns' = [conns EXCEPT ![i] = k] /\ conns_count' = conns_count + 1
        /\ worker' = [worker EXCEPT ![k] = "start"] /\ slot' = [slot EXCEPT ![k] = i]
        /\ listener' = [listener EXCEPT !.pc = "accept"]
    <3>1. faults' # faults + 1
      OBVIOUS
    <3>2. Take(k, i) /\ crashed' = (crashed \/ FALSE)
      <4> HIDE DEF i
      <4> QED BY <1>3, <2>2 DEF TakeSlot, Crash, i
    <3> QED BY <3>1, <3>2 DEF Take
  <2> HIDE DEF k, i
  <2>4. TableOK' /\ listener'.pc = "accept"
    BY <1>0, <2>0, <2>1, <2>3 DEF TableOK, Serving
  <2>5. CountIsHeld'
    <3>1. Held' = Held \cup {i} /\ i \notin Held
      BY <1>0, <2>0, <2>1, <2>3, ClientsAssumption DEF Held, TableOK
    <3>2. Cardinality(Held') = Cardinality(Held) + 1
      BY <3>1, HeldIsFinite, FS_AddElement
    <3> QED BY <2>3, <3>2 DEF Safe, CountIsHeld
  <2>6. OwnEntries'
    <3> SUFFICES ASSUME NEW j \in Clients, worker'[j] \in Serving
                 PROVE  slot'[j] \in Slots /\ conns'[slot'[j]] = j
      BY DEF OwnEntries
    <3>1. CASE j = k
      BY <1>0, <2>0, <2>1, <2>3, <3>1 DEF TableOK
    <3>2. CASE j # k
      <4>1. worker[j] \in Serving /\ slot'[j] = slot[j]
        BY <1>0, <2>3, <3>2 DEF TableOK
      <4>2. slot[j] \in Slots /\ conns[slot[j]] = j
        BY <4>1 DEF Safe, OwnEntries
      <4>3. slot[j] # i
        BY <2>1, <4>2, ClientsAssumption
      <4> QED BY <1>0, <2>3, <4>1, <4>2, <4>3 DEF TableOK
    <3> QED BY <3>1, <3>2
  <2>7. NobodyStops' /\ ListenerPlace' /\ NoEarlyWorkers' /\ RoomForOne'
    BY <1>0, <2>0, <2>3, <2>4 DEF NobodyStops, ListenerPlace, NoEarlyWorkers, RoomForOne
  <2> QED BY <2>4, <2>5, <2>6, <2>7 DEF Safe
<1>4. CASE AcceptFails \/ ListenerCancelled \/ ListenerCleanup \/ CleanEntry \/ CleanTable
  BY <1>0, <1>4 DEF AcceptFails, ListenerCancelled, ListenerCleanup, CleanEntry, CleanTable, TableOK,
                    NobodyStops
<1> QED
  BY <1>1, <1>2, <1>3, <1>4 DEF Listener

(* A message that crashes its thread is one that cannot be served. *)
LEMMA ServeIsExcused ==
  ASSUME Safe, NEW k \in Clients, NEW msg, Serve(k, msg)
  PROVE  /\ \E to \in Ends : worker' = [worker EXCEPT ![k] = to] /\ (~crashed' => to # "crash")
         /\ crashed' => HandlerCrashed'
         /\ DOMAIN sent' = Clients
<1> USE DEF WorkerGoes, Crash
<1>1. PICK o \in Outcomes(msg) : /\ worker' = [worker EXCEPT ![k] = o.end]
                                 /\ crashed' = (crashed \/ o.end = "crash")
  BY DEF Serve
<1>2. sent' = [sent EXCEPT ![k] = msg]
  BY DEF Serve
<1>3. Excused(msg, o)
  BY OutcomeIsExcused
<1>4. ~crashed /\ DOMAIN sent = Clients /\ worker \in [Clients -> {"none", "accepted", "gone"} \cup Serving]
  BY DEF Safe, NobodyStops, TableOK
<1>5. sent'[k] = msg /\ DOMAIN sent' = Clients
  BY <1>2, <1>4
<1>6. worker'[k] = o.end
  BY <1>1, <1>4
<1>7. crashed' => HandlerCrashed'
  <2> SUFFICES ASSUME crashed' PROVE HandlerCrashed'
    OBVIOUS
  <2>1. worker'[k] = "crash" /\ Unservable(msg)
    BY <1>1, <1>3, <1>4, <1>6 DEF Excused
  <2>2. Unservable(sent'[k])
    BY <1>5, <2>1
  <2> QED BY <2>1, <2>2 DEF HandlerCrashed
<1> QED
  BY <1>1, <1>3, <1>5, <1>7 DEF Excused

(* A connection's thread has an entry, which is its own. *)
LEMMA WorkerHasEntry ==
  ASSUME Safe, NEW k \in Clients, worker[k] \in Serving
  PROVE  /\ TableOK /\ NobodyStops /\ allocated
         /\ slot[k] \in Slots /\ conns[slot[k]] = k /\ ~Lost(k)
<1>1. slot[k] \in Slots /\ conns[slot[k]] = k
  BY DEF Safe, OwnEntries
<1>2. allocated
  BY DEF Safe, NoEarlyWorkers, ListenerPlace, Serving
<1> QED BY <1>1, <1>2, ClientsAssumption DEF Safe, Lost, NobodyStops

(* Of a connection's thread, only what it serves crashes. *)
LEMMA WorkerCrashes ==
  ASSUME Safe, NEW k \in Clients, Worker(k) \/ ClientGoesOn(k), crashed'
  PROVE  HandlerCrashed'
<1>1. ASSUME NEW msg, Serve(k, msg) PROVE HandlerCrashed'
  BY <1>1, ServeIsExcused
<1>2. CASE api_connection_thread(k) \/ ClientGoesOn(k)
  BY <1>1, <1>2 DEF api_connection_thread, ClientGoesOn
<1>3. CASE WorkerStart(k) \/ WorkerQuit(k) \/ WorkerClose(k)
  BY <1>3, WorkerHasEntry DEF WorkerStart, WorkerQuit, WorkerClose, Crash, NobodyStops, Serving
<1>4. CASE WorkerCancelled(k)
  BY <1>4 DEF WorkerCancelled, Safe, NobodyStops
<1> QED
  BY <1>2, <1>3, <1>4 DEF Worker

(* The steps of a connection's thread. *)
LEMMA WorkerKeepsSafe ==
  ASSUME Safe, main' = main, NEW k \in Clients, Worker(k) \/ ClientGoesOn(k), ~crashed'
  PROVE  Safe'
<1> USE DEF WorkerGoes, table, cancel, talk
<1>a. ASSUME NEW msg, Serve(k, msg)
      PROVE  /\ UNCHANGED <<node, socket, allocated, listener, cancelled, slot, worker_cancelled,
                            conns, conns_count>>
             /\ DOMAIN sent' = Clients
             /\ \E to \in {"quit", "stalled", "looping"} : worker' = [worker EXCEPT ![k] = to]
  <2>1. PICK to \in Ends : worker' = [worker EXCEPT ![k] = to] /\ to # "crash"
    BY <1>a, ServeIsExcused
  <2>2. to \in {"quit", "stalled", "looping"}
    BY <2>1 DEF Ends
  <2>3. DOMAIN sent' = Clients
    BY <1>a, ServeIsExcused
  <2> QED BY <1>a, <2>1, <2>2, <2>3 DEF Serve
<1>0. /\ TableOK /\ NobodyStops /\ worker[k] \in Serving
      /\ slot[k] \in Slots /\ conns[slot[k]] = k /\ allocated /\ ~Lost(k)
  <2>1. worker[k] \in Serving
    BY DEF Worker, WorkerStart, api_connection_thread, ClientGoesOn, WorkerCancelled, WorkerQuit,
           WorkerClose, Serving
  <2> QED BY <2>1, WorkerHasEntry
<1>1. /\ UNCHANGED <<node, socket, allocated, listener, cancelled, slot, worker_cancelled>>
      /\ DOMAIN sent' = Clients
  <2>1. CASE api_connection_thread(k) \/ ClientGoesOn(k)
    BY <1>a, <2>1 DEF api_connection_thread, ClientGoesOn
  <2>2. CASE WorkerStart(k) \/ WorkerCancelled(k) \/ WorkerQuit(k) \/ WorkerClose(k)
    BY <1>0, <2>2 DEF WorkerStart, WorkerCancelled, WorkerQuit, WorkerClose, TableOK
  <2> QED BY <2>1, <2>2 DEF Worker
<1>3. PICK to \in {"serve", "stalled", "looping", "quit", "close", "gone"} :
            worker' = [worker EXCEPT ![k] = to]
  <2>1. CASE api_connection_thread(k) \/ ClientGoesOn(k)
    BY <1>a, <2>1 DEF api_connection_thread, ClientGoesOn
  <2>2. CASE WorkerStart(k) \/ WorkerCancelled(k) \/ WorkerQuit(k) \/ WorkerClose(k)
    BY <2>2 DEF WorkerStart, WorkerCancelled, WorkerQuit, WorkerClose
  <2> QED BY <2>1, <2>2 DEF Worker
<1>4. CASE UNCHANGED <<conns, conns_count>> /\ to # "gone"
  <2>1. TableOK' /\ OwnEntries'
    BY <1>0, <1>1, <1>3, <1>4 DEF Safe, TableOK, OwnEntries, Serving
  <2>2. CountIsHeld' /\ NobodyStops' /\ ListenerPlace'
    BY <1>0, <1>1, <1>4 DEF Safe, CountIsHeld, Held, NobodyStops, ListenerPlace
  <2>3. NoEarlyWorkers' /\ RoomForOne'
    BY <1>0, <1>1, <1>3, <1>4 DEF Safe, NoEarlyWorkers, RoomForOne, TableOK, Serving
  <2> QED BY <2>1, <2>2, <2>3 DEF Safe
<1>5. CASE WorkerClose(k)
  <2>1. /\ conns' = [conns EXCEPT ![slot[k]] = NoClient] /\ conns_count' = conns_count - 1
        /\ worker' = [worker EXCEPT ![k] = "gone"]
    BY <1>0, <1>5 DEF WorkerClose, NobodyStops, EntryCleared
  <2>2. TableOK'
    BY <1>0, <1>1, <2>1 DEF TableOK
  <2>3. CountIsHeld'
    <3>1. Held' = Held \ {slot[k]} /\ slot[k] \in Held
      BY <1>0, <2>1, ClientsAssumption DEF Held, TableOK
    <3>2. Cardinality(Held') = Cardinality(Held) - 1
      BY <3>1, HeldIsFinite, FS_RemoveElement
    <3> QED BY <2>1, <3>2 DEF Safe, CountIsHeld
  <2>4. OwnEntries'
    <3> SUFFICES ASSUME NEW j \in Clients, worker'[j] \in Serving
                 PROVE  slot'[j] \in Slots /\ conns'[slot'[j]] = j
      BY DEF OwnEntries
    <3>1. j # k /\ worker[j] \in Serving
      BY <1>0, <2>1 DEF TableOK, Serving
    <3>2. slot[j] \in Slots /\ conns[slot[j]] = j
      BY <3>1 DEF Safe, OwnEntries
    <3>3. slot[j] # slot[k]
      BY <1>0, <3>1, <3>2
    <3> QED BY <1>0, <1>1, <2>1, <3>2, <3>3 DEF TableOK
  <2>5. NobodyStops' /\ ListenerPlace'
    BY <1>0, <1>1 DEF Safe, NobodyStops, ListenerPlace
  <2>6. NoEarlyWorkers'
    BY <1>0 DEF Safe, NoEarlyWorkers, Serving
  <2>7. RoomForOne'
    <3>1. conns_count \in Nat
      BY HeldIsFinite DEF Safe, CountIsHeld
    <3>2. \A j \in Clients : worker[j] = "accepted" => worker'[j] = "accepted"
      BY <1>0, <2>1 DEF TableOK, Serving
    <3> QED BY <1>1, <2>1, <3>1, <3>2, TableAssumption DEF Safe, RoomForOne
  <2> QED BY <2>2, <2>3, <2>4, <2>5, <2>6, <2>7 DEF Safe
<1>6. ASSUME ~WorkerClose(k) PROVE UNCHANGED <<conns, conns_count>> /\ to # "gone"
  <2>1. k \notin worker_cancelled
    BY <1>0 DEF NobodyStops
  <2>2. CASE api_connection_thread(k) \/ ClientGoesOn(k)
    <3>1. UNCHANGED <<conns, conns_count>> /\ \E end \in {"quit", "stalled", "looping"} :
                                               worker' = [worker EXCEPT ![k] = end]
      BY <1>a, <2>2 DEF api_connection_thread, ClientGoesOn
    <3> QED BY <1>0, <1>3, <3>1 DEF TableOK
  <2>3. CASE WorkerStart(k) \/ WorkerQuit(k)
    <3>1. UNCHANGED <<conns, conns_count>> /\ worker'[k] # "gone"
      BY <1>0, <2>3 DEF WorkerStart, WorkerQuit, TableOK
    <3> QED BY <1>0, <1>3, <3>1 DEF TableOK
  <2> QED BY <1>6, <2>1, <2>2, <2>3 DEF Worker, WorkerCancelled
<1> QED
  BY <1>4, <1>5, <1>6

(* Every step keeps the invariant: there is no way back from the stop. *)
LEMMA StepIInv == IInv /\ [Next]_vars => IInv'
<1> SUFFICES ASSUME IInv, [Next]_vars PROVE IInv'
  OBVIOUS
<1>1. CASE UNCHANGED vars
  BY <1>1 DEF vars, rest, api, table, cancel, talk, IInv, Safe, TableOK, NobodyStops, ListenerPlace,
              CountIsHeld, Held, OwnEntries, NoEarlyWorkers, RoomForOne, HandlerCrashed
<1>2. CASE Next
  <2>0. main \in Early /\ faults = 0 => Safe
    BY <1>2 DEF IInv, Next, HandlerCrashed
  <2>1. CASE Main
    <3>1. main' \in Early \cup Stopping /\ faults' = faults /\ (main' \in Early => main \in Early)
      BY <2>1 DEF IInv, Early, Stopping, Main, ipfs_bitswap_engine_start, api_start, ipfs_daemon_start,
           Bootstrap, JoinListener, ShutdownSocket, CancelListener, api_stop, ipfs_bitswap_engine_stop,
           JoinEngine, ipfs_node_free
    <3> QED BY <2>0, <2>1, <3>1, MainKeepsSafe DEF IInv
  <2>2. CASE NullListener \/ ipfs_null_shutdown \/ \E t \in EngineThreads : EngineThreadEnds(t)
    <3>1. main' = main /\ faults' = faults
      BY <2>2 DEF NullListener, ipfs_null_listen, NullListenEnds, ipfs_null_shutdown, EngineThreadEnds
    <3> QED BY <2>0, <2>2, <3>1, MainKeepsSafe DEF IInv
  <2>3. CASE Listener \/ \E k \in Clients : Accept(k)
    <3>1. main' = main
      BY <2>3 DEF Listener, CheckLimit, TakeSlot, AcceptFails, ListenerCancelled, ListenerCleanup,
                    CleanEntry, CleanTable, Accept
    <3>2. faults' = faults \/ faults' = faults + 1
      BY <2>3 DEF Listener, CheckLimit, TakeSlot, Take, AcceptFails, ListenerCancelled, ListenerCleanup,
                    CleanEntry, CleanTable, Accept
    <3> QED BY <2>0, <2>3, <3>1, <3>2, ListenerKeepsSafe DEF IInv
  <2>4. ASSUME NEW k \in Clients, Worker(k) \/ ClientGoesOn(k) PROVE IInv'
    <3>1. main' = main /\ faults' = faults
      BY <2>4 DEF Worker, WorkerStart, api_connection_thread, Serve, ClientGoesOn, WorkerCancelled,
                  WorkerQuit, WorkerClose
    <3> QED BY <2>0, <2>4, <3>1, WorkerCrashes, WorkerKeepsSafe DEF IInv
  <2> QED BY <1>2, <2>1, <2>2, <2>3, <2>4 DEF Next
<1> QED
  BY <1>1, <1>2

(* As long as nobody stops the daemon and no allocation fails, no thread of the
   API touches memory that is not its own: the count that the listener reads
   without the lock keeps it inside the table, a worker finds its entry, and a
   command that succeeds has a response.  What is left is the handler of a message
   that cannot be served. *)
THEOREM NoThreadLeavesTheTable == Spec => []RunningIsSafe
<1>1. IInv => RunningIsSafe
  BY DEF IInv, Safe, NobodyStops, HandlerCrashed, RunningIsSafe, Early, Stopping
<1> QED
  BY <1>1, InitIInv, StepIInv, PTL DEF Spec
=============================================================================
