-------------------------------- MODULE Http --------------------------------
(***************************************************************************)
(* The requests of the HTTP API: how a client writes one as a URL           *)
(* (core/http_request.c), how the server reads it (core/api.c) and what the  *)
(* command it names answers.                                                *)
(*                                                                         *)
(* A request is [command, sub_command, params, arguments].  Of a URL, path  *)
(* is what stands between the slashes behind /api/v0/ and query what stands *)
(* between the ampersands, as [name, value]; the value is NoText where      *)
(* there is no =.  Of an argument it matters whether it is `good': it       *)
(* decodes, and the call it is for succeeds.                                *)
(***************************************************************************)
EXTENDS Integers, Sequences, SequencesExt

CONSTANT NoText   \* NULL

-----------------------------------------------------------------------------
(* The client. *)

ipfs_core_http_request_add_commands(request) ==
  <<request.command>> \o (IF request.sub_command = NoText THEN <<>> ELSE <<request.sub_command>>)

\* Several words that are read as one.
Word(words) == IF Len(words) = 1 THEN words[1] ELSE words

\* The parameters become part of the path; isFirst is never reset, every argument
\* is written with a question mark, so that they are one part of the query.
ipfs_core_http_request_add_parameters(request, path) ==
  [path  |-> path \o [i \in 1..Len(request.params) |->
                        <<request.params[i].name, request.params[i].value>>],
   query |-> IF request.arguments = <<>> THEN <<>>
             ELSE <<[name |-> "arg", value |-> Word(request.arguments)]>>]

ClientUrl(request) ==
  ipfs_core_http_request_add_parameters(request, ipfs_core_http_request_add_commands(request))

-----------------------------------------------------------------------------
(* The server. *)

\* sub_command is all that follows the first slash.
SubCommand(path) == IF Len(path) = 1 THEN NoText ELSE Word(Tail(path))

IsArgument(part) == part.name = "arg" /\ part.value # NoText

api_build_http_request(url) ==
  LET args == SelectSeq(url.query, IsArgument)
  IN  [command     |-> Head(url.path),
       sub_command |-> SubCommand(url.path),
       params      |-> SelectSeq(url.query, LAMBDA part : ~IsArgument(part)),
       arguments   |-> [i \in 1..Len(args) |-> args[i].value]]

\* "maybe null ?": strdup of the value of a parameter that has none.
CopiesNull(request) == \E i \in DOMAIN request.params : request.params[i].value = NoText

-----------------------------------------------------------------------------
(* The commands: what they return, whether they made a response, and whether
   they crash: "NULL" in the strcmp of a request without a sub command, "wild" if
   the pointer they free, which nobody set, happens to be a bad one. *)

Good(arg) == arg = "good"

\* `unread' decodes, but what it names is not there.
Decodes(arg) == arg \in {"good", "unread"}

Result(ok, response) == [ok |-> ok, response |-> response, crash |-> "no"]

ComparesNull == [ok |-> FALSE, response |-> FALSE, crash |-> "NULL"]

\* The response is made only for what succeeds.
ipfs_core_http_process_name(request) ==
  LET ok == request.sub_command \in {"resolve", "publish"} /\ Good(request.arguments[1])
  IN  IF request.arguments = <<>> THEN Result(FALSE, FALSE)
      ELSE IF request.sub_command = NoText THEN ComparesNull
      ELSE Result(ok, ok)

\* The response is made before it is known whether the object can be read.
ipfs_core_http_process_object(request) ==
  LET one == request.sub_command = "get" /\ Len(request.arguments) = 1
  IN  IF request.sub_command = NoText THEN ComparesNull
      ELSE Result(one /\ Good(request.arguments[1]), one /\ Decodes(request.arguments[1]))

Failures(request) == Len(SelectSeq(request.arguments, LAMBDA a : ~Good(a)))

\* An argument that does not decode has its cid freed, which was never set.
FreesUnset(request) == \E i \in DOMAIN request.arguments : ~Decodes(request.arguments[i])

ResultOfEach(ok, response, request) ==
  [ok |-> ok, response |-> response, crash |-> IF FreesUnset(request) THEN "wild" ELSE "no"]

ipfs_core_http_process_dht_provide(request) ==
  ResultOfEach(Failures(request) < Len(request.arguments), TRUE, request)

ipfs_core_http_process_dht_get(request) ==
  IF Len(request.arguments) # 1 THEN Result(FALSE, FALSE)
  ELSE ResultOfEach(Failures(request) < Len(request.arguments), TRUE, request)

ipfs_core_http_process_dht(request) ==
  IF request.sub_command = NoText THEN ComparesNull
  ELSE CASE request.sub_command = "provide" -> ipfs_core_http_process_dht_provide(request)
         [] request.sub_command = "get"     -> ipfs_core_http_process_dht_get(request)
         [] OTHER                           -> Result(FALSE, FALSE)

\* The address converts and the dial succeeds.
ipfs_core_http_process_swarm_connect(request) ==
  LET ok == request.arguments # <<>> /\ Good(request.arguments[1]) IN Result(ok, ok)

ipfs_core_http_process_swarm(request) ==
  IF request.sub_command = NoText THEN ComparesNull
  ELSE IF request.sub_command = "connect" THEN ipfs_core_http_process_swarm_connect(request)
  ELSE Result(FALSE, FALSE)

ipfs_core_http_request_process(request) ==
  CASE request.command = "name"   -> ipfs_core_http_process_name(request)
    [] request.command = "object" -> ipfs_core_http_process_object(request)
    [] request.command = "dht"    -> ipfs_core_http_process_dht(request)
    [] request.command = "swarm"  -> ipfs_core_http_process_swarm(request)
    [] OTHER                      -> Result(FALSE, FALSE)

-----------------------------------------------------------------------------
(* What the connection's thread does with a message [head, method, path, url,
   body].  head is "silent" when nothing comes in time, "cut" when the end of the
   header is not in the first read and "bad" when the request line has no path or
   version. *)

\* How read_all and read_chunked may end.  `reset' is a connection that a read
\* fails on: read's -1 becomes a size, which read_all copies, and which
\* read_chunked adds to what it has.  A chunk that the client leaves `unfinished'
\* is waited for with no end.
ReadBody(msg) ==
  CASE msg.body = "reset"         -> {"crash"}
    [] msg.body = "chunked reset" -> {"crash", "failed", "read"}
    [] msg.body = "broken"        -> {"failed"}
    [] msg.body = "unfinished"    -> {"stalled"}
    [] OTHER                      -> {"read"}

\* boundary_find starts again from the beginning of the body, for ever, when the
\* first "--" in it is not followed by the boundary.
boundary_find(msg) == msg.method = "POST" /\ msg.body = "other boundary"

\* The answers of a method before the path is looked at.
MethodAnswers(msg) ==
  CASE msg.method = "GET"  -> IF msg.path = "webui" THEN <<301>> ELSE <<>>
    [] msg.method = "POST" -> <<>>
    [] OTHER               -> <<500>>

\* Mutant: the answer of a failed command is forgotten.
NoAnswerIfFailed(result) == IF result.ok THEN <<200>> ELSE <<>>

\* The answer of the API: the body of a 200 is the response.
ApiAnswers(result) == IF result.ok THEN <<200>> ELSE <<404>>

Outcome(answers, end) == [answers |-> answers, end |-> end]

\* The request is built and processed, and answered; a 200 takes the response apart.
Processed(msg) ==
  LET request == api_build_http_request(msg.url)
      result  == ipfs_core_http_request_process(request)
      null    == \/ CopiesNull(request) \/ result.crash = "NULL"
                 \/ result.ok /\ ~result.response
      dies    == IF null \/ result.crash = "wild" THEN {Outcome(MethodAnswers(msg), "crash")}
                 ELSE {}
  IN  IF null THEN dies
      ELSE dies \cup {Outcome(MethodAnswers(msg) \o ApiAnswers(result), "quit")}

\* What comes after the body was read, or was not.
Handled(msg, body) ==
  CASE body = "crash"   -> {Outcome(<<>>, "crash")}
    [] body = "stalled" -> {Outcome(<<>>, "stalled")}
    [] body = "failed"  -> {Outcome(<<500>>, "quit")}
    [] body = "read"    -> IF boundary_find(msg) THEN {Outcome(<<>>, "looping")}
                           ELSE IF msg.path = "api" THEN Processed(msg)
                           ELSE {Outcome(MethodAnswers(msg), "quit")}

Outcomes(msg) ==
  CASE msg.head = "silent"         -> {Outcome(<<>>, "quit")}
    [] msg.head \in {"cut", "bad"} -> {Outcome(<<400>>, "quit")}
    [] OTHER                       -> UNION {Handled(msg, body) : body \in ReadBody(msg)}

\* The client: no answer and a 404 are failures.
ipfs_core_http_request_get(answers) == answers # <<>> /\ answers[1] # 404

ipfs_core_http_request_post(answers) == answers # <<>> /\ answers[1] # 404
=============================================================================
