------------------------------- MODULE MCNode -------------------------------
(* A daemon whose API has two entries for its connections. *)
EXTENDS Node

CONSTANTS k1, k2, k3

Whole(method, path, query) ==
  [head |-> "whole", method |-> method, path |-> "api", url |-> [path |-> path, query |-> query],
   body |-> "none"]

\* A name that is not there, a request without a sub command, and a chunk that is
\* left unfinished.
Ask        == Whole("POST", <<"name", "resolve">>, <<[name |-> "arg", value |-> "bad"]>>)
Ill        == Whole("GET", <<"object">>, <<>>)
Unfinished == [Ask EXCEPT !.body = "unfinished"]

From(k, msgs) == {[client |-> k, msg |-> msg] : msg \in msgs}

SomeMessages == From(k1, {Ask, Ill}) \cup From(k2, {Unfinished}) \cup From(k3, {Silent})
=============================================================================
