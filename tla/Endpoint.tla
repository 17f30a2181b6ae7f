------------------------------- MODULE Endpoint -------------------------------
(***************************************************************************)
(* The address of the RESTful service (pkg/rest/rest.go) between its two   *)
(* forms: the URI after --restful-uri, which is what a user types and what *)
(* ToCmdLine writes, and the scheme, host and path that NewEndpoint reads. *)
(*                                                                         *)
(* A path is a sequence of characters, of which "?" begins the query and   *)
(* "%" an escape; "25" and "3F" are the codes of "%" and "?". The length   *)
(* of a path is counted in these.                                          *)
(***************************************************************************)
EXTENDS Integers, Sequences, SequencesExt

CONSTANTS
  HostsWithPort,      \* the hosts that have a port
  MaxSocketPathLen    \* 103

ASSUME MaxSocketPathLenAssumption == MaxSocketPathLen \in Nat

BadURI == [scheme |-> "error", host |-> "", path |-> <<>>]
DefaultURI == [scheme |-> "none", host |-> "", path |-> <<>>]

\* url.ParseRequestURI: the query is cut off and the escapes are undone.
Escapes == [code \in {"25", "3F"} |-> IF code = "25" THEN "%" ELSE "?"]

Unescape(u, c) ==
  CASE u.escape           -> [ok |-> u.ok /\ c \in DOMAIN Escapes, escape |-> FALSE,
                              text |-> IF c \in DOMAIN Escapes THEN Append(u.text, Escapes[c]) ELSE u.text]
    [] ~u.escape /\ c = "%" -> [u EXCEPT !.escape = TRUE]
    [] OTHER              -> [u EXCEPT !.text = Append(@, c)]

WithoutQuery(path) ==
  LET marks == {i \in DOMAIN path : path[i] = "?"}
  IN  IF marks = {} THEN path ELSE SubSeq(path, 1, (CHOOSE i \in marks : \A j \in marks : i <= j) - 1)

\* url.unescape
UnescapeAll(s) ==
  LET u[n \in 0 .. Len(s)] ==
        IF n = 0 THEN [ok |-> TRUE, escape |-> FALSE, text |-> <<>>] ELSE Unescape(u[n - 1], s[n])
  IN  u[Len(s)]

ParseRequestURI(uri) ==
  LET u == UnescapeAll(WithoutQuery(uri.path))
  IN  IF u.ok /\ ~u.escape THEN [uri EXCEPT !.path = u.text] ELSE BadURI

ToRestScheme == [none |-> "None", unix |-> "Unix", tcp |-> "TCP", http |-> "TCP"]

\* parseRestfulURI
ValidURI(u) ==
  /\ u.scheme \in DOMAIN ToRestScheme
  /\ ToRestScheme[u.scheme] = "TCP" => u.host \in HostsWithPort /\ u.path = <<>>
  /\ ToRestScheme[u.scheme] = "Unix" => u.host = "" /\ Len(u.path) \in 1 .. MaxSocketPathLen

NewEndpoint(uri) ==
  LET u == ParseRequestURI(uri)
  IN  IF ValidURI(u) THEN [u EXCEPT !.scheme = ToRestScheme[u.scheme]] ELSE BadURI

\* Slip: the path of a socket is written where the host belongs.
EndpointToCmdLine_OneSlash(ep) ==
  CASE ep.scheme = "Unix" -> [scheme |-> "unix", host |-> "h", path |-> Tail(ep.path)]
    [] ep.scheme = "TCP"  -> [scheme |-> "tcp", host |-> ep.host, path |-> ep.path]
    [] OTHER              -> DefaultURI

\* Nothing is written for no service, and the default is read.
EndpointToCmdLine(ep) ==
  CASE ep.scheme = "Unix" -> [scheme |-> "unix", host |-> "", path |-> ep.path]
    [] ep.scheme = "TCP"  -> [scheme |-> "tcp", host |-> ep.host, path |-> ep.path]
    [] OTHER              -> DefaultURI
=============================================================================
