---------------------------- MODULE IgnitionServer ----------------------------
(***************************************************************************)
(* The HTTP server that hands the ignition file to the guest over vsock    *)
(* (main.go, startIgnitionProvisionerServer). Every request is handled by  *)
(* http.ServeContent in a goroutine of its own, and all of them read the   *)
(* one file that was opened when the server started.                       *)
(*                                                                         *)
(* ServeContent reads the beginning to guess the type, seeks to the end to *)
(* learn the size and copies that many bytes from the start; it shares the *)
(* offset of the file with every other handler. The file is a sequence of  *)
(* Chunks pieces, each of which one call to Read returns. A client may     *)
(* disconnect; its handler notices when it writes.                         *)
(***************************************************************************)
EXTENDS Naturals, Sequences

CONSTANTS
  Request,   \* the requests of the guest
  Chunks     \* bound: pieces of the ignition file

ASSUME ChunksAssumption == Chunks \in Nat \ {0}

VARIABLES
  server,   \* "starting", "serving" or "failed"
  pc,       \* where the handler of each request is
  offset,   \* offset of the shared file: pieces before it
  body,     \* pieces each handler has sent
  alone     \* requests handled while no other one was

vars == <<server, pc, offset, body, alone>>

Busy == {"sniff", "rewind", "size", "restart", "copy"}

File == [i \in 1 .. Chunks |-> i]

TypeOK ==
  /\ server \in {"starting", "serving", "failed"}
  /\ pc \in [Request -> Busy \cup {"new", "done", "aborted"}]
  /\ offset \in 0 .. Chunks
  /\ body \in [Request -> Seq(1 .. Chunks)]
  /\ alone \subseteq Request

Init ==
  /\ server = "starting"
  /\ pc = [r \in Request |-> "new"]
  /\ offset = 0
  /\ body = [r \in Request |-> <<>>]
  /\ alone = {}

\* The file is opened and the single vsock device listens, or the error is logged
\* and the machine runs without the server.
StartServer ==
  /\ server = "starting"
  /\ server' \in {"serving", "failed"}
  /\ UNCHANGED <<pc, offset, body, alone>>

Handled == {r \in Request : pc[r] \in Busy}

\* The guest sends a request, perhaps again after an earlier one was given up.
Accept(r) ==
  /\ server = "serving" /\ pc[r] = "new"
  /\ pc' = [pc EXCEPT ![r] = "sniff"]
  /\ alone' = IF Handled = {} THEN alone \cup {r} ELSE alone \ Handled
  /\ UNCHANGED <<server, offset, body>>

\* One call of the handler on the file, which moves the shared offset.
Reads(r, at, next, to) ==
  /\ pc[r] = at
  /\ pc' = [pc EXCEPT ![r] = next]
  /\ offset' = to
  /\ UNCHANGED <<server, body, alone>>

Sniff(r) == Reads(r, "sniff", "rewind", IF offset < Chunks THEN offset + 1 ELSE offset)
Rewind(r) == Reads(r, "rewind", "size", 0)
Size(r) == Reads(r, "size", "restart", Chunks)

\* Slip: the copy starts where the size was read.
Restart_Forgotten(r) == Reads(r, "restart", "copy", offset)
Restart(r) == Reads(r, "restart", "copy", 0)

\* Slip: the end of the file is not noticed.
Copy_PastEnd(r) ==
  /\ pc[r] = "copy" /\ Len(body[r]) < Chunks
  /\ body' = [body EXCEPT ![r] = Append(@, offset + 1)]
  /\ offset' = offset + 1
  /\ UNCHANGED <<server, pc, alone>>

\* io.CopyN: the next piece, until the size announced in the header is sent
Copy(r) ==
  /\ pc[r] = "copy" /\ Len(body[r]) < Chunks /\ offset < Chunks
  /\ body' = [body EXCEPT ![r] = Append(@, offset + 1)]
  /\ offset' = offset + 1
  /\ UNCHANGED <<server, pc, alone>>

\* Slip: the copy ends at the end of the file, whatever was announced.
Respond_AtEOF(r) ==
  /\ pc[r] = "copy"
  /\ Len(body[r]) = Chunks \/ offset = Chunks
  /\ pc' = [pc EXCEPT ![r] = "done"]
  /\ UNCHANGED <<server, offset, body, alone>>

\* All of it was sent.
Respond(r) ==
  /\ pc[r] = "copy" /\ Len(body[r]) = Chunks
  /\ pc' = [pc EXCEPT ![r] = "done"]
  /\ UNCHANGED <<server, offset, body, alone>>

\* The file ends too early, or the client is gone: the connection is closed.
Break(r) ==
  /\ pc[r] = "copy"
  /\ pc' = [pc EXCEPT ![r] = "aborted"]
  /\ UNCHANGED <<server, offset, body, alone>>

Handle(r) == Sniff(r) \/ Rewind(r) \/ Size(r) \/ Restart(r) \/ Copy(r) \/ Respond(r) \/ Break(r)

\* Nothing is left to do.
Idle ==
  /\ server = "failed" \/ \A r \in Request : pc[r] \in {"done", "aborted"}
  /\ UNCHANGED vars

Next == StartServer \/ (\E r \in Request : Accept(r) \/ Handle(r)) \/ Idle

Spec == Init /\ [][Next]_vars

------------------------------------------------------------------------------
\* Correctness.

\* A request that no other one overlaps is sent the file up to the position, so
\* that nothing is missing to the end, and in the end the file, whatever earlier
\* requests, finished or broken, did to the position.
WholeWhenAlone ==
  \A r \in alone :
    /\ pc[r] = "copy" => body[r] = SubSeq(File, 1, offset)
    /\ pc[r] = "done" => body[r] = File

\* Requests that overlap may spoil each other's content, but a response that is
\* cut short never passes for a whole one.
LengthAsAnnounced == \A r \in Request : pc[r] = "done" => Len(body[r]) = Chunks

\* Every response that was sent whole is the ignition file.
EveryResponseIsTheFile == \A r \in Request : pc[r] = "done" => body[r] = File
===============================================================================
