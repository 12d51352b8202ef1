------------------------------- MODULE CgiPipe -------------------------------
(***************************************************************************)
(* One request to a script (src/cgi.rs, src/http/request.rs): the client's *)
(* body on its way to the script's stdin, the script's output on its way   *)
(* to the client, the three edge-triggered registrations that drive both,  *)
(* and the script's exit, which the server learns only from an event.      *)
(*                                                                         *)
(* The script is played as it may behave: it reads stdin to its end first  *)
(* or never looks at it, writes its head and some pieces at its pace, and  *)
(* exits; its streams close before it can be waited for.  A piece is what  *)
(* one write of the script puts into the stream.  How a script breaks its  *)
(* lines is its own: head says how its head does and what ends it, text    *)
(* what every piece of its body holds.  Clients that send another request  *)
(* meanwhile, and the timeout, are played in Server.                       *)
(*   head  "crlf"   CRLF lines and a CRLF CRLF                             *)
(*         "lf"     LF lines and an LF LF                                  *)
(*         "mixed"  lines that end in CRLF, and an LF LF                   *)
(*         "open"   LF lines that no blank line ends                       *)
(*   text  "plain"  no CR      "cr"  a CR      "blank"  a CRLF CRLF        *)
(***************************************************************************)
EXTENDS Integers, Sequences, FiniteSets, SequencesExt

CONSTANTS
    Scripts,      \* the behaviours of scripts to play
    BodySizes,    \* the lengths of request bodies to play
    Encodings,    \* how a body may be sent: "length", "chunked"
    StdinRoom,    \* pieces of body the script's stdin takes
    ReadPieces,   \* pieces of output one read of 4096 bytes may return
    SessionEnds   \* may the session be removed while the script runs?

ASSUME BoundsAssumption ==
    /\ StdinRoom \in Nat \ {0} /\ ReadPieces \in Nat \ {0}
    /\ BodySizes \subseteq Nat /\ Encodings \subseteq {"length", "chunked"}
ASSUME ScriptsAssumption ==
    /\ SessionEnds \in BOOLEAN
    /\ Scripts \subseteq
          [reads : BOOLEAN, pieces : 0 .. 3, sized : BOOLEAN, ok : BOOLEAN,
           head : {"crlf", "lf", "mixed", "open"}, text : {"plain", "cr", "blank"}]

VARIABLES
    script, encoding, body,          \* the script; the request's body, in pieces
    written, consumed, child,        \* the script: pieces out and in, its life
    stdin, stdout,                   \* what its two streams hold
    unsent, inbox, received,         \* the client: body to send, sent; output read
    queued, batch,                   \* edges the poller holds, events of this turn
    conn, pc,                        \* the connection and the loop's place
    session                          \* the request's session is in the store

fixed == <<script, encoding, body>>
process == <<written, consumed, child, stdin, stdout>>
client == <<unsent, inbox, received>>
vars == <<fixed, process, client, queued, batch, conn, pc, session>>

SmallestOf(a, b) == IF a < b THEN a ELSE b

(* What the script writes: its head, of which the last line comes with the *)
(* blank line behind it, and its body; and what the client should make of  *)
(* it.  Of a piece that is cut, the beginning is missing.                  *)
Piece == <<"head", "last", "p1", "p2", "p3">>
PieceCut == <<"head", "last", "cut", "p2", "p3">>
Answer(output) ==
    SubSeq(output, 1, script.pieces + 2) \o (IF script.sized THEN <<>> ELSE <<"end">>)
Framed == Answer(Piece)

Exited == child # "running"   \* its ends of the streams are closed

(* The child has been spawned, its streams are registered, and its stdin   *)
(* can be written.  A chunked body leaves body_remaining at zero.          *)
Init ==
    /\ script \in Scripts /\ body \in BodySizes
    /\ encoding \in IF body = 0 THEN {"length"} ELSE Encodings
    /\ written = 0 /\ consumed = 0 /\ child = "running"
    /\ stdin = 0 /\ stdout = <<>>
    /\ unsent = body /\ inbox = 0 /\ received = <<>>
    /\ queued = {"in"} /\ batch = {}
    /\ conn = [action |-> "Cgi", parse_state |-> "ReadHeaders", in_stream |-> TRUE,
               cgi_out_token |-> TRUE, cgi_in_token |-> TRUE,
               body_remaining |-> IF encoding = "length" THEN body ELSE 0,
               cgi_buffer |-> 0, header_buf |-> <<>>, write_buffer |-> <<>>, wants_write |-> FALSE,
               closed |-> FALSE]
    /\ pc = "poll" /\ session = TRUE

-----------------------------------------------------------------------------
(* The loop.  queued holds the sources with an edge; a client's event may  *)
(* be readable, writable or both.                                          *)

OutReady == conn.action = "Cgi" /\ (stdout # <<>> \/ Exited)
InReady == conn.action = "Cgi" /\ conn.in_stream /\ (stdin < StdinRoom \/ Exited)

Poll ==
    /\ pc = "poll" /\ queued # {}
    /\ batch' = (IF "out" \in queued /\ OutReady THEN {"out"} ELSE {})
           \cup (IF "in" \in queued /\ InReady THEN {"in"} ELSE {})
           \cup (IF "client" \in queued /\ inbox > 0 THEN {"readable"} ELSE {})
           \cup (IF "client" \in queued /\ conn.wants_write THEN {"writable"} ELSE {})
    /\ queued' = {}
    /\ pc' = "events"
    /\ UNCHANGED <<fixed, process, client, conn, session>>

Begin(flags, place) ==
    /\ pc = "events" /\ flags \cap batch # {}
    /\ pc' = place
    /\ UNCHANGED <<fixed, process, client, queued, conn, session>>

(* handle_cgi_event: the phase whose token the event carries, if the       *)
(* connection still knows that token, and then the watch of the process.   *)
OutEvent ==
    /\ Begin({"out"}, IF conn.cgi_out_token THEN "cgi_read" ELSE "monitor")
    /\ batch' = batch \ {"out"}
InEvent ==
    /\ Begin({"in"}, IF conn.cgi_in_token THEN "cgi_write" ELSE "monitor")
    /\ batch' = batch \ {"in"}
ClientEvent == Begin({"readable", "writable"}, "read") /\ UNCHANGED batch

EndOfBatch ==
    /\ pc = "events" /\ batch = {}
    /\ pc' = "poll"
    /\ UNCHANGED <<fixed, process, client, queued, batch, conn, session>>

-----------------------------------------------------------------------------
(* The script's events.                                                    *)

(* process_cgi_stdout searches header_buf, where the output is collected   *)
(* from its beginning, for CRLF CRLF, and only without one for LF LF.      *)
CrlfEndsHead(buf) == script.head = "crlf" /\ Len(buf) > 1
CrlfInBody(buf) == script.text = "blank" /\ Len(buf) > 2
LfEndsHead(buf) == script.head \in {"lf", "mixed"} /\ Len(buf) > 1
Found(buf) == CrlfEndsHead(buf) \/ CrlfInBody(buf) \/ LfEndsHead(buf)

HoldsCr(buf) ==
    script.head \in {"crlf", "mixed"} \/ (script.text # "plain" /\ Len(buf) > 2)

(* The body is cut where a CRLF CRLF of its own is taken for the end of    *)
(* the head, or LF LF for four bytes since there is a CR somewhere: the    *)
(* first two bytes behind it are dropped, and if none are there the slice  *)
(* panics.                                                                 *)
Misplaced(buf) == ~CrlfEndsHead(buf) /\ HoldsCr(buf)
Overruns(buf) == Found(buf) /\ Misplaced(buf) /\ Len(buf) = 2
Split(buf) == IF Misplaced(buf) THEN [buf EXCEPT ![3] = "cut"] ELSE buf

(* The head decides how the rest is framed.                                *)
(* Mutant: the read that ends the head stands for all that was collected.  *)
Processed_ThisRead(c, units) ==
    LET buf == c.header_buf \o units IN
    IF c.parse_state # "ReadHeaders" THEN [c EXCEPT !.write_buffer = @ \o units]
    ELSE IF ~Found(buf) \/ Overruns(buf) THEN [c EXCEPT !.header_buf = buf]
    ELSE [c EXCEPT !.header_buf = buf, !.write_buffer = @ \o units,
                   !.parse_state = IF script.sized THEN "StreamBody" ELSE "StreamBodyChuncked"]
Processed(c, units) ==
    LET buf == c.header_buf \o units IN
    IF c.parse_state # "ReadHeaders" THEN [c EXCEPT !.write_buffer = @ \o units]
    ELSE IF ~Found(buf) \/ Overruns(buf) THEN [c EXCEPT !.header_buf = buf]
    ELSE [c EXCEPT !.header_buf = buf, !.write_buffer = @ \o Split(buf),
                   !.parse_state = IF script.sized THEN "StreamBody" ELSE "StreamBodyChuncked"]

Panics(c, units) == c.parse_state = "ReadHeaders" /\ Overruns(c.header_buf \o units)

WantsWrite(c) == [c EXCEPT !.wants_write = TRUE]

(* read_cgi_output: one read an event.  Without a session what was read is *)
(* dropped; at end of file a chunked answer is ended, the tokens forgotten. *)
(* An event on stdout that is served finds one or the other.  A panic is   *)
(* the end of the server.                                                  *)
ReadData ==
    LET n == SmallestOf(ReadPieces, Len(stdout))
        units == SubSeq(stdout, 1, n)
    IN
    /\ pc = "cgi_read" /\ conn.action = "Cgi" /\ stdout # <<>>
    /\ stdout' = SubSeq(stdout, n + 1, Len(stdout))
    /\ conn' = WantsWrite(IF session THEN Processed(conn, units) ELSE conn)
    /\ queued' = queued \cup {"client"}
    /\ pc' = IF session /\ Panics(conn, units) THEN "crashed" ELSE "monitor"
    /\ UNCHANGED <<fixed, written, consumed, child, stdin, client, batch, session>>

Forget(c) == [c EXCEPT !.cgi_out_token = FALSE, !.cgi_in_token = FALSE]

(* Mutant: a hang-up is taken for the end of file.                         *)
ReadEof_HangUp ==
    /\ pc = "cgi_read" /\ conn.action = "Cgi" /\ Exited
    /\ conn' = Forget(WantsWrite([conn EXCEPT !.write_buffer =
                   IF conn.parse_state = "StreamBodyChuncked" THEN Append(@, "end") ELSE @]))
    /\ queued' = queued \cup {"client"}
    /\ pc' = "monitor"
    /\ UNCHANGED <<fixed, process, client, batch, session>>
ReadEof ==
    /\ pc = "cgi_read" /\ conn.action = "Cgi" /\ stdout = <<>> /\ Exited
    /\ IF conn.parse_state = "StreamBodyChuncked"
       THEN /\ conn' = Forget(WantsWrite([conn EXCEPT !.write_buffer = Append(@, "end")]))
            /\ queued' = queued \cup {"client"}
       ELSE conn' = Forget(conn) /\ UNCHANGED queued
    /\ pc' = "monitor"
    /\ UNCHANGED <<fixed, process, client, batch, session>>

(* write_to_cgi_stdin: with everything sent, stdin is closed.              *)
CanWrite == conn.cgi_buffer > 0 /\ conn.action = "Cgi" /\ conn.in_stream

(* Mutant: what is still to come from the client is not asked for.         *)
SentAll_Buffer(c) == c.cgi_buffer = 0
SentAll(c) == c.body_remaining = 0 /\ c.cgi_buffer = 0

WriteStdin ==
    LET n == SmallestOf(conn.cgi_buffer, StdinRoom - stdin)
        c == WantsWrite([conn EXCEPT !.cgi_buffer = @ - n])
    IN
    /\ pc = "cgi_write" /\ CanWrite /\ ~Exited /\ n > 0
    /\ stdin' = stdin + n
    /\ conn' = IF SentAll(c) THEN [c EXCEPT !.in_stream = FALSE, !.cgi_in_token = FALSE] ELSE c
    /\ queued' = queued \cup {"client"}
    /\ pc' = "monitor"
    /\ UNCHANGED <<fixed, written, consumed, child, stdout, client, batch, session>>

WriteFails ==
    /\ pc = "cgi_write" /\ CanWrite /\ Exited
    /\ conn' = [conn EXCEPT !.closed = TRUE]
    /\ pc' = "monitor"
    /\ UNCHANGED <<fixed, process, client, queued, batch, session>>

WriteNothing ==
    /\ pc = "cgi_write" /\ (~CanWrite \/ (~Exited /\ stdin = StdinRoom))
    /\ pc' = "monitor"
    /\ UNCHANGED <<fixed, process, client, queued, batch, conn, session>>

(* monitor_cgi_process: the exit of the child ends the action, whatever    *)
(* its stdout still holds.                                                 *)
Premature == ~script.ok /\ conn.parse_state = "ReadHeaders"

Reaped(c) ==
    WantsWrite([Forget(c) EXCEPT !.action = "None", !.in_stream = FALSE,
                                 !.write_buffer = IF Premature THEN <<"505">> ELSE @,
                                 !.closed = @ \/ Premature])

MonitorExit ==
    /\ pc = "monitor" /\ conn.action = "Cgi" /\ child = "zombie"
    /\ child' = "reaped"
    /\ conn' = Reaped(conn)
    /\ queued' = queued \cup {"client"}
    /\ pc' = "events"
    /\ UNCHANGED <<fixed, written, consumed, stdin, stdout, client, batch, session>>

MonitorAlive ==
    /\ pc = "monitor" /\ (conn.action = "None" \/ child # "zombie")
    /\ pc' = "events"
    /\ UNCHANGED <<fixed, process, client, queued, batch, conn, session>>

-----------------------------------------------------------------------------
(* The client's event: the read phase takes the body that has arrived, the *)
(* write phase flushes.  Only a sized body registers stdin again.          *)

(* Mutants: a chunked body is counted too; stdin is registered only once;  *)
(* the read phase leaves the interest it set.                              *)
Feed_Counts(c) ==
    IF c.action # "Cgi" THEN c
    ELSE [c EXCEPT !.cgi_buffer = @ + inbox, !.body_remaining = @ - inbox]
RearmsStdin_Never == FALSE
StillWants_Read == FALSE

Feed(c) ==
    IF c.action # "Cgi" THEN c
    ELSE [c EXCEPT !.cgi_buffer = @ + inbox,
                   !.body_remaining = IF encoding = "length" THEN @ - inbox ELSE @]

RearmsStdin == encoding = "length" /\ conn.cgi_in_token /\ InReady

StillWants == conn.write_buffer # <<>>

ReadPhase ==
    /\ pc = "read"
    /\ IF "readable" \in batch /\ ~conn.closed
       THEN /\ conn' = [Feed(conn) EXCEPT !.wants_write = StillWants]
            /\ inbox' = 0
            /\ queued' = queued \cup (IF conn'.wants_write THEN {"client"} ELSE {})
                                \cup (IF RearmsStdin THEN {"in"} ELSE {})
       ELSE UNCHANGED <<conn, inbox, queued>>
    /\ pc' = "write"
    /\ UNCHANGED <<fixed, process, unsent, received, batch, session>>

WritePhase ==
    /\ pc = "write"
    /\ IF "writable" \in batch
       THEN /\ received' = received \o conn.write_buffer
            /\ conn' = [conn EXCEPT !.write_buffer = <<>>, !.wants_write = conn.closed]
       ELSE UNCHANGED <<received, conn>>
    /\ pc' = "lifecycle"
    /\ UNCHANGED <<fixed, process, unsent, inbox, queued, batch, session>>

(* Body that no script takes any more keeps a closing connection.          *)
Lifecycle ==
    /\ pc = "lifecycle"
    /\ pc' = IF conn.closed /\ conn.write_buffer = <<>> /\ conn.cgi_buffer = 0
             THEN "gone" ELSE "events"
    /\ batch' = batch \ {"readable", "writable"}
    /\ UNCHANGED <<fixed, process, client, queued, conn, session>>

-----------------------------------------------------------------------------
(* The world: the client, the script, and the sweep of the sessions.       *)

Served == pc \notin {"gone", "crashed"}

ClientSend ==
    /\ unsent > 0 /\ Served
    /\ unsent' = unsent - 1 /\ inbox' = inbox + 1
    /\ queued' = queued \cup {"client"}
    /\ UNCHANGED <<fixed, process, received, batch, conn, pc, session>>

ScriptRead ==
    /\ child = "running" /\ Served /\ script.reads /\ stdin > 0
    /\ stdin' = stdin - 1 /\ consumed' = consumed + 1
    /\ queued' = queued \cup {"in"}
    /\ UNCHANGED <<fixed, written, child, stdout, client, batch, conn, pc, session>>

SawEof == stdin = 0 /\ ~conn.in_stream

ScriptWrite ==
    /\ child = "running" /\ Served
    /\ script.reads => SawEof
    /\ written <= script.pieces + 1
    /\ written' = written + 1
    /\ stdout' = Append(stdout, Piece[written + 1])
    /\ queued' = queued \cup {"out"}
    /\ UNCHANGED <<fixed, consumed, child, stdin, client, batch, conn, pc, session>>

(* Exiting closes the streams, and only then can the child be waited for.  *)
ScriptExit ==
    /\ child = "running" /\ Served /\ (script.ok => written = script.pieces + 2)
    /\ child' = "closed"
    /\ queued' = queued \cup {"out", "in"}
    /\ UNCHANGED <<fixed, written, consumed, stdin, stdout, client, batch, conn, pc, session>>

ScriptEnds ==
    /\ child = "closed"
    /\ child' = "zombie"
    /\ UNCHANGED <<fixed, written, consumed, stdin, stdout, client, queued, batch, conn, pc, session>>

SessionEnd ==
    /\ SessionEnds /\ session
    /\ session' = FALSE
    /\ UNCHANGED <<fixed, process, client, queued, batch, conn, pc>>

-----------------------------------------------------------------------------
Loop ==
    \/ Poll \/ OutEvent \/ InEvent \/ ClientEvent \/ EndOfBatch
    \/ ReadData \/ ReadEof \/ WriteStdin \/ WriteFails \/ WriteNothing
    \/ MonitorExit \/ MonitorAlive \/ ReadPhase \/ WritePhase \/ Lifecycle

Script == ScriptRead \/ ScriptWrite \/ ScriptExit \/ ScriptEnds

Next == Loop \/ Script \/ ClientSend \/ SessionEnd

Spec == Init /\ [][Next]_vars

(* The loop serves its events, the client sends its body, and the script   *)
(* reads, writes and exits.                                                *)
Fairness == WF_vars(Loop) /\ WF_vars(Script) /\ WF_vars(ClientSend)

FairSpec == Spec /\ Fairness

-----------------------------------------------------------------------------
(* Properties.                                                             *)

(* The type invariant.                                                     *)
TypeOK ==
    /\ stdin \in 0 .. StdinRoom /\ consumed \in 0 .. body
    /\ conn.body_remaining \in 0 .. body /\ conn.cgi_buffer \in 0 .. body
    /\ conn.parse_state \in {"ReadHeaders", "StreamBody", "StreamBodyChuncked"}
    /\ child \in {"running", "closed", "zombie", "reaped"}
    /\ queued \subseteq {"out", "in", "client"}
    /\ batch \subseteq {"out", "in", "readable", "writable"}

Shown == received \o conn.write_buffer

(* The scripts whose output is split where their head ends.                *)
Clear == script.head = "crlf" \/ (script.head = "lf" /\ script.text = "plain")

(* While its session lasts, a script's output reaches the client in order, *)
(* each piece once, and its end is marked after the last piece; a split in *)
(* the wrong place costs the beginning of the first piece and no more; a   *)
(* script that fails before its head is read is answered by 505 alone.     *)
OutputInOrder ==
    /\ session /\ script.ok =>
          IsPrefix(Shown, Framed) \/ (~Clear /\ IsPrefix(Shown, Answer(PieceCut)))
    /\ \A k \in DOMAIN Shown : Shown[k] = "505" => Len(Shown) = 1

(* A script that saw the end of a sized body was given all of it.          *)
StdinWhole ==
    encoding = "length" /\ child = "running" /\ ~conn.in_stream => consumed + stdin = body

(* When end of file was read, nothing of the output of a clear script is   *)
(* missing: what the client has and will be sent is the whole answer.  Of  *)
(* another, the beginning of the first piece may be, or, if no end of the  *)
(* head was found, everything.                                             *)
EofIsWhole ==
    conn.action = "Cgi" /\ ~conn.cgi_out_token /\ session /\ script.ok =>
        \/ Shown = Framed
        \/ ~Clear /\ (Shown = Answer(PieceCut) \/ (Shown = <<>> /\ conn.parse_state = "ReadHeaders"))

(* A sized body reaches a script that reads it, and then its end does.     *)
BodyDelivered ==
    encoding = "length" /\ body > 0 /\ script.reads /\ script.ok
        ~> consumed = body /\ SawEof

(* Whatever is in write_buffer is flushed.                                 *)
OutputFlushed == conn.write_buffer # <<>> ~> conn.write_buffer = <<>>

(* "Server Sends the final HTML to the browser": the whole output of a     *)
(* script that succeeds reaches its client.                                *)
WholeOutput == script.ok ~> received = Framed \/ ~session
=============================================================================
