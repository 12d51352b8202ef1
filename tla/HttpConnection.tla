--------------------------- MODULE HttpConnection ---------------------------
(***************************************************************************)
(* One client connection between its socket and its requests               *)
(* (src/http/http_connection.rs, src/http/request.rs, src/upload.rs): what *)
(* is read, parsed, answered and written, in which order, and which edge   *)
(* of the poller makes the next step happen.                               *)
(*                                                                         *)
(* The client plays a program, a sequence of kinds of requests.  Bytes are *)
(* units: a request is its head and, for an upload, two pieces of body; an *)
(* answer is one unit, except for a file: a head and FileChunks pieces.  A *)
(* page is any answer with a body of its own (a listing, an error page); a *)
(* redirect and a deletion, which have none, are "bare".                   *)
(* Scripts are not played here: see Server.                                *)
(***************************************************************************)
EXTENDS Integers, FiniteSets, Sequences, SequencesExt

CONSTANTS
    Programs,    \* programs of clients that wait for an answer before they go on
    Pipelines,   \* programs of clients that send all they have
    FileChunks,  \* pieces of a file, each read into write_buffer at once
    SendBuffer,  \* units the kernel takes before a write would block
    ReadLimit,   \* units in request.buffer at which read_data stops
    DiskFaults   \* may reading or writing a file fail?

Kind == {"page", "bare", "file", "upload", "chunked", "bad"}
Nobody == 0      \* no request: requests are numbered from 1

ASSUME BoundsAssumption ==
    FileChunks \in Nat \ {0} /\ SendBuffer \in Nat \ {0} /\ ReadLimit \in Nat \ {0}
ASSUME ProgramsAssumption ==
    Programs \subseteq Seq(Kind) /\ Pipelines \subseteq Seq(Kind) /\ DiskFaults \in BOOLEAN

SmallestOf(a, b) == IF a < b THEN a ELSE b
LargestOf(a, b) == IF a < b THEN b ELSE a

VARIABLES
    program, eager,   \* the client: its requests, does it send them at once?
    sent, received,   \* the client: units sent, answers' units received
    sock,             \* the kernel: both directions, and the poller's interest
    conn,             \* the HttpConnection
    disk,             \* what uploads stored, by the request that named the file
    pc, ret, event,   \* the handler: its place, its caller, the event served
    faulty            \* a file could not be read or written

vars == <<program, eager, sent, received, sock, conn, disk, pc, ret, event, faulty>>

-----------------------------------------------------------------------------
(* The client's side.                                                      *)

RequestUnits(i) ==
    IF program[i] \in {"upload", "chunked"}
    THEN <<<<i, "head">>, <<i, "data">>, <<i, "last">>>>
    ELSE <<<<i, "head">>>>

Wire == FlattenSeq([i \in 1 .. Len(program) |-> RequestUnits(i)])

AnswerUnits(i) ==
    IF program[i] = "file"
    THEN <<<<i, "head", 0>>>> \o [k \in 1 .. FileChunks |-> <<i, "data", k>>]
    ELSE <<<<i, "answer", 0>>>>

Answers(n) == FlattenSeq([i \in 1 .. n |-> AnswerUnits(i)])

Readable(k) == k.inbox # <<>> \/ k.eof
Writable(k) == Len(k.outbox) < SendBuffer
Ready(k) == ("R" \in k.interest /\ Readable(k)) \/ ("W" \in k.interest /\ Writable(k))

(* Registering again also queues an event for what is ready already.       *)
Reregister(k, interest) ==
    LET r == [k EXCEPT !.interest = interest]
    IN  [r EXCEPT !.queued = @ \/ Ready(r)]

(* The poller queues an edge only for a direction it watches.              *)
Edge(k, direction) == [k EXCEPT !.queued = @ \/ direction \in k.interest]

Init ==
    /\ \/ program \in Programs /\ eager = FALSE
       \/ program \in Pipelines /\ eager = TRUE
    /\ sent = 0 /\ received = <<>>
    /\ sock = [inbox |-> <<>>, outbox |-> <<>>, eof |-> FALSE,
               interest |-> {"R"}, queued |-> FALSE]
    /\ conn = [buffer |-> <<>>, state |-> "RequestLine", chunk_state |-> "ReadSize",
               request |-> Nobody, action |-> "None", file |-> Nobody, left |-> 0,
               upload_manager |-> Nobody, response |-> Nobody, write_buffer |-> <<>>,
               closed |-> FALSE]
    /\ disk = [i \in {} |-> <<>>]
    /\ pc = "wait" /\ ret = "write" /\ event = {}
    /\ faulty = FALSE

ClientSend ==
    /\ sent < Len(Wire) /\ ~sock.eof /\ pc # "gone"
    /\ LET u == Wire[sent + 1] IN
          /\ ~eager /\ u[2] = "head" => Len(received) >= Len(Answers(u[1] - 1))
          /\ sock' = Edge([sock EXCEPT !.inbox = Append(@, u)], "R")
    /\ sent' = sent + 1
    /\ UNCHANGED <<program, eager, received, conn, disk, pc, ret, event, faulty>>

ClientReceive ==
    /\ sock.outbox # <<>>
    /\ received' = Append(received, Head(sock.outbox))
    /\ LET k == [sock EXCEPT !.outbox = Tail(@)] IN
          sock' = IF Writable(sock) THEN k ELSE Edge(k, "W")
    /\ UNCHANGED <<program, eager, sent, conn, disk, pc, ret, event, faulty>>

(* The client closes its side, with every answer or before.                *)
ClientClose ==
    /\ ~sock.eof
    /\ sock' = Edge([sock EXCEPT !.eof = TRUE], "R")
    /\ UNCHANGED <<program, eager, sent, received, conn, disk, pc, ret, event, faulty>>

-----------------------------------------------------------------------------
(* handle_connection: an event, then the read, write and lifecycle phases. *)

KeepClient == UNCHANGED <<program, eager, sent, received>>

Poll ==
    /\ pc = "wait" /\ sock.queued
    /\ event' = sock.interest \cap ((IF Readable(sock) THEN {"R"} ELSE {}) \cup
                                    (IF Writable(sock) THEN {"W"} ELSE {}))
    /\ sock' = [sock EXCEPT !.queued = FALSE]
    /\ pc' = IF event' = {} THEN "wait" ELSE "read"
    /\ KeepClient /\ UNCHANGED <<conn, disk, ret, faulty>>

SkipRead ==
    /\ pc = "read" /\ (conn.closed \/ "R" \notin event)
    /\ pc' = "write"
    /\ KeepClient /\ UNCHANGED <<sock, conn, disk, ret, event, faulty>>

(* read_data stops when the buffer is long; end of file is seen only by a  *)
(* read that finds nothing else.                                           *)
UnitsRead ==
    IF Len(conn.buffer) + Len(sock.inbox) < ReadLimit THEN Len(sock.inbox)
    ELSE SmallestOf(Len(sock.inbox), LargestOf(1, ReadLimit - Len(conn.buffer)))

(* Mutant: a read of nothing ends the loop like a read that would block.   *)
SeesEof_Ignored == FALSE
SeesEof == sock.eof /\ Len(conn.buffer) + Len(sock.inbox) < ReadLimit

(* handle_read_phase: what arrived with the end of file is not processed.  *)
ReadPhase ==
    /\ pc = "read" /\ ~conn.closed /\ "R" \in event
    /\ conn' = [conn EXCEPT !.buffer = @ \o SubSeq(sock.inbox, 1, UnitsRead),
                            !.closed = SeesEof]
    /\ sock' = Reregister([sock EXCEPT !.inbox = SubSeq(@, UnitsRead + 1, Len(@))], {"R"})
    /\ pc' = IF ~conn'.closed /\ conn'.buffer # <<>> THEN "request" ELSE "write"
    /\ ret' = "write"
    /\ KeepClient /\ UNCHANGED <<disk, event, faulty>>

SkipWrite ==
    /\ pc = "write" /\ "W" \notin event
    /\ pc' = "lifecycle"
    /\ KeepClient /\ UNCHANGED <<sock, conn, disk, ret, event, faulty>>

(* handle_write_phase, first part: an empty buffer is refilled from a file *)
(* that is being downloaded; at its end the action ends.                   *)
(* Mutant: the end of the file is not noticed.                             *)
NextPiece_Endless(c) ==
    [c EXCEPT !.left = @ - 1,
              !.write_buffer = <<<<c.file, "data", FileChunks + 1 - c.left>>>>]
NextPiece(c) ==
    IF c.left = 0 THEN [c EXCEPT !.action = "None"]
    ELSE [c EXCEPT !.left = @ - 1,
                   !.write_buffer = <<<<c.file, "data", FileChunks + 1 - c.left>>>>]

Refill ==
    /\ pc = "write" /\ "W" \in event
    /\ IF conn.write_buffer = <<>> /\ conn.action = "FileDownload"
       THEN \E fault \in {FALSE, DiskFaults} :
               /\ conn' = IF fault THEN [conn EXCEPT !.closed = TRUE] ELSE NextPiece(conn)
               /\ faulty' = (faulty \/ fault)
       ELSE UNCHANGED <<conn, faulty>>
    /\ pc' = "flush"
    /\ KeepClient /\ UNCHANGED <<sock, disk, ret, event>>

(* Second part: one write, which takes what the kernel has room for.       *)
Flush ==
    LET n == SmallestOf(Len(conn.write_buffer), SendBuffer - Len(sock.outbox)) IN
    /\ pc = "flush"
    /\ sock' = [sock EXCEPT !.outbox = @ \o SubSeq(conn.write_buffer, 1, n)]
    /\ conn' = [conn EXCEPT !.write_buffer = SubSeq(@, n + 1, Len(@))]
    /\ pc' = IF ~conn.closed /\ conn'.write_buffer = <<>> THEN "post" ELSE "lifecycle"
    /\ KeepClient /\ UNCHANGED <<disk, ret, event, faulty>>

(* Mutants: a download is left to the next read; the response keeps its    *)
(* body.                                                                   *)
AfterFlush_Read == {"R"}
AfterFlush == IF conn.action = "FileDownload" THEN {"R", "W"} ELSE {"R"}
Reset_Status(c) == c
Reset(c) == [c EXCEPT !.response = Nobody]

(* handle_post_write_update: the next request of the buffer, if one starts *)
(* there, is processed.                                                    *)
PostWrite ==
    /\ pc = "post"
    /\ conn' = Reset(conn)
    /\ sock' = Reregister(sock, AfterFlush)
    /\ pc' = IF conn.buffer # <<>> /\ conn.state = "RequestLine" THEN "request" ELSE "lifecycle"
    /\ ret' = "lifecycle"
    /\ KeepClient /\ UNCHANGED <<disk, event, faulty>>

Lifecycle ==
    /\ pc = "lifecycle"
    /\ pc' = IF conn.closed /\ conn.write_buffer = <<>> THEN "gone" ELSE "wait"
    /\ KeepClient /\ UNCHANGED <<sock, conn, disk, ret, event, faulty>>

-----------------------------------------------------------------------------
(* proces_request: parse_request's loop, then the answer it leaves behind. *)

(* response.to_bytes() sends the head that was set and whatever body the   *)
(* response holds.  An answer with a body replaces the one held.           *)
Respond(c, i) ==
    [c EXCEPT !.write_buffer = Append(@, <<i, "answer", 0>>), !.response = i]

(* A redirect, a deletion's 204 and a file's head set no body: behind them *)
(* goes the body of the last answer, unless Reset came between.            *)
Held(c) == IF c.response = Nobody THEN <<>> ELSE <<<<c.response, "answer", 0>>>>
Bodiless(c, head) == [c EXCEPT !.write_buffer = Append(@, head) \o Held(c)]

KeepWorld == KeepClient /\ UNCHANGED <<sock, ret, event>>

(* Parsing the head of a request and setting its action up.                *)
ParseHead(kind) ==
    /\ pc = "request" /\ conn.state = "RequestLine"
    /\ program[Head(conn.buffer)[1]] = kind

Parsed == [conn EXCEPT !.buffer = Tail(@), !.request = Head(conn.buffer)[1]]

(* A listing or an error page, a redirect or a deletion: answered at once. *)
Page ==
    /\ ParseHead("page")
    /\ conn' = Respond(Parsed, Parsed.request)
    /\ pc' = "finish"
    /\ KeepWorld /\ UNCHANGED <<disk, faulty>>

Bare ==
    /\ ParseHead("bare")
    /\ conn' = Bodiless(Parsed, <<Parsed.request, "answer", 0>>)
    /\ pc' = "finish"
    /\ KeepWorld /\ UNCHANGED <<disk, faulty>>

FileDownload ==
    /\ ParseHead("file")
    /\ conn' = [Bodiless(Parsed, <<Parsed.request, "head", 0>>) EXCEPT
                    !.action = "FileDownload", !.file = Parsed.request, !.left = FileChunks]
    /\ pc' = "finish"
    /\ KeepWorld /\ UNCHANGED <<disk, faulty>>

Upload(kind, body) ==
    /\ ParseHead(kind)
    /\ conn' = [Parsed EXCEPT !.action = "Upload", !.state = body]
    /\ pc' = "request"
    /\ KeepWorld /\ UNCHANGED <<disk, faulty>>

(* An error in the request is answered and closes the connection.          *)
Refuse(c) ==
    [Respond(c, c.request) EXCEPT !.state = "RequestLine", !.closed = TRUE]

Bad ==
    /\ ParseHead("bad")
    /\ conn' = Refuse(Parsed)
    /\ pc' = "rearm"
    /\ KeepWorld /\ UNCHANGED <<disk, faulty>>

(* What arrived of the body is at the front of the buffer.                 *)
BodyLength ==
    Max({n \in 0 .. Len(conn.buffer) : \A k \in 1 .. n : conn.buffer[k][1] = conn.request})
BodyUnits == SubSeq(conn.buffer, 1, BodyLength)
Whole == BodyUnits # <<>> /\ Last(BodyUnits)[2] = "last"

(* upload_simple_body: the first upload names the file.                    *)
Store(name, units) ==
    [i \in DOMAIN disk \cup {name} |->
        IF i # name THEN disk[i] ELSE (IF i \in DOMAIN disk THEN disk[i] ELSE <<>>) \o units]

(* The body parsers take what is there; the rest is waited for.            *)
(* Mutant: a part of a body is used and stays in the buffer.               *)
TakeBody_Kept(c) ==
    IF Whole THEN [c EXCEPT !.buffer = SubSeq(@, Len(BodyUnits) + 1, Len(@)),
                            !.state = "Complete"]
    ELSE c
TakeBody(c) ==
    [c EXCEPT !.buffer = SubSeq(@, Len(BodyUnits) + 1, Len(@)),
              !.state = IF Whole THEN "Complete" ELSE @]
AfterBody == pc' = IF Whole THEN "finish" ELSE "rearm"

(* parse_unchunked_body and execute_active_action.                         *)
NewManager == IF conn.upload_manager = Nobody THEN conn.request ELSE conn.upload_manager

Body ==
    /\ pc = "request" /\ conn.state = "Body"
    /\ IF conn.action = "Upload" /\ BodyUnits # <<>>
       THEN /\ conn' = TakeBody([conn EXCEPT !.upload_manager = NewManager])
            /\ disk' = Store(NewManager, BodyUnits)
       ELSE conn' = TakeBody(conn) /\ UNCHANGED disk
    /\ AfterBody
    /\ KeepWorld /\ UNCHANGED faulty

BodyNotStored ==
    /\ pc = "request" /\ conn.state = "Body"
    /\ DiskFaults /\ conn.action = "Upload" /\ BodyUnits # <<>>
    /\ conn' = Refuse([conn EXCEPT !.upload_manager = NewManager])
    /\ faulty' = TRUE
    /\ pc' = "rearm"
    /\ KeepWorld /\ UNCHANGED disk

(* parse_chunked_body: it creates no upload manager, so without an earlier *)
(* upload's the data goes nowhere.  chunk_state survives the request, and  *)
(* in ReadTrailers a chunk size is no header.                              *)
ChunkedBody ==
    /\ pc = "request" /\ conn.state = "ChunkedBody"
    /\ conn.chunk_state = "ReadSize" \/ BodyUnits = <<>>
    /\ LET data == SelectSeq(BodyUnits, LAMBDA u : u[2] = "data") IN
          disk' = IF conn.upload_manager # Nobody /\ data # <<>>
                  THEN Store(conn.upload_manager, data) ELSE disk
    /\ conn' = [TakeBody(conn) EXCEPT !.chunk_state = IF Whole THEN "ReadTrailers" ELSE @]
    /\ AfterBody
    /\ KeepWorld /\ UNCHANGED faulty

ChunkRefused ==
    /\ pc = "request" /\ conn.state = "ChunkedBody"
    /\ conn.chunk_state = "ReadTrailers" /\ BodyUnits # <<>>
    /\ conn' = Refuse(conn)
    /\ pc' = "rearm"
    /\ KeepWorld /\ UNCHANGED <<disk, faulty>>

(* The request is complete: an upload manager adds its answer.             *)
Finish ==
    /\ pc = "finish"
    /\ LET c == [conn EXCEPT !.state = "RequestLine"] IN
          conn' = IF c.upload_manager = Nobody THEN c ELSE Respond(c, c.request)
    /\ pc' = "rearm"
    /\ KeepWorld /\ UNCHANGED <<disk, faulty>>

(* Mutant: only a download asks to be written.                             *)
WantsWrite_Download == conn.action = "FileDownload"
WantsWrite == conn.write_buffer # <<>> \/ conn.action = "FileDownload"

Rearm ==
    /\ pc = "rearm"
    /\ sock' = IF WantsWrite
               THEN Reregister(sock, {"R", "W"}) ELSE sock
    /\ pc' = ret
    /\ KeepClient /\ UNCHANGED <<conn, disk, ret, event, faulty>>

-----------------------------------------------------------------------------
Client == ClientSend \/ ClientReceive \/ ClientClose

Request ==
    \/ Page \/ Bare \/ FileDownload \/ Upload("upload", "Body") \/ Upload("chunked", "ChunkedBody")
    \/ Bad \/ Body \/ BodyNotStored \/ ChunkedBody \/ ChunkRefused \/ Finish \/ Rearm

Handler ==
    Poll \/ SkipRead \/ ReadPhase \/ SkipWrite \/ Refill \/ Flush \/ PostWrite \/ Lifecycle
      \/ Request

Next == Handler \/ Client

Spec == Init /\ [][Next]_vars

Satisfied == sent = Len(Wire) /\ received = Answers(Len(program))

(* The loop serves the events it is given; the client sends its program,   *)
(* reads what arrives and closes when it has everything.                   *)
Fairness ==
    /\ WF_vars(Handler)
    /\ WF_vars(ClientSend) /\ WF_vars(ClientReceive)
    /\ WF_vars(Satisfied /\ ClientClose)

FairSpec == Spec /\ Fairness

-----------------------------------------------------------------------------
(* Properties.                                                             *)

(* The type invariant of the connection.                                   *)
TypeOK ==
    LET N == 1 .. Len(program) IN
    /\ conn.state \in {"RequestLine", "Body", "ChunkedBody", "Complete"}
    /\ conn.action \in {"None", "FileDownload", "Upload"}
    /\ conn.left \in 0 .. FileChunks
    /\ {conn.request, conn.file, conn.upload_manager, conn.response} \subseteq N \cup {Nobody}
    /\ DOMAIN disk \subseteq N
    /\ sock.interest \subseteq {"R", "W"} /\ sock.interest # {}
    /\ Len(sock.outbox) <= SendBuffer

(* What the handler serves faithfully: a client that waits for each answer *)
(* or sends at once only what pages and bare answers answer, with no bare  *)
(* answer behind a page, whose body it could repeat; an upload at most as  *)
(* the last request of its connection; and no chunked body.                *)
Orderly ==
    LET n == Len(program) IN
    /\ \A i \in 1 .. n : program[i] # "chunked"
    /\ \A i \in 1 .. n - 1 :
          program[i] \in IF eager THEN {"page", "bare"} ELSE {"page", "bare", "file"}
    /\ eager /\ n > 1 => program[n] # "file"
    /\ eager => \A i, j \in 1 .. n : i < j /\ program[i] = "page" => program[j] # "bare"

(* The client reads the answers to its requests, whole, in order and once: *)
(* what it has received, what the kernel holds and what write_buffer holds *)
(* together never stray from them ("Supports HTTP Keep-Alive and           *)
(* Pipelining", handle_write_phase).                                       *)
AnswersInOrder ==
    IsPrefix(received \o sock.outbox \o conn.write_buffer, Answers(Len(program)))

(* What the client sees of the connection, as Exchange has it: of an       *)
(* orderly client only the last request is more than one unit.             *)
Replies == [i \in 1 .. Len(program) |-> AnswerUnits(i)]
Asked == SmallestOf(sent, Len(program))
Passed == received \o sock.outbox
Given == Passed \o conn.write_buffer

Seen == INSTANCE Exchange WITH
            Room <- SendBuffer, replies <- Replies, patient <- ~eager, asked <- Asked,
            given <- Given, passed <- Len(Passed), taken <- Len(received), open <- pc # "gone"

(* Towards an orderly client the connection implements Exchange: answers   *)
(* come in order, once, piece by piece and never before their request, and *)
(* nothing handle_write_phase has to write is dropped when the connection  *)
(* is removed.  (Which client it is does not change, so that this is       *)
(* Orderly => Seen!Spec.)                                                  *)
OrderlyExchange == (Orderly => Seen!Init) /\ [][Orderly => Seen!Next]_(Seen!vars)

(* A file named by an upload holds that upload's body and nothing else.    *)
OrderlyStored ==
    Orderly => \A i \in DOMAIN disk : \A k \in DOMAIN disk[i] : disk[i][k] = RequestUnits(i)[k + 1]

(* Edges are not lost: while the handler waits on an open connection, what *)
(* can be read and what can be written have an event queued, and a request *)
(* or part of one that waits in the buffer of an orderly client waits for  *)
(* input or for output before it.                                          *)
Pending == conn.write_buffer # <<>> \/ conn.action = "FileDownload"
NoLostWakeup ==
    pc = "wait" /\ ~conn.closed =>
        /\ Readable(sock) => sock.queued
        /\ Pending /\ Writable(sock) => sock.queued /\ "W" \in sock.interest
        /\ Orderly /\ conn.buffer # <<>> => Pending

(* A client gets all its answers, unless it closed or a file failed.       *)
Excused == sock.eof \/ faulty
AllAnswered == <>(Satisfied \/ Excused)
OrderlyAnswered == Orderly ~> (Satisfied \/ Excused)

(* The connection of an orderly client that has its answers and has closed *)
(* is removed.                                                             *)
OrderlyRemoved == Orderly /\ sock.eof /\ Satisfied ~> pc = "gone"
=============================================================================
