----------------------------- MODULE RequestBody -----------------------------
(***************************************************************************)
(* The body of one request, from the bytes a read returns to what was made *)
(* of them (src/http/request.rs, src/upload.rs): a body in chunks goes     *)
(* through ChunkedBody to a script, a sized multipart body through         *)
(* Multipart into files.  The client's bytes come cut anywhere, the next   *)
(* request may follow at once, and meanwhile other connections store files *)
(* in the same directory.                                                  *)
(***************************************************************************)
EXTENDS Bytes, FiniteSets, SequencesExt

CONSTANTS
    Data,         \* bytes that mean nothing to the decoders
    Messages,     \* the bodies to play
    MaxFragment,  \* bytes that come with one event, at most
    MaxOthers,    \* files other connections store meanwhile
    SizeLimit, TrailerLimit, MaxBodySize,   \* of ChunkedBody
    Slack, DiskFaults                       \* of Multipart

ASSUME BoundsAssumption == MaxFragment \in Nat \ {0} /\ MaxOthers \in Nat
ASSUME LimitsAssumption ==
    /\ SizeLimit \in Nat /\ SizeLimit >= 4       \* a line of two digits
    /\ TrailerLimit \in Nat /\ MaxBodySize \in Nat
    /\ Slack \in Nat /\ Slack >= 3               \* all but one byte of a line break and a delimiter
    /\ DiskFaults \in BOOLEAN

VARIABLES
    message, arrived,              \* the body played, and its bytes so far
    buffer, cursor, chunk_state, remaining_size, total_body_read, cgi_buffer,
    body_remaining, upload, disk, lost,
    others,                        \* the files of other connections
    pc

chunkVars == <<cursor, chunk_state, remaining_size, total_body_read, cgi_buffer>>
fileVars == <<upload, disk, lost>>
vars == <<message, arrived, buffer, chunkVars, body_remaining, fileVars, others, pc>>

Chunks == INSTANCE ChunkedBody
Parts == INSTANCE Multipart

-----------------------------------------------------------------------------
(* What clients send.  A message is a sequence of chunks or of parts; rest *)
(* are bytes of the next request.  A flaw damages the last chunk.          *)

Byte == {"cr", "lf", "-", "b", "0", "1", "2", "3", "4", "t", "x", Parts!Field} \cup Data
Flaws == {"none", "digit", "line", "break", "trailer"}
Headers == Byte \ {"cr", ""}

(* A delimiter occurs in a body only where the client ends a part.         *)
Plain(data) == Find(data, Parts!Delimiter, 0) = NotFound

ChunkedMessage(m) ==
    /\ m \in [encoding : {"chunked"}, body : Seq(Seq(Byte)),
               trailer : {<<>>, <<"t">> \o CRLF}, rest : Seq(Byte), flaw : Flaws]
    /\ \A i \in DOMAIN m.body : Len(m.body[i]) \in 1 .. Len(Chunks!Numerals) - 1
    /\ m.body = <<>> => m.flaw \in {"none", "trailer"}

MultipartMessage(m) ==
    /\ m \in [encoding : {"multipart"}, preamble : Seq(Byte),
               body : Seq([header : Headers, data : Seq(Byte)]), rest : Seq(Byte)]
    /\ m.body # <<>>
    /\ Plain(m.preamble) /\ \A i \in DOMAIN m.body : Plain(m.body[i].data)

ASSUME MessagesAssumption == \A m \in Messages : ChunkedMessage(m) \/ MultipartMessage(m)

Size(chunk) == <<"0", Chunks!Numerals[Len(chunk) + 1]>>
Chunk(chunk, flaw) ==
    (CASE flaw = "digit" -> <<"0", "x">>
       [] flaw = "line" -> [i \in 1 .. SizeLimit |-> "0"] \o Size(chunk)
       [] OTHER -> Size(chunk))
    \o CRLF \o chunk \o (IF flaw = "break" THEN <<"x", "x">> ELSE CRLF)

ChunkedWire(m) ==
    FlattenSeq([i \in DOMAIN m.body |->
                   Chunk(m.body[i], IF i = Len(m.body) THEN m.flaw ELSE "none")])
      \o <<"0">> \o CRLF \o m.trailer
      \o (CASE m.flaw = "trailer" -> <<"x">> \o CRLF [] OTHER -> <<>>) \o CRLF

PartWire(p) == Parts!Delimiter \o CRLF \o <<p.header>> \o Parts!HeaderSep \o p.data \o CRLF
MultipartWire(m) ==
    m.preamble \o FlattenSeq([i \in DOMAIN m.body |-> PartWire(m.body[i])])
      \o Parts!Delimiter \o <<"-", "-">> \o CRLF

BodyWire(m) == IF m.encoding = "chunked" THEN ChunkedWire(m) ELSE MultipartWire(m)
Wire == BodyWire(message) \o message.rest

Init ==
    /\ message \in Messages
    /\ arrived = 0
    /\ Chunks!Init
    /\ body_remaining = IF message.encoding = "chunked" THEN 0 ELSE Len(BodyWire(message))
    /\ upload = Parts!NewUpload /\ disk = [f \in {} |-> <<>>] /\ lost = FALSE
    /\ others = {}
    /\ pc = "wait"

(* A read event; the state of the parser chooses the decoder.              *)
Deliver ==
    /\ pc = "wait"
    /\ \E n \in 1 .. MaxFragment :
          /\ arrived + n <= Len(Wire)
          /\ arrived' = arrived + n
          /\ buffer' = buffer \o Slice(Wire, arrived, arrived + n)
    /\ pc' = IF message.encoding = "chunked" THEN "chunks" ELSE "take"
    /\ UNCHANGED <<message, chunkVars, body_remaining, fileVars, others>>

DecodeChunks ==
    /\ Chunks!Next
    /\ UNCHANGED <<message, arrived, body_remaining, fileVars, others>>

(* parse_unchunked_body: what belongs to the body is fed to the upload.    *)
(* Mutant: what follows the body is counted too.                           *)
ToProcess_All == Len(buffer)
ToProcess == IF Len(buffer) < body_remaining THEN Len(buffer) ELSE body_remaining

TakeBody ==
    /\ pc = "take"
    /\ upload' = [upload EXCEPT !.buffer = @ \o Slice(buffer, 0, ToProcess)]
    /\ buffer' = Drain(buffer, ToProcess)
    /\ body_remaining' = body_remaining - ToProcess
    /\ pc' = "upload"
    /\ UNCHANGED <<message, arrived, chunkVars, disk, lost, others>>

DecodeParts ==
    /\ Parts!Next
    /\ UNCHANGED <<message, arrived, buffer, chunkVars, body_remaining, others>>

BodyTaken ==
    /\ pc = "fed"
    /\ pc' = IF body_remaining = 0 THEN "complete" ELSE "wait"
    /\ UNCHANGED <<message, arrived, buffer, chunkVars, body_remaining, fileVars, others>>

(* Between two events another connection stores a file it finds a name for. *)
OtherStores ==
    /\ pc = "wait" /\ message.encoding = "multipart" /\ Cardinality(others) < MaxOthers
    /\ LET file == Parts!UniqueName(message.body[1].header) IN
          /\ others' = others \cup {file}
          /\ disk' = Parts!Appended(file, <<"other">>)
    /\ UNCHANGED <<message, arrived, buffer, chunkVars, body_remaining, upload, lost, pc>>

Handler == DecodeChunks \/ TakeBody \/ DecodeParts \/ BodyTaken

Next == Deliver \/ Handler \/ OtherStores

Spec == Init /\ [][Next]_vars

(* The handler runs to its end, and the client sends all it has to say.    *)
FairSpec == Spec /\ WF_vars(Handler) /\ WF_vars(Deliver)

-----------------------------------------------------------------------------
(* Properties.                                                             *)

(* The type invariant; offsets stay within their buffers.                  *)
TypeOK ==
    /\ pc \in {"wait", "chunks", "take", "upload", "fed", "complete", "refused"}
    /\ chunk_state \in Chunks!ChunkState /\ remaining_size \in Nat /\ cursor \in 0 .. Len(buffer)
    /\ total_body_read \in 0 .. MaxBodySize
    /\ body_remaining \in 0 .. Len(BodyWire(message))
    /\ upload.state \in {"InProgress", "Done"}
    /\ upload.multi_part_state \in {"Start", "HeaderSep", "NextBoundary"}
    /\ upload.current_pos \in 0 .. Len(upload.buffer)
    /\ upload.multi_part_state = "NextBoundary" => upload.data_start \in 0 .. Len(upload.buffer)

Chunked == message.encoding = "chunked"
WellFormed == Chunked => message.flaw = "none" /\ Len(FlattenSeq(message.body)) <= MaxBodySize

(* However the bytes are cut: what was decoded of the chunks is the        *)
(* beginning of what was sent, all of it once the request is complete.     *)
ChunksDecoded ==
    Chunked => /\ IsPrefix(cgi_buffer, FlattenSeq(message.body))
               /\ pc = "complete" => cgi_buffer = FlattenSeq(message.body)

(* However the bytes are cut: a request ends with its own last byte, so    *)
(* that the parser finds the next request whole; a damaged body never      *)
(* completes; and a sound one is refused only when more than TrailerLimit  *)
(* bytes of trailers and of the next request lie behind its last chunk.    *)
EndsWhereItEnds ==
    /\ pc = "complete" => /\ WellFormed
                          /\ buffer \o Drain(Wire, arrived) = message.rest
    /\ pc = "refused" /\ WellFormed => Len(buffer) > TrailerLimit

(* However the bytes are cut, and whatever else is stored meanwhile: files *)
(* that are reported as saved exist, and unless the disk failed they are   *)
(* the file parts of the body, one after the other, with their data and    *)
(* nothing of the delimiters; one that is being written is on its way.     *)
FileParts ==
    FlattenSeq([i \in DOMAIN message.body |->
                   IF message.body[i].header = Parts!Field THEN <<>> ELSE <<message.body[i]>>])
FilesFaithful ==
    LET saved == upload.saved_filenames IN
    ~Chunked =>
        /\ \A i \in DOMAIN saved : saved[i] \in DOMAIN disk
        /\ ~lost =>
             /\ Len(saved) <= Len(FileParts)
             /\ \A i \in DOMAIN saved : disk[saved[i]] = FileParts[i].data
             /\ upload.current_file # Parts!NoFile /\ upload.part # Parts!Field =>
                   IsPrefix(disk[upload.current_file], FileParts[Len(saved) + 1].data)
             /\ pc = "complete" => Len(saved) = Len(FileParts)

(* Files of other connections are left alone, unless a write that failed   *)
(* has left a name unclaimed that this upload still counts as its own.     *)
OthersKept == ~lost => \A f \in others : disk[f] = <<"other">>

(* A sound body that has arrived completes, or meets the trailer limit:    *)
(* the decoders neither loop for ever nor wait for bytes they have.        *)
BodyServed == WellFormed ~> pc \in {"complete", "refused"}
=============================================================================
