----------------------------- MODULE ChunkedBody -----------------------------
(***************************************************************************)
(* parse_chunked_body of src/http/request.rs: the decoder of a body sent   *)
(* in chunks.  Bytes arrive in fragments cut anywhere; a call takes what   *)
(* it can from request.buffer and returns to wait for more.  An action is  *)
(* one turn of its loop.  Data go to cgi_buffer: the decoder creates no    *)
(* upload manager (see HttpConnection).                                    *)
(***************************************************************************)
EXTENDS Bytes

CONSTANTS
    SizeLimit,     \* where a size line must have ended (18 in the code)
    TrailerLimit,  \* bytes request.buffer may hold while trailers are read
    MaxBodySize    \* client_max_body_size

VARIABLES
    buffer, cursor,     \* request.buffer, and how far its trailers were read
    chunk_state,        \* the state of the decoder
    remaining_size,     \* of the chunk it is in
    total_body_read,
    cgi_buffer,         \* what was decoded
    pc                  \* "chunks" while the loop runs

vars == <<buffer, cursor, chunk_state, remaining_size, total_body_read, cgi_buffer, pc>>

ChunkState == {"ReadSize", "ReadData", "ReadTrailingCRLF", "ReadTrailers"}

Init ==
    /\ buffer = <<>> /\ cursor = 0 /\ chunk_state = "ReadSize"
    /\ remaining_size = 0 /\ total_body_read = 0 /\ cgi_buffer = <<>>

In(state) == pc = "chunks" /\ chunk_state = state
Keep == UNCHANGED <<buffer, cursor, chunk_state, remaining_size, total_body_read, cgi_buffer>>
Return(verdict) == pc' = verdict /\ Keep

-----------------------------------------------------------------------------
(* ReadSize: a line of hexadecimal digits, found near the front.           *)

Numerals == <<"0", "1", "2", "3", "4">>
DigitValue(d) == (CHOOSE i \in DOMAIN Numerals : Numerals[i] = d) - 1

LineEnd == Find(Slice(buffer, 0, IF Len(buffer) < SizeLimit THEN Len(buffer) ELSE SizeLimit),
                CRLF, 0)
SizeLine == Slice(buffer, 0, LineEnd)
IsHex(line) == line # <<>> /\ \A i \in DOMAIN line : \E k \in DOMAIN Numerals : line[i] = Numerals[k]
HexValue(line) ==
    LET value[i \in 0 .. Len(line)] ==
          IF i = 0 THEN 0 ELSE 16 * value[i - 1] + DigitValue(line[i])
    IN  value[Len(line)]

HasSize == In("ReadSize") /\ LineEnd # NotFound /\ IsHex(SizeLine)
TooLarge == total_body_read + HexValue(SizeLine) > MaxBodySize

SizeWait ==
    /\ In("ReadSize") /\ LineEnd = NotFound /\ Len(buffer) < SizeLimit
    /\ Return("wait")

SizeBad ==
    /\ In("ReadSize")
    /\ IF LineEnd = NotFound THEN Len(buffer) >= SizeLimit ELSE ~IsHex(SizeLine)
    /\ Return("refused")

SizeTooLarge == HasSize /\ TooLarge /\ Return("refused")

ChunkStart ==
    /\ HasSize /\ ~TooLarge
    /\ remaining_size' = HexValue(SizeLine)
    /\ chunk_state' = IF remaining_size' = 0 THEN "ReadTrailers" ELSE "ReadData"
    /\ buffer' = Drain(buffer, LineEnd + 2)
    /\ UNCHANGED <<cursor, total_body_read, cgi_buffer, pc>>

(* ReadData: a chunk cut short waits for its rest.                         *)
DataWait == In("ReadData") /\ buffer = <<>> /\ Return("wait")

(* Mutant: a chunk takes whatever is there.                                *)
ToRead_All == Len(buffer)
ToRead == IF Len(buffer) < remaining_size THEN Len(buffer) ELSE remaining_size

ReadData ==
    /\ In("ReadData") /\ buffer # <<>>
    /\ cgi_buffer' = cgi_buffer \o Slice(buffer, 0, ToRead)
    /\ buffer' = Drain(buffer, ToRead)
    /\ total_body_read' = total_body_read + ToRead
    /\ remaining_size' = remaining_size - ToRead
    /\ IF remaining_size' = 0
       THEN chunk_state' = "ReadTrailingCRLF" /\ UNCHANGED pc
       ELSE pc' = "wait" /\ UNCHANGED chunk_state
    /\ UNCHANGED cursor

(* ReadTrailingCRLF.                                                       *)
CrlfWait == In("ReadTrailingCRLF") /\ Len(buffer) < 2 /\ Return("wait")

(* Mutant: two bytes are skipped, whatever they are.                       *)
EndsChunk_Any(two) == TRUE
EndsChunk(two) == two = CRLF

CrlfBad ==
    /\ In("ReadTrailingCRLF") /\ Len(buffer) >= 2 /\ ~EndsChunk(Slice(buffer, 0, 2))
    /\ Return("refused")

ChunkEnd ==
    /\ In("ReadTrailingCRLF") /\ Len(buffer) >= 2 /\ EndsChunk(Slice(buffer, 0, 2))
    /\ buffer' = Drain(buffer, 2)
    /\ chunk_state' = "ReadSize"
    /\ UNCHANGED <<cursor, remaining_size, total_body_read, cgi_buffer, pc>>

(* ReadTrailers: lines up to an empty one; the limit counts all the buffer *)
(* holds, what follows the request included.  "t" is a header line.        *)
TrailerEnd == Find(buffer, CRLF, cursor)
Trailer == Slice(buffer, cursor, TrailerEnd)

TrailersTooLong == In("ReadTrailers") /\ Len(buffer) > TrailerLimit /\ Return("refused")

InTrailers == In("ReadTrailers") /\ Len(buffer) <= TrailerLimit

TrailerWait == InTrailers /\ TrailerEnd = NotFound /\ Return("wait")

TrailerBad ==
    /\ InTrailers /\ TrailerEnd # NotFound /\ Trailer \notin {<<>>, <<"t">>}
    /\ cursor' = TrailerEnd + 2
    /\ pc' = "refused"
    /\ UNCHANGED <<buffer, chunk_state, remaining_size, total_body_read, cgi_buffer>>

NextTrailer ==
    /\ InTrailers /\ TrailerEnd # NotFound /\ Trailer = <<"t">>
    /\ cursor' = TrailerEnd + 2
    /\ UNCHANGED <<buffer, chunk_state, remaining_size, total_body_read, cgi_buffer, pc>>

LastTrailer ==
    /\ InTrailers /\ TrailerEnd # NotFound /\ Trailer = <<>>
    /\ buffer' = Drain(buffer, TrailerEnd + 2) /\ cursor' = 0
    /\ pc' = "complete"
    /\ UNCHANGED <<chunk_state, remaining_size, total_body_read, cgi_buffer>>

Next ==
    \/ SizeWait \/ SizeBad \/ SizeTooLarge \/ ChunkStart \/ DataWait \/ ReadData
    \/ CrlfWait \/ CrlfBad \/ ChunkEnd
    \/ TrailersTooLong \/ TrailerWait \/ TrailerBad \/ NextTrailer \/ LastTrailer
=============================================================================
