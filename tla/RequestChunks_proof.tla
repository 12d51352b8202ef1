------------------------ MODULE RequestChunks_proof -------------------------
(***************************************************************************)
(* Proofs about RequestBody, for bodies of any number of chunks or parts,  *)
(* parts of any length, any bytes in them, and fragments cut anywhere.     *)
(* The invariant says which byte of the wire each decoder stands at.       *)
(***************************************************************************)
EXTENDS RequestBody, SeqLemmas, FiniteSetTheorems

(* The bytes that were taken out of request.buffer.                        *)
Used == arrived - Len(buffer)
BufferInv ==
    /\ message \in Messages /\ buffer \in Seq(Byte)
    /\ arrived \in Nat /\ arrived <= Len(Wire) /\ Used >= 0
    /\ \A i \in 1 .. Len(buffer) : buffer[i] = Wire[Used + i]

-----------------------------------------------------------------------------
(* Chunks.  Where chunk k + 1 begins, and what was decoded before it.      *)

Count == Len(message.body)
Flaw(i) == IF i = Count THEN message.flaw ELSE "none"
Offset(k) == Len(FlattenSeq([i \in 1 .. k |-> Chunk(message.body[i], Flaw(i))]))
Decoded(k) == FlattenSeq([i \in 1 .. k |-> message.body[i]])

AtSize(k) ==
    /\ chunk_state = "ReadSize" /\ remaining_size = 0 /\ cursor = 0
    /\ Used = Offset(k) /\ cgi_buffer = Decoded(k)
    /\ k = Count => message.flaw \in {"none", "trailer"}
    /\ pc \in {"wait", "chunks", "refused"} /\ (pc = "refused" => ~WellFormed)
AtData(k, j) ==
    LET chunk == message.body[k + 1] IN
    /\ chunk_state = "ReadData" /\ remaining_size = Len(chunk) - j /\ cursor = 0
    /\ Used = Offset(k) + 4 + j /\ cgi_buffer = Decoded(k) \o SubSeq(chunk, 1, j)
    /\ Flaw(k + 1) \notin {"digit", "line"} /\ Len(Decoded(k)) + Len(chunk) <= MaxBodySize
    /\ pc \in {"wait", "chunks"}
AtBreak(k) ==
    /\ chunk_state = "ReadTrailingCRLF" /\ remaining_size = 0 /\ cursor = 0
    /\ Used = Offset(k) + 4 + Len(message.body[k + 1]) /\ cgi_buffer = Decoded(k + 1)
    /\ Flaw(k + 1) \notin {"digit", "line"}
    /\ pc \in {"wait", "chunks", "refused"} /\ (pc = "refused" => ~WellFormed)
AtTrailers ==
    /\ chunk_state = "ReadTrailers" /\ remaining_size = 0
    /\ Used = Offset(Count) + 3 /\ cgi_buffer = Decoded(Count)
    /\ message.flaw \in {"none", "trailer"} /\ cursor \in 0 .. Len(buffer)
    /\ pc \in {"wait", "chunks", "refused"}
    /\ pc # "refused" => cursor \in {0, Len(message.trailer)}
    /\ pc = "refused" /\ WellFormed => Len(buffer) > TrailerLimit
AtEnd ==
    /\ chunk_state = "ReadTrailers" /\ remaining_size = 0 /\ cursor = 0
    /\ Used = Len(BodyWire(message)) /\ cgi_buffer = Decoded(Count)
    /\ message.flaw = "none" /\ pc = "complete"

ChunkPlace ==
    \/ \E k \in 0 .. Count : AtSize(k)
    \/ \E k \in 0 .. Count - 1 : \E j \in 0 .. Len(message.body[k + 1]) - 1 : AtData(k, j)
    \/ \E k \in 0 .. Count - 1 : AtBreak(k)
    \/ AtTrailers
    \/ AtEnd
ChunkSum ==
    /\ cgi_buffer \in Seq(Byte)
    /\ total_body_read = Len(cgi_buffer) /\ Len(cgi_buffer) <= MaxBodySize
NoUpload ==
    /\ body_remaining = 0 /\ upload = Parts!NewUpload /\ disk = [f \in {} |-> <<>>]
    /\ ~lost /\ others = {}
ChunkInv == ChunkPlace /\ ChunkSum /\ NoUpload

-----------------------------------------------------------------------------
(* Parts.  Where the delimiter before part k + 1 begins, and where in the  *)
(* wire the end of the upload's buffer puts its first byte.                *)

PartOffset(k) ==
    Len(message.preamble \o FlattenSeq([i \in 1 .. k |-> PartWire(message.body[i])]))
FilesBefore(k) ==
    FlattenSeq([i \in 1 .. k |->
                   IF message.body[i].header = Parts!Field THEN <<>> ELSE <<message.body[i]>>])
Base == Used - Len(upload.buffer)
Position ==
    IF upload.multi_part_state = "NextBoundary" THEN upload.data_start ELSE upload.current_pos

AtDelimiter(k) ==
    /\ upload.multi_part_state = "Start" /\ upload.current_pos = 0
    /\ upload.current_file = Parts!NoFile
    /\ Base \in 0 .. PartOffset(k) /\ (k > 0 => Base = PartOffset(k))
    /\ pc \in {"fed", "complete"} => k = Count \/ Used < PartOffset(k) + 5
AtHeader(k) ==
    /\ upload.multi_part_state = "HeaderSep" /\ k < Count
    /\ upload.current_file = Parts!NoFile
    /\ upload.current_pos \in 0 .. Len(upload.buffer)
    /\ Base + upload.current_pos = PartOffset(k) + 5
    /\ pc \in {"fed", "complete"} => Used < PartOffset(k) + 10
AtPart(k, w) ==
    LET part == message.body[k + 1] IN
    /\ upload.multi_part_state = "NextBoundary" /\ upload.part = part.header
    /\ upload.data_start \in 0 .. Len(upload.buffer) /\ upload.current_pos = upload.data_start
    /\ Base + upload.data_start = PartOffset(k) + 10 + w
    /\ w = 0 <=> upload.current_file = Parts!NoFile
    /\ ~lost /\ w > 0 /\ part.header # Parts!Field =>
          disk[upload.current_file] = SubSeq(part.data, 1, w)
    /\ pc \in {"fed", "complete"} => Used < PartOffset(k + 1) + 3

SavedInv(k) ==
    LET saved == upload.saved_filenames IN
    ~lost => /\ Len(saved) = Len(FilesBefore(k))
             /\ \A i \in DOMAIN saved : disk[saved[i]] = FilesBefore(k)[i].data

FileName == (Byte \cup {"", "tmp_upload"}) \X Nat
Uploads == [state : {"InProgress", "Done"}, multi_part_state : {"Start", "HeaderSep", "NextBoundary"},
            buffer : Seq(Byte), current_pos : Nat, data_start : Nat, part : Byte,
            current_file : FileName, saved_filenames : Seq(FileName)]

PartPlace(k) ==
    \/ AtDelimiter(k)
    \/ AtHeader(k)
    \/ k < Count /\ \E w \in 0 .. Len(message.body[k + 1].data) : AtPart(k, w)

PartInv ==
    /\ upload \in Uploads /\ IsFiniteSet(DOMAIN disk)
    /\ pc \in {"wait", "take", "upload", "fed", "complete"}
    /\ body_remaining = Len(BodyWire(message)) - Used /\ body_remaining >= 0
    /\ pc = "complete" => body_remaining = 0
    /\ chunk_state = "ReadSize" /\ remaining_size = 0 /\ cursor = 0
    /\ total_body_read = 0 /\ cgi_buffer = <<>>
    /\ \A i \in Position + 1 .. Len(upload.buffer) : upload.buffer[i] = Wire[Base + i]
    /\ \E k \in 0 .. Count :
          SavedInv(k) /\ PartPlace(k)

(* Whose the files are.                                                    *)
NamesInv ==
    LET saved == upload.saved_filenames IN
    /\ \A i \in DOMAIN saved : saved[i] \in DOMAIN disk
    /\ ~lost =>
          /\ others \subseteq DOMAIN disk
          /\ \A f \in others : disk[f] = <<"other">>
          /\ upload.current_file # Parts!NoFile =>
                /\ upload.current_file \in DOMAIN disk \ others
                /\ \A i \in DOMAIN saved : saved[i] # upload.current_file

IInv == BufferInv /\ NamesInv /\ IF Chunked THEN ChunkInv ELSE PartInv

-----------------------------------------------------------------------------
(* Bytes.                                                                  *)

Sliced(s, a, b, r) == Len(r) = b - a /\ \A i \in 1 .. b - a : r[i] = s[a + i]

(* The bytes of a slice are those of the sequence between its bounds.      *)
LEMMA SliceOf ==
    ASSUME NEW S, NEW s \in Seq(S), NEW a \in Nat, NEW b \in Nat, a <= b, b <= Len(s)
    PROVE  Slice(s, a, b) \in Seq(S) /\ Sliced(s, a, b, Slice(s, a, b))
  BY DEF Slice, Sliced

(* Draining n bytes leaves the bytes after them, in their order.           *)
LEMMA DrainOf ==
    ASSUME NEW S, NEW s \in Seq(S), NEW n \in 0 .. Len(s)
    PROVE  Drain(s, n) \in Seq(S) /\ Sliced(s, n, Len(s), Drain(s, n))
  BY DEF Drain, Sliced

(* The decoders' own names for the operators of Bytes.                     *)
LEMMA SameBytes ==
    /\ Chunks!CRLF = CRLF /\ Parts!CRLF = CRLF
    /\ Chunks!NotFound = NotFound /\ Parts!NotFound = NotFound
    /\ \A s, m, n : /\ Chunks!Slice(s, m, n) = Slice(s, m, n) /\ Parts!Slice(s, m, n) = Slice(s, m, n)
                    /\ Chunks!Find(s, m, n) = Find(s, m, n) /\ Parts!Find(s, m, n) = Find(s, m, n)
                    /\ Parts!Drop(s, m, n) = Drop(s, m, n)
    /\ \A s, n : Chunks!Drain(s, n) = Drain(s, n) /\ Parts!Drain(s, n) = Drain(s, n)
  BY DEF CRLF, Chunks!CRLF, Parts!CRLF, NotFound, Chunks!NotFound, Parts!NotFound,
         Slice, Chunks!Slice, Parts!Slice, Drain, Chunks!Drain, Parts!Drain,
         Drop, Parts!Drop, Find, Chunks!Find, Parts!Find,
         Occurrences, Chunks!Occurrences, Parts!Occurrences

(* What r = s \o t is byte by byte; named, so that a step can ask for it.   *)
Joined(s, t, r) ==
    /\ r \in Seq(Byte) /\ Len(s) \in Nat /\ Len(t) \in Nat /\ Len(r) = Len(s) + Len(t)
    /\ \A i \in 1 .. Len(s) : r[i] = s[i]
    /\ \A i \in 1 .. Len(t) : r[Len(s) + i] = t[i]

(* A byte of s \o t is a byte of s, or of t after the length of s.         *)
LEMMA Join ==
    ASSUME NEW s \in Seq(Byte), NEW t \in Seq(Byte)
    PROVE  Joined(s, t, s \o t)
  BY ConcatBegins, ConcatProperties, LenProperties DEF Joined

(* A slice is what it looks like, byte by byte.                            *)
LEMMA SliceIs ==
    ASSUME NEW S, NEW s \in Seq(S), NEW t \in Seq(S), NEW i \in Nat, i + Len(t) <= Len(s)
    PROVE  Slice(s, i, i + Len(t)) = t <=> \A j \in 1 .. Len(t) : s[i + j] = t[j]
  <1> DEFINE e == i + Len(t)
             u == Slice(s, i, e)
  <1>1. e \in Nat /\ i <= e /\ e <= Len(s) /\ e - i = Len(t) /\ Len(t) \in Nat
    BY LenProperties
  <1> HIDE DEF e
  <1>2. u \in Seq(S) /\ Len(u) = Len(t) /\ \A j \in 1 .. Len(t) : u[j] = s[i + j]
    <2>1. /\ u \in Seq(S) /\ Len(u) = e - i
          /\ \A j \in 1 .. e - i : u[j] = s[i + j]
      BY <1>1, SliceOf DEF Sliced
    <2> QED  BY <1>1, <2>1
  <1> HIDE DEF u
  <1>3. ASSUME \A j \in 1 .. Len(t) : s[i + j] = t[j]
        PROVE  u = t
    BY <1>2, <1>3, SeqEqual
  <1> QED  BY <1>2, <1>3 DEF u, e

(* A set of numbers that is not empty has a least one.                     *)
LEMMA LeastOf ==
    ASSUME NEW T \in SUBSET Nat, T # {}
    PROVE  \E i \in T : \A j \in T : i <= j
  <1> DEFINE A == {n \in Nat : \A m \in T : m <= n => \E i \in T : \A j \in T : i <= j}
  <1>1. 0 \in A
    <2>1. ASSUME NEW m \in T, m <= 0
          PROVE  \E i \in T : \A j \in T : i <= j
      <3>1. m = 0 /\ \A j \in T : m <= j
        BY <2>1
      <3> QED  BY <3>1
    <2> QED  BY <2>1
  <1>2. ASSUME NEW n \in Nat, n \in A
        PROVE  n + 1 \in A
    <2>1. ASSUME NEW m \in T, m <= n + 1
          PROVE  \E i \in T : \A j \in T : i <= j
      <3>1. CASE \E l \in T : l <= n
        BY <1>2, <3>1
      <3>2. CASE ~ \E l \in T : l <= n
        <4>1. \A j \in T : m <= j
          BY <2>1, <3>2
        <4> QED  BY <4>1
      <3> QED  BY <3>1, <3>2
    <2> QED  BY <2>1
  <1>3. PICK m \in T : TRUE
    OBVIOUS
  <1> HIDE DEF A
  <1>4. m \in A
    BY <1>1, <1>2, NatSetInduction
  <1>5. m <= m
    OBVIOUS
  <1> QED  BY <1>4, <1>5 DEF A

(* find_subsequence finds the first occurrence, if there is one.           *)
LEMMA FindFirst ==
    ASSUME NEW S, NEW s \in Seq(S), NEW needle \in Seq(S), NEW from \in Nat
    PROVE  LET f == Find(s, needle, from)
               o == Occurrences(s, needle, from) IN
           \/ f = NotFound /\ o = {}
           \/ f \in o /\ f \in Nat /\ \A i \in o : f <= i
  <1> DEFINE o == Occurrences(s, needle, from)
  <1>1. o \in SUBSET Nat
    BY LenProperties DEF Occurrences
  <1>2. Find(s, needle, from) = IF o = {} THEN NotFound ELSE CHOOSE i \in o : \A j \in o : i <= j
    BY DEF Find
  <1> HIDE DEF o
  <1>3. CASE o = {}
    BY <1>2, <1>3 DEF o
  <1>4. CASE o # {}
    <2>1. \E i \in o : \A j \in o : i <= j
      BY <1>1, <1>4, LeastOf
    <2> QED  BY <1>1, <1>2, <1>4, <2>1 DEF o
  <1> QED  BY <1>3, <1>4

(* Where a search ends: a byte by byte reading of Find for each of the     *)
(* three needles.                                                          *)
CrlfAt(s, i) == i + 2 <= Len(s) /\ s[i + 1] = "cr" /\ s[i + 2] = "lf"
DelimiterAt(s, i) == i + 3 <= Len(s) /\ s[i + 1] = "-" /\ s[i + 2] = "-" /\ s[i + 3] = "b"
HeaderSepAt(s, i) == CrlfAt(s, i) /\ CrlfAt(s, i + 2)

OccursWhere(s, needle, from) ==
    \A i \in Nat :
        i \in Occurrences(s, needle, from) <=>
           /\ from <= i /\ i + Len(needle) <= Len(s)
           /\ \A j \in 1 .. Len(needle) : s[i + j] = needle[j]

(* Where a needle occurs, from a position on, told byte by byte.           *)
LEMMA OccursAt ==
    ASSUME NEW S, NEW s \in Seq(S), NEW needle \in Seq(S), NEW from \in Nat
    PROVE  OccursWhere(s, needle, from)
  <1> SUFFICES ASSUME NEW i \in Nat
               PROVE  i \in Occurrences(s, needle, from) <=>
                        /\ from <= i /\ i + Len(needle) <= Len(s)
                        /\ \A j \in 1 .. Len(needle) : s[i + j] = needle[j]
    BY DEF OccursWhere
  <1>1. Len(s) \in Nat /\ Len(needle) \in Nat
    BY LenProperties
  <1>2. CASE i + Len(needle) <= Len(s)
    <2>1. Slice(s, i, i + Len(needle)) = needle <=> \A j \in 1 .. Len(needle) : s[i + j] = needle[j]
      BY <1>2, SliceIs
    <2>2. i \in from .. Len(s) - Len(needle) <=> from <= i
      BY <1>1, <1>2
    <2> QED  BY <1>2, <2>1, <2>2 DEF Occurrences
  <1>3. CASE ~(i + Len(needle) <= Len(s))
    <2>1. i \notin from .. Len(s) - Len(needle)
      BY <1>1, <1>3
    <2> QED  BY <1>3, <2>1 DEF Occurrences
  <1> QED  BY <1>2, <1>3

(* Find returns the first line break at or after from, or that there is    *)
(* none.                                                                   *)
LEMMA FindCrlf ==
    ASSUME NEW s \in Seq(Byte), NEW from \in Nat
    PROVE  LET f == Find(s, CRLF, from) IN
           \/ f = NotFound /\ \A i \in Nat : from <= i => ~CrlfAt(s, i)
           \/ f \in Nat /\ from <= f /\ CrlfAt(s, f)
                /\ \A i \in Nat : from <= i /\ CrlfAt(s, i) => f <= i
  <1> DEFINE t == CRLF
  <1>1. t \in Seq(Byte) /\ Len(t) = 2 /\ t[1] = "cr" /\ t[2] = "lf"
    BY DEF CRLF, Byte
  <1> HIDE DEF t
  <1>2. \A i : (\A j \in 1 .. 2 : s[i + j] = t[j]) <=> s[i + 1] = t[1] /\ s[i + 2] = t[2]
    OBVIOUS
  <1>3. \A i \in Nat : i \in Occurrences(s, t, from) <=>
              /\ from <= i /\ i + Len(t) <= Len(s)
              /\ \A j \in 1 .. Len(t) : s[i + j] = t[j]
    <2>1. OccursWhere(s, t, from)
      BY <1>1, OccursAt
    <2> QED  BY <2>1 DEF OccursWhere
  <1>4. \A i \in Nat : i \in Occurrences(s, t, from) <=> from <= i /\ CrlfAt(s, i)
    BY <1>1, <1>2, <1>3 DEF CrlfAt
  <1>5. LET f == Find(s, t, from)
            o == Occurrences(s, t, from) IN
        \/ f = NotFound /\ o = {}
        \/ f \in o /\ f \in Nat /\ \A i \in o : f <= i
    BY <1>1, FindFirst
  <1> QED  BY <1>4, <1>5 DEF t

(* Find returns the first delimiter at or after from, or that there is     *)
(* none.                                                                   *)
LEMMA FindDelimiter ==
    ASSUME NEW s \in Seq(Byte), NEW from \in Nat
    PROVE  LET f == Find(s, Parts!Delimiter, from) IN
           \/ f = NotFound /\ \A i \in Nat : from <= i => ~DelimiterAt(s, i)
           \/ f \in Nat /\ from <= f /\ DelimiterAt(s, f)
                /\ \A i \in Nat : from <= i /\ DelimiterAt(s, i) => f <= i
  <1> DEFINE t == Parts!Delimiter
  <1>1. t \in Seq(Byte) /\ Len(t) = 3 /\ t[1] = "-" /\ t[2] = "-" /\ t[3] = "b"
    BY DEF Parts!Delimiter, Parts!Boundary, Byte
  <1> HIDE DEF t
  <1>2. \A i : (\A j \in 1 .. 3 : s[i + j] = t[j])
                   <=> s[i + 1] = t[1] /\ s[i + 2] = t[2] /\ s[i + 3] = t[3]
    OBVIOUS
  <1>3. \A i \in Nat : i \in Occurrences(s, t, from) <=>
              /\ from <= i /\ i + Len(t) <= Len(s)
              /\ \A j \in 1 .. Len(t) : s[i + j] = t[j]
    <2>1. OccursWhere(s, t, from)
      BY <1>1, OccursAt
    <2> QED  BY <2>1 DEF OccursWhere
  <1>4. \A i \in Nat : i \in Occurrences(s, t, from) <=> from <= i /\ DelimiterAt(s, i)
    BY <1>1, <1>2, <1>3 DEF DelimiterAt
  <1>5. LET f == Find(s, t, from)
            o == Occurrences(s, t, from) IN
        \/ f = NotFound /\ o = {}
        \/ f \in o /\ f \in Nat /\ \A i \in o : f <= i
    BY <1>1, FindFirst
  <1> QED  BY <1>4, <1>5 DEF t

(* Find returns the first pair of line breaks, which ends a part's         *)
(* headers, at or after from, or that there is none.                       *)
LEMMA FindHeaderSep ==
    ASSUME NEW s \in Seq(Byte), NEW from \in Nat
    PROVE  LET f == Find(s, Parts!HeaderSep, from) IN
           \/ f = NotFound /\ \A i \in Nat : from <= i => ~HeaderSepAt(s, i)
           \/ f \in Nat /\ from <= f /\ HeaderSepAt(s, f)
                /\ \A i \in Nat : from <= i /\ HeaderSepAt(s, i) => f <= i
  <1> DEFINE t == Parts!HeaderSep
  <1>1. t \in Seq(Byte) /\ Len(t) = 4 /\ t[1] = "cr" /\ t[2] = "lf" /\ t[3] = "cr" /\ t[4] = "lf"
    BY DEF Parts!HeaderSep, Parts!CRLF, Byte
  <1> HIDE DEF t
  <1>2. \A i : (\A j \in 1 .. 4 : s[i + j] = t[j])
                   <=> /\ s[i + 1] = t[1] /\ s[i + 2] = t[2]
                       /\ s[i + 3] = t[3] /\ s[i + 4] = t[4]
    OBVIOUS
  <1>3. \A i \in Nat : i \in Occurrences(s, t, from) <=>
              /\ from <= i /\ i + Len(t) <= Len(s)
              /\ \A j \in 1 .. Len(t) : s[i + j] = t[j]
    <2>1. OccursWhere(s, t, from)
      BY <1>1, OccursAt
    <2> QED  BY <2>1 DEF OccursWhere
  <1>4. \A i \in Nat : i \in Occurrences(s, t, from) <=> from <= i /\ HeaderSepAt(s, i)
    <2> SUFFICES ASSUME NEW i \in Nat
                 PROVE  i \in Occurrences(s, t, from) <=> from <= i /\ HeaderSepAt(s, i)
      OBVIOUS
    <2>1. Len(s) \in Nat
      BY LenProperties
    <2>2. (i + 2) + 1 = i + 3 /\ (i + 2) + 2 = i + 4
      OBVIOUS
    <2>3. HeaderSepAt(s, i) <=> /\ i + 4 <= Len(s) /\ s[i + 1] = "cr" /\ s[i + 2] = "lf"
                                /\ s[i + 3] = "cr" /\ s[i + 4] = "lf"
      BY <2>1, <2>2 DEF HeaderSepAt, CrlfAt
    <2> QED  BY <1>1, <1>2, <1>3, <2>3
  <1>5. LET f == Find(s, t, from)
            o == Occurrences(s, t, from) IN
        \/ f = NotFound /\ o = {}
        \/ f \in o /\ f \in Nat /\ \A i \in o : f <= i
    BY <1>1, FindFirst
  <1> QED  BY <1>4, <1>5 DEF t

-----------------------------------------------------------------------------
(* The wire of a body in chunks.                                           *)

Chunkeds == [encoding : {"chunked"}, body : Seq(Seq(Byte)),
             trailer : {<<>>, <<"t">> \o CRLF}, rest : Seq(Byte), flaw : Flaws]

(* What a message in chunks is made of: chunks of one to four bytes, and a *)
(* flaw in the last chunk only if there is one.                            *)
LEMMA ChunkedIs ==
    ASSUME message \in Messages, Chunked
    PROVE  /\ message \in Chunkeds /\ Count \in Nat
           /\ \A i \in 1 .. Count : /\ message.body[i] \in Seq(Byte)
                                    /\ Len(message.body[i]) \in 1 .. 4
           /\ Count = 0 => message.flaw \in {"none", "trailer"}
  <1>1. message \notin [encoding : {"multipart"}, preamble : Seq(Byte),
               body : Seq([header : Headers, data : Seq(Byte)]), rest : Seq(Byte)]
    BY DEF Chunked
  <1>2. ChunkedMessage(message)
    BY <1>1, MessagesAssumption DEF MultipartMessage
  <1>3. message \in Chunkeds /\ message.body \in Seq(Seq(Byte))
    BY <1>2 DEF ChunkedMessage, Chunkeds
  <1>4. Len(Chunks!Numerals) - 1 = 4
    BY DEF Chunks!Numerals
  <1> DEFINE b == message.body
  <1>5. Len(b) \in Nat /\ DOMAIN b = 1 .. Len(b) /\ \A i \in 1 .. Len(b) : b[i] \in Seq(Byte)
    BY <1>3
  <1>6. Len(b) = 0 => b = <<>>
    BY <1>3
  <1> QED  BY <1>2, <1>3, <1>4, <1>5, <1>6 DEF ChunkedMessage, Count

SizeBytes(chunk, flaw) ==
    CASE flaw = "digit" -> <<"0", "x">>
      [] flaw = "line" -> [i \in 1 .. SizeLimit |-> "0"] \o Size(chunk)
      [] OTHER -> Size(chunk)

(* The size line of a chunk names its length, unless the client garbled    *)
(* it.                                                                     *)
LEMMA SizeType ==
    ASSUME NEW c \in Seq(Byte), Len(c) \in 1 .. 4, NEW flaw
    PROVE  /\ Size(c) \in Seq(Byte) /\ Len(Size(c)) = 2
           /\ Size(c)[1] = "0" /\ Size(c)[2] = Chunks!Numerals[Len(c) + 1]
           /\ SizeBytes(c, flaw) \in Seq(Byte)
           /\ flaw # "line" => Len(SizeBytes(c, flaw)) = 2
           /\ flaw \notin {"digit", "line"} => SizeBytes(c, flaw) = Size(c)
           /\ flaw = "digit" => SizeBytes(c, flaw)[1] = "0" /\ SizeBytes(c, flaw)[2] = "x"
           /\ flaw = "line" => /\ Len(SizeBytes(c, flaw)) = SizeLimit + 2
                               /\ \A i \in 1 .. SizeLimit : SizeBytes(c, flaw)[i] = "0"
  <1>1. Chunks!Numerals[Len(c) + 1] \in Byte
    <2> DEFINE m == Chunks!Numerals
    <2>1. m[2] = "1" /\ m[3] = "2" /\ m[4] = "3" /\ m[5] = "4"
      BY DEF Chunks!Numerals
    <2> HIDE DEF m
    <2>2. Len(c) + 1 \in {2, 3, 4, 5}
      <3>1. \A i \in 1 .. 4 : i + 1 \in {2, 3, 4, 5}
        OBVIOUS
      <3> QED  BY <3>1
    <2>3. m[Len(c) + 1] \in {"1", "2", "3", "4"}
      BY <2>1, <2>2
    <2> QED  BY <2>3 DEF Byte, m
  <1>2. Size(c) \in Seq(Byte) /\ Len(Size(c)) = 2
        /\ Size(c)[1] = "0" /\ Size(c)[2] = Chunks!Numerals[Len(c) + 1]
    BY <1>1 DEF Size, Byte
  <1> DEFINE z == [i \in 1 .. SizeLimit |-> "0"]
  <1>3. z \in Seq(Byte) /\ Len(z) = SizeLimit /\ SizeLimit \in Nat /\ \A i \in 1 .. SizeLimit : z[i] = "0"
    BY LimitsAssumption DEF Byte
  <1> HIDE DEF z
  <1> DEFINE n == Size(c)
  <1> HIDE DEF n
  <1>4. /\ z \o n \in Seq(Byte) /\ Len(z \o n) = SizeLimit + 2
        /\ \A i \in 1 .. SizeLimit : (z \o n)[i] = "0"
    <2>1. n \in Seq(Byte) /\ Len(n) = 2
      BY <1>2 DEF n
    <2>2. z \in Seq(Byte) /\ n \in Seq(Byte)
      BY <1>3, <2>1
    <2>3. Joined(z, n, z \o n)
      BY <2>2, Join
    <2> QED  BY <1>3, <2>1, <2>3 DEF Joined
  <1>5. CASE flaw = "line"
    BY <1>2, <1>4, <1>5 DEF SizeBytes, n, z
  <1>6. CASE flaw = "digit"
    <2>1. SizeBytes(c, flaw) = <<"0", "x">>
      BY <1>6 DEF SizeBytes
    <2> DEFINE d == <<"0", "x">>
    <2>2. d \in Seq(Byte) /\ Len(d) = 2 /\ d[1] = "0" /\ d[2] = "x"
      BY DEF Byte
    <2> HIDE DEF d
    <2>3. SizeBytes(c, flaw) = d
      BY <2>1 DEF d
    <2> QED  BY <1>2, <1>6, <2>2, <2>3
  <1>7. CASE flaw \notin {"digit", "line"}
    BY <1>2, <1>7 DEF SizeBytes
  <1> QED  BY <1>5, <1>6, <1>7

(* A chunk w with the size z and the data c, byte by byte.                 *)
ChunkReads(w, z, c, flaw) ==
    /\ w \in Seq(Byte) /\ Len(w) = Len(z) + Len(c) + 4 /\ Len(z) \in Nat
    /\ \A i \in 1 .. Len(z) : w[i] = z[i]
    /\ w[Len(z) + 1] = "cr" /\ w[Len(z) + 2] = "lf"
    /\ \A i \in 1 .. Len(c) : w[Len(z) + 2 + i] = c[i]
    /\ flaw = "break" => w[Len(z) + Len(c) + 3] = "x"
    /\ flaw # "break" => w[Len(z) + Len(c) + 3] = "cr" /\ w[Len(z) + Len(c) + 4] = "lf"

(* A chunk on the wire, byte by byte: its size line, its data and the line *)
(* breaks after both.                                                      *)
LEMMA ChunkType ==
    ASSUME NEW c \in Seq(Byte), Len(c) \in 1 .. 4, NEW flaw
    PROVE  ChunkReads(Chunk(c, flaw), SizeBytes(c, flaw), c, flaw)
  <1> DEFINE z == SizeBytes(c, flaw)
             e == IF flaw = "break" THEN <<"x", "x">> ELSE CRLF
             a == z \o CRLF
             b == a \o c
             w == b \o e
  <1>1. Chunk(c, flaw) = w
    BY DEF Chunk, SizeBytes
  <1>2. z \in Seq(Byte) /\ Len(z) \in Nat
    BY SizeType, LenProperties
  <1>3. CRLF \in Seq(Byte) /\ Len(CRLF) = 2 /\ CRLF[1] = "cr" /\ CRLF[2] = "lf"
    BY DEF CRLF, Byte
  <1>4. /\ e \in Seq(Byte) /\ Len(e) = 2
        /\ flaw = "break" => e[1] = "x"
        /\ flaw # "break" => e[1] = "cr" /\ e[2] = "lf"
    <2> DEFINE d == <<"x", "x">>
    <2>1. d \in Seq(Byte) /\ Len(d) = 2 /\ d[1] = "x"
      BY DEF Byte
    <2> HIDE DEF d
    <2>2. e = IF flaw = "break" THEN d ELSE CRLF
      BY DEF d
    <2> HIDE DEF e
    <2> QED  BY <1>3, <2>1, <2>2
  <1> HIDE DEF z, e
  <1>5. /\ a \in Seq(Byte) /\ Len(a) = Len(z) + 2
        /\ \A i \in 1 .. Len(z) : a[i] = z[i]
        /\ a[Len(z) + 1] = "cr" /\ a[Len(z) + 2] = "lf"
    <2>1. Joined(z, CRLF, a)
      BY <1>2, <1>3, Join
    <2> HIDE DEF a
    <2> QED  BY <1>3, <2>1 DEF Joined
  <1> HIDE DEF a
  <1>6. /\ b \in Seq(Byte) /\ Len(b) = Len(z) + 2 + Len(c) /\ Len(c) \in Nat
        /\ \A i \in 1 .. Len(a) : b[i] = a[i]
        /\ \A i \in 1 .. Len(c) : b[Len(z) + 2 + i] = c[i]
    <2>1. Joined(a, c, b)
      BY <1>5, Join
    <2> HIDE DEF b
    <2> QED  BY <1>5, <2>1 DEF Joined
  <1> HIDE DEF b
  <1>7. /\ w \in Seq(Byte) /\ Len(w) = Len(z) + 2 + Len(c) + 2
        /\ \A i \in 1 .. Len(b) : w[i] = b[i]
        /\ w[Len(z) + Len(c) + 3] = e[1] /\ w[Len(z) + Len(c) + 4] = e[2]
    <2>1. Joined(b, e, w)
      BY <1>4, <1>6, Join
    <2> HIDE DEF w
    <2>2. Len(b) + 1 = Len(z) + Len(c) + 3 /\ Len(b) + 2 = Len(z) + Len(c) + 4
      BY <1>2, <1>6
    <2>3. w[Len(b) + 1] = e[1] /\ w[Len(b) + 2] = e[2]
      BY <1>4, <2>1 DEF Joined
    <2> QED  BY <1>2, <1>4, <1>6, <2>1, <2>2, <2>3 DEF Joined
  <1> HIDE DEF w
  <1>8. \A i \in 1 .. Len(z) + 2 : w[i] = a[i]
    BY <1>2, <1>5, <1>6, <1>7
  <1>9. \A i \in 1 .. Len(c) : w[Len(z) + 2 + i] = c[i]
    <2> SUFFICES ASSUME NEW i \in 1 .. Len(c) PROVE w[Len(z) + 2 + i] = c[i]
      OBVIOUS
    <2>1. Len(z) + 2 + i \in 1 .. Len(b)
      BY <1>2, <1>6
    <2> QED  BY <1>6, <1>7, <2>1
  <1>10. \A i \in 1 .. Len(z) : w[i] = z[i]
    BY <1>2, <1>5, <1>8
  <1>11. w[Len(z) + 1] = "cr" /\ w[Len(z) + 2] = "lf"
    BY <1>2, <1>5, <1>8
  <1>12. ChunkReads(w, z, c, flaw)
    BY <1>2, <1>4, <1>6, <1>7, <1>9, <1>10, <1>11 DEF ChunkReads
  <1> QED  BY <1>1, <1>12 DEF z

(* A byte of what was joined first keeps its place when more is joined.    *)
LEMMA JoinBegins ==
    ASSUME NEW s, NEW t, NEW r, NEW w, Joined(s, t, r), Begins(r, w)
    PROVE  Begins(s, w)
  BY DEF Joined, Begins

ChunkFamily == [i \in 1 .. Count |-> Chunk(message.body[i], Flaw(i))]

(* The chunks on the wire are sequences of bytes, and the offset of a      *)
(* chunk is the length of those before it.                                 *)
LEMMA ChunkFamilyType ==
    ASSUME message \in Messages, Chunked
    PROVE  /\ ChunkFamily \in [1 .. Count -> Seq(Byte)]
           /\ \A k \in 0 .. Count : Offset(k) = Len(Firsts(ChunkFamily, k)) /\ Offset(k) \in Nat
           /\ Firsts(ChunkFamily, Count) \in Seq(Byte)
  <1>1. \A i \in 1 .. Count : Chunk(message.body[i], Flaw(i)) \in Seq(Byte)
    BY ChunkedIs, ChunkType DEF ChunkReads
  <1>2. ChunkFamily \in [1 .. Count -> Seq(Byte)] /\ Count \in Nat
    BY <1>1, ChunkedIs DEF ChunkFamily
  <1>3. ASSUME NEW k \in 0 .. Count
        PROVE  Offset(k) = Len(Firsts(ChunkFamily, k)) /\ Offset(k) \in Nat
    <2>1. [i \in 1 .. k |-> Chunk(message.body[i], Flaw(i))] = [i \in 1 .. k |-> ChunkFamily[i]]
      BY <1>2 DEF ChunkFamily
    <2>2. Offset(k) = Len(Firsts(ChunkFamily, k))
      BY <2>1 DEF Offset, Firsts
    <2>3. Firsts(ChunkFamily, k) \in Seq(Byte)
      BY <1>2, FirstsGrow
    <2> QED  BY <2>2, <2>3, LenProperties
  <1>4. Firsts(ChunkFamily, Count) \in Seq(Byte)
    <2>1. Count \in 0 .. Count
      BY <1>2
    <2> QED  BY <1>2, <2>1, FirstsGrow
  <1> QED  BY <1>2, <1>3, <1>4

(* What follows the last chunk.                                            *)
LEMMA EndAt ==
    ASSUME message \in Messages, Chunked
    PROVE  LET f == Firsts(ChunkFamily, Count)
               o == Offset(Count)
               t == Len(message.trailer) IN
           /\ Wire \in Seq(Byte) /\ Len(Wire) \in Nat /\ o \in Nat /\ Len(f) = o
           /\ \A i \in 1 .. o : Wire[i] = f[i]
           /\ Wire[o + 1] = "0" /\ Wire[o + 2] = "cr" /\ Wire[o + 3] = "lf"
           /\ t \in {0, 3} /\ t <= 8
           /\ t = 3 => Wire[o + 4] = "t" /\ Wire[o + 5] = "cr" /\ Wire[o + 6] = "lf"
           /\ message.flaw = "trailer" =>
                 Wire[o + t + 4] = "x" /\ Wire[o + t + 5] = "cr" /\ Wire[o + t + 6] = "lf"
           /\ message.flaw # "trailer" =>
                 /\ Wire[o + t + 4] = "cr" /\ Wire[o + t + 5] = "lf"
                 /\ Len(BodyWire(message)) = o + t + 5
           /\ message.flaw = "trailer" => Len(BodyWire(message)) = o + t + 8
           /\ message.rest \in Seq(Byte) /\ Len(message.rest) \in Nat
           /\ Len(BodyWire(message)) \in Nat
           /\ Len(Wire) = Len(BodyWire(message)) + Len(message.rest)
           /\ \A i \in 1 .. Len(message.rest) : Wire[Len(BodyWire(message)) + i] = message.rest[i]
  <1> DEFINE z == <<"0">>
             x == IF message.flaw = "trailer" THEN <<"x">> \o CRLF ELSE <<>>
             w0 == Firsts(ChunkFamily, Count)
             w1 == w0 \o z
             w2 == w1 \o CRLF
             w3 == w2 \o message.trailer
             w4 == w3 \o x
             w5 == w4 \o CRLF
             w6 == w5 \o message.rest
             t == Len(message.trailer)
             o == Offset(Count)
  <1>1. message.encoding = "chunked" /\ message \in Chunkeds /\ Count \in Nat
    BY ChunkedIs DEF Chunked
  <1>2. [i \in DOMAIN message.body |->
             Chunk(message.body[i], IF i = Len(message.body) THEN message.flaw ELSE "none")]
        = [i \in 1 .. Count |-> ChunkFamily[i]]
    <2>1. DOMAIN message.body = 1 .. Count
      BY <1>1 DEF Chunkeds, Count
    <2> QED  BY <2>1 DEF ChunkFamily, Flaw, Count
  <1>3. BodyWire(message) = w5 /\ Wire = w6
    BY <1>1, <1>2 DEF BodyWire, ChunkedWire, Wire, Firsts
  <1>4. z \in Seq(Byte) /\ Len(z) = 1 /\ z[1] = "0"
    BY DEF Byte
  <1>5. CRLF \in Seq(Byte) /\ Len(CRLF) = 2 /\ CRLF[1] = "cr" /\ CRLF[2] = "lf"
    BY DEF CRLF, Byte
  <1> DEFINE a == <<"t">> \o CRLF
             b == <<"x">> \o CRLF
  <1>6. a \in Seq(Byte) /\ Len(a) = 3 /\ a[1] = "t" /\ a[2] = "cr" /\ a[3] = "lf"
    BY DEF CRLF, Byte
  <1>7. b \in Seq(Byte) /\ Len(b) = 3 /\ b[1] = "x" /\ b[2] = "cr" /\ b[3] = "lf"
    BY DEF CRLF, Byte
  <1>8. message.trailer \in {<<>>, a} /\ message.rest \in Seq(Byte)
    BY <1>1 DEF Chunkeds
  <1>9. x = IF message.flaw = "trailer" THEN b ELSE <<>>
    OBVIOUS
  <1> HIDE DEF a, b, z, x
  <1>10. <<>> \in Seq(Byte) /\ Len(<<>>) = 0
    OBVIOUS
  <1>11. message.trailer \in Seq(Byte) /\ t \in {0, 3} /\ t <= 8
         /\ (t = 3 => message.trailer = a) /\ x \in Seq(Byte)
    <2>1. x \in Seq(Byte)
      BY <1>7, <1>9, <1>10
    <2>2. CASE message.trailer = <<>>
      <3>1. t = 0 /\ message.trailer \in Seq(Byte)
        BY <2>2, <1>10
      <3> QED  BY <2>1, <3>1
    <2>3. CASE message.trailer = a
      <3>1. t = 3 /\ message.trailer \in Seq(Byte)
        BY <2>3, <1>6
      <3> QED  BY <2>1, <2>3, <3>1
    <2> QED  BY <1>8, <2>2, <2>3
  <1>12. w0 \in Seq(Byte) /\ Len(w0) = o /\ o \in Nat
    BY <1>1, ChunkFamilyType
  <1> HIDE DEF w0, t, o
  <1>13. Joined(w0, z, w1)
    BY <1>4, <1>12, Join
  <1>14. Joined(w1, CRLF, w2)
    <2>1. w1 \in Seq(Byte)
      BY <1>13 DEF Joined
    <2> QED  BY <1>5, <2>1, Join
  <1> HIDE DEF w1
  <1>15. Joined(w2, message.trailer, w3)
    <2>1. w2 \in Seq(Byte)
      BY <1>14 DEF Joined
    <2> QED  BY <1>11, <2>1, Join
  <1> HIDE DEF w2
  <1>16. Joined(w3, x, w4)
    <2>1. w3 \in Seq(Byte)
      BY <1>15 DEF Joined
    <2> QED  BY <1>11, <2>1, Join
  <1> HIDE DEF w3
  <1>17. Joined(w4, CRLF, w5)
    <2>1. w4 \in Seq(Byte)
      BY <1>16 DEF Joined
    <2> QED  BY <1>5, <2>1, Join
  <1> HIDE DEF w4
  <1>18. Joined(w5, message.rest, w6)
    <2>1. w5 \in Seq(Byte)
      BY <1>17 DEF Joined
    <2> QED  BY <1>8, <2>1, Join
  <1> HIDE DEF w5, w6
  <1>19. /\ Len(w1) = o + 1 /\ Len(w2) = o + 3 /\ Len(w3) = o + 3 + t
         /\ Len(w4) = o + 3 + t + Len(x) /\ Len(w5) = o + 5 + t + Len(x) /\ Len(x) \in Nat
         /\ t \in Nat
    <2>1. Len(w1) = Len(w0) + Len(z) /\ Len(w2) = Len(w1) + Len(CRLF)
      BY <1>13, <1>14 DEF Joined
    <2>2. Len(w3) = Len(w2) + t /\ t \in Nat
      BY <1>15 DEF Joined, t
    <2>3. Len(w4) = Len(w3) + Len(x) /\ Len(x) \in Nat /\ Len(w5) = Len(w4) + Len(CRLF)
      BY <1>16, <1>17 DEF Joined
    <2>4. Len(w1) = o + 1 /\ Len(w2) = o + 3
      BY <1>4, <1>5, <1>12, <2>1
    <2>5. Len(w3) = o + 3 + t /\ Len(w4) = o + 3 + t + Len(x)
      BY <1>12, <2>2, <2>3, <2>4
    <2> QED  BY <1>5, <1>12, <2>2, <2>3, <2>4, <2>5
  <1> DEFINE Prefix(s) == Begins(s, w6)
  <1>0. /\ Prefix(w5) /\ Prefix(w4) /\ Prefix(w3) /\ Prefix(w2) /\ Prefix(w1) /\ Prefix(w0)
    <2>1. Begins(w5, w6)
      BY <1>18 DEF Joined, Begins
    <2>2. Begins(w4, w6)
      BY <1>17, <2>1, JoinBegins
    <2>3. Begins(w3, w6)
      BY <1>16, <2>2, JoinBegins
    <2>4. Begins(w2, w6)
      BY <1>15, <2>3, JoinBegins
    <2>5. Begins(w1, w6)
      BY <1>14, <2>4, JoinBegins
    <2>6. Begins(w0, w6)
      BY <1>13, <2>5, JoinBegins
    <2> QED  BY <2>1, <2>2, <2>3, <2>4, <2>5, <2>6
  <1>20. /\ \A i \in 1 .. o : w6[i] = w0[i] 
         /\ w6[o + 1] = "0"
    <2>1. \A i \in 1 .. Len(w1) : w6[i] = w1[i]
      BY <1>0 DEF Begins
    <2> QED  BY <1>4, <1>12, <1>13, <1>19, <2>1 DEF Joined
  <1>21. w6[o + 2] = "cr" /\ w6[o + 3] = "lf"
    <2>1. \A i \in 1 .. Len(w2) : w6[i] = w2[i]
      BY <1>0 DEF Begins
    <2>2. w2[Len(w1) + 1] = CRLF[1] /\ w2[Len(w1) + 2] = CRLF[2]
      BY <1>5, <1>14 DEF Joined
    <2> QED  BY <1>5, <1>12, <1>19, <2>1, <2>2
  <1>22. t = 3 => w6[o + 4] = "t" /\ w6[o + 5] = "cr" /\ w6[o + 6] = "lf"
    <2> SUFFICES ASSUME t = 3 PROVE w6[o + 4] = "t" /\ w6[o + 5] = "cr" /\ w6[o + 6] = "lf"
      OBVIOUS
    <2>1. \A i \in 1 .. Len(w3) : w6[i] = w3[i]
      BY <1>0 DEF Begins
    <2>2. \A i \in 1 .. 3 : w3[Len(w2) + i] = a[i]
      BY <1>6, <1>11, <1>15 DEF Joined
    <2> QED  BY <1>6, <1>12, <1>19, <2>1, <2>2
  <1>23. message.flaw = "trailer" =>
            w6[o + t + 4] = "x" /\ w6[o + t + 5] = "cr" /\ w6[o + t + 6] = "lf"
    <2> SUFFICES ASSUME message.flaw = "trailer"
                 PROVE  w6[o + t + 4] = "x" /\ w6[o + t + 5] = "cr" /\ w6[o + t + 6] = "lf"
      OBVIOUS
    <2>1. \A i \in 1 .. Len(w4) : w6[i] = w4[i]
      BY <1>0 DEF Begins
    <2>2. x = b /\ \A i \in 1 .. 3 : w4[Len(w3) + i] = b[i]
      BY <1>7, <1>9, <1>16 DEF Joined
    <2>3. /\ Len(w3) + 1 = o + t + 4 /\ Len(w3) + 2 = o + t + 5 /\ Len(w3) + 3 = o + t + 6
          /\ Len(w4) = o + t + 6
      <3>1. Len(x) = 3
        BY <1>7, <2>2
      <3>2. Len(w3) = o + 3 + t /\ Len(w4) = o + 3 + t + 3 /\ o \in Nat /\ t \in Nat
        BY <1>12, <1>19, <3>1
      <3> QED  BY <3>2
    <2>4. w4[o + t + 4] = "x" /\ w4[o + t + 5] = "cr" /\ w4[o + t + 6] = "lf"
      BY <1>7, <2>2, <2>3
    <2>5. o + t + 4 \in 1 .. Len(w4) /\ o + t + 5 \in 1 .. Len(w4) /\ o + t + 6 \in 1 .. Len(w4)
      BY <1>12, <1>19, <2>3
    <2> QED  BY <2>1, <2>4, <2>5
  <1>24. message.flaw # "trailer" =>
            w6[o + t + 4] = "cr" /\ w6[o + t + 5] = "lf" /\ Len(w5) = o + t + 5
    <2> SUFFICES ASSUME message.flaw # "trailer"
                 PROVE  w6[o + t + 4] = "cr" /\ w6[o + t + 5] = "lf" /\ Len(w5) = o + t + 5
      OBVIOUS
    <2>1. \A i \in 1 .. Len(w5) : w6[i] = w5[i]
      BY <1>0 DEF Begins
    <2>2. Len(x) = 0 /\ w5[Len(w4) + 1] = CRLF[1] /\ w5[Len(w4) + 2] = CRLF[2]
      BY <1>5, <1>9, <1>10, <1>17 DEF Joined
    <2> QED  BY <1>5, <1>12, <1>19, <2>1, <2>2
  <1>25. /\ w6 \in Seq(Byte) /\ Len(w6) = Len(w5) + Len(message.rest) /\ Len(w5) \in Nat
         /\ Len(message.rest) \in Nat
         /\ \A i \in 1 .. Len(message.rest) : w6[Len(w5) + i] = message.rest[i]
    BY <1>18 DEF Joined
  <1>26. message.flaw = "trailer" => Len(w5) = o + t + 8
    <2> SUFFICES ASSUME message.flaw = "trailer" PROVE Len(w5) = o + t + 8
      OBVIOUS
    <2>1. Len(x) = 3
      BY <1>7, <1>9
    <2> QED  BY <1>12, <1>19, <2>1
  <1> QED
    BY <1>3, <1>8, <1>11, <1>12, <1>20, <1>21, <1>22, <1>23, <1>24, <1>25, <1>26 DEF w0, t, o

(* Chunk k + 1, where it stands in the wire.                               *)
LEMMA ChunkAt ==
    ASSUME message \in Messages, Chunked, NEW k \in 0 .. Count - 1
    PROVE  LET c == message.body[k + 1]
               o == Offset(k) IN
           /\ c \in Seq(Byte) /\ Len(c) \in 1 .. 4 /\ o \in Nat /\ Offset(k + 1) \in Nat
           /\ Offset(k + 1) <= Offset(Count)
           /\ Flaw(k + 1) # "line" =>
                 /\ Offset(k + 1) = o + Len(c) + 6
                 /\ Wire[o + 1] = "0" /\ Wire[o + 3] = "cr" /\ Wire[o + 4] = "lf"
                 /\ \A j \in 1 .. Len(c) : Wire[o + 4 + j] = c[j]
                 /\ Flaw(k + 1) = "break" => Wire[o + 4 + Len(c) + 1] = "x"
                 /\ Flaw(k + 1) # "break" => /\ Wire[o + 4 + Len(c) + 1] = "cr"
                                             /\ Wire[o + 4 + Len(c) + 2] = "lf"
                 /\ Flaw(k + 1) = "digit" => Wire[o + 2] = "x"
                 /\ Flaw(k + 1) # "digit" => Wire[o + 2] = Chunks!Numerals[Len(c) + 1]
           /\ Flaw(k + 1) = "line" =>
                 /\ o + SizeLimit <= Offset(k + 1)
                 /\ \A i \in 1 .. SizeLimit : Wire[o + i] = "0"
  <1> DEFINE c == message.body[k + 1]
             o == Offset(k)
             f == Flaw(k + 1)
             z == SizeBytes(c, f)
             w == Chunk(c, f)
             p == Offset(k + 1)
  <1>1. k \in 0 .. Count /\ k + 1 \in 1 .. Count /\ k + 1 \in 0 .. Count /\ Count \in Nat
    BY ChunkedIs
  <1>2. c \in Seq(Byte) /\ Len(c) \in 1 .. 4 /\ Len(c) \in Nat
    BY <1>1, ChunkedIs
  <1>3. o \in Nat /\ p \in Nat /\ Offset(Count) \in Nat
        /\ o = Len(Firsts(ChunkFamily, k)) /\ p = Len(Firsts(ChunkFamily, k + 1))
        /\ Offset(Count) = Len(Firsts(ChunkFamily, Count))
    BY <1>1, ChunkFamilyType
  <1>4. ChunkFamily[k + 1] = w
    BY <1>1 DEF ChunkFamily
  <1>5. /\ p = o + Len(w) /\ p <= Offset(Count)
        /\ \A j \in 1 .. Len(w) : Firsts(ChunkFamily, Count)[o + j] = w[j]
    <2>1. ChunkFamily \in [1 .. Count -> Seq(Byte)]
      BY ChunkFamilyType
    <2>2. FoundAt(ChunkFamily, Count, k)
      BY <1>1, <2>1, FirstsAt
    <2> QED  BY <1>3, <1>4, <2>2 DEF FoundAt
  <1>6. \A i \in 1 .. Offset(Count) : Wire[i] = Firsts(ChunkFamily, Count)[i]
    BY EndAt
  <1>7. /\ w \in Seq(Byte) /\ Len(w) = Len(z) + Len(c) + 4 /\ Len(z) \in Nat
        /\ \A i \in 1 .. Len(z) : w[i] = z[i]
        /\ w[Len(z) + 1] = "cr" /\ w[Len(z) + 2] = "lf"
        /\ \A i \in 1 .. Len(c) : w[Len(z) + 2 + i] = c[i]
        /\ f = "break" => w[Len(z) + Len(c) + 3] = "x"
        /\ f # "break" => w[Len(z) + Len(c) + 3] = "cr" /\ w[Len(z) + Len(c) + 4] = "lf"
    <2>1. ChunkReads(w, z, c, f)
      BY <1>2, ChunkType
    <2> QED  BY <2>1 DEF ChunkReads
  <1>8. /\ z \in Seq(Byte)
        /\ f # "line" => Len(z) = 2
        /\ f \notin {"digit", "line"} => z[1] = "0" /\ z[2] = Chunks!Numerals[Len(c) + 1]
        /\ f = "digit" => z[1] = "0" /\ z[2] = "x"
        /\ f = "line" => Len(z) = SizeLimit + 2 /\ \A i \in 1 .. SizeLimit : z[i] = "0"
    BY <1>2, SizeType, ZenonT(40)
  <1> HIDE DEF c, o, f, z, w, p
  <1>9. \A j \in 1 .. Len(w) : Wire[o + j] = w[j]
    <2> SUFFICES ASSUME NEW j \in 1 .. Len(w) PROVE Wire[o + j] = w[j]
      OBVIOUS
    <2>1. o + j \in 1 .. Offset(Count) /\ Len(w) \in Nat
      BY <1>2, <1>3, <1>5, <1>7, SMTT(30)
    <2> QED  BY <1>5, <1>6, <2>1
  <1>10. CASE f # "line"
    <2>1. Len(z) = 2 /\ Len(w) = Len(c) + 6
      <3>1. Len(z) = 2 /\ Len(w) = Len(z) + Len(c) + 4
        BY <1>7, <1>8, <1>10
      <3> QED  BY <1>2, <3>1
    <2>2. p = o + Len(c) + 6
      BY <1>2, <1>3, <1>5, <2>1
    <2>3. /\ Wire[o + 1] = w[1] /\ Wire[o + 2] = w[2] /\ Wire[o + 3] = w[3] /\ Wire[o + 4] = w[4]
          /\ w[1] = z[1] /\ w[2] = z[2] /\ w[3] = "cr" /\ w[4] = "lf"
      BY <1>2, <1>7, <1>9, <2>1
    <2>4. \A j \in 1 .. Len(c) : Wire[o + 4 + j] = c[j]
      <3> SUFFICES ASSUME NEW j \in 1 .. Len(c) PROVE Wire[o + 4 + j] = c[j]
        OBVIOUS
      <3>1. 4 + j \in 1 .. Len(w) /\ o + (4 + j) = o + 4 + j /\ Len(z) + 2 + j = 4 + j
        BY <1>2, <1>3, <2>1
      <3>2. w[4 + j] = c[j]
        BY <1>7, <3>1
      <3> QED  BY <1>9, <3>1, <3>2
    <2>5. Wire[o + 4 + Len(c) + 1] = w[Len(c) + 5] /\ Wire[o + 4 + Len(c) + 2] = w[Len(c) + 6]
      <3>1. /\ Len(c) + 5 \in 1 .. Len(w) /\ Len(c) + 6 \in 1 .. Len(w)
            /\ o + (Len(c) + 5) = o + 4 + Len(c) + 1 /\ o + (Len(c) + 6) = o + 4 + Len(c) + 2
        BY <1>2, <1>3, <2>1
      <3> QED  BY <1>9, <3>1
    <2>6. Len(z) + Len(c) + 3 = Len(c) + 5 /\ Len(z) + Len(c) + 4 = Len(c) + 6
      BY <1>2, <2>1
    <2>7. /\ f = "break" => Wire[o + 4 + Len(c) + 1] = "x"
          /\ f # "break" => Wire[o + 4 + Len(c) + 1] = "cr" /\ Wire[o + 4 + Len(c) + 2] = "lf"
      BY <1>7, <2>5, <2>6
    <2>8. /\ Wire[o + 1] = "0"
          /\ f = "digit" => Wire[o + 2] = "x"
          /\ f # "digit" => Wire[o + 2] = Chunks!Numerals[Len(c) + 1]
      BY <1>8, <1>10, <2>3
    <2> QED  BY <1>2, <1>3, <1>5, <1>10, <2>2, <2>3, <2>4, <2>7, <2>8 DEF c, o, f, p
  <1>11. CASE f = "line"
    <2>1. SizeLimit \in Nat
      BY LimitsAssumption
    <2>2. Len(z) = SizeLimit + 2 /\ o + SizeLimit <= p
      BY <1>2, <1>3, <1>5, <1>7, <1>8, <1>11, <2>1
    <2>3. \A i \in 1 .. SizeLimit : Wire[o + i] = "0"
      <3> SUFFICES ASSUME NEW i \in 1 .. SizeLimit PROVE Wire[o + i] = "0"
        OBVIOUS
      <3>1. i \in 1 .. Len(z) /\ i \in 1 .. Len(w)
        BY <1>2, <1>7, <2>1, <2>2
      <3> QED  BY <1>7, <1>8, <1>9, <1>11, <3>1
    <2> QED  BY <1>2, <1>3, <1>5, <1>11, <2>2, <2>3 DEF c, o, f, p
  <1> QED  BY <1>10, <1>11 DEF f

-----------------------------------------------------------------------------
(* The size lines.                                                         *)

(* What the decoder takes each digit of a size line for.                   *)
LEMMA DigitValues ==
    /\ Chunks!DigitValue("0") = 0 /\ Chunks!DigitValue("1") = 1 /\ Chunks!DigitValue("2") = 2
    /\ Chunks!DigitValue("3") = 3 /\ Chunks!DigitValue("4") = 4
  <1> DEFINE m == Chunks!Numerals
  <1>1. /\ DOMAIN m = {1, 2, 3, 4, 5}
        /\ m[1] = "0" /\ m[2] = "1" /\ m[3] = "2" /\ m[4] = "3" /\ m[5] = "4"
    BY DEF Chunks!Numerals
  <1>2. \A d : Chunks!DigitValue(d) = (CHOOSE i \in DOMAIN m : m[i] = d) - 1
    BY DEF Chunks!DigitValue
  <1> HIDE DEF m
  <1>3. (CHOOSE i \in DOMAIN m : m[i] = "0") = 1
    BY <1>1
  <1>4. (CHOOSE i \in DOMAIN m : m[i] = "1") = 2
    BY <1>1
  <1>5. (CHOOSE i \in DOMAIN m : m[i] = "2") = 3
    BY <1>1
  <1>6. (CHOOSE i \in DOMAIN m : m[i] = "3") = 4
    BY <1>1
  <1>7. (CHOOSE i \in DOMAIN m : m[i] = "4") = 5
    BY <1>1
  <1> QED  BY <1>2, <1>3, <1>4, <1>5, <1>6, <1>7

Values(line, v) ==
    v = [i \in 0 .. Len(line) |->
            IF i = 0 THEN 0 ELSE 16 * v[i - 1] + Chunks!DigitValue(line[i])]

(* The value of a size line is what its digits add up to, from left to     *)
(* right.                                                                  *)
LEMMA HexIs ==
    ASSUME NEW line \in Seq(Byte), NEW v, Values(line, v),
           \A u : Values(line, u) => u[Len(line)] = v[Len(line)]
    PROVE  Chunks!HexValue(line) = v[Len(line)]
  <1>1. Chunks!HexValue(line) = (CHOOSE u : Values(line, u))[Len(line)]
    BY DEF Chunks!HexValue, Values
  <1> QED  BY <1>1

(* The line 0 is a hexadecimal number, and its value is zero.              *)
LEMMA ZeroIs ==
    ASSUME NEW line \in Seq(Byte), Len(line) = 1, line[1] = "0"
    PROVE  Chunks!IsHex(line) /\ Chunks!HexValue(line) = 0
  <1> DEFINE v == [i \in {0, 1} |-> 0]
  <1>1. 0 .. Len(line) = {0, 1}
    OBVIOUS
  <1>2. v = [i \in {0, 1} |-> IF i = 0 THEN 0 ELSE 16 * v[i - 1] + Chunks!DigitValue(line[i])]
    BY DigitValues
  <1>3. Values(line, v) /\ v[Len(line)] = 0
    BY <1>1, <1>2 DEF Values
  <1>4. ASSUME NEW u, Values(line, u)
        PROVE  u[Len(line)] = 0
    <2>1. u = [i \in {0, 1} |-> IF i = 0 THEN 0 ELSE 16 * u[i - 1] + Chunks!DigitValue(line[i])]
      BY <1>1, <1>4 DEF Values
    <2>2. u[0] = 0
      BY <2>1
    <2>3. u[1] = 16 * u[1 - 1] + Chunks!DigitValue(line[1])
      BY <2>1
    <2> QED  BY <2>2, <2>3, DigitValues
  <1> HIDE DEF v
  <1>5. Chunks!HexValue(line) = 0
    BY <1>3, <1>4, HexIs
  <1>6. Chunks!IsHex(line)
    <2>1. 1 \in DOMAIN Chunks!Numerals /\ Chunks!Numerals[1] = "0"
      BY DEF Chunks!Numerals
    <2>2. line # <<>> /\ DOMAIN line = 1 .. 1
      <3>1. line # <<>>
        BY EmptySeq
      <3>2. DOMAIN line = 1 .. Len(line)
        BY LenProperties
      <3>3. 1 .. Len(line) = 1 .. 1
        OBVIOUS
      <3> HIDE DEF v
      <3> QED  BY <3>1, <3>2, <3>3
    <2> QED  BY <2>1, <2>2 DEF Chunks!IsHex
  <1> QED  BY <1>5, <1>6

(* The size line of a chunk of n bytes is a hexadecimal number, and its    *)
(* value is n.                                                             *)
LEMMA SizeIs ==
    ASSUME NEW line \in Seq(Byte), NEW n \in 1 .. 4, Len(line) = 2, line[1] = "0",
           line[2] = Chunks!Numerals[n + 1]
    PROVE  Chunks!IsHex(line) /\ Chunks!HexValue(line) = n
  <1>0. Chunks!DigitValue(line[2]) = n /\ n + 1 \in DOMAIN Chunks!Numerals
    <2> DEFINE m == Chunks!Numerals
    <2>1. m[2] = "1" /\ m[3] = "2" /\ m[4] = "3" /\ m[5] = "4" /\ DOMAIN m = 1 .. 5
      BY DEF Chunks!Numerals
    <2> HIDE DEF m
    <2>2. n = 1 \/ n = 2 \/ n = 3 \/ n = 4
      OBVIOUS
    <2>3. line[2] = m[n + 1]
      BY DEF m
    <2>4. n + 1 \in DOMAIN m
      BY <2>1
    <2>5. n = 1 => Chunks!DigitValue(line[2]) = n
      BY <2>1, <2>3, DigitValues
    <2>6. n = 2 => Chunks!DigitValue(line[2]) = n
      BY <2>1, <2>3, DigitValues
    <2>7. n = 3 => Chunks!DigitValue(line[2]) = n
      BY <2>1, <2>3, DigitValues
    <2>8. n = 4 => Chunks!DigitValue(line[2]) = n
      BY <2>1, <2>3, DigitValues
    <2>9. Chunks!DigitValue(line[2]) = n
      BY <2>2, <2>5, <2>6, <2>7, <2>8
    <2> QED  BY <2>4, <2>9 DEF m
  <1> DEFINE v == [i \in {0, 1, 2} |-> IF i = 2 THEN n ELSE 0]
  <1>1. 0 .. Len(line) = {0, 1, 2}
    OBVIOUS
  <1>2. v = [i \in {0, 1, 2} |-> IF i = 0 THEN 0 ELSE 16 * v[i - 1] + Chunks!DigitValue(line[i])]
    BY <1>0, DigitValues
  <1>3. Values(line, v) /\ v[Len(line)] = n
    BY <1>1, <1>2 DEF Values
  <1>4. ASSUME NEW u, Values(line, u)
        PROVE  u[Len(line)] = n
    <2>1. u = [i \in {0, 1, 2} |-> IF i = 0 THEN 0 ELSE 16 * u[i - 1] + Chunks!DigitValue(line[i])]
      BY <1>1, <1>4 DEF Values
    <2>2. u[0] = 0
      BY <2>1
    <2>3. u[1] = 16 * u[1 - 1] + Chunks!DigitValue(line[1])
      BY <2>1
    <2>4. u[2] = 16 * u[2 - 1] + Chunks!DigitValue(line[2])
      BY <2>1
    <2>5. u[1] = 0
      BY <2>2, <2>3, DigitValues
    <2> QED  BY <1>0, <2>4, <2>5
  <1> HIDE DEF v
  <1>5. Chunks!HexValue(line) = n
    BY <1>3, <1>4, HexIs
  <1>6. Chunks!IsHex(line)
    <2>1. 1 \in DOMAIN Chunks!Numerals /\ Chunks!Numerals[1] = "0"
      BY DEF Chunks!Numerals
    <2>2. line # <<>> /\ DOMAIN line = 1 .. 2
      <3>1. line # <<>>
        BY EmptySeq
      <3>2. DOMAIN line = 1 .. Len(line)
        BY LenProperties
      <3>3. 1 .. Len(line) = 1 .. 2
        OBVIOUS
      <3> HIDE DEF v
      <3> QED  BY <3>1, <3>2, <3>3
    <2>3. \A i \in 1 .. 2 : i = 1 \/ i = 2
      OBVIOUS
    <2> QED  BY <1>0, <2>1, <2>2, <2>3 DEF Chunks!IsHex
  <1> QED  BY <1>5, <1>6

(* A size line with a character that is no digit is refused.               *)
LEMMA NotHex ==
    ASSUME NEW line \in Seq(Byte), Len(line) = 2, line[2] = "x"
    PROVE  ~Chunks!IsHex(line)
  <1>1. 2 \in DOMAIN line
    OBVIOUS
  <1>2. \A k \in DOMAIN Chunks!Numerals : Chunks!Numerals[k] # "x"
    BY DEF Chunks!Numerals
  <1> QED  BY <1>1, <1>2 DEF Chunks!IsHex

-----------------------------------------------------------------------------
(* The decoder of chunks, turn by turn.                                    *)

(* What has arrived of a size line, and where it ends.                     *)
LEMMA SizeLineAt ==
    ASSUME BufferInv, Chunked, NEW k \in 0 .. Count, Used = Offset(k)
    PROVE  LET e == Chunks!LineEnd
               l == Chunks!SizeLine IN
           \/ /\ e = NotFound
              /\ Len(buffer) < SizeLimit \/ (k < Count /\ Flaw(k + 1) = "line")
              /\ k = Count => Len(buffer) < 3
              /\ k < Count /\ Flaw(k + 1) # "line" => Len(buffer) < 4
           \/ /\ k = Count /\ e = 1 /\ 3 <= Len(buffer)
              /\ l \in Seq(Byte) /\ Len(l) = 1 /\ l[1] = "0"
           \/ /\ k < Count /\ Flaw(k + 1) # "line" /\ e = 2 /\ 4 <= Len(buffer)
              /\ l \in Seq(Byte) /\ Len(l) = 2 /\ l[1] = "0" /\ l[2] = Wire[Offset(k) + 2]
  <1> DEFINE o == Offset(k)
             m == IF Len(buffer) < SizeLimit THEN Len(buffer) ELSE SizeLimit
             t == Slice(buffer, 0, m)
             e == Find(t, CRLF, 0)
             l == Slice(buffer, 0, e)
  <1>1. Chunks!LineEnd = e /\ Chunks!SizeLine = l
    BY SameBytes DEF Chunks!LineEnd, Chunks!SizeLine
  <1>2. /\ message \in Messages /\ buffer \in Seq(Byte) /\ Len(buffer) \in Nat
        /\ SizeLimit \in Nat /\ SizeLimit >= 4 /\ Count \in Nat
        /\ \A i \in 1 .. Len(buffer) : buffer[i] = Wire[o + i]
    BY LimitsAssumption, LenProperties, ChunkedIs DEF BufferInv
  <1>3. m \in Nat /\ m <= Len(buffer) /\ m <= SizeLimit /\ (m < 4 => m = Len(buffer) /\ m < SizeLimit)
    BY <1>2
  <1> HIDE DEF m
  <1>4. /\ t \in Seq(Byte) /\ Len(t) = m
        /\ \A i \in 1 .. m : t[i] = Wire[o + i]
    <2>1. t \in Seq(Byte) /\ Sliced(buffer, 0, m, t)
      BY <1>2, <1>3, SliceOf
    <2> HIDE DEF t
    <2> QED  BY <1>2, <1>3, <2>1 DEF Sliced
  <1>5. \/ e = NotFound /\ \A i \in Nat : 0 <= i => ~CrlfAt(t, i)
        \/ e \in Nat /\ 0 <= e /\ CrlfAt(t, e) /\ \A i \in Nat : 0 <= i /\ CrlfAt(t, i) => e <= i
    BY <1>4, FindCrlf
  <1> HIDE DEF t, e
  <1>6. \A i \in Nat : CrlfAt(t, i) <=> i + 2 <= m /\ Wire[o + (i + 1)] = "cr" /\ Wire[o + (i + 2)] = "lf"
    <2> SUFFICES ASSUME NEW i \in Nat
                 PROVE  CrlfAt(t, i) <=> i + 2 <= m /\ Wire[o + (i + 1)] = "cr" /\ Wire[o + (i + 2)] = "lf"
      OBVIOUS
    <2>1. i + 2 <= m => i + 1 \in 1 .. m /\ i + 2 \in 1 .. m
      BY <1>3
    <2> QED  BY <1>4, <2>1 DEF CrlfAt
  <1>7. ASSUME e # NotFound, NEW n \in 1 .. 2, e = n
        PROVE  /\ n + 2 <= Len(buffer) /\ l \in Seq(Byte) /\ Len(l) = n
               /\ \A i \in 1 .. n : l[i] = Wire[o + i]
    <2>1. n + 2 <= m
      BY <1>5, <1>6, <1>7 DEF NotFound
    <2>2. n + 2 <= Len(buffer) /\ n <= Len(buffer) /\ 0 <= n /\ n \in Nat
      BY <1>2, <1>3, <2>1
    <2>3. Slice(buffer, 0, n) \in Seq(Byte) /\ Sliced(buffer, 0, n, Slice(buffer, 0, n))
      BY <1>2, <2>2, SliceOf
    <2> DEFINE q == Slice(buffer, 0, n)
    <2>4. l = q
      BY <1>7
    <2> HIDE DEF q, l
    <2>5. Len(q) = n /\ q \in Seq(Byte) /\ \A i \in 1 .. n : q[i] = Wire[o + i]
      BY <1>2, <2>2, <2>3 DEF q, Sliced
    <2> QED  BY <2>2, <2>4, <2>5
  <1>8. o \in Nat
    BY <1>2, ChunkFamilyType
  <1>9. CASE k = Count
    <2>1. Wire[o + 1] = "0" /\ Wire[o + 2] = "cr" /\ Wire[o + 3] = "lf"
      BY <1>2, <1>9, EndAt
    <2> HIDE DEF o, l
    <2>2. ~CrlfAt(t, 0)
      BY <1>6, <1>8, <2>1
    <2>3. 3 <= m => CrlfAt(t, 1)
      BY <1>6, <1>8, <2>1
    <2>4. CASE e = NotFound
      <3>1. m < 3
        BY <1>3, <1>5, <2>3, <2>4 DEF NotFound
      <3>2. Len(buffer) < 3 /\ Len(buffer) < SizeLimit
        BY <1>2, <1>3, <3>1
      <3> QED  BY <1>1, <1>9, <2>4, <3>2
    <2>5. CASE e # NotFound
      <3>1. e \in Nat /\ CrlfAt(t, e) /\ e # 0
        BY <1>5, <2>2, <2>5
      <3>2. e + 2 <= m
        BY <1>6, <3>1
      <3>3. e = 1
        BY <1>3, <1>5, <2>3, <2>5, <3>1, <3>2
      <3> QED  BY <1>1, <1>7, <1>9, <2>1, <2>5, <3>3
    <2> QED  BY <2>4, <2>5
  <1>10. CASE k < Count /\ Flaw(k + 1) # "line"
    <2>0. k \in 0 .. Count - 1
      BY <1>2, <1>10
    <2>1. Wire[o + 1] = "0" /\ Wire[o + 2] # "cr" /\ Wire[o + 3] = "cr" /\ Wire[o + 4] = "lf"
      <3> DEFINE c == message.body[k + 1]
      <3>1. /\ Wire[o + 1] = "0" /\ Wire[o + 3] = "cr" /\ Wire[o + 4] = "lf" /\ Len(c) \in 1 .. 4
            /\ Wire[o + 2] = "x" \/ Wire[o + 2] = Chunks!Numerals[Len(c) + 1]
        BY <1>2, <1>10, <2>0, ChunkAt
      <3> HIDE DEF c, o
      <3>2. \A i \in 1 .. 5 : Chunks!Numerals[i] # "cr"
        BY DEF Chunks!Numerals
      <3>3. Len(c) + 1 \in 1 .. 5
        <4>1. \A i \in 1 .. 4 : i + 1 \in 1 .. 5
          OBVIOUS
        <4> QED  BY <3>1, <4>1
      <3> QED  BY <3>1, <3>2, <3>3
    <2> HIDE DEF o, l
    <2>2. ~CrlfAt(t, 0) /\ ~CrlfAt(t, 1)
      BY <1>6, <1>8, <2>1
    <2>3. 4 <= m => CrlfAt(t, 2)
      BY <1>6, <1>8, <2>1
    <2>4. CASE e = NotFound
      <3>1. m < 4
        BY <1>3, <1>5, <2>3, <2>4 DEF NotFound
      <3>2. Len(buffer) < 4 /\ Len(buffer) < SizeLimit
        BY <1>2, <1>3, <3>1
      <3> QED  BY <1>1, <1>10, <2>4, <3>2
    <2>5. CASE e # NotFound
      <3>1. e \in Nat /\ CrlfAt(t, e) /\ e # 0 /\ e # 1
        BY <1>5, <2>2, <2>5
      <3>2. e + 2 <= m
        BY <1>6, <3>1
      <3>3. e = 2
        BY <1>3, <1>5, <2>3, <2>5, <3>1, <3>2
      <3> QED  BY <1>1, <1>7, <1>10, <2>1, <2>5, <3>3 DEF o
    <2> QED  BY <2>4, <2>5
  <1>11. CASE k < Count /\ Flaw(k + 1) = "line"
    <2>0. k \in 0 .. Count - 1
      BY <1>2, <1>11
    <2>1. \A i \in 1 .. SizeLimit : Wire[o + i] = "0"
      BY <1>2, <1>11, <2>0, ChunkAt
    <2>2. ASSUME NEW i \in Nat, CrlfAt(t, i)
          PROVE  FALSE
      <3>1. i + 2 <= m /\ Wire[o + (i + 1)] = "cr"
        BY <1>6, <2>2
      <3>2. i + 1 \in 1 .. SizeLimit
        BY <1>2, <1>3, <3>1
      <3> QED  BY <2>1, <3>1, <3>2
    <2>3. e = NotFound
      BY <1>5, <2>2
    <2> QED  BY <1>1, <1>11, <2>3
  <1> QED  BY <1>2, <1>9, <1>10, <1>11

(* The wire of a message does not change while the message does not.       *)
LEMMA SameMessage ==
    ASSUME message' = message
    PROVE  /\ Wire' = Wire /\ Count' = Count /\ Chunked' = Chunked /\ WellFormed' = WellFormed
           /\ \A k : Offset(k)' = Offset(k) /\ Decoded(k)' = Decoded(k) /\ Flaw(k)' = Flaw(k)
  BY DEF Wire, Count, Chunked, WellFormed, Offset, Decoded, Flaw

(* Bytes leave the buffer at its front.                                    *)
LEMMA Drained ==
    ASSUME BufferInv, NEW n \in 0 .. Len(buffer), buffer' = Drain(buffer, n),
           arrived' = arrived, message' = message
    PROVE  BufferInv' /\ Used' = Used + n /\ Len(buffer') = Len(buffer) - n
  <1> DEFINE b == Drain(buffer, n)
  <1>1. /\ buffer \in Seq(Byte) /\ Len(buffer) \in Nat /\ arrived \in Nat /\ Used \in Nat
        /\ Used = arrived - Len(buffer)
        /\ \A i \in 1 .. Len(buffer) : buffer[i] = Wire[Used + i]
    BY LenProperties DEF BufferInv, Used
  <1>2. b \in Seq(Byte) /\ Sliced(buffer, n, Len(buffer), b)
    BY <1>1, DrainOf
  <1> HIDE DEF b
  <1>3. /\ Len(b) = Len(buffer) - n
        /\ \A i \in 1 .. Len(buffer) - n : b[i] = buffer[n + i]
    BY <1>2 DEF Sliced
  <1>4. buffer' = b /\ Used' = arrived - Len(b)
    BY DEF b, Used
  <1>5. Used' = Used + n
    BY <1>1, <1>3, <1>4
  <1>6. \A i \in 1 .. Len(b) : b[i] = Wire[(Used + n) + i]
    <2> SUFFICES ASSUME NEW i \in 1 .. Len(b) PROVE b[i] = Wire[(Used + n) + i]
      OBVIOUS
    <2>1. n + i \in 1 .. Len(buffer) /\ Used + (n + i) = (Used + n) + i
      BY <1>1, <1>3
    <2> QED  BY <1>1, <1>3, <2>1
  <1> HIDE DEF Used
  <1>7. BufferInv'
    <2>1. Wire' = Wire
      BY SameMessage
    <2>2. Used' >= 0
      BY <1>1, <1>5
    <2>3. \A i \in 1 .. Len(buffer') : buffer'[i] = Wire'[Used' + i]
      BY <1>4, <1>5, <1>6, <2>1
    <2> QED  BY <1>2, <1>4, <2>1, <2>2, <2>3 DEF BufferInv
  <1> QED  BY <1>3, <1>4, <1>5, <1>7

(* A step that leaves request.buffer alone keeps what is said about it.    *)
LEMMA BufferKept ==
    ASSUME BufferInv, UNCHANGED <<message, arrived, buffer>>
    PROVE  BufferInv' /\ Used' = Used
  BY SameMessage DEF BufferInv, Used

(* What was decoded of the first k chunks.                                 *)
LEMMA DecodedGrows ==
    ASSUME message \in Messages, Chunked, NEW k \in 0 .. Count
    PROVE  /\ Decoded(k) \in Seq(Byte) /\ Len(Decoded(k)) \in Nat
           /\ Decoded(Count) = FlattenSeq(message.body)
           /\ Decoded(Count) \in Seq(Byte) /\ Len(Decoded(Count)) \in Nat
           /\ Begins(Decoded(k), Decoded(Count))
           /\ Decoded(0) = <<>>
           /\ k < Count => /\ Decoded(k + 1) = Decoded(k) \o message.body[k + 1]
                           /\ Len(Decoded(k + 1)) = Len(Decoded(k)) + Len(message.body[k + 1])
                           /\ Begins(Decoded(k + 1), Decoded(Count))
  <1> DEFINE b == message.body
  <1>1. b \in [1 .. Count -> Seq(Byte)] /\ Count \in Nat /\ b = [i \in 1 .. Count |-> b[i]]
    <2>1. b \in Seq(Seq(Byte)) /\ Count = Len(b)
      BY ChunkedIs DEF Chunkeds, Count
    <2> HIDE DEF b
    <2> QED  BY <2>1, LenProperties
  <1>2. \A i : Decoded(i) = Firsts(b, i)
    BY DEF Decoded, Firsts
  <1>3. Decoded(Count) = FlattenSeq(b)
    BY <1>1 DEF Decoded
  <1>4. Decoded(0) = <<>>
    <2>1. [i \in 1 .. 0 |-> b[i]] = <<>>
      OBVIOUS
    <2> QED  BY <2>1, FlattenEmpty DEF Decoded
  <1> HIDE DEF b
  <1>5. ASSUME NEW i \in 0 .. Count
        PROVE  Firsts(b, i) \in Seq(Byte) /\ Begins(Firsts(b, i), Firsts(b, Count))
    <2>1. Firsts(b, i) \in Seq(Byte)
      BY <1>1, FirstsGrow
    <2>2. Count \in 0 .. Count
      BY <1>1
    <2>3. Begins(Firsts(b, i), Firsts(b, Count))
      BY <1>1, <2>2, FirstsBegin
    <2> QED  BY <2>1, <2>3
  <1>6. k < Count => /\ Firsts(b, k + 1) = Firsts(b, k) \o b[k + 1]
                     /\ b[k + 1] \in Seq(Byte) /\ k + 1 \in 0 .. Count
    <2>1. k < Count => Firsts(b, k + 1) = Firsts(b, k) \o b[k + 1]
      BY <1>1, FirstsGrow
    <2>2. k < Count => k + 1 \in 1 .. Count
      BY <1>1
    <2> QED  BY <1>1, <2>1, <2>2
  <1>7. k < Count => Len(Firsts(b, k) \o b[k + 1]) = Len(Firsts(b, k)) + Len(b[k + 1])
    BY <1>5, <1>6, ConcatBegins
  <1>8. Count \in 0 .. Count
    BY <1>1
  <1>9. Len(Firsts(b, k)) \in Nat /\ Len(Firsts(b, Count)) \in Nat
    BY <1>5, <1>8, LenProperties
  <1> QED  BY <1>2, <1>3, <1>4, <1>5, <1>6, <1>7, <1>8, <1>9 DEF b

(* Bytes arrive at its end.                                                *)
LEMMA Delivered ==
    ASSUME BufferInv, Wire \in Seq(Byte), Deliver
    PROVE  BufferInv' /\ Used' = Used /\ Len(buffer) <= Len(buffer')
  <1>1. PICK n \in 1 .. MaxFragment :
              /\ arrived + n <= Len(Wire) /\ arrived' = arrived + n
              /\ buffer' = buffer \o Slice(Wire, arrived, arrived + n)
    BY DEF Deliver
  <1> DEFINE t == Slice(Wire, arrived, arrived + n)
             r == buffer \o t
             a == arrived + n
  <1>2. /\ buffer \in Seq(Byte) /\ Len(buffer) \in Nat /\ arrived \in Nat /\ Used \in Nat
        /\ Used = arrived - Len(buffer) /\ Len(Wire) \in Nat /\ n \in Nat /\ 1 <= n
        /\ \A i \in 1 .. Len(buffer) : buffer[i] = Wire[Used + i]
    BY BoundsAssumption, LenProperties DEF BufferInv, Used
  <1>3. a \in Nat /\ arrived <= a /\ a <= Len(Wire) /\ a - arrived = n
    BY <1>1, <1>2
  <1> HIDE DEF a
  <1>4. t \in Seq(Byte) /\ Len(t) = n /\ \A i \in 1 .. n : t[i] = Wire[arrived + i]
    <2>1. Slice(Wire, arrived, a) \in Seq(Byte) /\ Sliced(Wire, arrived, a, Slice(Wire, arrived, a))
      BY <1>2, <1>3, SliceOf
    <2> QED  BY <1>3, <2>1 DEF Sliced, a
  <1> HIDE DEF t
  <1>5. Joined(buffer, t, r)
    BY <1>2, <1>4, Join
  <1> HIDE DEF r
  <1>6. /\ r \in Seq(Byte) /\ Len(r) = Len(buffer) + n
        /\ \A i \in 1 .. Len(buffer) : r[i] = buffer[i]
        /\ \A i \in 1 .. n : r[Len(buffer) + i] = t[i]
    BY <1>4, <1>5 DEF Joined
  <1>7. message' = message /\ buffer' = r /\ arrived' = a /\ Wire' = Wire
    <2>1. message' = message
      BY DEF Deliver
    <2> QED  BY <1>1, <2>1, SameMessage DEF r, a, t
  <1>8. Used' = Used
    <2>1. Used' = a - Len(r)
      BY <1>7 DEF Used
    <2> QED  BY <1>2, <1>6, <2>1 DEF a
  <1> HIDE DEF Used
  <1>9. \A i \in 1 .. Len(r) : r[i] = Wire[Used + i]
    <2> SUFFICES ASSUME NEW i \in 1 .. Len(r) PROVE r[i] = Wire[Used + i]
      OBVIOUS
    <2>1. CASE i <= Len(buffer)
      BY <1>2, <1>6, <2>1
    <2>2. CASE i > Len(buffer)
      <3> DEFINE h == i - Len(buffer)
      <3>1. h \in 1 .. n /\ Len(buffer) + h = i /\ arrived + h = Used + i
        BY <1>2, <1>6, <2>2
      <3> HIDE DEF h
      <3> QED  BY <1>4, <1>6, <3>1
    <2> QED  BY <1>2, <2>1, <2>2
  <1>10. BufferInv'
    BY <1>2, <1>3, <1>6, <1>7, <1>8, <1>9 DEF BufferInv
  <1> QED  BY <1>2, <1>6, <1>7, <1>8, <1>10

(* Which clause of ChunkPlace holds is written in the decoder's state.      *)
LEMMA Placed ==
    ASSUME ChunkPlace
    PROVE  /\ chunk_state = "ReadSize" => \E k \in 0 .. Count : AtSize(k)
           /\ chunk_state = "ReadData" =>
                 \E k \in 0 .. Count - 1 : \E j \in 0 .. Len(message.body[k + 1]) - 1 : AtData(k, j)
           /\ chunk_state = "ReadTrailingCRLF" => \E k \in 0 .. Count - 1 : AtBreak(k)
           /\ chunk_state = "ReadTrailers" => AtTrailers \/ AtEnd
  BY DEF ChunkPlace, AtSize, AtData, AtBreak, AtTrailers, AtEnd

OfChunks == <<cursor, chunk_state, remaining_size, total_body_read, cgi_buffer>>
Uploading == <<body_remaining, fileVars, others>>

(* A chunked body's step leaves the upload as it was.                      *)
LEMMA NoUploadKept ==
    ASSUME NoUpload, UNCHANGED Uploading
    PROVE  NoUpload'
  BY DEF NoUpload, Uploading, fileVars, Parts!NewUpload, Parts!Field, Parts!NoFile

(* A turn that only returns, or a read that only starts one.                *)
LEMMA PlaceKept ==
    ASSUME ChunkPlace, pc \in {"wait", "chunks"}, pc' \in {"wait", "chunks"},
           message' = message, UNCHANGED OfChunks, Used' = Used,
           Len(buffer) \in Nat, Len(buffer') \in Nat, Len(buffer) <= Len(buffer')
    PROVE  ChunkPlace'
  <1>1. /\ Count' = Count /\ WellFormed' = WellFormed
        /\ \A k : Offset(k)' = Offset(k) /\ Decoded(k)' = Decoded(k) /\ Flaw(k)' = Flaw(k)
    BY SameMessage
  <1>2. ASSUME NEW k \in 0 .. Count, AtSize(k)
        PROVE  AtSize(k)'
    BY <1>1, <1>2 DEF AtSize, OfChunks
  <1>3. ASSUME NEW k \in 0 .. Count - 1, NEW j \in 0 .. Len(message.body[k + 1]) - 1, AtData(k, j)
        PROVE  AtData(k, j)'
    BY <1>1, <1>3 DEF AtData, OfChunks
  <1>4. ASSUME NEW k \in 0 .. Count - 1, AtBreak(k)
        PROVE  AtBreak(k)'
    BY <1>1, <1>4 DEF AtBreak, OfChunks
  <1>5. ASSUME AtTrailers
        PROVE  AtTrailers'
    <2>1. cursor' = cursor /\ cursor \in 0 .. Len(buffer) /\ cursor' \in 0 .. Len(buffer')
      BY <1>5 DEF AtTrailers, OfChunks
    <2> QED  BY <1>1, <1>5, <2>1 DEF AtTrailers, OfChunks
  <1>6. ~AtEnd
    BY DEF AtEnd
  <1> QED  BY <1>1, <1>2, <1>3, <1>4, <1>5, <1>6 DEF ChunkPlace

(* What surrounds a turn of the decoder.                                   *)
AroundChunks == UNCHANGED <<message, arrived, body_remaining, fileVars, others>>

(* The types that the invariant of the buffer gives.                       *)
LEMMA BufferType ==
    ASSUME BufferInv
    PROVE  buffer \in Seq(Byte) /\ Len(buffer) \in Nat /\ arrived \in Nat /\ message \in Messages
  BY LenProperties DEF BufferInv

(* A turn that finds too little in the buffer to go on keeps the decoder   *)
(* where it stood.                                                         *)
LEMMA ChunksWait ==
    ASSUME BufferInv, ChunkInv, AroundChunks, Chunks!Keep, pc \in {"wait", "chunks"}, pc' = "wait"
    PROVE  BufferInv' /\ ChunkInv'
  <1>1. UNCHANGED <<message, arrived, buffer>> /\ UNCHANGED OfChunks /\ UNCHANGED Uploading
    BY DEF AroundChunks, Chunks!Keep, OfChunks, Uploading
  <1>2. BufferInv' /\ Used' = Used
    BY <1>1, BufferKept
  <1>3. ChunkPlace'
    BY <1>1, <1>2, PlaceKept, BufferType DEF ChunkInv
  <1>4. NoUpload'
    BY <1>1, NoUploadKept DEF ChunkInv
  <1>5. ChunkSum'
    BY <1>1 DEF ChunkInv, ChunkSum, OfChunks
  <1> QED  BY <1>2, <1>3, <1>4, <1>5 DEF ChunkInv

(* A fragment that arrives puts more of the wire behind what is buffered.  *)
LEMMA DeliverChunks ==
    ASSUME BufferInv, Chunked, ChunkInv, Deliver
    PROVE  BufferInv' /\ ChunkInv'
  <1>1. Wire \in Seq(Byte)
    BY BufferType, EndAt
  <1>2. BufferInv' /\ Used' = Used /\ Len(buffer) <= Len(buffer')
    BY <1>1, Delivered
  <1>3. message' = message /\ UNCHANGED OfChunks /\ UNCHANGED Uploading
        /\ pc \in {"wait", "chunks"} /\ pc' \in {"wait", "chunks"}
    BY DEF Deliver, Chunked, OfChunks, chunkVars, Uploading
  <1>4. Len(buffer) \in Nat /\ Len(buffer') \in Nat
    <2>1. buffer' \in Seq(Byte)
      BY <1>2 DEF BufferInv
    <2> QED  BY <2>1, BufferType, LenProperties
  <1>5. ChunkPlace'
    BY <1>2, <1>3, <1>4, PlaceKept DEF ChunkInv
  <1>6. NoUpload'
    BY <1>3, NoUploadKept DEF ChunkInv
  <1>7. ChunkSum'
    BY <1>3 DEF ChunkInv, ChunkSum, OfChunks
  <1> QED  BY <1>2, <1>5, <1>6, <1>7 DEF ChunkInv

(* A sound body has no flaw.                                               *)
LEMMA FlawOf ==
    ASSUME message \in Messages, Chunked, NEW k \in 0 .. Count - 1, Flaw(k + 1) # "none"
    PROVE  ~WellFormed
  BY DEF Flaw, WellFormed

(* A size line that is refused.                                            *)
LEMMA SizeRefused ==
    ASSUME BufferInv, Chunked, ChunkInv, AroundChunks, Chunks!SizeBad \/ Chunks!SizeTooLarge
    PROVE  BufferInv' /\ ChunkInv'
  <1>1. /\ UNCHANGED <<message, arrived, buffer>> /\ UNCHANGED OfChunks /\ UNCHANGED Uploading
        /\ pc' = "refused" /\ pc = "chunks" /\ chunk_state = "ReadSize"
    BY DEF AroundChunks, Chunks!Keep, OfChunks, Uploading, Chunks!SizeBad, Chunks!SizeTooLarge,
           Chunks!Return, Chunks!HasSize, Chunks!In
  <1>2. BufferInv' /\ Used' = Used
    BY <1>1, BufferKept
  <1>3. PICK k \in 0 .. Count : AtSize(k)
    BY <1>1, Placed DEF ChunkInv
  <1>4. ~WellFormed
    <2> DEFINE e == Chunks!LineEnd
               l == Chunks!SizeLine
    <2>0. message \in Messages /\ Used = Offset(k) /\ Count \in Nat
          /\ cgi_buffer = Decoded(k) /\ total_body_read = Len(cgi_buffer) /\ Len(cgi_buffer) <= MaxBodySize
      BY <1>3, BufferType, ChunkedIs DEF AtSize, ChunkInv, ChunkSum
    <2>1. \/ /\ e = NotFound
             /\ Len(buffer) < SizeLimit \/ (k < Count /\ Flaw(k + 1) = "line")
          \/ /\ k = Count /\ e = 1 /\ 3 <= Len(buffer)
             /\ l \in Seq(Byte) /\ Len(l) = 1 /\ l[1] = "0"
          \/ /\ k < Count /\ Flaw(k + 1) # "line" /\ e = 2 /\ 4 <= Len(buffer)
             /\ l \in Seq(Byte) /\ Len(l) = 2 /\ l[1] = "0" /\ l[2] = Wire[Offset(k) + 2]
      BY <2>0, SizeLineAt
    <2>2. \/ e = NotFound /\ Len(buffer) >= SizeLimit
          \/ e # NotFound /\ ~Chunks!IsHex(l)
          \/ e # NotFound /\ Chunks!IsHex(l) /\ total_body_read + Chunks!HexValue(l) > MaxBodySize
      BY SameBytes DEF Chunks!SizeBad, Chunks!SizeTooLarge, Chunks!HasSize, Chunks!TooLarge
    <2> HIDE DEF e, l
    <2>3. CASE e = NotFound
      <3>1. Len(buffer) >= SizeLimit
        BY <2>2, <2>3
      <3>2. ~(Len(buffer) < SizeLimit)
        BY <3>1, BufferType, LimitsAssumption
      <3>3. k \in 0 .. Count - 1 /\ Flaw(k + 1) = "line"
        BY <2>0, <2>1, <2>3, <3>2 DEF NotFound
      <3> QED  BY <2>0, <3>3, FlawOf
    <2>4. CASE e # NotFound /\ k = Count
      <3>1. Chunks!IsHex(l) /\ Chunks!HexValue(l) = 0
        BY <2>1, <2>4, ZeroIs
      <3>2. total_body_read + 0 > MaxBodySize
        BY <2>2, <2>4, <3>1
      <3>3. total_body_read \in Nat
        BY <2>0, DecodedGrows
      <3> QED  BY <2>0, <3>2, <3>3, LimitsAssumption
    <2>5. CASE e # NotFound /\ k # Count
      <3> DEFINE c == message.body[k + 1]
      <3>0. k \in 0 .. Count - 1
        BY <2>0, <2>5
      <3>1. /\ l \in Seq(Byte) /\ Len(l) = 2 /\ l[1] = "0" /\ l[2] = Wire[Offset(k) + 2]
            /\ Flaw(k + 1) # "line"
        BY <2>1, <2>5
      <3>2. /\ Len(c) \in 1 .. 4
            /\ Flaw(k + 1) # "digit" => l[2] = Chunks!Numerals[Len(c) + 1]
        BY <2>0, <3>0, <3>1, ChunkAt
      <3>3. CASE Flaw(k + 1) = "digit"
        BY <2>0, <3>0, <3>3, FlawOf
      <3>4. CASE Flaw(k + 1) # "digit"
        <4>1. Chunks!IsHex(l) /\ Chunks!HexValue(l) = Len(c)
          BY <3>1, <3>2, <3>4, SizeIs
        <4>2. total_body_read + Len(c) > MaxBodySize
          BY <2>2, <2>5, <4>1
        <4>3. /\ Len(Decoded(k + 1)) = Len(Decoded(k)) + Len(c)
              /\ Begins(Decoded(k + 1), Decoded(Count)) /\ Decoded(Count) = FlattenSeq(message.body)
              /\ Len(Decoded(Count)) \in Nat /\ Len(Decoded(k)) \in Nat
          BY <2>0, <3>0, DecodedGrows, SMTT(30)
        <4>4. Len(Decoded(k + 1)) <= Len(Decoded(Count))
          BY <4>3 DEF Begins
        <4> HIDE DEF c
        <4>5. Len(Decoded(Count)) > MaxBodySize
          BY <2>0, <3>2, <4>2, <4>3, <4>4, LimitsAssumption
        <4>6. ~(Len(FlattenSeq(message.body)) <= MaxBodySize)
          BY <4>3, <4>5, LimitsAssumption
        <4> QED  BY <4>6 DEF WellFormed
      <3> QED  BY <3>3, <3>4
    <2> QED  BY <2>3, <2>4, <2>5
  <1>5. AtSize(k)'
    <2>1. /\ Count' = Count /\ WellFormed' = WellFormed
          /\ Offset(k)' = Offset(k) /\ Decoded(k)' = Decoded(k)
      BY <1>1, SameMessage
    <2> QED  BY <1>1, <1>2, <1>3, <1>4, <2>1 DEF AtSize, OfChunks
  <1>6. ChunkPlace'
    BY <1>1, <1>5, SameMessage DEF ChunkPlace
  <1>7. NoUpload'
    BY <1>1, NoUploadKept DEF ChunkInv
  <1>8. ChunkSum'
    BY <1>1 DEF ChunkInv, ChunkSum, OfChunks
  <1> QED  BY <1>2, <1>6, <1>7, <1>8 DEF ChunkInv

(* More of c behind its first j bytes.                                     *)
ReadsOn(s, c, j, n, t) ==
    /\ (s \o SubSeq(c, 1, j)) \o t = s \o SubSeq(c, 1, j + n)
    /\ s \o SubSeq(c, 1, j) \in Seq(Byte)
    /\ Len(s \o SubSeq(c, 1, j)) = Len(s) + j
    /\ s \o SubSeq(c, 1, 0) = s
    /\ SubSeq(c, 1, Len(c)) = c

(* Bytes that follow the first j of a chunk make its first j + n.          *)
LEMMA ReadOn ==
    ASSUME NEW s \in Seq(Byte), NEW c \in Seq(Byte), NEW j \in Nat, NEW n \in Nat, j + n <= Len(c),
           NEW t \in Seq(Byte), Len(t) = n, \A i \in 1 .. n : t[i] = c[j + i]
    PROVE  ReadsOn(s, c, j, n, t)
  <1> DEFINE a == SubSeq(c, 1, j)
             m == j + n
             b == SubSeq(c, 1, m)
  <1>1. m \in Nat /\ Len(c) \in Nat /\ j <= Len(c) /\ m <= Len(c) /\ m = j + n
    BY LenProperties
  <1> HIDE DEF m
  <1>2. /\ a \in Seq(Byte) /\ Len(a) = j /\ \A i \in 1 .. j : a[i] = c[i]
        /\ b \in Seq(Byte) /\ Len(b) = m /\ \A i \in 1 .. m : b[i] = c[i]
    BY <1>1
  <1>3. s \o SubSeq(c, 1, 0) = s /\ SubSeq(c, 1, Len(c)) = c
    BY <1>1, ConcatEmptySeq
  <1> HIDE DEF a, b
  <1>4. /\ s \o a \in Seq(Byte) /\ Len(s \o a) = Len(s) + j /\ Len(s) \in Nat
        /\ \A i \in 1 .. Len(s) : (s \o a)[i] = s[i]
        /\ \A i \in 1 .. j : (s \o a)[Len(s) + i] = a[i]
    <2>1. Joined(s, a, s \o a)
      BY <1>2, Join
    <2> QED  BY <1>1, <1>2, <2>1 DEF Joined
  <1> DEFINE sa == s \o a
             sb == s \o b
             sat == sa \o t
  <1>5. /\ sb \in Seq(Byte) /\ Len(sb) = Len(s) + m
        /\ \A i \in 1 .. Len(s) : sb[i] = s[i]
        /\ \A i \in 1 .. m : sb[Len(s) + i] = b[i]
    <2>1. Joined(s, b, sb)
      BY <1>2, Join
    <2> QED  BY <1>1, <1>2, <2>1 DEF Joined
  <1>6. /\ sa \in Seq(Byte) /\ Len(sa) = Len(s) + j
        /\ \A i \in 1 .. Len(s) : sa[i] = s[i]
        /\ \A i \in 1 .. j : sa[Len(s) + i] = a[i]
    BY <1>4
  <1> HIDE DEF sa, sb
  <1>7. /\ sat \in Seq(Byte) /\ Len(sat) = Len(sa) + n
        /\ \A i \in 1 .. Len(sa) : sat[i] = sa[i]
        /\ \A i \in 1 .. n : sat[Len(sa) + i] = t[i]
    <2>1. Joined(sa, t, sat)
      BY <1>6, Join
    <2> QED  BY <1>6, <2>1 DEF Joined
  <1> HIDE DEF sat
  <1>8. \A i \in 1 .. Len(sat) : sat[i] = sb[i]
    <2> SUFFICES ASSUME NEW i \in 1 .. Len(sat) PROVE sat[i] = sb[i]
      OBVIOUS
    <2>1. CASE i <= Len(s)
      BY <1>4, <1>5, <1>6, <1>7, <2>1
    <2>2. CASE i > Len(s) /\ i <= Len(s) + j
      <3> DEFINE h == i - Len(s)
      <3>1. h \in 1 .. j /\ h \in 1 .. m /\ Len(s) + h = i /\ i \in 1 .. Len(sa)
        BY <1>1, <1>4, <1>6, <2>2
      <3> HIDE DEF h
      <3>2. sat[i] = sa[i] /\ sa[Len(s) + h] = a[h] /\ a[h] = c[h]
        BY <1>2, <1>6, <1>7, <3>1
      <3>3. sb[Len(s) + h] = b[h] /\ b[h] = c[h]
        BY <1>2, <1>5, <3>1
      <3> QED  BY <3>1, <3>2, <3>3
    <2>3. CASE i > Len(s) + j
      <3> DEFINE h == i - (Len(s) + j)
      <3>1. h \in 1 .. n /\ j + h \in 1 .. m /\ Len(sa) + h = i /\ Len(s) + (j + h) = i
        BY <1>1, <1>4, <1>6, <1>7, <2>3
      <3> HIDE DEF h
      <3>2. sat[Len(sa) + h] = t[h] /\ t[h] = c[j + h]
        BY <1>7, <3>1
      <3>3. sb[Len(s) + (j + h)] = b[j + h] /\ b[j + h] = c[j + h]
        BY <1>2, <1>5, <3>1
      <3> QED  BY <3>1, <3>2, <3>3
    <2> QED  BY <1>4, <2>1, <2>2, <2>3
  <1>9. Len(sat) = Len(sb)
    BY <1>1, <1>4, <1>5, <1>6, <1>7
  <1>10. sat = sb
    BY <1>5, <1>7, <1>8, <1>9, SeqEqual
  <1> QED  BY <1>1, <1>3, <1>4, <1>10 DEF sat, sb, sa, a, b, m, ReadsOn

(* A size line that is read.                                               *)
LEMMA StartOfChunk ==
    ASSUME BufferInv, Chunked, ChunkInv, AroundChunks, Chunks!ChunkStart
    PROVE  BufferInv' /\ ChunkInv'
  <1> DEFINE e == Chunks!LineEnd
             l == Chunks!SizeLine
             h == Chunks!HexValue(l)
  <1>1. /\ UNCHANGED <<message, arrived>> /\ UNCHANGED Uploading
        /\ UNCHANGED <<cursor, total_body_read, cgi_buffer, pc>>
        /\ pc = "chunks" /\ chunk_state = "ReadSize"
        /\ e # NotFound /\ Chunks!IsHex(l) /\ ~(total_body_read + h > MaxBodySize)
        /\ remaining_size' = h
        /\ chunk_state' = IF h = 0 THEN "ReadTrailers" ELSE "ReadData"
        /\ buffer' = Drain(buffer, e + 2)
    BY SameBytes DEF AroundChunks, Uploading, Chunks!ChunkStart, Chunks!HasSize, Chunks!In,
           Chunks!TooLarge
  <1>2. PICK k \in 0 .. Count : AtSize(k)
    BY <1>1, Placed DEF ChunkInv
  <1>3. /\ message \in Messages /\ Used = Offset(k) /\ Offset(k) \in Nat /\ Count \in Nat /\ cursor = 0
        /\ cgi_buffer = Decoded(k) /\ total_body_read = Len(cgi_buffer) /\ Len(cgi_buffer) <= MaxBodySize
        /\ k = Count => message.flaw \in {"none", "trailer"}
    BY <1>2, BufferType, ChunkedIs, ChunkFamilyType DEF AtSize, ChunkInv, ChunkSum
  <1>4. \/ e = NotFound
        \/ /\ k = Count /\ e = 1 /\ 3 <= Len(buffer)
           /\ l \in Seq(Byte) /\ Len(l) = 1 /\ l[1] = "0"
        \/ /\ k < Count /\ Flaw(k + 1) # "line" /\ e = 2 /\ 4 <= Len(buffer)
           /\ l \in Seq(Byte) /\ Len(l) = 2 /\ l[1] = "0" /\ l[2] = Wire[Offset(k) + 2]
    BY <1>3, SizeLineAt
  <1> HIDE DEF e, l
  <1>5. ASSUME NEW n \in 3 .. 4, e + 2 = n, n <= Len(buffer)
        PROVE  BufferInv' /\ Used' = Offset(k) + n /\ Len(buffer') \in Nat
    <2>1. n \in 0 .. Len(buffer) /\ buffer' = Drain(buffer, n)
      BY <1>1, <1>5, BufferType
    <2>2. BufferInv' /\ Used' = Used + n /\ Len(buffer') = Len(buffer) - n
      BY <1>1, <2>1, Drained
    <2> QED  BY <1>3, <2>1, <2>2, BufferType
  <1>6. /\ Count' = Count /\ WellFormed' = WellFormed
        /\ \A i : Offset(i)' = Offset(i) /\ Decoded(i)' = Decoded(i) /\ Flaw(i)' = Flaw(i)
    BY <1>1, SameMessage
  <1>7. NoUpload'
    BY <1>1, NoUploadKept DEF ChunkInv
  <1>8. ChunkSum'
    BY <1>1 DEF ChunkInv, ChunkSum
  <1>9. CASE k = Count
    <2>1. e = 1 /\ 3 <= Len(buffer) /\ l \in Seq(Byte) /\ Len(l) = 1 /\ l[1] = "0"
      BY <1>1, <1>4, <1>9
    <2>2. h = 0
      BY <2>1, ZeroIs
    <2>3. e + 2 = 3
      BY <2>1
    <2>4. BufferInv' /\ Used' = Offset(Count) + 3 /\ Len(buffer') \in Nat
      BY <1>5, <1>9, <2>1, <2>3
    <2>5. cursor' = 0 /\ cursor' \in 0 .. Len(buffer')
      BY <1>1, <1>3, <2>4
    <2>6. /\ chunk_state' = "ReadTrailers" /\ remaining_size' = 0 /\ pc' = "chunks"
          /\ cgi_buffer' = Decoded(Count) /\ message'.flaw \in {"none", "trailer"}
      BY <1>1, <1>3, <1>9, <2>2
    <2>7. AtTrailers'
      BY <1>6, <2>4, <2>5, <2>6 DEF AtTrailers
    <2>8. ChunkPlace'
      BY <2>7 DEF ChunkPlace
    <2> QED  BY <1>7, <1>8, <2>4, <2>8 DEF ChunkInv
  <1>10. CASE k # Count
    <2> DEFINE c == message.body[k + 1]
    <2>0. k \in 0 .. Count - 1
      BY <1>3, <1>10
    <2>1. /\ Flaw(k + 1) # "line" /\ e = 2 /\ 4 <= Len(buffer)
          /\ l \in Seq(Byte) /\ Len(l) = 2 /\ l[1] = "0" /\ l[2] = Wire[Offset(k) + 2]
      BY <1>1, <1>4, <1>10
    <2>2. /\ c \in Seq(Byte) /\ Len(c) \in 1 .. 4
          /\ Flaw(k + 1) = "digit" => l[2] = "x"
          /\ Flaw(k + 1) # "digit" => l[2] = Chunks!Numerals[Len(c) + 1]
      BY <1>3, <2>0, <2>1, ChunkAt
    <2>20. \A x \in 1 .. 4 : x # 0 /\ x - 0 = x /\ 0 \in 0 .. x - 1
      OBVIOUS
    <2>21. Len(c) # 0 /\ Len(c) - 0 = Len(c) /\ 0 \in 0 .. Len(c) - 1
      BY <2>2, <2>20
    <2>3. Flaw(k + 1) # "digit"
      BY <1>1, <2>1, <2>2, NotHex
    <2>4. h = Len(c)
      BY <2>1, <2>2, <2>3, SizeIs
    <2>5. e + 2 = 4
      BY <2>1
    <2>6. BufferInv' /\ Used' = Offset(k) + 4
      BY <1>5, <2>1, <2>5
    <2>7. Decoded(k) \in Seq(Byte) /\ Len(Decoded(k)) \in Nat
      BY <1>3, DecodedGrows
    <2>8. Len(Decoded(k)) + Len(c) <= MaxBodySize
      BY <1>1, <1>3, <2>2, <2>4, <2>7, LimitsAssumption
    <2>9. Decoded(k) \o SubSeq(c, 1, 0) = Decoded(k)
      <3>1. SubSeq(c, 1, 0) = <<>>
        BY <2>2
      <3> QED  BY <2>7, <3>1, ConcatEmptySeq
    <2>10. chunk_state' = "ReadData" /\ remaining_size' = Len(c) - 0 /\ pc' = "chunks" /\ cursor' = 0
           /\ cgi_buffer' = Decoded(k) \o SubSeq(c, 1, 0)
      <3>1. h # 0 /\ h = h - 0
        BY <2>4, <2>21
      <3> QED  BY <1>1, <1>3, <2>4, <2>9, <3>1
    <2>11. Used' = Offset(k) + 4 + 0
      BY <1>3, <2>6
    <2>12. c' = c
      BY <1>1
    <2> HIDE DEF c, h
    <2>13. AtData(k, 0)'
      BY <1>6, <2>1, <2>3, <2>8, <2>10, <2>11, <2>12 DEF AtData, c
    <2>14. 0 \in 0 .. Len(c') - 1
      BY <2>12, <2>21
    <2>15. ChunkPlace'
      BY <1>6, <2>0, <2>13, <2>14 DEF ChunkPlace, c
    <2> QED  BY <1>7, <1>8, <2>6, <2>15 DEF ChunkInv
  <1> QED  BY <1>9, <1>10

(* The data of a chunk.                                                    *)
LEMMA DataOfChunk ==
    ASSUME BufferInv, Chunked, ChunkInv, AroundChunks, Chunks!ReadData
    PROVE  BufferInv' /\ ChunkInv'
  <1> DEFINE r == Chunks!ToRead
             t == Slice(buffer, 0, r)
  <1>1. /\ UNCHANGED <<message, arrived>> /\ UNCHANGED Uploading
        /\ UNCHANGED cursor
        /\ pc = "chunks" /\ chunk_state = "ReadData" /\ buffer # <<>>
        /\ cgi_buffer' = cgi_buffer \o t
        /\ buffer' = Drain(buffer, r)
        /\ total_body_read' = total_body_read + r
        /\ remaining_size' = remaining_size - r
        /\ IF remaining_size' = 0 THEN chunk_state' = "ReadTrailingCRLF" /\ pc' = pc
           ELSE pc' = "wait" /\ chunk_state' = chunk_state
    BY SameBytes DEF AroundChunks, Uploading, Chunks!ReadData, Chunks!In
  <1>25. PICK k \in 0 .. Count - 1 :
            \E i \in 0 .. Len(message.body[k + 1]) - 1 : AtData(k, i)
    BY <1>1, Placed DEF ChunkInv
  <1>2. PICK j \in 0 .. Len(message.body[k + 1]) - 1 : AtData(k, j)
    BY <1>25
  <1> DEFINE c == message.body[k + 1]
             o == Offset(k)
             d == Decoded(k)
  <1>3. /\ message \in Messages /\ Count \in Nat /\ k \in 0 .. Count
        /\ buffer \in Seq(Byte) /\ Len(buffer) \in Nat
        /\ \A i \in 1 .. Len(buffer) : buffer[i] = Wire[Used + i]
    BY BufferType, ChunkedIs DEF BufferInv
  <1>4. /\ c \in Seq(Byte) /\ Len(c) \in 1 .. 4 /\ o \in Nat
        /\ Flaw(k + 1) # "line" => \A i \in 1 .. Len(c) : Wire[o + 4 + i] = c[i]
    BY <1>3, ChunkAt
  <1>5. /\ d \in Seq(Byte) /\ Len(d) \in Nat /\ Decoded(k + 1) = d \o c
        /\ Len(Decoded(k + 1)) = Len(d) + Len(c)
    <2>1. k < Count
      BY <1>3
    <2> QED  BY <1>3, <2>1, DecodedGrows
  <1>6. /\ remaining_size = Len(c) - j /\ cursor = 0 /\ Used = o + 4 + j
        /\ cgi_buffer = d \o SubSeq(c, 1, j) /\ Flaw(k + 1) \notin {"digit", "line"}
        /\ Len(d) + Len(c) <= MaxBodySize
    BY <1>2 DEF AtData
  <1>7. cgi_buffer \in Seq(Byte) /\ total_body_read = Len(cgi_buffer)
    BY DEF ChunkInv, ChunkSum
  <1>8. /\ Count' = Count /\ WellFormed' = WellFormed
        /\ \A i : Offset(i)' = Offset(i) /\ Decoded(i)' = Decoded(i) /\ Flaw(i)' = Flaw(i)
    BY <1>1, SameMessage
  <1>9. NoUpload'
    BY <1>1, NoUploadKept DEF ChunkInv
  <1>10. c' = c
    BY <1>1
  <1>11. j \in Nat /\ j < Len(c) /\ Len(c) \in Nat
    BY <1>4
  <1> HIDE DEF c, o, d
  <1>12. Len(buffer) # 0
    BY <1>1, <1>3, EmptySeq
  <1>13. r = IF Len(buffer) < remaining_size THEN Len(buffer) ELSE remaining_size
    BY DEF Chunks!ToRead
  <1>14. r \in Nat /\ 1 <= r /\ r <= Len(buffer) /\ r <= Len(c) - j /\ r \in 0 .. Len(buffer)
         /\ j + r <= Len(c)
    BY <1>3, <1>6, <1>11, <1>12, <1>13, SMTT(30)
  <1> HIDE DEF r
  <1>15. t \in Seq(Byte) /\ Len(t) = r /\ \A i \in 1 .. r : t[i] = buffer[i]
    <2>1. Slice(buffer, 0, r) \in Seq(Byte) /\ Sliced(buffer, 0, r, Slice(buffer, 0, r))
      BY <1>3, <1>14, SliceOf
    <2> HIDE DEF t
    <2>2. t \in Seq(Byte) /\ Sliced(buffer, 0, r, t)
      BY <2>1 DEF t
    <2> QED  BY <1>14, <2>2 DEF Sliced
  <1> HIDE DEF t
  <1>16. \A i \in 1 .. r : t[i] = c[j + i]
    <2> SUFFICES ASSUME NEW i \in 1 .. r PROVE t[i] = c[j + i]
      OBVIOUS
    <2>1. i \in 1 .. Len(buffer) /\ j + i \in 1 .. Len(c) /\ Used + i = o + 4 + (j + i)
      BY <1>3, <1>4, <1>6, <1>11, <1>14
    <2>2. t[i] = buffer[i] /\ buffer[i] = Wire[Used + i]
      BY <1>3, <1>15, <2>1
    <2>3. Wire[o + 4 + (j + i)] = c[j + i]
      BY <1>4, <1>6, <2>1
    <2> QED  BY <2>1, <2>2, <2>3
  <1>17. /\ cgi_buffer' = d \o SubSeq(c, 1, j + r)
         /\ Len(cgi_buffer) = Len(d) + j /\ SubSeq(c, 1, Len(c)) = c
    <2>1. j + r <= Len(c)
      BY <1>14
    <2>2. ReadsOn(d, c, j, r, t)
      BY <1>4, <1>5, <1>11, <1>14, <1>15, <1>16, <2>1, ReadOn
    <2> QED  BY <1>1, <1>6, <2>2 DEF ReadsOn
  <1>18. cgi_buffer' \in Seq(Byte) /\ Len(cgi_buffer') = Len(cgi_buffer) + r
    <2>1. Joined(cgi_buffer, t, cgi_buffer \o t)
      BY <1>7, <1>15, Join
    <2> QED  BY <1>1, <1>15, <2>1 DEF Joined
  <1>19. ChunkSum'
    <2>1. Len(d) + j + r <= MaxBodySize
      BY <1>5, <1>6, <1>11, <1>14, LimitsAssumption
    <2>2. total_body_read' = Len(cgi_buffer')
      BY <1>1, <1>7, <1>18
    <2>3. Len(cgi_buffer') <= MaxBodySize
      BY <1>17, <1>18, <2>1
    <2> QED  BY <1>18, <2>2, <2>3 DEF ChunkSum
  <1>20. BufferInv' /\ Used' = o + 4 + (j + r)
    <2>1. BufferInv' /\ Used' = Used + r
      BY <1>1, <1>14, Drained
    <2>2. Used + r = o + 4 + (j + r)
      BY <1>4, <1>6, <1>11, <1>14
    <2> QED  BY <2>1, <2>2
  <1>21. remaining_size' = Len(c) - (j + r) /\ cursor' = 0
    BY <1>1, <1>6, <1>11, <1>14
  <1>22. CASE j + r = Len(c)
    <2>1. remaining_size' = 0 /\ chunk_state' = "ReadTrailingCRLF" /\ pc' = "chunks"
      BY <1>1, <1>11, <1>21, <1>22
    <2>2. cgi_buffer' = Decoded(k + 1)
      BY <1>5, <1>17, <1>22
    <2>3. Used' = o + 4 + Len(c)
      BY <1>20, <1>22
    <2>4. AtBreak(k)'
      BY <1>6, <1>8, <1>10, <1>21, <2>1, <2>2, <2>3 DEF AtBreak, c, o
    <2>5. ChunkPlace'
      BY <1>8, <2>4 DEF ChunkPlace
    <2> QED  BY <1>9, <1>19, <1>20, <2>5 DEF ChunkInv
  <1>23. CASE j + r # Len(c)
    <2>0. j + r \in 0 .. Len(c) - 1 /\ Len(c) - (j + r) # 0
      BY <1>11, <1>14, <1>23
    <2>1. pc' = "wait" /\ chunk_state' = "ReadData"
      BY <1>1, <1>21, <2>0
    <2>5. PICK n \in Nat : n = j + r
      BY <1>11, <1>14
    <2>2. AtData(k, n)'
      BY <1>6, <1>8, <1>10, <1>17, <1>20, <1>21, <2>1, <2>5 DEF AtData, c, o, d
    <2>3. n \in 0 .. Len(c') - 1
      BY <1>10, <2>0, <2>5
    <2>4. ChunkPlace'
      BY <1>8, <2>2, <2>3 DEF ChunkPlace, c
    <2> QED  BY <1>9, <1>19, <1>20, <2>4 DEF ChunkInv
  <1> QED  BY <1>22, <1>23

(* The line break behind a chunk.                                          *)
LEMMA BreakOfChunk ==
    ASSUME BufferInv, Chunked, ChunkInv, AroundChunks, Chunks!CrlfBad \/ Chunks!ChunkEnd
    PROVE  BufferInv' /\ ChunkInv'
  <1> DEFINE t == Slice(buffer, 0, 2)
  <1>1. /\ UNCHANGED <<message, arrived>> /\ UNCHANGED Uploading
        /\ pc = "chunks" /\ chunk_state = "ReadTrailingCRLF" /\ Len(buffer) >= 2
        /\ UNCHANGED <<cursor, remaining_size, total_body_read, cgi_buffer>>
        /\ \/ t # CRLF /\ buffer' = buffer /\ pc' = "refused" /\ chunk_state' = chunk_state
           \/ t = CRLF /\ buffer' = Drain(buffer, 2) /\ pc' = pc /\ chunk_state' = "ReadSize"
    BY SameBytes DEF AroundChunks, Uploading, Chunks!CrlfBad, Chunks!ChunkEnd, Chunks!In,
           Chunks!EndsChunk, Chunks!Return, Chunks!Keep
  <1>2. PICK k \in 0 .. Count - 1 : AtBreak(k)
    BY <1>1, Placed DEF ChunkInv
  <1> DEFINE c == message.body[k + 1]
             o == Offset(k)
             p == o + 4 + Len(c)
  <1>3. /\ message \in Messages /\ Count \in Nat /\ k \in 0 .. Count /\ k + 1 \in 0 .. Count
        /\ buffer \in Seq(Byte) /\ Len(buffer) \in Nat
        /\ \A i \in 1 .. Len(buffer) : buffer[i] = Wire[Used + i]
    BY BufferType, ChunkedIs DEF BufferInv
  <1>4. /\ c \in Seq(Byte) /\ Len(c) \in 1 .. 4 /\ o \in Nat
        /\ Flaw(k + 1) # "line" =>
              /\ Offset(k + 1) = o + Len(c) + 6
              /\ Flaw(k + 1) = "break" => Wire[o + 4 + Len(c) + 1] = "x"
              /\ Flaw(k + 1) # "break" => /\ Wire[o + 4 + Len(c) + 1] = "cr"
                                          /\ Wire[o + 4 + Len(c) + 2] = "lf"
    BY <1>3, ChunkAt
  <1>5. /\ remaining_size = 0 /\ cursor = 0 /\ Used = p
        /\ cgi_buffer = Decoded(k + 1) /\ Flaw(k + 1) \notin {"digit", "line"}
    BY <1>2 DEF AtBreak
  <1>6. /\ Count' = Count /\ WellFormed' = WellFormed
        /\ \A i : Offset(i)' = Offset(i) /\ Decoded(i)' = Decoded(i) /\ Flaw(i)' = Flaw(i)
    BY <1>1, SameMessage
  <1>7. NoUpload'
    BY <1>1, NoUploadKept DEF ChunkInv
  <1>8. ChunkSum'
    BY <1>1 DEF ChunkInv, ChunkSum
  <1>9. c' = c
    BY <1>1
  <1>10. t = CRLF <=> Flaw(k + 1) # "break"
    <2>1. CRLF \in Seq(Byte) /\ Len(CRLF) = 2 /\ CRLF[1] = "cr" /\ CRLF[2] = "lf"
      BY DEF CRLF, Byte
    <2>2. 0 + Len(CRLF) <= Len(buffer) /\ 0 + Len(CRLF) = 2
      BY <1>1, <1>3, <2>1
    <2> DEFINE x == CRLF
    <2> HIDE DEF x, t
    <2>7. x \in Seq(Byte) /\ 0 + Len(x) <= Len(buffer)
      BY <2>1, <2>2 DEF x
    <2>6. Slice(buffer, 0, 0 + Len(x)) = x <=> \A j \in 1 .. Len(x) : buffer[0 + j] = x[j]
      BY <1>3, <2>7, SliceIs
    <2>3. t = CRLF <=> \A j \in 1 .. Len(CRLF) : buffer[0 + j] = CRLF[j]
      BY <2>2, <2>6 DEF t, x
    <2>4. (\A j \in 1 .. Len(CRLF) : buffer[0 + j] = CRLF[j]) <=> buffer[1] = "cr" /\ buffer[2] = "lf"
      BY <2>1
    <2>5. buffer[1] = Wire[p + 1] /\ buffer[2] = Wire[p + 2]
      BY <1>1, <1>3, <1>5, SMTT(30)
    <2> HIDE DEF t
    <2> QED  BY <1>4, <1>5, <2>3, <2>4, <2>5
  <1> HIDE DEF c, o, t, p
  <1>11. CASE t # CRLF
    <2>1. buffer' = buffer /\ pc' = "refused" /\ chunk_state' = "ReadTrailingCRLF"
      BY <1>1, <1>11
    <2>2. BufferInv' /\ Used' = Used
      BY <1>1, <2>1, BufferKept
    <2>3. ~WellFormed
      BY <1>3, <1>10, <1>11, FlawOf
    <2>4. AtBreak(k)'
      BY <1>1, <1>5, <1>6, <1>9, <2>1, <2>2, <2>3 DEF AtBreak, c, o, p
    <2>5. ChunkPlace'
      BY <1>6, <2>4 DEF ChunkPlace
    <2> QED  BY <1>7, <1>8, <2>2, <2>5 DEF ChunkInv
  <1>12. CASE t = CRLF
    <2>1. buffer' = Drain(buffer, 2) /\ pc' = "chunks" /\ chunk_state' = "ReadSize"
      BY <1>1, <1>12
    <2>2. BufferInv' /\ Used' = Used + 2
      <3>1. 2 \in 0 .. Len(buffer)
        BY <1>1, <1>3
      <3> QED  BY <1>1, <2>1, <3>1, Drained
    <2>3. Used + 2 = Offset(k + 1)
      <3>1. Offset(k + 1) = o + Len(c) + 6 /\ p = o + 4 + Len(c)
        BY <1>4, <1>5 DEF p
      <3> QED  BY <1>4, <1>5, <3>1
    <2>4. k + 1 = Count => message.flaw \in {"none", "trailer"}
      <3> SUFFICES ASSUME k + 1 = Count PROVE message.flaw \in {"none", "trailer"}
        OBVIOUS
      <3>1. message.flaw \notin {"digit", "line", "break"}
        BY <1>5, <1>10, <1>12 DEF Flaw
      <3>2. message.flaw \in Flaws
        BY <1>3, ChunkedIs DEF Chunkeds
      <3> QED  BY <3>1, <3>2 DEF Flaws
    <2>5. AtSize(k + 1)'
      BY <1>1, <1>5, <1>6, <2>1, <2>2, <2>3, <2>4 DEF AtSize
    <2>6. ChunkPlace'
      BY <1>3, <1>6, <2>5 DEF ChunkPlace
    <2> QED  BY <1>7, <1>8, <2>2, <2>6 DEF ChunkInv
  <1> QED  BY <1>11, <1>12

(* Where a trailer line ends, and what it is.                              *)
LEMMA TrailerAt ==
    ASSUME BufferInv, Chunked, Used = Offset(Count) + 3, message.flaw \in {"none", "trailer"},
           cursor \in {0, Len(message.trailer)}, cursor <= Len(buffer)
    PROVE  LET e == Chunks!TrailerEnd
               l == Chunks!Trailer
               t == Len(message.trailer) IN
           /\ t \in {0, 3}
           /\ \/ /\ e = NotFound /\ Len(buffer) < t + 3
                 /\ message.flaw = "none" => Len(buffer) < t + 2
              \/ t = 3 /\ cursor = 0 /\ e = 1 /\ 3 <= Len(buffer) /\ l = <<"t">>
              \/ /\ cursor = t /\ message.flaw = "trailer" /\ e = t + 1 /\ t + 3 <= Len(buffer)
                 /\ l = <<"x">>
              \/ /\ cursor = t /\ message.flaw = "none" /\ e = t /\ t + 2 <= Len(buffer)
                 /\ l = <<>>
  <1> DEFINE t == Len(message.trailer)
             o == Offset(Count)
             e == Find(buffer, CRLF, cursor)
  <1>1. Chunks!TrailerEnd = e /\ Chunks!Trailer = Slice(buffer, cursor, e)
    BY SameBytes DEF Chunks!TrailerEnd, Chunks!Trailer
  <1>2. /\ message \in Messages /\ buffer \in Seq(Byte) /\ Len(buffer) \in Nat
        /\ \A i \in 1 .. Len(buffer) : buffer[i] = Wire[Used + i]
    BY BufferType DEF BufferInv
  <1>3. /\ o \in Nat /\ t \in {0, 3}
        /\ t = 3 => Wire[o + 4] = "t" /\ Wire[o + 5] = "cr" /\ Wire[o + 6] = "lf"
        /\ message.flaw = "trailer" =>
              Wire[o + t + 4] = "x" /\ Wire[o + t + 5] = "cr" /\ Wire[o + t + 6] = "lf"
        /\ message.flaw # "trailer" => Wire[o + t + 4] = "cr" /\ Wire[o + t + 5] = "lf"
    BY <1>2, EndAt
  <1> HIDE DEF t, o
  <1>4. cursor \in Nat /\ cursor \in {0, t}
    BY <1>3 DEF t
  <1>5. \/ e = NotFound /\ \A i \in Nat : cursor <= i => ~CrlfAt(buffer, i)
        \/ e \in Nat /\ cursor <= e /\ CrlfAt(buffer, e)
             /\ \A i \in Nat : cursor <= i /\ CrlfAt(buffer, i) => e <= i
    BY <1>2, <1>4, FindCrlf
  <1> HIDE DEF e
  <1>6. \A i \in 1 .. Len(buffer) : buffer[i] = Wire[o + (3 + i)]
    <2> SUFFICES ASSUME NEW i \in 1 .. Len(buffer) PROVE buffer[i] = Wire[o + (3 + i)]
      OBVIOUS
    <2>1. Used + i = o + (3 + i)
      BY <1>3 DEF o
    <2> QED  BY <1>2, <2>1
  <1>7. \A i \in Nat : CrlfAt(buffer, i) <=>
              i + 2 <= Len(buffer) /\ Wire[o + (i + 4)] = "cr" /\ Wire[o + (i + 5)] = "lf"
    <2> SUFFICES ASSUME NEW i \in Nat
                 PROVE  CrlfAt(buffer, i) <=>
                            i + 2 <= Len(buffer) /\ Wire[o + (i + 4)] = "cr" /\ Wire[o + (i + 5)] = "lf"
      OBVIOUS
    <2>1. i + 2 <= Len(buffer) => i + 1 \in 1 .. Len(buffer) /\ i + 2 \in 1 .. Len(buffer)
      BY <1>2
    <2>2. 3 + (i + 1) = i + 4 /\ 3 + (i + 2) = i + 5
      OBVIOUS
    <2> QED  BY <1>6, <2>1, <2>2 DEF CrlfAt
  <1>8. ASSUME NEW a \in Nat, a <= Len(buffer)
        PROVE  /\ Slice(buffer, a, a) = <<>>
               /\ a + 1 <= Len(buffer) => Slice(buffer, a, a + 1) = <<buffer[a + 1]>>
    <2>1. Slice(buffer, a, a) = <<>>
      BY <1>2, <1>8 DEF Slice
    <2>2. ASSUME a + 1 <= Len(buffer)
          PROVE  Slice(buffer, a, a + 1) = <<buffer[a + 1]>>
      <3> DEFINE x == <<buffer[a + 1]>>
                 u == Slice(buffer, a, a + 1)
      <3>1. buffer[a + 1] \in Byte
        BY <1>2, <2>2, ElementOfSeq
      <3>2. x \in Seq(Byte) /\ Len(x) = 1 /\ x[1] = buffer[a + 1]
        BY <3>1
      <3>3. u \in Seq(Byte) /\ Len(u) = 1 /\ u[1] = buffer[a + 1]
        <4>1. a + 1 \in Nat /\ a <= a + 1 /\ (a + 1) - a = 1
          OBVIOUS
        <4>2. u \in Seq(Byte) /\ Sliced(buffer, a, a + 1, u)
          BY <1>2, <2>2, <4>1, SliceOf
        <4> HIDE DEF u
        <4> QED  BY <4>1, <4>2 DEF Sliced
      <3> HIDE DEF x, u
      <3>4. x = u
        BY <3>2, <3>3, SeqEqual
      <3> QED  BY <3>4 DEF x, u
    <2> QED  BY <2>1, <2>2
  <1>9. CASE e = NotFound
    <2>1. t \in Nat /\ t + 1 \in Nat /\ cursor <= t /\ Len(buffer) \in Nat
      BY <1>2, <1>3, <1>4
    <2>2. ~CrlfAt(buffer, t) /\ ~CrlfAt(buffer, t + 1)
      <3>1. \A i \in Nat : cursor <= i => ~CrlfAt(buffer, i)
        <4>1. ~(e \in Nat)
          BY <1>9 DEF NotFound
        <4> QED  BY <1>5, <4>1
      <3>2. cursor <= t + 1
        BY <1>4, <2>1
      <3> QED  BY <2>1, <3>1, <3>2
    <2>3. \/ Wire[o + (t + 4)] = "cr" /\ Wire[o + (t + 5)] = "lf"
          \/ Wire[o + ((t + 1) + 4)] = "cr" /\ Wire[o + ((t + 1) + 5)] = "lf"
      <3>1. /\ o + (t + 4) = o + t + 4 /\ o + (t + 5) = o + t + 5
            /\ o + ((t + 1) + 4) = o + t + 5 /\ o + ((t + 1) + 5) = o + t + 6
        BY <1>3
      <3> QED  BY <1>3, <3>1
    <2>4. ~(t + 2 <= Len(buffer)) \/ ~((t + 1) + 2 <= Len(buffer))
      BY <1>7, <2>1, <2>2, <2>3
    <2>5. Len(buffer) < t + 3
      BY <2>1, <2>4
    <2>6. message.flaw = "none" => Len(buffer) < t + 2
      <3>1. o + (t + 4) = o + t + 4 /\ o + (t + 5) = o + t + 5
        BY <1>3
      <3>2. message.flaw = "none" => ~(t + 2 <= Len(buffer))
        BY <1>3, <1>7, <2>1, <2>2, <3>1
      <3> QED  BY <2>1, <3>2
    <2> QED  BY <1>1, <1>3, <1>9, <2>5, <2>6 DEF t
  <1>10. CASE e # NotFound /\ t = 3 /\ cursor = 0
    <2>1. Wire[o + (0 + 4)] = "t" /\ Wire[o + (1 + 4)] = "cr" /\ Wire[o + (1 + 5)] = "lf"
      BY <1>3, <1>10
    <2>2. ~CrlfAt(buffer, 0) /\ (3 <= Len(buffer) => CrlfAt(buffer, 1))
      BY <1>7, <2>1
    <2>3. e \in Nat /\ CrlfAt(buffer, e) /\ e # 0
      BY <1>5, <1>10, <2>2
    <2>4. e + 2 <= Len(buffer)
      BY <1>7, <2>3
    <2>5. e = 1 /\ 3 <= Len(buffer)
      <3>1. 3 <= Len(buffer)
        BY <1>2, <2>3, <2>4
      <3>2. e <= 1
        BY <1>5, <1>10, <2>2, <3>1
      <3> QED  BY <2>3, <3>1, <3>2
    <2>6. Slice(buffer, 0, 0 + 1) = <<buffer[0 + 1]>>
      <3>1. 0 <= Len(buffer) /\ 0 + 1 <= Len(buffer)
        BY <1>2, <2>5
      <3> QED  BY <1>8, <3>1
    <2>7. buffer[0 + 1] = "t"
      <3>1. 1 \in 1 .. Len(buffer) /\ o + (3 + 1) = o + (0 + 4) /\ 0 + 1 = 1
        BY <1>2, <2>5
      <3> QED  BY <1>6, <2>1, <3>1
    <2>8. Chunks!Trailer = <<"t">>
      BY <1>1, <1>10, <2>5, <2>6, <2>7
    <2> QED  BY <1>1, <1>3, <1>10, <2>5, <2>8 DEF t
  <1>11. CASE e # NotFound /\ cursor = t /\ message.flaw = "trailer"
    <2>1. Wire[o + (t + 4)] = "x" /\ Wire[o + ((t + 1) + 4)] = "cr" /\ Wire[o + ((t + 1) + 5)] = "lf"
      <3>1. o + (t + 4) = o + t + 4 /\ o + ((t + 1) + 4) = o + t + 5 /\ o + ((t + 1) + 5) = o + t + 6
        BY <1>3
      <3> QED  BY <1>3, <1>11, <3>1
    <2>0. t \in Nat /\ t + 1 \in Nat
      BY <1>3
    <2>2. ~CrlfAt(buffer, t) /\ (t + 3 <= Len(buffer) => CrlfAt(buffer, t + 1))
      <3>1. ~CrlfAt(buffer, t)
        BY <1>7, <2>0, <2>1
      <3>2. (t + 1) + 2 = t + 3
        BY <2>0
      <3>3. CrlfAt(buffer, t + 1) <=> (t + 1) + 2 <= Len(buffer)
        BY <1>7, <2>0, <2>1
      <3> QED  BY <3>1, <3>2, <3>3
    <2>3. e \in Nat /\ CrlfAt(buffer, e) /\ e # t /\ t <= e
      BY <1>5, <1>11, <2>2
    <2>4. e + 2 <= Len(buffer)
      BY <1>7, <2>3
    <2>5. e = t + 1 /\ t + 3 <= Len(buffer)
      <3>1. t + 3 <= Len(buffer)
        BY <1>2, <2>0, <2>3, <2>4
      <3>2. e <= t + 1
        BY <1>5, <1>11, <2>0, <2>2, <3>1
      <3> QED  BY <2>0, <2>3, <3>1, <3>2
    <2>6. Slice(buffer, t, t + 1) = <<buffer[t + 1]>>
      <3>1. t <= Len(buffer) /\ t + 1 <= Len(buffer)
        BY <1>2, <2>0, <2>5
      <3> QED  BY <1>8, <2>0, <3>1
    <2>7. buffer[t + 1] = "x"
      <3>1. t + 1 \in 1 .. Len(buffer) /\ o + (3 + (t + 1)) = o + (t + 4)
        BY <1>2, <1>3, <2>0, <2>5
      <3> QED  BY <1>6, <2>1, <3>1
    <2>8. Chunks!Trailer = <<"x">>
      BY <1>1, <1>11, <2>5, <2>6, <2>7
    <2> QED  BY <1>1, <1>3, <1>11, <2>5, <2>8 DEF t
  <1>12. CASE e # NotFound /\ cursor = t /\ message.flaw # "trailer"
    <2>0. t \in Nat /\ message.flaw = "none"
      BY <1>3, <1>12
    <2>1. Wire[o + (t + 4)] = "cr" /\ Wire[o + (t + 5)] = "lf"
      <3>1. o + (t + 4) = o + t + 4 /\ o + (t + 5) = o + t + 5
        BY <1>3
      <3> QED  BY <1>3, <1>12, <3>1
    <2>2. t + 2 <= Len(buffer) => CrlfAt(buffer, t)
      BY <1>7, <2>0, <2>1
    <2>3. e \in Nat /\ CrlfAt(buffer, e) /\ t <= e
      BY <1>5, <1>12
    <2>4. e + 2 <= Len(buffer)
      BY <1>7, <2>3
    <2>5. e = t /\ t + 2 <= Len(buffer)
      <3>1. t + 2 <= Len(buffer)
        BY <1>2, <2>0, <2>3, <2>4
      <3>2. e <= t
        BY <1>5, <1>12, <2>0, <2>2, <3>1
      <3> QED  BY <2>0, <2>3, <3>1, <3>2
    <2>6. Slice(buffer, t, t) = <<>>
      <3>1. t <= Len(buffer)
        BY <1>2, <2>0, <2>5
      <3> QED  BY <1>8, <2>0, <3>1
    <2>7. Chunks!Trailer = <<>>
      BY <1>1, <1>12, <2>5, <2>6
    <2> QED  BY <1>1, <1>3, <1>12, <2>0, <2>5, <2>7 DEF t
  <1> QED  BY <1>3, <1>4, <1>9, <1>10, <1>11, <1>12

(* The lines after the last chunk are skipped up to the empty one, which   *)
(* ends the body: nothing after it is taken.                               *)
LEMMA Trailers ==
    ASSUME BufferInv, Chunked, ChunkInv, AroundChunks,
           \/ Chunks!TrailersTooLong \/ Chunks!TrailerBad
           \/ Chunks!NextTrailer \/ Chunks!LastTrailer
    PROVE  BufferInv' /\ ChunkInv'
  <1> DEFINE e == Chunks!TrailerEnd
             l == Chunks!Trailer
             t == Len(message.trailer)
  <1>1. /\ UNCHANGED <<message, arrived>> /\ UNCHANGED Uploading
        /\ pc = "chunks" /\ chunk_state = "ReadTrailers"
        /\ UNCHANGED <<chunk_state, remaining_size, total_body_read, cgi_buffer>>
        /\ \/ Len(buffer) > TrailerLimit /\ buffer' = buffer /\ cursor' = cursor /\ pc' = "refused"
           \/ /\ e # NotFound /\ l \notin {<<>>, <<"t">>}
              /\ buffer' = buffer /\ cursor' = e + 2 /\ pc' = "refused"
           \/ e # NotFound /\ l = <<"t">> /\ buffer' = buffer /\ cursor' = e + 2 /\ pc' = pc
           \/ e # NotFound /\ l = <<>> /\ buffer' = Drain(buffer, e + 2) /\ cursor' = 0 /\ pc' = "complete"
    BY SameBytes DEF AroundChunks, Uploading, Chunks!TrailersTooLong, Chunks!TrailerBad,
           Chunks!NextTrailer, Chunks!LastTrailer, Chunks!InTrailers, Chunks!In, Chunks!Return, Chunks!Keep
  <1>2. AtTrailers
    <2>1. ~AtEnd
      BY <1>1 DEF AtEnd
    <2> QED  BY <1>1, <2>1, Placed DEF ChunkInv
  <1>3. /\ message \in Messages /\ buffer \in Seq(Byte) /\ Len(buffer) \in Nat
        /\ remaining_size = 0 /\ Used = Offset(Count) + 3 /\ cgi_buffer = Decoded(Count)
        /\ message.flaw \in {"none", "trailer"} /\ cursor \in 0 .. Len(buffer)
        /\ cursor \in {0, t}
    BY <1>1, <1>2, BufferType DEF AtTrailers
  <1>4. /\ t \in {0, 3}
        /\ \/ e = NotFound
           \/ t = 3 /\ cursor = 0 /\ e = 1 /\ 3 <= Len(buffer) /\ l = <<"t">>
           \/ /\ cursor = t /\ message.flaw = "trailer" /\ e = t + 1 /\ t + 3 <= Len(buffer)
              /\ l = <<"x">>
           \/ /\ cursor = t /\ message.flaw = "none" /\ e = t /\ t + 2 <= Len(buffer)
              /\ l = <<>>
    <2>1. cursor <= Len(buffer)
      BY <1>3
    <2> QED  BY <1>3, <2>1, TrailerAt
  <1>5. /\ Count' = Count /\ WellFormed' = WellFormed
        /\ \A i : Offset(i)' = Offset(i) /\ Decoded(i)' = Decoded(i) /\ Flaw(i)' = Flaw(i)
    BY <1>1, SameMessage
  <1>6. NoUpload'
    BY <1>1, NoUploadKept DEF ChunkInv
  <1>7. ChunkSum'
    BY <1>1 DEF ChunkInv, ChunkSum
  <1> HIDE DEF e, l
  <1>8. CASE Len(buffer) > TrailerLimit /\ buffer' = buffer /\ cursor' = cursor /\ pc' = "refused"
    <2>1. BufferInv' /\ Used' = Used
      BY <1>1, <1>8, BufferKept
    <2>2. cursor' \in 0 .. Len(buffer')
      BY <1>3, <1>8
    <2>3. AtTrailers'
      BY <1>1, <1>3, <1>5, <1>8, <2>1, <2>2 DEF AtTrailers
    <2>4. ChunkPlace'
      BY <2>3 DEF ChunkPlace
    <2> QED  BY <1>6, <1>7, <2>1, <2>4 DEF ChunkInv
  <1>9. CASE /\ e # NotFound /\ l \notin {<<>>, <<"t">>}
             /\ buffer' = buffer /\ cursor' = e + 2 /\ pc' = "refused"
    <2>1. BufferInv' /\ Used' = Used
      BY <1>1, <1>9, BufferKept
    <2>2. message.flaw = "trailer" /\ e = t + 1 /\ t + 3 <= Len(buffer)
      BY <1>4, <1>9
    <2>3. cursor' \in 0 .. Len(buffer')
      BY <1>3, <1>4, <1>9, <2>2
    <2>4. ~WellFormed'
      BY <1>5, <2>2 DEF WellFormed
    <2>5. AtTrailers'
      BY <1>1, <1>3, <1>5, <1>9, <2>1, <2>3, <2>4 DEF AtTrailers
    <2>6. ChunkPlace'
      BY <2>5 DEF ChunkPlace
    <2> QED  BY <1>6, <1>7, <2>1, <2>6 DEF ChunkInv
  <1>10. CASE e # NotFound /\ l = <<"t">> /\ buffer' = buffer /\ cursor' = e + 2 /\ pc' = pc
    <2>1. BufferInv' /\ Used' = Used
      BY <1>1, <1>10, BufferKept
    <2>2. t = 3 /\ e = 1 /\ 3 <= Len(buffer)
      <3>1. <<"x">> # <<"t">> /\ <<>> # <<"t">>
        OBVIOUS
      <3> QED  BY <1>4, <1>10, <3>1
    <2>3. cursor' = t' /\ cursor' \in 0 .. Len(buffer')
      BY <1>1, <1>3, <1>10, <2>2
    <2>4. pc' = "chunks" /\ cursor' \in {0, t'}
      BY <1>1, <1>10, <2>3
    <2>5. AtTrailers'
      BY <1>1, <1>3, <1>5, <2>1, <2>3, <2>4 DEF AtTrailers
    <2>6. ChunkPlace'
      BY <2>5 DEF ChunkPlace
    <2> QED  BY <1>6, <1>7, <2>1, <2>6 DEF ChunkInv
  <1>11. CASE /\ e # NotFound /\ l = <<>> /\ buffer' = Drain(buffer, e + 2)
              /\ cursor' = 0 /\ pc' = "complete"
    <2>1. message.flaw = "none" /\ e = t /\ t + 2 <= Len(buffer)
      <3>1. <<"x">> # <<>> /\ <<"t">> # <<>>
        OBVIOUS
      <3> QED  BY <1>4, <1>11, <3>1
    <2>2. BufferInv' /\ Used' = Used + (t + 2)
      <3>1. t + 2 \in 0 .. Len(buffer) /\ buffer' = Drain(buffer, t + 2)
        BY <1>3, <1>4, <1>11, <2>1
      <3> HIDE DEF t
      <3> QED  BY <1>1, <3>1, Drained
    <2>3. Used' = Len(BodyWire(message))
      <3>1. Offset(Count) \in Nat /\ Len(BodyWire(message)) = Offset(Count) + t + 5
        BY <1>3, <2>1, EndAt
      <3> QED  BY <1>3, <1>4, <2>2, <3>1
    <2>4. AtEnd'
      BY <1>1, <1>3, <1>5, <1>11, <2>1, <2>3 DEF AtEnd
    <2>5. ChunkPlace'
      BY <2>4 DEF ChunkPlace
    <2> QED  BY <1>6, <1>7, <2>2, <2>5 DEF ChunkInv
  <1> QED  BY <1>1, <1>8, <1>9, <1>10, <1>11

(* Every turn of the decoder of chunks leaves it at the byte of the wire   *)
(* the invariant says.                                                     *)
LEMMA ChunkTurn ==
    ASSUME BufferInv, Chunked, ChunkInv, DecodeChunks
    PROVE  BufferInv' /\ ChunkInv'
  <1>0. AroundChunks
    BY DEF DecodeChunks, AroundChunks
  <1>1. CASE Chunks!SizeWait \/ Chunks!DataWait \/ Chunks!CrlfWait \/ Chunks!TrailerWait
    BY <1>0, <1>1, ChunksWait DEF Chunks!SizeWait, Chunks!DataWait, Chunks!CrlfWait,
       Chunks!TrailerWait, Chunks!InTrailers, Chunks!In, Chunks!Return
  <1>2. CASE Chunks!SizeBad \/ Chunks!SizeTooLarge
    BY <1>0, <1>2, SizeRefused
  <1>3. CASE Chunks!ChunkStart
    BY <1>0, <1>3, StartOfChunk
  <1>4. CASE Chunks!ReadData
    BY <1>0, <1>4, DataOfChunk
  <1>5. CASE Chunks!CrlfBad \/ Chunks!ChunkEnd
    BY <1>0, <1>5, BreakOfChunk
  <1>6. CASE \/ Chunks!TrailersTooLong \/ Chunks!TrailerBad
             \/ Chunks!NextTrailer \/ Chunks!LastTrailer
    BY <1>0, <1>6, Trailers
  <1> QED  BY <1>1, <1>2, <1>3, <1>4, <1>5, <1>6 DEF DecodeChunks, Chunks!Next
=============================================================================
