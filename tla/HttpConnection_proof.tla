------------------------- MODULE HttpConnection_proof -------------------------
(***************************************************************************)
(* Proofs about HttpConnection, for programs of any length, files of any   *)
(* number of pieces and buffers of any size.  BaseInv holds whatever the   *)
(* client sends: types, what is true at each place of the handler, and     *)
(* which edges are due.  OrdInv follows an orderly client's requests from  *)
(* the wire to the parser (WireInv) and their answers back (AnswerInv).    *)
(***************************************************************************)
EXTENDS HttpConnection, SeqLemmas

N == Len(program)
Unit == (1 .. N) \X {"head", "data", "last"}
Piece == (1 .. N) \X {"answer", "head", "data"} \X (0 .. FileChunks)

Conn ==
    [buffer : Seq(Unit), state : {"RequestLine", "Body", "ChunkedBody", "Complete"},
     chunk_state : {"ReadSize", "ReadTrailers"}, request : 0 .. N,
     action : {"None", "FileDownload", "Upload"}, file : 0 .. N, left : 0 .. FileChunks,
     upload_manager : 0 .. N, response : 0 .. N, write_buffer : Seq(Piece),
     closed : BOOLEAN]
Sock ==
    [inbox : Seq(Unit), outbox : Seq(Piece), eof : BOOLEAN,
     interest : {{"R"}, {"R", "W"}}, queued : BOOLEAN]

WorldType ==
    /\ program \in Seq(Kind) /\ eager \in BOOLEAN
    /\ sent \in 0 .. Len(Wire) /\ received \in Seq(Piece)
    /\ DOMAIN disk \subseteq 1 .. N
    /\ event \subseteq {"R", "W"} /\ ret \in {"write", "lifecycle"}
    /\ Len(sock.outbox) <= SendBuffer
DataType == WorldType /\ conn \in Conn /\ sock \in Sock

(* What holds of the request at each place of the handler.                 *)
PlaceInv ==
    /\ pc = "request" /\ conn.state = "RequestLine" => conn.buffer # <<>>
    /\ pc = "finish" \/ conn.state # "RequestLine" => conn.request # Nobody
    /\ conn.state = "Complete" => pc = "finish"
    /\ conn.action = "FileDownload" => conn.file # Nobody
    /\ pc = "flush" => "W" \in event
    /\ pc = "post" => conn.write_buffer = <<>>
    /\ pc \in {"request", "finish", "post"} => ~conn.closed

(* Where the handler has yet to register its interest again.               *)
Busy == {"request", "finish", "rearm", "post"}
WakeInv ==
    ~conn.closed =>
        /\ Readable(sock) /\ ~sock.queued => pc = "read" /\ "R" \in event
        /\ pc = "read" /\ "R" \in event => Readable(sock)
        /\ Pending => "W" \in sock.interest \/ pc \in Busy
        /\ Pending /\ Writable(sock) /\ ~sock.queued =>
              pc \in Busy \/ (pc \in {"read", "write", "flush"} /\ "W" \in event)

-----------------------------------------------------------------------------
(* The operators on the two records.                                       *)

LEMMA Reregistered ==
    ASSUME NEW k \in Sock, NEW i \in {{"R"}, {"R", "W"}}
    PROVE  LET r == Reregister(k, i) IN
           /\ r \in Sock /\ r.interest = i
           /\ r.inbox = k.inbox /\ r.outbox = k.outbox /\ r.eof = k.eof
           /\ k.queued => r.queued
           /\ Readable(r) => r.queued
           /\ "W" \in i /\ Writable(r) => r.queued
  <1> DEFINE m == [k EXCEPT !.interest = i]
             b == k.queued \/ Ready(m)
  <1>1. m \in Sock /\ m.interest = i /\ m.queued = k.queued
        /\ m.inbox = k.inbox /\ m.outbox = k.outbox /\ m.eof = k.eof
    BY DEF Sock
  <1>2. /\ Readable(m) => Ready(m)
        /\ "W" \in i /\ Writable(m) => Ready(m)
    BY <1>1 DEF Ready
  <1>3. b \in BOOLEAN
    BY DEF Ready, Sock
  <1> HIDE DEF m
  <1>4. Reregister(k, i) = [m EXCEPT !.queued = b]
    BY <1>1 DEF Reregister, m
  <1> DEFINE r == [m EXCEPT !.queued = b]
  <1>5. b <=> k.queued \/ Ready(m)
    OBVIOUS
  <1> HIDE DEF b
  <1>6. r \in Sock /\ r.interest = i /\ r.queued = b
        /\ r.inbox = k.inbox /\ r.outbox = k.outbox /\ r.eof = k.eof
    BY <1>1, <1>3 DEF Sock
  <1> HIDE DEF r
  <1>7. Readable(r) = Readable(m) /\ Writable(r) = Writable(m)
    BY <1>1, <1>6 DEF Readable, Writable
  <1>8. Reregister(k, i) = r
    BY <1>4 DEF r
  <1> QED  BY <1>2, <1>5, <1>6, <1>7, <1>8

LEMMA Edged ==
    ASSUME NEW k \in Sock, NEW d \in {"R", "W"}
    PROVE  LET r == Edge(k, d) IN
           /\ r \in Sock /\ r.interest = k.interest
           /\ r.inbox = k.inbox /\ r.outbox = k.outbox /\ r.eof = k.eof
           /\ r.queued = (k.queued \/ d \in k.interest)
  BY DEF Edge, Sock

-----------------------------------------------------------------------------
(* The wire and the answers.                                               *)

LEMMA RequestUnitsType ==
    ASSUME program \in Seq(Kind), NEW i \in 1 .. N
    PROVE  RequestUnits(i) \in Seq(Unit)
  <1>1. <<i, "head">> \in Unit /\ <<i, "data">> \in Unit /\ <<i, "last">> \in Unit
    BY DEF Unit
  <1> QED  BY <1>1 DEF RequestUnits

LEMMA WireType == ASSUME program \in Seq(Kind) PROVE Wire \in Seq(Unit) /\ Len(Wire) \in Nat
  <1> DEFINE q == [i \in 1 .. N |-> RequestUnits(i)]
  <1>1. \A i \in 1 .. N : q[i] \in Seq(Unit)
    BY RequestUnitsType
  <1>2. N \in Nat
    BY LenProperties DEF N
  <1> HIDE DEF q
  <1>3. q \in Seq(Seq(Unit))
    <2>1. q \in [1 .. N -> Seq(Unit)]
      BY <1>1 DEF q
    <2> QED  BY <1>2, <2>1
  <1>4. FlattenSeq(q) \in Seq(Unit)
    BY <1>3, FlattenType
  <1>5. Wire = FlattenSeq(q)
    BY DEF Wire, q, N
  <1> QED  BY <1>4, <1>5, LenProperties

LEMMA AnswerUnitsType ==
    ASSUME program \in Seq(Kind), NEW i \in 1 .. N
    PROVE  AnswerUnits(i) \in Seq(Piece)
  <1>1. <<i, "head", 0>> \in Piece /\ <<i, "answer", 0>> \in Piece
    BY BoundsAssumption DEF Piece
  <1>2. [k \in 1 .. FileChunks |-> <<i, "data", k>>] \in Seq(Piece)
    <2>1. \A k \in 1 .. FileChunks : <<i, "data", k>> \in Piece
      BY BoundsAssumption DEF Piece
    <2>2. FileChunks \in Nat
      BY BoundsAssumption
    <2> HIDE DEF Piece
    <2> QED  BY <2>1, <2>2
  <1>3. <<<<i, "head", 0>>>> \in Seq(Piece) /\ <<<<i, "answer", 0>>>> \in Seq(Piece)
    BY <1>1
  <1>4. <<<<i, "head", 0>>>> \o [k \in 1 .. FileChunks |-> <<i, "data", k>>] \in Seq(Piece)
    BY <1>2, <1>3, ConcatProperties
  <1> QED  BY <1>3, <1>4 DEF AnswerUnits

LEMMA AnswersGrow ==
    ASSUME program \in Seq(Kind), NEW n \in 0 .. N
    PROVE  /\ Answers(n) \in Seq(Piece)
           /\ n < N => Answers(n + 1) = Answers(n) \o AnswerUnits(n + 1)
  <1>1. N \in Nat
    BY LenProperties DEF N
  <1> DEFINE q == [i \in 1 .. n |-> AnswerUnits(i)]
             r == [i \in 1 .. n + 1 |-> AnswerUnits(i)]
  <1>2. Answers(n) = FlattenSeq(q) /\ Answers(n + 1) = FlattenSeq(r)
    BY DEF Answers
  <1>3. q \in Seq(Seq(Piece))
    <2>1. \A i \in 1 .. n : AnswerUnits(i) \in Seq(Piece)
      BY <1>1, AnswerUnitsType
    <2>2. n \in Nat
      BY <1>1
    <2> QED  BY <2>1, <2>2
  <1>4. ASSUME n < N
        PROVE  Answers(n + 1) = Answers(n) \o AnswerUnits(n + 1)
    <2>1. \A i \in 1 .. n + 1 : AnswerUnits(i) \in Seq(Piece)
      BY <1>1, <1>4, AnswerUnitsType
    <2>2. n \in Nat /\ n + 1 \in 1 .. n + 1
      BY <1>1
    <2>3. r \in [1 .. n + 1 -> Seq(Piece)] /\ r[n + 1] = AnswerUnits(n + 1)
      BY <2>1, <2>2
    <2>4. q = [i \in 1 .. n |-> r[i]]
      BY <2>2
    <2> HIDE DEF q, r
    <2>5. FlattenSeq(r) = FlattenSeq(q) \o r[n + 1]
      BY <2>2, <2>3, <2>4, FlattenGrows
    <2> QED  BY <1>2, <2>3, <2>5
  <1> HIDE DEF q
  <1> QED  BY <1>2, <1>3, <1>4, FlattenType

LEMMA NoAnswers == Answers(0) = <<>>
  <1>1. [i \in 1 .. 0 |-> AnswerUnits(i)] = <<>>
    OBVIOUS
  <1> QED  BY <1>1, FlattenEmpty DEF Answers

(* The answers to the first requests begin the answers to all.             *)
LEMMA AnswersBegin ==
    ASSUME program \in Seq(Kind), NEW l \in 0 .. N, NEW n \in 0 .. l
    PROVE  IsPrefix(Answers(n), Answers(l))
  <1>0. N \in Nat /\ l \in Nat /\ l <= N
    BY LenProperties DEF N
  <1> DEFINE A == {k \in Nat : k <= l => IsPrefix(Answers(l - k), Answers(l))}
  <1>1. 0 \in A
    <2>1. Answers(l) \in Seq(Piece)
      BY <1>0, AnswersGrow
    <2>2. IsPrefix(Answers(l), Answers(l) \o <<>>)
      BY <2>1, ConcatIsPrefix, EmptySeq
    <2>3. IsPrefix(Answers(l), Answers(l)) /\ l - 0 = l
      BY <1>0, <2>1, <2>2, ConcatEmptySeq
    <2> QED  BY <2>3
  <1>2. ASSUME NEW k \in Nat, k \in A
        PROVE  k + 1 \in A
    <2>1. SUFFICES ASSUME k + 1 <= l
                   PROVE  IsPrefix(Answers(l - (k + 1)), Answers(l))
      OBVIOUS
    <2> DEFINE m == l - (k + 1)
    <2>2. m \in 0 .. N /\ m + 1 \in 0 .. N /\ m < N /\ m + 1 \in 1 .. N /\ m + 1 = l - k
      BY <1>0, <2>1
    <2>3. IsPrefix(Answers(m + 1), Answers(l))
      BY <1>0, <1>2, <2>1, <2>2
    <2> HIDE DEF m
    <2>4. /\ Answers(m) \in Seq(Piece) /\ Answers(m + 1) \in Seq(Piece)
          /\ Answers(l) \in Seq(Piece) /\ AnswerUnits(m + 1) \in Seq(Piece)
          /\ Answers(m + 1) = Answers(m) \o AnswerUnits(m + 1)
      BY <1>0, <2>2, AnswersGrow, AnswerUnitsType
    <2>5. IsPrefix(Answers(m), Answers(m + 1))
      BY <2>4, ConcatIsPrefix
    <2>6. IsPrefix(Answers(m), Answers(l))
      BY <2>3, <2>4, <2>5, PrefixTransitive
    <2> QED  BY <2>6 DEF m
  <1> HIDE DEF A
  <1>3. l - n \in A
    BY <1>0, <1>1, <1>2, NatSetInduction
  <1>4. l - n <= l /\ l - (l - n) = n
    BY <1>0
  <1> QED  BY <1>3, <1>4 DEF A

-----------------------------------------------------------------------------
(* What the operators on the connection do, field by field.                *)

LEMMA Lengths ==
    ASSUME DataType
    PROVE  /\ N \in Nat /\ FileChunks \in Nat \ {0} /\ SendBuffer \in Nat \ {0}
           /\ ReadLimit \in Nat \ {0}
           /\ Len(conn.buffer) \in Nat /\ Len(conn.write_buffer) \in Nat
           /\ Len(sock.inbox) \in Nat /\ Len(sock.outbox) \in Nat
           /\ Len(received) \in Nat /\ Wire \in Seq(Unit) /\ Len(Wire) \in Nat
  <1>1. program \in Seq(Kind) /\ conn.buffer \in Seq(Unit) /\ conn.write_buffer \in Seq(Piece)
        /\ sock.inbox \in Seq(Unit) /\ sock.outbox \in Seq(Piece) /\ received \in Seq(Piece)
    BY DEF DataType, WorldType, Conn, Sock
  <1>2. N \in Nat
    BY <1>1, LenProperties DEF N
  <1>3. Len(conn.buffer) \in Nat /\ Len(sock.inbox) \in Nat
    BY <1>1, LenProperties
  <1>4. Len(conn.write_buffer) \in Nat /\ Len(sock.outbox) \in Nat /\ Len(received) \in Nat
    BY <1>1, LenProperties
  <1> QED  BY <1>1, <1>2, <1>3, <1>4, WireType, BoundsAssumption

LEMMA AnswerIsPiece ==
    ASSUME NEW i \in 1 .. N, NEW k \in 0 .. FileChunks
    PROVE  <<i, "answer", 0>> \in Piece /\ <<i, "head", 0>> \in Piece /\ <<i, "data", k>> \in Piece
  BY BoundsAssumption DEF Piece

LEMMA ParsedIs ==
    ASSUME DataType, conn.buffer # <<>>
    PROVE  /\ Parsed \in Conn
           /\ Parsed.buffer = Tail(conn.buffer) /\ Parsed.request = Head(conn.buffer)[1]
           /\ Parsed.request \in 1 .. N
           /\ Parsed.state = conn.state /\ Parsed.chunk_state = conn.chunk_state
           /\ Parsed.action = conn.action /\ Parsed.file = conn.file /\ Parsed.left = conn.left
           /\ Parsed.upload_manager = conn.upload_manager /\ Parsed.response = conn.response
           /\ Parsed.write_buffer = conn.write_buffer /\ Parsed.closed = conn.closed
  <1> DEFINE b == Tail(conn.buffer)
             q == Head(conn.buffer)[1]
  <1>1. Head(conn.buffer) \in Unit /\ b \in Seq(Unit)
    BY HeadTailProperties DEF DataType, Conn
  <1>2. q \in 1 .. N
    BY <1>1 DEF Unit
  <1> HIDE DEF b, q
  <1>3. Parsed = [conn EXCEPT !.buffer = b, !.request = q]
    BY DEF Parsed, b, q
  <1>4. q \in 0 .. N
    BY <1>2, Lengths
  <1>5. conn \in Conn
    BY DEF DataType
  <1> QED  BY <1>1, <1>2, <1>3, <1>4, <1>5 DEF Conn, b, q

LEMMA Responded ==
    ASSUME N \in Nat, NEW c \in Conn, NEW i \in 1 .. N
    PROVE  LET d == Respond(c, i) IN
           /\ d \in Conn
           /\ d.write_buffer = Append(c.write_buffer, <<i, "answer", 0>>) /\ d.response = i
           /\ d.write_buffer # <<>>
           /\ d.buffer = c.buffer /\ d.state = c.state /\ d.chunk_state = c.chunk_state
           /\ d.request = c.request /\ d.action = c.action /\ d.file = c.file
           /\ d.left = c.left /\ d.upload_manager = c.upload_manager /\ d.closed = c.closed
  <1> DEFINE w == Append(c.write_buffer, <<i, "answer", 0>>)
  <1>1. w \in Seq(Piece) /\ w # <<>>
    <2>1. <<i, "answer", 0>> \in Piece
      BY BoundsAssumption DEF Piece
    <2>2. c.write_buffer \in Seq(Piece)
      BY DEF Conn
    <2> QED  BY <2>1, <2>2, AppendProperties
  <1> HIDE DEF w
  <1>2. Respond(c, i) = [c EXCEPT !.write_buffer = w, !.response = i]
    BY DEF Respond, w
  <1>3. i \in 0 .. N
    OBVIOUS
  <1> QED  BY <1>1, <1>2, <1>3 DEF Conn, w

LEMMA Refused ==
    ASSUME N \in Nat, NEW c \in Conn, c.request \in 1 .. N
    PROVE  LET d == Refuse(c) IN
           /\ d \in Conn
           /\ d.write_buffer = Append(c.write_buffer, <<c.request, "answer", 0>>)
           /\ d.write_buffer # <<>>
           /\ d.response = c.request /\ d.state = "RequestLine" /\ d.closed = TRUE
           /\ d.buffer = c.buffer /\ d.chunk_state = c.chunk_state
           /\ d.request = c.request /\ d.action = c.action /\ d.file = c.file
           /\ d.left = c.left /\ d.upload_manager = c.upload_manager
  <1> DEFINE d == Respond(c, c.request)
  <1>1. /\ d \in Conn
        /\ d.write_buffer = Append(c.write_buffer, <<c.request, "answer", 0>>)
        /\ d.write_buffer # <<>> /\ d.response = c.request
        /\ d.buffer = c.buffer /\ d.chunk_state = c.chunk_state
        /\ d.request = c.request /\ d.action = c.action /\ d.file = c.file
        /\ d.left = c.left /\ d.upload_manager = c.upload_manager
    BY Responded
  <1> HIDE DEF d
  <1>2. Refuse(c) = [d EXCEPT !.state = "RequestLine", !.closed = TRUE]
    BY DEF Refuse, d
  <1> QED  BY <1>1, <1>2, ZenonT(60) DEF Conn

(* A head without a body of its own.                                       *)
LEMMA BodilessIs ==
    ASSUME N \in Nat, NEW c \in Conn, NEW u \in Piece
    PROVE  LET d == Bodiless(c, u) IN
           /\ d \in Conn /\ d.write_buffer # <<>>
           /\ c.response = Nobody => d.write_buffer = Append(c.write_buffer, u)
           /\ d.buffer = c.buffer /\ d.state = c.state /\ d.chunk_state = c.chunk_state
           /\ d.request = c.request /\ d.action = c.action /\ d.file = c.file /\ d.left = c.left
           /\ d.upload_manager = c.upload_manager /\ d.response = c.response
           /\ d.closed = c.closed
  <1> DEFINE b == Held(c)
             v == Append(c.write_buffer, u)
             w == v \o b
  <1>2. b \in Seq(Piece)
    <2>1. CASE c.response = Nobody
      BY <2>1, EmptySeq DEF Held
    <2>2. CASE c.response # Nobody
      <3>1. c.response \in 1 .. N
        BY <2>2 DEF Conn, Nobody
      <3>2. <<c.response, "answer", 0>> \in Piece
        BY <3>1, BoundsAssumption DEF Piece
      <3> QED  BY <2>2, <3>2 DEF Held
    <2> QED  BY <2>1, <2>2
  <1>3. c.write_buffer \in Seq(Piece)
    BY DEF Conn
  <1>4. c.response = Nobody => b = <<>>
    BY DEF Held
  <1> HIDE DEF b
  <1>5. v \in Seq(Piece) /\ Len(v) = Len(c.write_buffer) + 1
    BY <1>3, AppendProperties
  <1> HIDE DEF v
  <1>6. w \in Seq(Piece) /\ Len(w) = Len(c.write_buffer) + 1 + Len(b)
    BY <1>2, <1>5, ConcatProperties, ZenonT(60)
  <1>7. Len(c.write_buffer) \in Nat /\ Len(b) \in Nat
    BY <1>2, <1>3, LenProperties
  <1>8. w # <<>>
    BY <1>6, <1>7
  <1>9. b = <<>> => w = v
    BY <1>5, ConcatEmptySeq
  <1> HIDE DEF w
  <1>10. Bodiless(c, u) = [c EXCEPT !.write_buffer = w]
    BY DEF Bodiless, w, v, b
  <1>11. c.response = Nobody => w = Append(c.write_buffer, u)
    BY <1>4, <1>9 DEF v
  <1> QED  BY <1>6, <1>8, <1>10, <1>11 DEF Conn

LEMMA NextPieceIs ==
    ASSUME DataType, PlaceInv, conn.action = "FileDownload", conn.write_buffer = <<>>
    PROVE  LET d == NextPiece(conn) IN
           /\ d \in Conn
           /\ d.buffer = conn.buffer /\ d.state = conn.state /\ d.chunk_state = conn.chunk_state
           /\ d.request = conn.request /\ d.file = conn.file
           /\ d.upload_manager = conn.upload_manager /\ d.response = conn.response
           /\ d.closed = conn.closed
           /\ conn.left = 0 => /\ d.action = "None" /\ d.left = 0 /\ d.write_buffer = <<>>
           /\ conn.left # 0 =>
                 /\ d.action = "FileDownload" /\ d.left = conn.left - 1
                 /\ d.write_buffer = <<<<conn.file, "data", FileChunks + 1 - conn.left>>>>
  <1>1. CASE conn.left = 0
    BY <1>1 DEF NextPiece, DataType, Conn
  <1>2. CASE conn.left # 0
    <2> DEFINE w == <<<<conn.file, "data", FileChunks + 1 - conn.left>>>>
               l == conn.left - 1
    <2>1. conn.file \in 1 .. N
      BY Lengths DEF DataType, Conn, PlaceInv, Nobody
    <2>2. FileChunks + 1 - conn.left \in 0 .. FileChunks /\ l \in 0 .. FileChunks
      <3>1. conn.left \in 0 .. FileChunks
        BY DEF DataType, Conn
      <3>2. FileChunks \in Nat
        BY Lengths
      <3> QED  BY <1>2, <3>1, <3>2
    <2>3. w \in Seq(Piece)
      BY <2>1, <2>2 DEF Piece
    <2> HIDE DEF w, l
    <2>4. NextPiece(conn) = [conn EXCEPT !.left = l, !.write_buffer = w]
      BY <1>2 DEF NextPiece, w, l
    <2>5. conn \in Conn
      BY DEF DataType
    <2> QED  BY <1>2, <2>2, <2>3, <2>4, <2>5 DEF Conn, w, l
  <1> QED  BY <1>1, <1>2

LEMMA BodyLengthIs ==
    ASSUME DataType
    PROVE  /\ BodyLength \in 0 .. Len(conn.buffer)
           /\ \A k \in 1 .. BodyLength : conn.buffer[k][1] = conn.request
           /\ (\A k \in 1 .. Len(conn.buffer) : conn.buffer[k][1] = conn.request)
                 => BodyLength = Len(conn.buffer)
  <1> DEFINE A == {n \in 0 .. Len(conn.buffer) :
                      \A k \in 1 .. n : conn.buffer[k][1] = conn.request}
  <1>1. Len(conn.buffer) \in Nat
    BY Lengths
  <1>2. A \in SUBSET (0 .. Len(conn.buffer)) /\ 0 \in A
    BY <1>1
  <1>3. \A n \in A : \A k \in 1 .. n : conn.buffer[k][1] = conn.request
    OBVIOUS
  <1>4. (\A k \in 1 .. Len(conn.buffer) : conn.buffer[k][1] = conn.request)
            => Len(conn.buffer) \in A
    BY <1>1
  <1>5. BodyLength = Max(A)
    BY DEF BodyLength
  <1> HIDE DEF A
  <1>6. Max(A) \in A /\ \A n \in A : n <= Max(A)
    BY <1>1, <1>2, MaxOfBounded
  <1>7. BodyLength \in A /\ \A n \in A : n <= BodyLength
    BY <1>5, <1>6
  <1>8. BodyLength \in 0 .. Len(conn.buffer)
    BY <1>2, <1>7
  <1>9. ASSUME Len(conn.buffer) \in A PROVE BodyLength = Len(conn.buffer)
    <2>1. Len(conn.buffer) <= BodyLength
      BY <1>7, <1>9
    <2> QED  BY <1>1, <1>8, <2>1
  <1> QED  BY <1>3, <1>4, <1>7, <1>8, <1>9

LEMMA BodyUnitsIs ==
    ASSUME DataType
    PROVE  /\ BodyUnits \in Seq(Unit) /\ Len(BodyUnits) = BodyLength
           /\ \A k \in 1 .. BodyLength : BodyUnits[k] = conn.buffer[k]
           /\ BodyLength \in 0 .. Len(conn.buffer)
           /\ BodyUnits = <<>> <=> BodyLength = 0
           /\ Whole <=> BodyLength # 0 /\ conn.buffer[BodyLength][2] = "last"
  <1>1. conn.buffer \in Seq(Unit) /\ BodyLength \in 0 .. Len(conn.buffer)
        /\ Len(conn.buffer) \in Nat
    BY BodyLengthIs, Lengths DEF DataType, Conn
  <1>2. \A k \in 1 .. BodyLength : conn.buffer[k] \in Unit
    BY <1>1, ElementOfSeq
  <1>3. BodyUnits \in Seq(Unit) /\ Len(BodyUnits) = BodyLength
        /\ \A k \in 1 .. BodyLength : BodyUnits[k] = conn.buffer[k]
    BY <1>1, <1>2, SubSeqProperties DEF BodyUnits
  <1>4. BodyUnits = <<>> <=> BodyLength = 0
    BY <1>1, <1>3, EmptySeq
  <1>5. Whole <=> BodyLength # 0 /\ BodyUnits[BodyLength][2] = "last"
    BY <1>3, <1>4 DEF Whole, Last
  <1> QED  BY <1>1, <1>3, <1>4, <1>5

LEMMA TakeBodyIs ==
    ASSUME DataType, NEW c \in Conn, c.buffer = conn.buffer
    PROVE  LET d == TakeBody(c) IN
           /\ d \in Conn
           /\ d.buffer = SubSeq(conn.buffer, BodyLength + 1, Len(conn.buffer))
           /\ d.state = IF Whole THEN "Complete" ELSE c.state
           /\ d.chunk_state = c.chunk_state /\ d.request = c.request /\ d.action = c.action
           /\ d.file = c.file /\ d.left = c.left /\ d.upload_manager = c.upload_manager
           /\ d.response = c.response /\ d.write_buffer = c.write_buffer /\ d.closed = c.closed
  <1> DEFINE b == SubSeq(conn.buffer, BodyLength + 1, Len(conn.buffer))
             t == IF Whole THEN "Complete" ELSE c.state
  <1>1. conn.buffer \in Seq(Unit) /\ BodyLength \in Nat /\ Len(conn.buffer) \in Nat
    BY BodyLengthIs, Lengths DEF DataType, Conn
  <1>2. \A k \in BodyLength + 1 .. Len(conn.buffer) : conn.buffer[k] \in Unit
    BY <1>1, ElementOfSeq
  <1>3. b \in Seq(Unit)
    BY <1>1, <1>2, SubSeqProperties
  <1>4. t \in {"RequestLine", "Body", "ChunkedBody", "Complete"}
    BY DEF Conn
  <1> HIDE DEF b, t
  <1>5. TakeBody(c) = [c EXCEPT !.buffer = b, !.state = t]
    BY BodyUnitsIs DEF TakeBody, b, t
  <1> QED  BY <1>3, <1>4, <1>5 DEF Conn, b, t

-----------------------------------------------------------------------------
(* What the actions do, field by field.                                    *)

LEMMA SameProgram ==
    ASSUME program' = program, eager' = eager
    PROVE  /\ N' = N /\ Unit' = Unit /\ Piece' = Piece /\ Wire' = Wire
           /\ Conn' = Conn /\ Sock' = Sock /\ Orderly' = Orderly
  <1>1. N' = N
    BY DEF N
  <1>2. Unit' = Unit /\ Piece' = Piece
    BY <1>1 DEF Unit, Piece
  <1>3. Conn' = Conn /\ Sock' = Sock
    BY <1>1, <1>2 DEF Conn, Sock
  <1>4. Wire' = Wire
    BY DEF Wire, RequestUnits
  <1>5. Orderly' = Orderly
    BY DEF Orderly
  <1> QED  BY <1>1, <1>2, <1>3, <1>4, <1>5

LEMMA DataKept ==
    ASSUME DataType, program' = program, eager' = eager, sent' \in 0 .. Len(Wire),
           received' \in Seq(Piece), DOMAIN disk' \subseteq 1 .. N, event' \subseteq {"R", "W"},
           ret' \in {"write", "lifecycle"}, Len(sock'.outbox) <= SendBuffer,
           conn' \in Conn, sock' \in Sock
    PROVE  DataType'
  BY SameProgram DEF DataType, WorldType

LEMMA ClientSendIs ==
    ASSUME DataType, ClientSend
    PROVE  /\ sock' \in Sock /\ sock'.queued
           /\ sent + 1 \in 1 .. Len(Wire) /\ Wire[sent + 1] \in Unit
           /\ sock'.inbox = Append(sock.inbox, Wire[sent + 1])
           /\ sock'.outbox = sock.outbox /\ sock'.eof = sock.eof
           /\ sock'.interest = sock.interest
  <1> DEFINE b == Append(sock.inbox, Wire[sent + 1])
             k == [sock EXCEPT !.inbox = b]
  <1>1. sent + 1 \in 1 .. Len(Wire)
    BY Lengths, SMTT(40) DEF DataType, WorldType, ClientSend
  <1>2. Wire[sent + 1] \in Unit
    BY <1>1, Lengths, ElementOfSeq
  <1>3. b \in Seq(Unit)
    BY <1>2, AppendProperties DEF DataType, Sock
  <1>4. sock' = Edge([sock EXCEPT !.inbox = Append(@, Wire[sent + 1])], "R")
    BY DEF ClientSend
  <1>5. [sock EXCEPT !.inbox = Append(@, Wire[sent + 1])] = k
    OBVIOUS
  <1> HIDE DEF b
  <1>6. k \in Sock /\ k.inbox = b /\ k.outbox = sock.outbox /\ k.eof = sock.eof
        /\ k.interest = sock.interest /\ "R" \in sock.interest
    BY <1>3 DEF DataType, Sock
  <1> HIDE DEF k
  <1>7. /\ sock' \in Sock /\ sock'.inbox = b /\ sock'.outbox = sock.outbox
        /\ sock'.eof = sock.eof /\ sock'.interest = sock.interest /\ sock'.queued
    BY <1>4, <1>5, <1>6, Edged
  <1> QED  BY <1>1, <1>2, <1>7 DEF b

LEMMA ClientReceiveIs ==
    ASSUME DataType, ClientReceive
    PROVE  /\ sock' \in Sock /\ received' \in Seq(Piece)
           /\ sock.outbox \in Seq(Piece) /\ sock.outbox # <<>>
           /\ received' = Append(received, Head(sock.outbox))
           /\ sock'.outbox = Tail(sock.outbox)
           /\ sock'.inbox = sock.inbox /\ sock'.eof = sock.eof
           /\ sock'.interest = sock.interest
           /\ Len(sock'.outbox) <= SendBuffer
           /\ sock.queued => sock'.queued
           /\ ~Writable(sock) /\ "W" \in sock.interest => sock'.queued
  <1> DEFINE b == Tail(sock.outbox)
             k == [sock EXCEPT !.outbox = b]
  <1>1. sock.outbox \in Seq(Piece) /\ sock.outbox # <<>> /\ received \in Seq(Piece)
    BY DEF DataType, WorldType, Sock, ClientReceive
  <1>2. Head(sock.outbox) \in Piece /\ b \in Seq(Piece) /\ Len(b) = Len(sock.outbox) - 1
    BY <1>1, HeadTailProperties
  <1>3. received' = Append(received, Head(sock.outbox)) /\ received' \in Seq(Piece)
    BY <1>1, <1>2, AppendProperties DEF ClientReceive
  <1>4. sock' = IF Writable(sock) THEN k ELSE Edge(k, "W")
    BY DEF ClientReceive
  <1> HIDE DEF b
  <1>5. k \in Sock /\ k.outbox = b /\ k.inbox = sock.inbox /\ k.eof = sock.eof
        /\ k.interest = sock.interest /\ k.queued = sock.queued
    BY <1>2 DEF DataType, Sock
  <1> HIDE DEF k
  <1>6. /\ sock' \in Sock /\ sock'.outbox = b /\ sock'.inbox = sock.inbox
        /\ sock'.eof = sock.eof /\ sock'.interest = sock.interest
        /\ sock.queued => sock'.queued
        /\ ~Writable(sock) /\ "W" \in sock.interest => sock'.queued
    BY <1>4, <1>5, Edged
  <1>7. Len(b) <= SendBuffer
    BY <1>2, Lengths DEF DataType, WorldType
  <1> QED  BY <1>1, <1>3, <1>6, <1>7 DEF b

LEMMA ClientCloseIs ==
    ASSUME DataType, ClientClose
    PROVE  /\ sock' \in Sock /\ sock'.queued
           /\ sock'.inbox = sock.inbox /\ sock'.outbox = sock.outbox
           /\ sock'.interest = sock.interest
  <1> DEFINE k == [sock EXCEPT !.eof = TRUE]
  <1>1. k \in Sock /\ k.outbox = sock.outbox /\ k.inbox = sock.inbox
        /\ k.interest = sock.interest /\ "R" \in sock.interest
    BY DEF DataType, Sock
  <1>2. sock' = Edge(k, "R")
    BY DEF ClientClose
  <1> HIDE DEF k
  <1> QED  BY <1>1, <1>2, Edged

LEMMA ReadPhaseIs ==
    ASSUME DataType, ReadPhase
    PROVE  /\ conn' \in Conn /\ sock' \in Sock
           /\ UnitsRead \in 0 .. Len(sock.inbox)
           /\ sock.inbox # <<>> => UnitsRead # 0
           /\ conn'.buffer = conn.buffer \o SubSeq(sock.inbox, 1, UnitsRead)
           /\ sock'.inbox = SubSeq(sock.inbox, UnitsRead + 1, Len(sock.inbox))
           /\ conn'.closed = SeesEof
           /\ conn'.state = conn.state /\ conn'.chunk_state = conn.chunk_state
           /\ conn'.request = conn.request /\ conn'.action = conn.action
           /\ conn'.file = conn.file /\ conn'.left = conn.left
           /\ conn'.upload_manager = conn.upload_manager /\ conn'.response = conn.response
           /\ conn'.write_buffer = conn.write_buffer
           /\ sock'.outbox = sock.outbox /\ sock'.eof = sock.eof /\ sock'.interest = {"R"}
           /\ Readable(sock') => sock'.queued
  <1> DEFINE b == conn.buffer \o SubSeq(sock.inbox, 1, UnitsRead)
             i == SubSeq(sock.inbox, UnitsRead + 1, Len(sock.inbox))
             k == [sock EXCEPT !.inbox = i]
  <1>1. /\ Len(sock.inbox) \in Nat /\ Len(conn.buffer) \in Nat /\ ReadLimit \in Nat \ {0}
        /\ sock.inbox \in Seq(Unit) /\ conn.buffer \in Seq(Unit)
        /\ conn \in Conn /\ sock \in Sock
    BY Lengths DEF DataType, Conn, Sock
  <1>2. UnitsRead \in 0 .. Len(sock.inbox) /\ (Len(sock.inbox) # 0 => UnitsRead # 0)
    <2> DEFINE x == Len(sock.inbox)
               y == ReadLimit - Len(conn.buffer)
               l == IF 1 < y THEN y ELSE 1
               m == IF x < l THEN x ELSE l
    <2>1. x \in Nat /\ y \in Int /\ l \in Int /\ l >= 1
      BY <1>1
    <2>2. UnitsRead = IF Len(conn.buffer) + x < ReadLimit THEN x ELSE m
      BY DEF UnitsRead, SmallestOf, LargestOf
    <2> HIDE DEF x, l
    <2>3. m \in 0 .. x /\ (x # 0 => m # 0)
      BY <2>1
    <2> HIDE DEF m
    <2>4. UnitsRead \in 0 .. x /\ (x # 0 => UnitsRead # 0)
      BY <2>1, <2>2, <2>3
    <2> QED  BY <2>4 DEF x
  <1>3. \A j \in 1 .. Len(sock.inbox) : sock.inbox[j] \in Unit
    BY <1>1, ElementOfSeq
  <1>4. SubSeq(sock.inbox, 1, UnitsRead) \in Seq(Unit)
    <2>1. \A j \in 1 .. UnitsRead : sock.inbox[j] \in Unit
      BY <1>1, <1>2, <1>3
    <2> QED  BY <1>2, <2>1, SubSeqProperties
  <1>5. b \in Seq(Unit)
    BY <1>1, <1>4, ConcatProperties
  <1>6. i \in Seq(Unit)
    <2>1. \A j \in UnitsRead + 1 .. Len(sock.inbox) : sock.inbox[j] \in Unit
      BY <1>1, <1>2, <1>3
    <2>2. UnitsRead + 1 \in Int /\ Len(sock.inbox) \in Int
      BY <1>1, <1>2
    <2> QED  BY <2>1, <2>2, SubSeqProperties
  <1>7. SeesEof \in BOOLEAN
    BY <1>1 DEF SeesEof, Sock
  <1>8. sock.inbox # <<>> => UnitsRead # 0
    BY <1>1, <1>2, EmptySeq
  <1>9. conn' = [conn EXCEPT !.buffer = conn.buffer \o SubSeq(sock.inbox, 1, UnitsRead),
                             !.closed = SeesEof]
    BY DEF ReadPhase
  <1>10. sock' = Reregister([sock EXCEPT !.inbox = SubSeq(@, UnitsRead + 1, Len(@))], {"R"})
    BY DEF ReadPhase
  <1>11. [sock EXCEPT !.inbox = SubSeq(@, UnitsRead + 1, Len(@))] = k
    OBVIOUS
  <1> HIDE DEF b, i
  <1>12. k \in Sock /\ k.inbox = i /\ k.outbox = sock.outbox /\ k.eof = sock.eof
    BY <1>1, <1>6 DEF Sock
  <1> HIDE DEF k
  <1>13. /\ sock' \in Sock /\ sock'.interest = {"R"} /\ sock'.inbox = i
         /\ sock'.outbox = sock.outbox /\ sock'.eof = sock.eof
         /\ Readable(sock') => sock'.queued
    BY <1>10, <1>11, <1>12, Reregistered
  <1>14. /\ conn' \in Conn /\ conn'.buffer = b /\ conn'.closed = SeesEof
         /\ conn'.state = conn.state /\ conn'.chunk_state = conn.chunk_state
         /\ conn'.request = conn.request /\ conn'.action = conn.action
         /\ conn'.file = conn.file /\ conn'.left = conn.left
         /\ conn'.upload_manager = conn.upload_manager /\ conn'.response = conn.response
         /\ conn'.write_buffer = conn.write_buffer
    BY <1>1, <1>5, <1>7, <1>9 DEF Conn, b
  <1> QED  BY <1>2, <1>8, <1>13, <1>14 DEF b, i

LEMMA FlushIs ==
    ASSUME DataType, Flush
    PROVE  \E n \in 0 .. Len(conn.write_buffer) :
           /\ conn' \in Conn /\ sock' \in Sock /\ Len(sock'.outbox) <= SendBuffer
           /\ n < Len(conn.write_buffer) => ~Writable(sock')
           /\ sock'.outbox = sock.outbox \o SubSeq(conn.write_buffer, 1, n)
           /\ conn'.write_buffer = SubSeq(conn.write_buffer, n + 1, Len(conn.write_buffer))
           /\ conn'.write_buffer # <<>> => n < Len(conn.write_buffer)
           /\ sock'.inbox = sock.inbox /\ sock'.eof = sock.eof
           /\ sock'.interest = sock.interest /\ sock'.queued = sock.queued
           /\ conn'.buffer = conn.buffer /\ conn'.closed = conn.closed
           /\ conn'.state = conn.state /\ conn'.chunk_state = conn.chunk_state
           /\ conn'.request = conn.request /\ conn'.action = conn.action
           /\ conn'.file = conn.file /\ conn'.left = conn.left
           /\ conn'.upload_manager = conn.upload_manager /\ conn'.response = conn.response
  <1> DEFINE n == SmallestOf(Len(conn.write_buffer), SendBuffer - Len(sock.outbox))
             w == SubSeq(conn.write_buffer, n + 1, Len(conn.write_buffer))
             a == SubSeq(conn.write_buffer, 1, n)
             o == sock.outbox \o a
  <1>1. /\ Len(sock.outbox) \in 0 .. SendBuffer /\ Len(conn.write_buffer) \in Nat
        /\ SendBuffer \in Nat
        /\ sock.outbox \in Seq(Piece) /\ conn.write_buffer \in Seq(Piece)
        /\ conn \in Conn /\ sock \in Sock
    BY Lengths, SMTT(40) DEF DataType, WorldType, Conn, Sock
  <1>2. /\ n \in 0 .. Len(conn.write_buffer) /\ Len(sock.outbox) + n <= SendBuffer
        /\ n < Len(conn.write_buffer) => Len(sock.outbox) + n = SendBuffer
    <2> DEFINE x == Len(conn.write_buffer)
               y == SendBuffer - Len(sock.outbox)
    <2>1. x \in Nat /\ y \in Nat
      BY <1>1
    <2>2. n = IF x < y THEN x ELSE y
      BY DEF SmallestOf
    <2> HIDE DEF n, x
    <2>3. n \in 0 .. x /\ n <= y /\ (n < x => n = y)
      BY <2>1, <2>2
    <2> QED  BY <1>1, <2>1, <2>3 DEF x
  <1>3. /\ sock' = [sock EXCEPT !.outbox = @ \o SubSeq(conn.write_buffer, 1, n)]
        /\ conn' = [conn EXCEPT !.write_buffer = SubSeq(@, n + 1, Len(@))]
    BY DEF Flush
  <1> HIDE DEF n
  <1>4. \A j \in 1 .. Len(conn.write_buffer) : conn.write_buffer[j] \in Piece
    BY <1>1, ElementOfSeq
  <1>5. a \in Seq(Piece) /\ Len(a) = n
    <2>1. \A j \in 1 .. n : conn.write_buffer[j] \in Piece
      BY <1>1, <1>2, <1>4
    <2> QED  BY <1>2, <2>1, SubSeqProperties
  <1>6. w \in Seq(Piece) /\ (n = Len(conn.write_buffer) => w = <<>>)
    <2>1. \A j \in n + 1 .. Len(conn.write_buffer) : conn.write_buffer[j] \in Piece
      BY <1>1, <1>2, <1>4
    <2>2. n + 1 \in Int /\ Len(conn.write_buffer) \in Int
      BY <1>1, <1>2
    <2>3. n = Len(conn.write_buffer) => w = <<>>
      BY <2>2, SubSeqEmpty
    <2> QED  BY <2>1, <2>2, <2>3, SubSeqProperties
  <1> HIDE DEF a
  <1>7. o \in Seq(Piece) /\ Len(o) = Len(sock.outbox) + n
    BY <1>1, <1>5, ConcatProperties
  <1>8. sock' = [sock EXCEPT !.outbox = o] /\ conn' = [conn EXCEPT !.write_buffer = w]
    BY <1>3 DEF a
  <1> HIDE DEF o, w
  <1>9. /\ sock' \in Sock /\ sock'.outbox = o /\ sock'.inbox = sock.inbox
        /\ sock'.eof = sock.eof /\ sock'.interest = sock.interest
        /\ sock'.queued = sock.queued
    BY <1>1, <1>7, <1>8 DEF Sock
  <1>10. /\ conn' \in Conn /\ conn'.write_buffer = w
         /\ conn'.buffer = conn.buffer /\ conn'.closed = conn.closed
         /\ conn'.state = conn.state /\ conn'.chunk_state = conn.chunk_state
         /\ conn'.request = conn.request /\ conn'.action = conn.action
         /\ conn'.file = conn.file /\ conn'.left = conn.left
         /\ conn'.upload_manager = conn.upload_manager /\ conn'.response = conn.response
    BY <1>1, <1>6, <1>8 DEF Conn
  <1>11. n < Len(conn.write_buffer) => ~Writable(sock')
    BY <1>1, <1>2, <1>7, <1>9 DEF Writable
  <1>12. w # <<>> => n < Len(conn.write_buffer)
    BY <1>1, <1>2, <1>6
  <1>13. Len(sock'.outbox) <= SendBuffer
    BY <1>2, <1>7, <1>9
  <1> QED  BY <1>2, <1>9, <1>10, <1>11, <1>12, <1>13 DEF o, w, a

LEMMA RefillIs ==
    ASSUME DataType, PlaceInv, Refill
    PROVE  /\ conn' \in Conn
           /\ conn'.buffer = conn.buffer /\ conn'.state = conn.state
           /\ conn'.chunk_state = conn.chunk_state /\ conn'.request = conn.request
           /\ conn'.file = conn.file /\ conn'.upload_manager = conn.upload_manager
           /\ conn'.response = conn.response /\ (conn.closed => conn'.closed)
           /\ \/ /\ conn'.action = conn.action /\ conn'.left = conn.left
                 /\ conn'.write_buffer = conn.write_buffer
              \/ /\ conn.action = "FileDownload" /\ conn.write_buffer = <<>>
                 /\ conn.left = 0 => /\ conn'.action = "None" /\ conn'.left = 0
                                     /\ conn'.write_buffer = <<>>
                 /\ conn.left # 0 =>
                       /\ conn'.action = "FileDownload" /\ conn'.left = conn.left - 1
                       /\ conn'.write_buffer =
                             <<<<conn.file, "data", FileChunks + 1 - conn.left>>>>
  <1>1. CASE conn.write_buffer = <<>> /\ conn.action = "FileDownload"
    <2>1. PICK fault \in {FALSE, DiskFaults} :
              conn' = IF fault THEN [conn EXCEPT !.closed = TRUE] ELSE NextPiece(conn)
      BY <1>1 DEF Refill
    <2>2. CASE fault
      BY <2>1, <2>2 DEF DataType, Conn
    <2>3. CASE ~fault
      <3>1. conn' = NextPiece(conn)
        BY <2>1, <2>3
      <3> QED  BY <1>1, <3>1, NextPieceIs
    <2> QED  BY <2>2, <2>3
  <1>2. CASE ~(conn.write_buffer = <<>> /\ conn.action = "FileDownload")
    BY <1>2 DEF Refill, DataType
  <1> QED  BY <1>1, <1>2

LEMMA PostWriteIs ==
    ASSUME DataType, PostWrite
    PROVE  /\ conn' \in Conn /\ sock' \in Sock
           /\ conn'.response = Nobody
           /\ conn'.buffer = conn.buffer /\ conn'.state = conn.state
           /\ conn'.chunk_state = conn.chunk_state /\ conn'.request = conn.request
           /\ conn'.action = conn.action /\ conn'.file = conn.file /\ conn'.left = conn.left
           /\ conn'.upload_manager = conn.upload_manager
           /\ conn'.write_buffer = conn.write_buffer /\ conn'.closed = conn.closed
           /\ sock'.inbox = sock.inbox /\ sock'.outbox = sock.outbox /\ sock'.eof = sock.eof
           /\ Readable(sock') => sock'.queued
           /\ conn.action = "FileDownload" =>
                 "W" \in sock'.interest /\ (Writable(sock') => sock'.queued)
  <1>1. conn \in Conn /\ sock \in Sock
    BY DEF DataType
  <1>2. conn' = [conn EXCEPT !.response = Nobody]
    BY DEF PostWrite, Reset
  <1>3. Nobody \in 0 .. N
    BY Lengths DEF Nobody
  <1>4. sock' = Reregister(sock, AfterFlush)
    BY DEF PostWrite
  <1>5. AfterFlush \in {{"R"}, {"R", "W"}} /\ (conn.action = "FileDownload" => "W" \in AfterFlush)
    BY DEF AfterFlush
  <1>6. /\ sock' \in Sock /\ sock'.interest = AfterFlush
        /\ sock'.inbox = sock.inbox /\ sock'.outbox = sock.outbox /\ sock'.eof = sock.eof
        /\ Readable(sock') => sock'.queued
        /\ "W" \in AfterFlush /\ Writable(sock') => sock'.queued
    BY <1>1, <1>4, <1>5, Reregistered
  <1>7. /\ conn' \in Conn /\ conn'.response = Nobody
        /\ conn'.buffer = conn.buffer /\ conn'.state = conn.state
        /\ conn'.chunk_state = conn.chunk_state /\ conn'.request = conn.request
        /\ conn'.action = conn.action /\ conn'.file = conn.file /\ conn'.left = conn.left
        /\ conn'.upload_manager = conn.upload_manager
        /\ conn'.write_buffer = conn.write_buffer /\ conn'.closed = conn.closed
    BY <1>1, <1>2, <1>3 DEF Conn
  <1> QED  BY <1>5, <1>6, <1>7

LEMMA ToParse ==
    ASSUME DataType, PlaceInv, NEW kind, ParseHead(kind)
    PROVE  conn.buffer # <<>> /\ pc = "request" /\ conn.state = "RequestLine" /\ ~conn.closed
  BY DEF ParseHead, PlaceInv

LEMMA PageIs ==
    ASSUME DataType, PlaceInv, Page
    PROVE  /\ conn' \in Conn
           /\ conn'.buffer = Tail(conn.buffer) /\ conn'.request = Head(conn.buffer)[1]
           /\ conn'.request \in 1 .. N
           /\ conn'.write_buffer = Append(conn.write_buffer, <<conn'.request, "answer", 0>>)
           /\ conn'.write_buffer # <<>>
           /\ conn'.state = conn.state /\ conn'.chunk_state = conn.chunk_state
           /\ conn'.action = conn.action /\ conn'.file = conn.file /\ conn'.left = conn.left
           /\ conn'.upload_manager = conn.upload_manager /\ conn'.closed = conn.closed
           /\ conn'.response = conn'.request
  <1>1. conn.buffer # <<>>
    BY ToParse DEF Page
  <1>2. conn' = Respond(Parsed, Parsed.request)
    BY DEF Page
  <1>3. N \in Nat /\ Parsed \in Conn /\ Parsed.request \in 1 .. N
    BY <1>1, Lengths, ParsedIs
  <1>4. /\ conn' \in Conn /\ conn'.write_buffer # <<>>
        /\ conn'.write_buffer = Append(Parsed.write_buffer, <<Parsed.request, "answer", 0>>)
        /\ conn'.state = Parsed.state /\ conn'.chunk_state = Parsed.chunk_state
        /\ conn'.buffer = Parsed.buffer /\ conn'.request = Parsed.request
        /\ conn'.action = Parsed.action /\ conn'.file = Parsed.file
        /\ conn'.left = Parsed.left /\ conn'.upload_manager = Parsed.upload_manager
        /\ conn'.closed = Parsed.closed /\ conn'.response = Parsed.request
    BY <1>2, <1>3, Responded
  <1> QED  BY <1>1, <1>3, <1>4, ParsedIs

LEMMA BareIs ==
    ASSUME DataType, PlaceInv, Bare
    PROVE  /\ conn' \in Conn
           /\ conn'.buffer = Tail(conn.buffer) /\ conn'.request = Head(conn.buffer)[1]
           /\ conn'.request \in 1 .. N
           /\ conn.response = Nobody =>
                 conn'.write_buffer = Append(conn.write_buffer, <<conn'.request, "answer", 0>>)
           /\ conn'.write_buffer # <<>>
           /\ conn'.state = conn.state /\ conn'.chunk_state = conn.chunk_state
           /\ conn'.action = conn.action /\ conn'.file = conn.file /\ conn'.left = conn.left
           /\ conn'.upload_manager = conn.upload_manager /\ conn'.response = conn.response
           /\ conn'.closed = conn.closed
  <1> DEFINE u == <<Parsed.request, "answer", 0>>
  <1>1. conn.buffer # <<>>
    BY ToParse DEF Bare
  <1>2. conn' = Bodiless(Parsed, u)
    BY DEF Bare
  <1>3. N \in Nat /\ Parsed \in Conn /\ Parsed.request \in 1 .. N
    BY <1>1, Lengths, ParsedIs
  <1>4. u \in Piece
    BY <1>3, BoundsAssumption DEF Piece
  <1>5. /\ conn' \in Conn /\ conn'.write_buffer # <<>>
        /\ Parsed.response = Nobody => conn'.write_buffer = Append(Parsed.write_buffer, u)
        /\ conn'.state = Parsed.state /\ conn'.chunk_state = Parsed.chunk_state
        /\ conn'.buffer = Parsed.buffer /\ conn'.request = Parsed.request
        /\ conn'.action = Parsed.action /\ conn'.file = Parsed.file
        /\ conn'.left = Parsed.left /\ conn'.upload_manager = Parsed.upload_manager
        /\ conn'.response = Parsed.response /\ conn'.closed = Parsed.closed
    BY <1>2, <1>3, <1>4, BodilessIs
  <1> QED  BY <1>1, <1>3, <1>5, ParsedIs

LEMMA FileDownloadIs ==
    ASSUME DataType, PlaceInv, FileDownload
    PROVE  /\ conn' \in Conn
           /\ conn'.buffer = Tail(conn.buffer) /\ conn'.request = Head(conn.buffer)[1]
           /\ conn'.request \in 1 .. N
           /\ conn.response = Nobody =>
                 conn'.write_buffer = Append(conn.write_buffer, <<conn'.request, "head", 0>>)
           /\ conn'.write_buffer # <<>>
           /\ conn'.action = "FileDownload" /\ conn'.file = conn'.request
           /\ conn'.left = FileChunks
           /\ conn'.state = conn.state /\ conn'.chunk_state = conn.chunk_state
           /\ conn'.upload_manager = conn.upload_manager /\ conn'.response = conn.response
           /\ conn'.closed = conn.closed
  <1> DEFINE q == Parsed.request
             d == Bodiless(Parsed, <<q, "head", 0>>)
  <1>1. conn.buffer # <<>>
    BY ToParse DEF FileDownload
  <1>2. N \in Nat /\ FileChunks \in Nat
    BY Lengths
  <1>3. q \in 1 .. N /\ Parsed \in Conn
    BY <1>1, ParsedIs
  <1>4. <<q, "head", 0>> \in Piece
    BY <1>2, <1>3 DEF Piece
  <1>5. /\ d \in Conn /\ d.write_buffer # <<>>
        /\ Parsed.response = Nobody => d.write_buffer = Append(Parsed.write_buffer, <<q, "head", 0>>)
        /\ d.buffer = Parsed.buffer /\ d.state = Parsed.state /\ d.chunk_state = Parsed.chunk_state
        /\ d.request = q /\ d.upload_manager = Parsed.upload_manager
        /\ d.response = Parsed.response /\ d.closed = Parsed.closed
    BY <1>2, <1>3, <1>4, BodilessIs
  <1>6. conn' = [d EXCEPT !.action = "FileDownload", !.file = q, !.left = FileChunks]
    BY DEF FileDownload
  <1> HIDE DEF d, q
  <1>7. q \in 0 .. N /\ FileChunks \in 0 .. FileChunks
    BY <1>2, <1>3
  <1>8. /\ conn' \in Conn /\ conn'.write_buffer = d.write_buffer
        /\ conn'.buffer = d.buffer /\ conn'.state = d.state /\ conn'.chunk_state = d.chunk_state
        /\ conn'.request = d.request /\ conn'.upload_manager = d.upload_manager
        /\ conn'.response = d.response /\ conn'.closed = d.closed
        /\ conn'.action = "FileDownload" /\ conn'.file = q /\ conn'.left = FileChunks
    BY <1>5, <1>6, <1>7 DEF Conn
  <1>9. /\ Parsed.buffer = Tail(conn.buffer) /\ q = Head(conn.buffer)[1]
        /\ Parsed.state = conn.state /\ Parsed.chunk_state = conn.chunk_state
        /\ Parsed.upload_manager = conn.upload_manager /\ Parsed.response = conn.response
        /\ Parsed.write_buffer = conn.write_buffer /\ Parsed.closed = conn.closed
    BY <1>1, ParsedIs DEF q
  <1> QED  BY <1>3, <1>5, <1>8, <1>9

LEMMA UploadIs ==
    ASSUME DataType, PlaceInv, NEW kind, NEW body \in {"Body", "ChunkedBody"}, Upload(kind, body)
    PROVE  /\ conn' \in Conn
           /\ conn'.buffer = Tail(conn.buffer) /\ conn'.request = Head(conn.buffer)[1]
           /\ conn'.request \in 1 .. N
           /\ conn'.action = "Upload" /\ conn'.state = body
           /\ conn'.chunk_state = conn.chunk_state
           /\ conn'.file = conn.file /\ conn'.left = conn.left
           /\ conn'.upload_manager = conn.upload_manager /\ conn'.response = conn.response
           /\ conn'.write_buffer = conn.write_buffer /\ conn'.closed = conn.closed
  <1>1. conn.buffer # <<>>
    BY ToParse DEF Upload
  <1>2. conn' = [Parsed EXCEPT !.action = "Upload", !.state = body]
    BY DEF Upload
  <1>3. /\ conn' \in Conn /\ conn'.buffer = Parsed.buffer /\ conn'.request = Parsed.request
        /\ conn'.action = "Upload" /\ conn'.state = body
        /\ conn'.chunk_state = Parsed.chunk_state
        /\ conn'.file = Parsed.file /\ conn'.left = Parsed.left
        /\ conn'.upload_manager = Parsed.upload_manager /\ conn'.response = Parsed.response
        /\ conn'.write_buffer = Parsed.write_buffer /\ conn'.closed = Parsed.closed
    <2>1. Parsed \in Conn
      BY <1>1, ParsedIs
    <2> QED  BY <1>2, <2>1 DEF Conn
  <1> QED  BY <1>1, <1>3, ParsedIs

LEMMA BadIs ==
    ASSUME DataType, PlaceInv, Bad
    PROVE  /\ conn' \in Conn
           /\ conn'.buffer = Tail(conn.buffer) /\ conn'.request = Head(conn.buffer)[1]
           /\ conn'.request \in 1 .. N
           /\ conn'.write_buffer = Append(conn.write_buffer, <<conn'.request, "answer", 0>>)
           /\ conn'.write_buffer # <<>>
           /\ conn'.state = "RequestLine" /\ conn'.closed
           /\ conn'.action = conn.action /\ conn'.file = conn.file /\ conn'.left = conn.left
           /\ conn'.upload_manager = conn.upload_manager /\ conn'.response = conn'.request
  <1>1. conn.buffer # <<>>
    BY ToParse DEF Bad
  <1>2. conn' = Refuse(Parsed)
    BY DEF Bad
  <1>3. N \in Nat /\ Parsed \in Conn /\ Parsed.request \in 1 .. N
    BY <1>1, Lengths, ParsedIs
  <1>4. /\ conn' \in Conn /\ conn'.write_buffer # <<>>
        /\ conn'.write_buffer = Append(Parsed.write_buffer, <<Parsed.request, "answer", 0>>)
        /\ conn'.state = "RequestLine" /\ conn'.closed
        /\ conn'.buffer = Parsed.buffer /\ conn'.request = Parsed.request
        /\ conn'.action = Parsed.action /\ conn'.file = Parsed.file
        /\ conn'.left = Parsed.left /\ conn'.upload_manager = Parsed.upload_manager
        /\ conn'.response = Parsed.request
    BY <1>2, <1>3, Refused
  <1> QED  BY <1>1, <1>3, <1>4, ParsedIs

(* The request whose body is parsed, and its manager.                      *)
LEMMA Managed ==
    ASSUME DataType, PlaceInv, conn.state # "RequestLine"
    PROVE  /\ conn.request \in 1 .. N
           /\ NewManager \in 1 .. N
           /\ LET c == [conn EXCEPT !.upload_manager = NewManager] IN
              /\ c \in Conn /\ c.upload_manager = NewManager
              /\ c.buffer = conn.buffer /\ c.state = conn.state
              /\ c.chunk_state = conn.chunk_state /\ c.request = conn.request
              /\ c.action = conn.action /\ c.file = conn.file /\ c.left = conn.left
              /\ c.response = conn.response /\ c.write_buffer = conn.write_buffer
              /\ c.closed = conn.closed
  <1>1. conn \in Conn /\ N \in Nat
    BY Lengths DEF DataType
  <1>2. conn.request \in 0 .. N /\ conn.upload_manager \in 0 .. N
    BY <1>1 DEF Conn
  <1>3. conn.request \in 1 .. N
    BY <1>1, <1>2 DEF PlaceInv, Nobody
  <1>4. NewManager \in 1 .. N
    BY <1>1, <1>2, <1>3 DEF NewManager, Nobody
  <1>5. NewManager \in 0 .. N
    BY <1>1, <1>4
  <1> QED  BY <1>1, <1>3, <1>4, <1>5 DEF Conn

LEMMA StoreIs ==
    ASSUME DataType, NEW name \in 1 .. N, NEW units
    PROVE  /\ DOMAIN Store(name, units) = DOMAIN disk \cup {name}
           /\ DOMAIN Store(name, units) \subseteq 1 .. N
           /\ Store(name, units)[name] =
                 (IF name \in DOMAIN disk THEN disk[name] ELSE <<>>) \o units
           /\ \A i \in DOMAIN disk : i # name => Store(name, units)[i] = disk[i]
  BY DEF Store, DataType, WorldType

LEMMA BodyIs ==
    ASSUME DataType, PlaceInv, Body
    PROVE  /\ conn' \in Conn /\ DOMAIN disk' \subseteq 1 .. N
           /\ conn.request \in 1 .. N
           /\ conn'.buffer = SubSeq(conn.buffer, BodyLength + 1, Len(conn.buffer))
           /\ conn'.state = IF Whole THEN "Complete" ELSE "Body"
           /\ conn'.chunk_state = conn.chunk_state /\ conn'.request = conn.request
           /\ conn'.action = conn.action /\ conn'.file = conn.file /\ conn'.left = conn.left
           /\ conn'.response = conn.response /\ conn'.write_buffer = conn.write_buffer
           /\ conn'.closed = conn.closed
           /\ IF conn.action = "Upload" /\ BodyUnits # <<>>
              THEN /\ conn'.upload_manager = NewManager
                   /\ disk' = Store(NewManager, BodyUnits)
              ELSE conn'.upload_manager = conn.upload_manager /\ disk' = disk
  <1> DEFINE c == [conn EXCEPT !.upload_manager = NewManager]
  <1>1. conn.state = "Body" /\ conn \in Conn
    BY DEF Body, DataType
  <1>2. /\ conn.request \in 1 .. N /\ NewManager \in 1 .. N
        /\ c \in Conn /\ c.upload_manager = NewManager
        /\ c.buffer = conn.buffer /\ c.state = conn.state
        /\ c.chunk_state = conn.chunk_state /\ c.request = conn.request
        /\ c.action = conn.action /\ c.file = conn.file /\ c.left = conn.left
        /\ c.response = conn.response /\ c.write_buffer = conn.write_buffer
        /\ c.closed = conn.closed
    BY <1>1, Managed
  <1>3. CASE conn.action = "Upload" /\ BodyUnits # <<>>
    <2>1. conn' = TakeBody(c) /\ disk' = Store(NewManager, BodyUnits)
      BY <1>3 DEF Body
    <2> HIDE DEF c
    <2>2. DOMAIN disk' \subseteq 1 .. N
      BY <1>2, <2>1, StoreIs
    <2> QED  BY <1>1, <1>2, <1>3, <2>1, <2>2, TakeBodyIs
  <1>4. CASE ~(conn.action = "Upload" /\ BodyUnits # <<>>)
    <2>1. conn' = TakeBody(conn) /\ disk' = disk
      BY <1>4 DEF Body
    <2>2. DOMAIN disk' \subseteq 1 .. N
      BY <2>1 DEF DataType, WorldType
    <2> HIDE DEF c
    <2> QED  BY <1>1, <1>2, <1>4, <2>1, <2>2, TakeBodyIs
  <1> QED  BY <1>3, <1>4

LEMMA BodyNotStoredIs ==
    ASSUME DataType, PlaceInv, BodyNotStored
    PROVE  /\ conn' \in Conn /\ conn.request \in 1 .. N
           /\ conn'.write_buffer = Append(conn.write_buffer, <<conn.request, "answer", 0>>)
           /\ conn'.write_buffer # <<>>
           /\ conn'.state = "RequestLine" /\ conn'.closed
           /\ conn'.buffer = conn.buffer /\ conn'.request = conn.request
           /\ conn'.action = conn.action /\ conn'.file = conn.file /\ conn'.left = conn.left
           /\ conn'.upload_manager = NewManager /\ conn'.response = conn.request
  <1> DEFINE c == [conn EXCEPT !.upload_manager = NewManager]
  <1>1. conn.state = "Body"
    BY DEF BodyNotStored
  <1>2. /\ conn.request \in 1 .. N
        /\ c \in Conn /\ c.upload_manager = NewManager
        /\ c.buffer = conn.buffer /\ c.request = conn.request
        /\ c.action = conn.action /\ c.file = conn.file /\ c.left = conn.left
        /\ c.write_buffer = conn.write_buffer
    BY <1>1, Managed
  <1>3. conn' = Refuse(c)
    BY DEF BodyNotStored
  <1>4. N \in Nat
    BY Lengths
  <1> HIDE DEF c
  <1> QED  BY <1>2, <1>3, <1>4, Refused, ZenonT(60)

LEMMA ChunkedBodyIs ==
    ASSUME DataType, PlaceInv, ChunkedBody
    PROVE  /\ conn' \in Conn /\ DOMAIN disk' \subseteq 1 .. N
           /\ conn.request \in 1 .. N
           /\ conn'.state = IF Whole THEN "Complete" ELSE "ChunkedBody"
           /\ conn'.request = conn.request /\ conn'.action = conn.action
           /\ conn'.file = conn.file /\ conn'.write_buffer = conn.write_buffer
           /\ conn'.closed = conn.closed
  <1> DEFINE d == TakeBody(conn)
             t == IF Whole THEN "ReadTrailers" ELSE d.chunk_state
  <1>1. conn.state = "ChunkedBody" /\ conn \in Conn /\ N \in Nat
    BY Lengths DEF ChunkedBody, DataType
  <1>2. /\ d \in Conn /\ d.state = IF Whole THEN "Complete" ELSE "ChunkedBody"
        /\ d.request = conn.request /\ d.action = conn.action /\ d.file = conn.file
        /\ d.write_buffer = conn.write_buffer /\ d.closed = conn.closed
    BY <1>1, TakeBodyIs
  <1>3. conn.request \in 1 .. N
    BY <1>1, Managed
  <1>4. conn' = [d EXCEPT !.chunk_state = t]
    BY DEF ChunkedBody
  <1> HIDE DEF d
  <1>5. t \in {"ReadSize", "ReadTrailers"}
    BY <1>2 DEF Conn
  <1> HIDE DEF t
  <1>6. /\ conn' \in Conn /\ conn'.state = d.state
        /\ conn'.request = d.request /\ conn'.action = d.action /\ conn'.file = d.file
        /\ conn'.write_buffer = d.write_buffer /\ conn'.closed = d.closed
    BY <1>2, <1>4, <1>5 DEF Conn
  <1>7. DOMAIN disk' \subseteq 1 .. N
    <2> DEFINE data == SelectSeq(BodyUnits, LAMBDA u : u[2] = "data")
    <2>1. disk' = IF conn.upload_manager # Nobody /\ data # <<>>
                  THEN Store(conn.upload_manager, data) ELSE disk
      BY DEF ChunkedBody
    <2> HIDE DEF data
    <2>2. conn.upload_manager # Nobody => conn.upload_manager \in 1 .. N
      BY <1>1 DEF Conn, Nobody
    <2>3. DOMAIN disk \subseteq 1 .. N
      BY DEF DataType, WorldType
    <2> QED  BY <2>1, <2>2, <2>3, StoreIs
  <1> QED  BY <1>2, <1>3, <1>6, <1>7

LEMMA ChunkRefusedIs ==
    ASSUME DataType, PlaceInv, ChunkRefused
    PROVE  /\ conn' \in Conn /\ conn.request \in 1 .. N
           /\ conn'.state = "RequestLine" /\ conn'.closed
           /\ conn'.request = conn.request
           /\ conn'.action = conn.action /\ conn'.file = conn.file
  <1>1. conn.state = "ChunkedBody" /\ conn \in Conn /\ conn' = Refuse(conn) /\ N \in Nat
    BY Lengths DEF ChunkRefused, DataType
  <1>2. conn.request \in 1 .. N
    BY <1>1, Managed
  <1> QED  BY <1>1, <1>2, Refused

LEMMA FinishIs ==
    ASSUME DataType, PlaceInv, Finish
    PROVE  /\ conn' \in Conn /\ conn.request \in 1 .. N
           /\ conn'.state = "RequestLine"
           /\ conn'.buffer = conn.buffer /\ conn'.chunk_state = conn.chunk_state
           /\ conn'.request = conn.request /\ conn'.action = conn.action
           /\ conn'.file = conn.file /\ conn'.left = conn.left
           /\ conn'.upload_manager = conn.upload_manager /\ conn'.closed = conn.closed
           /\ IF conn.upload_manager = Nobody
              THEN conn'.write_buffer = conn.write_buffer /\ conn'.response = conn.response
              ELSE /\ conn'.write_buffer = Append(conn.write_buffer, <<conn.request, "answer", 0>>)
                   /\ conn'.write_buffer # <<>> /\ conn'.response = conn.request
  <1> DEFINE c == [conn EXCEPT !.state = "RequestLine"]
  <1>1. conn \in Conn /\ N \in Nat /\ pc = "finish"
    BY Lengths DEF Finish, DataType
  <1>2. conn.request \in 1 .. N
    BY <1>1 DEF PlaceInv, Conn, Nobody
  <1>3. /\ c \in Conn /\ c.state = "RequestLine"
        /\ c.buffer = conn.buffer /\ c.chunk_state = conn.chunk_state
        /\ c.request = conn.request /\ c.action = conn.action
        /\ c.file = conn.file /\ c.left = conn.left /\ c.response = conn.response
        /\ c.write_buffer = conn.write_buffer
        /\ c.upload_manager = conn.upload_manager /\ c.closed = conn.closed
    BY <1>1 DEF Conn
  <1>4. conn' = IF c.upload_manager = Nobody THEN c ELSE Respond(c, c.request)
    BY DEF Finish
  <1> HIDE DEF c
  <1>5. CASE conn.upload_manager = Nobody
    BY <1>2, <1>3, <1>4, <1>5
  <1>6. CASE conn.upload_manager # Nobody
    <2>1. conn' = Respond(c, conn.request)
      BY <1>3, <1>4, <1>6
    <2>2. /\ conn' \in Conn /\ conn'.write_buffer # <<>>
          /\ conn'.write_buffer = Append(c.write_buffer, <<conn.request, "answer", 0>>)
          /\ conn'.state = c.state /\ conn'.chunk_state = c.chunk_state
          /\ conn'.buffer = c.buffer /\ conn'.request = c.request
          /\ conn'.action = c.action /\ conn'.file = c.file
          /\ conn'.left = c.left /\ conn'.upload_manager = c.upload_manager
          /\ conn'.closed = c.closed /\ conn'.response = conn.request
      BY <1>1, <1>2, <1>3, <2>1, Responded
    <2> QED  BY <1>2, <1>3, <1>6, <2>2
  <1> QED  BY <1>5, <1>6

LEMMA RearmIs ==
    ASSUME DataType, Rearm
    PROVE  /\ sock' \in Sock
           /\ sock'.inbox = sock.inbox /\ sock'.outbox = sock.outbox /\ sock'.eof = sock.eof
           /\ sock.queued => sock'.queued
           /\ Pending => /\ Readable(sock') => sock'.queued
                         /\ "W" \in sock'.interest
                         /\ Writable(sock') => sock'.queued
  <1>1. sock \in Sock
    BY DEF DataType
  <1>2. WantsWrite = Pending
    BY DEF WantsWrite, Pending
  <1>3. CASE Pending
    <2>1. sock' = Reregister(sock, {"R", "W"})
      BY <1>2, <1>3 DEF Rearm
    <2> QED  BY <1>1, <2>1, Reregistered
  <1>4. CASE ~Pending
    BY <1>1, <1>2, <1>4 DEF Rearm
  <1> QED  BY <1>3, <1>4

-----------------------------------------------------------------------------
(* Types, places and edges: BaseInv is inductive for every program.        *)

BaseInv == DataType /\ PlaceInv /\ WakeInv

LEMMA BaseInit == ASSUME Init PROVE BaseInv
  <1>1. program \in Seq(Kind) /\ eager \in BOOLEAN
    BY ProgramsAssumption DEF Init
  <1>2. N \in Nat /\ Len(Wire) \in Nat
    BY <1>1, WireType, LenProperties DEF N
  <1>3. FileChunks \in Nat /\ SendBuffer \in Nat /\ 0 \in 0 .. N /\ 0 \in 0 .. FileChunks
    BY <1>2, BoundsAssumption
  <1>4. conn \in Conn /\ sock \in Sock
    BY <1>3, EmptySeq DEF Init, Conn, Sock, Nobody
  <1>5. WorldType
    BY <1>1, <1>2, <1>3, EmptySeq DEF Init, WorldType
  <1>6. PlaceInv /\ WakeInv
    BY DEF Init, PlaceInv, WakeInv, Readable, Pending
  <1> QED  BY <1>4, <1>5, <1>6 DEF BaseInv, DataType

(* The steps that leave the connection's record as it was, and the others  *)
(* that leave the world as it was.                                         *)
LEMMA WorldSame ==
    ASSUME DataType, KeepClient, DOMAIN disk' \subseteq 1 .. N, event' \subseteq {"R", "W"},
           ret' \in {"write", "lifecycle"}, Len(sock'.outbox) <= SendBuffer,
           conn' \in Conn, sock' \in Sock
    PROVE  DataType'
  BY DataKept DEF KeepClient, DataType, WorldType

LEMMA ClientSendBase == ASSUME BaseInv, ClientSend PROVE BaseInv'
  <1>0. DataType /\ PlaceInv /\ WakeInv
    BY DEF BaseInv
  <1>1. /\ program' = program /\ eager' = eager /\ sent' = sent + 1 /\ received' = received
        /\ conn' = conn /\ disk' = disk /\ pc' = pc /\ ret' = ret /\ event' = event
    BY DEF ClientSend
  <1>2. /\ sock' \in Sock /\ sock'.queued
        /\ sent + 1 \in 1 .. Len(Wire) /\ Wire[sent + 1] \in Unit
        /\ sock'.inbox = Append(sock.inbox, Wire[sent + 1])
        /\ sock'.outbox = sock.outbox /\ sock'.eof = sock.eof
        /\ sock'.interest = sock.interest
    BY <1>0, ClientSendIs
  <1>3. DataType'
    <2>1. sent' \in 0 .. Len(Wire)
      BY <1>1, <1>2, Lengths, <1>0
    <2> QED  BY <1>0, <1>1, <1>2, <2>1, DataKept DEF DataType, WorldType
  <1>4. PlaceInv'
    BY <1>0, <1>1 DEF PlaceInv
  <1>5. WakeInv'
    <2>1. sock'.inbox # <<>>
      BY <1>0, <1>2, AppendProperties DEF DataType, Sock
    <2>2. Readable(sock')
      BY <2>1 DEF Readable
    <2> QED  BY <1>0, <1>1, <1>2, <2>2 DEF WakeInv, Pending, Readable, Writable
  <1> QED  BY <1>3, <1>4, <1>5 DEF BaseInv

LEMMA ClientReceiveBase == ASSUME BaseInv, ClientReceive PROVE BaseInv'
  <1>0. DataType /\ PlaceInv /\ WakeInv
    BY DEF BaseInv
  <1>1. /\ program' = program /\ eager' = eager /\ sent' = sent
        /\ conn' = conn /\ disk' = disk /\ pc' = pc /\ ret' = ret /\ event' = event
    BY DEF ClientReceive
  <1>2. /\ sock' \in Sock /\ received' \in Seq(Piece)
        /\ sock'.inbox = sock.inbox /\ sock'.eof = sock.eof
        /\ sock'.interest = sock.interest
        /\ Len(sock'.outbox) <= SendBuffer
        /\ sock.queued => sock'.queued
        /\ ~Writable(sock) /\ "W" \in sock.interest => sock'.queued
    BY <1>0, ClientReceiveIs
  <1>3. DataType'
    BY <1>0, <1>1, <1>2, DataKept DEF DataType, WorldType
  <1>4. PlaceInv'
    BY <1>0, <1>1 DEF PlaceInv
  <1>5. Readable(sock') = Readable(sock)
    BY <1>2 DEF Readable
  <1>6. WakeInv'
    <2>1. Pending' = Pending /\ conn'.closed = conn.closed
      BY <1>1 DEF Pending
    <2>2. WakeInv' = (~conn'.closed =>
              /\ Readable(sock') /\ ~sock'.queued => pc' = "read" /\ "R" \in event'
              /\ pc' = "read" /\ "R" \in event' => Readable(sock')
              /\ Pending' => "W" \in sock'.interest \/ pc' \in Busy
              /\ Pending' /\ Writable(sock') /\ ~sock'.queued =>
                    pc' \in Busy \/ (pc' \in {"read", "write", "flush"} /\ "W" \in event'))
      BY DEF WakeInv, Busy, Readable, Writable
    <2> QED  BY <1>0, <1>1, <1>2, <1>5, <2>1, <2>2 DEF WakeInv
  <1> QED  BY <1>3, <1>4, <1>6 DEF BaseInv

LEMMA ClientCloseBase == ASSUME BaseInv, ClientClose PROVE BaseInv'
  <1>0. DataType /\ PlaceInv /\ WakeInv
    BY DEF BaseInv
  <1>1. /\ program' = program /\ eager' = eager /\ sent' = sent /\ received' = received
        /\ conn' = conn /\ disk' = disk /\ pc' = pc /\ ret' = ret /\ event' = event
    BY DEF ClientClose
  <1>2. /\ sock' \in Sock /\ sock'.queued
        /\ sock'.inbox = sock.inbox /\ sock'.outbox = sock.outbox
        /\ sock'.interest = sock.interest
    BY <1>0, ClientCloseIs
  <1>3. DataType'
    BY <1>0, <1>1, <1>2, DataKept DEF DataType, WorldType
  <1>4. PlaceInv'
    BY <1>0, <1>1 DEF PlaceInv
  <1>5. WakeInv'
    <2>1. sock'.eof
      BY <1>0 DEF ClientClose, DataType, Sock, Edge
    <2>2. Readable(sock')
      BY <2>1 DEF Readable
    <2> QED  BY <1>0, <1>1, <1>2, <2>2 DEF WakeInv, Pending, Readable, Writable
  <1> QED  BY <1>3, <1>4, <1>5 DEF BaseInv

LEMMA PollBase == ASSUME BaseInv, Poll PROVE BaseInv'
  <1>0. DataType /\ PlaceInv /\ WakeInv
    BY DEF BaseInv
  <1>1. /\ KeepClient /\ conn' = conn /\ disk' = disk /\ ret' = ret /\ pc = "wait"
        /\ pc' = IF event' = {} THEN "wait" ELSE "read"
        /\ event' = sock.interest \cap ((IF Readable(sock) THEN {"R"} ELSE {}) \cup
                                        (IF Writable(sock) THEN {"W"} ELSE {}))
    BY DEF Poll
  <1>2. /\ sock' \in Sock /\ ~sock'.queued /\ "R" \in sock.interest
        /\ sock'.inbox = sock.inbox /\ sock'.outbox = sock.outbox /\ sock'.eof = sock.eof
        /\ sock'.interest = sock.interest
    BY <1>0 DEF Poll, DataType, Sock
  <1>3. event' \subseteq {"R", "W"}
    BY <1>1
  <1>4. DataType'
    BY <1>0, <1>1, <1>2, <1>3, WorldSame DEF DataType, WorldType
  <1>5. PlaceInv'
    BY <1>0, <1>1 DEF PlaceInv
  <1>6. WakeInv'
    <2>1. /\ Readable(sock') = Readable(sock) /\ Writable(sock') = Writable(sock)
          /\ Pending' = Pending /\ conn'.closed = conn.closed
      BY <1>1, <1>2 DEF Readable, Writable, Pending
    <2>2. /\ Readable(sock) <=> "R" \in event'
          /\ Writable(sock) /\ "W" \in sock.interest => "W" \in event'
      BY <1>1, <1>2
    <2>3. pc \notin Busy
      BY <1>1 DEF Busy
    <2> QED  BY <1>0, <1>1, <1>2, <2>1, <2>2, <2>3 DEF WakeInv, Readable, Writable
  <1> QED  BY <1>4, <1>5, <1>6 DEF BaseInv

(* The handler's steps that only move on.                                  *)
LEMMA MoveOnBase ==
    ASSUME BaseInv, SkipRead \/ SkipWrite \/ Lifecycle
    PROVE  BaseInv'
  <1>0. DataType /\ PlaceInv /\ WakeInv
    BY DEF BaseInv
  <1>1. /\ KeepClient /\ conn' = conn /\ sock' = sock /\ disk' = disk /\ ret' = ret
        /\ event' = event
        /\ \/ pc = "read" /\ (conn.closed \/ "R" \notin event) /\ pc' = "write"
           \/ pc = "write" /\ "W" \notin event /\ pc' = "lifecycle"
           \/ pc = "lifecycle" /\ pc' \in {"gone", "wait"}
    BY DEF SkipRead, SkipWrite, Lifecycle
  <1>2. DataType'
    BY <1>0, <1>1, WorldSame DEF DataType, WorldType
  <1>3. PlaceInv'
    BY <1>0, <1>1 DEF PlaceInv
  <1>4. WakeInv'
    BY <1>0, <1>1 DEF WakeInv, Pending, Readable, Writable, Busy
  <1> QED  BY <1>2, <1>3, <1>4 DEF BaseInv

LEMMA ReadPhaseBase == ASSUME BaseInv, ReadPhase PROVE BaseInv'
  <1>0. DataType /\ PlaceInv /\ WakeInv
    BY DEF BaseInv
  <1>1. /\ KeepClient /\ disk' = disk /\ event' = event /\ ret' = "write"
        /\ pc = "read" /\ ~conn.closed /\ "R" \in event
        /\ pc' = IF ~conn'.closed /\ conn'.buffer # <<>> THEN "request" ELSE "write"
    BY DEF ReadPhase
  <1>2. /\ conn' \in Conn /\ sock' \in Sock
        /\ UnitsRead \in 0 .. Len(sock.inbox)
        /\ sock.inbox # <<>> => UnitsRead # 0
        /\ conn'.buffer = conn.buffer \o SubSeq(sock.inbox, 1, UnitsRead)
        /\ conn'.closed = SeesEof
        /\ conn'.state = conn.state /\ conn'.request = conn.request
        /\ conn'.action = conn.action /\ conn'.file = conn.file
        /\ conn'.write_buffer = conn.write_buffer
        /\ sock'.outbox = sock.outbox
        /\ Readable(sock') => sock'.queued
    BY <1>0, ReadPhaseIs
  <1>3. DataType'
    BY <1>0, <1>1, <1>2, WorldSame DEF DataType, WorldType
  <1>4. PlaceInv'
    BY <1>0, <1>1, <1>2 DEF PlaceInv
  <1>5. ASSUME ~conn'.closed PROVE conn'.buffer # <<>>
    <2>1. Readable(sock)
      BY <1>0, <1>1 DEF WakeInv
    <2>2. /\ sock.inbox \in Seq(Unit) /\ conn.buffer \in Seq(Unit)
          /\ Len(sock.inbox) \in Nat /\ Len(conn.buffer) \in Nat
          /\ ReadLimit \in Nat \ {0}
      BY <1>0, Lengths DEF DataType, Conn, Sock
    <2>3. CASE sock.inbox # <<>>
      <3> DEFINE a == SubSeq(sock.inbox, 1, UnitsRead)
      <3>1. \A i \in 1 .. UnitsRead : sock.inbox[i] \in Unit
        BY <1>2, <2>2, ElementOfSeq
      <3>2. UnitsRead \in Nat \ {0}
        BY <1>2, <2>2, <2>3
      <3>3. a \in Seq(Unit) /\ Len(a) = UnitsRead
        BY <3>1, <3>2, SubSeqProperties
      <3> HIDE DEF a
      <3>4. Len(conn.buffer \o a) = Len(conn.buffer) + UnitsRead
            /\ conn.buffer \o a \in Seq(Unit)
        BY <2>2, <3>3, ConcatProperties
      <3>5. conn.buffer \o a # <<>>
        BY <2>2, <3>2, <3>4
      <3> QED  BY <1>2, <3>5 DEF a
    <2>4. CASE sock.inbox = <<>>
      <3>1. sock.eof /\ Len(sock.inbox) = 0
        BY <2>1, <2>4 DEF Readable
      <3>2. Len(conn.buffer) # 0
        <4>1. ~SeesEof
          BY <1>2, <1>5
        <4>2. ~(Len(conn.buffer) + Len(sock.inbox) < ReadLimit)
          BY <3>1, <4>1 DEF SeesEof
        <4> QED  BY <2>2, <3>1, <4>2
      <3>3. UnitsRead = 0
        BY <1>2, <3>1
      <3>4. conn'.buffer = conn.buffer
        BY <1>2, <2>2, <3>3, SubSeqEmpty, ConcatEmptySeq
      <3> QED  BY <3>2, <3>4
    <2> QED  BY <2>3, <2>4
  <1>6. WakeInv'
    BY <1>1, <1>2, <1>5 DEF WakeInv, Busy, Readable, Writable
  <1> QED  BY <1>3, <1>4, <1>6 DEF BaseInv

LEMMA RefillBase == ASSUME BaseInv, Refill PROVE BaseInv'
  <1>0. DataType /\ PlaceInv /\ WakeInv
    BY DEF BaseInv
  <1>1. /\ KeepClient /\ sock' = sock /\ disk' = disk /\ event' = event /\ ret' = ret
        /\ pc = "write" /\ "W" \in event /\ pc' = "flush"
    BY DEF Refill
  <1>2. /\ conn' \in Conn
        /\ conn'.buffer = conn.buffer /\ conn'.state = conn.state
        /\ conn'.request = conn.request /\ conn'.file = conn.file
        /\ conn.closed => conn'.closed
        /\ \/ conn'.action = conn.action /\ conn'.write_buffer = conn.write_buffer
           \/ /\ conn.action = "FileDownload"
              /\ \/ conn'.action = "None" /\ conn'.write_buffer = <<>>
                 \/ conn'.action = "FileDownload"
    BY <1>0, RefillIs
  <1>3. DataType'
    BY <1>0, <1>1, <1>2, WorldSame DEF DataType, WorldType
  <1>4. PlaceInv'
    BY <1>0, <1>1, <1>2 DEF PlaceInv
  <1>5. Pending' => Pending
    BY <1>2 DEF Pending
  <1>6. WakeInv'
    BY <1>0, <1>1, <1>2, <1>5 DEF WakeInv, Readable, Writable, Busy
  <1> QED  BY <1>3, <1>4, <1>6 DEF BaseInv

LEMMA FlushBase == ASSUME BaseInv, Flush PROVE BaseInv'
  <1>0. DataType /\ PlaceInv /\ WakeInv
    BY DEF BaseInv
  <1>1. /\ KeepClient /\ disk' = disk /\ event' = event /\ ret' = ret /\ pc = "flush"
        /\ pc' = IF ~conn.closed /\ conn'.write_buffer = <<>> THEN "post" ELSE "lifecycle"
    BY DEF Flush
  <1>2. /\ conn' \in Conn /\ sock' \in Sock /\ Len(sock'.outbox) <= SendBuffer
        /\ conn'.write_buffer # <<>> => ~Writable(sock')
        /\ conn'.write_buffer # <<>> => conn.write_buffer # <<>>
        /\ sock'.inbox = sock.inbox /\ sock'.eof = sock.eof
        /\ sock'.interest = sock.interest /\ sock'.queued = sock.queued
        /\ conn'.buffer = conn.buffer /\ conn'.closed = conn.closed
        /\ conn'.state = conn.state /\ conn'.request = conn.request
        /\ conn'.action = conn.action /\ conn'.file = conn.file
    <2>1. PICK n \in 0 .. Len(conn.write_buffer) :
        /\ conn' \in Conn /\ sock' \in Sock /\ Len(sock'.outbox) <= SendBuffer
        /\ n < Len(conn.write_buffer) => ~Writable(sock')
        /\ conn'.write_buffer # <<>> => n < Len(conn.write_buffer)
        /\ sock'.inbox = sock.inbox /\ sock'.eof = sock.eof
        /\ sock'.interest = sock.interest /\ sock'.queued = sock.queued
        /\ conn'.buffer = conn.buffer /\ conn'.closed = conn.closed
        /\ conn'.state = conn.state /\ conn'.request = conn.request
        /\ conn'.action = conn.action /\ conn'.file = conn.file
      BY <1>0, FlushIs
    <2>2. n < Len(conn.write_buffer) => conn.write_buffer # <<>>
      BY <2>1
    <2> QED  BY <2>1, <2>2
  <1>3. DataType'
    BY <1>0, <1>1, <1>2, WorldSame DEF DataType, WorldType
  <1>4. PlaceInv'
    BY <1>0, <1>1, <1>2 DEF PlaceInv
  <1>5. WakeInv'
    <2>1. Readable(sock') = Readable(sock)
      BY <1>2 DEF Readable
    <2>2. ASSUME ~conn'.closed, pc' # "post"
          PROVE  Pending /\ ~Writable(sock')
      BY <1>1, <1>2, <2>2 DEF Pending
    <2>3. pc' = "post" => pc' \in Busy
      BY DEF Busy
    <2>4. pc \notin Busy
      BY <1>1 DEF Busy
    <2> QED  BY <1>0, <1>1, <1>2, <2>1, <2>2, <2>3, <2>4 DEF WakeInv, Readable, Writable
  <1> QED  BY <1>3, <1>4, <1>5 DEF BaseInv

LEMMA PostWriteBase == ASSUME BaseInv, PostWrite PROVE BaseInv'
  <1>0. DataType /\ PlaceInv /\ WakeInv
    BY DEF BaseInv
  <1>1. /\ KeepClient /\ disk' = disk /\ event' = event /\ ret' = "lifecycle" /\ pc = "post"
        /\ pc' = IF conn.buffer # <<>> /\ conn.state = "RequestLine"
                 THEN "request" ELSE "lifecycle"
    BY DEF PostWrite
  <1>2. /\ conn' \in Conn /\ sock' \in Sock
        /\ conn'.buffer = conn.buffer /\ conn'.state = conn.state
        /\ conn'.request = conn.request
        /\ conn'.action = conn.action /\ conn'.file = conn.file
        /\ conn'.write_buffer = conn.write_buffer /\ conn'.closed = conn.closed
        /\ sock'.outbox = sock.outbox
        /\ Readable(sock') => sock'.queued
        /\ conn.action = "FileDownload" =>
              "W" \in sock'.interest /\ (Writable(sock') => sock'.queued)
    BY <1>0, PostWriteIs
  <1>3. DataType'
    BY <1>0, <1>1, <1>2, WorldSame DEF DataType, WorldType
  <1>4. PlaceInv'
    BY <1>0, <1>1, <1>2 DEF PlaceInv
  <1>5. WakeInv'
    <2>1. Pending' => conn.action = "FileDownload"
      BY <1>0, <1>1, <1>2 DEF PlaceInv, Pending
    <2> QED  BY <1>1, <1>2, <2>1 DEF WakeInv, Readable, Writable
  <1> QED  BY <1>3, <1>4, <1>5 DEF BaseInv

(* The steps of a request leave the socket alone and stay busy.            *)
LEMMA BusyWake ==
    ASSUME WakeInv, pc \in Busy, pc' \in Busy, sock' = sock, conn.closed => conn'.closed
    PROVE  WakeInv'
  BY DEF WakeInv, Busy, Readable, Writable

LEMMA ParseBase ==
    ASSUME BaseInv, Page \/ Bare \/ FileDownload \/ Upload("upload", "Body")
                    \/ Upload("chunked", "ChunkedBody") \/ Bad
    PROVE  BaseInv'
  <1>0. DataType /\ PlaceInv /\ WakeInv
    BY DEF BaseInv
  <1>1. /\ KeepClient /\ sock' = sock /\ ret' = ret /\ event' = event /\ disk' = disk
        /\ pc = "request" /\ conn.state = "RequestLine"
    BY DEF Page, Bare, FileDownload, Upload, Bad, KeepWorld, ParseHead
  <1>2. /\ conn' \in Conn /\ conn'.request # Nobody
        /\ \/ /\ pc' = "finish" /\ conn'.closed = conn.closed /\ conn'.state = "RequestLine"
              /\ \/ conn'.action = conn.action /\ conn'.file = conn.file
                 \/ conn'.file = conn'.request
           \/ /\ pc' = "request" /\ conn'.closed = conn.closed
              /\ conn'.state \in {"Body", "ChunkedBody"} /\ conn'.action = "Upload"
           \/ /\ pc' = "rearm" /\ conn'.closed /\ conn'.state = "RequestLine"
              /\ conn'.action = conn.action /\ conn'.file = conn.file
    <2>1. CASE Page
      <3>1. pc' = "finish"
        BY <2>1 DEF Page
      <3> QED  BY <1>0, <1>1, <2>1, <3>1, PageIs DEF Nobody
    <2>2. CASE FileDownload
      <3>1. pc' = "finish"
        BY <2>2 DEF FileDownload
      <3> QED  BY <1>0, <1>1, <2>2, <3>1, FileDownloadIs DEF Nobody
    <2>3. ASSUME NEW kind, NEW body \in {"Body", "ChunkedBody"}, Upload(kind, body)
          PROVE  /\ conn' \in Conn /\ conn'.request # Nobody
                 /\ pc' = "request" /\ conn'.closed = conn.closed
                 /\ conn'.state \in {"Body", "ChunkedBody"} /\ conn'.action = "Upload"
      <3>1. pc' = "request"
        BY <2>3 DEF Upload
      <3> QED  BY <1>0, <2>3, <3>1, UploadIs DEF Nobody
    <2>4. CASE Bad
      <3>1. pc' = "rearm"
        BY <2>4 DEF Bad
      <3> QED  BY <1>0, <2>4, <3>1, BadIs DEF Nobody
    <2>5. CASE Bare
      <3>1. pc' = "finish"
        BY <2>5 DEF Bare
      <3> QED  BY <1>0, <1>1, <2>5, <3>1, BareIs DEF Nobody
    <2> QED  BY <2>1, <2>2, <2>3, <2>4, <2>5
  <1>3. DataType'
    BY <1>0, <1>1, <1>2, WorldSame DEF DataType, WorldType
  <1>4. PlaceInv'
    BY <1>0, <1>1, <1>2 DEF PlaceInv
  <1>5. WakeInv'
    <2>1. ~conn.closed
      BY <1>0, <1>1 DEF PlaceInv
    <2>2. pc \in Busy /\ pc' \in Busy
      BY <1>1, <1>2 DEF Busy
    <2> QED  BY <1>0, <1>1, <2>1, <2>2, BusyWake
  <1> QED  BY <1>3, <1>4, <1>5 DEF BaseInv

LEMMA BodyBase ==
    ASSUME BaseInv, Body \/ BodyNotStored \/ ChunkedBody \/ ChunkRefused
    PROVE  BaseInv'
  <1>0. DataType /\ PlaceInv /\ WakeInv
    BY DEF BaseInv
  <1>1. /\ KeepClient /\ sock' = sock /\ ret' = ret /\ event' = event
        /\ pc = "request" /\ conn.state # "RequestLine"
    BY DEF Body, BodyNotStored, ChunkedBody, ChunkRefused, KeepWorld
  <1>2. /\ conn' \in Conn /\ conn'.request = conn.request /\ conn.request \in 1 .. N
        /\ DOMAIN disk' \subseteq 1 .. N
        /\ conn'.action = conn.action /\ conn'.file = conn.file
        /\ \/ pc' = "finish" /\ conn'.state = "Complete" /\ conn'.closed = conn.closed
           \/ /\ pc' = "rearm" /\ conn'.state \in {"Body", "ChunkedBody"}
              /\ conn'.closed = conn.closed
           \/ pc' = "rearm" /\ conn'.state = "RequestLine" /\ conn'.closed
    <2>1. CASE Body
      <3>1. pc' = IF Whole THEN "finish" ELSE "rearm"
        BY <2>1 DEF Body, AfterBody
      <3> QED  BY <1>0, <2>1, <3>1, BodyIs
    <2>2. CASE BodyNotStored
      <3>1. pc' = "rearm" /\ disk' = disk
        BY <2>2 DEF BodyNotStored
      <3> QED  BY <1>0, <2>2, <3>1, BodyNotStoredIs DEF DataType, WorldType
    <2>3. CASE ChunkedBody
      <3>1. pc' = IF Whole THEN "finish" ELSE "rearm"
        BY <2>3 DEF ChunkedBody, AfterBody
      <3> QED  BY <1>0, <2>3, <3>1, ChunkedBodyIs
    <2>4. CASE ChunkRefused
      <3>1. pc' = "rearm" /\ disk' = disk
        BY <2>4 DEF ChunkRefused
      <3> QED  BY <1>0, <2>4, <3>1, ChunkRefusedIs DEF DataType, WorldType
    <2> QED  BY <2>1, <2>2, <2>3, <2>4
  <1>3. DataType'
    BY <1>0, <1>1, <1>2, WorldSame DEF DataType, WorldType
  <1>4. PlaceInv'
    BY <1>0, <1>1, <1>2 DEF PlaceInv, Nobody
  <1>5. WakeInv'
    <2>1. ~conn.closed
      BY <1>0, <1>1 DEF PlaceInv
    <2>2. pc \in Busy /\ pc' \in Busy
      BY <1>1, <1>2 DEF Busy
    <2> QED  BY <1>0, <1>1, <2>1, <2>2, BusyWake
  <1> QED  BY <1>3, <1>4, <1>5 DEF BaseInv

LEMMA FinishBase == ASSUME BaseInv, Finish PROVE BaseInv'
  <1>0. DataType /\ PlaceInv /\ WakeInv
    BY DEF BaseInv
  <1>1. /\ KeepClient /\ sock' = sock /\ ret' = ret /\ event' = event /\ disk' = disk
        /\ pc = "finish" /\ pc' = "rearm"
    BY DEF Finish, KeepWorld
  <1>2. /\ conn' \in Conn /\ conn'.state = "RequestLine" /\ conn'.request = conn.request
        /\ conn'.action = conn.action /\ conn'.file = conn.file /\ conn'.closed = conn.closed
    BY <1>0, FinishIs
  <1>3. DataType'
    BY <1>0, <1>1, <1>2, WorldSame DEF DataType, WorldType
  <1>4. PlaceInv'
    BY <1>0, <1>1, <1>2 DEF PlaceInv
  <1>5. WakeInv'
    BY <1>0, <1>1, <1>2, BusyWake DEF Busy
  <1> QED  BY <1>3, <1>4, <1>5 DEF BaseInv

LEMMA RearmBase == ASSUME BaseInv, Rearm PROVE BaseInv'
  <1>0. DataType /\ PlaceInv /\ WakeInv
    BY DEF BaseInv
  <1>1. /\ KeepClient /\ conn' = conn /\ ret' = ret /\ event' = event /\ disk' = disk
        /\ pc = "rearm" /\ pc' = ret /\ ret \in {"write", "lifecycle"}
    BY <1>0 DEF Rearm, DataType, WorldType
  <1>2. /\ sock' \in Sock
        /\ sock'.inbox = sock.inbox /\ sock'.outbox = sock.outbox /\ sock'.eof = sock.eof
        /\ sock.queued => sock'.queued
        /\ Pending => /\ Readable(sock') => sock'.queued
                      /\ "W" \in sock'.interest
                      /\ Writable(sock') => sock'.queued
    BY <1>0, RearmIs
  <1>3. DataType'
    BY <1>0, <1>1, <1>2, WorldSame DEF DataType, WorldType
  <1>4. PlaceInv'
    BY <1>0, <1>1 DEF PlaceInv
  <1>5. WakeInv'
    <2>1. Readable(sock') = Readable(sock) /\ Pending' = Pending
      BY <1>1, <1>2 DEF Readable, Pending
    <2> QED  BY <1>0, <1>1, <1>2, <2>1 DEF WakeInv, Readable, Writable
  <1> QED  BY <1>3, <1>4, <1>5 DEF BaseInv

LEMMA BaseStep == ASSUME BaseInv, [Next]_vars PROVE BaseInv'
  <1>1. CASE Client
    BY <1>1, ClientSendBase, ClientReceiveBase, ClientCloseBase DEF Client
  <1>2. CASE Request
    BY <1>2, ParseBase, BodyBase, FinishBase, RearmBase DEF Request
  <1>3. CASE Handler /\ ~Request
    BY <1>3, PollBase, MoveOnBase, ReadPhaseBase, RefillBase, FlushBase, PostWriteBase
       DEF Handler
  <1>4. CASE UNCHANGED vars
    <2>1. DataType'
      BY <1>4, SameProgram DEF vars, BaseInv, DataType, WorldType
    <2> QED  BY <1>4, <2>1 DEF vars, BaseInv, PlaceInv, WakeInv, Pending, Readable, Writable
  <1> QED  BY <1>1, <1>2, <1>3, <1>4 DEF Next

(* Whatever the client sends, the handler keeps the types, what each of    *)
(* its places relies on, and an edge for all that is left to read or       *)
(* write: the invariant that the other theorems start from.                *)
THEOREM BaseAlways == Spec => []BaseInv
  <1>1. Init => BaseInv
    BY BaseInit
  <1>2. BaseInv /\ [Next]_vars => BaseInv'
    BY BaseStep
  <1> QED  BY <1>1, <1>2, PTL DEF Spec

(* The type invariant of the connection: whatever the client sends, and    *)
(* in whatever order, the states of the parser, the action and the request *)
(* numbers that handle_connection leaves are ones its next step knows, and *)
(* the kernel's buffer is never overrun.                                   *)
THEOREM TypeCorrect == Spec => []TypeOK
  <1>1. BaseInv => TypeOK
    <2> SUFFICES ASSUME BaseInv PROVE TypeOK
      OBVIOUS
    <2>1. conn \in Conn /\ sock \in Sock /\ WorldType /\ N \in Nat
      BY Lengths DEF BaseInv, DataType
    <2>2. 0 .. N = (1 .. N) \cup {Nobody}
      BY <2>1 DEF Nobody
    <2>3. /\ conn.state \in {"RequestLine", "Body", "ChunkedBody", "Complete"}
          /\ conn.action \in {"None", "FileDownload", "Upload"}
          /\ conn.left \in 0 .. FileChunks
          /\ conn.request \in 0 .. N /\ conn.file \in 0 .. N
          /\ conn.upload_manager \in 0 .. N /\ conn.response \in 0 .. N
      BY <2>1 DEF Conn
    <2>4. /\ DOMAIN disk \subseteq 1 .. N /\ Len(sock.outbox) <= SendBuffer
          /\ sock.interest \subseteq {"R", "W"} /\ sock.interest # {}
      BY <2>1 DEF Sock, WorldType
    <2> QED  BY <2>2, <2>3, <2>4 DEF TypeOK, N
  <1> QED  BY <1>1, BaseAlways, PTL

-----------------------------------------------------------------------------
(* What an orderly client sends: a head for each request, and the body of  *)
(* the last one when that is an upload.                                    *)

Beginning(n) == FlattenSeq([i \in 1 .. n |-> RequestUnits(i)])
Uploads == N # 0 /\ program[N] = "upload"

LEMMA BeginningGrows ==
    ASSUME program \in Seq(Kind), NEW n \in 0 .. N
    PROVE  /\ Beginning(n) \in Seq(Unit)
           /\ n < N => Beginning(n + 1) = Beginning(n) \o RequestUnits(n + 1)
  <1>1. N \in Nat
    BY LenProperties DEF N
  <1> DEFINE q == [i \in 1 .. n |-> RequestUnits(i)]
             r == [i \in 1 .. n + 1 |-> RequestUnits(i)]
  <1>2. Beginning(n) = FlattenSeq(q) /\ Beginning(n + 1) = FlattenSeq(r)
    BY DEF Beginning
  <1>3. q \in Seq(Seq(Unit))
    <2>1. \A i \in 1 .. n : RequestUnits(i) \in Seq(Unit)
      BY <1>1, RequestUnitsType
    <2>2. n \in Nat
      BY <1>1
    <2> QED  BY <2>1, <2>2
  <1>4. ASSUME n < N
        PROVE  Beginning(n + 1) = Beginning(n) \o RequestUnits(n + 1)
    <2>1. \A i \in 1 .. n + 1 : RequestUnits(i) \in Seq(Unit)
      BY <1>1, <1>4, RequestUnitsType
    <2>2. n \in Nat /\ n + 1 \in 1 .. n + 1
      BY <1>1
    <2>3. r \in [1 .. n + 1 -> Seq(Unit)] /\ r[n + 1] = RequestUnits(n + 1)
      BY <2>1, <2>2
    <2>4. q = [i \in 1 .. n |-> r[i]]
      BY <2>2
    <2> HIDE DEF q, r
    <2>5. FlattenSeq(r) = FlattenSeq(q) \o r[n + 1]
      BY <2>2, <2>3, <2>4, FlattenGrows
    <2> QED  BY <1>2, <2>3, <2>5
  <1> HIDE DEF q
  <1> QED  BY <1>2, <1>3, <1>4, FlattenType

(* Requests without a body are sent as their heads.                        *)
LEMMA HeadsOnly ==
    ASSUME program \in Seq(Kind), NEW n \in 0 .. N,
           \A i \in 1 .. n : program[i] \notin {"upload", "chunked"}
    PROVE  Len(Beginning(n)) = n /\ \A i \in 1 .. n : Beginning(n)[i] = <<i, "head">>
  <1>0. N \in Nat
    BY LenProperties DEF N
  <1> DEFINE Heads(m) == Len(Beginning(m)) = m /\ \A i \in 1 .. m : Beginning(m)[i] = <<i, "head">>
             A == {m \in Nat : m <= n => Heads(m)}
  <1>1. 0 \in A
    <2>1. [i \in 1 .. 0 |-> RequestUnits(i)] = <<>>
      OBVIOUS
    <2>2. Beginning(0) = <<>>
      BY <2>1, FlattenEmpty DEF Beginning
    <2>3. Heads(0)
      BY <2>2
    <2> QED  BY <2>3
  <1>2. ASSUME NEW m \in Nat, m \in A
        PROVE  m + 1 \in A
    <2>1. SUFFICES ASSUME m + 1 <= n
                   PROVE  Heads(m + 1)
      OBVIOUS
    <2>2. m \in 0 .. N /\ m < N /\ m + 1 \in 1 .. n /\ m <= n /\ m + 1 \in 1 .. N
      BY <1>0, <2>1
    <2>3. Heads(m)
      BY <1>2, <2>2
    <2> DEFINE b == Beginning(m)
               h == RequestUnits(m + 1)
    <2>4. b \in Seq(Unit) /\ Beginning(m + 1) = b \o h /\ h \in Seq(Unit)
      BY <2>2, BeginningGrows, RequestUnitsType
    <2>5. h = <<<<m + 1, "head">>>>
      BY <2>2 DEF RequestUnits
    <2>6. Len(b) = m /\ \A i \in 1 .. m : b[i] = <<i, "head">>
      BY <2>3
    <2> HIDE DEF b, h
    <2>7. Len(h) = 1 /\ h[1] = <<m + 1, "head">>
      BY <2>5
    <2>8. /\ Len(b \o h) = m + 1
          /\ \A i \in 1 .. m : (b \o h)[i] = b[i]
          /\ (b \o h)[m + 1] = h[1]
      <3>1. /\ Len(b \o h) = Len(b) + Len(h)
            /\ \A i \in 1 .. Len(b) : (b \o h)[i] = b[i]
            /\ \A i \in 1 .. Len(h) : (b \o h)[Len(b) + i] = h[i]
        BY <2>4, ConcatBegins
      <3>2. 1 \in 1 .. Len(h)
        BY <2>7
      <3> QED  BY <2>6, <2>7, <3>1, <3>2
    <2>9. \A i \in 1 .. m + 1 : i = m + 1 \/ i \in 1 .. m
      OBVIOUS
    <2>10. \A i \in 1 .. m + 1 : (b \o h)[i] = <<i, "head">>
      BY <2>6, <2>7, <2>8, <2>9
    <2> QED  BY <2>4, <2>8, <2>10
  <1> HIDE DEF A
  <1>3. n \in A
    BY <1>0, <1>1, <1>2, NatSetInduction
  <1>4. n <= n
    BY <1>0
  <1>5. Heads(n)
    BY <1>3, <1>4 DEF A
  <1> QED  BY <1>5

LEMMA OrderlyWire ==
    ASSUME DataType, Orderly
    PROVE  /\ Len(Wire) = IF Uploads THEN N + 2 ELSE N
           /\ \A i \in 1 .. N : Wire[i] = <<i, "head">>
           /\ Uploads => Wire[N + 1] = <<N, "data">> /\ Wire[N + 2] = <<N, "last">>
  <1>0. N \in Nat /\ program \in Seq(Kind) /\ Wire = Beginning(N)
    BY Lengths DEF DataType, WorldType, Wire, Beginning, N
  <1>1. /\ \A i \in 1 .. N : program[i] # "chunked"
        /\ \A i \in 1 .. N - 1 : program[i] \notin {"upload", "chunked"}
    BY <1>0 DEF Orderly, N
  <1>2. CASE ~Uploads
    <2>1. \A i \in 1 .. N : program[i] \notin {"upload", "chunked"}
      <3>1. \A i \in 1 .. N : i = N \/ i \in 1 .. N - 1
        BY <1>0
      <3>2. N # 0 => program[N] # "upload"
        BY <1>2 DEF Uploads
      <3> QED  BY <1>0, <1>1, <3>1, <3>2
    <2>2. N \in 0 .. N
      BY <1>0
    <2> QED  BY <1>0, <1>2, <2>1, <2>2, HeadsOnly
  <1>3. CASE Uploads
    <2> DEFINE m == N - 1
               b == Beginning(m)
               h == RequestUnits(N)
    <2>1. m \in 0 .. N /\ m < N /\ m + 1 = N /\ N \in 1 .. N
      BY <1>0, <1>3 DEF Uploads
    <2>2. Len(b) = m /\ \A i \in 1 .. m : b[i] = <<i, "head">>
      BY <1>0, <1>1, <2>1, HeadsOnly
    <2>3. h = <<<<N, "head">>, <<N, "data">>, <<N, "last">>>>
      BY <1>3 DEF RequestUnits, Uploads
    <2>4. Beginning(m + 1) = b \o RequestUnits(m + 1) /\ b \in Seq(Unit) /\ h \in Seq(Unit)
      BY <1>0, <2>1, BeginningGrows, RequestUnitsType
    <2>5. Wire = b \o h
      BY <1>0, <2>1, <2>4
    <2> HIDE DEF b, h
    <2>6. Len(h) = 3 /\ h[1] = <<N, "head">> /\ h[2] = <<N, "data">> /\ h[3] = <<N, "last">>
      BY <2>3
    <2>7. /\ Len(b \o h) = m + 3
          /\ \A i \in 1 .. m : (b \o h)[i] = b[i]
          /\ \A i \in 1 .. 3 : (b \o h)[m + i] = h[i]
      <3>1. /\ Len(b \o h) = Len(b) + Len(h)
            /\ \A i \in 1 .. Len(b) : (b \o h)[i] = b[i]
            /\ \A i \in 1 .. Len(h) : (b \o h)[Len(b) + i] = h[i]
        BY <2>4, ConcatBegins
      <3> QED  BY <2>2, <2>6, <3>1
    <2>8. /\ Wire[m + 1] = <<N, "head">> /\ Wire[m + 2] = <<N, "data">>
          /\ Wire[m + 3] = <<N, "last">>
      <3>1. 1 \in 1 .. 3 /\ 2 \in 1 .. 3 /\ 3 \in 1 .. 3
        OBVIOUS
      <3>2. Wire[m + 1] = h[1] /\ Wire[m + 2] = h[2] /\ Wire[m + 3] = h[3]
        BY <2>5, <2>7, <3>1
      <3> QED  BY <2>6, <3>2
    <2>9. m + 2 = N + 1 /\ m + 3 = N + 2 /\ \A i \in 1 .. N : i = N \/ i \in 1 .. m
      BY <1>0
    <2>10. \A i \in 1 .. m : Wire[i] = <<i, "head">>
      BY <2>2, <2>5, <2>7
    <2> HIDE DEF m
    <2>11. \A i \in 1 .. N : Wire[i] = <<i, "head">>
      BY <2>1, <2>8, <2>9, <2>10
    <2>12. Len(Wire) = N + 2
      BY <2>5, <2>7, <2>9
    <2> QED  BY <1>3, <2>8, <2>9, <2>11, <2>12
  <1> QED  BY <1>2, <1>3

-----------------------------------------------------------------------------
(* An orderly client's requests, from the wire to the answers.             *)

Waiting == conn.buffer \o sock.inbox
Taken == sent - Len(Waiting)

(* What waits for the handler is the end of what was sent.                 *)
WaitInv == Taken >= 0 /\ \A k \in 1 .. Len(Waiting) : Waiting[k] = Wire[Taken + k]

(* The parser is between two requests or in the body of the last.          *)
ParseInv ==
    /\ conn.state \in {"RequestLine", "Body", "Complete"}
    /\ conn.request < N => Taken = conn.request
    /\ conn.request = N => Taken >= N
    /\ conn.state # "RequestLine" => conn.request = N /\ Uploads /\ conn.action = "Upload"
    /\ conn.state = "Body" => Taken < Len(Wire)
    /\ conn.state = "Complete" => Taken = Len(Wire) /\ conn.upload_manager = N
    /\ conn.request = N /\ conn.state = "RequestLine" /\ ~conn.closed => Taken = Len(Wire)
    /\ conn.state = "Body" /\ ~conn.closed /\ pc # "request" => conn.buffer = <<>>
    /\ conn.state = "Body" => pc # "finish"
    /\ conn.upload_manager # Nobody => conn.upload_manager = N /\ conn.request = N /\ Uploads
    /\ pc = "finish" /\ conn.state = "RequestLine" => program[conn.request] \in {"page", "bare", "file"}

(* What was taken of the body of the upload is in its file.                *)
StoredInv ==
    /\ DOMAIN disk \subseteq {N}
    /\ N \in DOMAIN disk =>
          /\ conn.request = N /\ Uploads
          /\ disk[N] \in Seq(Unit) /\ Len(disk[N]) = Taken - N
          /\ \A k \in 1 .. Taken - N : disk[N][k] = Wire[N + k]
    /\ conn.state = "Body" /\ N \notin DOMAIN disk => Taken = N

(* What was shown to the client and what is left of the file on its way    *)
(* are the answers to the requests that were answered.                     *)
Shown == received \o sock.outbox \o conn.write_buffer
Rest ==
    IF conn.action = "FileDownload"
    THEN [k \in 1 .. conn.left |-> <<conn.file, "data", FileChunks - conn.left + k>>]
    ELSE <<>>
Answered == IF conn.state = "RequestLine" THEN conn.request ELSE conn.request - 1
ShownInv == Shown \o Rest = Answers(Answered)

(* A client that waits sends no request before it has the answers to all   *)
(* earlier ones; one that does not asks for a file last; and a response    *)
(* that is kept is being written.                                          *)
SentInv == ~eager => \A i \in 1 .. N : i <= sent => Len(received) >= Len(Answers(i - 1))
FileInv ==
    /\ eager /\ conn.action = "FileDownload" => conn.request = N
    /\ conn.response # Nobody /\ ~conn.closed => conn.write_buffer # <<>> \/ pc = "post"

(* A body that is held is that of an earlier answer that has one.          *)
HeldInv ==
    conn.response # Nobody =>
        conn.response <= conn.request /\ program[conn.response] \notin {"bare", "file"}

(* What the handler leaves in the buffer waits for a write.                *)
KeptInv ==
    ~conn.closed /\ conn.buffer # <<>> /\ pc \notin {"request", "post", "flush"} => Pending

WireInv == WaitInv /\ ParseInv /\ StoredInv
AnswerInv == ShownInv /\ SentInv /\ FileInv /\ KeptInv
OrdInv == WireInv /\ AnswerInv /\ HeldInv

LEMMA UnitsAssociate ==
    ASSUME NEW a \in Seq(Unit), NEW b \in Seq(Unit), NEW c \in Seq(Unit)
    PROVE  (a \o b) \o c = a \o (b \o c)
  BY ConcatAssociative

LEMMA WaitingIs ==
    ASSUME DataType
    PROVE  /\ Waiting \in Seq(Unit) /\ Len(Waiting) \in Nat
           /\ Len(Waiting) = Len(conn.buffer) + Len(sock.inbox)
           /\ \A k \in 1 .. Len(conn.buffer) : Waiting[k] = conn.buffer[k]
           /\ \A k \in 1 .. Len(sock.inbox) : Waiting[Len(conn.buffer) + k] = sock.inbox[k]
           /\ sent \in Nat /\ sent <= Len(Wire) /\ Taken \in Int /\ Taken + Len(Waiting) = sent
  <1>1. conn.buffer \in Seq(Unit) /\ sock.inbox \in Seq(Unit)
    BY DEF DataType, Conn, Sock
  <1>2. /\ Waiting \in Seq(Unit)
        /\ Len(Waiting) = Len(conn.buffer) + Len(sock.inbox)
        /\ \A k \in 1 .. Len(conn.buffer) : Waiting[k] = conn.buffer[k]
        /\ \A k \in 1 .. Len(sock.inbox) : Waiting[Len(conn.buffer) + k] = sock.inbox[k]
    <2> DEFINE b == conn.buffer
               i == sock.inbox
    <2>1. b \in Seq(Unit) /\ i \in Seq(Unit) /\ Waiting = b \o i
      BY <1>1 DEF Waiting
    <2> HIDE DEF b, i
    <2>2. /\ b \o i \in Seq(Unit)
          /\ Len(b \o i) = Len(b) + Len(i)
          /\ \A k \in 1 .. Len(b) : (b \o i)[k] = b[k]
          /\ \A k \in 1 .. Len(i) : (b \o i)[Len(b) + k] = i[k]
      BY <2>1, ConcatBegins
    <2> QED  BY <2>1, <2>2 DEF b, i
  <1>3. sent \in Nat /\ sent <= Len(Wire)
    BY Lengths DEF DataType, WorldType
  <1>4. Len(Waiting) \in Nat
    BY <1>2, LenProperties
  <1>5. Taken \in Int /\ Taken + Len(Waiting) = sent
    BY <1>3, <1>4 DEF Taken
  <1> QED  BY <1>2, <1>3, <1>4, <1>5

LEMMA SameUploads == ASSUME program' = program PROVE Uploads' = Uploads /\ N' = N
  BY DEF Uploads, N

LEMMA TakenSame ==
    ASSUME sent' = sent, conn'.buffer = conn.buffer, sock'.inbox = sock.inbox
    PROVE  Waiting' = Waiting /\ Taken' = Taken
  BY DEF Taken, Waiting

(* Most steps leave alone what was sent, what waits and what was parsed.   *)
LEMMA WireQuiet ==
    ASSUME WireInv, program' = program, eager' = eager, sent' = sent, disk' = disk,
           conn'.buffer = conn.buffer, sock'.inbox = sock.inbox,
           conn'.state = conn.state, conn'.request = conn.request,
           conn'.upload_manager = conn.upload_manager, conn.closed => conn'.closed,
           conn'.action = conn.action \/ conn.action = "FileDownload",
           pc' = pc \/ (pc # "request" /\ pc' # "finish")
    PROVE  WireInv'
  <1>1. /\ Waiting' = Waiting /\ Taken' = Taken /\ Wire' = Wire /\ N' = N
        /\ Uploads' = Uploads /\ Unit' = Unit
    BY TakenSame, SameProgram, SameUploads
  <1>2. WaitInv'
    BY <1>1 DEF WireInv, WaitInv
  <1>3. ParseInv'
    BY <1>1 DEF WireInv, ParseInv
  <1>4. StoredInv'
    BY <1>1 DEF WireInv, StoredInv
  <1> QED  BY <1>2, <1>3, <1>4 DEF WireInv

LEMMA QuietWire ==
    ASSUME BaseInv, WireInv,
           \/ ClientReceive \/ ClientClose \/ Poll \/ SkipRead \/ SkipWrite \/ Refill
           \/ Flush \/ PostWrite \/ Lifecycle \/ Rearm
    PROVE  WireInv'
  <1>0. DataType /\ PlaceInv
    BY DEF BaseInv
  <1>1. CASE ClientReceive
    BY <1>0, <1>1, WireQuiet, ClientReceiveIs DEF ClientReceive
  <1>2. CASE ClientClose
    BY <1>0, <1>2, WireQuiet, ClientCloseIs DEF ClientClose
  <1>3. CASE Poll
    <2>1. sock'.inbox = sock.inbox /\ conn' = conn /\ disk' = disk /\ KeepClient
      BY <1>0, <1>3 DEF Poll, DataType, Sock
    <2>2. pc # "request" /\ pc' # "finish"
      BY <1>3 DEF Poll
    <2> QED  BY <2>1, <2>2, WireQuiet DEF KeepClient
  <1>4. CASE SkipRead \/ SkipWrite \/ Lifecycle
    <2>1. sock' = sock /\ conn' = conn /\ disk' = disk /\ KeepClient
      BY <1>4 DEF SkipRead, SkipWrite, Lifecycle
    <2>2. pc # "request" /\ pc' # "finish"
      BY <1>4 DEF SkipRead, SkipWrite, Lifecycle
    <2> QED  BY <2>1, <2>2, WireQuiet DEF KeepClient
  <1>5. CASE Refill
    <2>1. sock' = sock /\ disk' = disk /\ KeepClient /\ pc # "request" /\ pc' # "finish"
      BY <1>5 DEF Refill
    <2>2. /\ conn'.buffer = conn.buffer /\ conn'.state = conn.state
          /\ conn'.request = conn.request /\ conn'.upload_manager = conn.upload_manager
          /\ conn.closed => conn'.closed
          /\ conn'.action = conn.action \/ conn.action = "FileDownload"
      BY <1>0, <1>5, RefillIs
    <2> QED  BY <2>1, <2>2, WireQuiet DEF KeepClient
  <1>6. CASE Flush
    <2>1. disk' = disk /\ KeepClient /\ pc # "request" /\ pc' # "finish"
      BY <1>6 DEF Flush
    <2>2. /\ conn'.buffer = conn.buffer /\ conn'.state = conn.state
          /\ conn'.request = conn.request /\ conn'.upload_manager = conn.upload_manager
          /\ conn'.closed = conn.closed /\ conn'.action = conn.action
          /\ sock'.inbox = sock.inbox
      BY <1>0, <1>6, FlushIs
    <2> QED  BY <2>1, <2>2, WireQuiet DEF KeepClient
  <1>7. CASE PostWrite
    <2>1. disk' = disk /\ KeepClient /\ pc # "request" /\ pc' # "finish"
      BY <1>7 DEF PostWrite
    <2>2. /\ conn'.buffer = conn.buffer /\ conn'.state = conn.state
          /\ conn'.request = conn.request /\ conn'.upload_manager = conn.upload_manager
          /\ conn'.closed = conn.closed /\ conn'.action = conn.action
          /\ sock'.inbox = sock.inbox
      BY <1>0, <1>7, PostWriteIs
    <2> QED  BY <2>1, <2>2, WireQuiet DEF KeepClient
  <1>8. CASE Rearm
    <2>1. conn' = conn /\ disk' = disk /\ KeepClient /\ pc # "request" /\ pc' = ret
      BY <1>8 DEF Rearm
    <2>2. pc' # "finish" /\ sock'.inbox = sock.inbox
      BY <1>0, <1>8, <2>1, RearmIs DEF DataType, WorldType
    <2> QED  BY <2>1, <2>2, WireQuiet DEF KeepClient
  <1> QED  BY <1>1, <1>2, <1>3, <1>4, <1>5, <1>6, <1>7, <1>8

LEMMA ClientSendWire == ASSUME BaseInv, WireInv, ClientSend PROVE WireInv'
  <1>0. DataType
    BY DEF BaseInv
  <1>1. /\ program' = program /\ eager' = eager /\ sent' = sent + 1
        /\ conn' = conn /\ disk' = disk /\ pc' = pc
    BY DEF ClientSend
  <1> DEFINE u == Wire[sent + 1]
  <1>2. u \in Unit /\ sock'.inbox = Append(sock.inbox, u)
    BY <1>0, ClientSendIs
  <1>3. /\ Waiting \in Seq(Unit) /\ Len(Waiting) \in Nat /\ sent \in Nat
        /\ Taken \in Int /\ Taken + Len(Waiting) = sent
    BY <1>0, WaitingIs
  <1> HIDE DEF u
  <1>4. Waiting' = Append(Waiting, u)
    <2>1. conn.buffer \in Seq(Unit) /\ sock.inbox \in Seq(Unit) /\ <<u>> \in Seq(Unit)
      BY <1>0, <1>2 DEF DataType, Conn, Sock
    <2>2. Append(sock.inbox, u) = sock.inbox \o <<u>> /\ Append(Waiting, u) = Waiting \o <<u>>
      BY <1>2, <1>3, <2>1, AppendIsConcat
    <2>3. (conn.buffer \o sock.inbox) \o <<u>> = conn.buffer \o (sock.inbox \o <<u>>)
      BY <2>1, UnitsAssociate
    <2> QED  BY <1>1, <1>2, <2>2, <2>3 DEF Waiting
  <1>5. /\ Len(Waiting') = Len(Waiting) + 1
        /\ \A k \in 1 .. Len(Waiting) : Waiting'[k] = Waiting[k]
        /\ Waiting'[Len(Waiting) + 1] = u
    BY <1>2, <1>3, <1>4, AppendProperties
  <1>6. Taken' = Taken
    BY <1>1, <1>3, <1>5 DEF Taken
  <1>7. Wire' = Wire /\ N' = N /\ Uploads' = Uploads /\ Unit' = Unit
    BY <1>1, SameProgram, SameUploads
  <1>8. WaitInv'
    <2>1. \A k \in 1 .. Len(Waiting) + 1 : k = Len(Waiting) + 1 \/ k \in 1 .. Len(Waiting)
      BY <1>3
    <2>2. Taken + (Len(Waiting) + 1) = sent + 1
      BY <1>3
    <2>3. u = Wire[Taken + (Len(Waiting) + 1)]
      BY <2>2 DEF u
    <2>4. \A k \in 1 .. Len(Waiting) + 1 : Waiting'[k] = Wire[Taken + k]
      BY <1>5, <2>1, <2>3 DEF WireInv, WaitInv
    <2> QED  BY <1>5, <1>6, <1>7, <2>4 DEF WireInv, WaitInv
  <1>9. ParseInv'
    BY <1>1, <1>6, <1>7 DEF WireInv, ParseInv
  <1>10. StoredInv'
    BY <1>1, <1>6, <1>7 DEF WireInv, StoredInv
  <1> QED  BY <1>8, <1>9, <1>10 DEF WireInv

LEMMA ReadPhaseWaiting ==
    ASSUME DataType, ReadPhase
    PROVE  Waiting' = Waiting
  <1> DEFINE a == SubSeq(sock.inbox, 1, UnitsRead)
             b == SubSeq(sock.inbox, UnitsRead + 1, Len(sock.inbox))
  <1>1. /\ conn'.buffer = conn.buffer \o a /\ sock'.inbox = b
        /\ UnitsRead \in 0 .. Len(sock.inbox)
    BY ReadPhaseIs
  <1>2. /\ conn.buffer \in Seq(Unit) /\ sock.inbox \in Seq(Unit) /\ Len(sock.inbox) \in Nat
    BY Lengths DEF DataType, Conn, Sock
  <1>3. a \o b = SubSeq(sock.inbox, 1, Len(sock.inbox))
    <2>1. /\ 1 \in 1 .. Len(sock.inbox) + 1 /\ UnitsRead \in 1 - 1 .. Len(sock.inbox)
          /\ Len(sock.inbox) \in UnitsRead .. Len(sock.inbox)
      BY <1>1, <1>2
    <2> QED  BY <1>2, <2>1, ConcatAdjacentSubSeq
  <1>4. \A k \in 1 .. Len(sock.inbox) : sock.inbox[k] \in Unit
    BY <1>2, ElementOfSeq
  <1>5. a \in Seq(Unit)
    <2>1. \A k \in 1 .. UnitsRead : sock.inbox[k] \in Unit
      BY <1>1, <1>2, <1>4
    <2>2. UnitsRead \in Int
      BY <1>1, <1>2
    <2> QED  BY <2>1, <2>2, SubSeqProperties
  <1>6. b \in Seq(Unit)
    <2>1. \A k \in UnitsRead + 1 .. Len(sock.inbox) : sock.inbox[k] \in Unit
      BY <1>1, <1>2, <1>4
    <2>2. UnitsRead + 1 \in Int /\ Len(sock.inbox) \in Int
      BY <1>1, <1>2
    <2> QED  BY <2>1, <2>2, SubSeqProperties
  <1> HIDE DEF a, b
  <1>7. (conn.buffer \o a) \o b = conn.buffer \o (a \o b)
    BY <1>2, <1>5, <1>6, UnitsAssociate, ZenonT(60)
  <1> QED  BY <1>1, <1>2, <1>3, <1>7, SubSeqFull DEF Waiting

LEMMA ReadPhaseWire == ASSUME BaseInv, WireInv, ReadPhase PROVE WireInv'
  <1>0. DataType
    BY DEF BaseInv
  <1>1. /\ program' = program /\ eager' = eager /\ sent' = sent /\ disk' = disk
        /\ ~conn.closed
        /\ pc' = IF ~conn'.closed /\ conn'.buffer # <<>> THEN "request" ELSE "write"
    BY DEF ReadPhase, KeepClient
  <1>2. /\ conn'.state = conn.state /\ conn'.request = conn.request
        /\ conn'.upload_manager = conn.upload_manager /\ conn'.action = conn.action
    BY <1>0, ReadPhaseIs
  <1>3. Waiting' = Waiting /\ Taken' = Taken
    BY <1>0, <1>1, ReadPhaseWaiting DEF Taken
  <1>4. Wire' = Wire /\ N' = N /\ Uploads' = Uploads /\ Unit' = Unit
    BY <1>1, SameProgram, SameUploads
  <1>5. WaitInv'
    BY <1>3, <1>4 DEF WireInv, WaitInv
  <1>6. ParseInv'
    BY <1>1, <1>2, <1>3, <1>4 DEF WireInv, ParseInv
  <1>7. StoredInv'
    BY <1>1, <1>2, <1>3, <1>4 DEF WireInv, StoredInv
  <1> QED  BY <1>5, <1>6, <1>7 DEF WireInv

(* The head at the front of the buffer is that of the next request.        *)
LEMMA NextHead ==
    ASSUME DataType, Orderly, WireInv, conn.buffer # <<>>, conn.state = "RequestLine",
           ~conn.closed
    PROVE  /\ conn.request < N /\ Head(conn.buffer) = <<conn.request + 1, "head">>
           /\ conn.request + 1 \in 1 .. N /\ Taken = conn.request /\ conn.request + 1 <= sent
           /\ conn.upload_manager = Nobody
  <1>1. /\ N \in Nat /\ Len(Wire) \in Nat /\ conn.request \in 0 .. N
        /\ conn.buffer \in Seq(Unit) /\ Len(conn.buffer) \in Nat /\ Len(sock.inbox) \in Nat
    BY Lengths DEF DataType, Conn
  <1>2. Len(conn.buffer) >= 1
    BY <1>1, EmptySeq
  <1>3. /\ Len(Waiting) = Len(conn.buffer) + Len(sock.inbox)
        /\ \A k \in 1 .. Len(conn.buffer) : Waiting[k] = conn.buffer[k]
        /\ sent <= Len(Wire) /\ sent \in Nat /\ Taken \in Int /\ Taken + Len(Waiting) = sent
    BY WaitingIs
  <1> DEFINE b == Len(conn.buffer)
             i == Len(sock.inbox)
             w == Len(Waiting)
             l == Len(Wire)
  <1>4. Taken < l /\ Taken + 1 <= sent /\ 1 \in 1 .. b /\ 1 \in 1 .. w
    <2>1. /\ b \in Nat /\ b >= 1 /\ i \in Nat /\ w = b + i /\ l \in Nat
          /\ sent <= l /\ sent \in Nat /\ Taken \in Int /\ Taken + w = sent
      BY <1>1, <1>2, <1>3
    <2> HIDE DEF b, i, w, l
    <2>2. w \in Nat /\ w >= 1
      BY <2>1
    <2> QED  BY <2>1, <2>2
  <1>5. conn.request # N
    BY <1>1, <1>3, <1>4 DEF WireInv, ParseInv
  <1>6. conn.request < N /\ Taken = conn.request /\ conn.request + 1 \in 1 .. N
    BY <1>1, <1>5 DEF WireInv, ParseInv
  <1>7. 1 \in 1 .. Len(conn.buffer) /\ 1 \in 1 .. Len(Waiting)
    BY <1>4
  <1>8. Waiting[1] = Wire[Taken + 1] /\ Waiting[1] = conn.buffer[1]
    BY <1>3, <1>7 DEF WireInv, WaitInv
  <1>9. Wire[conn.request + 1] = <<conn.request + 1, "head">>
    BY <1>6, OrderlyWire
  <1>10. Head(conn.buffer) = conn.buffer[1]
    BY <1>1
  <1>11. conn.upload_manager = Nobody
    BY <1>5 DEF WireInv, ParseInv
  <1> QED  BY <1>4, <1>6, <1>8, <1>9, <1>10, <1>11

LEMMA TailWaits ==
    ASSUME DataType, WaitInv, conn.buffer # <<>>, program' = program, eager' = eager,
           sent' = sent, sock'.inbox = sock.inbox, conn'.buffer = Tail(conn.buffer)
    PROVE  Taken' = Taken + 1 /\ WaitInv'
  <1>1. /\ conn.buffer \in Seq(Unit) /\ sock.inbox \in Seq(Unit)
        /\ Len(conn.buffer) \in Nat /\ Len(sock.inbox) \in Nat
    BY Lengths DEF DataType, Conn, Sock
  <1> DEFINE b == conn.buffer
             i == sock.inbox
             t == Tail(b)
  <1>2. /\ Len(b) >= 1 /\ t \in Seq(Unit) /\ Len(t) = Len(b) - 1
        /\ \A k \in 1 .. Len(t) : t[k] = b[k + 1]
    BY <1>1, EmptySeq, HeadTailProperties
  <1>3. /\ Len(Waiting) = Len(b) + Len(i) /\ Len(Waiting) \in Nat
        /\ \A k \in 1 .. Len(b) : Waiting[k] = b[k]
        /\ \A k \in 1 .. Len(i) : Waiting[Len(b) + k] = i[k]
        /\ sent \in Nat /\ Taken \in Int /\ Taken + Len(Waiting) = sent
    BY WaitingIs
  <1>4. Waiting' = t \o i
    BY DEF Waiting
  <1> HIDE DEF b, i, t
  <1>5. /\ Len(t \o i) = Len(t) + Len(i)
        /\ \A k \in 1 .. Len(t) : (t \o i)[k] = t[k]
        /\ \A k \in 1 .. Len(i) : (t \o i)[Len(t) + k] = i[k]
    <2>1. t \in Seq(Unit) /\ i \in Seq(Unit)
      BY <1>1, <1>2 DEF i
    <2> QED  BY <2>1, ConcatBegins
  <1>6. Len(Waiting') = Len(Waiting) - 1 /\ Len(b) \in Nat /\ Len(i) \in Nat
    BY <1>1, <1>2, <1>3, <1>4, <1>5 DEF b, i
  <1>7. Taken' = Taken + 1
    BY <1>3, <1>6 DEF Taken
  <1>8. ASSUME NEW k \in 1 .. Len(Waiting) - 1
        PROVE  Waiting'[k] = Waiting[k + 1]
    <2>1. CASE k <= Len(t)
      <3>1. k \in 1 .. Len(t) /\ k + 1 \in 1 .. Len(b)
        BY <1>2, <1>6, <2>1
      <3> QED  BY <1>2, <1>3, <1>4, <1>5, <3>1
    <2>2. CASE k > Len(t)
      <3> DEFINE j == k - Len(t)
      <3>1. j \in 1 .. Len(i) /\ k = Len(t) + j /\ k + 1 = Len(b) + j
        BY <1>2, <1>3, <1>6, <2>2
      <3> HIDE DEF j
      <3>2. Waiting'[Len(t) + j] = i[j] /\ Waiting[Len(b) + j] = i[j]
        BY <1>3, <1>4, <1>5, <3>1
      <3> QED  BY <3>1, <3>2
    <2> QED  BY <1>2, <1>6, <2>1, <2>2
  <1>9. \A k \in 1 .. Len(Waiting) - 1 : Waiting[k + 1] = Wire[(Taken + 1) + k]
    <2>1. \A k \in 1 .. Len(Waiting) - 1 : k + 1 \in 1 .. Len(Waiting)
                                           /\ Taken + (k + 1) = (Taken + 1) + k
      BY <1>3
    <2> QED  BY <2>1 DEF WaitInv
  <1>10. Wire' = Wire
    BY SameProgram
  <1>11. Taken' >= 0
    BY <1>3, <1>7 DEF WaitInv
  <1> QED  BY <1>6, <1>7, <1>8, <1>9, <1>10, <1>11 DEF WaitInv

(* The kind of the next request of an orderly client.                      *)
LEMMA NextKind ==
    ASSUME DataType, Orderly, WireInv, conn.buffer # <<>>, ~conn.closed,
           NEW kind, ParseHead(kind)
    PROVE  /\ conn.state = "RequestLine" /\ program[conn.request + 1] = kind /\ kind # "chunked"
           /\ conn.request + 1 < N => kind \in IF eager THEN {"page", "bare"} ELSE {"page", "bare", "file"}
           /\ eager /\ kind = "file" => N = 1
           /\ eager /\ kind = "bare" => \A k \in 1 .. conn.request : program[k] # "page"
           /\ conn.request + 1 = N => (Uploads <=> kind = "upload")
           /\ N \in Nat /\ conn.request \in 0 .. N
  <1>1. conn.state = "RequestLine" /\ program[Head(conn.buffer)[1]] = kind
    BY DEF ParseHead
  <1>2. Head(conn.buffer) = <<conn.request + 1, "head">> /\ conn.request + 1 \in 1 .. N
    BY <1>1, NextHead
  <1>3. N \in Nat /\ conn.request \in 0 .. N
    BY Lengths DEF DataType, Conn
  <1> DEFINE r == conn.request + 1
  <1>4. program[r] = kind /\ r \in 1 .. N
    BY <1>1, <1>2
  <1>5. /\ \A i \in 1 .. N : program[i] # "chunked"
        /\ \A i \in 1 .. N - 1 : program[i] \in IF eager THEN {"page", "bare"} ELSE {"page", "bare", "file"}
        /\ eager /\ N > 1 => program[N] # "file"
        /\ eager => \A i, j \in 1 .. N : i < j /\ program[i] = "page" => program[j] # "bare"
    BY DEF Orderly, N
  <1> HIDE DEF r
  <1>6. r < N => kind \in IF eager THEN {"page", "bare"} ELSE {"page", "bare", "file"}
    <2>1. r < N => r \in 1 .. N - 1
      BY <1>3, <1>4
    <2> QED  BY <1>4, <1>5, <2>1
  <1>7. eager /\ kind = "file" => N = 1
    <2>1. r < N \/ r = N
      BY <1>3, <1>4
    <2>2. eager /\ r < N => kind # "file"
      BY <1>6
    <2>3. eager /\ r = N /\ N > 1 => kind # "file"
      BY <1>4, <1>5
    <2>4. N > 1 \/ N = 1
      BY <1>3, <1>4
    <2> QED  BY <2>1, <2>2, <2>3, <2>4
  <1>8. r = N => (Uploads <=> kind = "upload")
    BY <1>3, <1>4 DEF Uploads
  <1>9. eager /\ kind = "bare" => \A k \in 1 .. conn.request : program[k] # "page"
    <2> SUFFICES ASSUME eager, kind = "bare", NEW k \in 1 .. conn.request
                 PROVE  program[k] # "page"
      OBVIOUS
    <2>1. k \in 1 .. N /\ k < r
      BY <1>3, <1>4 DEF r
    <2> QED  BY <1>4, <1>5, <2>1
  <1> QED  BY <1>1, <1>3, <1>4, <1>5, <1>6, <1>7, <1>8, <1>9 DEF r

LEMMA ParsedWire ==
    ASSUME DataType, Orderly, WireInv, conn.buffer # <<>>, ~conn.closed,
           NEW kind, ParseHead(kind),
           program' = program, eager' = eager, sent' = sent, disk' = disk,
           sock'.inbox = sock.inbox, conn'.buffer = Tail(conn.buffer),
           conn'.request = Head(conn.buffer)[1], conn'.upload_manager = conn.upload_manager,
           \/ kind \in {"page", "bare", "file"} /\ conn'.state = "RequestLine" /\ pc' = "finish"
           \/ kind = "bad" /\ conn'.state = "RequestLine" /\ conn'.closed /\ pc' = "rearm"
           \/ /\ kind = "upload" /\ conn'.state = "Body" /\ conn'.action = "Upload"
              /\ pc' = "request"
    PROVE  WireInv'
  <1> DEFINE r == conn.request + 1
  <1>1. /\ program[r] = kind /\ kind # "chunked"
        /\ r < N => kind \in {"page", "bare", "file"}
        /\ r = N => (Uploads <=> kind = "upload")
        /\ N \in Nat /\ conn.request \in 0 .. N /\ conn.state = "RequestLine"
    BY NextKind
  <1>2. /\ conn.request < N /\ Head(conn.buffer) = <<r, "head">> /\ r \in 1 .. N
        /\ Taken = conn.request /\ conn.upload_manager = Nobody
    BY <1>1, NextHead
  <1>3. conn'.request = r
    BY <1>2
  <1>4. Taken' = Taken + 1 /\ WaitInv'
    BY TailWaits DEF WireInv
  <1>5. Taken' = r
    BY <1>2, <1>4
  <1>6. Wire' = Wire /\ N' = N /\ Uploads' = Uploads /\ Unit' = Unit
    BY SameProgram, SameUploads
  <1>7. Len(Wire) = IF Uploads THEN N + 2 ELSE N
    BY OrderlyWire
  <1>8. r = N \/ r < N
    BY <1>1, <1>2
  <1>9. /\ kind = "upload" => r = N /\ Uploads
        /\ kind # "upload" /\ r = N => Len(Wire) = N
    BY <1>1, <1>7, <1>8
  <1>10. N \notin DOMAIN disk
    BY <1>1, <1>2 DEF WireInv, StoredInv
  <1> HIDE DEF r
  <1>11. N < Len(Wire) \/ ~Uploads
    BY <1>1, <1>7
  <1>12. ParseInv'
    <2>1. CASE conn'.state = "RequestLine"
      <3>1. kind # "upload"
        BY <2>1
      <3>2. /\ conn'.request < N' => Taken' = conn'.request
            /\ conn'.request = N' => Taken' >= N'
            /\ conn'.request = N' => Taken' = Len(Wire')
        BY <1>1, <1>3, <1>5, <1>6, <1>9, <3>1
      <3>3. conn'.upload_manager = Nobody
        BY <1>2
      <3>4. pc' = "finish" => program'[conn'.request] \in {"page", "bare", "file"}
        BY <1>1, <1>3
      <3> QED  BY <2>1, <3>2, <3>3, <3>4 DEF ParseInv
    <2>2. CASE conn'.state = "Body"
      <3>1. kind = "upload" /\ conn'.action = "Upload" /\ pc' = "request"
        BY <2>2
      <3>2. conn'.request = N' /\ Uploads' /\ Taken' = N' /\ Taken' < Len(Wire')
            /\ Taken' >= N' /\ ~(conn'.request < N')
        BY <1>1, <1>3, <1>5, <1>6, <1>9, <1>11, <3>1
      <3>3. conn'.upload_manager = Nobody
        BY <1>2
      <3> QED  BY <2>2, <3>1, <3>2, <3>3 DEF ParseInv
    <2> QED  BY <2>1, <2>2
  <1>13. StoredInv'
    <2>1. conn'.state = "Body" => Taken' = N
      BY <1>5, <1>9
    <2> QED  BY <1>6, <1>10, <2>1 DEF WireInv, StoredInv
  <1> QED  BY <1>4, <1>12, <1>13 DEF WireInv

LEMMA ParseWire ==
    ASSUME BaseInv, Orderly, WireInv,
           Page \/ Bare \/ FileDownload \/ Upload("upload", "Body") \/ Upload("chunked", "ChunkedBody")
           \/ Bad
    PROVE  WireInv'
  <1>0. DataType /\ PlaceInv
    BY DEF BaseInv
  <1>1. /\ program' = program /\ eager' = eager /\ sent' = sent /\ disk' = disk /\ sock' = sock
    BY DEF Page, Bare, FileDownload, Upload, Bad, KeepWorld, KeepClient
  <1>2. ASSUME NEW kind, ParseHead(kind)
        PROVE  conn.buffer # <<>> /\ ~conn.closed /\ conn.state = "RequestLine"
    BY <1>0, <1>2, ToParse
  <1>3. CASE Page
    <2>1. ParseHead("page") /\ pc' = "finish"
      BY <1>3 DEF Page
    <2>2. /\ conn'.buffer = Tail(conn.buffer) /\ conn'.request = Head(conn.buffer)[1]
          /\ conn'.upload_manager = conn.upload_manager /\ conn'.state = "RequestLine"
      BY <1>0, <1>2, <1>3, <2>1, PageIs
    <2> QED  BY <1>0, <1>1, <1>2, <2>1, <2>2, ParsedWire
  <1>4. CASE FileDownload
    <2>1. ParseHead("file") /\ pc' = "finish"
      BY <1>4 DEF FileDownload
    <2>2. /\ conn'.buffer = Tail(conn.buffer) /\ conn'.request = Head(conn.buffer)[1]
          /\ conn'.upload_manager = conn.upload_manager /\ conn'.state = "RequestLine"
      BY <1>0, <1>2, <1>4, <2>1, FileDownloadIs
    <2> QED  BY <1>0, <1>1, <1>2, <2>1, <2>2, ParsedWire
  <1>5. CASE Upload("upload", "Body")
    <2>1. ParseHead("upload") /\ pc' = "request"
      BY <1>5 DEF Upload
    <2>2. /\ conn'.buffer = Tail(conn.buffer) /\ conn'.request = Head(conn.buffer)[1]
          /\ conn'.upload_manager = conn.upload_manager /\ conn'.state = "Body"
          /\ conn'.action = "Upload"
      BY <1>0, <1>5, UploadIs
    <2> QED  BY <1>0, <1>1, <1>2, <2>1, <2>2, ParsedWire
  <1>6. CASE Upload("chunked", "ChunkedBody")
    <2>1. ParseHead("chunked")
      BY <1>6 DEF Upload
    <2> QED  BY <1>0, <1>2, <2>1, NextKind
  <1>7. CASE Bad
    <2>1. ParseHead("bad") /\ pc' = "rearm"
      BY <1>7 DEF Bad
    <2>2. /\ conn'.buffer = Tail(conn.buffer) /\ conn'.request = Head(conn.buffer)[1]
          /\ conn'.upload_manager = conn.upload_manager /\ conn'.state = "RequestLine"
          /\ conn'.closed
      BY <1>0, <1>7, BadIs
    <2> QED  BY <1>0, <1>1, <1>2, <2>1, <2>2, ParsedWire
  <1>8. CASE Bare
    <2>1. ParseHead("bare") /\ pc' = "finish"
      BY <1>8 DEF Bare
    <2>2. /\ conn'.buffer = Tail(conn.buffer) /\ conn'.request = Head(conn.buffer)[1]
          /\ conn'.upload_manager = conn.upload_manager /\ conn'.state = "RequestLine"
      BY <1>0, <1>2, <1>8, <2>1, BareIs
    <2> QED  BY <1>0, <1>1, <1>2, <2>1, <2>2, ParsedWire
  <1> QED  BY <1>3, <1>4, <1>5, <1>6, <1>7, <1>8

(* In the body of its last request all that waits is that body.            *)
LEMMA BodyWaits ==
    ASSUME DataType, Orderly, WireInv, conn.state = "Body"
    PROVE  /\ N \in Nat /\ conn.request = N /\ Uploads /\ conn.action = "Upload"
           /\ Len(Wire) = N + 2 /\ Taken \in N .. N + 1
           /\ BodyLength = Len(conn.buffer) /\ Len(conn.buffer) \in Nat
           /\ Taken + Len(conn.buffer) <= N + 2
           /\ \A k \in 1 .. Len(conn.buffer) : conn.buffer[k] = Wire[Taken + k]
           /\ Whole <=> Taken + Len(conn.buffer) = N + 2
           /\ NewManager = N
  <1>1. /\ N \in Nat /\ Len(conn.buffer) \in Nat /\ Len(sock.inbox) \in Nat
        /\ conn.request = N /\ Uploads /\ conn.action = "Upload"
    BY Lengths DEF WireInv, ParseInv
  <1>2. /\ Len(Wire) = N + 2 /\ Wire[N + 1] = <<N, "data">> /\ Wire[N + 2] = <<N, "last">>
    BY <1>1, OrderlyWire
  <1> DEFINE b == Len(conn.buffer)
             w == Len(Waiting)
  <1>3. /\ w = b + Len(sock.inbox) /\ sent <= Len(Wire) /\ sent \in Nat
        /\ Taken \in Int /\ Taken + w = sent
        /\ \A k \in 1 .. b : Waiting[k] = conn.buffer[k]
    BY WaitingIs
  <1>4. Taken >= N /\ Taken < Len(Wire)
    BY <1>1 DEF WireInv, ParseInv
  <1>5. Taken \in N .. N + 1
    BY <1>1, <1>2, <1>3, <1>4
  <1>6. Taken + b <= N + 2 /\ b <= w /\ b \in Nat /\ w \in Nat
    <2> DEFINE i == Len(sock.inbox)
    <2>1. b \in Nat /\ i \in Nat /\ w = b + i /\ Taken + w <= N + 2 /\ Taken \in Int
      BY <1>1, <1>2, <1>3
    <2> HIDE DEF b, w, i
    <2> QED  BY <1>1, <2>1
  <1> HIDE DEF b, w
  <1>7. ASSUME NEW k \in 1 .. b
        PROVE  /\ conn.buffer[k] = Wire[Taken + k] /\ conn.buffer[k][1] = N
               /\ Taken + k \in N + 1 .. N + 2
               /\ conn.buffer[k][2] = "last" <=> Taken + k = N + 2
    <2>1. k \in 1 .. w
      BY <1>6
    <2>2. Waiting[k] = Wire[Taken + k]
      BY <2>1 DEF WireInv, WaitInv, w
    <2>3. Taken + k = N + 1 \/ Taken + k = N + 2
      BY <1>1, <1>5, <1>6
    <2>4. N + 1 # N + 2 /\ N + 1 \in N + 1 .. N + 2 /\ N + 2 \in N + 1 .. N + 2
      BY <1>1
    <2> QED  BY <1>2, <1>3, <2>2, <2>3, <2>4
  <1>8. BodyLength = b
    BY <1>1, <1>7, BodyLengthIs DEF b
  <1>9. Whole <=> Taken + b = N + 2
    <2>1. Whole <=> b # 0 /\ conn.buffer[b][2] = "last"
      BY <1>8, BodyUnitsIs
    <2>2. b # 0 => b \in 1 .. b
      BY <1>6
    <2>3. b = 0 => Taken + b # N + 2
      BY <1>1, <1>5
    <2> QED  BY <1>7, <2>1, <2>2, <2>3
  <1>10. NewManager = N
    BY <1>1 DEF NewManager, WireInv, ParseInv
  <1> QED  BY <1>1, <1>2, <1>5, <1>6, <1>7, <1>8, <1>9, <1>10 DEF b

LEMMA BodyTakesAll ==
    ASSUME DataType, PlaceInv, Orderly, WireInv, Body
    PROVE  conn'.buffer = <<>>
  <1> DEFINE b == Len(conn.buffer)
  <1>1. BodyLength = b /\ b \in Nat
    BY BodyWaits DEF Body
  <1>2. conn'.buffer = SubSeq(conn.buffer, b + 1, b)
    BY <1>1, BodyIs
  <1>3. b + 1 \in Int /\ b \in Int /\ b < b + 1
    BY <1>1
  <1> HIDE DEF b
  <1> QED  BY <1>2, <1>3, SubSeqEmpty

LEMMA BodyWire == ASSUME BaseInv, Orderly, WireInv, Body PROVE WireInv'
  <1>0. DataType /\ PlaceInv
    BY DEF BaseInv
  <1>1. /\ program' = program /\ eager' = eager /\ sent' = sent /\ sock' = sock
        /\ conn.state = "Body" /\ pc' = IF Whole THEN "finish" ELSE "rearm"
    BY DEF Body, KeepWorld, KeepClient, AfterBody
  <1> DEFINE b == Len(conn.buffer)
  <1>2. /\ N \in Nat /\ conn.request = N /\ Uploads /\ conn.action = "Upload"
        /\ Len(Wire) = N + 2 /\ Taken \in N .. N + 1
        /\ BodyLength = b /\ b \in Nat /\ Taken + b <= N + 2
        /\ \A k \in 1 .. b : conn.buffer[k] = Wire[Taken + k]
        /\ Whole <=> Taken + b = N + 2
        /\ NewManager = N
    BY <1>0, <1>1, BodyWaits
  <1>3. /\ conn'.buffer = SubSeq(conn.buffer, b + 1, b)
        /\ conn'.state = IF Whole THEN "Complete" ELSE "Body"
        /\ conn'.request = N /\ conn'.action = "Upload" /\ conn'.closed = conn.closed
        /\ IF BodyUnits # <<>>
           THEN conn'.upload_manager = N /\ disk' = Store(N, BodyUnits)
           ELSE conn'.upload_manager = conn.upload_manager /\ disk' = disk
    BY <1>0, <1>2, BodyIs
  <1>4. conn'.buffer = <<>>
    BY <1>0, BodyTakesAll
  <1>5. /\ Len(Waiting) = b + Len(sock.inbox) /\ Len(sock.inbox) \in Nat
        /\ \A k \in 1 .. Len(sock.inbox) : Waiting[b + k] = sock.inbox[k]
        /\ sent \in Nat /\ Taken \in Int /\ Taken + Len(Waiting) = sent
        /\ sock.inbox \in Seq(Unit)
    BY <1>0, WaitingIs, Lengths DEF DataType, Sock
  <1>6. Waiting' = sock.inbox
    BY <1>1, <1>4, <1>5, ConcatEmptySeq DEF Waiting
  <1>7. Taken' = Taken + b
    <2> DEFINE i == Len(sock.inbox)
               w == Len(Waiting)
    <2>1. Taken' = sent - i
      BY <1>1, <1>6 DEF Taken
    <2>2. i \in Nat /\ b \in Nat /\ w = b + i /\ Taken + w = sent /\ Taken \in Int
          /\ sent \in Nat
      BY <1>2, <1>5
    <2> HIDE DEF b, i, w
    <2> QED  BY <2>1, <2>2
  <1>8. Wire' = Wire /\ N' = N /\ Uploads' = Uploads /\ Unit' = Unit
    BY <1>1, SameProgram, SameUploads
  <1> HIDE DEF b
  <1>9. WaitInv'
    <2>1. \A k \in 1 .. Len(sock.inbox) : b + k \in 1 .. Len(Waiting)
                                          /\ Taken + (b + k) = (Taken + b) + k
      BY <1>2, <1>5
    <2>2. \A k \in 1 .. Len(sock.inbox) : sock.inbox[k] = Wire[(Taken + b) + k]
      BY <1>5, <2>1 DEF WireInv, WaitInv
    <2>3. Taken' >= 0
      BY <1>2, <1>7
    <2> QED  BY <1>6, <1>7, <1>8, <2>2, <2>3 DEF WaitInv
  <1>10. BodyUnits = <<>> <=> b = 0
    BY <1>0, <1>2, BodyUnitsIs
  <1>11. /\ Taken' \in N .. N + 2 /\ Taken' >= N' /\ ~(conn'.request < N')
         /\ Whole <=> Taken' = Len(Wire')
         /\ ~Whole => Taken' < Len(Wire')
    BY <1>2, <1>3, <1>7, <1>8
  <1>12. ParseInv'
    <2>1. Whole => conn'.upload_manager = N
      <3>1. Whole => b # 0
        BY <1>2
      <3> QED  BY <1>3, <1>10, <3>1
    <2>2. conn'.upload_manager # Nobody => conn'.upload_manager = N
      BY <1>3 DEF WireInv, ParseInv
    <2>3. conn'.state # "RequestLine" /\ conn'.state \in {"Body", "Complete"}
      BY <1>3
    <2>4. conn'.state = "Body" => ~Whole
      BY <1>3
    <2>5. conn'.state = "Complete" => Whole
      BY <1>3
    <2>6. conn'.state = "Body" => pc' = "rearm"
      BY <1>1, <2>4
    <2> QED  BY <1>2, <1>3, <1>4, <1>8, <1>11, <2>1, <2>2, <2>3, <2>4, <2>5, <2>6 DEF ParseInv
  <1>13. StoredInv'
    <2>1. CASE BodyUnits = <<>>
      <3>1. Taken' = Taken /\ disk' = disk
        BY <1>2, <1>3, <1>7, <1>10, <2>1
      <3> QED  BY <1>1, <1>2, <1>3, <1>8, <3>1 DEF WireInv, StoredInv
    <2>2. CASE BodyUnits # <<>>
      <3> DEFINE old == IF N \in DOMAIN disk THEN disk[N] ELSE <<>>
                 d == disk'[N]
      <3>1. /\ DOMAIN disk' = DOMAIN disk \cup {N} /\ d = old \o BodyUnits
        <4>1. N \in 1 .. N
          BY <1>2 DEF Uploads
        <4>2. disk' = Store(N, BodyUnits)
          BY <1>3, <2>2
        <4>3. /\ DOMAIN Store(N, BodyUnits) = DOMAIN disk \cup {N}
              /\ Store(N, BodyUnits)[N] =
                    (IF N \in DOMAIN disk THEN disk[N] ELSE <<>>) \o BodyUnits
          BY <1>0, <4>1, StoreIs
        <4> QED  BY <4>2, <4>3
      <3>2. /\ old \in Seq(Unit) /\ Len(old) = Taken - N
            /\ \A k \in 1 .. Taken - N : old[k] = Wire[N + k]
        <4>1. CASE N \in DOMAIN disk
          BY <4>1 DEF WireInv, StoredInv
        <4>2. CASE N \notin DOMAIN disk
          <5>1. Taken = N
            BY <1>1, <4>2 DEF WireInv, StoredInv
          <5> QED  BY <1>2, <4>2, <5>1, EmptySeq
        <4> QED  BY <4>1, <4>2
      <3>3. /\ BodyUnits \in Seq(Unit) /\ Len(BodyUnits) = b
            /\ \A k \in 1 .. b : BodyUnits[k] = Wire[Taken + k]
        BY <1>0, <1>2, BodyUnitsIs
      <3> DEFINE u == BodyUnits
      <3>8. old \in Seq(Unit) /\ u \in Seq(Unit)
        BY <3>2, <3>3
      <3> HIDE DEF old, u
      <3>9. /\ old \o u \in Seq(Unit)
            /\ Len(old \o u) = Len(old) + Len(u)
            /\ \A k \in 1 .. Len(old) : (old \o u)[k] = old[k]
            /\ \A k \in 1 .. Len(u) : (old \o u)[Len(old) + k] = u[k]
        BY <3>8, ConcatBegins
      <3>4. /\ old \o BodyUnits \in Seq(Unit)
            /\ Len(old \o BodyUnits) = Len(old) + Len(BodyUnits)
            /\ \A k \in 1 .. Len(old) : (old \o BodyUnits)[k] = old[k]
            /\ \A k \in 1 .. Len(BodyUnits) : (old \o BodyUnits)[Len(old) + k] = BodyUnits[k]
        BY <3>9 DEF u
      <3> HIDE DEF d
      <3>5. d \in Seq(Unit) /\ Len(d) = Taken' - N
        BY <1>2, <1>7, <3>1, <3>2, <3>3, <3>4
      <3>6. ASSUME NEW k \in 1 .. Taken' - N
            PROVE  d[k] = Wire[N + k]
        <4>1. CASE k <= Taken - N
          <5>1. k \in 1 .. Taken - N
            BY <1>2, <4>1
          <5> QED  BY <3>1, <3>2, <3>4, <5>1
        <4>2. CASE k > Taken - N
          <5> DEFINE j == k - (Taken - N)
          <5>1. j \in 1 .. b /\ k = (Taken - N) + j /\ Taken + j = N + k
            BY <1>2, <1>7, <4>2
          <5> HIDE DEF j
          <5>2. d[(Taken - N) + j] = BodyUnits[j]
            BY <3>1, <3>2, <3>3, <3>4, <5>1
          <5> QED  BY <3>3, <5>1, <5>2
        <4> QED  BY <1>2, <4>1, <4>2
      <3>7. DOMAIN disk' \subseteq {N} /\ N \in DOMAIN disk'
        BY <3>1 DEF WireInv, StoredInv
      <3> QED  BY <1>2, <1>3, <1>8, <3>5, <3>6, <3>7 DEF StoredInv, d
    <2> QED  BY <2>1, <2>2
  <1> QED  BY <1>9, <1>12, <1>13 DEF WireInv

LEMMA RequestWire ==
    ASSUME BaseInv, Orderly, WireInv, BodyNotStored \/ ChunkedBody \/ ChunkRefused \/ Finish
    PROVE  WireInv'
  <1>0. DataType /\ PlaceInv
    BY DEF BaseInv
  <1>1. /\ program' = program /\ eager' = eager /\ sent' = sent /\ sock' = sock
    BY DEF BodyNotStored, ChunkedBody, ChunkRefused, Finish, KeepWorld, KeepClient
  <1>2. conn.state # "ChunkedBody"
    BY DEF WireInv, ParseInv
  <1>3. Wire' = Wire /\ N' = N /\ Uploads' = Uploads /\ Unit' = Unit
    BY <1>1, SameProgram, SameUploads
  <1>4. CASE BodyNotStored
    <2>1. conn.state = "Body" /\ disk' = disk /\ pc' = "rearm"
      BY <1>4 DEF BodyNotStored
    <2>2. NewManager = N /\ conn.request = N /\ Uploads /\ N \in Nat
      BY <1>0, <2>1, BodyWaits
    <2>3. /\ conn'.state = "RequestLine" /\ conn'.closed /\ conn'.buffer = conn.buffer
          /\ conn'.request = N /\ conn'.upload_manager = N
      BY <1>0, <1>4, <2>2, BodyNotStoredIs
    <2>4. Waiting' = Waiting /\ Taken' = Taken
      BY <1>1, <2>3, TakenSame
    <2>5. WaitInv'
      BY <1>3, <2>4 DEF WireInv, WaitInv
    <2>6. ParseInv'
      <3>1. Taken >= N /\ ~(N < N)
        BY <2>2 DEF WireInv, ParseInv
      <3> QED  BY <1>3, <2>1, <2>2, <2>3, <2>4, <3>1 DEF ParseInv
    <2>7. StoredInv'
      BY <1>3, <2>1, <2>2, <2>3, <2>4 DEF WireInv, StoredInv
    <2> QED  BY <2>5, <2>6, <2>7 DEF WireInv
  <1>5. CASE ChunkedBody \/ ChunkRefused
    BY <1>2, <1>5 DEF ChunkedBody, ChunkRefused
  <1>6. CASE Finish
    <2>1. pc = "finish" /\ pc' = "rearm" /\ disk' = disk
      BY <1>6 DEF Finish
    <2>2. /\ conn'.state = "RequestLine" /\ conn'.buffer = conn.buffer
          /\ conn'.request = conn.request /\ conn'.action = conn.action
          /\ conn'.upload_manager = conn.upload_manager /\ conn'.closed = conn.closed
      BY <1>0, <1>6, FinishIs
    <2>3. Waiting' = Waiting /\ Taken' = Taken
      BY <1>1, <2>2, TakenSame
    <2>4. WaitInv'
      BY <1>3, <2>3 DEF WireInv, WaitInv
    <2>5. ~conn.closed
      BY <1>0, <2>1 DEF PlaceInv
    <2>6. conn.state # "Body"
      BY <2>1 DEF WireInv, ParseInv
    <2>7. ParseInv'
      BY <1>3, <2>1, <2>2, <2>3, <2>6 DEF WireInv, ParseInv
    <2>8. StoredInv'
      BY <1>3, <2>1, <2>2, <2>3 DEF WireInv, StoredInv
    <2> QED  BY <2>4, <2>7, <2>8 DEF WireInv
  <1> QED  BY <1>4, <1>5, <1>6

-----------------------------------------------------------------------------
(* The answers, in order: what each step does to what was shown.           *)

LEMMA PiecesAssociate ==
    ASSUME NEW a \in Seq(Piece), NEW b \in Seq(Piece), NEW c \in Seq(Piece)
    PROVE  (a \o b) \o c = a \o (b \o c) /\ a \o b \in Seq(Piece)
  BY ConcatAssociative, ConcatProperties, SMTT(40)

(* Named, so that a step can ask for an instance of it.                    *)
Regroups(a, b, c) == (a \o b) \o c = a \o (b \o c)

LEMMA ThreePieces ==
    ASSUME NEW a \in Seq(Piece), NEW b \in Seq(Piece), NEW c \in Seq(Piece)
    PROVE  Regroups(a, b, c)
  BY PiecesAssociate DEF Regroups

Regrouped(a, b, c, d) ==
    /\ (a \o (b \o c)) \o d = (a \o b) \o (c \o d)
    /\ (a \o b) \o (c \o d) = ((a \o b) \o c) \o d

LEMMA FourPieces ==
    ASSUME NEW a \in Seq(Piece), NEW b \in Seq(Piece), NEW c \in Seq(Piece), NEW d \in Seq(Piece)
    PROVE  Regrouped(a, b, c, d)
  <1>1. a \o b \in Seq(Piece) /\ b \o c \in Seq(Piece)
    BY PiecesAssociate
  <1>2. ((a \o b) \o c) \o d = (a \o b) \o (c \o d)
    BY <1>1, PiecesAssociate, SMTT(40)
  <1>3. (a \o b) \o c = a \o (b \o c)
    BY PiecesAssociate, SMTT(40)
  <1> QED  BY <1>2, <1>3 DEF Regrouped

LEMMA AnswersSame ==
    ASSUME program' = program
    PROVE  (Answers(Answered))' = Answers(Answered')
  BY DEF Answers, AnswerUnits

LEMMA SentQuiet ==
    ASSUME SentInv, program' = program, eager' = eager, sent' = sent,
           Len(received) \in Nat, Len(received') \in Nat, Len(received') >= Len(received),
           program \in Seq(Kind)
    PROVE  SentInv'
  <1>1. SentInv' <=> (~eager =>
            \A i \in 1 .. N : i <= sent' => Len(received') >= Len(Answers(i - 1)))
    BY DEF SentInv, Answers, AnswerUnits, N
  <1>2. ASSUME NEW i \in 1 .. N
        PROVE  Len(Answers(i - 1)) \in Nat
    <2>1. i - 1 \in 0 .. N
      BY LenProperties DEF N
    <2>2. Answers(i - 1) \in Seq(Piece)
      BY <2>1, AnswersGrow
    <2> QED  BY <2>2, LenProperties
  <1> QED  BY <1>1, <1>2 DEF SentInv

LEMMA ShownIs ==
    ASSUME DataType, PlaceInv
    PROVE  /\ received \in Seq(Piece) /\ sock.outbox \in Seq(Piece)
           /\ conn.write_buffer \in Seq(Piece) /\ Rest \in Seq(Piece)
           /\ received \o sock.outbox \in Seq(Piece) /\ Shown \in Seq(Piece)
           /\ conn.action # "FileDownload" => Rest = <<>>
           /\ conn.left = 0 => Rest = <<>>
  <1>1. /\ received \in Seq(Piece) /\ sock.outbox \in Seq(Piece)
        /\ conn.write_buffer \in Seq(Piece)
    BY DEF DataType, WorldType, Conn, Sock
  <1>2. /\ received \o sock.outbox \in Seq(Piece)
        /\ (received \o sock.outbox) \o conn.write_buffer \in Seq(Piece)
    BY <1>1, PiecesAssociate
  <1>3. Rest \in Seq(Piece)
    <2>1. CASE conn.action = "FileDownload"
      <3>1. conn.left \in 0 .. FileChunks /\ FileChunks \in Nat /\ conn.file \in 1 .. N
        BY <2>1, Lengths DEF DataType, Conn, PlaceInv, Nobody
      <3>2. \A k \in 1 .. conn.left :
                <<conn.file, "data", FileChunks - conn.left + k>> \in Piece
        <4>1. \A k \in 1 .. conn.left : FileChunks - conn.left + k \in 0 .. FileChunks
          BY <3>1
        <4> QED  BY <3>1, <4>1 DEF Piece
      <3>3. conn.left \in Nat
        BY <3>1
      <3> QED  BY <2>1, <3>2, <3>3 DEF Rest
    <2>2. CASE conn.action # "FileDownload"
      BY <2>2, EmptySeq DEF Rest
    <2> QED  BY <2>1, <2>2
  <1>4. conn.left = 0 => Rest = <<>>
    BY DEF Rest
  <1>5. conn.action # "FileDownload" => Rest = <<>>
    BY DEF Rest
  <1> QED  BY <1>1, <1>2, <1>3, <1>4, <1>5 DEF Shown

LEMMA ShownQuiet ==
    ASSUME ShownInv, program' = program, Shown' = Shown,
           conn'.action = conn.action, conn'.file = conn.file, conn'.left = conn.left,
           Answered' = Answered
    PROVE  ShownInv'
  <1>1. Rest' = Rest
    BY DEF Rest
  <1> QED  BY <1>1, AnswersSame DEF ShownInv

(* An answer is added when nothing is left of the one before.              *)
LEMMA ShownGrows ==
    ASSUME DataType, PlaceInv, ShownInv, Rest = <<>>, Answered \in 0 .. N - 1,
           program' = program, received' = received, sock'.outbox = sock.outbox,
           NEW u \in Seq(Piece), conn'.write_buffer = conn.write_buffer \o u,
           Rest' \in Seq(Piece), u \o Rest' = AnswerUnits(Answered + 1),
           Answered' = Answered + 1
    PROVE  ShownInv'
  <1>1. /\ received \o sock.outbox \in Seq(Piece) /\ conn.write_buffer \in Seq(Piece)
        /\ Shown \in Seq(Piece)
    BY ShownIs
  <1> DEFINE r == received \o sock.outbox
             w == conn.write_buffer
             s == Rest'
  <1>2. r \in Seq(Piece) /\ w \in Seq(Piece) /\ s \in Seq(Piece) /\ r \o w \in Seq(Piece)
    BY <1>1 DEF Shown
  <1>3. Shown' = r \o (w \o u)
    BY DEF Shown
  <1>4. Shown = r \o w
    BY DEF Shown
  <1> HIDE DEF r, w, s
  <1>5. (r \o (w \o u)) \o s = (r \o w) \o (u \o s)
    <2>1. Regrouped(r, w, u, s)
      BY <1>2, FourPieces
    <2> QED  BY <2>1 DEF Regrouped
  <1>7. Shown' \o s = Shown \o (u \o s)
    BY <1>3, <1>4, <1>5
  <1>8. Shown = Answers(Answered)
    BY <1>1, ConcatEmptySeq DEF ShownInv
  <1>9. Answers(Answered + 1) = Answers(Answered) \o AnswerUnits(Answered + 1)
    <2>1. program \in Seq(Kind) /\ N \in Nat
      BY Lengths DEF DataType, WorldType
    <2>2. Answered \in 0 .. N /\ Answered < N
      BY <2>1
    <2> QED  BY <2>1, <2>2, AnswersGrow
  <1> QED  BY <1>7, <1>8, <1>9, AnswersSame DEF ShownInv, s

(* Steps that leave the connection's record as it was.                     *)
LEMMA SameConnAnswer ==
    ASSUME AnswerInv, DataType, program' = program, eager' = eager, sent' = sent, conn' = conn,
           received' = received, sock'.outbox = sock.outbox,
           pc' = pc \/ pc \notin {"request", "post", "flush"}
    PROVE  AnswerInv'
  <1>1. Shown' = Shown /\ Answered' = Answered
    BY DEF Shown, Answered
  <1>2. ShownInv'
    BY <1>1, ShownQuiet DEF AnswerInv
  <1>3. SentInv'
    <2>1. program \in Seq(Kind) /\ Len(received) \in Nat
      BY Lengths DEF DataType, WorldType
    <2> QED  BY <2>1, SentQuiet DEF AnswerInv
  <1>4. FileInv' /\ KeptInv'
    <2>1. N' = N
      BY DEF N
    <2> QED  BY <2>1 DEF AnswerInv, FileInv, KeptInv, Pending
  <1> QED  BY <1>2, <1>3, <1>4 DEF AnswerInv

LEMMA ClientSendAnswer ==
    ASSUME BaseInv, Orderly, AnswerInv, ClientSend PROVE AnswerInv'
  <1>0. DataType
    BY DEF BaseInv
  <1>1. /\ program' = program /\ eager' = eager /\ sent' = sent + 1
        /\ conn' = conn /\ received' = received /\ pc' = pc
    BY DEF ClientSend
  <1>2. sock'.outbox = sock.outbox /\ sent + 1 \in 1 .. Len(Wire)
    BY <1>0, ClientSendIs
  <1>3. Shown' = Shown /\ Answered' = Answered
    BY <1>1, <1>2 DEF Shown, Answered
  <1>4. ShownInv'
    BY <1>1, <1>3, ShownQuiet DEF AnswerInv
  <1>5. SentInv'
    <2>1. SentInv' <=> (~eager =>
              \A i \in 1 .. N : i <= sent + 1 => Len(received) >= Len(Answers(i - 1)))
      BY <1>1 DEF SentInv, Answers, AnswerUnits, N
    <2>2. N \in Nat /\ sent \in Nat
      BY <1>0, Lengths DEF DataType, WorldType
    <2>3. ASSUME ~eager, NEW i \in 1 .. N, i <= sent + 1
          PROVE  Len(received) >= Len(Answers(i - 1))
      <3>1. CASE i <= sent
        BY <2>3, <3>1 DEF AnswerInv, SentInv
      <3>2. CASE i = sent + 1
        <4>1. Wire[sent + 1] = <<i, "head">>
          BY <1>0, <3>2, OrderlyWire
        <4>2. LET u == Wire[sent + 1] IN
                  ~eager /\ u[2] = "head" => Len(received) >= Len(Answers(u[1] - 1))
          BY DEF ClientSend
        <4> QED  BY <2>3, <4>1, <4>2
      <3> QED  BY <2>2, <2>3, <3>1, <3>2
    <2> QED  BY <2>1, <2>3
  <1>6. FileInv' /\ KeptInv'
    <2>1. N' = N
      BY <1>1 DEF N
    <2> QED  BY <1>1, <2>1 DEF AnswerInv, FileInv, KeptInv, Pending
  <1> QED  BY <1>4, <1>5, <1>6 DEF AnswerInv

LEMMA ClientReceiveAnswer ==
    ASSUME BaseInv, AnswerInv, ClientReceive PROVE AnswerInv'
  <1>0. DataType /\ PlaceInv
    BY DEF BaseInv
  <1>1. /\ program' = program /\ eager' = eager /\ sent' = sent
        /\ conn' = conn /\ pc' = pc
    BY DEF ClientReceive
  <1> DEFINE r == received
             o == sock.outbox
             h == Head(o)
             t == Tail(o)
             w == conn.write_buffer
  <1>2. received' = Append(r, h) /\ sock'.outbox = t /\ o # <<>> /\ received' \in Seq(Piece)
    BY <1>0, ClientReceiveIs
  <1>3. r \in Seq(Piece) /\ o \in Seq(Piece) /\ w \in Seq(Piece)
    BY <1>0, ShownIs
  <1>4. h \in Piece /\ t \in Seq(Piece) /\ <<h>> \o t = o
    BY <1>2, <1>3, HeadTailProperties, HeadThenTail
  <1>5. Shown' = (Append(r, h) \o t) \o w /\ Shown = (r \o o) \o w
    BY <1>1, <1>2 DEF Shown
  <1> HIDE DEF r, o, h, t, w
  <1>6. <<h>> \in Seq(Piece) /\ Append(r, h) = r \o <<h>>
    BY <1>3, <1>4, AppendIsConcat
  <1>7. (r \o <<h>>) \o t = r \o (<<h>> \o t)
    <2> DEFINE x == <<h>>
    <2>1. x \in Seq(Piece)
      BY <1>6
    <2> HIDE DEF x
    <2>2. Regroups(r, x, t)
      BY <1>3, <1>4, <2>1, ThreePieces
    <2> QED  BY <2>2 DEF x, Regroups
  <1>8. Shown' = Shown
    BY <1>4, <1>5, <1>6, <1>7
  <1>9. Answered' = Answered
    BY <1>1 DEF Answered
  <1>10. ShownInv'
    BY <1>1, <1>8, <1>9, ShownQuiet DEF AnswerInv
  <1>11. SentInv'
    <2>1. program \in Seq(Kind) /\ Len(received) \in Nat /\ Len(received') \in Nat
      BY <1>0, <1>2, Lengths, LenProperties DEF DataType, WorldType
    <2>2. Len(received') = Len(received) + 1
      BY <1>2, <1>3, <1>4, AppendProperties DEF r
    <2>3. Len(received') >= Len(received)
      BY <2>1, <2>2
    <2> QED  BY <1>1, <2>1, <2>3, SentQuiet DEF AnswerInv
  <1>12. FileInv' /\ KeptInv'
    <2>1. N' = N
      BY <1>1 DEF N
    <2> QED  BY <1>1, <2>1 DEF AnswerInv, FileInv, KeptInv, Pending
  <1> QED  BY <1>10, <1>11, <1>12 DEF AnswerInv

LEMMA PiecesLeft ==
    ASSUME NEW l \in 1 .. FileChunks, NEW f \in 1 .. N
    PROVE  LET x == <<<<f, "data", FileChunks + 1 - l>>>>
               s == [k \in 1 .. l - 1 |-> <<f, "data", FileChunks - (l - 1) + k>>]
           IN  /\ x \o s = [k \in 1 .. l |-> <<f, "data", FileChunks - l + k>>]
               /\ x \in Seq(Piece) /\ s \in Seq(Piece)
  <1> DEFINE p(i) == <<f, "data", i>>
             m == FileChunks - l
             x == <<p(m + 1)>>
             s == [k \in 1 .. l - 1 |-> p(m + 1 + k)]
             q == [k \in 1 .. l |-> p(m + k)]
  <1>1. FileChunks \in Nat /\ l \in Nat /\ l - 1 \in Nat /\ m \in Nat /\ l >= 1
    BY BoundsAssumption
  <1>2. FileChunks + 1 - l = m + 1 /\ FileChunks - (l - 1) = m + 1
    BY <1>1
  <1>3. \A i \in 0 .. FileChunks : p(i) \in Piece
    BY DEF Piece
  <1>4. \A k \in 1 .. l : m + k \in 0 .. FileChunks
    BY <1>1
  <1>5. m + 1 \in 0 .. FileChunks /\ \A k \in 1 .. l - 1 : m + 1 + k \in 0 .. FileChunks
    BY <1>1
  <1> HIDE DEF m, p
  <1>6. x \in Seq(Piece) /\ Len(x) = 1 /\ x[1] = p(m + 1)
    BY <1>3, <1>5
  <1>7. s \in Seq(Piece) /\ Len(s) = l - 1 /\ \A k \in 1 .. l - 1 : s[k] = p(m + 1 + k)
    BY <1>1, <1>3, <1>5
  <1>8. q \in Seq(Piece) /\ Len(q) = l /\ \A k \in 1 .. l : q[k] = p(m + k)
    BY <1>1, <1>3, <1>4
  <1> HIDE DEF x, s, q
  <1>9. /\ x \o s \in Seq(Piece) /\ Len(x \o s) = Len(x) + Len(s)
        /\ \A i \in 1 .. Len(x) : (x \o s)[i] = x[i]
        /\ \A i \in 1 .. Len(s) : (x \o s)[Len(x) + i] = s[i]
    <2>1. x \in Seq(Piece) /\ s \in Seq(Piece)
      BY <1>6, <1>7
    <2> QED  BY <2>1, ConcatBegins
  <1>10. Len(x \o s) = Len(q)
    BY <1>1, <1>6, <1>7, <1>8, <1>9
  <1>11. ASSUME NEW k \in 1 .. l PROVE (x \o s)[k] = q[k]
    <2>1. CASE k = 1
      <3>1. (x \o s)[1] = x[1]
        BY <1>6, <1>9
      <3> QED  BY <1>6, <1>8, <2>1, <3>1
    <2>2. CASE k # 1
      <3>1. k - 1 \in 1 .. l - 1 /\ 1 + (k - 1) = k /\ m + 1 + (k - 1) = m + k
        BY <1>1, <2>2
      <3>2. (x \o s)[1 + (k - 1)] = s[k - 1]
        BY <1>6, <1>7, <1>9, <3>1
      <3>3. s[k - 1] = p(m + 1 + (k - 1))
        BY <1>7, <3>1
      <3> QED  BY <1>8, <3>1, <3>2, <3>3
    <2> QED  BY <2>1, <2>2
  <1>12. x \o s = q
    BY <1>8, <1>9, <1>10, <1>11, SeqEqual
  <1> QED  BY <1>2, <1>6, <1>7, <1>12 DEF x, s, q, m, p

LEMMA RefillAnswer ==
    ASSUME BaseInv, AnswerInv, Refill PROVE AnswerInv'
  <1>0. DataType /\ PlaceInv
    BY DEF BaseInv
  <1>1. /\ program' = program /\ eager' = eager /\ sent' = sent /\ received' = received
        /\ sock' = sock /\ pc = "write" /\ pc' = "flush"
    BY DEF Refill, KeepClient
  <1>2. /\ conn' \in Conn
        /\ conn'.state = conn.state /\ conn'.request = conn.request /\ conn'.file = conn.file
        /\ conn'.response = conn.response /\ (conn.closed => conn'.closed)
        /\ \/ /\ conn'.action = conn.action /\ conn'.left = conn.left
              /\ conn'.write_buffer = conn.write_buffer
           \/ /\ conn.action = "FileDownload" /\ conn.write_buffer = <<>>
              /\ conn.left = 0 => /\ conn'.action = "None" /\ conn'.left = 0
                                  /\ conn'.write_buffer = <<>>
              /\ conn.left # 0 =>
                    /\ conn'.action = "FileDownload" /\ conn'.left = conn.left - 1
                    /\ conn'.write_buffer =
                          <<<<conn.file, "data", FileChunks + 1 - conn.left>>>>
    BY <1>0, RefillIs
  <1>3. Answered' = Answered /\ N' = N
    BY <1>1, <1>2 DEF Answered, N
  <1>4. ShownInv'
    <2>1. CASE /\ conn'.action = conn.action /\ conn'.left = conn.left
               /\ conn'.write_buffer = conn.write_buffer
      <3>1. Shown' = Shown
        BY <1>1, <2>1 DEF Shown
      <3> QED  BY <1>1, <1>2, <1>3, <2>1, <3>1, ShownQuiet DEF AnswerInv
    <2>2. CASE /\ conn.action = "FileDownload" /\ conn.write_buffer = <<>> /\ conn.left = 0
               /\ conn'.action = "None" /\ conn'.left = 0 /\ conn'.write_buffer = <<>>
      <3>1. Shown' = Shown
        BY <1>1, <2>2 DEF Shown
      <3>2. Rest = <<>>
        BY <1>0, <2>2, ShownIs
      <3>3. Rest' = <<>>
        BY <2>2 DEF Rest
      <3> QED  BY <1>1, <1>3, <3>1, <3>2, <3>3, AnswersSame DEF AnswerInv, ShownInv
    <2>3. CASE /\ conn.action = "FileDownload" /\ conn.write_buffer = <<>> /\ conn.left # 0
               /\ conn'.action = "FileDownload" /\ conn'.left = conn.left - 1
               /\ conn'.write_buffer = <<<<conn.file, "data", FileChunks + 1 - conn.left>>>>
      <3> DEFINE l == conn.left
                 x == <<<<conn.file, "data", FileChunks + 1 - l>>>>
                 q == [k \in 1 .. l |-> <<conn.file, "data", FileChunks - l + k>>]
                 s == [k \in 1 .. l - 1 |-> <<conn.file, "data", FileChunks - (l - 1) + k>>]
                 r == received \o sock.outbox
      <3>1. l \in 1 .. FileChunks /\ FileChunks \in Nat /\ conn.file \in 1 .. N
        <4>1. conn.left \in 0 .. FileChunks /\ conn.file \in 0 .. N
          BY <1>0 DEF DataType, Conn
        <4>2. conn.file # 0 /\ FileChunks \in Nat /\ N \in Nat
          BY <1>0, <2>3, Lengths DEF PlaceInv, Nobody
        <4> QED  BY <2>3, <4>1, <4>2
      <3>2. Rest = q /\ Rest' = s
        BY <1>2, <2>3 DEF Rest
      <3>4. x \o s = q /\ x \in Seq(Piece) /\ s \in Seq(Piece)
        BY <3>1, PiecesLeft
      <3>6. Shown' = r \o x /\ Shown = r \o <<>>
        BY <1>1, <2>3 DEF Shown
      <3>7. r \in Seq(Piece)
        BY <1>0, ShownIs
      <3> HIDE DEF x, s, q, r
      <3>8. r \o <<>> = r
        BY <3>7, ConcatEmptySeq
      <3>9. Regroups(r, x, s)
        BY <3>4, <3>7, ThreePieces
      <3>10. Shown' \o Rest' = Shown \o Rest
        BY <3>2, <3>4, <3>6, <3>8, <3>9 DEF Regroups
      <3> QED  BY <1>1, <1>3, <3>10, AnswersSame DEF AnswerInv, ShownInv
    <2> QED  BY <1>2, <2>1, <2>2, <2>3
  <1>5. SentInv'
    <2>1. program \in Seq(Kind) /\ Len(received) \in Nat
      BY <1>0, Lengths DEF DataType, WorldType
    <2> QED  BY <1>1, <2>1, SentQuiet DEF AnswerInv
  <1>6. FileInv'
    BY <1>1, <1>2, <1>3 DEF AnswerInv, FileInv
  <1>7. KeptInv'
    BY <1>1 DEF KeptInv
  <1> QED  BY <1>4, <1>5, <1>6, <1>7 DEF AnswerInv

(* A write cuts what is to be written in two.                              *)
LEMMA CutAt ==
    ASSUME NEW w \in Seq(Piece), NEW n \in 0 .. Len(w)
    PROVE  LET a == SubSeq(w, 1, n)
               b == SubSeq(w, n + 1, Len(w))
           IN  a \in Seq(Piece) /\ b \in Seq(Piece) /\ a \o b = w /\ Len(a) = n
  <1> DEFINE a == SubSeq(w, 1, n)
             b == SubSeq(w, n + 1, Len(w))
  <1>1. Len(w) \in Nat /\ \A k \in 1 .. Len(w) : w[k] \in Piece
    BY LenProperties, ElementOfSeq
  <1>2. \A k \in 1 .. n : w[k] \in Piece
    BY <1>1
  <1>3. \A k \in n + 1 .. Len(w) : w[k] \in Piece
    BY <1>1
  <1>4. n \in Int /\ n + 1 \in Int /\ Len(w) \in Int /\ 1 \in Int
    BY <1>1
  <1>5. a \in Seq(Piece) /\ b \in Seq(Piece) /\ Len(a) = n
    BY <1>2, <1>3, <1>4, SubSeqProperties
  <1>6. /\ 1 \in 1 .. Len(w) + 1 /\ n \in 1 - 1 .. Len(w) /\ Len(w) \in n .. Len(w)
    BY <1>1
  <1>7. a \o b = SubSeq(w, 1, Len(w))
    BY <1>6, ConcatAdjacentSubSeq
  <1> QED  BY <1>5, <1>7, SubSeqFull

LEMMA FlushAnswer ==
    ASSUME BaseInv, AnswerInv, Flush PROVE AnswerInv'
  <1>0. DataType /\ PlaceInv
    BY DEF BaseInv
  <1>1. /\ program' = program /\ eager' = eager /\ sent' = sent /\ received' = received
        /\ pc = "flush"
        /\ pc' = IF ~conn.closed /\ conn'.write_buffer = <<>> THEN "post" ELSE "lifecycle"
    BY DEF Flush, KeepClient
  <1>2. PICK n \in 0 .. Len(conn.write_buffer) :
           /\ sock'.outbox = sock.outbox \o SubSeq(conn.write_buffer, 1, n)
           /\ conn'.write_buffer = SubSeq(conn.write_buffer, n + 1, Len(conn.write_buffer))
           /\ conn'.closed = conn.closed /\ conn'.state = conn.state
           /\ conn'.request = conn.request /\ conn'.action = conn.action
           /\ conn'.file = conn.file /\ conn'.left = conn.left
           /\ conn'.response = conn.response
    BY <1>0, FlushIs
  <1> DEFINE r == received
             o == sock.outbox
             w == conn.write_buffer
             a == SubSeq(w, 1, n)
             b == SubSeq(w, n + 1, Len(w))
  <1>3. r \in Seq(Piece) /\ o \in Seq(Piece) /\ w \in Seq(Piece) /\ Len(w) \in Nat
    BY <1>0, ShownIs, Lengths
  <1>4. a \in Seq(Piece) /\ b \in Seq(Piece) /\ a \o b = w
    <2> HIDE DEF w
    <2>1. n \in 0 .. Len(w)
      BY <1>2 DEF w
    <2> QED  BY <1>3, <2>1, CutAt
  <1>5. Shown' = (r \o (o \o a)) \o b /\ Shown = (r \o o) \o w
    BY <1>1, <1>2 DEF Shown
  <1> HIDE DEF r, o, w, a, b
  <1>6. Regrouped(r, o, a, b)
    BY <1>3, <1>4, FourPieces
  <1>7. Shown' = Shown
    BY <1>4, <1>5, <1>6 DEF Regrouped
  <1>8. Answered' = Answered /\ N' = N
    BY <1>1, <1>2 DEF Answered, N
  <1>9. ShownInv'
    BY <1>1, <1>2, <1>7, <1>8, ShownQuiet DEF AnswerInv
  <1>10. SentInv'
    <2>1. program \in Seq(Kind) /\ Len(received) \in Nat
      BY <1>0, Lengths DEF DataType, WorldType
    <2> QED  BY <1>1, <2>1, SentQuiet DEF AnswerInv
  <1>11. FileInv'
    BY <1>1, <1>2, <1>8 DEF AnswerInv, FileInv
  <1>12. KeptInv'
    BY <1>1, <1>2 DEF KeptInv, Pending
  <1> QED  BY <1>9, <1>10, <1>11, <1>12 DEF AnswerInv

LEMMA ReadPhaseAnswer ==
    ASSUME BaseInv, AnswerInv, ReadPhase PROVE AnswerInv'
  <1>0. DataType
    BY DEF BaseInv
  <1>1. /\ program' = program /\ eager' = eager /\ sent' = sent /\ received' = received
        /\ ~conn.closed /\ pc = "read"
        /\ pc' = IF ~conn'.closed /\ conn'.buffer # <<>> THEN "request" ELSE "write"
    BY DEF ReadPhase, KeepClient
  <1>2. /\ conn'.state = conn.state /\ conn'.request = conn.request
        /\ conn'.action = conn.action /\ conn'.file = conn.file /\ conn'.left = conn.left
        /\ conn'.response = conn.response /\ conn'.write_buffer = conn.write_buffer
        /\ sock'.outbox = sock.outbox
    BY <1>0, ReadPhaseIs
  <1>3. Shown' = Shown /\ Answered' = Answered /\ N' = N
    BY <1>1, <1>2 DEF Shown, Answered, N
  <1>4. ShownInv'
    BY <1>1, <1>2, <1>3, ShownQuiet DEF AnswerInv
  <1>5. SentInv'
    <2>1. program \in Seq(Kind) /\ Len(received) \in Nat
      BY <1>0, Lengths DEF DataType, WorldType
    <2> QED  BY <1>1, <2>1, SentQuiet DEF AnswerInv
  <1>6. FileInv'
    BY <1>1, <1>2, <1>3 DEF AnswerInv, FileInv
  <1>7. KeptInv'
    BY <1>1 DEF KeptInv
  <1> QED  BY <1>4, <1>5, <1>6, <1>7 DEF AnswerInv

LEMMA PostWriteAnswer ==
    ASSUME BaseInv, WireInv, AnswerInv, PostWrite PROVE AnswerInv'
  <1>0. DataType /\ PlaceInv
    BY DEF BaseInv
  <1>1. /\ program' = program /\ eager' = eager /\ sent' = sent /\ received' = received
        /\ pc = "post"
        /\ pc' = IF conn.buffer # <<>> /\ conn.state = "RequestLine"
                 THEN "request" ELSE "lifecycle"
    BY DEF PostWrite, KeepClient
  <1>2. /\ conn'.state = conn.state /\ conn'.request = conn.request
        /\ conn'.action = conn.action /\ conn'.file = conn.file /\ conn'.left = conn.left
        /\ conn'.response = Nobody /\ conn'.write_buffer = conn.write_buffer
        /\ conn'.buffer = conn.buffer /\ conn'.closed = conn.closed
        /\ sock'.outbox = sock.outbox
    BY <1>0, PostWriteIs
  <1>3. Shown' = Shown /\ Answered' = Answered /\ N' = N
    BY <1>1, <1>2 DEF Shown, Answered, N
  <1>4. ShownInv'
    BY <1>1, <1>2, <1>3, ShownQuiet DEF AnswerInv
  <1>5. SentInv'
    <2>1. program \in Seq(Kind) /\ Len(received) \in Nat
      BY <1>0, Lengths DEF DataType, WorldType
    <2> QED  BY <1>1, <2>1, SentQuiet DEF AnswerInv
  <1>6. FileInv'
    BY <1>1, <1>2, <1>3 DEF AnswerInv, FileInv
  <1>7. KeptInv'
    <2>1. CASE conn.state = "RequestLine"
      BY <1>1, <1>2, <2>1 DEF KeptInv
    <2>2. CASE conn.state # "RequestLine"
      <3>1. conn.state = "Body" /\ ~conn.closed
        BY <1>0, <1>1, <2>2 DEF PlaceInv, WireInv, ParseInv
      <3>2. conn.buffer = <<>>
        BY <1>1, <3>1 DEF WireInv, ParseInv
      <3> QED  BY <1>2, <3>2 DEF KeptInv
    <2> QED  BY <2>1, <2>2
  <1> QED  BY <1>4, <1>5, <1>6, <1>7 DEF AnswerInv

(* When the next request is parsed nothing of a file is on its way, and a  *)
(* client that waits has all it was shown.                                 *)
LEMMA NothingLeft ==
    ASSUME DataType, PlaceInv, Orderly, WireInv, AnswerInv, conn.buffer # <<>>,
           conn.state = "RequestLine", ~conn.closed
    PROVE  /\ Rest = <<>> /\ Answered = conn.request
           /\ ~eager => conn.write_buffer = <<>>
           /\ conn.request = 0 => conn.write_buffer = <<>>
           /\ eager => conn.action # "FileDownload"
  <1>1. conn.request < N /\ conn.request + 1 \in 1 .. N /\ conn.request + 1 <= sent
    BY NextHead
  <1>2. N \in Nat /\ conn.request \in 0 .. N /\ program \in Seq(Kind)
    BY Lengths DEF DataType, WorldType, Conn
  <1>3. eager => conn.action # "FileDownload"
    BY <1>1, <1>2 DEF AnswerInv, FileInv
  <1> DEFINE r == received
             o == sock.outbox
             w == conn.write_buffer
             s == Rest
  <1>4. r \in Seq(Piece) /\ o \in Seq(Piece) /\ w \in Seq(Piece) /\ s \in Seq(Piece)
    BY ShownIs
  <1>5. Answered = conn.request
    BY DEF Answered
  <1>6. ((r \o o) \o w) \o s = Answers(conn.request)
    BY <1>5 DEF AnswerInv, ShownInv, Shown
  <1>7. eager => s = <<>>
    BY <1>3, ShownIs
  <1>8. ~eager => Len(r) >= Len(Answers(conn.request))
    <2>1. (conn.request + 1) - 1 = conn.request
      BY <1>2
    <2> QED  BY <1>1, <2>1 DEF AnswerInv, SentInv
  <1> HIDE DEF r, o, w, s
  <1>9. Len(((r \o o) \o w) \o s) = Len(r) + Len(o) + Len(w) + Len(s)
    <2>1. r \o o \in Seq(Piece) /\ Len(r \o o) = Len(r) + Len(o)
      BY <1>4, ConcatProperties
    <2> DEFINE x == r \o o
    <2>2. x \in Seq(Piece) /\ Len(x) = Len(r) + Len(o)
      BY <2>1
    <2> HIDE DEF x
    <2>3. x \o w \in Seq(Piece) /\ Len(x \o w) = Len(x) + Len(w)
      BY <1>4, <2>2, ConcatProperties
    <2> DEFINE y == x \o w
    <2>4. y \in Seq(Piece) /\ Len(y) = Len(x) + Len(w)
      BY <2>3
    <2> HIDE DEF y
    <2>5. Len(y \o s) = Len(y) + Len(s)
      BY <1>4, <2>4, ConcatProperties
    <2> QED  BY <2>2, <2>4, <2>5 DEF x, y
  <1>10. Len(r) \in Nat /\ Len(o) \in Nat /\ Len(w) \in Nat /\ Len(s) \in Nat
    BY <1>4, LenProperties
  <1>11. ~eager => w = <<>> /\ s = <<>>
    <2>1. ~eager => Len(r) >= Len(r) + Len(o) + Len(w) + Len(s)
      BY <1>6, <1>8, <1>9
    <2>2. ~eager => Len(w) = 0 /\ Len(s) = 0
      BY <1>10, <2>1
    <2> QED  BY <1>4, <2>2, EmptySeq
  <1>12. conn.request = 0 => w = <<>>
    <2>1. conn.request = 0 => Len(r) + Len(o) + Len(w) + Len(s) = 0
      BY <1>6, <1>9, NoAnswers
    <2>2. conn.request = 0 => Len(w) = 0
      BY <1>10, <2>1
    <2> QED  BY <1>4, <2>2, EmptySeq
  <1>13. s = <<>>
    BY <1>7, <1>11
  <1> QED  BY <1>3, <1>5, <1>11, <1>12, <1>13 DEF w, s

(* No body of an earlier answer is sent behind a head without one.         *)
LEMMA NothingHeld ==
    ASSUME DataType, PlaceInv, Orderly, WireInv, AnswerInv, HeldInv, conn.buffer # <<>>,
           ~conn.closed, NEW kind \in {"bare", "file"}, ParseHead(kind)
    PROVE  conn.response = Nobody
  <1>1. conn.state = "RequestLine" /\ pc = "request"
    BY DEF ParseHead
  <1>2. conn.request < N /\ conn.request \in 0 .. N /\ N \in Nat /\ conn.response \in 0 .. N
    BY <1>1, NextHead, Lengths DEF DataType, Conn
  <1>3. conn.write_buffer = <<>> => conn.response = Nobody
    BY <1>1 DEF AnswerInv, FileInv
  <1>4. CASE ~eager
    BY <1>1, <1>3, <1>4, NothingLeft
  <1>5. CASE eager /\ kind = "file"
    <2>1. conn.request = 0
      BY <1>2, <1>5, NextKind
    <2> QED  BY <1>1, <1>3, <2>1, NothingLeft
  <1>6. CASE eager /\ kind = "bare"
    <2> SUFFICES ASSUME conn.response # Nobody PROVE FALSE
      OBVIOUS
    <2>1. conn.response \in 1 .. conn.request /\ conn.response \in 1 .. N - 1
      BY <1>2 DEF HeldInv, Nobody
    <2>2. program[conn.response] \in {"page", "bare"}
      BY <1>6, <2>1 DEF Orderly, N
    <2>3. program[conn.response] # "page"
      BY <1>6, <2>1, NextKind
    <2> QED  BY <2>2, <2>3 DEF HeldInv
  <1> QED  BY <1>4, <1>5, <1>6

(* A request that is answered at once.                                     *)
LEMMA OneAnswer ==
    ASSUME DataType, PlaceInv, AnswerInv, Rest = <<>>, Answered \in 0 .. N - 1,
           program' = program, eager' = eager, sent' = sent, received' = received,
           sock'.outbox = sock.outbox,
           conn'.write_buffer = Append(conn.write_buffer, <<Answered + 1, "answer", 0>>),
           conn'.write_buffer # <<>>, program[Answered + 1] # "file",
           Answered' = Answered + 1, conn'.action = conn.action, conn'.file = conn.file,
           conn'.left = conn.left, eager => conn.action # "FileDownload"
    PROVE  AnswerInv'
  <1> DEFINE i == Answered + 1
             u == <<<<i, "answer", 0>>>>
  <1>1. N \in Nat /\ i \in 1 .. N /\ program \in Seq(Kind) /\ Len(received) \in Nat
    BY Lengths DEF DataType, WorldType
  <1>2. AnswerUnits(i) = u
    BY DEF AnswerUnits
  <1>3. u \in Seq(Piece) /\ <<i, "answer", 0>> \in Piece
    <2>1. 0 \in 0 .. FileChunks
      BY BoundsAssumption
    <2>2. <<i, "answer", 0>> \in Piece
      BY <1>1, <2>1, AnswerIsPiece
    <2> QED  BY <2>2
  <1>4. Rest' = <<>>
    <2>1. Rest' = Rest
      BY DEF Rest
    <2> QED  BY <2>1
  <1>5. u \o Rest' = AnswerUnits(i) /\ Rest' \in Seq(Piece)
    BY <1>2, <1>3, <1>4, ConcatEmptySeq, EmptySeq
  <1>6. conn'.write_buffer = conn.write_buffer \o u
    BY <1>3, ShownIs, AppendIsConcat
  <1> HIDE DEF u
  <1>7. ShownInv'
    BY <1>3, <1>5, <1>6, ShownGrows DEF AnswerInv
  <1>8. SentInv'
    BY <1>1, SentQuiet DEF AnswerInv
  <1>9. FileInv'
    BY DEF FileInv
  <1>10. KeptInv'
    BY DEF KeptInv, Pending
  <1> QED  BY <1>7, <1>8, <1>9, <1>10 DEF AnswerInv

LEMMA ParseAnswer ==
    ASSUME BaseInv, Orderly, WireInv, AnswerInv, HeldInv,
           Page \/ Bare \/ FileDownload \/ Upload("upload", "Body")
           \/ Upload("chunked", "ChunkedBody") \/ Bad
    PROVE  AnswerInv'
  <1>0. DataType /\ PlaceInv
    BY DEF BaseInv
  <1>1. /\ program' = program /\ eager' = eager /\ sent' = sent /\ sock' = sock
        /\ received' = received
    BY DEF Page, Bare, FileDownload, Upload, Bad, KeepWorld, KeepClient
  <1> DEFINE i == conn.request + 1
  <1>2. \E kind : ParseHead(kind)
    BY DEF Page, Bare, FileDownload, Upload, Bad
  <1>3. conn.buffer # <<>> /\ ~conn.closed /\ conn.state = "RequestLine" /\ pc = "request"
    BY <1>0, <1>2, ToParse
  <1>4. /\ conn.request < N /\ Head(conn.buffer)[1] = i /\ i \in 1 .. N
        /\ N \in Nat /\ conn.request \in 0 .. N - 1
    <2>1. conn.request < N /\ Head(conn.buffer) = <<i, "head">> /\ i \in 1 .. N
      BY <1>0, <1>3, NextHead
    <2>2. conn.request \in 0 .. N /\ N \in Nat
      BY <1>0, Lengths DEF DataType, Conn
    <2> QED  BY <2>1, <2>2
  <1>5. /\ Rest = <<>> /\ Answered = conn.request /\ Answered \in 0 .. N - 1
        /\ ~eager => conn.write_buffer = <<>>
        /\ conn.request = 0 => conn.write_buffer = <<>>
        /\ eager => conn.action # "FileDownload"
    BY <1>0, <1>3, <1>4, NothingLeft
  <1> HIDE DEF i
  <1>6. i = Answered + 1
    BY <1>5 DEF i
  <1>7. CASE Page \/ Bad
    <2>1. /\ conn'.request = i /\ conn'.state = "RequestLine"
          /\ conn'.write_buffer = Append(conn.write_buffer, <<i, "answer", 0>>)
          /\ conn'.write_buffer # <<>>
          /\ conn'.action = conn.action /\ conn'.file = conn.file /\ conn'.left = conn.left
      BY <1>0, <1>3, <1>4, <1>7, PageIs, BadIs
    <2>2. program[i] # "file"
      BY <1>4, <1>7 DEF Page, Bad, ParseHead
    <2>3. Answered' = i
      BY <2>1 DEF Answered
    <2> QED  BY <1>0, <1>1, <1>5, <1>6, <2>1, <2>2, <2>3, OneAnswer
  <1>8. CASE FileDownload
    <2>1. ParseHead("file") /\ pc' = "finish" /\ program[i] = "file"
      BY <1>4, <1>8 DEF FileDownload, ParseHead
    <2>2. eager => N = 1
      BY <1>0, <1>3, <2>1, NextKind
    <2>3. conn.response = Nobody
      BY <1>0, <1>3, <2>1, NothingHeld
    <2> DEFINE u == <<<<i, "head", 0>>>>
    <2>4. /\ conn'.request = i /\ conn'.state = "RequestLine"
          /\ conn'.write_buffer = Append(conn.write_buffer, <<i, "head", 0>>)
          /\ conn'.write_buffer # <<>> /\ conn'.action = "FileDownload"
          /\ conn'.file = i /\ conn'.left = FileChunks
      BY <1>0, <1>3, <1>4, <1>8, <2>3, FileDownloadIs
    <2>5. conn'.write_buffer = conn.write_buffer \o u
      <3>1. <<i, "head", 0>> \in Piece
        BY <1>4, BoundsAssumption DEF Piece
      <3> QED  BY <1>0, <2>4, <3>1, ShownIs, AppendIsConcat
    <2> DEFINE t == [k \in 1 .. FileChunks |-> <<i, "data", k>>]
    <2>6. u \in Seq(Piece) /\ t \in Seq(Piece)
      <3>1. <<i, "head", 0>> \in Piece /\ \A k \in 1 .. FileChunks : <<i, "data", k>> \in Piece
        BY <1>4, BoundsAssumption DEF Piece
      <3>2. FileChunks \in Nat
        BY BoundsAssumption
      <3> QED  BY <3>1, <3>2
    <2>7. Rest' = t
      <3>1. \A k \in 1 .. FileChunks : FileChunks - FileChunks + k = k
        BY BoundsAssumption
      <3>2. Rest' = [k \in 1 .. FileChunks |-> <<i, "data", FileChunks - FileChunks + k>>]
        BY <2>4 DEF Rest
      <3> QED  BY <3>1, <3>2
    <2>8. u \o t = AnswerUnits(i)
      BY <2>1 DEF AnswerUnits
    <2> HIDE DEF u, t
    <2>9. Answered' = i
      BY <2>4 DEF Answered
    <2>10. ShownInv'
      BY <1>0, <1>1, <1>5, <1>6, <2>5, <2>6, <2>7, <2>8, <2>9, ShownGrows DEF AnswerInv
    <2>11. SentInv'
      <3>1. program \in Seq(Kind) /\ Len(received) \in Nat
        BY <1>0, Lengths DEF DataType, WorldType
      <3> QED  BY <1>1, <3>1, SentQuiet DEF AnswerInv
    <2>12. FileInv'
      <3>1. N' = N
        BY <1>1 DEF N
      <3>2. eager => i = N
        BY <1>4, <2>2
      <3> QED  BY <1>1, <2>4, <3>1, <3>2 DEF FileInv
    <2>13. KeptInv'
      BY <2>4 DEF KeptInv, Pending
    <2> QED  BY <2>10, <2>11, <2>12, <2>13 DEF AnswerInv
  <1>9. CASE Upload("upload", "Body")
    <2>1. pc' = "request"
      BY <1>9 DEF Upload
    <2>2. /\ conn'.request = i /\ conn'.state = "Body" /\ conn'.action = "Upload"
          /\ conn'.write_buffer = conn.write_buffer /\ conn'.response = conn.response
          /\ conn'.closed = conn.closed
      BY <1>0, <1>4, <1>9, UploadIs
    <2>3. Answered' = Answered
      BY <1>4, <1>5, <2>2 DEF Answered, i
    <2>4. Shown' = Shown /\ Rest' = Rest
      BY <1>1, <1>5, <2>2 DEF Shown, Rest
    <2>5. ShownInv'
      BY <1>1, <2>3, <2>4, AnswersSame DEF AnswerInv, ShownInv
    <2>6. SentInv'
      <3>1. program \in Seq(Kind) /\ Len(received) \in Nat
        BY <1>0, Lengths DEF DataType, WorldType
      <3> QED  BY <1>1, <3>1, SentQuiet DEF AnswerInv
    <2>7. FileInv'
      BY <1>1, <1>3, <2>1, <2>2 DEF AnswerInv, FileInv
    <2>8. KeptInv'
      BY <2>1 DEF KeptInv
    <2> QED  BY <2>5, <2>6, <2>7, <2>8 DEF AnswerInv
  <1>10. CASE Upload("chunked", "ChunkedBody")
    <2>1. ParseHead("chunked")
      BY <1>10 DEF Upload
    <2> QED  BY <1>0, <1>3, <2>1, NextKind
  <1>11. CASE Bare
    <2>1. ParseHead("bare") /\ program[i] = "bare"
      BY <1>4, <1>11 DEF Bare, ParseHead
    <2>2. conn.response = Nobody
      BY <1>0, <1>3, <2>1, NothingHeld
    <2>3. /\ conn'.request = i /\ conn'.state = "RequestLine"
          /\ conn'.write_buffer = Append(conn.write_buffer, <<i, "answer", 0>>)
          /\ conn'.write_buffer # <<>>
          /\ conn'.action = conn.action /\ conn'.file = conn.file /\ conn'.left = conn.left
      BY <1>0, <1>3, <1>4, <1>11, <2>2, BareIs
    <2>4. Answered' = i
      BY <2>3 DEF Answered
    <2> QED  BY <1>0, <1>1, <1>5, <1>6, <2>1, <2>3, <2>4, OneAnswer
  <1> QED  BY <1>7, <1>8, <1>9, <1>10, <1>11

(* The upload's answer, or the refusal of its body.                        *)
LEMMA UploadAnswered ==
    ASSUME BaseInv, Orderly, WireInv, AnswerInv, BodyNotStored \/ Finish,
           conn.state # "RequestLine", conn.request = N, Uploads, conn.action = "Upload",
           Finish => conn.upload_manager # Nobody
    PROVE  AnswerInv'
  <1>0. DataType /\ PlaceInv
    BY DEF BaseInv
  <1>1. /\ program' = program /\ eager' = eager /\ sent' = sent /\ sock' = sock
        /\ received' = received
    BY DEF BodyNotStored, Finish, KeepWorld, KeepClient
  <1>2. /\ conn'.state = "RequestLine" /\ conn'.request = N
        /\ conn'.write_buffer = Append(conn.write_buffer, <<N, "answer", 0>>)
        /\ conn'.write_buffer # <<>>
        /\ conn'.action = conn.action /\ conn'.file = conn.file /\ conn'.left = conn.left
    <2>1. CASE BodyNotStored
      BY <1>0, <2>1, BodyNotStoredIs
    <2>2. CASE Finish
      <3>1. conn.upload_manager # Nobody
        BY <2>2
      <3> QED  BY <1>0, <2>2, <3>1, FinishIs
    <2> QED  BY <2>1, <2>2
  <1>3. N \in Nat /\ N # 0 /\ program[N] = "upload"
    BY <1>0, Lengths DEF Uploads
  <1>4. Answered = N - 1
    BY DEF Answered
  <1>5. Answered' = N
    BY <1>2 DEF Answered
  <1>6. Answered + 1 = N /\ Answered \in 0 .. N - 1 /\ Answered' = Answered + 1
    BY <1>3, <1>4, <1>5
  <1>7. Rest = <<>>
    BY <1>0, ShownIs
  <1> QED  BY <1>0, <1>1, <1>2, <1>3, <1>6, <1>7, OneAnswer

LEMMA RequestAnswer ==
    ASSUME BaseInv, Orderly, WireInv, AnswerInv,
           Body \/ BodyNotStored \/ ChunkedBody \/ ChunkRefused \/ Finish
    PROVE  AnswerInv'
  <1>0. DataType /\ PlaceInv
    BY DEF BaseInv
  <1>1. CASE Body
    <2>1. /\ program' = program /\ eager' = eager /\ sent' = sent /\ sock' = sock
          /\ received' = received /\ conn.state = "Body" /\ pc = "request"
      BY <1>1 DEF Body, KeepWorld, KeepClient
    <2>2. /\ conn'.state \in {"Body", "Complete"} /\ conn'.request = conn.request
          /\ conn'.action = conn.action /\ conn'.file = conn.file /\ conn'.left = conn.left
          /\ conn'.response = conn.response /\ conn'.write_buffer = conn.write_buffer
          /\ conn'.closed = conn.closed
      BY <1>0, <1>1, BodyIs
    <2>3. conn'.buffer = <<>>
      BY <1>0, <1>1, BodyTakesAll
    <2>4. Shown' = Shown /\ Answered' = Answered
      BY <2>1, <2>2 DEF Shown, Answered
    <2>5. N' = N
      BY <2>1 DEF N
    <2>6. ShownInv'
      BY <2>1, <2>2, <2>4, ShownQuiet DEF AnswerInv
    <2>7. SentInv'
      <3>1. program \in Seq(Kind) /\ Len(received) \in Nat
        BY <1>0, Lengths DEF DataType, WorldType
      <3> QED  BY <2>1, <3>1, SentQuiet DEF AnswerInv
    <2>8. FileInv'
      BY <2>1, <2>2, <2>5 DEF AnswerInv, FileInv
    <2>9. KeptInv'
      BY <2>3 DEF KeptInv
    <2> QED  BY <2>6, <2>7, <2>8, <2>9 DEF AnswerInv
  <1>2. CASE BodyNotStored
    <2>1. conn.state = "Body"
      BY <1>2 DEF BodyNotStored
    <2>2. ~Finish
      BY <1>2, <2>1 DEF BodyNotStored, Finish
    <2>3. conn.request = N /\ Uploads /\ conn.action = "Upload"
      BY <1>0, <2>1, BodyWaits
    <2> QED  BY <1>2, <2>1, <2>2, <2>3, UploadAnswered
  <1>3. CASE ChunkedBody \/ ChunkRefused
    BY <1>3 DEF ChunkedBody, ChunkRefused, WireInv, ParseInv
  <1>4. CASE Finish
    <2>1. /\ program' = program /\ eager' = eager /\ sent' = sent /\ sock' = sock
          /\ received' = received /\ pc = "finish" /\ pc' = "rearm"
      BY <1>4 DEF Finish, KeepWorld, KeepClient
    <2>2. CASE conn.state = "RequestLine"
      <3>1. conn.upload_manager = Nobody
        <4>1. program[conn.request] \in {"page", "bare", "file"}
          BY <2>1, <2>2 DEF WireInv, ParseInv
        <4>2. conn.upload_manager # Nobody => conn.request = N /\ program[N] = "upload"
          BY DEF WireInv, ParseInv, Uploads
        <4> QED  BY <4>1, <4>2
      <3>2. /\ conn'.state = "RequestLine" /\ conn'.request = conn.request
            /\ conn'.action = conn.action /\ conn'.file = conn.file /\ conn'.left = conn.left
            /\ conn'.response = conn.response /\ conn'.write_buffer = conn.write_buffer
            /\ conn'.buffer = conn.buffer /\ conn'.closed = conn.closed
        BY <1>0, <1>4, <3>1, FinishIs
      <3>3. Shown' = Shown /\ Answered' = Answered
        BY <2>1, <2>2, <3>2 DEF Shown, Answered
      <3>4. N' = N
        BY <2>1 DEF N
      <3>5. ShownInv'
        BY <2>1, <3>2, <3>3, ShownQuiet DEF AnswerInv
      <3>6. SentInv'
        <4>1. program \in Seq(Kind) /\ Len(received) \in Nat
          BY <1>0, Lengths DEF DataType, WorldType
        <4> QED  BY <2>1, <4>1, SentQuiet DEF AnswerInv
      <3>7. FileInv'
        BY <2>1, <3>2, <3>4 DEF AnswerInv, FileInv
      <3>8. KeptInv'
        BY <2>1, <3>2 DEF AnswerInv, KeptInv, Pending
      <3> QED  BY <3>5, <3>6, <3>7, <3>8 DEF AnswerInv
    <2>3. CASE conn.state # "RequestLine"
      <3>1. conn.state = "Complete"
        BY <2>1, <2>3 DEF WireInv, ParseInv
      <3>2. conn.request = N /\ Uploads /\ conn.action = "Upload" /\ conn.upload_manager = N
        BY <2>3, <3>1 DEF WireInv, ParseInv
      <3>3. conn.upload_manager # Nobody
        BY <3>2 DEF Uploads, Nobody
      <3> QED  BY <1>4, <2>3, <3>2, <3>3, UploadAnswered
    <2> QED  BY <2>2, <2>3
  <1> QED  BY <1>1, <1>2, <1>3, <1>4

(* A response is held, replaced by that of an upload, or made anew.        *)
LEMMA HeldSame ==
    ASSUME HeldInv, program' = program, conn'.request = conn.request,
           conn'.response \in {conn.response, Nobody}
    PROVE  HeldInv'
  BY DEF HeldInv, Nobody

LEMMA HeldNew ==
    ASSUME N \in Nat, program' = program, conn'.request \in 1 .. N,
           conn'.response = conn'.request, program[conn'.request] \notin {"bare", "file"}
    PROVE  HeldInv'
  BY DEF HeldInv

LEMMA ParseHeld ==
    ASSUME BaseInv, Orderly, WireInv, HeldInv,
           Page \/ Bare \/ FileDownload \/ Upload("upload", "Body")
           \/ Upload("chunked", "ChunkedBody") \/ Bad
    PROVE  HeldInv'
  <1>0. DataType /\ PlaceInv /\ N \in Nat
    BY Lengths DEF BaseInv
  <1>1. program' = program
    BY DEF Page, Bare, FileDownload, Upload, Bad, KeepWorld, KeepClient
  <1>2. \E kind : ParseHead(kind)
    BY DEF Page, Bare, FileDownload, Upload, Bad
  <1>3. conn.buffer # <<>> /\ ~conn.closed /\ conn.state = "RequestLine" /\ pc = "request"
    BY <1>0, <1>2, ToParse
  <1>4. Head(conn.buffer)[1] = conn.request + 1 /\ conn.request \in 0 .. N
    BY <1>0, <1>3, NextHead DEF DataType, Conn
  <1>5. CASE Page \/ Bad
    <2>1. conn'.request = Head(conn.buffer)[1] /\ conn'.response = conn'.request
          /\ conn'.request \in 1 .. N
      BY <1>0, <1>5, PageIs, BadIs
    <2>2. program[Head(conn.buffer)[1]] \in {"page", "bad"}
      BY <1>5 DEF Page, Bad, ParseHead
    <2> QED  BY <1>0, <1>1, <2>1, <2>2, HeldNew
  <1>6. CASE ~(Page \/ Bad)
    <2>1. conn'.request = conn.request + 1 /\ conn'.response = conn.response
      BY <1>0, <1>4, <1>6, BareIs, FileDownloadIs, UploadIs
    <2>2. conn.response \in 0 .. N
      BY <1>0 DEF DataType, Conn
    <2> QED  BY <1>0, <1>1, <1>4, <2>1, <2>2 DEF HeldInv, Nobody
  <1> QED  BY <1>5, <1>6

LEMMA RequestHeld ==
    ASSUME BaseInv, Orderly, WireInv, HeldInv,
           Body \/ BodyNotStored \/ ChunkedBody \/ ChunkRefused \/ Finish
    PROVE  HeldInv'
  <1>0. DataType /\ PlaceInv /\ N \in Nat
    BY Lengths DEF BaseInv
  <1>1. program' = program
    BY DEF Body, BodyNotStored, ChunkedBody, ChunkRefused, Finish, KeepWorld, KeepClient
  <1>2. CASE Body
    BY <1>0, <1>1, <1>2, BodyIs, HeldSame
  <1>3. CASE ChunkedBody \/ ChunkRefused
    BY <1>3 DEF ChunkedBody, ChunkRefused, WireInv, ParseInv
  <1>4. CASE BodyNotStored
    <2>1. conn.state = "Body" /\ conn.request = N /\ program[N] = "upload"
      BY <1>4 DEF BodyNotStored, WireInv, ParseInv, Uploads
    <2>2. conn'.request = N /\ conn'.response = N /\ conn'.request \in 1 .. N
      BY <1>0, <1>4, <2>1, BodyNotStoredIs
    <2> QED  BY <1>0, <1>1, <2>1, <2>2, HeldNew
  <1>5. CASE Finish
    <2>1. CASE conn.upload_manager = Nobody
      BY <1>0, <1>1, <1>5, <2>1, FinishIs, HeldSame
    <2>2. CASE conn.upload_manager # Nobody
      <3>1. conn.request = N /\ program[N] = "upload"
        BY <2>2 DEF WireInv, ParseInv, Uploads
      <3>2. conn'.request = N /\ conn'.response = N /\ conn'.request \in 1 .. N
        BY <1>0, <1>5, <2>2, <3>1, FinishIs
      <3> QED  BY <1>0, <1>1, <3>1, <3>2, HeldNew
    <2> QED  BY <2>1, <2>2
  <1> QED  BY <1>2, <1>3, <1>4, <1>5

LEMMA HeldStep ==
    ASSUME BaseInv, Orderly, WireInv, HeldInv, [Next]_vars PROVE HeldInv'
  <1>0. DataType /\ PlaceInv
    BY DEF BaseInv
  <1>1. CASE \/ UNCHANGED vars \/ Client \/ Poll \/ SkipRead \/ SkipWrite \/ Lifecycle \/ Rearm
    <2>1. program' = program /\ conn' = conn
      BY <1>1 DEF vars, Client, ClientSend, ClientReceive, ClientClose, Poll, SkipRead,
                  SkipWrite, Lifecycle, Rearm, KeepClient
    <2> QED  BY <2>1 DEF HeldInv
  <1>2. CASE ReadPhase \/ Refill \/ Flush \/ PostWrite
    <2>1. program' = program
      BY <1>2 DEF ReadPhase, Refill, Flush, PostWrite, KeepClient
    <2>2. conn'.request = conn.request /\ conn'.response \in {conn.response, Nobody}
      BY <1>0, <1>2, ReadPhaseIs, RefillIs, FlushIs, PostWriteIs
    <2> QED  BY <2>1, <2>2, HeldSame
  <1>3. CASE Request /\ ~Rearm
    BY <1>3, ParseHeld, RequestHeld DEF Request
  <1> QED  BY <1>1, <1>2, <1>3 DEF Next, Handler, Request

-----------------------------------------------------------------------------
(* OrdInv is inductive for the clients the handler serves faithfully.      *)

LEMMA OrderlyInit == ASSUME Init, Orderly PROVE OrdInv
  <1>1. DataType
    BY BaseInit DEF BaseInv
  <1>2. /\ N \in Nat /\ Len(Wire) \in Nat /\ program \in Seq(Kind)
    BY <1>1, Lengths DEF DataType, WorldType
  <1>3. /\ conn.buffer = <<>> /\ sock.inbox = <<>> /\ sock.outbox = <<>> /\ received = <<>>
        /\ conn.write_buffer = <<>> /\ sent = 0 /\ conn.state = "RequestLine"
        /\ conn.request = 0 /\ conn.action = "None" /\ conn.upload_manager = Nobody
        /\ conn.response = Nobody /\ ~conn.closed /\ pc = "wait" /\ DOMAIN disk = {}
    BY DEF Init, Nobody
  <1>4. Waiting = <<>> /\ Taken = 0
    <2>1. Waiting = <<>>
      <3>1. conn.buffer \in Seq(Unit)
        BY <1>1 DEF DataType, Conn
      <3> QED  BY <1>3, <3>1, ConcatEmptySeq DEF Waiting
    <2>2. Len(Waiting) = 0
      BY <2>1
    <2>3. Taken = 0 - 0
      BY <1>3, <2>2 DEF Taken
    <2> QED  BY <2>1, <2>3
  <1>5. WaitInv
    BY <1>4 DEF WaitInv
  <1>6. ParseInv
    <2>1. N = 0 => Len(Wire) = 0
      BY <1>1, OrderlyWire DEF Uploads
    <2> QED  BY <1>2, <1>3, <1>4, <2>1 DEF ParseInv
  <1>7. StoredInv
    BY <1>3 DEF StoredInv
  <1>8. ShownInv
    BY <1>3, NoAnswers DEF ShownInv, Shown, Rest, Answered
  <1>9. SentInv
    BY <1>2, <1>3 DEF SentInv
  <1>10. FileInv /\ KeptInv /\ HeldInv
    BY <1>3 DEF FileInv, KeptInv, HeldInv
  <1> QED  BY <1>5, <1>6, <1>7, <1>8, <1>9, <1>10 DEF OrdInv, WireInv, AnswerInv

LEMMA OrderlyStep == ASSUME BaseInv, Orderly, OrdInv, [Next]_vars PROVE OrdInv'
  <1>0. DataType /\ WireInv /\ AnswerInv /\ HeldInv /\ HeldInv'
    BY HeldStep DEF BaseInv, OrdInv
  <1>1. CASE ClientSend
    BY <1>0, <1>1, ClientSendWire, ClientSendAnswer DEF OrdInv
  <1>2. CASE ClientReceive
    BY <1>0, <1>2, QuietWire, ClientReceiveAnswer DEF OrdInv
  <1>3. CASE ClientClose \/ Poll \/ SkipRead \/ SkipWrite \/ Lifecycle \/ Rearm
    <2>1. /\ program' = program /\ eager' = eager /\ sent' = sent /\ conn' = conn
          /\ received' = received
          /\ pc' = pc \/ pc \notin {"request", "post", "flush"}
      BY <1>3 DEF ClientClose, Poll, SkipRead, SkipWrite, Lifecycle, Rearm, KeepClient
    <2>2. sock'.outbox = sock.outbox
      <3>1. CASE Poll
        BY <1>0, <3>1 DEF Poll, DataType, Sock
      <3> QED  BY <1>0, <1>3, <3>1, ClientCloseIs, RearmIs DEF SkipRead, SkipWrite, Lifecycle
    <2>3. AnswerInv'
      BY <1>0, <2>1, <2>2, SameConnAnswer
    <2> QED  BY <1>0, <1>3, <2>3, QuietWire DEF OrdInv
  <1>4. CASE ReadPhase
    BY <1>0, <1>4, ReadPhaseWire, ReadPhaseAnswer DEF OrdInv
  <1>5. CASE Refill
    BY <1>0, <1>5, QuietWire, RefillAnswer DEF OrdInv
  <1>6. CASE Flush
    BY <1>0, <1>6, QuietWire, FlushAnswer DEF OrdInv
  <1>7. CASE PostWrite
    BY <1>0, <1>7, QuietWire, PostWriteAnswer DEF OrdInv
  <1>8. CASE \/ Page \/ Bare \/ FileDownload \/ Upload("upload", "Body")
             \/ Upload("chunked", "ChunkedBody") \/ Bad
    BY <1>0, <1>8, ParseWire, ParseAnswer DEF OrdInv
  <1>9. CASE Body \/ BodyNotStored \/ ChunkedBody \/ ChunkRefused \/ Finish
    BY <1>0, <1>9, BodyWire, RequestWire, RequestAnswer DEF OrdInv
  <1>10. CASE UNCHANGED vars
    <2>1. /\ Waiting' = Waiting /\ Taken' = Taken /\ Wire' = Wire /\ N' = N
          /\ Uploads' = Uploads /\ Unit' = Unit
      BY <1>10, TakenSame, SameProgram, SameUploads DEF vars
    <2>2. WireInv'
      BY <1>0, <1>10, <2>1 DEF vars, WireInv, WaitInv, ParseInv, StoredInv
    <2>3. AnswerInv'
      BY <1>0, <1>10, SameConnAnswer DEF vars
    <2> QED  BY <1>0, <2>2, <2>3 DEF OrdInv
  <1> QED  BY <1>1, <1>2, <1>3, <1>4, <1>5, <1>6, <1>7, <1>8, <1>9, <1>10
           DEF Next, Handler, Client, Request

(* A client's program is its own.                                          *)
LEMMA OrderlyStays == ASSUME [Next]_vars PROVE Orderly' = Orderly
  <1>1. program' = program /\ eager' = eager
    BY DEF Next, Handler, Client, Request, ClientSend, ClientReceive, ClientClose, Poll,
           SkipRead, ReadPhase, SkipWrite, Refill, Flush, PostWrite, Lifecycle, Page, Bare,
           FileDownload, Upload, Bad, Body, BodyNotStored, ChunkedBody, ChunkRefused,
           Finish, Rearm, KeepWorld, KeepClient, vars
  <1> QED  BY <1>1, SameProgram

(* For an orderly client the parser stands where the answers given say it  *)
(* does: what it took from the wire, what is in the upload's file, and     *)
(* what was written with what is left of a file agree on the request that  *)
(* is being served.                                                        *)
THEOREM OrderlyAlways == Spec => [](Orderly => OrdInv)
  <1>1. Init => (Orderly => OrdInv)
    BY OrderlyInit
  <1>2. [Next]_vars => Orderly' = Orderly
    BY OrderlyStays
  <1>3. BaseInv /\ (Orderly => OrdInv) /\ [Next]_vars => (Orderly => OrdInv)'
    BY <1>2, OrderlyStep
  <1> QED  BY <1>1, <1>3, BaseAlways, PTL DEF Spec

-----------------------------------------------------------------------------
(* The connection implements Exchange towards an orderly client.           *)

LEMMA FlattensTheSame == ASSUME NEW q PROVE Seen!FlattenSeq(q) = FlattenSeq(q)
  BY DEF Seen!FlattenSeq, FlattenSeq

LEMMA DueIs ==
    ASSUME DataType, NEW n \in 0 .. N
    PROVE  Seen!Due(n) = Answers(n)
  <1>1. N \in Nat
    BY Lengths
  <1>2. \A i \in 1 .. n : Replies[i] = AnswerUnits(i)
    BY <1>1 DEF Replies, N
  <1>3. [i \in 1 .. n |-> Replies[i]] = [i \in 1 .. n |-> AnswerUnits(i)]
    BY <1>2
  <1>4. Seen!Due(n) = FlattenSeq([i \in 1 .. n |-> Replies[i]])
    BY FlattensTheSame DEF Seen!Due
  <1> QED  BY <1>3, <1>4 DEF Answers

(* What was answered was asked before, and what is given are its answers.  *)
LEMMA GivenWasAsked ==
    ASSUME DataType, PlaceInv, WireInv, ShownInv
    PROVE  /\ Asked \in 0 .. N /\ Answered \in 0 .. Asked /\ (sent <= N => Asked = sent)
           /\ Given \in Seq(Piece) /\ Passed \in Seq(Piece)
           /\ Answers(Asked) \in Seq(Piece) /\ IsPrefix(Given, Answers(Asked))
  <1>1. /\ N \in Nat /\ program \in Seq(Kind) /\ conn.request \in 0 .. N
        /\ sent \in Nat /\ Taken \in Int /\ Taken + Len(Waiting) = sent /\ Len(Waiting) \in Nat
    BY Lengths, WaitingIs DEF DataType, WorldType, Conn
  <1>2. Asked = IF sent < N THEN sent ELSE N
    BY DEF Asked, SmallestOf, N
  <1>3. conn.request <= sent
    BY <1>1 DEF WireInv, ParseInv
  <1>4. Answered \in 0 .. conn.request
    <2>1. conn.state # "RequestLine" => conn.request # 0
      BY DEF PlaceInv, Nobody
    <2> QED  BY <1>1, <2>1 DEF Answered
  <1>5. Asked \in 0 .. N /\ Answered \in 0 .. Asked /\ (sent <= N => Asked = sent)
    BY <1>1, <1>2, <1>3, <1>4
  <1>6. /\ Shown \in Seq(Piece) /\ Rest \in Seq(Piece) /\ Passed \in Seq(Piece)
        /\ Given = Shown
    BY ShownIs DEF Given, Passed, Shown
  <1>7. IsPrefix(Shown, Answers(Answered))
    BY <1>6, ConcatIsPrefix DEF ShownInv
  <1>8. IsPrefix(Answers(Answered), Answers(Asked))
    BY <1>1, <1>5, AnswersBegin
  <1>9. Answers(Answered) \in Seq(Piece) /\ Answers(Asked) \in Seq(Piece)
    <2>1. Answered \in 0 .. N
      BY <1>1, <1>5
    <2> QED  BY <1>1, <1>5, <2>1, AnswersGrow
  <1>10. IsPrefix(Given, Answers(Asked))
    BY <1>6, <1>7, <1>8, <1>9, PrefixTransitive
  <1> QED  BY <1>5, <1>6, <1>9, <1>10

(* Nothing but sending requests changes what is asked, and the client and  *)
(* its answers stay what they are.                                         *)
LEMMA SameClient ==
    ASSUME program' = program, eager' = eager
    PROVE  Replies' = Replies /\ (~eager)' = ~eager /\ (sent' = sent => Asked' = Asked)
  BY DEF Replies, AnswerUnits, Asked, SmallestOf

(* A piece added to write_buffer is the next of the answers that are due.  *)
LEMMA GivesNext ==
    ASSUME BaseInv, OrdInv, BaseInv', OrdInv', program' = program, eager' = eager,
           sent' = sent, received' = received, sock'.outbox = sock.outbox,
           NEW x \in Piece, conn'.write_buffer = Append(conn.write_buffer, x),
           pc # "gone", pc' # "gone"
    PROVE  Seen!Give
  <1>1. DataType /\ PlaceInv /\ WireInv /\ ShownInv
    BY DEF BaseInv, OrdInv, AnswerInv
  <1>2. DataType' /\ PlaceInv' /\ WireInv' /\ ShownInv'
    BY DEF BaseInv, OrdInv, AnswerInv
  <1>3. /\ Replies' = Replies /\ (~eager)' = ~eager /\ Asked' = Asked
        /\ Passed' = Passed
    BY SameClient DEF Passed
  <1>4. Asked \in 0 .. N /\ Given \in Seq(Piece) /\ Answers(Asked) \in Seq(Piece)
    BY <1>1, GivenWasAsked
  <1>5. (Answers(Asked))' = Answers(Asked)
    BY <1>3 DEF Answers, AnswerUnits
  <1>6. IsPrefix(Given', Answers(Asked))
    <2>1. (IsPrefix(Given, Answers(Asked)))'
      BY <1>2, GivenWasAsked, PTL
    <2> QED  BY <2>1, <1>5
  <1>7. Given' = Append(Given, x)
    <2> DEFINE p == Passed
               w == conn.write_buffer
    <2>1. p \in Seq(Piece) /\ w \in Seq(Piece)
      BY <1>1, GivenWasAsked, ShownIs
    <2>2. Given = p \o w /\ Given' = p \o Append(w, x)
      BY <1>3 DEF Given
    <2> HIDE DEF p, w
    <2>3. p \o Append(w, x) = Append(p \o w, x)
      BY <2>1, AppendAfterConcat
    <2> QED  BY <2>2, <2>3
  <1>8. Len(Given) < Len(Answers(Asked)) /\ x = Answers(Asked)[Len(Given) + 1]
    BY <1>4, <1>6, <1>7, AppendedPrefix
  <1>9. Seen!Due(Asked) = Answers(Asked)
    BY <1>1, <1>4, DueIs
  <1> QED  BY <1>3, <1>7, <1>8, <1>9 DEF Seen!Give

(* The steps of a request add one piece or none.                           *)
LEMMA RequestGives ==
    ASSUME BaseInv, Orderly, OrdInv, Request, ~Rearm
    PROVE  /\ program' = program /\ eager' = eager /\ sent' = sent
           /\ received' = received /\ sock' = sock /\ pc # "gone" /\ pc' # "gone"
           /\ \/ conn'.write_buffer = conn.write_buffer
              \/ \E x \in Piece : conn'.write_buffer = Append(conn.write_buffer, x)
  <1>0. DataType /\ PlaceInv /\ WireInv /\ AnswerInv /\ HeldInv
    BY DEF BaseInv, OrdInv
  <1>1. /\ program' = program /\ eager' = eager /\ sent' = sent
        /\ received' = received /\ sock' = sock /\ pc # "gone" /\ pc' # "gone"
    BY DEF Request, Page, Bare, FileDownload, Upload, Bad, Body, BodyNotStored, ChunkedBody,
           ChunkRefused, Finish, ParseHead, AfterBody, KeepWorld, KeepClient
  <1>2. ASSUME NEW i \in 1 .. N
        PROVE  <<i, "answer", 0>> \in Piece /\ <<i, "head", 0>> \in Piece
    <2>1. 0 \in 0 .. FileChunks
      BY BoundsAssumption
    <2> QED  BY <2>1, AnswerIsPiece
  <1>3. CASE Page \/ Bad \/ BodyNotStored
    <2>1. \E i \in 1 .. N : conn'.write_buffer = Append(conn.write_buffer, <<i, "answer", 0>>)
      BY <1>0, <1>3, PageIs, BadIs, BodyNotStoredIs
    <2> QED  BY <1>1, <1>2, <2>1
  <1>4. CASE Finish
    <2>1. \/ conn'.write_buffer = conn.write_buffer
          \/ \E i \in 1 .. N : conn'.write_buffer = Append(conn.write_buffer, <<i, "answer", 0>>)
      BY <1>0, <1>4, FinishIs
    <2> QED  BY <1>1, <1>2, <2>1
  <1>5. CASE Bare \/ FileDownload
    <2>1. PICK kind \in {"bare", "file"} : ParseHead(kind)
      BY <1>5 DEF Bare, FileDownload
    <2>2. conn.buffer # <<>> /\ ~conn.closed
      BY <1>0, <2>1, ToParse
    <2>3. conn.response = Nobody
      BY <1>0, <2>1, <2>2, NothingHeld
    <2>4. \E i \in 1 .. N : \/ conn'.write_buffer = Append(conn.write_buffer, <<i, "answer", 0>>)
                           \/ conn'.write_buffer = Append(conn.write_buffer, <<i, "head", 0>>)
      BY <1>0, <1>5, <2>3, BareIs, FileDownloadIs
    <2> QED  BY <1>1, <1>2, <2>4
  <1>6. CASE Upload("upload", "Body") \/ Upload("chunked", "ChunkedBody")
    BY <1>0, <1>1, <1>6, UploadIs
  <1>7. CASE Body \/ ChunkedBody
    BY <1>0, <1>1, <1>7, BodyIs, ChunkedBodyIs
  <1>8. CASE ChunkRefused
    BY <1>0, <1>8 DEF ChunkRefused, WireInv, ParseInv
  <1> QED  BY <1>3, <1>4, <1>5, <1>6, <1>7, <1>8 DEF Request

(* So does a file's, into an empty buffer.                                 *)
LEMMA RefillGives ==
    ASSUME BaseInv, Refill
    PROVE  /\ program' = program /\ eager' = eager /\ sent' = sent
           /\ received' = received /\ sock' = sock /\ pc # "gone" /\ pc' # "gone"
           /\ \/ conn'.write_buffer = conn.write_buffer
              \/ \E x \in Piece : conn'.write_buffer = Append(conn.write_buffer, x)
  <1>0. DataType /\ PlaceInv
    BY DEF BaseInv
  <1>1. /\ program' = program /\ eager' = eager /\ sent' = sent
        /\ received' = received /\ sock' = sock /\ pc # "gone" /\ pc' # "gone"
    BY DEF Refill, KeepClient
  <1>2. CASE conn.write_buffer = <<>> /\ conn.action = "FileDownload" /\ conn.left # 0
    <2> DEFINE x == <<conn.file, "data", FileChunks + 1 - conn.left>>
    <2>1. \/ conn'.write_buffer = conn.write_buffer
          \/ conn'.write_buffer = <<x>>
      BY <1>0, <1>2, RefillIs
    <2>2. x \in Piece
      <3>1. conn.left \in 1 .. FileChunks /\ FileChunks \in Nat /\ conn.file \in 1 .. N
        <4>1. conn.left \in 0 .. FileChunks /\ conn.file \in 0 .. N
          BY <1>0 DEF DataType, Conn
        <4>2. conn.file # 0 /\ FileChunks \in Nat /\ N \in Nat
          BY <1>0, <1>2, Lengths DEF PlaceInv, Nobody
        <4> QED  BY <1>2, <4>1, <4>2
      <3>2. FileChunks + 1 - conn.left \in 0 .. FileChunks
        BY <3>1
      <3> QED  BY <3>1, <3>2, AnswerIsPiece
    <2> HIDE DEF x
    <2>3. Append(<<>>, x) = <<x>>
      OBVIOUS
    <2> QED  BY <1>1, <1>2, <2>1, <2>2, <2>3
  <1>3. CASE ~(conn.write_buffer = <<>> /\ conn.action = "FileDownload" /\ conn.left # 0)
    BY <1>0, <1>1, <1>3, RefillIs
  <1> QED  BY <1>2, <1>3

(* A write hands over the first pieces of write_buffer, and what is given  *)
(* stays the same.                                                         *)
LEMMA FlushPasses == ASSUME BaseInv, Flush PROVE Seen!Pass \/ UNCHANGED Seen!vars
  <1>0. DataType /\ PlaceInv
    BY DEF BaseInv
  <1>1. /\ program' = program /\ eager' = eager /\ sent' = sent /\ received' = received
        /\ pc # "gone" /\ pc' # "gone"
    BY DEF Flush, KeepClient
  <1>2. PICK n \in 0 .. Len(conn.write_buffer) :
           /\ conn' \in Conn /\ sock' \in Sock /\ Len(sock'.outbox) <= SendBuffer
           /\ sock'.outbox = sock.outbox \o SubSeq(conn.write_buffer, 1, n)
           /\ conn'.write_buffer = SubSeq(conn.write_buffer, n + 1, Len(conn.write_buffer))
    BY <1>0, FlushIs
  <1> DEFINE r == received
             o == sock.outbox
             w == conn.write_buffer
             a == SubSeq(w, 1, n)
             b == SubSeq(w, n + 1, Len(w))
  <1>3. r \in Seq(Piece) /\ o \in Seq(Piece) /\ w \in Seq(Piece) /\ Len(w) \in Nat
    BY <1>0, ShownIs, Lengths
  <1>4. a \in Seq(Piece) /\ b \in Seq(Piece) /\ a \o b = w /\ Len(a) = n
    <2> HIDE DEF w
    <2>1. n \in 0 .. Len(w)
      BY DEF w
    <2> QED  BY <1>3, <2>1, CutAt
  <1>5. Given' = (r \o (o \o a)) \o b /\ Passed' = r \o (o \o a)
    BY <1>1, <1>2 DEF Given, Passed
  <1>6. Given = (r \o o) \o w /\ Passed = r \o o /\ Len(w) \in Nat /\ n \in 0 .. Len(w)
    BY <1>3 DEF Given, Passed
  <1>7. sock'.outbox = o \o a /\ Len(o \o a) <= SendBuffer /\ received' = r
    BY <1>1, <1>2
  <1> HIDE DEF r, o, w, a, b
  <1>8. Regrouped(r, o, a, b)
    BY <1>3, <1>4, FourPieces
  <1>9. Given' = Given
    BY <1>4, <1>5, <1>6, <1>8 DEF Regrouped
  <1>10. /\ Len(Passed') = Len(r) + (Len(o) + n) /\ Len(Passed) = Len(r) + Len(o)
         /\ Len(Given) = Len(r) + Len(o) + Len(w) /\ Len(o) + n <= SendBuffer
         /\ Len(r) \in Nat /\ Len(o) \in Nat
    <2>1. /\ o \o a \in Seq(Piece) /\ Len(o \o a) = Len(o) + n
          /\ r \o o \in Seq(Piece) /\ Len(r \o o) = Len(r) + Len(o)
          /\ Len(r) \in Nat /\ Len(o) \in Nat
      BY <1>3, <1>4, ConcatBegins
    <2>2. /\ Len(r \o (o \o a)) = Len(r) + Len(o \o a)
          /\ Len((r \o o) \o w) = Len(r \o o) + Len(w)
      BY <1>3, <2>1, ConcatBegins, ZenonT(30)
    <2> QED  BY <1>5, <1>6, <1>7, <2>1, <2>2
  <1>11. Replies' = Replies /\ (~eager)' = ~eager /\ Asked' = Asked /\ received' = received
    BY <1>1, SameClient
  <1>12. CASE n = 0
    <2>1. Len(Passed') = Len(Passed)
      BY <1>10, <1>12
    <2> QED  BY <1>1, <1>9, <1>11, <2>1 DEF Seen!vars
  <1>13. CASE n # 0
    <2>1. /\ n \in 1 .. Len(Given) - Len(Passed) /\ Len(Passed) + n <= Len(r) + SendBuffer
          /\ Len(Passed') = Len(Passed) + n
      BY <1>6, <1>10, <1>13, BoundsAssumption
    <2> QED  BY <1>1, <1>9, <1>11, <2>1 DEF Seen!Pass, r
  <1> QED  BY <1>12, <1>13

(* The client reads what the kernel holds, and sends a request that is     *)
(* due.                                                                    *)
LEMMA ReceiveTakes == ASSUME BaseInv, ClientReceive PROVE Seen!Take
  <1>0. DataType /\ PlaceInv
    BY DEF BaseInv
  <1>1. /\ program' = program /\ eager' = eager /\ sent' = sent
        /\ conn' = conn /\ pc' = pc
    BY DEF ClientReceive
  <1> DEFINE r == received
             o == sock.outbox
             h == Head(o)
             t == Tail(o)
  <1>2. received' = Append(r, h) /\ sock'.outbox = t /\ o # <<>>
    BY <1>0, ClientReceiveIs
  <1>3. r \in Seq(Piece) /\ o \in Seq(Piece)
    BY <1>0, ShownIs
  <1>4. h \in Piece /\ t \in Seq(Piece) /\ <<h>> \o t = o
    BY <1>2, <1>3, HeadTailProperties, HeadThenTail
  <1>5. Passed' = Append(r, h) \o t /\ Passed = r \o o
    BY <1>1, <1>2 DEF Passed
  <1>6. received' = Append(r, h) /\ received = r
    BY <1>2
  <1> HIDE DEF r, o, h, t
  <1>7. <<h>> \in Seq(Piece) /\ Append(r, h) = r \o <<h>>
    BY <1>3, <1>4, AppendIsConcat
  <1>8. (r \o <<h>>) \o t = r \o (<<h>> \o t)
    <2> DEFINE x == <<h>>
    <2>1. x \in Seq(Piece)
      BY <1>7
    <2> HIDE DEF x
    <2>2. Regroups(r, x, t)
      BY <1>3, <1>4, <2>1, ThreePieces
    <2> QED  BY <2>2 DEF x, Regroups
  <1>9. Passed' = Passed
    BY <1>4, <1>5, <1>7, <1>8
  <1>10. Given' = Given
    BY <1>1, <1>9 DEF Given
  <1>11. Len(received) < Len(Passed) /\ Len(received') = Len(received) + 1
    <2>1. Len(r \o o) = Len(r) + Len(o) /\ Len(r) \in Nat /\ Len(o) \in Nat
      BY <1>3, ConcatBegins
    <2>2. Len(o) # 0
      BY <1>2, <1>3, EmptySeq DEF o
    <2>3. Len(Append(r, h)) = Len(r) + 1
      BY <1>3, <1>4, AppendProperties
    <2> QED  BY <1>5, <1>6, <2>1, <2>2, <2>3
  <1> QED  BY <1>1, <1>9, <1>10, <1>11, SameClient DEF Seen!Take

LEMMA SendAsks ==
    ASSUME BaseInv, Orderly, OrdInv, ClientSend PROVE Seen!Ask \/ UNCHANGED Seen!vars
  <1>0. DataType /\ PlaceInv /\ WireInv /\ ShownInv
    BY DEF BaseInv, OrdInv, AnswerInv
  <1>1. /\ program' = program /\ eager' = eager /\ sent' = sent + 1
        /\ conn' = conn /\ received' = received /\ pc' = pc /\ pc # "gone"
    BY DEF ClientSend
  <1>2. sock'.outbox = sock.outbox /\ sent + 1 \in 1 .. Len(Wire)
    BY <1>0, ClientSendIs
  <1>3. Given' = Given /\ Passed' = Passed /\ Replies' = Replies /\ (~eager)' = ~eager
    BY <1>1, <1>2, SameClient DEF Given, Passed
  <1>4. N \in Nat /\ sent \in Nat /\ Len(Replies) = N
    BY <1>0, Lengths, <1>2 DEF DataType, WorldType, Replies, N
  <1>5. /\ Asked = IF sent < N THEN sent ELSE N
        /\ Asked' = IF sent + 1 < N THEN sent + 1 ELSE N
    BY <1>1 DEF Asked, SmallestOf, N
  <1>6. CASE sent < N
    <2>1. Asked = sent /\ Asked' = Asked + 1 /\ Asked < Len(Replies) /\ sent + 1 \in 1 .. N
      BY <1>4, <1>5, <1>6
    <2>2. Wire[sent + 1] = <<sent + 1, "head">>
      BY <1>0, <2>1, OrderlyWire
    <2>3. LET u == Wire[sent + 1] IN
              ~eager /\ u[2] = "head" => Len(received) >= Len(Answers(u[1] - 1))
      BY DEF ClientSend
    <2>4. (sent + 1) - 1 = sent
      BY <1>4
    <2>5. ~eager => Len(received) >= Len(Answers(Asked))
      BY <2>1, <2>2, <2>3, <2>4
    <2>6. Len(received) <= Len(Answers(Asked))
      <3> DEFINE g == Given
                 r == received
                 o == sock.outbox
                 w == conn.write_buffer
      <3>1. r \in Seq(Piece) /\ o \in Seq(Piece) /\ w \in Seq(Piece) /\ g = (r \o o) \o w
        BY <1>0, ShownIs DEF Given, Passed
      <3>2. Len(g) <= Len(Answers(Asked))
        BY <1>0, GivenWasAsked DEF IsPrefix
      <3> HIDE DEF g, r, o, w
      <3>3. /\ r \o o \in Seq(Piece) /\ Len(r \o o) = Len(r) + Len(o)
            /\ Len(r) \in Nat /\ Len(o) \in Nat
        BY <3>1, ConcatBegins
      <3>4. Len(g) = Len(r \o o) + Len(w) /\ Len(w) \in Nat
        BY <3>1, <3>3, ConcatBegins
      <3>5. Len(Answers(Asked)) \in Nat
        BY <1>0, GivenWasAsked, LenProperties
      <3> QED  BY <3>2, <3>3, <3>4, <3>5 DEF r
    <2>7. Len(received) \in Nat /\ Len(Answers(Asked)) \in Nat
      BY <1>0, Lengths, GivenWasAsked, LenProperties
    <2>8. ~eager => Len(received) = Len(Answers(Asked))
      BY <2>5, <2>6, <2>7
    <2>9. Seen!Due(Asked) = Answers(Asked)
      BY <1>0, GivenWasAsked, DueIs
    <2> QED  BY <1>1, <1>3, <2>1, <2>8, <2>9 DEF Seen!Ask
  <1>7. CASE ~(sent < N)
    <2>1. Asked' = Asked
      BY <1>4, <1>5, <1>7
    <2> QED  BY <1>1, <1>3, <2>1 DEF Seen!vars
  <1> QED  BY <1>6, <1>7

(* Steps that the client does not see.                                     *)
LEMMA Unseen ==
    ASSUME program' = program, eager' = eager, sent' = sent, received' = received,
           sock'.outbox = sock.outbox, conn'.write_buffer = conn.write_buffer,
           (pc' # "gone") = (pc # "gone")
    PROVE  UNCHANGED Seen!vars
  <1>1. Passed' = Passed /\ Given' = Given
    BY DEF Passed, Given
  <1> QED  BY <1>1, SameClient DEF Seen!vars

LEMMA ExchangeInit == ASSUME Init PROVE Seen!Init
  <1>1. DataType /\ received = <<>> /\ sock.outbox = <<>> /\ conn.write_buffer = <<>>
        /\ sent = 0 /\ pc = "wait"
    BY BaseInit DEF BaseInv, Init
  <1>2. Passed = <<>> /\ Given = <<>>
    BY <1>1 DEF Passed, Given
  <1>3. Asked = 0
    <2>1. N \in Nat
      BY <1>1, Lengths
    <2> QED  BY <1>1, <2>1 DEF Asked, SmallestOf, N
  <1>4. Len(<<>>) = 0
    OBVIOUS
  <1> QED  BY <1>1, <1>2, <1>3, <1>4 DEF Seen!Init

LEMMA ExchangeStep ==
    ASSUME BaseInv, BaseInv', Orderly, OrdInv, OrdInv', [Next]_vars
    PROVE  [Seen!Next]_(Seen!vars)
  <1>0. DataType /\ PlaceInv
    BY DEF BaseInv
  <1>1. CASE ClientSend
    BY <1>1, SendAsks DEF Seen!Next
  <1>2. CASE ClientReceive
    BY <1>2, ReceiveTakes DEF Seen!Next
  <1>3. CASE ClientClose \/ Poll \/ SkipRead \/ ReadPhase \/ SkipWrite \/ PostWrite \/ Rearm
    <2>1. /\ program' = program /\ eager' = eager /\ sent' = sent /\ received' = received
          /\ (pc' # "gone") = (pc # "gone")
      <3>1. ret \in {"write", "lifecycle"}
        BY <1>0 DEF DataType, WorldType
      <3> QED  BY <1>3, <3>1 DEF ClientClose, Poll, SkipRead, ReadPhase, SkipWrite, PostWrite,
                                 Rearm, KeepClient
    <2>2. sock'.outbox = sock.outbox
      <3>1. CASE Poll
        BY <1>0, <3>1 DEF Poll, DataType, Sock
      <3> QED  BY <1>0, <1>3, <3>1, ClientCloseIs, RearmIs, ReadPhaseIs, PostWriteIs
               DEF SkipRead, SkipWrite
    <2>3. conn'.write_buffer = conn.write_buffer
      BY <1>0, <1>3, ReadPhaseIs, PostWriteIs
         DEF ClientClose, Poll, SkipRead, SkipWrite, Rearm
    <2> QED  BY <2>1, <2>2, <2>3, Unseen
  <1>4. CASE Lifecycle
    <2>1. /\ program' = program /\ eager' = eager /\ sent' = sent /\ received' = received
          /\ conn' = conn /\ sock' = sock /\ pc = "lifecycle"
          /\ pc' = IF conn.closed /\ conn.write_buffer = <<>> THEN "gone" ELSE "wait"
      BY <1>4 DEF Lifecycle, KeepClient
    <2>2. CASE conn.closed /\ conn.write_buffer = <<>>
      <3>1. Given = Passed
        <4>1. received \o sock.outbox \in Seq(Piece)
          BY <1>0, ShownIs
        <4> QED  BY <2>2, <4>1, ConcatEmptySeq DEF Given, Passed
      <3>2. Given' = Given /\ Passed' = Passed
        BY <2>1 DEF Given, Passed
      <3> QED  BY <2>1, <2>2, <3>1, <3>2, SameClient DEF Seen!Quit, Seen!Next
    <2>3. CASE ~(conn.closed /\ conn.write_buffer = <<>>)
      BY <2>1, <2>3, Unseen
    <2> QED  BY <2>2, <2>3
  <1>5. CASE Refill \/ (Request /\ ~Rearm)
    <2>1. /\ program' = program /\ eager' = eager /\ sent' = sent
          /\ received' = received /\ sock' = sock /\ pc # "gone" /\ pc' # "gone"
          /\ \/ conn'.write_buffer = conn.write_buffer
             \/ \E x \in Piece : conn'.write_buffer = Append(conn.write_buffer, x)
      BY <1>5, RefillGives, RequestGives
    <2>2. CASE conn'.write_buffer = conn.write_buffer
      BY <2>1, <2>2, Unseen
    <2>3. CASE \E x \in Piece : conn'.write_buffer = Append(conn.write_buffer, x)
      BY <2>1, <2>3, GivesNext DEF Seen!Next
    <2> QED  BY <2>1, <2>2, <2>3
  <1>6. CASE Flush
    BY <1>6, FlushPasses DEF Seen!Next
  <1>7. CASE UNCHANGED vars
    BY <1>7, Unseen DEF vars
  <1> QED  BY <1>1, <1>2, <1>3, <1>4, <1>5, <1>6, <1>7 DEF Next, Handler, Client, Request

(* Towards an orderly client the connection implements Exchange, initial   *)
(* states and steps: each answer's pieces are given once, in the order of  *)
(* the requests and never before the request was sent; the kernel is never *)
(* given more than it has room for; and when the connection is removed,    *)
(* all that was written to write_buffer has been passed on.  It holds      *)
(* for any number of requests, any size of files, of the kernel's buffer   *)
(* and of the read limit, and whatever edge makes the handler run.         *)
THEOREM ConnectionImplementsExchange == Spec => OrderlyExchange
  <1>1. Init => (Orderly => Seen!Init)
    BY ExchangeInit
  <1>2. /\ BaseInv /\ (Orderly => OrdInv) /\ BaseInv' /\ (Orderly => OrdInv)' /\ [Next]_vars
        => [Orderly => Seen!Next]_(Seen!vars)
    <2> SUFFICES ASSUME BaseInv, Orderly => OrdInv, BaseInv', (Orderly => OrdInv)',
                        [Next]_vars, Orderly
                 PROVE  [Seen!Next]_(Seen!vars)
      OBVIOUS
    <2>1. OrdInv /\ OrdInv'
      BY OrderlyStep
    <2> QED  BY <2>1, ExchangeStep
  <1> QED  BY <1>1, <1>2, BaseAlways, OrderlyAlways, PTL DEF Spec, OrderlyExchange

(* What it gives is therefore always a beginning of the answers.           *)
THEOREM AnswersAlwaysInOrder == Spec => [](Orderly => AnswersInOrder)
  <1>1. BaseInv /\ (Orderly => OrdInv) => (Orderly => AnswersInOrder)
    <2> SUFFICES ASSUME BaseInv, OrdInv, Orderly PROVE AnswersInOrder
      OBVIOUS
    <2>1. DataType /\ PlaceInv /\ WireInv /\ ShownInv
      BY DEF BaseInv, OrdInv, AnswerInv
    <2>2. /\ Asked \in 0 .. N /\ Given \in Seq(Piece) /\ Answers(Asked) \in Seq(Piece)
          /\ IsPrefix(Given, Answers(Asked))
      BY <2>1, GivenWasAsked
    <2>3. program \in Seq(Kind) /\ N \in Nat
      BY <2>1, Lengths DEF DataType, WorldType
    <2>4. IsPrefix(Answers(Asked), Answers(N)) /\ Answers(N) \in Seq(Piece)
      BY <2>2, <2>3, AnswersBegin, AnswersGrow
    <2>5. IsPrefix(Given, Answers(N))
      BY <2>2, <2>4, PrefixTransitive
    <2> QED  BY <2>5 DEF AnswersInOrder, Given, Passed, N
  <1> QED  BY <1>1, BaseAlways, OrderlyAlways, PTL

(* The file an orderly client's upload names holds a beginning of that     *)
(* upload's body: parse_unchunked_body stores every piece once, in order,  *)
(* in whatever pieces read_data delivers it.                               *)
THEOREM UploadsAlwaysStored == Spec => []OrderlyStored
  <1>1. BaseInv /\ (Orderly => OrdInv) => OrderlyStored
    <2> SUFFICES ASSUME BaseInv, OrdInv, Orderly,
                        NEW i \in DOMAIN disk, NEW k \in DOMAIN disk[i]
                 PROVE  disk[i][k] = RequestUnits(i)[k + 1]
      BY DEF OrderlyStored
    <2>1. DataType /\ StoredInv
      BY DEF BaseInv, OrdInv, WireInv
    <2>2. /\ i = N /\ Uploads /\ disk[N] \in Seq(Unit) /\ Len(disk[N]) = Taken - N
          /\ \A j \in 1 .. Taken - N : disk[N][j] = Wire[N + j]
      BY <2>1 DEF StoredInv
    <2>3. /\ Len(Wire) = N + 2 /\ Wire[N + 1] = <<N, "data">> /\ Wire[N + 2] = <<N, "last">>
          /\ N \in Nat
      BY <2>1, <2>2, OrderlyWire, Lengths
    <2>4. sent <= N + 2 /\ Taken \in Int /\ Taken <= sent
      BY <2>1, <2>3, WaitingIs
    <2>5. k \in 1 .. Taken - N
      BY <2>2
    <2>6. k = 1 \/ k = 2
      <3>1. sent \in Nat
        BY <2>1, WaitingIs
      <3> QED  BY <2>3, <2>4, <2>5, <3>1
    <2>7. disk[i][k] = Wire[N + k]
      BY <2>2, <2>5
    <2>8. RequestUnits(i) = <<<<N, "head">>, <<N, "data">>, <<N, "last">>>>
      BY <2>2 DEF RequestUnits, Uploads
    <2> QED  BY <2>3, <2>6, <2>7, <2>8
  <1> QED  BY <1>1, BaseAlways, OrderlyAlways, PTL

(* No edge of the poller is lost: read_data stops at its limit, a write    *)
(* takes what the kernel has room for and handle_post_write_update looks   *)
(* at one request, and each registers again so that whatever is left has   *)
(* an event of its own when the handler returns to the loop.               *)
THEOREM WakeupsNeverLost == Spec => []NoLostWakeup
  <1>1. BaseInv /\ (Orderly => OrdInv) => NoLostWakeup
    <2> SUFFICES ASSUME BaseInv, Orderly => OrdInv, pc = "wait", ~conn.closed
                 PROVE  /\ Readable(sock) => sock.queued
                        /\ Pending /\ Writable(sock) => sock.queued /\ "W" \in sock.interest
                        /\ Orderly /\ conn.buffer # <<>> => Pending
      BY DEF NoLostWakeup
    <2>1. /\ Readable(sock) => sock.queued
          /\ Pending /\ Writable(sock) => sock.queued /\ "W" \in sock.interest
      BY DEF BaseInv, WakeInv, Busy
    <2>2. Orderly /\ conn.buffer # <<>> => Pending
      BY DEF OrdInv, AnswerInv, KeptInv
    <2> QED  BY <2>1, <2>2
  <1> QED  BY <1>1, BaseAlways, OrderlyAlways, PTL

-----------------------------------------------------------------------------
(* What OrderlyAnswered and OrderlyRemoved say about the state in which    *)
(* nothing moves any more.                                                 *)

(* Handler and ClientSend cannot take a step.                              *)
AtRest == (pc = "wait" /\ ~sock.queued) \/ pc = "gone"
MaySend ==
    /\ sent < Len(Wire) /\ ~sock.eof /\ pc # "gone"
    /\ LET u == Wire[sent + 1] IN
          ~eager /\ u[2] = "head" => Len(received) >= Len(Answers(u[1] - 1))

(* A connection that is closed is kept for what it has to write.           *)
RestInv ==
    /\ pc = "gone" => conn.closed
    /\ pc = "wait" /\ conn.closed => conn.write_buffer # <<>>

(* Without an early close and without a fault of the disk, a connection is *)
(* closed by the answer to its last request, and an edge or the handler    *)
(* will write that answer.                                                 *)
ClosedInv ==
    conn.closed /\ ~Excused =>
        /\ conn.request = N /\ conn.state = "RequestLine" /\ Taken = Len(Wire)
        /\ Rest = <<>>
        /\ conn.write_buffer = <<>> => pc \in {"lifecycle", "gone"}
        /\ conn.write_buffer # <<>> =>
              /\ pc # "gone"
              /\ "W" \in sock.interest \/ pc = "rearm"
              /\ Writable(sock) /\ ~sock.queued =>
                    pc = "rearm" \/ (pc \in {"read", "write", "flush"} /\ "W" \in event)

LEMMA RestStep == ASSUME BaseInv, RestInv, [Next]_vars PROVE RestInv'
  <1>0. DataType /\ PlaceInv
    BY DEF BaseInv
  <1>1. CASE ClientSend \/ ClientReceive \/ ClientClose \/ Poll \/ UNCHANGED vars
    <2>1. CASE ClientSend \/ ClientReceive \/ ClientClose \/ UNCHANGED vars
      <3>1. conn' = conn /\ pc' = pc
        BY <2>1 DEF ClientSend, ClientReceive, ClientClose, vars
      <3> QED  BY <3>1 DEF RestInv
    <2>2. CASE Poll
      <3>1. conn' = conn /\ pc = "wait" /\ pc' = IF event' = {} THEN "wait" ELSE "read"
        BY <2>2 DEF Poll
      <3> QED  BY <3>1 DEF RestInv
    <2> QED  BY <1>1, <2>1, <2>2
  <1>2. CASE Lifecycle
    BY <1>2 DEF Lifecycle, RestInv
  <1>3. CASE \/ SkipRead \/ ReadPhase \/ SkipWrite \/ Refill \/ Flush \/ PostWrite \/ Request
    <2>1. pc' \notin {"wait", "gone"}
      BY <1>0, <1>3 DEF SkipRead, ReadPhase, SkipWrite, Refill, Flush, PostWrite, Request,
             Page, Bare, FileDownload, Upload, Bad, Body, BodyNotStored, ChunkedBody, ChunkRefused,
             Finish, Rearm, AfterBody, DataType, WorldType
    <2> QED  BY <2>1 DEF RestInv
  <1> QED  BY <1>1, <1>2, <1>3 DEF Next, Handler, Client

(* A connection that stays open, or has an excuse, needs no more.          *)
LEMMA ClosedNot == ASSUME ~conn'.closed \/ Excused' PROVE ClosedInv'
  BY DEF ClosedInv

(* Steps that leave the connection and what was read of the wire alone.    *)
LEMMA ClosedQuiet ==
    ASSUME ClosedInv, program' = program, eager' = eager, sent' = sent, conn' = conn,
           sock'.inbox = sock.inbox, sock'.eof = sock.eof, faulty' = faulty,
           conn.write_buffer = <<>> => pc' = "gone" \/ pc' = pc,
           conn.closed /\ ~Excused /\ conn.write_buffer # <<>> =>
              /\ pc' # "gone"
              /\ "W" \in sock'.interest \/ pc' = "rearm"
              /\ Writable(sock') /\ ~sock'.queued =>
                    pc' = "rearm" \/ (pc' \in {"read", "write", "flush"} /\ "W" \in event')
    PROVE  ClosedInv'
  <1>1. N' = N /\ Wire' = Wire
    BY SameProgram
  <1>2. Taken' = Taken
    BY TakenSame
  <1>3. Rest' = Rest /\ Excused' = Excused
    BY DEF Rest, Excused
  <1> QED  BY <1>1, <1>2, <1>3 DEF ClosedInv

(* The last request of an orderly client is the one that may be refused.   *)
LEMMA BadCloses ==
    ASSUME BaseInv, Orderly, OrdInv, Bad PROVE ClosedInv'
  <1>0. DataType /\ PlaceInv /\ WireInv /\ AnswerInv
    BY DEF BaseInv, OrdInv
  <1>1. /\ program' = program /\ eager' = eager /\ sent' = sent /\ sock' = sock
        /\ pc' = "rearm" /\ ParseHead("bad")
    BY DEF Bad, KeepWorld, KeepClient
  <1>2. /\ conn.buffer # <<>> /\ conn.state = "RequestLine" /\ ~conn.closed
    BY <1>0, <1>1, ToParse
  <1>3. /\ conn.request < N /\ Head(conn.buffer) = <<conn.request + 1, "head">>
        /\ Taken = conn.request
    BY <1>0, <1>2, NextHead
  <1>4. /\ conn.request + 1 < N => FALSE
        /\ conn.request + 1 = N => ~Uploads
        /\ N \in Nat /\ conn.request \in 0 .. N
    BY <1>0, <1>1, <1>2, NextKind
  <1>5. conn.request + 1 = N /\ ~Uploads
    BY <1>3, <1>4
  <1>6. /\ conn'.buffer = Tail(conn.buffer) /\ conn'.request = conn.request + 1
        /\ conn'.write_buffer # <<>> /\ conn'.state = "RequestLine"
        /\ conn'.action = conn.action /\ conn'.file = conn.file /\ conn'.left = conn.left
    BY <1>0, <1>3, BadIs
  <1>7. Taken' = Taken + 1
    BY <1>0, <1>1, <1>2, <1>6, TailWaits DEF WireInv
  <1>8. Len(Wire) = N
    BY <1>0, <1>5, OrderlyWire
  <1>9. Rest' = <<>>
    <2>1. Rest = <<>>
      BY <1>0, <1>2, NothingLeft
    <2> QED  BY <1>6, <2>1 DEF Rest
  <1>10. N' = N /\ Wire' = Wire
    BY <1>1, SameProgram
  <1> QED  BY <1>1, <1>3, <1>5, <1>6, <1>7, <1>8, <1>9, <1>10 DEF ClosedInv

LEMMA ClosedFlush == ASSUME BaseInv, ClosedInv, Flush PROVE ClosedInv'
  <1>0. DataType
    BY DEF BaseInv
  <1>1. /\ program' = program /\ eager' = eager /\ sent' = sent /\ faulty' = faulty
        /\ pc = "flush"
        /\ pc' = IF ~conn.closed /\ conn'.write_buffer = <<>> THEN "post" ELSE "lifecycle"
    BY DEF Flush, KeepClient
  <1>2. /\ conn'.write_buffer # <<>> => ~Writable(sock') /\ conn.write_buffer # <<>>
        /\ sock'.inbox = sock.inbox /\ sock'.eof = sock.eof /\ sock'.interest = sock.interest
        /\ conn'.buffer = conn.buffer /\ conn'.closed = conn.closed
        /\ conn'.state = conn.state /\ conn'.request = conn.request
        /\ conn'.action = conn.action /\ conn'.file = conn.file /\ conn'.left = conn.left
    <2>1. Len(conn.write_buffer) # 0 => conn.write_buffer # <<>>
      OBVIOUS
    <2> DEFINE w == conn.write_buffer
    <2>2. Len(w) \in Nat /\ (Len(w) # 0 => w # <<>>)
      BY <1>0, <2>1, Lengths
    <2> HIDE DEF w
    <2>3. \A n \in 0 .. Len(w) : n < Len(w) => w # <<>>
      BY <2>2
    <2> QED  BY <1>0, <2>3, FlushIs DEF w
  <1>3. N' = N /\ Wire' = Wire /\ Taken' = Taken /\ Rest' = Rest /\ Excused' = Excused
    BY <1>1, <1>2, SameProgram, TakenSame DEF Rest, Excused
  <1>4. SUFFICES ASSUME conn.closed, ~Excused PROVE ClosedInv'
    BY <1>2, <1>3 DEF ClosedInv
  <1>5. /\ conn.request = N /\ conn.state = "RequestLine" /\ Taken = Len(Wire) /\ Rest = <<>>
        /\ conn.write_buffer # <<>> => "W" \in sock.interest
    BY <1>1, <1>4 DEF ClosedInv
  <1>6. pc' = "lifecycle"
    BY <1>1, <1>4
  <1> QED  BY <1>2, <1>3, <1>5, <1>6 DEF ClosedInv

LEMMA ClosedStep ==
    ASSUME BaseInv, Orderly, OrdInv, ClosedInv, [Next]_vars PROVE ClosedInv'
  <1>0. DataType /\ PlaceInv /\ WireInv /\ AnswerInv
    BY DEF BaseInv, OrdInv
  <1>1. CASE ClientSend
    <2>1. conn' = conn /\ faulty' = faulty /\ sent < Len(Wire) /\ sock'.eof = sock.eof
      BY <1>0, <1>1, ClientSendIs DEF ClientSend
    <2>2. Taken <= sent /\ sent \in Nat /\ Len(Wire) \in Nat /\ Taken \in Int
      BY <1>0, WaitingIs, Lengths
    <2>3. ~conn.closed \/ Excused
      <3>1. Taken # Len(Wire)
        BY <2>1, <2>2
      <3> QED  BY <3>1 DEF ClosedInv
    <2> QED  BY <2>1, <2>3, ClosedNot DEF Excused
  <1>2. CASE ClientReceive
    <2>1. /\ program' = program /\ eager' = eager /\ sent' = sent /\ conn' = conn
          /\ pc' = pc /\ event' = event /\ faulty' = faulty
      BY <1>2 DEF ClientReceive
    <2>2. /\ sock'.inbox = sock.inbox /\ sock'.eof = sock.eof
          /\ sock'.interest = sock.interest /\ (sock.queued => sock'.queued)
          /\ ~Writable(sock) /\ "W" \in sock.interest => sock'.queued
      BY <1>0, <1>2, ClientReceiveIs
    <2> QED  BY <2>1, <2>2, ClosedQuiet DEF ClosedInv
  <1>3. CASE ClientClose
    <2>1. sock'.eof
      BY <1>0, <1>3 DEF ClientClose, Edge, DataType, Sock
    <2> QED  BY <2>1, ClosedNot DEF Excused
  <1>4. CASE Poll
    <2>1. /\ program' = program /\ eager' = eager /\ sent' = sent /\ conn' = conn
          /\ faulty' = faulty /\ pc = "wait" /\ pc' = IF event' = {} THEN "wait" ELSE "read"
          /\ event' = sock.interest \cap ((IF Readable(sock) THEN {"R"} ELSE {}) \cup
                                          (IF Writable(sock) THEN {"W"} ELSE {}))
      BY <1>4 DEF Poll, KeepClient
    <2>2. /\ sock'.inbox = sock.inbox /\ sock'.outbox = sock.outbox /\ sock'.eof = sock.eof
          /\ sock'.interest = sock.interest
      BY <1>0, <1>4 DEF Poll, DataType, Sock
    <2>3. Writable(sock') = Writable(sock)
      BY <2>2 DEF Writable
    <2>4. SUFFICES ASSUME conn.closed, ~Excused PROVE ClosedInv'
      BY <2>1, <2>2, ClosedNot DEF Excused
    <2>5. conn.write_buffer # <<>> /\ "W" \in sock.interest
      BY <2>1, <2>4 DEF ClosedInv
    <2>6. Writable(sock) => "W" \in event'
      BY <2>1, <2>5
    <2>7. pc' \in {"wait", "read"} /\ (Writable(sock) => pc' = "read")
      BY <2>1, <2>6
    <2> QED  BY <2>1, <2>2, <2>3, <2>5, <2>6, <2>7, ClosedQuiet
  <1>5. CASE SkipRead \/ SkipWrite \/ Lifecycle
    <2>1. /\ program' = program /\ eager' = eager /\ sent' = sent /\ conn' = conn
          /\ faulty' = faulty /\ sock' = sock /\ event' = event
      BY <1>5 DEF SkipRead, SkipWrite, Lifecycle, KeepClient
    <2>2. \/ pc = "read" /\ pc' = "write"
          \/ pc = "write" /\ pc' = "lifecycle" /\ "W" \notin event
          \/ /\ pc = "lifecycle"
             /\ pc' = IF conn.closed /\ conn.write_buffer = <<>> THEN "gone" ELSE "wait"
      BY <1>5 DEF SkipRead, SkipWrite, Lifecycle
    <2>3. SUFFICES ASSUME conn.closed, ~Excused PROVE ClosedInv'
      BY <2>1, ClosedNot DEF Excused
    <2>4. conn.write_buffer = <<>> => pc' = "gone" \/ pc' = pc
      BY <2>2, <2>3 DEF ClosedInv
    <2>5. conn.write_buffer # <<>> =>
              /\ pc' # "gone"
              /\ "W" \in sock.interest
              /\ Writable(sock) /\ ~sock.queued => pc' = "write" /\ "W" \in event
      BY <2>2, <2>3 DEF ClosedInv
    <2> QED  BY <2>1, <2>4, <2>5, ClosedQuiet
  <1>6. CASE ReadPhase
    <2>1. conn'.closed = SeesEof /\ sock'.eof = sock.eof
      BY <1>0, <1>6, ReadPhaseIs
    <2> QED  BY <2>1, ClosedNot DEF SeesEof, Excused
  <1>7. CASE Refill
    <2>1. /\ program' = program /\ eager' = eager /\ sent' = sent /\ sock' = sock
          /\ event' = event /\ pc = "write" /\ pc' = "flush" /\ "W" \in event
      BY <1>7 DEF Refill, KeepClient
    <2>2. CASE conn.write_buffer = <<>> /\ conn.action = "FileDownload"
      <3>1. PICK fault \in {FALSE, DiskFaults} :
               /\ conn' = IF fault THEN [conn EXCEPT !.closed = TRUE] ELSE NextPiece(conn)
               /\ faulty' = (faulty \/ fault)
        BY <1>7, <2>2 DEF Refill
      <3>2. fault \in BOOLEAN
        BY ProgramsAssumption
      <3>3. CASE fault
        BY <3>1, <3>3, ClosedNot DEF Excused
      <3>4. CASE ~fault
        <4>1. conn'.closed = conn.closed
          BY <1>0, <3>1, <3>4 DEF NextPiece, DataType, Conn
        <4>2. ~conn.closed \/ Excused
          BY <2>1, <2>2 DEF ClosedInv
        <4>3. (faulty => faulty') /\ sock'.eof = sock.eof
          BY <2>1, <3>1
        <4> QED  BY <4>1, <4>2, <4>3, ClosedNot DEF Excused
      <3> QED  BY <3>2, <3>3, <3>4
    <2>3. CASE ~(conn.write_buffer = <<>> /\ conn.action = "FileDownload")
      <3>1. conn' = conn /\ faulty' = faulty
        BY <1>7, <2>3 DEF Refill
      <3>2. SUFFICES ASSUME conn.closed, ~Excused PROVE ClosedInv'
        BY <2>1, <3>1, ClosedNot DEF Excused
      <3>3. conn.write_buffer # <<>> /\ "W" \in sock.interest
        BY <2>1, <3>2 DEF ClosedInv
      <3> QED  BY <2>1, <3>1, <3>3, ClosedQuiet
    <2> QED  BY <2>2, <2>3
  <1>8. CASE Flush
    BY <1>8, ClosedFlush
  <1>9. CASE PostWrite
    BY <1>0, <1>9, PostWriteIs, ClosedNot DEF PostWrite, PlaceInv
  <1>10. CASE Bad
    BY <1>10, BadCloses
  <1>11. CASE \/ Page \/ Bare \/ FileDownload \/ Upload("upload", "Body")
              \/ Upload("chunked", "ChunkedBody")
    <2>1. ~conn.closed
      BY <1>0, <1>11, ToParse DEF Page, Bare, FileDownload, Upload
    <2>2. conn'.closed = conn.closed
      BY <1>0, <1>11, PageIs, BareIs, FileDownloadIs, UploadIs
    <2> QED  BY <2>1, <2>2, ClosedNot
  <1>12. CASE Body \/ ChunkedBody \/ Finish
    <2>1. ~conn.closed
      BY <1>0, <1>12 DEF Body, ChunkedBody, Finish, PlaceInv
    <2>2. conn'.closed = conn.closed
      BY <1>0, <1>12, BodyIs, ChunkedBodyIs, FinishIs
    <2> QED  BY <2>1, <2>2, ClosedNot
  <1>13. CASE BodyNotStored
    BY <1>13, ClosedNot DEF BodyNotStored, Excused
  <1>14. CASE ChunkRefused
    BY <1>0, <1>14 DEF ChunkRefused, WireInv, ParseInv
  <1>15. CASE Rearm
    <2>1. /\ program' = program /\ eager' = eager /\ sent' = sent /\ conn' = conn
          /\ faulty' = faulty /\ pc = "rearm" /\ pc' = ret /\ ret \in {"write", "lifecycle"}
      BY <1>0, <1>15 DEF Rearm, KeepClient, DataType, WorldType
    <2>2. /\ sock'.inbox = sock.inbox /\ sock'.eof = sock.eof
          /\ Pending => "W" \in sock'.interest /\ (Writable(sock') => sock'.queued)
      BY <1>0, <1>15, RearmIs
    <2>3. SUFFICES ASSUME conn.closed, ~Excused PROVE ClosedInv'
      BY <2>1, <2>2, ClosedNot DEF Excused
    <2>4. conn.write_buffer # <<>>
      BY <2>1, <2>3 DEF ClosedInv
    <2> QED  BY <2>1, <2>2, <2>4, ClosedQuiet DEF Pending
  <1>16. CASE UNCHANGED vars
    <2>1. /\ program' = program /\ eager' = eager /\ sent' = sent /\ conn' = conn
          /\ faulty' = faulty /\ sock' = sock /\ event' = event /\ pc' = pc
      BY <1>16 DEF vars
    <2> QED  BY <2>1, ClosedQuiet DEF ClosedInv
  <1> QED  BY <1>1, <1>2, <1>3, <1>4, <1>5, <1>6, <1>7, <1>8, <1>9, <1>10, <1>11, <1>12, <1>13,
              <1>14, <1>15, <1>16 DEF Next, Handler, Client, Request

(* What a client has when it has every answer that is due to it.           *)
LEMMA AllShown ==
    ASSUME DataType, PlaceInv, AnswerInv, sock.outbox = <<>>, conn.write_buffer = <<>>,
           Rest = <<>>
    PROVE  received = Answers(Answered)
  <1>1. received \in Seq(Piece)
    BY DEF DataType, WorldType
  <1>2. Shown = received
    BY <1>1, ConcatEmptySeq DEF Shown
  <1> QED  BY <1>1, <1>2, ConcatEmptySeq DEF AnswerInv, ShownInv

(* An orderly client that the connection makes wait has all its answers:   *)
(* the states in which neither the handler nor the client has a step to    *)
(* take are those in which everything was sent and answered.  Together     *)
(* with the fairness of the loop and of the client this is why             *)
(* OrderlyAnswered holds; it is the part of it that edge triggering, the   *)
(* read limit and the order of the phases could break.                     *)
THEOREM NoStandstill ==
    Spec => [](Orderly /\ ~Excused /\ AtRest /\ ~MaySend /\ sock.outbox = <<>> => Satisfied)
  <1>1. Init => RestInv /\ ClosedInv
    BY DEF Init, RestInv, ClosedInv
  <1>2. BaseInv /\ (Orderly => OrdInv) /\ (Orderly => ClosedInv) /\ RestInv /\ [Next]_vars
        => (Orderly => ClosedInv)' /\ RestInv'
    <2> SUFFICES ASSUME BaseInv, Orderly => OrdInv, Orderly => ClosedInv, RestInv, [Next]_vars
                 PROVE  (Orderly => ClosedInv)' /\ RestInv'
      OBVIOUS
    <2>1. Orderly' => Orderly
      BY OrderlyStays
    <2> QED  BY <2>1, ClosedStep, RestStep
  <1>3. ASSUME BaseInv, OrdInv, ClosedInv, RestInv, Orderly, ~Excused, AtRest, ~MaySend,
               sock.outbox = <<>>
        PROVE  Satisfied
    <2>0. DataType /\ PlaceInv /\ WireInv /\ AnswerInv
      BY <1>3 DEF BaseInv, OrdInv
    <2>1. /\ N \in Nat /\ Len(Wire) \in Nat /\ sent \in Nat /\ sent <= Len(Wire)
          /\ Taken \in Int /\ Taken + Len(Waiting) = sent /\ Len(Waiting) \in Nat
          /\ conn.request \in 0 .. N
      BY <2>0, Lengths, WaitingIs DEF DataType, Conn
    <2>2. Writable(sock)
      <3>1. Len(<<>>) = 0 /\ 0 < SendBuffer
        BY BoundsAssumption
      <3> QED  BY <1>3, <3>1 DEF Writable
    <2>3. CASE conn.closed
      <3>1. conn.write_buffer = <<>>
        <4> SUFFICES ASSUME conn.write_buffer # <<>> PROVE FALSE
          OBVIOUS
        <4>1. pc = "wait" /\ ~sock.queued
          BY <1>3, <2>3 DEF ClosedInv, AtRest
        <4> QED  BY <1>3, <2>2, <2>3, <4>1 DEF ClosedInv
      <3>2. /\ conn.request = N /\ conn.state = "RequestLine" /\ Taken = Len(Wire)
            /\ Rest = <<>>
        BY <1>3, <2>3 DEF ClosedInv
      <3>3. received = Answers(N)
        BY <1>3, <2>0, <3>1, <3>2, AllShown DEF Answered
      <3>4. sent = Len(Wire)
        BY <2>1, <3>2
      <3> QED  BY <3>3, <3>4 DEF Satisfied, N
    <2>4. CASE ~conn.closed
      <3>1. pc = "wait" /\ ~sock.queued
        BY <1>3, <2>4 DEF AtRest, RestInv
      <3>2. conn.write_buffer = <<>> /\ conn.action # "FileDownload" /\ ~Readable(sock)
        BY <1>3, <2>2, <2>4, <3>1 DEF BaseInv, WakeInv, Busy, Pending
      <3>3. conn.buffer = <<>> /\ sock.inbox = <<>>
        BY <2>0, <2>4, <3>1, <3>2 DEF AnswerInv, KeptInv, Pending, Readable
      <3>4. Taken = sent
        <4>1. Len(Waiting) = Len(conn.buffer) + Len(sock.inbox)
          BY <2>0, WaitingIs
        <4>2. Len(<<>>) = 0
          OBVIOUS
        <4> QED  BY <2>1, <3>3, <4>1, <4>2
      <3>5. received = Answers(Answered)
        <4>1. Rest = <<>>
          BY <2>0, <3>2, ShownIs
        <4> QED  BY <1>3, <2>0, <3>2, <4>1, AllShown
      <3>6. ~sock.eof
        BY <1>3 DEF Excused
      <3>7. CASE conn.state = "RequestLine" /\ conn.request < N
        <4>1. sent = conn.request /\ sent + 1 \in 1 .. N /\ (sent + 1) - 1 = sent
          BY <2>0, <2>1, <3>4, <3>7 DEF WireInv, ParseInv
        <4>2. Wire[sent + 1] = <<sent + 1, "head">> /\ Len(Wire) >= N
          <5>1. /\ Len(Wire) = IF Uploads THEN N + 2 ELSE N
                /\ \A i \in 1 .. N : Wire[i] = <<i, "head">>
            BY <1>3, <2>0, OrderlyWire
          <5>2. Wire[sent + 1] = <<sent + 1, "head">>
            BY <4>1, <5>1
          <5> QED  BY <2>1, <5>1, <5>2
        <4>3. received = Answers(sent)
          BY <3>5, <3>7, <4>1 DEF Answered
        <4>4. Len(received) \in Nat
          BY <2>0, Lengths
        <4>5. sent < Len(Wire)
          BY <2>1, <4>1, <4>2
        <4>6. Len(received) >= Len(Answers(Wire[sent + 1][1] - 1))
          BY <4>1, <4>2, <4>3, <4>4
        <4> QED  BY <1>3, <3>1, <3>6, <4>5, <4>6 DEF MaySend
      <3>8. CASE conn.state = "RequestLine" /\ ~(conn.request < N)
        <4>1. conn.request = N
          BY <2>1, <3>8
        <4>2. sent = Len(Wire)
          BY <2>0, <2>4, <3>4, <3>8, <4>1 DEF WireInv, ParseInv
        <4>3. received = Answers(N)
          BY <3>5, <3>8, <4>1 DEF Answered
        <4> QED  BY <4>2, <4>3 DEF Satisfied, N
      <3>9. CASE conn.state # "RequestLine"
        <4>1. conn.state = "Body" /\ Taken < Len(Wire) /\ conn.request = N /\ Uploads
          BY <2>0, <3>1, <3>9 DEF PlaceInv, WireInv, ParseInv
        <4>2. Taken >= N
          BY <2>0, <4>1 DEF WireInv, ParseInv
        <4>3. /\ Len(Wire) = N + 2 /\ Wire[N + 1] = <<N, "data">>
              /\ Wire[N + 2] = <<N, "last">>
          BY <1>3, <2>0, <4>1, OrderlyWire
        <4>4. sent + 1 = N + 1 \/ sent + 1 = N + 2
          BY <2>1, <3>4, <4>1, <4>2, <4>3
        <4>5. Wire[sent + 1][2] # "head" /\ sent < Len(Wire)
          BY <3>4, <4>1, <4>3, <4>4
        <4> QED  BY <1>3, <3>1, <3>6, <4>5 DEF MaySend
      <3> QED  BY <3>7, <3>8, <3>9
    <2> QED  BY <2>3, <2>4
  <1> QED  BY <1>1, <1>2, <1>3, BaseAlways, OrderlyAlways, PTL DEF Spec

(* A client that has every answer leaves nothing in write_buffer.          *)
LEMMA SatisfiedShown ==
    ASSUME DataType, PlaceInv, WireInv, ShownInv, Satisfied PROVE conn.write_buffer = <<>>
  <1> DEFINE r == received
             o == sock.outbox
             w == conn.write_buffer
  <1>1. r \in Seq(Piece) /\ o \in Seq(Piece) /\ w \in Seq(Piece) /\ Given = (r \o o) \o w
    BY ShownIs DEF Given, Passed
  <1>2. /\ Asked \in 0 .. N /\ Given \in Seq(Piece) /\ Answers(Asked) \in Seq(Piece)
        /\ IsPrefix(Given, Answers(Asked))
    BY GivenWasAsked
  <1>3. N \in Nat /\ program \in Seq(Kind)
    BY Lengths DEF DataType, WorldType
  <1>4. IsPrefix(Answers(Asked), Answers(N)) /\ Answers(N) \in Seq(Piece)
    BY <1>2, <1>3, AnswersBegin, AnswersGrow
  <1>5. r = Answers(N)
    BY DEF Satisfied, N
  <1>6. Len(Given) <= Len(Answers(Asked)) /\ Len(Answers(Asked)) <= Len(r)
    BY <1>2, <1>4, <1>5 DEF IsPrefix
  <1> HIDE DEF r, o, w
  <1>7. r \o o \in Seq(Piece) /\ Len(r \o o) = Len(r) + Len(o) /\ Len(r) \in Nat /\ Len(o) \in Nat
    BY <1>1, ConcatBegins
  <1>8. Len(Given) = Len(r \o o) + Len(w) /\ Len(w) \in Nat
    BY <1>1, <1>7, ConcatBegins
  <1>9. Len(Answers(Asked)) \in Nat
    BY <1>2, LenProperties
  <1>10. Len(w) = 0
    BY <1>6, <1>7, <1>8, <1>9
  <1> QED  BY <1>1, <1>10, EmptySeq DEF w

(* The handler does not come to rest on the connection of an orderly       *)
(* client that has its answers and has closed: an edge is queued until the *)
(* connection is removed, though the end of file drops the interest in     *)
(* writing.  This is the part of OrderlyRemoved that is no matter of       *)
(* fairness.                                                               *)
THEOREM NotKeptWhenDone ==
    Spec => [](Orderly /\ sock.eof /\ Satisfied /\ AtRest => pc = "gone")
  <1>1. Init => RestInv
    BY DEF Init, RestInv
  <1>2. BaseInv /\ RestInv /\ [Next]_vars => RestInv'
    BY RestStep
  <1>3. ASSUME BaseInv, OrdInv, RestInv, sock.eof, Satisfied, AtRest
        PROVE  pc = "gone"
    <2>1. conn.write_buffer = <<>>
      BY <1>3, SatisfiedShown DEF BaseInv, OrdInv, AnswerInv
    <2> SUFFICES ASSUME pc = "wait", ~sock.queued PROVE FALSE
      BY <1>3 DEF AtRest
    <2>2. ~conn.closed
      BY <1>3, <2>1 DEF RestInv
    <2> QED  BY <1>3, <2>2 DEF BaseInv, WakeInv, Readable
  <1> QED  BY <1>1, <1>2, <1>3, BaseAlways, OrderlyAlways, PTL DEF Spec

=============================================================================
