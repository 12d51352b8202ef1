----------------------------- MODULE CgiPipe_proof -----------------------------
(***************************************************************************)
(* Proofs about CgiPipe, for any scripts, bodies and sizes of the streams. *)
(* BodyInv says where each piece of the body is, OutInv where each piece   *)
(* of the output is; the checked invariants follow from them.              *)
(***************************************************************************)
EXTENDS CgiPipe, SequenceTheorems, TLAPS

Pieces == {"head", "last", "p1", "p2", "p3"}
Unit == Pieces \cup {"cut", "end", "505"}
ParseState == {"ReadHeaders", "StreamBody", "StreamBodyChuncked"}
Conn ==
    [action : {"Cgi", "None"}, parse_state : ParseState, in_stream : BOOLEAN,
     cgi_out_token : BOOLEAN, cgi_in_token : BOOLEAN, body_remaining : Int,
     cgi_buffer : Int, header_buf : Seq(Pieces), write_buffer : Seq(Unit),
     wants_write : BOOLEAN, closed : BOOLEAN]

FixedType ==
    /\ script \in [reads : BOOLEAN, pieces : 0 .. 3, sized : BOOLEAN, ok : BOOLEAN,
                   head : {"crlf", "lf", "mixed", "open"}, text : {"plain", "cr", "blank"}]
    /\ body \in Nat /\ encoding \in {"length", "chunked"} /\ StdinRoom \in Nat
ProcessType ==
    /\ written \in 0 .. script.pieces + 2 /\ consumed \in Nat /\ stdin \in 0 .. StdinRoom
    /\ child \in {"running", "closed", "zombie", "reaped"}
    /\ stdout \in Seq(Pieces)
ClientType == unsent \in Nat /\ inbox \in Nat /\ received \in Seq(Unit)
LoopType ==
    /\ queued \subseteq {"out", "in", "client"}
    /\ batch \subseteq {"out", "in", "readable", "writable"}

DataType == FixedType /\ ProcessType /\ ClientType /\ LoopType /\ conn \in Conn

(* A piece of the body is with the client, on its way, in the buffer, in   *)
(* stdin or consumed; it can be lost only when the action is over.         *)
Somewhere == unsent + inbox + conn.cgi_buffer + stdin + consumed
BodyInv ==
    /\ conn.cgi_buffer >= 0 /\ conn.body_remaining \in 0 .. body
    /\ Somewhere <= body
    /\ conn.action = "Cgi" => Somewhere = body
    /\ encoding = "length" /\ conn.action = "Cgi" => conn.body_remaining = unsent + inbox
    /\ child \in {"running", "closed", "zombie"} <=> conn.action = "Cgi"
    /\ StdinWhole

(* The beginning that was written of an output.                            *)
Done(P) == SubSeq(P, 1, written)

InHeaders == conn.parse_state = "ReadHeaders"

(* Nothing of the output is shown before the end of its head was found:    *)
(* what was read of it is in header_buf, and there is no end of a clear    *)
(* head in it.  From then on what was written is what is shown and what    *)
(* stdout still holds, with the first piece cut perhaps if the script is   *)
(* not clear, until the end of file is read.  Nothing else is ever shown,  *)
(* but the one answer to an early failure.                                 *)
Flow ==
    \/ InHeaders /\ conn.header_buf \o stdout = Done(Piece)
    \/ ~InHeaders /\ Shown \o stdout = Done(Piece)
    \/ ~InHeaders /\ ~Clear /\ written > 2 /\ Shown \o stdout = Done(PieceCut)
AtEof ==
    \/ Shown = Framed
    \/ ~Clear /\ (Shown = Answer(PieceCut) \/ (Shown = <<>> /\ InHeaders))
InPlace == IsPrefix(Shown, Framed) \/ (~Clear /\ IsPrefix(Shown, Answer(PieceCut)))

OutInv ==
    /\ pc = "cgi_read" => conn.cgi_out_token
    /\ Exited /\ script.ok => written = script.pieces + 2
    /\ InHeaders /\ conn.action = "Cgi" => Shown = <<>>
    /\ InHeaders /\ Clear => Len(conn.header_buf) < 2
    /\ ~InHeaders =>
          conn.parse_state = IF script.sized THEN "StreamBody" ELSE "StreamBodyChuncked"
    /\ \A k \in DOMAIN Shown : Shown[k] = "505" => conn.action = "None" /\ Len(Shown) = 1
    /\ session /\ script.ok =>
          /\ conn.action = "Cgi" /\ conn.cgi_out_token => Flow
          /\ conn.action = "Cgi" /\ ~conn.cgi_out_token => AtEof
          /\ conn.action = "None" => InPlace

IInv == DataType /\ BodyInv /\ OutInv

-----------------------------------------------------------------------------
(* Sequences.                                                              *)

LEMMA PieceType == Piece \in Seq(Pieces) /\ Len(Piece) = 5
  BY DEF Piece, Pieces

(* The output and what is left of it when its first piece is cut.          *)
LEMMA OutputType ==
    /\ Piece \in Seq(Unit) /\ Len(Piece) = 5
    /\ PieceCut \in Seq(Unit) /\ Len(PieceCut) = 5
    /\ PieceCut[3] = "cut" /\ \A i \in 1 .. 5 : i # 3 => PieceCut[i] = Piece[i]
  <1>1. Piece \in Seq(Unit) /\ Len(Piece) = 5
    BY DEF Piece, Pieces, Unit
  <1>2. PieceCut \in Seq(Unit) /\ Len(PieceCut) = 5
    BY DEF PieceCut, Pieces, Unit
  <1>3. PieceCut[3] = "cut" /\ \A i \in 1 .. 5 : i # 3 => PieceCut[i] = Piece[i]
    BY DEF PieceCut, Piece
  <1> QED  BY <1>1, <1>2, <1>3

LEMMA PiecesAreUnits == ASSUME NEW s \in Seq(Pieces) PROVE s \in Seq(Unit)
  BY SeqMonotonic DEF Unit

LEMMA Beginning ==
    ASSUME NEW P \in Seq(Unit), Len(P) = 5, NEW n \in 0 .. 5
    PROVE  /\ SubSeq(P, 1, n) \in Seq(Unit) /\ Len(SubSeq(P, 1, n)) = n
           /\ \A i \in 1 .. n : SubSeq(P, 1, n)[i] = P[i]
  <1>1. \A i \in 1 .. 5 : P[i] \in Unit
    BY ElementOfSeq
  <1>2. \A i \in 1 .. n : P[i] \in Unit
    BY <1>1
  <1> QED  BY <1>2, SubSeqProperties

LEMMA ConcatBegins ==
    ASSUME NEW S, NEW s \in Seq(S), NEW t \in Seq(S)
    PROVE  /\ s \o t \in Seq(S) /\ Len(s \o t) = Len(s) + Len(t)
           /\ Len(s) \in Nat /\ Len(t) \in Nat
           /\ \A i \in 1 .. Len(s) : (s \o t)[i] = s[i]
  <1>1. Len(s) \in Nat /\ Len(t) \in Nat
    BY LenProperties
  <1> QED  BY <1>1, ConcatProperties

LEMMA AppendOfConcat ==
    ASSUME NEW S, NEW s \in Seq(S), NEW t \in Seq(S), NEW e \in S
    PROVE  s \o Append(t, e) = Append(s \o t, e)
  <1>1. <<e>> \in Seq(S) /\ s \o t \in Seq(S)
    BY ConcatProperties
  <1>2. Append(t, e) = t \o <<e>> /\ Append(s \o t, e) = (s \o t) \o <<e>>
    BY <1>1, AppendIsConcat
  <1> QED  BY <1>1, <1>2, ConcatAssociative

LEMMA UnitsAssociate ==
    ASSUME NEW a \in Seq(Unit), NEW b \in Seq(Unit), NEW c \in Seq(Unit)
    PROVE  (a \o b) \o c = a \o (b \o c)
  BY ConcatAssociative

LEMMA UnitsAppend ==
    ASSUME NEW t \in Seq(Unit), NEW e \in Unit
    PROVE  \A s \in Seq(Unit) : s \o Append(t, e) = Append(s \o t, e)
  BY AppendOfConcat

LEMMA ShownType == ASSUME DataType PROVE Shown \in Seq(Unit) /\ conn.write_buffer \in Seq(Unit)
  BY ConcatProperties DEF DataType, ClientType, Conn, Shown

LEMMA DoneType ==
    ASSUME DataType, NEW P \in Seq(Unit), Len(P) = 5
    PROVE  /\ Done(P) \in Seq(Unit) /\ Len(Done(P)) = written
           /\ \A i \in 1 .. written : Done(P)[i] = P[i]
  BY Beginning DEF DataType, FixedType, ProcessType, Done

LEMMA AnswerType ==
    ASSUME DataType, NEW P \in Seq(Unit), Len(P) = 5
    PROVE  /\ Answer(P) \in Seq(Unit) /\ Len(Answer(P)) >= script.pieces + 2
           /\ \A i \in 1 .. script.pieces + 2 : Answer(P)[i] = P[i]
           /\ script.sized => Answer(P) = SubSeq(P, 1, script.pieces + 2)
           /\ ~script.sized => Answer(P) = SubSeq(P, 1, script.pieces + 2) \o <<"end">>
  <1> DEFINE n == script.pieces + 2
             s == SubSeq(P, 1, n)
  <1>1. n \in 0 .. 5
    BY DEF DataType, FixedType
  <1>2. s \in Seq(Unit) /\ Len(s) = n /\ \A i \in 1 .. n : s[i] = P[i]
    BY <1>1, Beginning
  <1> HIDE DEF s
  <1>3. <<"end">> \in Seq(Unit) /\ <<>> \in Seq(Unit)
    BY DEF Unit
  <1>4. CASE script.sized
    <2>1. Answer(P) = s
      BY <1>2, <1>4, ConcatEmptySeq DEF Answer, s
    <2> QED  BY <1>1, <1>2, <1>4, <2>1 DEF s
  <1>5. CASE ~script.sized
    <2>1. Answer(P) = s \o <<"end">>
      BY <1>5 DEF Answer, s
    <2>2. /\ s \o <<"end">> \in Seq(Unit) /\ Len(s \o <<"end">>) >= Len(s)
          /\ \A i \in 1 .. Len(s) : (s \o <<"end">>)[i] = s[i]
      BY <1>2, <1>3, ConcatBegins
    <2> QED  BY <1>1, <1>2, <1>5, <2>1, <2>2 DEF s
  <1> QED  BY <1>4, <1>5

(* What is shown is a beginning of the whole answer, as long as it is a    *)
(* beginning of what was written.                                          *)
LEMMA ShownIsPrefix ==
    ASSUME DataType, NEW P \in Seq(Unit), Len(P) = 5, NEW rest \in Seq(Unit),
           Shown \o rest = Done(P)
    PROVE  IsPrefix(Shown, Answer(P))
  <1>1. /\ Shown \in Seq(Unit) /\ Len(Shown) \in Nat /\ Len(rest) \in Nat
        /\ written <= script.pieces + 2 /\ written \in Nat /\ script.pieces \in Nat
    BY ShownType, LenProperties DEF DataType, ProcessType, FixedType
  <1>2. /\ Len(Shown) + Len(rest) = written
        /\ \A i \in 1 .. Len(Shown) : Done(P)[i] = Shown[i]
    <2>1. /\ Len(Shown \o rest) = Len(Shown) + Len(rest)
          /\ \A i \in 1 .. Len(Shown) : (Shown \o rest)[i] = Shown[i]
      BY <1>1, ConcatBegins
    <2>2. Len(Done(P)) = written
      BY DoneType
    <2> QED  BY <2>1, <2>2
  <1>3. Len(Shown) <= Len(Answer(P)) /\ \A i \in 1 .. Len(Shown) : Answer(P)[i] = Shown[i]
    BY <1>1, <1>2, DoneType, AnswerType
  <1>4. /\ \A i \in 1 .. Len(Shown) : Answer(P)[i] \in Unit
        /\ SubSeq(Shown, 1, Len(Shown)) = Shown
    BY <1>1, <1>3, ElementOfSeq, SubSeqFull
  <1>5. SubSeq(Answer(P), 1, Len(Shown)) = Shown
    <2>1. /\ SubSeq(Answer(P), 1, Len(Shown)) \in Seq(Unit)
          /\ Len(SubSeq(Answer(P), 1, Len(Shown))) = Len(Shown)
          /\ \A i \in 1 .. Len(Shown) : SubSeq(Answer(P), 1, Len(Shown))[i] = Answer(P)[i]
      BY <1>1, <1>4, SubSeqProperties
    <2> QED  BY <1>1, <1>3, <2>1, SeqEqual
  <1> QED  BY <1>3, <1>4, <1>5 DEF IsPrefix

LEMMA AnswerIsPrefix ==
    ASSUME DataType, NEW P \in Seq(Unit), Len(P) = 5 PROVE IsPrefix(Answer(P), Answer(P))
  <1>1. Answer(P) \in Seq(Unit) /\ Len(Answer(P)) \in Nat
    BY AnswerType, LenProperties
  <1> QED  BY <1>1, SubSeqFull DEF IsPrefix

(* While the script's action lasts, what is shown is in its place.         *)
LEMMA ShownInPlace ==
    ASSUME IInv, session, script.ok, conn.action = "Cgi"
    PROVE  InPlace
  <1>1. /\ stdout \in Seq(Unit) /\ conn.header_buf \in Seq(Unit) /\ Shown \in Seq(Unit)
        /\ conn.header_buf \o stdout \in Seq(Unit)
    BY PiecesAreUnits, ShownType, ConcatProperties DEF IInv, DataType, ProcessType, Conn
  <1>2. CASE conn.cgi_out_token
    <2>1. Flow
      BY <1>2 DEF IInv, OutInv
    <2>2. CASE InHeaders /\ conn.header_buf \o stdout = Done(Piece)
      <3>1. Shown = <<>>
        BY <2>2 DEF IInv, OutInv
      <3>2. Shown \o (conn.header_buf \o stdout) = Done(Piece)
        BY <1>1, <2>2, <3>1, ConcatEmptySeq
      <3> QED  BY <1>1, <3>2, ShownIsPrefix, OutputType DEF InPlace, Framed, IInv
    <2>3. CASE Shown \o stdout = Done(Piece)
      BY <1>1, <2>3, ShownIsPrefix, OutputType DEF InPlace, Framed, IInv
    <2>4. CASE ~Clear /\ Shown \o stdout = Done(PieceCut)
      BY <1>1, <2>4, ShownIsPrefix, OutputType DEF InPlace, IInv
    <2> QED  BY <2>1, <2>2, <2>3, <2>4 DEF Flow
  <1>3. CASE ~conn.cgi_out_token
    <2>1. AtEof
      BY <1>3 DEF IInv, OutInv
    <2>2. IsPrefix(Framed, Framed) /\ IsPrefix(Answer(PieceCut), Answer(PieceCut))
      BY AnswerIsPrefix, OutputType DEF Framed, IInv
    <2>3. CASE Shown = <<>>
      <3>1. Framed \in Seq(Unit) /\ SubSeq(Framed, 1, 0) = <<>> /\ Len(Framed) >= 0
        BY AnswerType, OutputType, SubSeqEmpty, LenProperties DEF Framed, IInv
      <3>2. SubSeq(<<>>, 1, 0) = <<>> /\ Len(<<>>) = 0
        BY SubSeqEmpty, EmptySeq
      <3> QED  BY <2>3, <3>1, <3>2 DEF InPlace, IsPrefix
    <2> QED  BY <2>1, <2>2, <2>3 DEF AtEof, InPlace
  <1> QED  BY <1>2, <1>3

(* process_cgi_stdout finds the end of a clear head with its last line and *)
(* puts the split there.  The others lose the beginning of the first piece *)
(* or nothing.                                                             *)
LEMMA ClearSplit ==
    ASSUME NEW buf, Len(buf) \in Nat, Clear
    PROVE  (Found(buf) <=> Len(buf) > 1) /\ (Found(buf) => ~Misplaced(buf))
  BY DEF Clear, Found, CrlfEndsHead, CrlfInBody, LfEndsHead, Misplaced, HoldsCr

LEMMA SplitCuts ==
    ASSUME DataType, NEW buf \in Seq(Pieces), NEW rest \in Seq(Pieces),
           Found(buf), ~Overruns(buf)
    PROVE  /\ Split(buf) \in Seq(Unit) /\ \A k \in DOMAIN Split(buf) : Split(buf)[k] # "505"
           /\ buf \o rest = Done(Piece) =>
                 \/ Split(buf) \o rest = Done(Piece)
                 \/ ~Clear /\ written > 2 /\ Split(buf) \o rest = Done(PieceCut)
  <1>1. /\ buf \in Seq(Unit) /\ rest \in Seq(Unit) /\ Len(buf) \in Nat /\ Len(rest) \in Nat
        /\ DOMAIN buf = 1 .. Len(buf) /\ \A k \in 1 .. Len(buf) : buf[k] \in Pieces
    BY PiecesAreUnits, LenProperties, ElementOfSeq
  <1>2. CASE ~Misplaced(buf)
    BY <1>1, <1>2 DEF Split, Pieces
  <1>3. CASE Misplaced(buf)
    <2> DEFINE c == [buf EXCEPT ![3] = "cut"]
    <2>1. Split(buf) = c
      BY <1>3 DEF Split
    <2>2. ~Clear /\ Len(buf) > 2
      BY <1>1, <1>3, ClearSplit DEF Found, CrlfEndsHead, CrlfInBody, LfEndsHead, Overruns
    <2>3. /\ c \in Seq(Unit) /\ Len(c) = Len(buf) /\ c[3] = "cut"
          /\ \A k \in 1 .. Len(buf) : k # 3 => c[k] = buf[k]
      <3>1. "cut" \in Unit
        BY DEF Unit
      <3> QED  BY <1>1, <2>2, <3>1, ExceptSeq
    <2> HIDE DEF c
    <2>4. DOMAIN c = 1 .. Len(buf) /\ \A k \in 1 .. Len(buf) : c[k] # "505"
      BY <1>1, <2>3, LenProperties DEF Pieces
    <2>5. ASSUME buf \o rest = Done(Piece)
          PROVE  written > 2 /\ c \o rest = Done(PieceCut)
      <3>1. /\ Len(buf) + Len(rest) = written /\ written \in 0 .. 5
            /\ Len(Done(Piece)) = written /\ \A i \in 1 .. written : Done(Piece)[i] = Piece[i]
            /\ Len(Done(PieceCut)) = written /\ Done(PieceCut) \in Seq(Unit)
            /\ \A i \in 1 .. written : Done(PieceCut)[i] = PieceCut[i]
        BY <1>1, <2>5, ConcatProperties, DoneType, OutputType DEF DataType, ProcessType, FixedType
      <3>2. \A i \in 1 .. Len(buf) + Len(rest) :
               (buf \o rest)[i] = IF i <= Len(buf) THEN buf[i] ELSE rest[i - Len(buf)]
        BY <1>1, ConcatProperties
      <3>3. /\ c \o rest \in Seq(Unit) /\ Len(c \o rest) = Len(c) + Len(rest)
            /\ \A i \in 1 .. Len(c) + Len(rest) :
               (c \o rest)[i] = IF i <= Len(c) THEN c[i] ELSE rest[i - Len(c)]
        BY <1>1, <2>3, ConcatProperties
      <3>4. \A i \in 1 .. written : i # 3 => PieceCut[i] = Piece[i]
        BY <3>1, OutputType
      <3>5. \A i \in 1 .. written : (c \o rest)[i] = PieceCut[i]
        <4> SUFFICES ASSUME NEW i \in 1 .. written PROVE (c \o rest)[i] = PieceCut[i]
          OBVIOUS
        <4>1. CASE i = 3
          BY <2>2, <2>3, <3>1, <3>3, <4>1, OutputType
        <4>2. CASE i # 3
          <5>1. (c \o rest)[i] = (buf \o rest)[i]
            BY <1>1, <2>3, <3>1, <3>2, <3>3, <4>2
          <5>2. (buf \o rest)[i] = Piece[i]
            BY <2>5, <3>1
          <5> QED  BY <3>4, <4>2, <5>1, <5>2
        <4> QED  BY <4>1, <4>2
      <3>6. c \o rest = Done(PieceCut)
        BY <2>3, <3>1, <3>3, <3>5, SeqEqual
      <3> QED  BY <1>1, <2>2, <3>1, <3>6
    <2> QED  BY <2>1, <2>2, <2>3, <2>4, <2>5
  <1> QED  BY <1>2, <1>3

-----------------------------------------------------------------------------
(* What the steps that change the connection make of it.                   *)

SameBody ==
    conn'.in_stream = conn.in_stream /\ conn'.body_remaining = conn.body_remaining
      /\ conn'.cgi_buffer = conn.cgi_buffer
SameTokens ==
    conn'.cgi_out_token = conn.cgi_out_token /\ conn'.cgi_in_token = conn.cgi_in_token
SameHead == conn'.parse_state = conn.parse_state /\ conn'.header_buf = conn.header_buf
SameOutput == conn'.write_buffer = conn.write_buffer /\ SameHead

(* What a read that returns n pieces makes of the output.                  *)
Collected(n) == conn.header_buf \o SubSeq(stdout, 1, n)
Ends(n) == Found(Collected(n)) /\ ~Overruns(Collected(n))
Taken(n) ==
    /\ ~InHeaders =>
          /\ conn'.write_buffer = conn.write_buffer \o SubSeq(stdout, 1, n)
          /\ SameHead
    /\ InHeaders /\ Ends(n) =>
          /\ conn'.write_buffer = conn.write_buffer \o Split(Collected(n))
          /\ conn'.parse_state = IF script.sized THEN "StreamBody" ELSE "StreamBodyChuncked"
    /\ InHeaders /\ ~Ends(n) =>
          /\ conn'.write_buffer = conn.write_buffer /\ conn'.parse_state = conn.parse_state
          /\ conn'.header_buf = Collected(n)

LEMMA ReadDataConn ==
    ASSUME DataType, ReadData
    PROVE  \E n \in 1 .. Len(stdout) :
             /\ stdout' = SubSeq(stdout, n + 1, Len(stdout))
             /\ conn' \in Conn /\ SameBody /\ SameTokens
             /\ conn.action = "Cgi" /\ conn'.action = "Cgi"
             /\ session => Taken(n)
             /\ ~session => SameOutput
  <1> DEFINE n == SmallestOf(ReadPieces, Len(stdout))
             t == SubSeq(stdout, 1, n)
             buf == conn.header_buf \o t
  <1>1. Len(stdout) \in Nat \ {0} /\ stdout \in Seq(Pieces)
    BY EmptySeq DEF DataType, ProcessType, ReadData
  <1>2. n \in 1 .. Len(stdout)
    BY <1>1, BoundsAssumption DEF SmallestOf
  <1>0. conn' = WantsWrite(IF session THEN Processed(conn, t) ELSE conn)
    BY DEF ReadData
  <1>a. stdout' = SubSeq(stdout, n + 1, Len(stdout)) /\ conn.action = "Cgi" /\ conn \in Conn
    BY DEF ReadData, DataType
  <1> HIDE DEF n
  <1>3. t \in Seq(Pieces)
    <2>1. \A i \in 1 .. n : stdout[i] \in Pieces
      BY <1>1, <1>2, ElementOfSeq
    <2> QED  BY <1>1, <1>2, <2>1, SubSeqProperties
  <1>b. buf = Collected(n)
    BY DEF Collected
  <1> HIDE DEF t
  <1>4. buf \in Seq(Pieces) /\ conn.write_buffer \o t \in Seq(Unit)
    BY <1>3, PiecesAreUnits, ConcatProperties DEF DataType, Conn
  <1> HIDE DEF buf
  <1>5. CASE session /\ ~InHeaders
    <2>1. conn' = [[conn EXCEPT !.write_buffer = @ \o t] EXCEPT !.wants_write = TRUE]
      BY <1>0, <1>5 DEF WantsWrite, Processed, InHeaders
    <2>2. /\ conn' \in Conn /\ SameBody /\ SameTokens /\ SameHead /\ conn'.action = conn.action
          /\ conn'.write_buffer = conn.write_buffer \o t
      BY <1>4, <1>a, <2>1 DEF Conn, SameBody, SameTokens, SameHead
    <2> QED  BY <1>2, <1>5, <1>a, <2>2 DEF Taken, t
  <1>6. CASE session /\ InHeaders /\ Ends(n)
    <2> DEFINE state == IF script.sized THEN "StreamBody" ELSE "StreamBodyChuncked"
               shown == conn.write_buffer \o Split(buf)
    <2>1. conn' = [[conn EXCEPT !.header_buf = buf, !.write_buffer = shown,
                                !.parse_state = state] EXCEPT !.wants_write = TRUE]
      BY <1>0, <1>6, <1>b DEF WantsWrite, Processed, InHeaders, Ends, buf
    <2>2. shown \in Seq(Unit) /\ state \in ParseState
      <3>1. Split(buf) \in Seq(Unit)
        BY <1>4, <1>6, <1>b, SplitCuts DEF Ends
      <3> QED  BY <1>a, <3>1, ConcatProperties DEF Conn, ParseState
    <2> HIDE DEF state, shown
    <2>3. /\ conn' \in Conn /\ SameBody /\ SameTokens /\ conn'.action = conn.action
          /\ conn'.write_buffer = shown /\ conn'.parse_state = state
      BY <1>4, <1>a, <2>1, <2>2 DEF Conn, SameBody, SameTokens
    <2> QED  BY <1>2, <1>6, <1>a, <1>b, <2>3 DEF Taken, state, shown
  <1>7. CASE session /\ InHeaders /\ ~Ends(n)
    <2>1. conn' = [[conn EXCEPT !.header_buf = buf] EXCEPT !.wants_write = TRUE]
      BY <1>0, <1>7, <1>b DEF WantsWrite, Processed, InHeaders, Ends, buf
    <2>2. /\ conn' \in Conn /\ SameBody /\ SameTokens /\ conn'.action = conn.action
          /\ conn'.write_buffer = conn.write_buffer /\ conn'.parse_state = conn.parse_state
          /\ conn'.header_buf = buf
      BY <1>4, <1>a, <2>1 DEF Conn, SameBody, SameTokens
    <2> QED  BY <1>2, <1>7, <1>a, <1>b, <2>2 DEF Taken
  <1>8. CASE ~session
    <2>1. conn' = [conn EXCEPT !.wants_write = TRUE]
      BY <1>0, <1>8 DEF WantsWrite
    <2>2. conn' \in Conn /\ SameBody /\ SameTokens /\ SameOutput /\ conn'.action = conn.action
      BY <1>a, <2>1 DEF Conn, SameBody, SameTokens, SameOutput, SameHead
    <2> QED  BY <1>2, <1>8, <1>a, <2>2
  <1> QED  BY <1>5, <1>6, <1>7, <1>8

LEMMA ReadEofConn ==
    ASSUME DataType, ReadEof
    PROVE  /\ conn' \in Conn /\ SameBody /\ SameHead
           /\ conn.action = "Cgi" /\ conn'.action = "Cgi"
           /\ ~conn'.cgi_out_token
           /\ conn'.write_buffer = IF conn.parse_state = "StreamBodyChuncked"
                                   THEN Append(conn.write_buffer, "end") ELSE conn.write_buffer
  <1>1. Append(conn.write_buffer, "end") \in Seq(Unit)
    BY AppendProperties DEF DataType, Conn, Unit
  <1>2. CASE conn.parse_state = "StreamBodyChuncked"
    <2>1. conn' = [[[conn EXCEPT !.write_buffer = Append(@, "end")] EXCEPT !.wants_write = TRUE]
                     EXCEPT !.cgi_out_token = FALSE, !.cgi_in_token = FALSE]
      BY <1>2 DEF ReadEof, Forget, WantsWrite
    <2> QED  BY <1>1, <1>2, <2>1 DEF ReadEof, DataType, Conn, SameBody, SameHead
  <1>3. CASE conn.parse_state # "StreamBodyChuncked"
    <2>1. conn' = [conn EXCEPT !.cgi_out_token = FALSE, !.cgi_in_token = FALSE]
      BY <1>3 DEF ReadEof, Forget
    <2> QED  BY <1>3, <2>1 DEF ReadEof, DataType, Conn, SameBody, SameHead
  <1> QED  BY <1>2, <1>3

LEMMA WriteStdinConn ==
    ASSUME DataType, WriteStdin
    PROVE  \E n \in Nat :
             /\ stdin' = stdin + n /\ stdin + n <= StdinRoom /\ n <= conn.cgi_buffer
             /\ conn' \in Conn /\ SameOutput /\ conn'.cgi_out_token = conn.cgi_out_token
             /\ conn.action = "Cgi" /\ conn'.action = "Cgi" /\ conn.in_stream
             /\ conn'.cgi_buffer = conn.cgi_buffer - n
             /\ conn'.body_remaining = conn.body_remaining
             /\ ~conn'.in_stream => conn.body_remaining = 0 /\ conn'.cgi_buffer = 0
  <1> DEFINE n == SmallestOf(conn.cgi_buffer, StdinRoom - stdin)
             c == WantsWrite([conn EXCEPT !.cgi_buffer = @ - n])
  <1>1. n \in Nat /\ stdin + n <= StdinRoom /\ n <= conn.cgi_buffer
    BY DEF DataType, FixedType, ProcessType, Conn, SmallestOf, WriteStdin
  <1> HIDE DEF n
  <1>2. conn \in Conn /\ conn.action = "Cgi" /\ conn.in_stream
    BY DEF DataType, WriteStdin, CanWrite
  <1>3. /\ c \in Conn /\ c.cgi_buffer = conn.cgi_buffer - n /\ c.action = "Cgi" /\ c.in_stream
        /\ c.body_remaining = conn.body_remaining /\ c.cgi_out_token = conn.cgi_out_token
        /\ c.write_buffer = conn.write_buffer /\ c.parse_state = conn.parse_state
        /\ c.header_buf = conn.header_buf
    <2> DEFINE left == conn.cgi_buffer - n
    <2>1. left \in Int
      BY <1>1, <1>2 DEF Conn
    <2> HIDE DEF left
    <2>2. c = [conn EXCEPT !.cgi_buffer = left, !.wants_write = TRUE]
      BY <1>2 DEF Conn, WantsWrite, left
    <2>3. /\ c \in Conn /\ c.cgi_buffer = left /\ c.action = conn.action
          /\ c.in_stream = conn.in_stream
          /\ c.body_remaining = conn.body_remaining /\ c.cgi_out_token = conn.cgi_out_token
          /\ c.write_buffer = conn.write_buffer /\ c.parse_state = conn.parse_state
          /\ c.header_buf = conn.header_buf
      BY <1>2, <2>1, <2>2 DEF Conn
    <2> QED  BY <1>2, <2>3 DEF left
  <1> HIDE DEF c
  <1>4. conn' = IF SentAll(c) THEN [c EXCEPT !.in_stream = FALSE, !.cgi_in_token = FALSE] ELSE c
    BY DEF WriteStdin, c, n
  <1>5. CASE SentAll(c)
    <2>1. /\ conn' \in Conn /\ SameOutput /\ conn'.cgi_out_token = conn.cgi_out_token
          /\ conn'.action = "Cgi" /\ conn'.cgi_buffer = c.cgi_buffer
          /\ conn'.body_remaining = c.body_remaining
      BY <1>3, <1>4, <1>5 DEF Conn, SameOutput, SameHead
    <2> QED  BY <1>1, <1>2, <1>3, <1>5, <2>1 DEF SentAll, WriteStdin, n
  <1>6. CASE ~SentAll(c)
    BY <1>1, <1>2, <1>3, <1>4, <1>6 DEF SameOutput, SameHead, WriteStdin, n
  <1> QED  BY <1>5, <1>6

LEMMA MonitorExitConn ==
    ASSUME DataType, MonitorExit
    PROVE  /\ conn' \in Conn /\ conn.action = "Cgi" /\ conn'.action = "None"
           /\ conn'.body_remaining = conn.body_remaining /\ conn'.cgi_buffer = conn.cgi_buffer
           /\ SameHead /\ ~conn'.in_stream
           /\ conn'.write_buffer = IF Premature THEN <<"505">> ELSE conn.write_buffer
  <1>1. <<"505">> \in Seq(Unit) /\ Premature \in BOOLEAN
    BY DEF Unit, Premature
  <1>2. conn' = [[[conn EXCEPT !.cgi_out_token = FALSE, !.cgi_in_token = FALSE]
                    EXCEPT !.action = "None", !.in_stream = FALSE,
                           !.write_buffer = IF Premature THEN <<"505">> ELSE @,
                           !.closed = @ \/ Premature] EXCEPT !.wants_write = TRUE]
    BY DEF MonitorExit, Reaped, Forget, WantsWrite
  <1> QED  BY <1>1, <1>2 DEF MonitorExit, DataType, Conn, SameHead

LEMMA ReadPhaseConn ==
    ASSUME DataType, BodyInv, ReadPhase
    PROVE  /\ conn' \in Conn /\ SameOutput /\ SameTokens
           /\ conn'.action = conn.action /\ conn'.in_stream = conn.in_stream
           /\ \/ inbox' = inbox /\ SameBody
              \/ inbox' = 0 /\ conn.action # "Cgi" /\ SameBody
              \/ /\ inbox' = 0 /\ conn.action = "Cgi"
                 /\ conn'.cgi_buffer = conn.cgi_buffer + inbox
                 /\ conn'.body_remaining = IF encoding = "length" THEN conn.body_remaining - inbox
                                           ELSE conn.body_remaining
  <1>1. conn \in Conn /\ inbox \in Nat /\ StillWants \in BOOLEAN
    BY DEF DataType, ClientType, StillWants
  <1>2. CASE ~("readable" \in batch /\ ~conn.closed)
    BY <1>1, <1>2 DEF ReadPhase, SameOutput, SameHead, SameTokens, SameBody
  <1>3. CASE ("readable" \in batch /\ ~conn.closed) /\ conn.action # "Cgi"
    <2>1. conn' = [conn EXCEPT !.wants_write = StillWants] /\ inbox' = 0
      BY <1>3 DEF ReadPhase, Feed
    <2> QED  BY <1>1, <1>3, <2>1 DEF Conn, SameOutput, SameHead, SameTokens, SameBody
  <1>4. CASE ("readable" \in batch /\ ~conn.closed) /\ conn.action = "Cgi"
    <2> DEFINE held == conn.cgi_buffer + inbox
               left == IF encoding = "length" THEN conn.body_remaining - inbox
                       ELSE conn.body_remaining
    <2>1. held \in Int /\ left \in Int
      BY <1>1 DEF Conn
    <2>2. /\ conn' = [[conn EXCEPT !.cgi_buffer = held, !.body_remaining = left]
                        EXCEPT !.wants_write = StillWants]
          /\ inbox' = 0
      BY <1>4 DEF ReadPhase, Feed
    <2> HIDE DEF held, left
    <2>3. /\ conn' \in Conn /\ SameOutput /\ SameTokens
          /\ conn'.action = conn.action /\ conn'.in_stream = conn.in_stream
          /\ conn'.cgi_buffer = held /\ conn'.body_remaining = left
      BY <1>1, <2>1, <2>2 DEF Conn, SameOutput, SameHead, SameTokens
    <2> QED  BY <1>4, <2>2, <2>3 DEF held, left
  <1> QED  BY <1>2, <1>3, <1>4

LEMMA WritePhaseConn ==
    ASSUME DataType, WritePhase
    PROVE  /\ conn' \in Conn /\ SameBody /\ SameTokens /\ conn'.action = conn.action
           /\ SameHead
           /\ received' \in Seq(Unit) /\ Shown' = Shown
  <1>1. /\ conn \in Conn /\ received \in Seq(Unit) /\ conn.write_buffer \in Seq(Unit)
        /\ <<>> \in Seq(Unit)
    BY EmptySeq DEF DataType, ClientType, Conn
  <1>2. CASE "writable" \in batch
    <2>1. conn' = [conn EXCEPT !.write_buffer = <<>>, !.wants_write = conn.closed]
      BY <1>2 DEF WritePhase
    <2>2. received' = received \o conn.write_buffer
      BY <1>2 DEF WritePhase
    <2>3. received' \in Seq(Unit)
      BY <1>1, <2>2, ConcatProperties
    <2>4. /\ conn' \in Conn /\ SameBody /\ SameTokens /\ conn'.action = conn.action
          /\ SameHead /\ conn'.write_buffer = <<>>
      BY <1>1, <2>1 DEF Conn, SameBody, SameTokens, SameHead
    <2>5. received' \o conn'.write_buffer = received \o conn.write_buffer
      BY <2>2, <2>3, <2>4, ConcatEmptySeq
    <2> QED  BY <2>3, <2>4, <2>5 DEF Shown
  <1>3. CASE "writable" \notin batch
    BY <1>1, <1>3 DEF WritePhase, SameBody, SameTokens, SameHead, Shown
  <1> QED  BY <1>2, <1>3

-----------------------------------------------------------------------------
(* The steps.                                                              *)

(* A step of the loop that only moves on.                                  *)
MovesOn ==
    /\ UNCHANGED <<fixed, process, client, conn, session>>
    /\ LoopType' /\ (pc' = "cgi_read" => conn.cgi_out_token)

LEMMA MovingOn ==
    ASSUME DataType, OutInv,
           \/ Poll \/ OutEvent \/ InEvent \/ ClientEvent \/ EndOfBatch
           \/ WriteNothing \/ MonitorAlive \/ Lifecycle
    PROVE  MovesOn
  <1>1. LoopType
    BY DEF DataType
  <1>2. ASSUME Poll PROVE MovesOn
    BY <1>1, <1>2 DEF Poll, MovesOn, LoopType
  <1>3. ASSUME OutEvent PROVE MovesOn
    BY <1>1, <1>3 DEF OutEvent, Begin, MovesOn, LoopType
  <1>4. ASSUME InEvent PROVE MovesOn
    BY <1>1, <1>4 DEF InEvent, Begin, MovesOn, LoopType
  <1>5. ASSUME ClientEvent PROVE MovesOn
    BY <1>1, <1>5 DEF ClientEvent, Begin, MovesOn, LoopType
  <1>6. ASSUME EndOfBatch PROVE MovesOn
    BY <1>1, <1>6 DEF EndOfBatch, MovesOn, LoopType
  <1>7. ASSUME WriteNothing PROVE MovesOn
    BY <1>1, <1>7 DEF WriteNothing, MovesOn, LoopType
  <1>8. ASSUME MonitorAlive PROVE MovesOn
    BY <1>1, <1>8 DEF MonitorAlive, MovesOn, LoopType
  <1>9. ASSUME Lifecycle PROVE MovesOn
    BY <1>1, <1>9 DEF Lifecycle, MovesOn, LoopType
  <1> QED  BY <1>2, <1>3, <1>4, <1>5, <1>6, <1>7, <1>8, <1>9

(* The output is as it was.                                                *)
SilentStep ==
    /\ UNCHANGED <<script, written, stdout, session>> /\ Shown' = Shown
    /\ conn'.action = conn.action /\ conn'.cgi_out_token = conn.cgi_out_token
    /\ SameHead
    /\ \/ child' = child
       \/ Exited
       \/ script.ok => written = script.pieces + 2
    /\ pc' = "cgi_read" => conn.cgi_out_token

(* A step that neither writes output nor ends the script's session.        *)
LEMMA SameScript ==
    ASSUME UNCHANGED script
    PROVE  /\ Framed' = Framed /\ Answer(PieceCut)' = Answer(PieceCut) /\ (Clear' <=> Clear)
           /\ written' = written =>
                 Done(Piece)' = Done(Piece) /\ Done(PieceCut)' = Done(PieceCut)
  BY DEF Framed, Answer, Clear, Done, Piece, PieceCut

LEMMA SilentSteps == ASSUME OutInv, SilentStep PROVE OutInv'
  <1>1. /\ Framed' = Framed /\ Answer(PieceCut)' = Answer(PieceCut) /\ (Clear' <=> Clear)
        /\ Done(Piece)' = Done(Piece) /\ Done(PieceCut)' = Done(PieceCut)
    BY SameScript DEF SilentStep
  <1>2. (Exited /\ script.ok => written = script.pieces + 2)'
    BY DEF OutInv, SilentStep, Exited
  <1>3. (pc = "cgi_read" => conn.cgi_out_token)'
    BY DEF SilentStep
  <1>4. (InHeaders' <=> InHeaders) /\ (Flow' <=> Flow) /\ (AtEof' <=> AtEof) /\ (InPlace' <=> InPlace)
    BY <1>1 DEF SilentStep, SameHead, InHeaders, Flow, AtEof, InPlace
  <1> QED  BY <1>1, <1>2, <1>3, <1>4 DEF OutInv, SilentStep, SameHead

(* The body is as it was.                                                  *)
LEMMA SameBodySteps ==
    ASSUME BodyInv, SameBody, conn'.action = conn.action,
           UNCHANGED <<fixed, unsent, inbox, stdin, consumed, child>>
    PROVE  BodyInv'
  <1>1. Somewhere' = Somewhere
    BY DEF Somewhere, SameBody
  <1>2. StdinWhole'
    BY DEF BodyInv, StdinWhole, SameBody, fixed
  <1> QED  BY <1>1, <1>2 DEF BodyInv, SameBody, fixed

LEMMA MovesOnStep == ASSUME IInv, MovesOn PROVE IInv'
  <1>1. UNCHANGED <<fixed, process, client, conn, session>>
    BY DEF MovesOn
  <1>2. DataType'
    BY <1>1 DEF IInv, MovesOn, DataType, FixedType, ProcessType, ClientType, fixed, process, client
  <1>3. BodyInv'
    BY <1>1, SameBodySteps DEF IInv, SameBody, fixed, process, client
  <1>4. SilentStep
    <2>1. UNCHANGED <<script, written, stdout, session, child, conn, received>>
      BY <1>1 DEF fixed, process, client
    <2>2. Shown' = Shown
      BY <2>1 DEF Shown
    <2>3. pc' = "cgi_read" => conn.cgi_out_token
      BY DEF MovesOn
    <2> QED  BY <2>1, <2>2, <2>3 DEF SilentStep, SameHead
  <1> QED  BY <1>2, <1>3, <1>4, SilentSteps DEF IInv

(* The body takes its way: client, socket, buffer, stdin, script.          *)
LEMMA BodyMoves ==
    ASSUME DataType, BodyInv, Somewhere' = Somewhere, UNCHANGED <<fixed, child>>,
           conn'.action = conn.action, conn'.cgi_buffer >= 0, conn'.body_remaining \in 0 .. body,
           encoding = "length" /\ conn.action = "Cgi" => conn'.body_remaining = unsent' + inbox',
           conn'.in_stream = conn.in_stream /\ consumed' + stdin' = consumed + stdin
    PROVE  BodyInv'
  <1>1. UNCHANGED <<encoding, body>>
    BY DEF fixed
  <1>2. StdinWhole'
    BY <1>1 DEF BodyInv, StdinWhole
  <1> QED  BY <1>1, <1>2 DEF BodyInv

LEMMA ClientSendStep == ASSUME IInv, ClientSend PROVE IInv'
  <1>1. /\ UNCHANGED <<fixed, process, received, batch, conn, pc, session>>
        /\ unsent > 0 /\ unsent' = unsent - 1 /\ inbox' = inbox + 1
        /\ queued' = queued \cup {"client"}
    BY DEF ClientSend
  <1>2. DataType'
    BY <1>1 DEF IInv, DataType, FixedType, ProcessType, ClientType, LoopType, fixed, process
  <1>3. BodyInv'
    <2>1. Somewhere' = Somewhere /\ unsent' + inbox' = unsent + inbox
      BY <1>1 DEF IInv, DataType, ProcessType, ClientType, Conn, Somewhere, process
    <2> QED  BY <1>1, <2>1, BodyMoves DEF IInv, BodyInv, process
  <1>4. SilentStep
    <2>1. UNCHANGED <<script, written, stdout, session, child, conn, received, pc>>
      BY <1>1 DEF fixed, process
    <2>2. Shown' = Shown
      BY <2>1 DEF Shown
    <2> QED  BY <2>1, <2>2 DEF SilentStep, SameHead, IInv, OutInv
  <1> QED  BY <1>2, <1>3, <1>4, SilentSteps DEF IInv

LEMMA ScriptReadStep == ASSUME IInv, ScriptRead PROVE IInv'
  <1>1. /\ UNCHANGED <<fixed, written, child, stdout, client, batch, conn, pc, session>>
        /\ stdin > 0 /\ stdin' = stdin - 1 /\ consumed' = consumed + 1
        /\ queued' = queued \cup {"in"}
    BY DEF ScriptRead
  <1>2. DataType'
    BY <1>1 DEF IInv, DataType, FixedType, ProcessType, ClientType, LoopType, fixed, client
  <1>3. BodyInv'
    <2>1. Somewhere' = Somewhere
      <3>1. /\ UNCHANGED <<unsent, inbox>> /\ unsent \in Nat /\ inbox \in Nat
            /\ stdin \in Nat /\ consumed \in Nat /\ conn.cgi_buffer \in Int
        BY <1>1 DEF IInv, DataType, FixedType, ProcessType, ClientType, Conn, client
      <3> QED  BY <1>1, <3>1 DEF Somewhere
    <2>2. consumed' + stdin' = consumed + stdin
      BY <1>1 DEF IInv, DataType, FixedType, ProcessType
    <2> QED  BY <1>1, <2>1, <2>2, BodyMoves DEF IInv, BodyInv, client
  <1>4. SilentStep
    <2>1. UNCHANGED <<script, written, stdout, session, child, conn, received, pc>>
      BY <1>1 DEF fixed, client
    <2>2. Shown' = Shown
      BY <2>1 DEF Shown
    <2> QED  BY <2>1, <2>2 DEF SilentStep, SameHead, IInv, OutInv
  <1> QED  BY <1>2, <1>3, <1>4, SilentSteps DEF IInv

(* One piece more is written.                                              *)
LEMMA DoneGrows ==
    ASSUME NEW P \in Seq(Unit), Len(P) = 5, written \in 0 .. 4, written' = written + 1
    PROVE  /\ Done(P) \in Seq(Unit) /\ P[written + 1] \in Unit
           /\ SubSeq(P, 1, written') = Append(Done(P), P[written + 1])
  <1>1. written + 1 \in 0 .. 5 /\ written \in 0 .. 5 /\ P[written + 1] \in Unit
    <2>1. Len(P) = 5 /\ written + 1 \in 1 .. 5 /\ P \in Seq(Unit)
      OBVIOUS
    <2>2. P[written + 1] \in Unit
      BY <2>1, ElementOfSeq
    <2> QED  BY <2>1, <2>2
  <1>2. /\ Done(P) \in Seq(Unit) /\ Len(Done(P)) = written
        /\ \A i \in 1 .. written : Done(P)[i] = P[i]
    BY <1>1, Beginning DEF Done
  <1>3. /\ SubSeq(P, 1, written + 1) \in Seq(Unit) /\ Len(SubSeq(P, 1, written + 1)) = written + 1
        /\ \A i \in 1 .. written + 1 : SubSeq(P, 1, written + 1)[i] = P[i]
    BY <1>1, Beginning
  <1> DEFINE a == Append(Done(P), P[written + 1])
  <1>4. /\ a \in Seq(Unit) /\ Len(a) = written + 1 /\ a[written + 1] = P[written + 1]
        /\ \A i \in 1 .. written : a[i] = P[i]
    BY <1>1, <1>2, AppendProperties
  <1> HIDE DEF a
  <1>5. \A i \in 1 .. written + 1 : a[i] = P[i]
    BY <1>1, <1>4
  <1>6. a = SubSeq(P, 1, written + 1)
    BY <1>3, <1>4, <1>5, SeqEqual
  <1> QED  BY <1>1, <1>2, <1>6 DEF a

LEMMA ScriptWriteStep == ASSUME IInv, ScriptWrite PROVE IInv'
  <1>1. /\ UNCHANGED <<fixed, consumed, child, stdin, client, batch, conn, pc, session>>
        /\ child = "running" /\ written <= script.pieces + 1 /\ written' = written + 1
        /\ stdout' = Append(stdout, Piece[written + 1])
        /\ queued' = queued \cup {"out"}
    BY DEF ScriptWrite
  <1>2. /\ UNCHANGED <<script, encoding, body, unsent, inbox, received>>
        /\ stdout \in Seq(Pieces) /\ written \in 0 .. 4 /\ script.pieces \in 0 .. 3
        /\ Shown \in Seq(Unit)
    BY <1>1, ShownType DEF IInv, DataType, FixedType, ProcessType, fixed, client
  <1> DEFINE e == Piece[written + 1]
  <1>3. e \in Pieces
    <2>1. written + 1 \in 1 .. 5
      BY <1>2
    <2> QED  BY <2>1, PieceType, ElementOfSeq
  <1>4. DataType'
    <2>1. stdout' \in Seq(Pieces)
      BY <1>1, <1>2, <1>3, AppendProperties
    <2> QED  BY <1>1, <1>2, <2>1 DEF IInv, DataType, FixedType, ProcessType, ClientType, LoopType
  <1>5. BodyInv'
    BY <1>1, <1>2, SameBodySteps DEF IInv, SameBody
  <1>6. /\ Done(Piece)' = Append(Done(Piece), e)
        /\ written > 2 => Done(PieceCut)' = Append(Done(PieceCut), e)
    <2>1. Done(Piece)' = SubSeq(Piece, 1, written') /\ Done(PieceCut)' = SubSeq(PieceCut, 1, written')
      BY DEF Done, Piece, PieceCut
    <2>2. written > 2 => PieceCut[written + 1] = e
      BY <1>2, OutputType
    <2> QED  BY <1>1, <1>2, <2>1, <2>2, DoneGrows, OutputType
  <1>7. /\ Framed' = Framed /\ Answer(PieceCut)' = Answer(PieceCut) /\ (Clear' <=> Clear)
        /\ Shown' = Shown /\ (InHeaders' <=> InHeaders)
    BY <1>1, <1>2, SameScript DEF Shown, InHeaders
  <1>8. Flow => Flow'
    <2>1. stdout \in Seq(Unit) /\ e \in Unit /\ conn.header_buf \in Seq(Unit)
      BY <1>2, <1>3, PiecesAreUnits DEF Unit, IInv, DataType, Conn
    <2>2. /\ Shown \o stdout' = Append(Shown \o stdout, e)
          /\ conn'.header_buf \o stdout' = Append(conn.header_buf \o stdout, e)
      <3>1. \A s \in Seq(Unit) : s \o Append(stdout, e) = Append(s \o stdout, e)
        BY <2>1, UnitsAppend
      <3> QED  BY <1>1, <1>2, <2>1, <3>1
    <2>3. CASE InHeaders /\ conn.header_buf \o stdout = Done(Piece)
      BY <1>6, <1>7, <2>2, <2>3 DEF Flow
    <2>4. CASE ~InHeaders /\ Shown \o stdout = Done(Piece)
      BY <1>6, <1>7, <2>2, <2>4 DEF Flow
    <2>5. CASE ~InHeaders /\ ~Clear /\ written > 2 /\ Shown \o stdout = Done(PieceCut)
      <3>1. written' > 2 /\ ~InHeaders' /\ ~Clear'
        BY <1>1, <1>2, <1>7, <2>5
      <3>2. Shown' \o stdout' = Done(PieceCut)'
        BY <1>6, <1>7, <2>2, <2>5
      <3> QED  BY <3>1, <3>2 DEF Flow
    <2> QED  BY <2>3, <2>4, <2>5 DEF Flow
  <1>9. conn.action = "Cgi"
    BY <1>1 DEF IInv, BodyInv
  <1>10. ~Exited' /\ (AtEof' <=> AtEof)
    BY <1>1, <1>7 DEF Exited, AtEof
  <1> QED  BY <1>1, <1>2, <1>4, <1>5, <1>7, <1>8, <1>9, <1>10 DEF IInv, OutInv

LEMMA ScriptExitStep == ASSUME IInv, ScriptExit \/ ScriptEnds PROVE IInv'
  <1>1. /\ UNCHANGED <<fixed, written, consumed, stdin, stdout, client, batch, conn, pc, session>>
        /\ child \in {"running", "closed"} /\ child' \in {"closed", "zombie"}
        /\ queued' \subseteq queued \cup {"out", "in"}
        /\ \/ Exited
           \/ script.ok => written = script.pieces + 2
    BY DEF ScriptExit, ScriptEnds, Exited
  <1>2. UNCHANGED <<script, encoding, body, unsent, inbox, received>>
    BY <1>1 DEF fixed, client
  <1>3. DataType'
    BY <1>1, <1>2 DEF IInv, DataType, FixedType, ProcessType, ClientType, LoopType
  <1>4. BodyInv'
    <2>1. Somewhere' = Somewhere
      BY <1>1, <1>2 DEF Somewhere
    <2>2. StdinWhole'
      BY <1>1, <1>2 DEF IInv, BodyInv, StdinWhole
    <2> QED  BY <1>1, <1>2, <2>1, <2>2 DEF IInv, BodyInv
  <1>5. SilentStep
    <2>1. Shown' = Shown
      BY <1>1, <1>2 DEF Shown
    <2> QED  BY <1>1, <1>2, <2>1 DEF SilentStep, SameHead, IInv, OutInv
  <1> QED  BY <1>3, <1>4, <1>5, SilentSteps DEF IInv

LEMMA SessionEndStep == ASSUME IInv, SessionEnd PROVE IInv'
  <1>1. UNCHANGED <<fixed, process, client, queued, batch, conn, pc>> /\ session' = FALSE
    BY DEF SessionEnd
  <1>2. UNCHANGED <<script, encoding, body, written, consumed, child, stdin, stdout,
                    unsent, inbox, received>>
    BY <1>1 DEF fixed, process, client
  <1>3. DataType'
    BY <1>1, <1>2 DEF IInv, DataType, FixedType, ProcessType, ClientType, LoopType
  <1>4. BodyInv'
    BY <1>1, <1>2, SameBodySteps DEF IInv, SameBody
  <1>5. Shown' = Shown /\ (Exited' <=> Exited) /\ (InHeaders' <=> InHeaders) /\ (Clear' <=> Clear)
    BY <1>1, <1>2 DEF Shown, Exited, InHeaders, Clear
  <1> QED  BY <1>1, <1>2, <1>3, <1>4, <1>5 DEF IInv, OutInv

LEMMA WriteFailsStep == ASSUME IInv, WriteFails PROVE IInv'
  <1>1. /\ UNCHANGED <<fixed, process, client, queued, batch, session>>
        /\ conn' = [conn EXCEPT !.closed = TRUE] /\ pc' = "monitor"
    BY DEF WriteFails
  <1>2. UNCHANGED <<script, encoding, body, written, consumed, child, stdin, stdout,
                    unsent, inbox, received>>
    BY <1>1 DEF fixed, process, client
  <1>3. /\ conn' \in Conn /\ SameBody /\ SameTokens /\ SameOutput /\ conn'.action = conn.action
    BY <1>1 DEF IInv, DataType, Conn, SameBody, SameTokens, SameOutput, SameHead
  <1>4. DataType'
    BY <1>1, <1>2, <1>3 DEF IInv, DataType, FixedType, ProcessType, ClientType, LoopType
  <1>5. BodyInv'
    BY <1>1, <1>2, <1>3, SameBodySteps DEF IInv
  <1>6. SilentStep
    <2>1. Shown' = Shown
      BY <1>2, <1>3 DEF Shown, SameOutput
    <2> QED  BY <1>1, <1>2, <1>3, <2>1 DEF SilentStep, SameTokens, SameOutput, SameHead
  <1> QED  BY <1>4, <1>5, <1>6, SilentSteps DEF IInv

LEMMA WritePhaseStep == ASSUME IInv, WritePhase PROVE IInv'
  <1>1. UNCHANGED <<fixed, process, unsent, inbox, queued, batch, session>> /\ pc' = "lifecycle"
    BY DEF WritePhase
  <1>2. UNCHANGED <<script, encoding, body, written, consumed, child, stdin, stdout>>
    BY <1>1 DEF fixed, process
  <1>3. /\ conn' \in Conn /\ SameBody /\ SameTokens /\ conn'.action = conn.action
        /\ SameHead
        /\ received' \in Seq(Unit) /\ Shown' = Shown
    BY WritePhaseConn DEF IInv
  <1>4. DataType'
    BY <1>1, <1>2, <1>3 DEF IInv, DataType, FixedType, ProcessType, ClientType, LoopType
  <1>5. BodyInv'
    BY <1>1, <1>2, <1>3, SameBodySteps DEF IInv
  <1>6. SilentStep
    BY <1>1, <1>2, <1>3 DEF SilentStep, SameTokens
  <1> QED  BY <1>4, <1>5, <1>6, SilentSteps DEF IInv

LEMMA ReadPhaseStep == ASSUME IInv, ReadPhase PROVE IInv'
  <1>1. /\ UNCHANGED <<fixed, process, unsent, received, batch, session>> /\ pc' = "write"
        /\ queued' \subseteq queued \cup {"client", "in"}
    BY DEF ReadPhase
  <1>2. UNCHANGED <<script, encoding, body, written, consumed, child, stdin, stdout>>
    BY <1>1 DEF fixed, process
  <1>3. /\ conn' \in Conn /\ SameOutput /\ SameTokens
        /\ conn'.action = conn.action /\ conn'.in_stream = conn.in_stream
        /\ \/ inbox' = inbox /\ SameBody
           \/ inbox' = 0 /\ conn.action # "Cgi" /\ SameBody
           \/ /\ inbox' = 0 /\ conn.action = "Cgi"
              /\ conn'.cgi_buffer = conn.cgi_buffer + inbox
              /\ conn'.body_remaining = IF encoding = "length" THEN conn.body_remaining - inbox
                                        ELSE conn.body_remaining
    BY ReadPhaseConn DEF IInv
  <1>4. /\ unsent \in Nat /\ inbox \in Nat /\ stdin \in Nat /\ consumed \in Nat
        /\ conn.cgi_buffer \in Nat /\ conn.body_remaining \in Nat /\ body \in Nat
    BY DEF IInv, DataType, FixedType, ProcessType, ClientType, Conn, BodyInv
  <1>5. DataType'
    BY <1>1, <1>2, <1>3, <1>4 DEF IInv, DataType, FixedType, ProcessType, ClientType, LoopType
  <1>6. BodyInv'
    <2>1. CASE inbox' = inbox /\ SameBody
      BY <1>1, <1>2, <1>3, <2>1, SameBodySteps DEF IInv
    <2>2. CASE inbox' = 0 /\ conn.action # "Cgi" /\ SameBody
      <3>1. Somewhere' <= Somewhere
        BY <1>1, <1>2, <1>4, <2>2 DEF Somewhere, SameBody
      <3>2. StdinWhole'
        BY <1>2, <2>2 DEF IInv, BodyInv, StdinWhole, SameBody
      <3>3. Somewhere' \in Nat /\ Somewhere \in Nat
        BY <1>1, <1>2, <1>4, <2>2 DEF Somewhere, SameBody
      <3> QED  BY <1>2, <1>3, <1>4, <2>2, <3>1, <3>2, <3>3 DEF IInv, BodyInv, SameBody
    <2>3. CASE /\ inbox' = 0 /\ conn.action = "Cgi"
               /\ conn'.cgi_buffer = conn.cgi_buffer + inbox
               /\ conn'.body_remaining = IF encoding = "length" THEN conn.body_remaining - inbox
                                         ELSE conn.body_remaining
      <3>1. Somewhere' = Somewhere
        BY <1>1, <1>2, <1>4, <2>3 DEF Somewhere
      <3>2. /\ encoding = "length" => conn.body_remaining = unsent + inbox
            /\ conn.body_remaining \in 0 .. body
        BY <2>3 DEF IInv, BodyInv
      <3>3. conn'.body_remaining \in 0 .. body /\ conn'.cgi_buffer >= 0
        BY <1>4, <2>3, <3>2
      <3>4. encoding = "length" => conn'.body_remaining = unsent' + inbox'
        BY <1>1, <1>4, <2>3, <3>2
      <3> QED  BY <1>1, <1>2, <1>3, <3>1, <3>3, <3>4, BodyMoves DEF IInv
    <2> QED  BY <1>3, <2>1, <2>2, <2>3
  <1>7. SilentStep
    <2>1. Shown' = Shown
      BY <1>1, <1>3 DEF Shown, SameOutput
    <2> QED  BY <1>1, <1>2, <1>3, <2>1 DEF SilentStep, SameTokens, SameOutput, SameHead
  <1> QED  BY <1>5, <1>6, <1>7, SilentSteps DEF IInv

LEMMA WriteStdinStep == ASSUME IInv, WriteStdin PROVE IInv'
  <1>1. /\ UNCHANGED <<fixed, written, consumed, child, stdout, client, batch, session>>
        /\ pc' = "monitor" /\ queued' = queued \cup {"client"}
    BY DEF WriteStdin
  <1>2. UNCHANGED <<script, encoding, body, unsent, inbox, received>>
    BY <1>1 DEF fixed, client
  <1>3. PICK n \in Nat :
             /\ stdin' = stdin + n /\ stdin + n <= StdinRoom /\ n <= conn.cgi_buffer
             /\ conn' \in Conn /\ SameOutput /\ conn'.cgi_out_token = conn.cgi_out_token
             /\ conn.action = "Cgi" /\ conn'.action = "Cgi" /\ conn.in_stream
             /\ conn'.cgi_buffer = conn.cgi_buffer - n
             /\ conn'.body_remaining = conn.body_remaining
             /\ ~conn'.in_stream => conn.body_remaining = 0 /\ conn'.cgi_buffer = 0
    BY WriteStdinConn DEF IInv
  <1>4. /\ unsent \in Nat /\ inbox \in Nat /\ stdin \in Nat /\ consumed \in Nat
        /\ conn.cgi_buffer \in Nat /\ body \in Nat /\ StdinRoom \in Nat
    BY DEF IInv, DataType, FixedType, ProcessType, ClientType, Conn, BodyInv
  <1>5. DataType'
    <2>1. stdin' \in 0 .. StdinRoom
      BY <1>3, <1>4
    <2> QED  BY <1>1, <1>2, <1>3, <2>1 DEF IInv, DataType, FixedType, ProcessType, ClientType, LoopType
  <1>6. BodyInv'
    <2>1. Somewhere' = Somewhere /\ Somewhere = body
      <3>1. Somewhere' = Somewhere
        BY <1>1, <1>2, <1>3, <1>4 DEF Somewhere
      <3> QED  BY <1>3, <3>1 DEF IInv, BodyInv
    <2>2. StdinWhole'
      <3> SUFFICES ASSUME encoding = "length", ~conn'.in_stream
                   PROVE  consumed' + stdin' = body
        BY <1>2 DEF StdinWhole
      <3>1. unsent + inbox = 0 /\ conn.cgi_buffer - n = 0
        BY <1>3, <1>4 DEF IInv, BodyInv
      <3>2. unsent + inbox + conn.cgi_buffer + stdin + consumed = body
        BY <2>1 DEF Somewhere
      <3> QED  BY <1>1, <1>3, <1>4, <3>1, <3>2
    <2>3. conn'.cgi_buffer >= 0
      BY <1>3, <1>4
    <2> QED  BY <1>1, <1>2, <1>3, <2>1, <2>2, <2>3 DEF IInv, BodyInv
  <1>7. SilentStep
    <2>1. Shown' = Shown
      BY <1>2, <1>3 DEF Shown, SameOutput
    <2> QED  BY <1>1, <1>2, <1>3, <2>1 DEF SilentStep, SameOutput, SameHead
  <1> QED  BY <1>5, <1>6, <1>7, SilentSteps DEF IInv

LEMMA No505 ==
    ASSUME NEW s \in Seq(Unit), NEW t \in Seq(Unit),
           \A k \in DOMAIN s : s[k] # "505", \A k \in DOMAIN t : t[k] # "505"
    PROVE  \A k \in DOMAIN (s \o t) : (s \o t)[k] # "505"
  <1>1. /\ Len(s) \in Nat /\ Len(t) \in Nat /\ DOMAIN s = 1 .. Len(s) /\ DOMAIN t = 1 .. Len(t)
        /\ DOMAIN (s \o t) = 1 .. Len(s) + Len(t)
        /\ \A k \in 1 .. Len(s) + Len(t) :
              (s \o t)[k] = IF k <= Len(s) THEN s[k] ELSE t[k - Len(s)]
    BY ConcatProperties, LenProperties
  <1> SUFFICES ASSUME NEW k \in 1 .. Len(s) + Len(t) PROVE (s \o t)[k] # "505"
    BY <1>1
  <1>2. CASE k <= Len(s)
    BY <1>1, <1>2
  <1>3. CASE k > Len(s)
    <2>1. k - Len(s) \in 1 .. Len(t)
      BY <1>1, <1>3
    <2> QED  BY <1>1, <1>3, <2>1
  <1> QED  BY <1>1, <1>2, <1>3

(* What a read took leaves the output in its place.                        *)
LEMMA TakenInPlace ==
    ASSUME IInv, NEW n \in 1 .. Len(stdout), Taken(n), conn' \in Conn,
           conn.action = "Cgi", session, UNCHANGED <<script, written, received>>,
           stdout' = SubSeq(stdout, n + 1, Len(stdout))
    PROVE  /\ InHeaders' => Shown' = <<>> /\ (Clear => Len(conn'.header_buf) < 2)
           /\ ~InHeaders' =>
                 conn'.parse_state = IF script.sized THEN "StreamBody" ELSE "StreamBodyChuncked"
           /\ \A k \in DOMAIN Shown' : Shown'[k] # "505"
           /\ Flow => Flow'
  <1> DEFINE t == SubSeq(stdout, 1, n)
             u == SubSeq(stdout, n + 1, Len(stdout))
             buf == conn.header_buf \o t
  <1>1. t \in Seq(Pieces) /\ u \in Seq(Pieces) /\ t \o u = stdout /\ stdout \in Seq(Pieces)
    <2>1. stdout \in Seq(Pieces) /\ Len(stdout) \in Nat
      BY LenProperties DEF IInv, DataType, ProcessType
    <2>2. \A i \in 1 .. Len(stdout) : stdout[i] \in Pieces
      BY <2>1, ElementOfSeq
    <2>3. t \in Seq(Pieces) /\ u \in Seq(Pieces)
      BY <2>1, <2>2, SubSeqProperties
    <2>4. t \o u = SubSeq(stdout, 1, Len(stdout))
      BY <2>1, ConcatAdjacentSubSeq
    <2> QED  BY <2>1, <2>3, <2>4, SubSeqFull
  <1>2. stdout' = u /\ Collected(n) = buf
    BY DEF Collected
  <1>3. Taken(n)
    OBVIOUS
  <1>a. ~InHeaders => /\ conn'.write_buffer = conn.write_buffer \o t
                      /\ conn'.parse_state = conn.parse_state
    BY DEF Taken, SameHead
  <1> HIDE DEF t, u
  <1>4. buf \in Seq(Pieces) /\ conn.header_buf \in Seq(Pieces)
    BY <1>1, ConcatProperties DEF IInv, DataType, Conn
  <1>5. (conn.header_buf \o t) \o u = conn.header_buf \o stdout
    <2>1. (conn.header_buf \o t) \o u = conn.header_buf \o (t \o u)
      <3>1. conn.header_buf \in Seq(Unit) /\ t \in Seq(Unit) /\ u \in Seq(Unit)
        BY <1>1, <1>4, PiecesAreUnits
      <3> QED  BY <3>1, UnitsAssociate, ZenonT(60)
    <2> QED  BY <1>1, <2>1
  <1> HIDE DEF buf
  <1>6. /\ Shown \in Seq(Unit) /\ conn.write_buffer \in Seq(Unit) /\ received \in Seq(Unit)
        /\ t \in Seq(Unit) /\ u \in Seq(Unit)
    BY <1>1, ShownType, PiecesAreUnits DEF IInv, DataType, ClientType
  <1>7. /\ (Clear' <=> Clear) /\ Done(Piece)' = Done(Piece) /\ Done(PieceCut)' = Done(PieceCut)
    BY SameScript
  <1>8. \A k \in DOMAIN Shown : Shown[k] # "505"
    BY DEF IInv, OutInv
  <1>9. CASE ~InHeaders
    <2>1. Shown' = received \o (conn.write_buffer \o t) /\ ~InHeaders'
      BY <1>9, <1>a DEF Shown, InHeaders
    <2>2. (received \o conn.write_buffer) \o t = received \o (conn.write_buffer \o t)
      BY <1>6, UnitsAssociate, ZenonT(60)
    <2>3. Shown' = Shown \o t
      BY <2>1, <2>2 DEF Shown
    <2>4. \A k \in DOMAIN t : t[k] # "505"
      <3>1. \A k \in 1 .. Len(t) : t[k] \in Pieces
        BY <1>1, ElementOfSeq
      <3>2. DOMAIN t = 1 .. Len(t) /\ "505" \notin Pieces
        BY <1>1, LenProperties DEF Pieces
      <3> QED  BY <3>1, <3>2
    <2>5. \A k \in DOMAIN Shown' : Shown'[k] # "505"
      BY <1>6, <1>8, <2>3, <2>4, No505
    <2>6. (Shown \o t) \o u = Shown \o stdout
      <3>1. (Shown \o t) \o u = Shown \o (t \o u)
        BY <1>6, UnitsAssociate, SMTT(40)
      <3> QED  BY <1>1, <3>1
    <2>7. Shown' \o stdout' = Shown \o stdout
      BY <1>2, <2>3, <2>6
    <2>8. Flow => Flow'
      BY <1>7, <1>9, <2>1, <2>7 DEF Flow
    <2> QED  BY <1>9, <1>a, <2>1, <2>5, <2>8 DEF IInv, OutInv
  <1>10. ASSUME InHeaders
         PROVE  Shown = <<>> /\ received = <<>> /\ conn.write_buffer = <<>>
    <2>1. Shown = <<>>
      BY <1>10 DEF IInv, OutInv
    <2> QED  BY <1>6, <2>1, ConcatProperties, EmptySeq DEF Shown
  <1>11. CASE InHeaders /\ Ends(n)
    <2>1. /\ conn'.write_buffer = conn.write_buffer \o Split(buf)
          /\ conn'.parse_state = IF script.sized THEN "StreamBody" ELSE "StreamBodyChuncked"
      BY <1>2, <1>3, <1>11 DEF Taken
    <2>2. Found(buf) /\ ~Overruns(buf)
      BY <1>2, <1>11 DEF Ends
    <2>3. /\ Split(buf) \in Seq(Unit) /\ \A k \in DOMAIN Split(buf) : Split(buf)[k] # "505"
          /\ buf \o u = Done(Piece) =>
                 \/ Split(buf) \o u = Done(Piece)
                 \/ ~Clear /\ written > 2 /\ Split(buf) \o u = Done(PieceCut)
      BY <1>1, <1>4, <2>2, SplitCuts DEF IInv
    <2>4. Shown' = Split(buf) /\ ~InHeaders'
      BY <1>10, <1>11, <2>1, <2>3, ConcatEmptySeq DEF Shown, InHeaders
    <2>5. Flow => Flow'
      <3> SUFFICES ASSUME Flow PROVE Flow'
        OBVIOUS
      <3>1. conn.header_buf \o stdout = Done(Piece)
        BY <1>11 DEF Flow
      <3>2. buf \o u = Done(Piece)
        BY <1>5, <3>1 DEF buf
      <3>3. \/ Shown' \o stdout' = Done(Piece)
            \/ ~Clear /\ written > 2 /\ Shown' \o stdout' = Done(PieceCut)
        BY <1>2, <2>3, <2>4, <3>2
      <3> QED  BY <1>7, <2>4, <3>3 DEF Flow
    <2> QED  BY <2>1, <2>3, <2>4, <2>5
  <1>12. CASE InHeaders /\ ~Ends(n)
    <2>1. /\ conn'.write_buffer = conn.write_buffer /\ conn'.parse_state = conn.parse_state
          /\ conn'.header_buf = buf
      BY <1>2, <1>3, <1>12 DEF Taken
    <2>2. Shown' = <<>> /\ InHeaders'
      BY <1>10, <1>12, <2>1 DEF Shown, InHeaders
    <2>3. Clear => Len(buf) < 2
      <3>1. Len(buf) \in Nat
        BY <1>4, LenProperties
      <3>2. ~(Found(buf) /\ ~Overruns(buf))
        BY <1>2, <1>12 DEF Ends
      <3> QED  BY <3>1, <3>2, ClearSplit DEF Overruns
    <2>4. conn'.header_buf \o stdout' = conn.header_buf \o stdout
      BY <1>2, <1>5, <2>1 DEF buf
    <2>5. Flow => Flow'
      BY <1>7, <1>12, <2>2, <2>4 DEF Flow
    <2>6. \A k \in DOMAIN Shown' : Shown'[k] # "505"
      BY <1>8, <1>10, <1>12, <2>2
    <2> QED  BY <2>1, <2>2, <2>3, <2>5, <2>6
  <1> QED  BY <1>9, <1>11, <1>12

LEMMA ReadDataStep == ASSUME IInv, ReadData PROVE IInv'
  <1>1. /\ UNCHANGED <<fixed, written, consumed, child, stdin, client, batch, session>>
        /\ pc = "cgi_read" /\ pc' \in {"monitor", "crashed"} /\ queued' = queued \cup {"client"}
    BY DEF ReadData
  <1>2. UNCHANGED <<script, encoding, body, unsent, inbox, received>>
    BY <1>1 DEF fixed, client
  <1>3. PICK n \in 1 .. Len(stdout) :
             /\ stdout' = SubSeq(stdout, n + 1, Len(stdout))
             /\ conn' \in Conn /\ SameBody /\ SameTokens
             /\ conn.action = "Cgi" /\ conn'.action = "Cgi"
             /\ session => Taken(n)
             /\ ~session => SameOutput
    BY ReadDataConn DEF IInv
  <1>4. DataType'
    <2>1. stdout' \in Seq(Pieces)
      <3>1. stdout \in Seq(Pieces) /\ Len(stdout) \in Nat
        BY LenProperties DEF IInv, DataType, ProcessType
      <3>2. \A i \in n + 1 .. Len(stdout) : stdout[i] \in Pieces
        BY <3>1, ElementOfSeq
      <3> QED  BY <1>3, <3>1, <3>2, SubSeqProperties
    <2> QED  BY <1>1, <1>2, <1>3, <2>1 DEF IInv, DataType, FixedType, ProcessType, ClientType, LoopType
  <1>5. BodyInv'
    BY <1>1, <1>2, <1>3, SameBodySteps DEF IInv
  <1>6. /\ conn.cgi_out_token /\ conn'.cgi_out_token
        /\ (Exited' <=> Exited) /\ (Clear' <=> Clear)
    BY <1>1, <1>2, <1>3 DEF IInv, OutInv, SameTokens, Exited, Clear
  <1>7. CASE session
    <2>1. /\ InHeaders' => Shown' = <<>> /\ (Clear => Len(conn'.header_buf) < 2)
          /\ ~InHeaders' =>
                conn'.parse_state = IF script.sized THEN "StreamBody" ELSE "StreamBodyChuncked"
          /\ \A k \in DOMAIN Shown' : Shown'[k] # "505"
          /\ Flow => Flow'
      BY <1>1, <1>2, <1>3, <1>7, TakenInPlace
    <2>2. OutInv'
      BY <1>1, <1>2, <1>3, <1>6, <1>7, <2>1 DEF IInv, OutInv
    <2> QED  BY <1>4, <1>5, <2>2 DEF IInv
  <1>8. CASE ~session
    <2>1. Shown' = Shown /\ (InHeaders' <=> InHeaders)
      BY <1>2, <1>3, <1>8 DEF Shown, SameOutput, SameHead, InHeaders
    <2>2. OutInv'
      BY <1>1, <1>2, <1>3, <1>6, <1>8, <2>1 DEF IInv, OutInv, SameOutput, SameHead
    <2> QED  BY <1>4, <1>5, <2>2 DEF IInv
  <1> QED  BY <1>7, <1>8

LEMMA ReadEofStep == ASSUME IInv, ReadEof PROVE IInv'
  <1>1. /\ UNCHANGED <<fixed, process, client, batch, session>>
        /\ pc = "cgi_read" /\ pc' = "monitor" /\ queued' \subseteq queued \cup {"client"}
        /\ stdout = <<>> /\ Exited
    BY DEF ReadEof
  <1>2. UNCHANGED <<script, encoding, body, written, consumed, child, stdin, stdout,
                    unsent, inbox, received>>
    BY <1>1 DEF fixed, process, client
  <1>3. /\ conn' \in Conn /\ SameBody /\ SameHead
        /\ conn.action = "Cgi" /\ conn'.action = "Cgi" /\ ~conn'.cgi_out_token
        /\ conn'.write_buffer = IF conn.parse_state = "StreamBodyChuncked"
                                THEN Append(conn.write_buffer, "end") ELSE conn.write_buffer
    BY ReadEofConn DEF IInv
  <1>4. DataType'
    BY <1>1, <1>2, <1>3 DEF IInv, DataType, FixedType, ProcessType, ClientType, LoopType
  <1>5. BodyInv'
    BY <1>1, <1>2, <1>3, SameBodySteps DEF IInv
  <1>6. /\ Shown \in Seq(Unit) /\ conn.write_buffer \in Seq(Unit) /\ received \in Seq(Unit)
        /\ "end" \in Unit
    BY ShownType DEF IInv, DataType, ClientType, Unit
  <1>7. Shown' = IF conn.parse_state = "StreamBodyChuncked" THEN Append(Shown, "end") ELSE Shown
    <2>1. received \o Append(conn.write_buffer, "end") = Append(received \o conn.write_buffer, "end")
      BY <1>6, AppendOfConcat
    <2> QED  BY <1>2, <1>3, <2>1 DEF Shown
  <1>8. \A k \in DOMAIN Shown' : Shown'[k] # "505"
    <2>1. \A k \in DOMAIN Shown : Shown[k] # "505"
      BY <1>3 DEF IInv, OutInv
    <2>2. /\ Len(Shown) \in Nat /\ DOMAIN Shown = 1 .. Len(Shown)
          /\ DOMAIN Append(Shown, "end") = 1 .. Len(Shown) + 1
          /\ \A k \in 1 .. Len(Shown) : Append(Shown, "end")[k] = Shown[k]
          /\ Append(Shown, "end")[Len(Shown) + 1] = "end"
      BY <1>6, AppendProperties, LenProperties
    <2>3. \A k \in DOMAIN Append(Shown, "end") : Append(Shown, "end")[k] # "505"
      BY <2>1, <2>2
    <2> QED  BY <1>7, <2>1, <2>3
  <1>9. session /\ script.ok => AtEof'
    <2> SUFFICES ASSUME session, script.ok PROVE AtEof'
      OBVIOUS
    <2>1. written = script.pieces + 2 /\ written \in Nat /\ written >= 2
      BY <1>1 DEF IInv, OutInv, DataType, FixedType, ProcessType
    <2>2. Flow
      BY <1>1, <1>3 DEF IInv, OutInv
    <2>3. /\ Framed' = Framed /\ Answer(PieceCut)' = Answer(PieceCut) /\ (Clear' <=> Clear)
          /\ (InHeaders' <=> InHeaders)
      BY <1>2, <1>3, SameScript DEF SameHead, InHeaders
    <2>4. CASE InHeaders /\ conn.header_buf \o stdout = Done(Piece)
      <3>1. conn.header_buf \in Seq(Unit)
        BY PiecesAreUnits DEF IInv, DataType, Conn
      <3>2. Len(conn.header_buf) = written
        BY <1>1, <2>4, <3>1, ConcatEmptySeq, DoneType, OutputType DEF IInv
      <3>3. ~Clear
        BY <2>1, <2>4, <3>2 DEF IInv, OutInv
      <3>4. Shown' = <<>>
        BY <1>3, <1>7, <2>4 DEF InHeaders, IInv, OutInv
      <3> QED  BY <2>3, <2>4, <3>3, <3>4 DEF AtEof
    <2>5. ASSUME NEW P \in Seq(Unit), Len(P) = 5, ~InHeaders, Shown \o stdout = Done(P)
          PROVE  Shown' = Answer(P)
      <3>1. Shown = SubSeq(P, 1, script.pieces + 2)
        BY <1>1, <1>6, <2>1, <2>5, ConcatEmptySeq DEF Done
      <3>2. conn.parse_state = IF script.sized THEN "StreamBody" ELSE "StreamBodyChuncked"
        BY <2>5 DEF IInv, OutInv
      <3>3. CASE script.sized
        BY <1>7, <2>5, <3>1, <3>2, <3>3, AnswerType DEF IInv
      <3>4. CASE ~script.sized
        <4>1. Shown' = Shown \o <<"end">>
          BY <1>6, <1>7, <3>2, <3>4, AppendIsConcat
        <4> QED  BY <2>5, <3>1, <3>4, <4>1, AnswerType DEF IInv
      <3> QED  BY <3>3, <3>4
    <2>6. CASE ~InHeaders /\ Shown \o stdout = Done(Piece)
      BY <2>3, <2>5, <2>6, OutputType DEF AtEof, Framed
    <2>7. CASE ~InHeaders /\ ~Clear /\ written > 2 /\ Shown \o stdout = Done(PieceCut)
      BY <2>3, <2>5, <2>7, OutputType DEF AtEof
    <2> QED  BY <2>2, <2>4, <2>6, <2>7 DEF Flow
  <1>10. (Clear' <=> Clear) /\ (InHeaders' <=> InHeaders)
    BY <1>2, <1>3 DEF Clear, SameHead, InHeaders
  <1>11. (Exited /\ script.ok => written = script.pieces + 2)'
    BY <1>2 DEF IInv, OutInv, Exited
  <1>12. InHeaders => Shown' = <<>>
    BY <1>3, <1>7 DEF InHeaders, IInv, OutInv
  <1>13. OutInv'
    BY <1>1, <1>2, <1>3, <1>8, <1>9, <1>10, <1>11, <1>12 DEF IInv, OutInv, SameHead
  <1> QED  BY <1>4, <1>5, <1>13 DEF IInv

LEMMA MonitorExitStep == ASSUME IInv, MonitorExit PROVE IInv'
  <1>1. /\ UNCHANGED <<fixed, written, consumed, stdin, stdout, client, batch, session>>
        /\ pc' = "events" /\ queued' = queued \cup {"client"}
        /\ child = "zombie" /\ child' = "reaped"
    BY DEF MonitorExit
  <1>2. UNCHANGED <<script, encoding, body, unsent, inbox, received>>
    BY <1>1 DEF fixed, client
  <1>3. /\ conn' \in Conn /\ conn.action = "Cgi" /\ conn'.action = "None"
        /\ conn'.body_remaining = conn.body_remaining /\ conn'.cgi_buffer = conn.cgi_buffer
        /\ SameHead /\ ~conn'.in_stream
        /\ conn'.write_buffer = IF Premature THEN <<"505">> ELSE conn.write_buffer
    BY MonitorExitConn DEF IInv
  <1>4. DataType'
    BY <1>1, <1>2, <1>3 DEF IInv, DataType, FixedType, ProcessType, ClientType, LoopType
  <1>5. BodyInv'
    <2>1. Somewhere' = Somewhere
      BY <1>1, <1>2, <1>3 DEF Somewhere
    <2>2. StdinWhole'
      BY <1>1 DEF StdinWhole
    <2> QED  BY <1>1, <1>2, <1>3, <2>1, <2>2 DEF IInv, BodyInv
  <1>6. CASE Premature
    <2>1. ~script.ok /\ Shown = <<>>
      BY <1>3, <1>6 DEF InHeaders, IInv, OutInv, Premature
    <2>2. received = <<>>
      BY <2>1, ShownType, ConcatProperties, EmptySeq DEF IInv, DataType, ClientType, Shown
    <2>3. Shown' = <<"505">>
      <3>1. <<"505">> \in Seq(Unit)
        BY DEF Unit
      <3> QED  BY <1>2, <1>3, <1>6, <2>2, <3>1, ConcatEmptySeq DEF Shown
    <2>4. Len(Shown') = 1
      BY <2>3
    <2>5. (Clear' <=> Clear) /\ (InHeaders' <=> InHeaders)
      BY <1>2, <1>3 DEF Clear, SameHead, InHeaders
    <2>6. OutInv'
      BY <1>1, <1>2, <1>3, <2>1, <2>4, <2>5 DEF IInv, OutInv, SameHead
    <2> QED  BY <1>4, <1>5, <2>6 DEF IInv
  <1>7. CASE ~Premature
    <2>1. /\ Shown' = Shown /\ Framed' = Framed /\ Answer(PieceCut)' = Answer(PieceCut)
          /\ (Clear' <=> Clear) /\ (InHeaders' <=> InHeaders)
      BY <1>2, <1>3, <1>7, SameScript DEF Shown, SameHead, InHeaders
    <2>2. \A k \in DOMAIN Shown : Shown[k] # "505"
      BY <1>3 DEF IInv, OutInv
    <2>3. session /\ script.ok => InPlace'
      BY <1>3, <2>1, ShownInPlace DEF InPlace
    <2>4. (Exited /\ script.ok => written = script.pieces + 2)'
      BY <1>1, <1>2 DEF IInv, OutInv, Exited
    <2>5. OutInv'
      BY <1>1, <1>2, <1>3, <2>1, <2>2, <2>3, <2>4 DEF IInv, OutInv, SameHead
    <2> QED  BY <1>4, <1>5, <2>5 DEF IInv
  <1> QED  BY <1>6, <1>7

-----------------------------------------------------------------------------
(* The invariant.                                                          *)

LEMMA InitialState == ASSUME Init PROVE IInv
  <1>1. FixedType
    BY BoundsAssumption, ScriptsAssumption DEF Init, FixedType
  <1>2. /\ <<>> \in Seq(Unit) /\ <<>> \in Seq(Pieces) /\ Len(<<>>) = 0
    BY EmptySeq
  <1>3. /\ conn \in Conn /\ conn.action = "Cgi" /\ conn.cgi_out_token /\ conn.in_stream
        /\ conn.body_remaining = (IF encoding = "length" THEN body ELSE 0)
        /\ conn.cgi_buffer = 0 /\ conn.write_buffer = <<>> /\ conn.parse_state = "ReadHeaders"
        /\ conn.header_buf = <<>>
    BY <1>1, <1>2 DEF Init, FixedType, Conn, ParseState
  <1>4. DataType
    BY <1>1, <1>2, <1>3 DEF Init, DataType, FixedType, ProcessType, ClientType, LoopType
  <1>5. BodyInv
    BY <1>1, <1>3 DEF Init, FixedType, BodyInv, Somewhere, StdinWhole
  <1>6. Shown = <<>> /\ stdout = <<>>
    BY <1>2, <1>3, ConcatEmptySeq DEF Init, Shown
  <1>7. Flow
    <2>1. Done(Piece) = <<>>
      BY <1>4, DoneType, OutputType, EmptySeq DEF Init
    <2> QED  BY <1>2, <1>3, <1>6, <2>1, ConcatEmptySeq DEF Flow, InHeaders
  <1>8. OutInv
    BY <1>2, <1>3, <1>6, <1>7 DEF Init, OutInv, Exited, InHeaders
  <1> QED  BY <1>4, <1>5, <1>8 DEF IInv

LEMMA Consecution == IInv /\ [Next]_vars => IInv'
  <1> SUFFICES ASSUME IInv, [Next]_vars PROVE IInv'
    OBVIOUS
  <1>1. CASE \/ Poll \/ OutEvent \/ InEvent \/ ClientEvent \/ EndOfBatch
             \/ WriteNothing \/ MonitorAlive \/ Lifecycle
    BY <1>1, MovingOn, MovesOnStep DEF IInv
  <1>2. CASE ReadData
    BY <1>2, ReadDataStep
  <1>3. CASE ReadEof
    BY <1>3, ReadEofStep
  <1>4. CASE WriteStdin
    BY <1>4, WriteStdinStep
  <1>5. CASE WriteFails
    BY <1>5, WriteFailsStep
  <1>6. CASE MonitorExit
    BY <1>6, MonitorExitStep
  <1>7. CASE ReadPhase
    BY <1>7, ReadPhaseStep
  <1>8. CASE WritePhase
    BY <1>8, WritePhaseStep
  <1>9. CASE ScriptRead
    BY <1>9, ScriptReadStep
  <1>10. CASE ScriptWrite
    BY <1>10, ScriptWriteStep
  <1>11. CASE ScriptExit \/ ScriptEnds
    BY <1>11, ScriptExitStep
  <1>12. CASE ClientSend
    BY <1>12, ClientSendStep
  <1>13. CASE SessionEnd
    BY <1>13, SessionEndStep
  <1>14. CASE UNCHANGED vars
    <2>1. MovesOn
      BY <1>14 DEF vars, MovesOn, LoopType, IInv, DataType, OutInv
    <2> QED  BY <2>1, MovesOnStep
  <1> QED
    BY <1>1, <1>2, <1>3, <1>4, <1>5, <1>6, <1>7, <1>8, <1>9, <1>10, <1>11, <1>12, <1>13, <1>14
    DEF Next, Loop, Script

(* Whatever the scripts do, no piece of a body is lost while the action    *)
(* lasts, and no piece of output is shown out of its place.                *)
THEOREM Invariance == Spec => []IInv
  BY InitialState, Consecution, PTL DEF Spec

(* Counters, streams and registrations of one script keep to their types.  *)
THEOREM TypeCorrect == Spec => []TypeOK
  <1>1. IInv => TypeOK
    <2> SUFFICES ASSUME IInv PROVE TypeOK
      OBVIOUS
    <2>1. /\ unsent \in Nat /\ inbox \in Nat /\ stdin \in Nat /\ consumed \in Nat
          /\ conn.cgi_buffer \in Nat /\ body \in Nat /\ Somewhere <= body
      BY DEF IInv, DataType, FixedType, ProcessType, ClientType, Conn, BodyInv
    <2>2. consumed \in 0 .. body /\ conn.cgi_buffer \in 0 .. body
      BY <2>1 DEF Somewhere
    <2> QED  BY <2>2 DEF IInv, DataType, ProcessType, LoopType, Conn, ParseState, BodyInv, TypeOK
  <1> QED  BY <1>1, Invariance, PTL

(* write_to_cgi_stdin closes the stdin of a script only behind the last    *)
(* byte of a sized body.                                                   *)
THEOREM BodiesWhole == Spec => []StdinWhole
  <1>1. IInv => StdinWhole
    BY DEF IInv, BodyInv
  <1> QED  BY <1>1, Invariance, PTL

(* What process_cgi_stdout puts before the client is, while the session    *)
(* lasts, a beginning of the answer, or, of a script that is not clear, of *)
(* the answer with its first piece cut; and the 505 of monitor_cgi_process *)
(* never follows output that was shown.                                    *)
THEOREM OutputOrdered == Spec => []OutputInOrder
  <1>1. IInv => OutputInOrder
    <2> SUFFICES ASSUME IInv PROVE OutputInOrder
      OBVIOUS
    <2>1. session /\ script.ok => InPlace
      BY ShownInPlace DEF IInv, OutInv, DataType, Conn
    <2>2. \A k \in DOMAIN Shown : Shown[k] = "505" => Len(Shown) = 1
      BY DEF IInv, OutInv
    <2> QED  BY <2>1, <2>2 DEF OutputInOrder, InPlace
  <1> QED  BY <1>1, Invariance, PTL

(* An end of file that read_cgi_output has seen is the end of everything   *)
(* a clear script wrote; of another, at most the beginning of the first    *)
(* piece is missing, unless no end of the head was found.                  *)
THEOREM EndOfFileWhole == Spec => []EofIsWhole
  <1>1. IInv => EofIsWhole
    BY DEF IInv, OutInv, EofIsWhole, AtEof, InHeaders
  <1> QED  BY <1>1, Invariance, PTL

-----------------------------------------------------------------------------
(* No standstill.  The registrations are edge-triggered: what is in a      *)
(* buffer moves only if an event for it is due.                            *)

(* What waits for the client has its event due.                            *)
FlushInv ==
    /\ pc = "poll" => batch = {}
    /\ conn.write_buffer # <<>> =>
          /\ conn.wants_write /\ pc # "gone"
          /\ "client" \in queued \/ ("writable" \in batch /\ pc # "lifecycle")

(* And so has the body of a script that runs: what has arrived is read,    *)
(* and, with room in stdin, what was read of a sized body is passed on.    *)
Running == child = "running"
FeedInv ==
    /\ Running => ~conn.closed /\ (conn.in_stream => conn.cgi_in_token)
    /\ Running /\ inbox > 0 =>
          "client" \in queued \/ ("readable" \in batch /\ pc \notin {"write", "lifecycle"})
    /\ Running /\ encoding = "length" /\ conn.in_stream =>
          /\ body > 0 => conn.cgi_buffer + conn.body_remaining > 0
          /\ conn.cgi_buffer > 0 /\ stdin < StdinRoom =>
                "in" \in queued \/ "in" \in batch \/ pc = "cgi_write"

(* What the steps make of the fields these two are about.                  *)
Apart(c, d) ==
    /\ c.closed = d.closed /\ c.in_stream = d.in_stream /\ c.cgi_in_token = d.cgi_in_token
    /\ c.cgi_buffer = d.cgi_buffer /\ c.body_remaining = d.body_remaining

LEMMA FlowReadData == ASSUME DataType, ReadData PROVE conn'.wants_write /\ Apart(conn', conn)
  <1> DEFINE t == SubSeq(stdout, 1, SmallestOf(ReadPieces, Len(stdout)))
             c == IF session THEN Processed(conn, t) ELSE conn
  <1>1. Apart(c, conn) /\ DOMAIN c = DOMAIN conn
    BY DEF DataType, Conn, Processed, Apart
  <1>2. conn' = [c EXCEPT !.wants_write = TRUE]
    BY DEF ReadData, WantsWrite
  <1> HIDE DEF c
  <1> QED  BY <1>1, <1>2 DEF DataType, Conn, Apart

LEMMA FlowReadEof ==
    ASSUME DataType, ReadEof
    PROVE  /\ conn'.closed = conn.closed /\ conn'.in_stream = conn.in_stream
           /\ \/ conn'.wants_write /\ "client" \in queued'
              \/ /\ conn'.write_buffer = conn.write_buffer /\ queued' = queued
                 /\ conn'.wants_write = conn.wants_write
  <1>1. CASE conn.parse_state = "StreamBodyChuncked"
    <2>1. conn' = [[[conn EXCEPT !.write_buffer = Append(@, "end")] EXCEPT !.wants_write = TRUE]
                     EXCEPT !.cgi_out_token = FALSE, !.cgi_in_token = FALSE]
      BY <1>1 DEF ReadEof, Forget, WantsWrite
    <2> QED  BY <1>1, <2>1 DEF ReadEof, DataType, Conn
  <1>2. CASE conn.parse_state # "StreamBodyChuncked"
    <2>1. conn' = [conn EXCEPT !.cgi_out_token = FALSE, !.cgi_in_token = FALSE]
      BY <1>2 DEF ReadEof, Forget
    <2> QED  BY <1>2, <2>1 DEF ReadEof, DataType, Conn
  <1> QED  BY <1>1, <1>2

(* A write that leaves stdin open has filled it or emptied the buffer, and *)
(* there is more to come.                                                  *)
LEMMA FlowWriteStdin ==
    ASSUME DataType, WriteStdin
    PROVE  /\ conn'.wants_write /\ conn'.closed = conn.closed
           /\ conn'.in_stream =>
                /\ conn.in_stream /\ conn'.cgi_in_token = conn.cgi_in_token
                /\ conn'.body_remaining # 0 \/ conn'.cgi_buffer # 0
                /\ conn'.cgi_buffer = 0 \/ stdin' = StdinRoom
  <1> DEFINE n == SmallestOf(conn.cgi_buffer, StdinRoom - stdin)
             left == conn.cgi_buffer - n
             c == WantsWrite([conn EXCEPT !.cgi_buffer = @ - n])
  <1>1. /\ n \in Int /\ stdin' = stdin + n /\ left \in Int
        /\ left = 0 \/ stdin + n = StdinRoom
    BY DEF DataType, FixedType, ProcessType, Conn, SmallestOf, WriteStdin
  <1>2. conn' = IF SentAll(c) THEN [c EXCEPT !.in_stream = FALSE, !.cgi_in_token = FALSE] ELSE c
    BY DEF WriteStdin
  <1>3. c = [conn EXCEPT !.cgi_buffer = left, !.wants_write = TRUE]
    BY DEF DataType, Conn, WantsWrite
  <1> HIDE DEF n, left, c
  <1>4. /\ c.wants_write /\ c.closed = conn.closed /\ c.cgi_in_token = conn.cgi_in_token
        /\ c.in_stream = conn.in_stream /\ c.cgi_buffer = left
        /\ c.body_remaining = conn.body_remaining /\ DOMAIN c = DOMAIN conn
    BY <1>3 DEF DataType, Conn
  <1>5. CASE SentAll(c)
    <2>1. ~conn'.in_stream /\ conn'.wants_write = c.wants_write /\ conn'.closed = c.closed
      BY <1>2, <1>4, <1>5 DEF DataType, Conn
    <2> QED  BY <1>4, <2>1
  <1>6. CASE ~SentAll(c)
    BY <1>1, <1>2, <1>4, <1>6 DEF SentAll, WriteStdin, CanWrite
  <1> QED  BY <1>5, <1>6

LEMMA FlowReadPhase ==
    ASSUME DataType, ReadPhase
    PROVE  /\ conn'.write_buffer = conn.write_buffer /\ conn'.closed = conn.closed
           /\ queued \subseteq queued'
           /\ IF "readable" \in batch /\ ~conn.closed
              THEN /\ inbox' = 0
                   /\ conn.write_buffer # <<>> => conn'.wants_write /\ "client" \in queued'
                   /\ RearmsStdin => "in" \in queued'
              ELSE UNCHANGED <<conn, inbox, queued>>
  <1>1. CASE ~("readable" \in batch /\ ~conn.closed)
    BY <1>1 DEF ReadPhase
  <1>2. CASE "readable" \in batch /\ ~conn.closed
    <2>1. /\ conn' = [Feed(conn) EXCEPT !.wants_write = StillWants] /\ inbox' = 0
          /\ queued' = queued \cup (IF conn'.wants_write THEN {"client"} ELSE {})
                              \cup (IF RearmsStdin THEN {"in"} ELSE {})
      BY <1>2 DEF ReadPhase
    <2>2. /\ Feed(conn).write_buffer = conn.write_buffer /\ Feed(conn).closed = conn.closed
          /\ DOMAIN Feed(conn) = DOMAIN conn
      BY DEF DataType, Conn, Feed
    <2>3. /\ conn'.wants_write = StillWants /\ conn'.write_buffer = conn.write_buffer
          /\ conn'.closed = conn.closed
      BY <2>1, <2>2 DEF DataType, Conn
    <2> QED  BY <1>2, <2>1, <2>3 DEF StillWants
  <1> QED  BY <1>1, <1>2

LEMMA FlowWritePhase ==
    ASSUME DataType, WritePhase
    PROVE  /\ conn'.closed = conn.closed /\ conn'.in_stream = conn.in_stream
           /\ conn'.cgi_in_token = conn.cgi_in_token
           /\ \/ conn'.write_buffer = <<>>
              \/ conn' = conn /\ "writable" \notin batch
  <1>1. CASE "writable" \in batch
    <2>1. conn' = [conn EXCEPT !.write_buffer = <<>>, !.wants_write = conn.closed]
      BY <1>1 DEF WritePhase
    <2> QED  BY <2>1 DEF DataType, Conn
  <1>2. CASE "writable" \notin batch
    BY <1>2 DEF WritePhase
  <1> QED  BY <1>1, <1>2

LEMMA FlowMonitorExit == ASSUME DataType, MonitorExit PROVE conn'.wants_write
  <1>1. conn' = [[[conn EXCEPT !.cgi_out_token = FALSE, !.cgi_in_token = FALSE]
                    EXCEPT !.action = "None", !.in_stream = FALSE,
                           !.write_buffer = IF Premature THEN <<"505">> ELSE @,
                           !.closed = @ \/ Premature] EXCEPT !.wants_write = TRUE]
    BY DEF MonitorExit, Reaped, Forget, WantsWrite
  <1> QED  BY <1>1 DEF DataType, Conn

LEMMA FlowWriteFails ==
    ASSUME DataType, WriteFails
    PROVE  conn'.write_buffer = conn.write_buffer /\ conn'.wants_write = conn.wants_write
  BY DEF WriteFails, DataType, Conn

LEMMA FlushStep == ASSUME DataType, FlushInv, [Next]_vars PROVE FlushInv'
  <1>1. ASSUME Poll PROVE FlushInv'
    BY <1>1 DEF Poll, FlushInv
  <1>2. ASSUME OutEvent \/ InEvent \/ ClientEvent PROVE FlushInv'
    BY <1>2 DEF OutEvent, InEvent, ClientEvent, Begin, FlushInv
  <1>3. ASSUME EndOfBatch PROVE FlushInv'
    BY <1>3 DEF EndOfBatch, FlushInv
  <1>4. ASSUME ReadData PROVE FlushInv'
    BY <1>4, FlowReadData DEF ReadData, FlushInv
  <1>5. ASSUME ReadEof PROVE FlushInv'
    BY <1>5, FlowReadEof DEF ReadEof, FlushInv
  <1>6. ASSUME WriteStdin PROVE FlushInv'
    BY <1>6, FlowWriteStdin DEF WriteStdin, FlushInv
  <1>7. ASSUME WriteFails PROVE FlushInv'
    BY <1>7, FlowWriteFails DEF WriteFails, FlushInv
  <1>8. ASSUME WriteNothing \/ MonitorAlive PROVE FlushInv'
    BY <1>8 DEF WriteNothing, MonitorAlive, FlushInv
  <1>9. ASSUME MonitorExit PROVE FlushInv'
    BY <1>9, FlowMonitorExit DEF MonitorExit, FlushInv
  <1>10. ASSUME ReadPhase PROVE FlushInv'
    BY <1>10, FlowReadPhase DEF ReadPhase, FlushInv
  <1>11. ASSUME WritePhase PROVE FlushInv'
    BY <1>11, FlowWritePhase DEF WritePhase, FlushInv
  <1>12. ASSUME Lifecycle PROVE FlushInv'
    BY <1>12 DEF Lifecycle, FlushInv
  <1>13. ASSUME Script \/ ClientSend \/ SessionEnd PROVE FlushInv'
    BY <1>13
    DEF Script, ScriptRead, ScriptWrite, ScriptExit, ScriptEnds, ClientSend, SessionEnd, FlushInv
  <1>14. ASSUME UNCHANGED vars PROVE FlushInv'
    BY <1>14 DEF vars, FlushInv
  <1> QED
    BY <1>1, <1>2, <1>3, <1>4, <1>5, <1>6, <1>7, <1>8, <1>9, <1>10, <1>11, <1>12, <1>13, <1>14
    DEF Next, Loop

LEMMA FeedStep == ASSUME IInv, FlushInv, FeedInv, [Next]_vars PROVE FeedInv'
  <1>0. Running => conn.action = "Cgi"
    BY DEF IInv, BodyInv, Running
  <1>1. ASSUME Poll PROVE FeedInv'
    <2>1. /\ UNCHANGED <<script, encoding, body, stdin, child, inbox, conn>>
          /\ pc = "poll" /\ batch = {} /\ pc' = "events"
      BY <1>1 DEF Poll, FlushInv, fixed, process, client
    <2> QED  BY <1>0, <1>1, <2>1 DEF Poll, InReady, FeedInv, Running
  <1>2. ASSUME OutEvent \/ InEvent \/ ClientEvent PROVE FeedInv'
    BY <1>2 DEF OutEvent, InEvent, ClientEvent, Begin, FeedInv, Running, fixed, process, client
  <1>3. ASSUME EndOfBatch PROVE FeedInv'
    BY <1>3 DEF EndOfBatch, FeedInv, Running, fixed, process, client
  <1>4. ASSUME ReadData PROVE FeedInv'
    BY <1>4, FlowReadData DEF ReadData, Apart, IInv, FeedInv, Running, fixed, client
  <1>5. ASSUME ReadEof \/ WriteFails \/ MonitorExit PROVE FeedInv'
    BY <1>5 DEF ReadEof, WriteFails, CanWrite, MonitorExit, Exited, FeedInv, Running, process
  <1>6. ASSUME WriteStdin PROVE FeedInv'
    <2>1. /\ UNCHANGED <<script, encoding, body, child, inbox, batch>>
          /\ queued' = queued \cup {"client"} /\ pc' = "monitor"
          /\ StdinRoom \in Nat /\ conn.cgi_buffer \in Int
      BY <1>6 DEF WriteStdin, IInv, DataType, FixedType, Conn, fixed, client
    <2>2. /\ conn'.cgi_buffer \in Int /\ conn'.cgi_buffer >= 0
          /\ conn'.body_remaining \in Int /\ conn'.body_remaining >= 0
      <3>1. BodyInv' /\ DataType'
        BY <1>6, WriteStdinStep DEF IInv
      <3> QED  BY <3>1 DEF BodyInv, DataType, FixedType, Conn
    <2>3. Running' => ~conn'.closed /\ (conn'.in_stream => conn'.cgi_in_token)
      BY <1>6, <2>1, FlowWriteStdin DEF IInv, FeedInv, Running
    <2>4. conn'.in_stream => /\ conn'.cgi_buffer + conn'.body_remaining > 0
                             /\ conn'.cgi_buffer = 0 \/ stdin' = StdinRoom
      BY <1>6, <2>2, FlowWriteStdin DEF IInv
    <2> QED  BY <2>1, <2>2, <2>3, <2>4 DEF FeedInv
  <1>7. ASSUME WriteNothing \/ MonitorAlive PROVE FeedInv'
    BY <1>7
    DEF WriteNothing, CanWrite, Exited, MonitorAlive, IInv, BodyInv, DataType, ProcessType,
        FeedInv, Running, fixed, process, client
  <1>8. ASSUME ReadPhase PROVE FeedInv'
    <2>1. /\ UNCHANGED <<script, encoding, body, stdin, child, batch>>
          /\ pc = "read" /\ pc' = "write"
      BY <1>8 DEF ReadPhase, fixed, process
    <2>2. /\ conn'.in_stream = conn.in_stream /\ conn'.cgi_in_token = conn.cgi_in_token
          /\ conn.cgi_buffer \in Int /\ conn.body_remaining \in Int /\ inbox \in Nat
          /\ \/ inbox' = inbox /\ SameBody
             \/ inbox' = 0 /\ conn.action # "Cgi" /\ SameBody
             \/ /\ inbox' = 0
                /\ conn'.cgi_buffer = conn.cgi_buffer + inbox
                /\ encoding = "length" => conn'.body_remaining = conn.body_remaining - inbox
      BY <1>8, ReadPhaseConn DEF IInv, DataType, ClientType, Conn, SameTokens
    <2>3. (Running => ~conn.closed /\ (conn.in_stream => conn.cgi_in_token))'
      BY <1>8, <2>1, <2>2, FlowReadPhase DEF IInv, FeedInv, Running
    <2>4. (Running /\ inbox > 0 =>
            "client" \in queued \/ ("readable" \in batch /\ pc \notin {"write", "lifecycle"}))'
      BY <1>8, <2>1, FlowReadPhase DEF IInv, FeedInv, Running
    <2>5. ASSUME Running, encoding = "length", conn.in_stream
          PROVE  /\ body > 0 => conn'.cgi_buffer + conn'.body_remaining > 0
                 /\ conn'.cgi_buffer > 0 /\ stdin < StdinRoom =>
                       "in" \in queued' \/ "in" \in batch
      <3>1. CASE "readable" \in batch
        <4>1. stdin < StdinRoom => RearmsStdin
          BY <1>0, <2>5 DEF FeedInv, RearmsStdin, InReady, Running
        <4>2. stdin < StdinRoom => "in" \in queued'
          BY <1>8, <2>5, <3>1, <4>1, FlowReadPhase DEF IInv, FeedInv
        <4> QED  BY <1>0, <2>2, <2>5, <4>2 DEF SameBody, FeedInv
      <3>2. CASE "readable" \notin batch
        BY <1>8, <2>1, <2>5, <3>2, FlowReadPhase DEF IInv, FeedInv
      <3> QED  BY <3>1, <3>2
    <2> QED  BY <2>1, <2>2, <2>3, <2>4, <2>5 DEF FeedInv, Running
  <1>9. ASSUME WritePhase PROVE FeedInv'
    <2>1. /\ UNCHANGED <<script, encoding, body, stdin, child, inbox, queued, batch>>
          /\ pc = "write" /\ pc' = "lifecycle"
      BY <1>9 DEF WritePhase, fixed, process
    <2> QED
      BY <1>9, <2>1, FlowWritePhase, WritePhaseConn DEF SameBody, IInv, FeedInv, Running
  <1>10. ASSUME Lifecycle PROVE FeedInv'
    BY <1>10 DEF Lifecycle, FeedInv, Running, fixed, process, client
  <1>11. ASSUME ScriptRead PROVE FeedInv'
    BY <1>11 DEF ScriptRead, FeedInv, Running, fixed, client
  <1>12. ASSUME ScriptWrite \/ SessionEnd PROVE FeedInv'
    BY <1>12 DEF ScriptWrite, SessionEnd, FeedInv, Running, fixed, process, client
  <1>13. ASSUME ScriptExit \/ ScriptEnds PROVE FeedInv'
    BY <1>13 DEF ScriptExit, ScriptEnds, FeedInv, Running
  <1>14. ASSUME ClientSend PROVE FeedInv'
    BY <1>14 DEF ClientSend, FeedInv, Running, fixed, process
  <1>15. ASSUME UNCHANGED vars PROVE FeedInv'
    BY <1>15 DEF vars, FeedInv, Running, fixed, process, client
  <1> QED
    BY <1>1, <1>2, <1>3, <1>4, <1>5, <1>6, <1>7, <1>8, <1>9, <1>10, <1>11, <1>12, <1>13, <1>14,
       <1>15
    DEF Next, Loop, Script

LEMMA Flowing == Spec => [](IInv /\ FlushInv /\ FeedInv)
  <1>1. ASSUME Init PROVE FlushInv /\ FeedInv
    <2>1. /\ pc = "poll" /\ batch = {} /\ queued = {"in"} /\ inbox = 0
          /\ conn.write_buffer = <<>> /\ ~conn.closed /\ conn.cgi_in_token /\ conn.cgi_buffer = 0
          /\ encoding = "length" => conn.body_remaining = body
      BY <1>1 DEF Init
    <2> QED  BY <1>1, <2>1, InitialState DEF IInv, DataType, FixedType, FlushInv, FeedInv
  <1>2. IInv /\ FlushInv /\ FeedInv /\ [Next]_vars => (IInv /\ FlushInv /\ FeedInv)'
    BY Consecution, FlushStep, FeedStep DEF IInv
  <1> QED  BY <1>1, <1>2, InitialState, PTL DEF Spec

(* When the loop waits in poll, whatever reregister left in write_buffer   *)
(* has its writable interest and the edge for it: no output of a script,   *)
(* and no answer to its failure, is stranded behind an event that has      *)
(* passed.  And no connection is removed with output in its buffer.        *)
THEOREM NoOutputStranded ==
    Spec => [](/\ pc = "poll" /\ conn.write_buffer # <<>> => conn.wants_write /\ "client" \in queued
               /\ pc = "gone" => conn.write_buffer = <<>>)
  <1>1. FlushInv => /\ pc = "poll" /\ conn.write_buffer # <<>> =>
                          conn.wants_write /\ "client" \in queued
                    /\ pc = "gone" => conn.write_buffer = <<>>
    BY DEF FlushInv
  <1> QED  BY <1>1, Flowing, PTL

(* The edge-triggered stdin of a script never swallows a sized body: when  *)
(* the loop has no event, the client has sent everything and the script    *)
(* has taken what stdin held, then a script that runs was given the whole  *)
(* body and then the end of file, however little stdin takes at a time.    *)
BodyAtRest ==
    /\ encoding = "length" /\ body > 0 /\ child = "running"
    /\ pc = "poll" /\ queued = {} /\ unsent = 0 /\ stdin = 0

THEOREM NoBodyStranded == Spec => [](BodyAtRest => consumed = body /\ SawEof)
  <1>1. IInv /\ FlushInv /\ FeedInv => (BodyAtRest => consumed = body /\ SawEof)
    <2> SUFFICES ASSUME IInv, FlushInv, FeedInv, BodyAtRest PROVE consumed = body /\ SawEof
      OBVIOUS
    <2>1. /\ inbox = 0 /\ stdin < StdinRoom /\ batch = {}
          /\ conn.action = "Cgi" /\ conn.cgi_buffer \in Nat
      BY BoundsAssumption
      DEF IInv, DataType, ProcessType, ClientType, Conn, BodyInv, FlushInv, FeedInv, Running,
          BodyAtRest
    <2>2. conn.in_stream => conn.cgi_buffer = 0
      BY <2>1 DEF FeedInv, Running, BodyAtRest
    <2>3. ~conn.in_stream
      <3>1. conn.body_remaining = 0
        BY <2>1 DEF IInv, BodyInv, BodyAtRest
      <3> QED  BY <2>2, <3>1 DEF FeedInv, Running, BodyAtRest
    <2> QED  BY <2>3 DEF IInv, BodyInv, StdinWhole, DataType, ProcessType, SawEof, BodyAtRest
  <1> QED  BY <1>1, Flowing, PTL

=============================================================================
