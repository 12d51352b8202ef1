------------------------- MODULE RequestBody_proof --------------------------
(***************************************************************************)
(* Proofs about RequestBody: what RequestChunks_proof shows of a body in   *)
(* chunks is shown here of a body in parts, and both make the theorems at  *)
(* the end: the body that is decoded, the files that are saved and the     *)
(* bytes left for the next request are the ones the client meant.          *)
(***************************************************************************)
EXTENDS RequestChunks_proof

-----------------------------------------------------------------------------
(* The wire of a body in parts.                                            *)

Multiparts == [encoding : {"multipart"}, preamble : Seq(Byte),
               body : Seq([header : Headers, data : Seq(Byte)]), rest : Seq(Byte)]

(* What a message in parts is made of: at least one part, and neither      *)
(* delimiter nor line break in the data of any.                            *)
LEMMA MultipartIs ==
    ASSUME message \in Messages, ~Chunked
    PROVE  /\ message \in Multiparts /\ Count \in Nat /\ Count > 0
           /\ message.preamble \in Seq(Byte) /\ message.rest \in Seq(Byte)
           /\ DOMAIN message.body = 1 .. Count
           /\ \A i \in 1 .. Count : /\ message.body[i].header \in Headers
                                    /\ message.body[i].header \in Byte
                                    /\ message.body[i].data \in Seq(Byte)
                                    /\ Len(message.body[i].data) \in Nat
                                    /\ Plain(message.body[i].data)
           /\ Plain(message.preamble)
  <1>1. message \notin [encoding : {"chunked"}, body : Seq(Seq(Byte)),
               trailer : {<<>>, <<"t">> \o CRLF}, rest : Seq(Byte), flaw : Flaws]
    BY DEF Chunked
  <1>2. MultipartMessage(message)
    BY <1>1, MessagesAssumption DEF ChunkedMessage
  <1>3. message \in Multiparts /\ message.body # <<>>
        /\ Plain(message.preamble) /\ \A i \in DOMAIN message.body : Plain(message.body[i].data)
    BY <1>2 DEF MultipartMessage, Multiparts
  <1> DEFINE b == message.body
             P == [header : Headers, data : Seq(Byte)]
  <1>4. b \in Seq(P) /\ message.preamble \in Seq(Byte) /\ message.rest \in Seq(Byte)
    BY <1>3 DEF Multiparts
  <1>5. Len(b) \in Nat /\ DOMAIN b = 1 .. Len(b) /\ Len(b) # 0
    <2> HIDE DEF b
    <2>1. b # <<>>
      BY <1>3 DEF b
    <2> QED  BY <1>4, <2>1, LenProperties, EmptySeq
  <1>6. \A i \in 1 .. Len(b) : b[i] \in P
    BY <1>4, ElementOfSeq
  <1>7. \A i \in 1 .. Len(b) : /\ b[i].header \in Headers /\ b[i].header \in Byte
                               /\ b[i].data \in Seq(Byte) /\ Len(b[i].data) \in Nat
    <2> SUFFICES ASSUME NEW i \in 1 .. Len(b)
                 PROVE  /\ b[i].header \in Headers /\ b[i].header \in Byte
                        /\ b[i].data \in Seq(Byte) /\ Len(b[i].data) \in Nat
      OBVIOUS
    <2>1. b[i] \in P
      BY <1>6
    <2>2. b[i].header \in Headers /\ b[i].data \in Seq(Byte)
      BY <2>1
    <2> QED  BY <2>2, LenProperties DEF Headers
  <1>8. \A i \in DOMAIN b : Plain(b[i].data)
    BY <1>3
  <1> HIDE DEF P, b
  <1>9. Len(b) > 0
    BY <1>5
  <1>10. Count = Len(b)
    BY DEF Count, b
  <1> HIDE DEF Count
  <1> QED  BY <1>3, <1>4, <1>5, <1>7, <1>8, <1>9, <1>10 DEF b

(* A part, byte by byte.                                                   *)
PartReads(w, h, d) ==
    /\ w \in Seq(Byte) /\ Len(d) \in Nat /\ Len(w) = Len(d) + 12
    /\ w[1] = "-" /\ w[2] = "-" /\ w[3] = "b" /\ w[4] = "cr" /\ w[5] = "lf"
    /\ w[6] = h /\ w[7] = "cr" /\ w[8] = "lf" /\ w[9] = "cr" /\ w[10] = "lf"
    /\ \A i \in 1 .. Len(d) : w[10 + i] = d[i]
    /\ w[Len(d) + 11] = "cr" /\ w[Len(d) + 12] = "lf"

(* A part on the wire, byte by byte: its delimiter, its header, its data   *)
(* and the line break after it.                                            *)
LEMMA PartType ==
    ASSUME NEW q, q.header \in Byte, q.data \in Seq(Byte)
    PROVE  PartReads(PartWire(q), q.header, q.data)
  <1> DEFINE h == q.header
             d == q.data
             a1 == Parts!Delimiter
             b2 == CRLF
             b3 == <<h>>
             b4 == Parts!HeaderSep
             a2 == a1 \o b2
             a3 == a2 \o b3
             a4 == a3 \o b4
             a5 == a4 \o d
             a6 == a5 \o b2
  <1>1. PartWire(q) = a6
    BY DEF PartWire
  <1>2. a1 \in Seq(Byte) /\ Len(a1) = 3 /\ a1[1] = "-" /\ a1[2] = "-" /\ a1[3] = "b"
    BY DEF Parts!Delimiter, Parts!Boundary, Byte
  <1>3. b2 \in Seq(Byte) /\ Len(b2) = 2 /\ b2[1] = "cr" /\ b2[2] = "lf"
    BY DEF CRLF, Byte
  <1>4. b3 \in Seq(Byte) /\ Len(b3) = 1 /\ b3[1] = h
    OBVIOUS
  <1>5. b4 \in Seq(Byte) /\ Len(b4) = 4 /\ b4[1] = "cr" /\ b4[2] = "lf" /\ b4[3] = "cr" /\ b4[4] = "lf"
    BY DEF Parts!HeaderSep, Parts!CRLF, Byte
  <1>6. d \in Seq(Byte) /\ Len(d) \in Nat
    BY LenProperties
  <1> HIDE DEF h, d, a1, b2, b3, b4
  <1>7. a2 \in Seq(Byte) /\ Len(a2) = 5 /\ a2[1] = "-" /\ a2[2] = "-" /\ a2[3] = "b"
        /\ a2[4] = "cr" /\ a2[5] = "lf"
    <2>1. Joined(a1, b2, a2)
      BY <1>2, <1>3, Join
    <2> HIDE DEF a2
    <2>2. a2[3 + 1] = "cr" /\ a2[3 + 2] = "lf"
      BY <1>2, <1>3, <2>1 DEF Joined
    <2> QED  BY <1>2, <1>3, <2>1, <2>2 DEF Joined
  <1> HIDE DEF a2
  <1>8. a3 \in Seq(Byte) /\ Len(a3) = 6 /\ (\A i \in 1 .. 5 : a3[i] = a2[i]) /\ a3[6] = h
    <2>1. Joined(a2, b3, a3)
      BY <1>4, <1>7, Join
    <2> HIDE DEF a3
    <2>2. a3[5 + 1] = h
      BY <1>4, <1>7, <2>1 DEF Joined
    <2> QED  BY <1>4, <1>7, <2>1, <2>2 DEF Joined
  <1> HIDE DEF a3
  <1>9. a4 \in Seq(Byte) /\ Len(a4) = 10 /\ (\A i \in 1 .. 6 : a4[i] = a3[i])
        /\ a4[7] = "cr" /\ a4[8] = "lf" /\ a4[9] = "cr" /\ a4[10] = "lf"
    <2>1. Joined(a3, b4, a4)
      BY <1>5, <1>8, Join
    <2> HIDE DEF a4
    <2>2. a4[6 + 1] = "cr" /\ a4[6 + 2] = "lf" /\ a4[6 + 3] = "cr" /\ a4[6 + 4] = "lf"
      BY <1>5, <1>8, <2>1 DEF Joined
    <2> QED  BY <1>5, <1>8, <2>1, <2>2 DEF Joined
  <1> HIDE DEF a4
  <1>10. a5 \in Seq(Byte) /\ Len(a5) = 10 + Len(d) /\ (\A i \in 1 .. 10 : a5[i] = a4[i])
         /\ \A i \in 1 .. Len(d) : a5[10 + i] = d[i]
    <2>1. Joined(a4, d, a5)
      BY <1>6, <1>9, Join
    <2> HIDE DEF a5
    <2> QED  BY <1>6, <1>9, <2>1 DEF Joined
  <1> HIDE DEF a5
  <1>11. a6 \in Seq(Byte) /\ Len(a6) = Len(d) + 12 /\ (\A i \in 1 .. 10 + Len(d) : a6[i] = a5[i])
         /\ a6[Len(d) + 11] = "cr" /\ a6[Len(d) + 12] = "lf"
    <2>1. Joined(a5, b2, a6)
      BY <1>3, <1>10, Join
    <2> HIDE DEF a6
    <2>2. Len(a6) = (10 + Len(d)) + 2 /\ a6[(10 + Len(d)) + 1] = "cr" /\ a6[(10 + Len(d)) + 2] = "lf"
      BY <1>3, <1>10, <2>1 DEF Joined
    <2>3. (10 + Len(d)) + 1 = Len(d) + 11 /\ (10 + Len(d)) + 2 = Len(d) + 12
      BY <1>6
    <2> QED  BY <1>10, <2>1, <2>2, <2>3 DEF Joined
  <1> HIDE DEF a6
  <1>12. \A i \in 1 .. 10 : a6[i] = a4[i]
    BY <1>6, <1>10, <1>11
  <1>13. \A i \in 1 .. Len(d) : a6[10 + i] = d[i]
    <2> SUFFICES ASSUME NEW i \in 1 .. Len(d) PROVE a6[10 + i] = d[i]
      OBVIOUS
    <2>1. 10 + i \in 1 .. 10 + Len(d)
      BY <1>6
    <2> QED  BY <1>10, <1>11, <2>1
  <1>14. /\ a6[1] = "-" /\ a6[2] = "-" /\ a6[3] = "b" /\ a6[4] = "cr" /\ a6[5] = "lf"
         /\ a6[6] = h /\ a6[7] = "cr" /\ a6[8] = "lf" /\ a6[9] = "cr" /\ a6[10] = "lf"
    BY <1>7, <1>8, <1>9, <1>12
  <1>15. PartReads(a6, h, d)
    BY <1>6, <1>11, <1>13, <1>14 DEF PartReads
  <1> QED  BY <1>1, <1>15 DEF h, d

PartFamily == [i \in 1 .. Count |-> PartWire(message.body[i])]

(* The parts on the wire are sequences of bytes, and the offset of a part  *)
(* is the length of those before it.                                       *)
LEMMA PartFamilyType ==
    ASSUME message \in Messages, ~Chunked
    PROVE  /\ PartFamily \in [1 .. Count -> Seq(Byte)] /\ Count \in Nat
           /\ Len(message.preamble) \in Nat
           /\ \A k \in 0 .. Count :
                 /\ PartOffset(k) = Len(message.preamble) + Len(Firsts(PartFamily, k))
                 /\ PartOffset(k) \in Nat /\ Len(Firsts(PartFamily, k)) \in Nat
           /\ Firsts(PartFamily, Count) \in Seq(Byte)
           /\ PartOffset(0) = Len(message.preamble)
  <1>1. \A i \in 1 .. Count : PartWire(message.body[i]) \in Seq(Byte)
    BY MultipartIs, PartType DEF PartReads
  <1>2. PartFamily \in [1 .. Count -> Seq(Byte)] /\ Count \in Nat
    BY <1>1, MultipartIs DEF PartFamily
  <1>3. message.preamble \in Seq(Byte) /\ Len(message.preamble) \in Nat
    BY MultipartIs, LenProperties
  <1>4. ASSUME NEW k \in 0 .. Count
        PROVE  /\ PartOffset(k) = Len(message.preamble) + Len(Firsts(PartFamily, k))
               /\ PartOffset(k) \in Nat /\ Len(Firsts(PartFamily, k)) \in Nat
    <2>1. [i \in 1 .. k |-> PartWire(message.body[i])] = [i \in 1 .. k |-> PartFamily[i]]
      BY <1>2 DEF PartFamily
    <2>2. PartOffset(k) = Len(message.preamble \o Firsts(PartFamily, k))
      BY <2>1 DEF PartOffset, Firsts
    <2>3. Firsts(PartFamily, k) \in Seq(Byte)
      BY <1>2, FirstsGrow
    <2>4. Joined(message.preamble, Firsts(PartFamily, k), message.preamble \o Firsts(PartFamily, k))
      BY <1>3, <2>3, Join
    <2> QED  BY <2>2, <2>4 DEF Joined
  <1>5. Firsts(PartFamily, Count) \in Seq(Byte)
    <2>1. Count \in 0 .. Count
      BY <1>2
    <2> QED  BY <1>2, <2>1, FirstsGrow
  <1>6. PartOffset(0) = Len(message.preamble)
    <2>1. Firsts(PartFamily, 0) = <<>>
      <3>1. [i \in 1 .. 0 |-> PartFamily[i]] = <<>>
        OBVIOUS
      <3> QED  BY <3>1, FlattenEmpty DEF Firsts
    <2>2. Len(Firsts(PartFamily, 0)) = 0
      BY <2>1
    <2>3. 0 \in 0 .. Count
      BY <1>2
    <2> QED  BY <1>3, <1>4, <2>2, <2>3
  <1> QED  BY <1>2, <1>3, <1>4, <1>5, <1>6

(* What stands before the first part and behind the last one.              *)
LEMMA PartsEndAt ==
    ASSUME message \in Messages, ~Chunked
    PROVE  LET f == Firsts(PartFamily, Count)
               g == message.preamble
               o == PartOffset(Count) IN
           /\ Wire \in Seq(Byte) /\ Len(Wire) \in Nat /\ o \in Nat
           /\ \A i \in 1 .. Len(g) : Wire[i] = g[i]
           /\ \A i \in 1 .. Len(f) : Wire[Len(g) + i] = f[i]
           /\ Wire[o + 1] = "-" /\ Wire[o + 2] = "-" /\ Wire[o + 3] = "b"
           /\ Wire[o + 4] = "-" /\ Wire[o + 5] = "-"
           /\ Len(BodyWire(message)) = o + 7
           /\ message.rest \in Seq(Byte) /\ Len(message.rest) \in Nat
           /\ Len(Wire) = Len(BodyWire(message)) + Len(message.rest)
           /\ \A i \in 1 .. Len(message.rest) : Wire[Len(BodyWire(message)) + i] = message.rest[i]
  <1> DEFINE g == message.preamble
             f == Firsts(PartFamily, Count)
             a == Parts!Delimiter
             z == <<"-", "-">>
             w1 == g \o f
             w2 == w1 \o a
             w3 == w2 \o z
             w4 == w3 \o CRLF
             w5 == w4 \o message.rest
             o == PartOffset(Count)
  <1>1. message.encoding = "multipart" /\ message \in Multiparts /\ Count \in Nat
        /\ DOMAIN message.body = 1 .. Count /\ g \in Seq(Byte) /\ message.rest \in Seq(Byte)
    BY MultipartIs DEF Multiparts
  <1>2. [i \in DOMAIN message.body |-> PartWire(message.body[i])] = [i \in 1 .. Count |-> PartFamily[i]]
    BY <1>1 DEF PartFamily
  <1>3. BodyWire(message) = w4 /\ Wire = w5
    BY <1>1, <1>2 DEF BodyWire, MultipartWire, Wire, Firsts
  <1>4. a \in Seq(Byte) /\ Len(a) = 3 /\ a[1] = "-" /\ a[2] = "-" /\ a[3] = "b"
    BY DEF Parts!Delimiter, Parts!Boundary, Byte
  <1>5. CRLF \in Seq(Byte) /\ Len(CRLF) = 2
    BY DEF CRLF, Byte
  <1>6. z \in Seq(Byte) /\ Len(z) = 2 /\ z[1] = "-" /\ z[2] = "-"
    BY DEF Byte
  <1>7. f \in Seq(Byte) /\ o = Len(g) + Len(f) /\ o \in Nat /\ Len(g) \in Nat /\ Len(f) \in Nat
    <2>1. Count \in 0 .. Count
      BY <1>1
    <2> QED  BY <2>1, PartFamilyType
  <1> HIDE DEF f, a, z, o
  <1>8. Joined(g, f, w1)
    BY <1>1, <1>7, Join
  <1>9. Joined(w1, a, w2)
    <2>1. w1 \in Seq(Byte)
      BY <1>8 DEF Joined
    <2> QED  BY <1>4, <2>1, Join
  <1> HIDE DEF w1
  <1>10. Joined(w2, z, w3)
    <2>1. w2 \in Seq(Byte)
      BY <1>9 DEF Joined
    <2> QED  BY <1>6, <2>1, Join
  <1> HIDE DEF w2
  <1>11. Joined(w3, CRLF, w4)
    <2>1. w3 \in Seq(Byte)
      BY <1>10 DEF Joined
    <2> QED  BY <1>5, <2>1, Join
  <1> HIDE DEF w3
  <1>12. Joined(w4, message.rest, w5)
    <2>1. w4 \in Seq(Byte)
      BY <1>11 DEF Joined
    <2> QED  BY <1>1, <2>1, Join
  <1> HIDE DEF w4, w5
  <1>13. Len(w1) = o /\ Len(w2) = o + 3 /\ Len(w3) = o + 5 /\ Len(w4) = o + 7
    <2>1. Len(w1) = Len(g) + Len(f) /\ Len(w2) = Len(w1) + Len(a)
      BY <1>8, <1>9 DEF Joined
    <2>2. Len(w3) = Len(w2) + Len(z) /\ Len(w4) = Len(w3) + Len(CRLF)
      BY <1>10, <1>11 DEF Joined
    <2>3. Len(w1) = o /\ Len(w2) = o + 3
      BY <1>4, <1>7, <2>1
    <2> QED  BY <1>5, <1>6, <1>7, <2>2, <2>3
  <1>14. Begins(w4, w5) /\ Begins(w3, w5) /\ Begins(w2, w5) /\ Begins(w1, w5) /\ Begins(g, w5)
    <2>1. Begins(w4, w5)
      BY <1>12 DEF Joined, Begins
    <2>2. Begins(w3, w5)
      BY <1>11, <2>1, JoinBegins
    <2>3. Begins(w2, w5)
      BY <1>10, <2>2, JoinBegins
    <2>4. Begins(w1, w5)
      BY <1>9, <2>3, JoinBegins
    <2>5. Begins(g, w5)
      BY <1>8, <2>4, JoinBegins
    <2> QED  BY <2>1, <2>2, <2>3, <2>4, <2>5
  <1>15. \A i \in 1 .. Len(g) : w5[i] = g[i]
    BY <1>14 DEF Begins
  <1>16. \A i \in 1 .. Len(f) : w5[Len(g) + i] = f[i]
    <2> SUFFICES ASSUME NEW i \in 1 .. Len(f) PROVE w5[Len(g) + i] = f[i]
      OBVIOUS
    <2>1. Len(g) + i \in 1 .. Len(w1)
      BY <1>7, <1>13
    <2>2. w5[Len(g) + i] = w1[Len(g) + i]
      BY <1>14, <2>1 DEF Begins
    <2> QED  BY <1>8, <2>2 DEF Joined
  <1>17. w5[o + 1] = "-" /\ w5[o + 2] = "-" /\ w5[o + 3] = "b"
    <2>1. \A i \in 1 .. Len(w2) : w5[i] = w2[i]
      BY <1>14 DEF Begins
    <2>2. w2[Len(w1) + 1] = a[1] /\ w2[Len(w1) + 2] = a[2] /\ w2[Len(w1) + 3] = a[3]
      BY <1>4, <1>9 DEF Joined
    <2>3. w2[o + 1] = "-" /\ w2[o + 2] = "-" /\ w2[o + 3] = "b"
      BY <1>4, <1>13, <2>2
    <2>4. o + 1 \in 1 .. Len(w2) /\ o + 2 \in 1 .. Len(w2) /\ o + 3 \in 1 .. Len(w2)
      BY <1>7, <1>13
    <2> QED  BY <2>1, <2>3, <2>4
  <1>18. w5[o + 4] = "-" /\ w5[o + 5] = "-"
    <2>1. \A i \in 1 .. Len(w3) : w5[i] = w3[i]
      BY <1>14 DEF Begins
    <2>2. w3[Len(w2) + 1] = z[1] /\ w3[Len(w2) + 2] = z[2]
      BY <1>6, <1>10 DEF Joined
    <2> QED  BY <1>6, <1>7, <1>13, <2>1, <2>2, SMTT(30)
  <1>19. /\ w5 \in Seq(Byte) /\ Len(w5) = Len(w4) + Len(message.rest) /\ Len(w5) \in Nat
         /\ Len(message.rest) \in Nat
         /\ \A i \in 1 .. Len(message.rest) : w5[Len(w4) + i] = message.rest[i]
    <2>1. w5 \in Seq(Byte) /\ Len(w5) = Len(w4) + Len(message.rest) /\ Len(message.rest) \in Nat
          /\ \A i \in 1 .. Len(message.rest) : w5[Len(w4) + i] = message.rest[i]
      BY <1>12 DEF Joined
    <2> QED  BY <2>1, LenProperties
  <1> QED  BY <1>1, <1>3, <1>7, <1>13, <1>15, <1>16, <1>17, <1>18, <1>19 DEF o, f

(* Part k + 1, where it stands in the wire.                                *)
LEMMA PartAt ==
    ASSUME message \in Messages, ~Chunked, NEW k \in 0 .. Count - 1
    PROVE  LET d == message.body[k + 1].data
               h == message.body[k + 1].header
               o == PartOffset(k) IN
           /\ d \in Seq(Byte) /\ Len(d) \in Nat /\ h \in Headers /\ h \in Byte /\ Plain(d)
           /\ o \in Nat /\ PartOffset(k + 1) = o + Len(d) + 12
           /\ PartOffset(k + 1) <= PartOffset(Count)
           /\ Wire[o + 1] = "-" /\ Wire[o + 2] = "-" /\ Wire[o + 3] = "b"
           /\ Wire[o + 4] = "cr" /\ Wire[o + 5] = "lf" /\ Wire[o + 6] = h
           /\ Wire[o + 7] = "cr" /\ Wire[o + 8] = "lf" /\ Wire[o + 9] = "cr" /\ Wire[o + 10] = "lf"
           /\ \A i \in 1 .. Len(d) : Wire[o + 10 + i] = d[i]
           /\ Wire[o + Len(d) + 11] = "cr" /\ Wire[o + Len(d) + 12] = "lf"
  <1> DEFINE q == message.body[k + 1]
             d == q.data
             h == q.header
             o == PartOffset(k)
             p == PartOffset(k + 1)
             w == PartWire(q)
             g == Len(message.preamble)
             n == Len(Firsts(PartFamily, k))
             f == Firsts(PartFamily, Count)
  <1>1. k \in 0 .. Count /\ k + 1 \in 1 .. Count /\ k + 1 \in 0 .. Count /\ Count \in 0 .. Count
        /\ Count \in Nat
    BY MultipartIs
  <1>2. d \in Seq(Byte) /\ Len(d) \in Nat /\ h \in Headers /\ h \in Byte /\ Plain(d)
    BY <1>1, MultipartIs
  <1>3. PartReads(w, h, d)
    BY <1>2, PartType
  <1>4. PartFamily[k + 1] = w
    BY <1>1 DEF PartFamily
  <1>5. /\ g \in Nat /\ o \in Nat /\ n \in Nat /\ o = g + n
        /\ p = g + Len(Firsts(PartFamily, k + 1))
        /\ PartOffset(Count) = g + Len(f) /\ Len(f) \in Nat
    BY <1>1, PartFamilyType
  <1>6. /\ Len(Firsts(PartFamily, k + 1)) = n + Len(w) /\ n + Len(w) <= Len(f)
        /\ \A j \in 1 .. Len(w) : f[n + j] = w[j]
    <2>1. PartFamily \in [1 .. Count -> Seq(Byte)]
      BY PartFamilyType
    <2>2. FoundAt(PartFamily, Count, k)
      BY <1>1, <2>1, FirstsAt
    <2> QED  BY <1>4, <2>2 DEF FoundAt
  <1>7. \A i \in 1 .. Len(f) : Wire[g + i] = f[i]
    BY PartsEndAt
  <1>8. Len(w) = Len(d) + 12
    BY <1>3 DEF PartReads
  <1> HIDE DEF q, d, h, o, p, w, g, n, f
  <1>9. \A j \in 1 .. Len(d) + 12 : Wire[o + j] = w[j]
    <2> SUFFICES ASSUME NEW j \in 1 .. Len(d) + 12 PROVE Wire[o + j] = w[j]
      OBVIOUS
    <2>1. n + j \in 1 .. Len(f) /\ o + j = g + (n + j)
      BY <1>2, <1>5, <1>6, <1>8
    <2> QED  BY <1>6, <1>7, <1>8, <2>1
  <1>10. p = o + Len(d) + 12 /\ p <= PartOffset(Count)
    <2> DEFINE m == Len(Firsts(PartFamily, k + 1))
               c == PartOffset(Count)
    <2> HIDE DEF m, c
    <2>1. m = n + (Len(d) + 12) /\ m <= Len(f) /\ p = g + m
      BY <1>5, <1>6, <1>8 DEF m
    <2>2. c = g + Len(f)
      BY <1>5 DEF c
    <2>3. p = o + Len(d) + 12 /\ p <= c
      BY <1>2, <1>5, <2>1, <2>2
    <2> QED  BY <2>3 DEF c
  <1>11. \A i \in 1 .. Len(d) : Wire[o + 10 + i] = d[i]
    <2> SUFFICES ASSUME NEW i \in 1 .. Len(d) PROVE Wire[o + 10 + i] = d[i]
      OBVIOUS
    <2>1. 10 + i \in 1 .. Len(d) + 12 /\ o + (10 + i) = o + 10 + i
      BY <1>2, <1>5
    <2>2. w[10 + i] = d[i]
      BY <1>3 DEF PartReads
    <2> QED  BY <1>9, <2>1, <2>2
  <1>12. Wire[o + Len(d) + 11] = "cr" /\ Wire[o + Len(d) + 12] = "lf"
    <2>1. /\ Len(d) + 11 \in 1 .. Len(d) + 12 /\ Len(d) + 12 \in 1 .. Len(d) + 12
          /\ o + (Len(d) + 11) = o + Len(d) + 11 /\ o + (Len(d) + 12) = o + Len(d) + 12
      BY <1>2, <1>5
    <2>2. w[Len(d) + 11] = "cr" /\ w[Len(d) + 12] = "lf"
      BY <1>3 DEF PartReads
    <2> QED  BY <1>9, <2>1, <2>2
  <1>13. \A j \in 1 .. 10 : Wire[o + j] = w[j]
    BY <1>2, <1>9
  <1>14. /\ Wire[o + 1] = "-" /\ Wire[o + 2] = "-" /\ Wire[o + 3] = "b"
         /\ Wire[o + 4] = "cr" /\ Wire[o + 5] = "lf" /\ Wire[o + 6] = h
         /\ Wire[o + 7] = "cr" /\ Wire[o + 8] = "lf" /\ Wire[o + 9] = "cr" /\ Wire[o + 10] = "lf"
    BY <1>3, <1>13 DEF PartReads
  <1> QED  BY <1>2, <1>5, <1>10, <1>11, <1>12, <1>14 DEF q, d, h, o, p

(* No delimiter occurs in the data of a part.                              *)
LEMMA PlainIs ==
    ASSUME NEW d \in Seq(Byte), Plain(d), NEW i \in Nat
    PROVE  ~DelimiterAt(d, i)
  <1>1. 0 \in Nat /\ 0 <= i
    OBVIOUS
  <1>2. Find(d, Parts!Delimiter, 0) \notin Nat
    BY DEF Plain, NotFound
  <1> QED  BY <1>1, <1>2, FindDelimiter

(* Delimiters stand before each part and behind the last one, and nowhere  *)
(* else where a decoder looks for them.                                    *)
LEMMA DelimiterHere ==
    ASSUME message \in Messages, ~Chunked, NEW k \in 0 .. Count
    PROVE  LET o == PartOffset(k) IN
           /\ o \in Nat /\ o + 5 <= Len(BodyWire(message)) /\ DelimiterAt(Wire, o)
           /\ Len(BodyWire(message)) <= Len(Wire)
           /\ k = Count => Wire[o + 4] = "-" /\ Wire[o + 5] = "-"
           /\ k # Count => Wire[o + 4] = "cr" /\ Wire[o + 5] = "lf"
  <1> DEFINE o == PartOffset(k)
             m == Len(BodyWire(message))
  <1>1. /\ Count \in Nat /\ Len(Wire) \in Nat /\ PartOffset(Count) \in Nat
        /\ m = PartOffset(Count) + 7 /\ m <= Len(Wire)
    <2>1. Count \in Nat
      BY MultipartIs
    <2>2. /\ m = PartOffset(Count) + 7 /\ Len(message.rest) \in Nat /\ PartOffset(Count) \in Nat
          /\ Len(Wire) = m + Len(message.rest)
      BY PartsEndAt
    <2> HIDE DEF m
    <2> QED  BY <2>1, <2>2
  <1>2. CASE k = Count
    <2>1. /\ o \in Nat /\ m = o + 7 /\ m <= Len(Wire)
          /\ Wire[o + 1] = "-" /\ Wire[o + 2] = "-" /\ Wire[o + 3] = "b"
          /\ Wire[o + 4] = "-" /\ Wire[o + 5] = "-"
      BY <1>1, <1>2, PartsEndAt
    <2> HIDE DEF o, m
    <2> QED  BY <1>1, <1>2, <2>1 DEF o, m, DelimiterAt
  <1>3. CASE k # Count
    <2>0. k \in 0 .. Count - 1
      BY <1>1, <1>3
    <2>1. /\ o \in Nat /\ PartOffset(k + 1) = o + Len(message.body[k + 1].data) + 12
          /\ Len(message.body[k + 1].data) \in Nat /\ PartOffset(k + 1) <= PartOffset(Count)
          /\ Wire[o + 1] = "-" /\ Wire[o + 2] = "-" /\ Wire[o + 3] = "b"
          /\ Wire[o + 4] = "cr" /\ Wire[o + 5] = "lf"
      BY <2>0, PartAt
    <2> HIDE DEF o, m
    <2>2. o + 12 <= PartOffset(Count)
      <3> DEFINE x == PartOffset(k + 1)
                 y == Len(message.body[k + 1].data)
                 z == PartOffset(Count)
      <3>1. x = o + y + 12 /\ y \in Nat /\ o \in Nat /\ x <= z /\ z \in Nat
        BY <1>1, <2>1
      <3> HIDE DEF x, y, z
      <3>2. o + 12 <= z
        BY <3>1
      <3> QED  BY <3>2 DEF z
    <2>3. o + 5 <= m /\ o + 3 <= Len(Wire)
      BY <1>1, <2>1, <2>2, SMTT(30)
    <2> QED  BY <1>1, <1>3, <2>1, <2>3 DEF o, m, DelimiterAt
  <1> QED  BY <1>2, <1>3

(* No delimiter occurs in the wire before the first part.                  *)
LEMMA NoneBefore ==
    ASSUME message \in Messages, ~Chunked, NEW i \in Nat, i < PartOffset(0)
    PROVE  ~DelimiterAt(Wire, i)
  <1> DEFINE g == message.preamble
             o == PartOffset(0)
  <1>1. g \in Seq(Byte) /\ Plain(g) /\ Len(g) = o /\ o \in Nat /\ 0 \in 0 .. Count
    <2>1. g \in Seq(Byte) /\ Plain(g) /\ Count \in Nat
      BY MultipartIs
    <2> QED  BY <2>1, PartFamilyType
  <1>2. \A j \in 1 .. Len(g) : Wire[j] = g[j]
    BY PartsEndAt
  <1>3. Wire[o + 1] = "-" /\ Wire[o + 2] = "-"
    BY <1>1, DelimiterHere DEF DelimiterAt
  <1> HIDE DEF g
  <1>4. SUFFICES ASSUME DelimiterAt(Wire, i) PROVE FALSE
    OBVIOUS
  <1>5. Wire[i + 1] = "-" /\ Wire[i + 2] = "-" /\ Wire[i + 3] = "b"
    BY <1>4 DEF DelimiterAt
  <1> DEFINE p == PartOffset(0)
  <1>6. i < p /\ p = o
    OBVIOUS
  <1> HIDE DEF o, p
  <1>7. CASE i + 3 <= o
    <2>1. DelimiterAt(g, i)
      <3>1. i + 1 \in 1 .. Len(g) /\ i + 2 \in 1 .. Len(g) /\ i + 3 \in 1 .. Len(g)
        BY <1>1, <1>7
      <3> QED  BY <1>1, <1>2, <1>5, <1>7, <3>1 DEF DelimiterAt
    <2> QED  BY <1>1, <2>1, PlainIs
  <1>8. CASE i + 3 > o
    <2>1. i + 3 = o + 1 \/ i + 3 = o + 2
      BY <1>1, <1>6, <1>8
    <2> QED  BY <1>3, <1>5, <2>1
  <1> QED  BY <1>1, <1>7, <1>8

(* Between the headers of a part and the delimiter after it no other       *)
(* delimiter begins, not even across the line break that ends the data.    *)
LEMMA NoneWithin ==
    ASSUME message \in Messages, ~Chunked, NEW k \in 0 .. Count - 1, NEW i \in Nat,
           PartOffset(k) + 10 <= i, i < PartOffset(k + 1)
    PROVE  ~DelimiterAt(Wire, i)
  <1> DEFINE d == message.body[k + 1].data
             o == PartOffset(k) + 10
             p == PartOffset(k + 1)
  <1>1. /\ d \in Seq(Byte) /\ Len(d) \in Nat /\ Plain(d) /\ o \in Nat /\ p = o + Len(d) + 2
        /\ \A j \in 1 .. Len(d) : Wire[o + j] = d[j]
        /\ Wire[o + Len(d) + 1] = "cr" /\ Wire[o + Len(d) + 2] = "lf"
    <2> DEFINE q == PartOffset(k)
    <2>1. /\ d \in Seq(Byte) /\ Len(d) \in Nat /\ Plain(d) /\ q \in Nat /\ p = q + Len(d) + 12
          /\ \A j \in 1 .. Len(d) : Wire[q + 10 + j] = d[j]
          /\ Wire[q + Len(d) + 11] = "cr" /\ Wire[q + Len(d) + 12] = "lf"
      BY PartAt
    <2> HIDE DEF q, d, p
    <2>2. q + Len(d) + 11 = (q + 10) + Len(d) + 1 /\ q + Len(d) + 12 = (q + 10) + Len(d) + 2
      BY <2>1
    <2>3. o = q + 10
      BY DEF q
    <2> HIDE DEF o
    <2> QED  BY <2>1, <2>2, <2>3
  <1>2. Wire[p + 1] = "-" /\ Wire[p + 2] = "-"
    <2>1. k + 1 \in 0 .. Count
      BY MultipartIs
    <2> QED  BY <2>1, DelimiterHere DEF DelimiterAt
  <1>3. SUFFICES ASSUME DelimiterAt(Wire, i) PROVE FALSE
    OBVIOUS
  <1>4. Wire[i + 1] = "-" /\ Wire[i + 2] = "-" /\ Wire[i + 3] = "b"
    BY <1>3 DEF DelimiterAt
  <1>5. o <= i /\ i < p
    OBVIOUS
  <1> HIDE DEF d, o, p
  <1>6. CASE i + 3 <= o + Len(d)
    <2> DEFINE j == i - o
    <2>1. /\ j \in Nat /\ j + 3 <= Len(d) /\ o + (j + 1) = i + 1 /\ o + (j + 2) = i + 2
          /\ o + (j + 3) = i + 3
          /\ j + 1 \in 1 .. Len(d) /\ j + 2 \in 1 .. Len(d) /\ j + 3 \in 1 .. Len(d)
      BY <1>1, <1>5, <1>6
    <2> HIDE DEF j
    <2>2. DelimiterAt(d, j)
      BY <1>1, <1>4, <2>1 DEF DelimiterAt
    <2> QED  BY <1>1, <2>1, <2>2, PlainIs
  <1>7. CASE i + 3 > o + Len(d)
    <2>1. \/ i + 3 = o + Len(d) + 1 \/ i + 3 = o + Len(d) + 2
          \/ i + 3 = p + 1 \/ i + 3 = p + 2
      BY <1>1, <1>5, <1>7, SMTT(30)
    <2> QED  BY <1>1, <1>2, <1>4, <2>1
  <1> QED  BY <1>1, <1>6, <1>7

(* A search in a window of the wire: s holds it from its byte from + 1 on. *)
Window(s, from, base) ==
    /\ s \in Seq(Byte) /\ Len(s) \in Nat /\ from \in 0 .. Len(s) /\ base \in Int
    /\ base + from \in Nat /\ base + Len(s) <= Len(Wire)
    /\ \A i \in from + 1 .. Len(s) : s[i] = Wire[base + i]

(* A search in the part of the wire that is buffered finds the wire's next *)
(* delimiter, once all three of its bytes are there.                       *)
LEMMA DelimiterInWindow ==
    ASSUME Wire \in Seq(Byte), NEW s, NEW from, NEW base, Window(s, from, base),
           NEW d \in Nat, base + from <= d, DelimiterAt(Wire, d),
           \A i \in Nat : base + from <= i /\ i < d => ~DelimiterAt(Wire, i)
    PROVE  LET f == Find(s, Parts!Delimiter, from) IN
           \/ f = NotFound /\ base + Len(s) < d + 3
           \/ f = d - base /\ f \in Nat /\ from <= f /\ f + 3 <= Len(s)
  <1> DEFINE f == Find(s, Parts!Delimiter, from)
  <1>1. /\ s \in Seq(Byte) /\ Len(s) \in Nat /\ from \in Nat /\ from <= Len(s) /\ base \in Int
        /\ base + from \in Nat /\ base + Len(s) <= Len(Wire) /\ Len(Wire) \in Nat
        /\ \A i \in from + 1 .. Len(s) : s[i] = Wire[base + i]
    BY LenProperties DEF Window
  <1>2. \/ f = NotFound /\ \A i \in Nat : from <= i => ~DelimiterAt(s, i)
        \/ f \in Nat /\ from <= f /\ DelimiterAt(s, f)
             /\ \A i \in Nat : from <= i /\ DelimiterAt(s, i) => f <= i
    BY <1>1, FindDelimiter
  <1> HIDE DEF f
  <1>3. \A i \in Nat : from <= i =>
           (DelimiterAt(s, i) <=> i + 3 <= Len(s) /\ DelimiterAt(Wire, base + i))
    <2> SUFFICES ASSUME NEW i \in Nat, from <= i
                 PROVE  DelimiterAt(s, i) <=> i + 3 <= Len(s) /\ DelimiterAt(Wire, base + i)
      OBVIOUS
    <2>1. i + 3 <= Len(s) =>
             /\ s[i + 1] = Wire[base + i + 1] /\ s[i + 2] = Wire[base + i + 2]
             /\ s[i + 3] = Wire[base + i + 3] /\ base + i + 3 <= Len(Wire)
      <3> SUFFICES ASSUME i + 3 <= Len(s)
                   PROVE  /\ s[i + 1] = Wire[base + i + 1] /\ s[i + 2] = Wire[base + i + 2]
                          /\ s[i + 3] = Wire[base + i + 3] /\ base + i + 3 <= Len(Wire)
        OBVIOUS
      <3>1. /\ i + 1 \in from + 1 .. Len(s) /\ i + 2 \in from + 1 .. Len(s)
            /\ i + 3 \in from + 1 .. Len(s) /\ base + (i + 1) = base + i + 1
            /\ base + (i + 2) = base + i + 2 /\ base + (i + 3) = base + i + 3
            /\ base + i + 3 <= Len(Wire)
        BY <1>1
      <3> QED  BY <1>1, <3>1
    <2> QED  BY <2>1 DEF DelimiterAt
  <1>4. d - base \in Nat /\ from <= d - base /\ base + (d - base) = d
    BY <1>1
  <1>5. CASE f = NotFound
    <2>1. ~DelimiterAt(s, d - base)
      BY <1>2, <1>4, <1>5 DEF NotFound
    <2>2. ~(d - base + 3 <= Len(s))
      BY <1>3, <1>4, <2>1
    <2>3. base + Len(s) < d + 3
      BY <1>1, <1>4, <2>2
    <2> QED  BY <1>5, <2>3 DEF f
  <1>6. CASE f # NotFound
    <2>1. f \in Nat /\ from <= f /\ DelimiterAt(s, f)
      BY <1>2, <1>6
    <2>2. f + 3 <= Len(s) /\ DelimiterAt(Wire, base + f)
      BY <1>3, <2>1
    <2>3. base + f \in Nat /\ base + from <= base + f
      BY <1>1, <2>1
    <2>4. ~(base + f < d)
      BY <2>2, <2>3
    <2>5. d - base <= f
      BY <1>1, <2>1, <2>4
    <2>6. DelimiterAt(s, d - base)
      <3>1. d - base + 3 <= Len(s)
        BY <1>1, <1>4, <2>1, <2>2, <2>5
      <3> QED  BY <1>3, <1>4, <3>1
    <2>7. f <= d - base
      BY <1>2, <1>4, <1>6, <2>6
    <2>8. f = d - base
      BY <1>4, <2>1, <2>5, <2>7
    <2> QED  BY <2>1, <2>2, <2>8 DEF f
  <1> QED  BY <1>5, <1>6

(* A search from the name of a part finds the end of its headers, once it  *)
(* is there.                                                               *)
LEMMA HeaderInWindow ==
    ASSUME message \in Messages, ~Chunked, NEW k \in 0 .. Count - 1,
           NEW s, NEW from, NEW base, Window(s, from, base), base + from = PartOffset(k) + 5
    PROVE  LET f == Find(s, Parts!HeaderSep, from) IN
           \/ f = NotFound /\ base + Len(s) < PartOffset(k) + 10
           \/ f = from + 1 /\ f \in Nat /\ from + 5 <= Len(s)
  <1> DEFINE f == Find(s, Parts!HeaderSep, from)
             o == PartOffset(k)
             h == message.body[k + 1].header
  <1>1. /\ s \in Seq(Byte) /\ Len(s) \in Nat /\ from \in Nat /\ from <= Len(s) /\ base \in Int
        /\ \A i \in from + 1 .. Len(s) : s[i] = Wire[base + i]
    BY DEF Window
  <1>2. /\ o \in Nat /\ h # "cr"
        /\ Wire[o + 6] = h /\ Wire[o + 7] = "cr" /\ Wire[o + 8] = "lf"
        /\ Wire[o + 9] = "cr" /\ Wire[o + 10] = "lf"
    BY PartAt DEF Headers
  <1>3. \/ f = NotFound /\ \A i \in Nat : from <= i => ~HeaderSepAt(s, i)
        \/ f \in Nat /\ from <= f /\ HeaderSepAt(s, f)
             /\ \A i \in Nat : from <= i /\ HeaderSepAt(s, i) => f <= i
    BY <1>1, FindHeaderSep
  <1>0. base + from = o + 5
    OBVIOUS
  <1> HIDE DEF f, o, h
  <1>4. /\ base + (from + 1) = o + 6 /\ base + (from + 2) = o + 7 /\ base + (from + 3) = o + 8
        /\ base + (from + 4) = o + 9 /\ base + (from + 5) = o + 10
    BY <1>0, <1>1, <1>2
  <1>5. ~HeaderSepAt(s, from)
    <2>1. from + 1 <= Len(s) => s[from + 1] = h
      <3>1. from + 1 <= Len(s) => from + 1 \in from + 1 .. Len(s)
        BY <1>1
      <3> QED  BY <1>1, <1>2, <1>4, <3>1
    <2>2. HeaderSepAt(s, from) => from + 2 <= Len(s) /\ s[from + 1] = "cr"
      BY DEF HeaderSepAt, CrlfAt
    <2>3. from + 2 <= Len(s) => from + 1 <= Len(s)
      BY <1>1
    <2> QED  BY <1>2, <2>1, <2>2, <2>3
  <1>6. HeaderSepAt(s, from + 1) <=> from + 5 <= Len(s)
    <2> DEFINE g == from + 1
    <2>1. HeaderSepAt(s, g) <=> /\ g + 2 <= Len(s) /\ s[g + 1] = "cr" /\ s[g + 2] = "lf"
                                /\ (g + 2) + 2 <= Len(s)
                                /\ s[(g + 2) + 1] = "cr" /\ s[(g + 2) + 2] = "lf"
      BY DEF HeaderSepAt, CrlfAt
    <2>2. /\ g + 1 = from + 2 /\ g + 2 = from + 3 /\ (g + 2) + 1 = from + 4
          /\ (g + 2) + 2 = from + 5
      BY <1>1
    <2>3. from + 5 <= Len(s) => /\ s[from + 2] = "cr" /\ s[from + 3] = "lf"
                                /\ s[from + 4] = "cr" /\ s[from + 5] = "lf"
                                /\ from + 3 <= Len(s)
      <3> SUFFICES ASSUME from + 5 <= Len(s)
                   PROVE  /\ s[from + 2] = "cr" /\ s[from + 3] = "lf"
                          /\ s[from + 4] = "cr" /\ s[from + 5] = "lf"
                          /\ from + 3 <= Len(s)
        OBVIOUS
      <3>1. /\ from + 2 \in from + 1 .. Len(s) /\ from + 3 \in from + 1 .. Len(s)
            /\ from + 4 \in from + 1 .. Len(s) /\ from + 5 \in from + 1 .. Len(s)
            /\ from + 3 <= Len(s)
        BY <1>1
      <3> QED  BY <1>1, <1>2, <1>4, <3>1
    <2> HIDE DEF g
    <2>4. HeaderSepAt(s, g) <=> from + 5 <= Len(s)
      BY <2>1, <2>2, <2>3
    <2> QED  BY <2>4 DEF g
  <1>7. CASE f = NotFound
    <2>1. ~HeaderSepAt(s, from + 1)
      BY <1>1, <1>3, <1>7 DEF NotFound
    <2>2. base + Len(s) < o + 10
      BY <1>1, <1>2, <1>4, <1>6, <2>1
    <2> QED  BY <1>7, <2>2 DEF f, o
  <1>8. CASE f # NotFound
    <2>1. f \in Nat /\ from <= f /\ HeaderSepAt(s, f) /\ f # from
      BY <1>3, <1>5, <1>8
    <2>2. f + 4 <= Len(s)
      <3>1. (f + 2) + 2 <= Len(s)
        BY <2>1 DEF HeaderSepAt, CrlfAt
      <3> QED  BY <2>1, <3>1
    <2>3. from + 5 <= Len(s)
      BY <1>1, <2>1, <2>2
    <2>4. f <= from + 1
      BY <1>1, <1>3, <1>6, <1>8, <2>3
    <2>5. f = from + 1
      BY <1>1, <2>1, <2>4
    <2> QED  BY <2>1, <2>3, <2>5 DEF f
  <1> QED  BY <1>7, <1>8

-----------------------------------------------------------------------------
(* Files.                                                                  *)

(* The module of the parts counts as the proofs do.                        *)
LEMMA SameCardinality == \A S : Parts!Cardinality(S) = Cardinality(S)
  BY DEF Parts!Cardinality, Cardinality

(* get_unique_path finds a name that no file has: of n + 1 names one is    *)
(* not among n files.                                                      *)
LEMMA FreshName ==
    ASSUME IsFiniteSet(DOMAIN disk), NEW base
    PROVE  /\ Parts!UniqueName(base) \notin DOMAIN disk
           /\ \E n \in Nat : Parts!UniqueName(base) = <<base, n>>
  <1> DEFINE D == DOMAIN disk
             c == Cardinality(D)
             K == {k \in 0 .. c : <<base, k>> \notin D}
             f == [k \in 0 .. c |-> <<base, k>>]
  <1>1. c \in Nat /\ IsFiniteSet(0 .. c) /\ Cardinality(0 .. c) = c + 1
    <2>1. c \in Nat
      BY FS_CardinalityType
    <2> HIDE DEF c
    <2>2. IsFiniteSet(0 .. c) /\ Cardinality(0 .. c) = IF 0 > c THEN 0 ELSE c - 0 + 1
      BY <2>1, FS_Interval
    <2> QED  BY <2>1, <2>2
  <1>2. K # {}
    <2> SUFFICES ASSUME K = {} PROVE FALSE
      OBVIOUS
    <2>1. f \in [0 .. c -> D]
      OBVIOUS
    <2>2. c < Cardinality(0 .. c)
      <3> HIDE DEF c
      <3> QED  BY <1>1
    <2>3. \E x, y \in 0 .. c : x # y /\ f[x] = f[y]
      <3> DEFINE I == 0 .. c
      <3>1. IsFiniteSet(I) /\ IsFiniteSet(D) /\ Cardinality(D) < Cardinality(I) /\ f \in [I -> D]
        BY <1>1, <2>1, <2>2
      <3> HIDE DEF I, D, f, c
      <3>2. \E x, y \in I : x # y /\ f[x] = f[y]
        BY <3>1, FS_PigeonHole
      <3> QED  BY <3>2 DEF I
    <2> QED  BY <2>3
  <1>3. K \in SUBSET Nat
    BY <1>1
  <1> HIDE DEF K, f
  <1>4. \E i \in K : \A j \in K : i <= j
    BY <1>2, <1>3, LeastOf
  <1>5. Parts!Min(K) \in K
    BY <1>4 DEF Parts!Min
  <1>6. Parts!UniqueName(base) = <<base, Parts!Min(K)>>
    BY SameCardinality DEF Parts!UniqueName, K
  <1> QED  BY <1>3, <1>5, <1>6 DEF K

(* What a write leaves.                                                    *)
AppendedTo(d, file, data) ==
    /\ DOMAIN d = DOMAIN disk \cup {file}
    /\ \A f \in DOMAIN disk : f # file => d[f] = disk[f]
    /\ d[file] = (IF file \in DOMAIN disk THEN disk[file] ELSE <<>>) \o data
    /\ IsFiniteSet(DOMAIN disk) => IsFiniteSet(DOMAIN d)

(* What append_to_file leaves in a file: what it held, if it was there,    *)
(* and then the data.                                                      *)
LEMMA Appends ==
    ASSUME NEW file, NEW data
    PROVE  AppendedTo(Parts!Appended(file, data), file, data)
  <1>1. IsFiniteSet(DOMAIN disk) => IsFiniteSet(DOMAIN disk \cup {file})
    BY FS_AddElement
  <1> QED  BY <1>1 DEF AppendedTo, Parts!Appended

(* The file a part is written to.                                          *)
LEMMA Targets ==
    ASSUME IsFiniteSet(DOMAIN disk), NamesInv, upload \in Uploads,
           NEW base \in Byte \cup {"tmp_upload"}, base # ""
    PROVE  LET file == Parts!Target(base) IN
           /\ file \in FileName /\ file # Parts!NoFile
           /\ upload.current_file = Parts!NoFile => file \notin DOMAIN disk
           /\ upload.current_file # Parts!NoFile => file = upload.current_file
           /\ ~lost => /\ file \notin others
                       /\ \A i \in DOMAIN upload.saved_filenames : upload.saved_filenames[i] # file
                       /\ upload.current_file # Parts!NoFile => file \in DOMAIN disk
  <1> DEFINE file == Parts!Target(base)
             u == Parts!UniqueName(base)
  <1>1. u \notin DOMAIN disk /\ \E n \in Nat : u = <<base, n>>
    BY FreshName
  <1>2. u \in FileName /\ u # Parts!NoFile
    <2>1. PICK n \in Nat : u = <<base, n>>
      BY <1>1
    <2> HIDE DEF u
    <2>2. u # <<"", 0>>
      BY <2>1
    <2> QED  BY <2>1, <2>2 DEF FileName, Parts!NoFile
  <1>3. file = IF upload.current_file = Parts!NoFile THEN u ELSE upload.current_file
    BY DEF Parts!Target
  <1>4. upload.current_file \in FileName
    BY DEF Uploads
  <1> HIDE DEF u, file
  <1>5. CASE upload.current_file = Parts!NoFile
    BY <1>1, <1>2, <1>3, <1>5 DEF NamesInv, file
  <1>6. CASE upload.current_file # Parts!NoFile
    BY <1>3, <1>4, <1>6 DEF NamesInv, file
  <1> QED  BY <1>5, <1>6

(* Neither the wire nor the files a client meant change while the message  *)
(* does not.                                                               *)
LEMMA SameParts ==
    ASSUME message' = message
    PROVE  /\ Wire' = Wire /\ Count' = Count /\ Chunked' = Chunked
           /\ BodyWire(message)' = BodyWire(message)
           /\ \A k : PartOffset(k)' = PartOffset(k) /\ FilesBefore(k)' = FilesBefore(k)
  BY DEF Wire, Count, Chunked, PartOffset, FilesBefore

FileFamily == [i \in 1 .. Count |->
                  IF message.body[i].header = Parts!Field THEN <<>> ELSE <<message.body[i]>>]
PartSet == [header : Headers, data : Seq(Byte)]

(* The files of one part more.                                             *)
LEMMA FilesGrow ==
    ASSUME message \in Messages, ~Chunked, NEW k \in 0 .. Count
    PROVE  /\ FilesBefore(k) \in Seq(PartSet) /\ Len(FilesBefore(k)) \in Nat
           /\ FilesBefore(0) = <<>>
           /\ FilesBefore(Count) = FileParts
           /\ Begins(FilesBefore(k), FileParts)
           /\ k < Count /\ message.body[k + 1].header = Parts!Field =>
                 FilesBefore(k + 1) = FilesBefore(k)
           /\ k < Count /\ message.body[k + 1].header # Parts!Field =>
                 /\ Len(FilesBefore(k + 1)) = Len(FilesBefore(k)) + 1
                 /\ FilesBefore(k + 1)[Len(FilesBefore(k)) + 1] = message.body[k + 1]
                 /\ \A i \in 1 .. Len(FilesBefore(k)) : FilesBefore(k + 1)[i] = FilesBefore(k)[i]
                 /\ Begins(FilesBefore(k + 1), FileParts)
  <1> DEFINE F == FileFamily
             P == PartSet
  <1>1. Count \in Nat /\ DOMAIN message.body = 1 .. Count
        /\ \A i \in 1 .. Count : message.body[i] \in P
    <2>1. message.body \in Seq(P)
      BY MultipartIs DEF Multiparts, PartSet
    <2>2. Count \in Nat /\ DOMAIN message.body = 1 .. Count /\ Count = Len(message.body)
      BY MultipartIs DEF Count
    <2> HIDE DEF P
    <2> QED  BY <2>1, <2>2, ElementOfSeq
  <1> HIDE DEF P
  <1>2. F \in [1 .. Count -> Seq(P)]
    <2>1. \A i \in 1 .. Count : (IF message.body[i].header = Parts!Field THEN <<>> ELSE <<message.body[i]>>) \in Seq(P)
      BY <1>1
    <2> QED  BY <2>1 DEF FileFamily
  <1>3. \A i \in 0 .. Count : FilesBefore(i) = Firsts(F, i)
    <2> SUFFICES ASSUME NEW i \in 0 .. Count PROVE FilesBefore(i) = Firsts(F, i)
      OBVIOUS
    <2>1. [j \in 1 .. i |-> IF message.body[j].header = Parts!Field THEN <<>> ELSE <<message.body[j]>>]
          = [j \in 1 .. i |-> F[j]]
      BY <1>1 DEF FileFamily
    <2> QED  BY <2>1 DEF FilesBefore, Firsts
  <1>4. FileParts = FilesBefore(Count)
    BY <1>1 DEF FileParts, FilesBefore
  <1>5. k < Count => F[k + 1] = IF message.body[k + 1].header = Parts!Field THEN <<>> ELSE <<message.body[k + 1]>>
    BY <1>1 DEF FileFamily
  <1> HIDE DEF F
  <1>6. k < Count => k + 1 \in 0 .. Count
    BY <1>1
  <1>7. Count \in 0 .. Count /\ 0 \in 0 .. Count
    BY <1>1
  <1>8. Firsts(F, k) \in Seq(P) /\ (k < Count => Firsts(F, k + 1) = Firsts(F, k) \o F[k + 1])
    BY <1>1, <1>2, FirstsGrow
  <1>9. Begins(FilesBefore(k), FileParts) /\ (k < Count => Begins(FilesBefore(k + 1), FileParts))
    <2>1. ASSUME NEW i \in 0 .. Count
          PROVE  Begins(Firsts(F, i), Firsts(F, Count))
      BY <1>1, <1>2, <1>7, FirstsBegin
    <2> QED  BY <1>3, <1>4, <1>6, <1>7, <2>1
  <1>10. FilesBefore(0) = <<>>
    <2>1. [i \in 1 .. 0 |-> F[i]] = <<>>
      OBVIOUS
    <2> QED  BY <1>3, <1>7, <2>1, FlattenEmpty DEF Firsts
  <1>11. FilesBefore(k) \in Seq(P) /\ Len(FilesBefore(k)) \in Nat
    BY <1>3, <1>8, LenProperties
  <1>12. k < Count /\ message.body[k + 1].header = Parts!Field => FilesBefore(k + 1) = FilesBefore(k)
    BY <1>3, <1>5, <1>6, <1>8, ConcatEmptySeq
  <1>13. ASSUME k < Count, message.body[k + 1].header # Parts!Field
         PROVE  /\ Len(FilesBefore(k + 1)) = Len(FilesBefore(k)) + 1
                /\ FilesBefore(k + 1)[Len(FilesBefore(k)) + 1] = message.body[k + 1]
                /\ \A i \in 1 .. Len(FilesBefore(k)) : FilesBefore(k + 1)[i] = FilesBefore(k)[i]
    <2> DEFINE a == FilesBefore(k)
               b == <<message.body[k + 1]>>
    <2>1. FilesBefore(k + 1) = a \o b
      BY <1>3, <1>5, <1>6, <1>8, <1>13
    <2>2. message.body[k + 1] \in P
      <3>1. k + 1 \in 1 .. Count
        BY <1>1, <1>13
      <3> QED  BY <1>1, <3>1
    <2>3. b \in Seq(P) /\ Len(b) = 1 /\ b[1] = message.body[k + 1]
      BY <2>2
    <2>4. a \in Seq(P) /\ Len(a) \in Nat
      BY <1>11
    <2> HIDE DEF a, b
    <2>5. /\ Len(a \o b) = Len(a) + Len(b)
          /\ \A i \in 1 .. Len(a) : (a \o b)[i] = a[i]
          /\ \A i \in 1 .. Len(b) : (a \o b)[Len(a) + i] = b[i]
      <3>1. a \in Seq(P) /\ b \in Seq(P)
        BY <2>3, <2>4
      <3> QED  BY <3>1, ConcatBegins
    <2> QED  BY <2>1, <2>3, <2>4, <2>5 DEF a
  <1> QED  BY <1>4, <1>9, <1>10, <1>11, <1>12, <1>13 DEF P

-----------------------------------------------------------------------------
(* The decoder of parts, turn by turn.                                     *)

AroundParts == UNCHANGED <<message, arrived, buffer, chunkVars, body_remaining, others>>

(* What a turn of the decoder of parts must establish, for some k, to keep *)
(* the invariant.                                                          *)
LEMMA PartsKept ==
    ASSUME BufferInv, ~Chunked, PartInv, AroundParts, upload' \in Uploads,
           IsFiniteSet(DOMAIN disk'), pc' \in {"upload", "fed"},
           \A i \in Position' + 1 .. Len(upload'.buffer) : upload'.buffer[i] = Wire[Base' + i],
           NEW k \in 0 .. Count, SavedInv(k)', PartPlace(k)'
    PROVE  BufferInv' /\ PartInv'
  <1>1. /\ UNCHANGED <<message, arrived, buffer, body_remaining>>
        /\ UNCHANGED <<chunk_state, remaining_size, cursor, total_body_read, cgi_buffer>>
    BY DEF AroundParts, chunkVars
  <1>2. BufferInv' /\ Used' = Used
    BY <1>1, BufferKept
  <1>3. Wire' = Wire /\ Count' = Count /\ BodyWire(message)' = BodyWire(message)
    BY <1>1, SameParts
  <1> QED  BY <1>1, <1>2, <1>3 DEF PartInv

(* The upload's buffer is a window of the wire.                            *)
LEMMA WindowOf ==
    ASSUME BufferInv, ~Chunked, PartInv, NEW k \in 0 .. Count, PartPlace(k)
    PROVE  /\ Window(upload.buffer, Position, Base)
           /\ Wire \in Seq(Byte) /\ Used \in Nat /\ Base \in Int /\ Len(upload.buffer) \in Nat
           /\ Used = Base + Len(upload.buffer) /\ PartOffset(k) \in Nat /\ message \in Messages
           /\ Count \in Nat /\ upload.buffer \in Seq(Byte)
  <1>1. message \in Messages /\ arrived \in Nat /\ Len(buffer) \in Nat /\ Used = arrived - Len(buffer)
        /\ Used >= 0 /\ arrived <= Len(Wire)
    BY BufferType DEF BufferInv, Used
  <1>2. Wire \in Seq(Byte) /\ Len(Wire) \in Nat /\ PartOffset(k) \in Nat /\ Count \in Nat
    BY <1>1, PartsEndAt, PartFamilyType
  <1>3. upload.buffer \in Seq(Byte) /\ Len(upload.buffer) \in Nat
        /\ \A i \in Position + 1 .. Len(upload.buffer) : upload.buffer[i] = Wire[Base + i]
    BY LenProperties DEF PartInv, Uploads
  <1>4. Base = Used - Len(upload.buffer)
    BY DEF Base
  <1>5. Used \in Nat /\ Used <= Len(Wire)
    BY <1>1, <1>2
  <1>6. Position \in 0 .. Len(upload.buffer) /\ Base + Position \in Nat
    <2>1. CASE AtDelimiter(k)
      BY <1>3, <2>1 DEF AtDelimiter, Position
    <2>2. CASE AtHeader(k)
      BY <1>2, <2>2 DEF AtHeader, Position
    <2>3. CASE k < Count /\ \E w \in 0 .. Len(message.body[k + 1].data) : AtPart(k, w)
      <3>1. PICK w \in 0 .. Len(message.body[k + 1].data) : AtPart(k, w)
        BY <2>3
      <3>2. Len(message.body[k + 1].data) \in Nat
        <4>1. k + 1 \in 1 .. Count
          BY <1>2, <2>3
        <4> QED  BY <1>1, <4>1, MultipartIs
      <3>3. w \in Nat
        BY <3>2
      <3> QED  BY <1>2, <3>1, <3>3 DEF AtPart, Position
    <2> QED  BY <2>1, <2>2, <2>3 DEF PartPlace
  <1> HIDE DEF Base, Used, Position
  <1>7. Base \in Int /\ Used = Base + Len(upload.buffer)
    BY <1>3, <1>4, <1>5
  <1>8. Window(upload.buffer, Position, Base)
    <2>1. Base + Len(upload.buffer) <= Len(Wire)
      BY <1>5, <1>7
    <2> QED  BY <1>3, <1>6, <1>7, <2>1 DEF Window
  <1> QED  BY <1>1, <1>2, <1>3, <1>5, <1>7, <1>8

(* Where the delimiter is looked for that a part begins with.              *)
LEMMA StartAt ==
    ASSUME BufferInv, ~Chunked, PartInv, NEW k \in 0 .. Count, AtDelimiter(k)
    PROVE  LET f == Parts!Start IN
           \/ f = NotFound /\ Used < PartOffset(k) + 3
           \/ f = PartOffset(k) - Base /\ f \in Nat /\ f + 3 <= Len(upload.buffer)
  <1> DEFINE s == upload.buffer
             o == PartOffset(k)
             f == Find(s, Parts!Delimiter, Position)
  <1>1. /\ Window(s, Position, Base) /\ Wire \in Seq(Byte) /\ Used = Base + Len(s) /\ o \in Nat
        /\ message \in Messages /\ Base \in Int
    BY WindowOf DEF PartPlace
  <1>2. Parts!Start = f /\ Position = 0 /\ Base \in 0 .. o /\ (k > 0 => Base = o)
    BY SameBytes DEF Parts!Start, AtDelimiter, Position
  <1>3. DelimiterAt(Wire, o)
    BY <1>1, DelimiterHere
  <1>4. \A i \in Nat : Base + Position <= i /\ i < o => ~DelimiterAt(Wire, i)
    <2> SUFFICES ASSUME NEW i \in Nat, Base + Position <= i, i < o
                 PROVE  ~DelimiterAt(Wire, i)
      OBVIOUS
    <2>1. k = 0
      BY <1>1, <1>2
    <2>2. i < PartOffset(0)
      BY <2>1
    <2> QED  BY <1>1, <2>2, NoneBefore
  <1>5. Base + Position <= o
    BY <1>1, <1>2
  <1>6. \/ f = NotFound /\ Base + Len(s) < o + 3
        \/ f = o - Base /\ f \in Nat /\ Position <= f /\ f + 3 <= Len(s)
    <2> HIDE DEF s, o, f
    <2>1. \/ Find(s, Parts!Delimiter, Position) = NotFound /\ Base + Len(s) < o + 3
          \/ /\ Find(s, Parts!Delimiter, Position) = o - Base
             /\ Find(s, Parts!Delimiter, Position) \in Nat
             /\ Position <= Find(s, Parts!Delimiter, Position)
             /\ Find(s, Parts!Delimiter, Position) + 3 <= Len(s)
      BY <1>1, <1>3, <1>4, <1>5, DelimiterInWindow
    <2> QED  BY <2>1 DEF f
  <1> QED  BY <1>1, <1>2, <1>6

(* Where the delimiter is looked for that ends the data of a part.         *)
LEMMA NextDelimiterAt ==
    ASSUME BufferInv, ~Chunked, PartInv, NEW k \in 0 .. Count - 1,
           NEW w \in 0 .. Len(message.body[k + 1].data), AtPart(k, w)
    PROVE  LET f == Parts!NextDelimiter IN
           \/ f = NotFound /\ Used < PartOffset(k + 1) + 3
           \/ /\ f = PartOffset(k + 1) - Base /\ f \in Nat /\ f + 3 <= Len(upload.buffer)
              /\ upload.data_start <= f
  <1> DEFINE s == upload.buffer
             o == PartOffset(k + 1)
             f == Find(s, Parts!Delimiter, Position)
             q == PartOffset(k)
             n == Len(message.body[k + 1].data)
  <1>0. k \in 0 .. Count /\ k < Count /\ message \in Messages /\ k + 1 \in 0 .. Count
    <2>1. message \in Messages
      BY BufferType
    <2>2. Count \in Nat
      BY <2>1, MultipartIs
    <2> QED  BY <2>1, <2>2
  <1>1. /\ Window(s, Position, Base) /\ Wire \in Seq(Byte) /\ Used = Base + Len(s)
        /\ Base \in Int
    BY <1>0, WindowOf DEF PartPlace
  <1>2. Parts!NextDelimiter = f /\ Position = upload.data_start /\ Base + Position = q + 10 + w
    BY SameBytes DEF Parts!NextDelimiter, AtPart, Position
  <1>3. DelimiterAt(Wire, o) /\ o \in Nat
    BY <1>0, DelimiterHere
  <1>4. o = q + n + 12 /\ q \in Nat /\ n \in Nat
    BY <1>0, PartAt
  <1>5. \A i \in Nat : Base + Position <= i /\ i < o => ~DelimiterAt(Wire, i)
    <2> SUFFICES ASSUME NEW i \in Nat, Base + Position <= i, i < o
                 PROVE  ~DelimiterAt(Wire, i)
      OBVIOUS
    <2>1. q + 10 <= i
      <3> HIDE DEF q, n, o
      <3> QED  BY <1>2, <1>4
    <2> QED  BY <1>0, <2>1, NoneWithin
  <1>6. Base + Position <= o
    <2>1. w \in 0 .. n
      OBVIOUS
    <2> HIDE DEF q, n, o
    <2> QED  BY <1>2, <1>4, <2>1
  <1>7. \/ f = NotFound /\ Base + Len(s) < o + 3
        \/ f = o - Base /\ f \in Nat /\ Position <= f /\ f + 3 <= Len(s)
    <2> HIDE DEF s, o, f
    <2>1. \/ Find(s, Parts!Delimiter, Position) = NotFound /\ Base + Len(s) < o + 3
          \/ /\ Find(s, Parts!Delimiter, Position) = o - Base
             /\ Find(s, Parts!Delimiter, Position) \in Nat
             /\ Position <= Find(s, Parts!Delimiter, Position)
             /\ Find(s, Parts!Delimiter, Position) + 3 <= Len(s)
      BY <1>1, <1>3, <1>5, <1>6, DelimiterInWindow
    <2> QED  BY <2>1 DEF f
  <1> QED  BY <1>1, <1>2, <1>7

(* The state of the decoder tells which of the three places it stands at.  *)
LEMMA PartPlaced ==
    ASSUME NEW k, PartPlace(k)
    PROVE  /\ upload.multi_part_state = "Start" => AtDelimiter(k)
           /\ upload.multi_part_state = "HeaderSep" => AtHeader(k)
           /\ upload.multi_part_state = "NextBoundary" =>
                 k < Count /\ \E w \in 0 .. Len(message.body[k + 1].data) : AtPart(k, w)
  BY DEF PartPlace, AtDelimiter, AtHeader, AtPart

(* What SliceIs says; named, so that a step can ask for it.                *)
SliceMatches(s, i, t) ==
    Slice(s, i, i + Len(t)) = t <=> \A j \in 1 .. Len(t) : s[i + j] = t[j]

(* Where t occurs in s, byte by byte, is where the slice of that length    *)
(* equals t.                                                               *)
LEMMA SliceMatch ==
    ASSUME NEW s \in Seq(Byte), NEW t \in Seq(Byte), NEW i \in Nat, i + Len(t) <= Len(s)
    PROVE  SliceMatches(s, i, t)
  BY SliceIs DEF SliceMatches

(* A delimiter that has arrived: another part, or the end.                 *)
LEMMA PartBegins ==
    ASSUME BufferInv, ~Chunked, PartInv, AroundParts, Parts!NextPart
    PROVE  BufferInv' /\ PartInv'
  <1> DEFINE s == upload.buffer
             f == Parts!Start
             t == Slice(s, f + 3, f + 5)
  <1>1. /\ UNCHANGED <<message, arrived, buffer, disk, lost>>
        /\ pc = "upload" /\ upload.multi_part_state = "Start" /\ f # NotFound
        /\ Len(s) >= f + 3 + 2
        /\ \/ /\ t = <<"-", "-">> /\ pc' = "fed"
              /\ upload' = [upload EXCEPT !.state = "Done"]
           \/ /\ t # <<"-", "-">> /\ pc' = pc
              /\ upload' = [upload EXCEPT !.current_pos = f + 3 + 2, !.multi_part_state = "HeaderSep"]
    <2>1. Len(Parts!Delimiter) = 3
      BY DEF Parts!Delimiter, Parts!Boundary
    <2> DEFINE p == Parts!PartStart
    <2>2. p = f + 3 + 2
      BY <2>1 DEF Parts!PartStart
    <2>3. /\ UNCHANGED <<message, arrived, buffer, disk, lost>>
          /\ pc = "upload" /\ upload.multi_part_state = "Start" /\ f # NotFound
          /\ Len(s) >= p
          /\ \/ /\ Slice(s, p - 2, p) = <<"-", "-">> /\ pc' = "fed"
                /\ upload' = [upload EXCEPT !.state = "Done"]
             \/ /\ Slice(s, p - 2, p) # <<"-", "-">> /\ pc' = pc
                /\ upload' = [upload EXCEPT !.current_pos = p, !.multi_part_state = "HeaderSep"]
      BY SameBytes DEF AroundParts, Parts!NextPart, Parts!At, Parts!Arrived
    <2>0. f \in Nat
      <3>1. PICK k \in 0 .. Count : PartPlace(k)
        BY DEF PartInv
      <3>2. AtDelimiter(k)
        BY <2>3, <3>1, PartPlaced
      <3> QED  BY <2>3, <3>2, StartAt DEF NotFound
    <2> HIDE DEF f, p
    <2>4. p - 2 = f + 3 /\ p = f + 5
      BY <2>0, <2>2
    <2> QED  BY <2>2, <2>3, <2>4
  <1>2. PICK k \in 0 .. Count : SavedInv(k) /\ PartPlace(k)
    BY DEF PartInv
  <1>3. AtDelimiter(k)
    BY <1>1, <1>2, PartPlaced
  <1> DEFINE o == PartOffset(k)
  <1>4. f = o - Base /\ f \in Nat
    BY <1>1, <1>3, StartAt
  <1>5. /\ Wire \in Seq(Byte) /\ Used \in Nat /\ Base \in Int /\ Len(s) \in Nat
        /\ Used = Base + Len(s) /\ o \in Nat /\ message \in Messages /\ Count \in Nat /\ s \in Seq(Byte)
    BY <1>2, WindowOf
  <1>6. \A i \in 1 .. Len(s) : s[i] = Wire[Base + i]
    BY <1>3 DEF PartInv, AtDelimiter, Position
  <1>7. /\ Used' = Used /\ IsFiniteSet(DOMAIN disk') /\ Count' = Count
        /\ PartOffset(k)' = o /\ FilesBefore(k)' = FilesBefore(k)
    BY <1>1, BufferKept, SameParts DEF PartInv
  <1>8. upload \in Uploads
    BY DEF PartInv
  <1> HIDE DEF f
  <1>0. f + 5 <= Len(s)
    <2> DEFINE n == Len(s)
    <2>1. n >= f + 3 + 2 /\ n \in Nat
      BY <1>1, <1>5
    <2> HIDE DEF n
    <2>2. f + 5 <= n
      BY <1>4, <2>1
    <2> QED  BY <2>2 DEF n
  <1>9. t = <<"-", "-">> <=> s[f + 4] = "-" /\ s[f + 5] = "-"
    <2> DEFINE z == <<"-", "-">>
               g == f + 3
    <2>1. z \in Seq(Byte) /\ Len(z) = 2 /\ z[1] = "-" /\ z[2] = "-"
      BY DEF Byte
    <2>2. g \in Nat /\ g + 2 <= Len(s) /\ g + 2 = f + 5 /\ g + 1 = f + 4
      BY <1>0, <1>4, <1>5, SMTT(30)
    <2>7. s \in Seq(Byte)
      BY <1>5
    <2> HIDE DEF z, g, s
    <2>3. g + Len(z) <= Len(s)
      BY <2>1, <2>2
    <2>8. SliceMatches(s, g, z)
      BY <2>1, <2>2, <2>3, <2>7, SliceMatch
    <2>4. Slice(s, g, g + Len(z)) = z <=> \A j \in 1 .. Len(z) : s[g + j] = z[j]
      BY <2>8 DEF SliceMatches
    <2>5. (\A j \in 1 .. Len(z) : s[g + j] = z[j]) <=> s[g + 1] = "-" /\ s[g + 2] = "-"
      BY <2>1
    <2>6. t = Slice(s, g, g + Len(z))
      BY <2>1, <2>2 DEF g
    <2> HIDE DEF t
    <2> QED  BY <2>2, <2>4, <2>5, <2>6 DEF z
  <1>10. s[f + 4] = Wire[o + 4] /\ s[f + 5] = Wire[o + 5]
    <2> DEFINE n == Len(s)
               b == Base
    <2>1. f + 5 <= n /\ n \in Nat /\ f \in Nat /\ b \in Int /\ o \in Nat /\ f = o - b
      BY <1>0, <1>4, <1>5
    <2> HIDE DEF n, b, o
    <2>2. f + 4 \in 1 .. n /\ f + 5 \in 1 .. n /\ b + (f + 4) = o + 4 /\ b + (f + 5) = o + 5
      BY <2>1
    <2>3. s[f + 4] = Wire[b + (f + 4)] /\ s[f + 5] = Wire[b + (f + 5)]
      BY <1>6, <2>2 DEF n, b
    <2> QED  BY <2>2, <2>3
  <1>11. t = <<"-", "-">> <=> k = Count
    <2>1. /\ k = Count => Wire[o + 4] = "-" /\ Wire[o + 5] = "-"
          /\ k # Count => Wire[o + 4] = "cr" /\ Wire[o + 5] = "lf"
      BY <1>5, DelimiterHere
    <2> HIDE DEF t, s, o
    <2> QED  BY <1>9, <1>10, <2>1
  <1> HIDE DEF t
  <1>12. CASE k = Count
    <2>1. upload' = [upload EXCEPT !.state = "Done"] /\ pc' = "fed"
      BY <1>1, <1>11, <1>12
    <2>2. /\ upload' \in Uploads /\ upload'.buffer = s /\ upload'.current_pos = upload.current_pos
          /\ upload'.multi_part_state = upload.multi_part_state
          /\ upload'.saved_filenames = upload.saved_filenames
          /\ upload'.current_file = upload.current_file
      BY <1>8, <2>1 DEF Uploads
    <2>3. Base' = Base /\ Position' = 0
      BY <1>3, <1>7, <2>2 DEF Base, Position, AtDelimiter
    <2>4. AtDelimiter(k)'
      BY <1>3, <1>7, <1>12, <2>2, <2>3 DEF AtDelimiter
    <2>5. SavedInv(k)'
      BY <1>1, <1>2, <1>7, <2>2 DEF SavedInv
    <2>6. \A i \in Position' + 1 .. Len(upload'.buffer) : upload'.buffer[i] = Wire[Base' + i]
      BY <1>6, <2>2, <2>3
    <2> QED  BY <1>7, <2>1, <2>2, <2>4, <2>5, <2>6, PartsKept DEF PartPlace
  <1>13. CASE k # Count
    <2>1. upload' = [upload EXCEPT !.current_pos = f + 3 + 2, !.multi_part_state = "HeaderSep"]
          /\ pc' = "upload"
      BY <1>1, <1>11, <1>13
    <2>2. f + 3 + 2 \in Nat /\ f + 3 + 2 \in 0 .. Len(s) /\ f + 3 + 2 = f + 5
      BY <1>1, <1>4, <1>5, SMTT(30)
    <2>3. /\ upload' \in Uploads /\ upload'.buffer = s /\ upload'.current_pos = f + 5
          /\ upload'.multi_part_state = "HeaderSep"
          /\ upload'.saved_filenames = upload.saved_filenames
          /\ upload'.current_file = upload.current_file
      BY <1>8, <2>1, <2>2 DEF Uploads
    <2>4. Base' = Base /\ Position' = f + 5
      BY <1>7, <2>3 DEF Base, Position
    <2>5. Base + (f + 5) = o + 5
      BY <1>4, <1>5
    <2>6. k < Count
      BY <1>5, <1>13
    <2>7. AtHeader(k)'
      BY <1>3, <1>7, <2>1, <2>2, <2>3, <2>4, <2>5, <2>6 DEF AtHeader, AtDelimiter
    <2>8. SavedInv(k)'
      BY <1>1, <1>2, <1>7, <2>3 DEF SavedInv
    <2>9. \A i \in Position' + 1 .. Len(upload'.buffer) : upload'.buffer[i] = Wire[Base' + i]
      <3> SUFFICES ASSUME NEW i \in Position' + 1 .. Len(upload'.buffer)
                   PROVE  upload'.buffer[i] = Wire[Base' + i]
        OBVIOUS
      <3>1. i \in 1 .. Len(s)
        BY <1>4, <1>5, <2>3, <2>4
      <3> QED  BY <1>6, <2>3, <2>4, <3>1
    <2> QED  BY <1>7, <2>1, <2>3, <2>7, <2>8, <2>9, PartsKept DEF PartPlace
  <1> QED  BY <1>12, <1>13

(* Waiting for more changes the program counter only.                      *)
LEMMA UploadSame ==
    ASSUME UNCHANGED <<message, arrived, buffer, upload, disk, lost>>
    PROVE  /\ Used' = Used /\ Base' = Base /\ Position' = Position
           /\ \A k : SavedInv(k)' <=> SavedInv(k)
           /\ \A k : PartOffset(k)' = PartOffset(k)
           /\ Count' = Count /\ message.body' = message.body
  BY SameParts DEF Used, Base, Position, SavedInv, Count

(* A turn that finds too little in the buffer to go on keeps the decoder   *)
(* where it stood.                                                         *)
LEMMA PartsWait ==
    ASSUME BufferInv, ~Chunked, PartInv, AroundParts,
           Parts!PartWait \/ Parts!HeaderWait \/ Parts!DataWait
    PROVE  BufferInv' /\ PartInv'
  <1>1. /\ UNCHANGED <<message, arrived, buffer, upload, disk, lost>> /\ pc' = "fed"
    BY DEF AroundParts, Parts!PartWait, Parts!HeaderWait, Parts!DataWait, Parts!Fed
  <1>2. /\ Used' = Used /\ Base' = Base /\ Position' = Position
        /\ \A k : SavedInv(k)' <=> SavedInv(k)
        /\ \A k : PartOffset(k)' = PartOffset(k)
        /\ Count' = Count /\ message.body' = message.body
    BY <1>1, UploadSame
  <1>3. PICK k \in 0 .. Count : SavedInv(k) /\ PartPlace(k)
    BY DEF PartInv
  <1> DEFINE s == upload.buffer
             n == Len(s)
             b == Base
             o == PartOffset(k)
             f == Parts!Start
  <1>4. /\ Window(s, Position, b) /\ Used \in Nat /\ b \in Int /\ n \in Nat
        /\ Used = b + n /\ o \in Nat /\ message \in Messages /\ Count \in Nat
    BY <1>3, WindowOf
  <1>5. ASSUME Parts!PartWait
        PROVE  PartPlace(k)'
    <2>1. upload.multi_part_state = "Start" /\ f # NotFound /\ ~(n >= Parts!PartStart)
      BY <1>5, SameBytes DEF Parts!PartWait, Parts!At, Parts!Arrived
    <2>2. AtDelimiter(k)
      BY <1>3, <2>1, PartPlaced
    <2>3. f = o - b /\ f \in Nat
      BY <2>1, <2>2, StartAt
    <2>4. Parts!PartStart = f + 3 + 2
      <3>1. Len(Parts!Delimiter) = 3
        BY DEF Parts!Delimiter, Parts!Boundary
      <3> QED  BY <3>1 DEF Parts!PartStart
    <2> HIDE DEF f, n, b, o
    <2>5. Used < o + 5
      BY <1>4, <2>1, <2>3, <2>4
    <2>6. AtDelimiter(k)'
      BY <1>1, <1>2, <2>2, <2>5 DEF AtDelimiter, o
    <2> QED  BY <2>6 DEF PartPlace
  <1>6. ASSUME Parts!HeaderWait
        PROVE  PartPlace(k)'
    <2>1. upload.multi_part_state = "HeaderSep" /\ Find(s, Parts!HeaderSep, upload.current_pos) = NotFound
      BY <1>6, SameBytes DEF Parts!HeaderWait, Parts!At, Parts!HeaderEnd
    <2>2. AtHeader(k)
      BY <1>3, <2>1, PartPlaced
    <2>3. Position = upload.current_pos /\ b + Position = o + 5 /\ k \in 0 .. Count - 1
      BY <1>4, <2>1, <2>2 DEF AtHeader, Position
    <2>4. b + n < o + 10
      <3> DEFINE p == Position
      <3>1. Window(s, p, b) /\ b + p = PartOffset(k) + 5 /\ Find(s, Parts!HeaderSep, p) = NotFound
        BY <1>4, <2>1, <2>3
      <3> HIDE DEF p, b, s
      <3>2. \/ Find(s, Parts!HeaderSep, p) = NotFound /\ b + Len(s) < PartOffset(k) + 10
            \/ Find(s, Parts!HeaderSep, p) \in Nat
        BY <1>4, <2>3, <3>1, HeaderInWindow
      <3> QED  BY <3>1, <3>2 DEF NotFound
    <2>5. Used < o + 10
      BY <1>4, <2>4
    <2>6. AtHeader(k)'
      BY <1>1, <1>2, <2>2, <2>5 DEF AtHeader
    <2> QED  BY <2>6 DEF PartPlace
  <1>7. ASSUME Parts!DataWait
        PROVE  PartPlace(k)'
    <2>1. upload.multi_part_state = "NextBoundary" /\ Parts!NextDelimiter = NotFound
      BY <1>7, SameBytes DEF Parts!DataWait, Parts!At
    <2>2. PICK w \in 0 .. Len(message.body[k + 1].data) : k < Count /\ AtPart(k, w)
      BY <1>3, <2>1, PartPlaced
    <2>3. k \in 0 .. Count - 1
      BY <1>4, <2>2
    <2>4. Used < PartOffset(k + 1) + 3
      BY <2>1, <2>2, <2>3, NextDelimiterAt DEF NotFound
    <2>5. AtPart(k, w)'
      BY <1>1, <1>2, <2>2, <2>4 DEF AtPart
    <2>6. w \in 0 .. Len(message.body[k + 1].data)'
      BY <1>1
    <2> QED  BY <1>2, <2>2, <2>5, <2>6 DEF PartPlace
  <1>8. PartPlace(k)' /\ SavedInv(k)'
    BY <1>2, <1>3, <1>5, <1>6, <1>7
  <1>9. /\ upload' \in Uploads /\ IsFiniteSet(DOMAIN disk')
        /\ \A i \in Position' + 1 .. Len(upload'.buffer) : upload'.buffer[i] = Wire[Base' + i]
    BY <1>1, <1>2 DEF PartInv
  <1> QED  BY <1>1, <1>8, <1>9, PartsKept

(* No delimiter yet: what cannot be its beginning is dropped.              *)
LEMMA NoPartKept ==
    ASSUME BufferInv, ~Chunked, PartInv, AroundParts, Parts!NoPart
    PROVE  BufferInv' /\ PartInv'
  <1> DEFINE s == upload.buffer
             n == Len(s)
             b == Base
  <1>1. /\ UNCHANGED <<message, arrived, buffer, disk, lost>> /\ pc' = "fed"
        /\ upload.multi_part_state = "Start" /\ Parts!Start = NotFound
        /\ upload' = IF n > 5 THEN [upload EXCEPT !.buffer = Drain(s, n - 5), !.current_pos = 0]
                              ELSE upload
    <2>1. Parts!Kept = 5
      BY DEF Parts!Kept, Parts!Boundary
    <2> QED  BY <2>1, SameBytes DEF AroundParts, Parts!NoPart, Parts!At, Parts!Trimmed
  <1>2. PICK k \in 0 .. Count : SavedInv(k) /\ PartPlace(k)
    BY DEF PartInv
  <1> DEFINE o == PartOffset(k)
  <1>3. AtDelimiter(k)
    BY <1>1, <1>2, PartPlaced
  <1>4. /\ Used \in Nat /\ b \in Int /\ n \in Nat /\ Used = b + n /\ o \in Nat
        /\ message \in Messages /\ Count \in Nat /\ s \in Seq(Byte)
    BY <1>2, WindowOf
  <1>5. /\ Used' = Used /\ Count' = Count /\ IsFiniteSet(DOMAIN disk')
        /\ PartOffset(k)' = o /\ FilesBefore(k)' = FilesBefore(k)
    BY <1>1, BufferKept, SameParts DEF PartInv
  <1>6. Used < o + 3
    BY <1>1, <1>3, <1>4, StartAt DEF NotFound
  <1>7. b \in 0 .. o /\ (k > 0 => b = o) /\ upload.current_pos = 0
        /\ upload.current_file = Parts!NoFile /\ upload \in Uploads
    BY <1>3 DEF AtDelimiter, PartInv
  <1>8. \A i \in 1 .. n : s[i] = Wire[b + i]
    BY <1>3 DEF PartInv, AtDelimiter, Position
  <1>9. CASE n > 5
    <2> DEFINE r == Drain(s, n - 5)
    <2>1. n - 5 \in 0 .. n /\ n - (n - 5) = 5
      <3> HIDE DEF n
      <3> QED  BY <1>4, <1>9
    <2>2. r \in Seq(Byte) /\ Len(r) = 5 /\ \A i \in 1 .. 5 : r[i] = s[(n - 5) + i]
      <3>1. r \in Seq(Byte) /\ Sliced(s, n - 5, n, r)
        <4>1. s \in Seq(Byte)
          BY <1>4
        <4> QED  BY <2>1, <4>1, DrainOf
      <3> HIDE DEF r
      <3> QED  BY <2>1, <3>1 DEF Sliced
    <2> HIDE DEF r
    <2>3. upload' = [upload EXCEPT !.buffer = r, !.current_pos = 0]
      BY <1>1, <1>9 DEF r
    <2>4. /\ upload' \in Uploads /\ upload'.buffer = r /\ upload'.current_pos = 0
          /\ upload'.multi_part_state = "Start" /\ upload'.current_file = Parts!NoFile
          /\ upload'.saved_filenames = upload.saved_filenames
      BY <1>1, <1>7, <2>2, <2>3 DEF Uploads
    <2>5. Base' = Used - 5 /\ Position' = 0
      BY <1>5, <2>2, <2>4 DEF Base, Position
    <2>6. Used - 5 \in 0 .. o /\ k = 0 /\ Used - 5 = b + (n - 5)
      <3> HIDE DEF n, b, o
      <3>1. k = 0
        BY <1>4, <1>6, <1>7, <1>9
      <3> QED  BY <1>4, <1>6, <1>7, <1>9, <3>1
    <2>7. Used < o + 5
      <3> HIDE DEF o
      <3> QED  BY <1>4, <1>6
    <2>8. AtDelimiter(k)'
      BY <1>1, <1>5, <2>4, <2>5, <2>6, <2>7 DEF AtDelimiter
    <2>9. \A i \in Position' + 1 .. Len(upload'.buffer) : upload'.buffer[i] = Wire[Base' + i]
      <3>1. ASSUME NEW i \in 1 .. 5
            PROVE  r[i] = Wire[(Used - 5) + i]
        <4>1. (n - 5) + i \in 1 .. n /\ b + ((n - 5) + i) = (Used - 5) + i
          <5> HIDE DEF n, b
          <5> QED  BY <1>4, <1>9
        <4> QED  BY <1>8, <2>2, <4>1
      <3>2. Position' + 1 = 1 /\ Len(upload'.buffer) = 5
        BY <2>2, <2>4, <2>5
      <3> QED  BY <2>4, <2>5, <3>1, <3>2
    <2>10. SavedInv(k)'
      BY <1>1, <1>2, <1>5, <2>4 DEF SavedInv
    <2> QED  BY <1>1, <1>5, <2>4, <2>8, <2>9, <2>10, PartsKept DEF PartPlace
  <1>10. CASE ~(n > 5)
    <2>1. upload' = upload
      BY <1>1, <1>10
    <2>2. /\ Base' = b /\ Position' = Position /\ SavedInv(k)'
          /\ PartOffset(k)' = PartOffset(k)
      BY <1>1, <1>2, <2>1, UploadSame
    <2>3. Used < o + 5
      <3> HIDE DEF o
      <3> QED  BY <1>4, <1>6
    <2>4. AtDelimiter(k)'
      BY <1>1, <1>3, <1>5, <2>1, <2>2, <2>3 DEF AtDelimiter
    <2>5. \A i \in Position' + 1 .. Len(upload'.buffer) : upload'.buffer[i] = Wire[Base' + i]
      BY <2>1, <2>2 DEF PartInv
    <2> QED  BY <1>1, <1>5, <1>7, <2>1, <2>2, <2>4, <2>5, PartsKept DEF PartPlace
  <1> QED  BY <1>9, <1>10

(* A header that has arrived.                                              *)
LEMMA HeaderRead ==
    ASSUME BufferInv, ~Chunked, PartInv, AroundParts, Parts!Header
    PROVE  BufferInv' /\ PartInv'
  <1> DEFINE s == upload.buffer
             n == Len(s)
             b == Base
             p == upload.current_pos
             f == Find(s, Parts!HeaderSep, p)
  <1>1. /\ UNCHANGED <<message, arrived, buffer, disk, lost>> /\ pc' = "upload"
        /\ upload.multi_part_state = "HeaderSep" /\ f # NotFound
        /\ upload' = [upload EXCEPT !.part = s[p + 1], !.multi_part_state = "NextBoundary",
                                    !.data_start = f + 4, !.current_pos = f + 4]
    BY SameBytes DEF AroundParts, Parts!Header, Parts!At, Parts!HeaderEnd
  <1>2. PICK k \in 0 .. Count : SavedInv(k) /\ PartPlace(k)
    BY DEF PartInv
  <1> DEFINE o == PartOffset(k)
             q == message.body[k + 1]
  <1>3. AtHeader(k)
    BY <1>1, <1>2, PartPlaced
  <1>4. /\ Window(s, p, b) /\ Used \in Nat /\ b \in Int /\ n \in Nat /\ Used = b + n /\ o \in Nat
        /\ message \in Messages /\ Count \in Nat
    <2>1. Position = p
      BY <1>1 DEF Position
    <2> QED  BY <1>2, <2>1, WindowOf
  <1>5. /\ Used' = Used /\ Count' = Count /\ IsFiniteSet(DOMAIN disk')
        /\ PartOffset(k)' = o /\ FilesBefore(k)' = FilesBefore(k) /\ message.body' = message.body
    BY <1>1, BufferKept, SameParts DEF PartInv
  <1>6. upload \in Uploads /\ p \in 0 .. n /\ b + p = o + 5 /\ k \in 0 .. Count - 1
        /\ upload.current_file = Parts!NoFile
    BY <1>3, <1>4 DEF AtHeader, PartInv
  <1>7. f = p + 1 /\ p + 5 <= n
    <2>1. b + p = PartOffset(k) + 5
      BY <1>6
    <2> HIDE DEF s, p, b
    <2>2. \/ Find(s, Parts!HeaderSep, p) = NotFound
          \/ Find(s, Parts!HeaderSep, p) = p + 1 /\ p + 5 <= Len(s)
      BY <1>4, <1>6, <2>1, HeaderInWindow
    <2> QED  BY <1>1, <2>2
  <1>8. q.header \in Byte /\ Wire[o + 6] = q.header /\ Len(q.data) \in Nat
    BY <1>4, <1>6, PartAt
  <1>9. \A i \in p + 1 .. n : s[i] = Wire[b + i]
    BY <1>4 DEF Window
  <1> HIDE DEF f
  <1>10. p \in Nat /\ f + 4 = p + 5 /\ p + 5 \in 0 .. n /\ p + 1 \in p + 1 .. n /\ b + (p + 1) = o + 6
         /\ b + (p + 5) = o + 10 + 0 /\ p + 5 \in Nat
    <2> HIDE DEF n, p, b, o
    <2> QED  BY <1>4, <1>6, <1>7
  <1>11. s[p + 1] = q.header
    BY <1>8, <1>9, <1>10
  <1>12. upload' = [upload EXCEPT !.part = q.header, !.multi_part_state = "NextBoundary",
                                  !.data_start = p + 5, !.current_pos = p + 5]
    BY <1>1, <1>10, <1>11
  <1>13. /\ upload' \in Uploads /\ upload'.buffer = s /\ upload'.data_start = p + 5
         /\ upload'.current_pos = p + 5 /\ upload'.part = q.header
         /\ upload'.multi_part_state = "NextBoundary"
         /\ upload'.current_file = Parts!NoFile
         /\ upload'.saved_filenames = upload.saved_filenames
    <2> HIDE DEF q
    <2> QED  BY <1>6, <1>8, <1>10, <1>12 DEF Uploads
  <1>14. Base' = b /\ Position' = p + 5
    BY <1>5, <1>13 DEF Base, Position
  <1>15. AtPart(k, 0)'
    <2>1. \E m : m = q /\ m = (message.body[k + 1])'
      BY <1>5
    <2> QED  BY <1>1, <1>5, <1>10, <1>13, <1>14, <2>1 DEF AtPart
  <1>16. PartPlace(k)'
    <2>1. 0 \in 0 .. Len(message.body[k + 1].data)' /\ k < Count'
      BY <1>4, <1>5, <1>6, <1>8
    <2> QED  BY <1>15, <2>1 DEF PartPlace
  <1>17. SavedInv(k)'
    BY <1>1, <1>2, <1>5, <1>13 DEF SavedInv
  <1>18. \A i \in Position' + 1 .. Len(upload'.buffer) : upload'.buffer[i] = Wire[Base' + i]
    <2> SUFFICES ASSUME NEW i \in (p + 5) + 1 .. n PROVE s[i] = Wire[b + i]
      BY <1>13, <1>14
    <2>1. i \in p + 1 .. n
      <3> HIDE DEF n, p
      <3> QED  BY <1>4, <1>10
    <2> QED  BY <1>9, <2>1
  <1> QED  BY <1>1, <1>5, <1>13, <1>16, <1>17, <1>18, PartsKept

-----------------------------------------------------------------------------
(* The end of a part.                                                      *)

(* What stands between data_start and the delimiter: the rest of the data  *)
(* and a line break, which DataEnd leaves out.                             *)
PartRest(k, w) ==
    LET s == upload.buffer
        f == Parts!NextDelimiter
        d == message.body[k + 1].data
        t == Slice(s, upload.data_start, Parts!DataEnd) IN
    /\ s \in Seq(Byte) /\ Len(s) \in Nat /\ f \in 0 .. Len(s) /\ Base + f = PartOffset(k + 1)
    /\ Base \in Int /\ Used \in Nat /\ Used = Base + Len(s)
    /\ d \in Seq(Byte) /\ Len(d) \in Nat /\ w \in Nat /\ w <= Len(d)
    /\ Drain(s, f) \in Seq(Byte) /\ Sliced(s, f, Len(s), Drain(s, f))
    /\ t \in Seq(Byte) /\ Len(t) = Len(d) - w /\ \A i \in 1 .. Len(d) - w : t[i] = d[w + i]
    /\ \A i \in f + 1 .. Len(s) : s[i] = Wire[Base + i]

(* When a delimiter is found in a part's data, it is the one that ends     *)
(* this part, and what stands before it is the rest of the data and a line *)
(* break.                                                                  *)
LEMMA PartEnds ==
    ASSUME BufferInv, ~Chunked, PartInv, NEW k \in 0 .. Count - 1,
           NEW w \in 0 .. Len(message.body[k + 1].data), AtPart(k, w),
           Parts!NextDelimiter # NotFound
    PROVE  PartRest(k, w)
  <1> DEFINE s == upload.buffer
             n == Len(s)
             b == Base
             f == Parts!NextDelimiter
             p == upload.data_start
             o == PartOffset(k)
             e == PartOffset(k + 1)
             d == message.body[k + 1].data
             c == Len(d)
             v == w
             g == p + (c - v)
  <1>1. /\ Window(s, p, b) /\ Used \in Nat /\ b \in Int /\ n \in Nat /\ Used = b + n
        /\ message \in Messages /\ Count \in Nat /\ s \in Seq(Byte)
    <2>1. message \in Messages
      BY BufferType
    <2>2. Count \in Nat
      BY <2>1, MultipartIs
    <2>3. k \in 0 .. Count /\ PartPlace(k) /\ Position = p
      BY <2>2 DEF PartPlace, AtPart, Position
    <2> QED  BY <2>3, WindowOf
  <1>2. f = e - b /\ f \in Nat /\ f + 3 <= n /\ p <= f
    BY NextDelimiterAt
  <1>3. /\ d \in Seq(Byte) /\ c \in Nat /\ o \in Nat /\ e = o + c + 12
        /\ \A i \in 1 .. c : Wire[o + 10 + i] = d[i]
        /\ Wire[o + c + 11] = "cr" /\ Wire[o + c + 12] = "lf"
    BY <1>1, PartAt
  <1>4. p \in 0 .. n /\ b + p = o + 10 + w
    BY DEF AtPart
  <1>5. v \in 0 .. c /\ v = w
    OBVIOUS
  <1>6. \A i \in p + 1 .. n : s[i] = Wire[b + i]
    BY <1>1 DEF Window
  <1> HIDE DEF f, v
  <1>7. /\ p \in Nat /\ g \in Nat /\ f = g + 2 /\ p <= g /\ g <= n /\ g - p = c - v /\ v \in Nat /\ v <= c
        /\ g + 1 \in p + 1 .. n /\ g + 2 \in p + 1 .. n /\ f \in 0 .. n
        /\ b + (g + 1) = o + c + 11 /\ b + (g + 2) = o + c + 12 /\ b + f = e /\ g + 2 <= n
    <2>1. /\ n \in Nat /\ b \in Int /\ o \in Nat /\ c \in Nat /\ e = o + c + 12
          /\ f = e - b /\ f \in Nat /\ f + 3 <= n /\ p \in 0 .. n /\ b + p = o + 10 + v /\ v \in 0 .. c
      BY <1>1, <1>2, <1>3, <1>4, <1>5
    <2> HIDE DEF n, b, p, o, e, c, g
    <2>2. p \in Nat /\ v \in Nat /\ v <= c /\ f = (p + (c - v)) + 2 /\ b + f = e /\ f \in 0 .. n
      BY <2>1
    <2>3. g = p + (c - v)
      BY DEF g
    <2>4. g \in Nat /\ f = g + 2 /\ p <= g /\ g + 2 <= n /\ g - p = c - v /\ b + g = o + 10 + c
      BY <2>1, <2>2, <2>3
    <2>5. g <= n /\ g + 1 \in p + 1 .. n /\ g + 2 \in p + 1 .. n
      BY <2>1, <2>2, <2>4
    <2>6. b + (g + 1) = o + c + 11 /\ b + (g + 2) = o + c + 12
      BY <2>1, <2>4
    <2> QED  BY <2>2, <2>4, <2>5, <2>6
  <1>8. Parts!DataEnd = g
    <2> DEFINE z == CRLF
    <2>1. s[g + 1] = "cr" /\ s[g + 2] = "lf"
      <3>1. s[g + 1] = Wire[b + (g + 1)] /\ s[g + 2] = Wire[b + (g + 2)]
        BY <1>6, <1>7
      <3>2. b + (g + 1) = o + c + 11 /\ b + (g + 2) = o + c + 12
        BY <1>7
      <3> QED  BY <1>3, <3>1, <3>2
    <2>2. z \in Seq(Byte) /\ Len(z) = 2 /\ z[1] = "cr" /\ z[2] = "lf"
      BY DEF CRLF, Byte
    <2>6. s \in Seq(Byte)
      BY <1>1
    <2>7. f >= 2 /\ f - 2 = g /\ f = g + 2 /\ g \in Nat /\ g + 2 <= Len(s)
      <3> HIDE DEF g, p, c
      <3> QED  BY <1>7
    <2> HIDE DEF z, g, s
    <2>3. SliceMatches(s, g, z)
      <3>1. g + Len(z) <= Len(s)
        BY <2>2, <2>7
      <3> QED  BY <2>2, <2>6, <2>7, <3>1, SliceMatch
    <2>4. Slice(s, g, g + 2) = z
      BY <2>1, <2>2, <2>3 DEF SliceMatches
    <2>5. Parts!DataEnd = IF f >= 2 /\ Slice(s, f - 2, f) = z THEN f - 2 ELSE f
      BY SameBytes DEF Parts!DataEnd, s, z, f
    <2> QED  BY <2>4, <2>5, <2>7
  <1> DEFINE t == Slice(s, p, g)
  <1>9. t \in Seq(Byte) /\ Sliced(s, p, g, t)
    <2> HIDE DEF g, p, s
    <2>1. p \in Nat /\ g \in Nat /\ p <= g /\ g <= Len(s) /\ s \in Seq(Byte)
      BY <1>1, <1>7
    <2> QED  BY <2>1, SliceOf
  <1> HIDE DEF t
  <1>10. Len(t) = c - v /\ \A i \in 1 .. c - v : t[i] = d[v + i]
    <2>1. Len(t) = c - v /\ \A i \in 1 .. c - v : t[i] = s[p + i]
      BY <1>7, <1>9 DEF Sliced
    <2>2. ASSUME NEW i \in 1 .. c - v
          PROVE  s[p + i] = d[v + i]
      <3>1. p + i \in p + 1 .. n /\ v + i \in 1 .. c /\ b + (p + i) = o + 10 + (v + i)
        <4> DEFINE y == p
        <4>1. y \in Nat /\ y + (c - v) <= n /\ b + y = o + 10 + v
          BY <1>4, <1>5, <1>7
        <4> HIDE DEF n, b, y, o, c
        <4>2. y + i \in y + 1 .. n /\ v + i \in 1 .. c /\ b + (y + i) = o + 10 + (v + i)
          BY <1>1, <1>3, <1>5, <1>7, <4>1
        <4> QED  BY <4>2 DEF y
      <3>2. s[p + i] = Wire[b + (p + i)]
        BY <1>6, <3>1
      <3>3. Wire[o + 10 + (v + i)] = d[v + i]
        BY <1>3, <3>1
      <3> QED  BY <3>1, <3>2, <3>3
    <2> QED  BY <2>1, <2>2
  <1>11. Drain(s, f) \in Seq(Byte) /\ Sliced(s, f, n, Drain(s, f))
    <2>1. f \in 0 .. Len(s) /\ s \in Seq(Byte)
      BY <1>1, <1>7
    <2> HIDE DEF s
    <2> QED  BY <2>1, DrainOf
  <1>12. \A i \in f + 1 .. n : s[i] = Wire[b + i]
    <2> SUFFICES ASSUME NEW i \in f + 1 .. n PROVE s[i] = Wire[b + i]
      OBVIOUS
    <2>1. i \in p + 1 .. n
      <3> HIDE DEF n, p, g
      <3> QED  BY <1>1, <1>2, <1>7, SMTT(30)
    <2> QED  BY <1>6, <2>1
  <1>13. t = Slice(upload.buffer, upload.data_start, Parts!DataEnd)
    BY <1>8 DEF t
  <1> QED  BY <1>1, <1>3, <1>5, <1>7, <1>9, <1>10, <1>11, <1>12, <1>13 DEF PartRest, f

(* A part that ended leaves the decoder at the delimiter of the next.      *)
LEMMA PartClosed ==
    ASSUME BufferInv, ~Chunked, PartInv, AroundParts, NEW k \in 0 .. Count - 1, NEW w, PartRest(k, w),
           upload' \in Uploads, upload'.buffer = Drain(upload.buffer, Parts!NextDelimiter),
           upload'.current_pos = 0, upload'.current_file = Parts!NoFile,
           upload'.multi_part_state = "Start",
           IsFiniteSet(DOMAIN disk'), pc' = "upload", SavedInv(k + 1)'
    PROVE  BufferInv' /\ PartInv'
  <1> DEFINE s == upload.buffer
             n == Len(s)
             b == Base
             f == Parts!NextDelimiter
             r == Drain(s, f)
             e == PartOffset(k + 1)
  <1>1. /\ n \in Nat /\ f \in 0 .. n /\ b + f = e /\ b \in Int /\ Used \in Nat /\ Used = b + n
        /\ Len(r) = n - f /\ \A i \in 1 .. n - f : r[i] = s[f + i]
        /\ \A i \in f + 1 .. n : s[i] = Wire[b + i]
    BY DEF PartRest, Sliced
  <1>2. message \in Messages
    BY BufferType
  <1>3. Count \in Nat /\ k + 1 \in 0 .. Count
    <2>1. Count \in Nat
      BY <1>2, MultipartIs
    <2> QED  BY <2>1
  <1>4. e \in Nat
    BY <1>2, <1>3, PartFamilyType
  <1>5. Used' = Used /\ PartOffset(k + 1)' = e /\ Count' = Count
    BY BufferKept, SameParts DEF AroundParts
  <1>6. upload'.buffer = r
    OBVIOUS
  <1> HIDE DEF r, f
  <1>7. Used - (n - f) = e
    <2> HIDE DEF n, b, e
    <2> QED  BY <1>1, <1>4
  <1>8. Base' = e /\ Position' = 0
    BY <1>1, <1>5, <1>6, <1>7 DEF Base, Position
  <1>9. AtDelimiter(k + 1)'
    <2>1. e \in 0 .. e
      BY <1>4
    <2> QED  BY <1>5, <1>8, <2>1 DEF AtDelimiter
  <1>10. \A i \in Position' + 1 .. Len(upload'.buffer) : upload'.buffer[i] = Wire[Base' + i]
    <2>1. ASSUME NEW i \in 1 .. n - f
          PROVE  r[i] = Wire[e + i]
      <3>1. f + i \in f + 1 .. n /\ b + (f + i) = e + i
        <4> HIDE DEF n, b, e
        <4> QED  BY <1>1, <1>4
      <3> QED  BY <1>1, <3>1
    <2>2. Position' + 1 = 1 /\ Len(upload'.buffer) = n - f
      BY <1>1, <1>6, <1>8
    <2> QED  BY <1>6, <1>8, <2>1, <2>2
  <1>11. PartPlace(k + 1)'
    BY <1>9 DEF PartPlace
  <1> QED  BY <1>3, <1>10, <1>11, PartsKept

(* What a write that does not fail leaves of the files that are not its    *)
(* target.                                                                 *)
Wrote(file, data) ==
    LET saved == upload.saved_filenames IN
    /\ file \in FileName /\ file # Parts!NoFile /\ file \in DOMAIN disk'
    /\ IsFiniteSet(DOMAIN disk') /\ DOMAIN disk \subseteq DOMAIN disk'
    /\ upload.current_file = Parts!NoFile => disk'[file] = <<>> \o data
    /\ ~lost /\ upload.current_file # Parts!NoFile =>
          file = upload.current_file /\ disk'[file] = disk[file] \o data
    /\ ~lost => /\ file \notin others
                /\ \A f \in others : f \in DOMAIN disk' /\ disk'[f] = <<"other">>
                /\ \A i \in DOMAIN saved :
                      saved[i] # file /\ saved[i] \in DOMAIN disk' /\ disk'[saved[i]] = disk[saved[i]]

(* A write to the file of a part changes that file only, and a file that   *)
(* is created was not there.                                               *)
LEMMA Writes ==
    ASSUME IsFiniteSet(DOMAIN disk), NamesInv, upload \in Uploads,
           NEW base \in Byte \cup {"tmp_upload"}, base # "", NEW data,
           disk' = Parts!Appended(Parts!Target(base), data)
    PROVE  Wrote(Parts!Target(base), data)
  <1> DEFINE file == Parts!Target(base)
             saved == upload.saved_filenames
  <1>1. /\ file \in FileName /\ file # Parts!NoFile
        /\ upload.current_file = Parts!NoFile => file \notin DOMAIN disk
        /\ upload.current_file # Parts!NoFile => file = upload.current_file
        /\ ~lost => /\ file \notin others
                    /\ \A i \in DOMAIN saved : saved[i] # file
                    /\ upload.current_file # Parts!NoFile => file \in DOMAIN disk
    BY Targets
  <1> HIDE DEF file
  <1>2. AppendedTo(disk', file, data)
    BY Appends DEF file
  <1>3. /\ DOMAIN disk' = DOMAIN disk \cup {file} /\ IsFiniteSet(DOMAIN disk')
        /\ \A f \in DOMAIN disk : f # file => disk'[f] = disk[f]
        /\ disk'[file] = (IF file \in DOMAIN disk THEN disk[file] ELSE <<>>) \o data
    BY <1>2 DEF AppendedTo
  <1>4. /\ \A i \in DOMAIN saved : saved[i] \in DOMAIN disk
        /\ ~lost => others \subseteq DOMAIN disk /\ \A f \in others : disk[f] = <<"other">>
    BY DEF NamesInv
  <1> QED  BY <1>1, <1>3, <1>4 DEF Wrote, file

(* A file that is written goes on where it stopped.                        *)
GoesOn(d, w, m, t) ==
    /\ d \in Seq(Byte) /\ w \in Nat /\ m \in Nat /\ w + m <= Len(d)
    /\ t \in Seq(Byte) /\ Len(t) = m /\ \A i \in 1 .. m : t[i] = d[w + i]
Holds(file, d, v) == disk'[file] = SubSeq(d, 1, v)

(* A file that holds the first w bytes of a part and is appended the m     *)
(* after them holds the first w + m.                                       *)
LEMMA Continued ==
    ASSUME ~lost, NEW k, NEW w, AtPart(k, w), message.body[k + 1].header # Parts!Field,
           NEW d, d = message.body[k + 1].data, NEW m, NEW t, GoesOn(d, w, m, t),
           NEW file, Wrote(file, t)
    PROVE  Holds(file, d, w + m)
  <1> DEFINE c == <<>>
             x == SubSeq(d, 1, w)
             y == SubSeq(d, 1, w + m)
  <1>0. /\ d \in Seq(Byte) /\ w \in Nat /\ m \in Nat /\ w + m <= Len(d)
        /\ t \in Seq(Byte) /\ Len(t) = m /\ \A i \in 1 .. m : t[i] = d[w + i]
    BY DEF GoesOn
  <1>1. c \in Seq(Byte) /\ x \in Seq(Byte) /\ y \in Seq(Byte)
    <2>1. Len(d) \in Nat /\ w <= Len(d) /\ w + m \in Nat
      BY <1>0, LenProperties
    <2> QED  BY <1>0, <2>1
  <1>2. c \o x = x /\ c \o y = y
    <2> HIDE DEF x, y
    <2> QED  BY <1>1, ConcatEmptySeq
  <1> HIDE DEF c
  <1>3. ReadsOn(c, d, w, m, t)
    BY <1>0, <1>1, ReadOn
  <1>4. (c \o x) \o t = c \o y /\ c \o SubSeq(d, 1, 0) = c
    BY <1>3 DEF ReadsOn
  <1>5. CASE upload.current_file = Parts!NoFile
    <2>1. w = 0
      BY <1>5 DEF AtPart
    <2>2. disk'[file] = c \o t
      BY <1>5 DEF Wrote, c
    <2> QED  BY <1>2, <1>4, <2>1, <2>2 DEF Holds
  <1>6. CASE upload.current_file # Parts!NoFile
    <2>1. w > 0
      BY <1>0, <1>6 DEF AtPart
    <2>2. disk[upload.current_file] = x
      BY <2>1 DEF AtPart
    <2>3. disk'[file] = x \o t
      BY <1>6, <2>2 DEF Wrote
    <2> QED  BY <1>2, <1>4, <2>3 DEF Holds
  <1> QED  BY <1>5, <1>6

(* A part that names no file.                                              *)
LEMMA FieldClosed ==
    ASSUME BufferInv, ~Chunked, PartInv, AroundParts, Parts!FieldEnd
    PROVE  BufferInv' /\ PartInv'
  <1> DEFINE s == upload.buffer
             f == Parts!NextDelimiter
             r == Drain(s, f)
  <1>1. /\ upload.multi_part_state = "NextBoundary" /\ f # NotFound /\ upload.part = Parts!Field
        /\ upload' = [upload EXCEPT !.buffer = r, !.current_pos = 0,
                                    !.current_file = Parts!NoFile, !.multi_part_state = "Start"]
        /\ pc' = "upload" /\ UNCHANGED <<disk, lost>>
    BY SameBytes DEF Parts!FieldEnd, Parts!At, Parts!Cleaned
  <1>2. PICK k \in 0 .. Count : SavedInv(k) /\ PartPlace(k)
    BY DEF PartInv
  <1>3. PICK w \in 0 .. Len(message.body[k + 1].data) : k < Count /\ AtPart(k, w)
    BY <1>1, <1>2, PartPlaced
  <1>4. message \in Messages /\ Count \in Nat
    BY BufferType, MultipartIs
  <1>5. k \in 0 .. Count - 1
    BY <1>3, <1>4
  <1>6. PartRest(k, w)
    BY <1>1, <1>3, <1>5, PartEnds
  <1>7. message.body[k + 1].header = Parts!Field
    BY <1>1, <1>3 DEF AtPart
  <1>8. FilesBefore(k + 1) = FilesBefore(k)
    BY <1>3, <1>4, <1>7, FilesGrow
  <1>9. upload \in Uploads /\ r \in Seq(Byte) /\ Parts!NoFile \in FileName /\ IsFiniteSet(DOMAIN disk')
    BY <1>1, <1>6 DEF PartInv, PartRest, FileName, Parts!NoFile
  <1> HIDE DEF r
  <1>10. /\ upload' \in Uploads /\ upload'.buffer = r
         /\ upload'.current_pos = 0 /\ upload'.current_file = Parts!NoFile
         /\ upload'.multi_part_state = "Start"
         /\ upload'.saved_filenames = upload.saved_filenames
    BY <1>1, <1>9 DEF Uploads
  <1>11. SavedInv(k + 1)'
    <2>1. FilesBefore(k + 1)' = FilesBefore(k + 1)
      BY SameParts DEF AroundParts
    <2> QED  BY <1>1, <1>2, <1>8, <1>10, <2>1 DEF SavedInv
  <1> QED  BY <1>1, <1>5, <1>6, <1>9, <1>10, <1>11, PartClosed DEF r

(* A file part: the file holds the data, and nothing else.                 *)
LEMMA FileStep ==
    ASSUME Parts!FilePartEnd
    PROVE  LET r == Drain(upload.buffer, Parts!NextDelimiter)
               saved == upload.saved_filenames
               file == Parts!Target(upload.part)
               t == Slice(upload.buffer, upload.data_start, Parts!DataEnd) IN
           /\ upload.multi_part_state = "NextBoundary" /\ Parts!NextDelimiter # NotFound
           /\ upload.part # Parts!Field /\ pc' = "upload"
           /\ \/ /\ disk' = Parts!Appended(file, t) /\ lost' = lost
                 /\ upload' = [[upload EXCEPT !.saved_filenames = Append(saved, file)] EXCEPT
                                   !.buffer = r, !.current_pos = 0,
                                   !.current_file = Parts!NoFile, !.multi_part_state = "Start"]
              \/ /\ lost' = TRUE /\ disk' = disk
                 /\ upload' = [upload EXCEPT !.buffer = r, !.current_pos = 0,
                                             !.current_file = Parts!NoFile, !.multi_part_state = "Start"]
  <1> DEFINE n == Parts!NextDelimiter
             r == Drain(upload.buffer, n)
             saved == upload.saved_filenames
             file == Parts!Target(upload.part)
             t == Slice(upload.buffer, upload.data_start, Parts!DataEnd)
             Closed(u) == [u EXCEPT !.buffer = r, !.current_pos = 0,
                                    !.current_file = Parts!NoFile, !.multi_part_state = "Start"]
             more == [upload EXCEPT !.saved_filenames = Append(saved, file)]
  <1>1. /\ Parts!Slice(upload.buffer, upload.data_start, Parts!DataEnd) = t
        /\ \A u : Parts!Drain(u.buffer, n) = Drain(u.buffer, n)
    BY SameBytes
  <1>2. more.buffer = upload.buffer
    OBVIOUS
  <1>3. Parts!Cleaned(upload, n) = Closed(upload) /\ Parts!Cleaned(more, n) = Closed(more)
    BY <1>1, <1>2 DEF Parts!Cleaned
  <1>4. /\ upload.multi_part_state = "NextBoundary" /\ n # NotFound
        /\ upload.part # Parts!Field /\ pc' = "upload"
    BY SameBytes DEF Parts!FilePartEnd, Parts!At
  <1>5. \/ /\ disk' = Parts!Appended(file, t) /\ lost' = lost /\ upload' = Parts!Cleaned(more, n)
        \/ /\ lost' = TRUE /\ disk' = disk /\ upload' = Parts!Cleaned(upload, n)
    BY <1>1 DEF Parts!FilePartEnd
  <1> HIDE DEF n, r, file, t, more, Closed
  <1>6. \/ /\ disk' = Parts!Appended(file, t) /\ lost' = lost /\ upload' = Closed(more)
        \/ /\ lost' = TRUE /\ disk' = disk /\ upload' = Closed(upload)
    BY <1>3, <1>5
  <1> QED  BY <1>4, <1>6 DEF n, r, file, t, more, Closed

(* A part with a file name ends: its file holds all of its data and joins  *)
(* the saved ones.                                                         *)
LEMMA FileClosed ==
    ASSUME BufferInv, NamesInv, ~Chunked, PartInv, AroundParts, Parts!FilePartEnd
    PROVE  BufferInv' /\ PartInv'
  <1> DEFINE s == upload.buffer
             f == Parts!NextDelimiter
             r == Drain(s, f)
             saved == upload.saved_filenames
             file == Parts!Target(upload.part)
             t == Slice(s, upload.data_start, Parts!DataEnd)
  <1>1. /\ upload.multi_part_state = "NextBoundary" /\ f # NotFound /\ upload.part # Parts!Field
        /\ pc' = "upload"
        /\ \/ /\ disk' = Parts!Appended(file, t) /\ lost' = lost
              /\ upload' = [[upload EXCEPT !.saved_filenames = Append(saved, file)] EXCEPT
                                !.buffer = r, !.current_pos = 0,
                                !.current_file = Parts!NoFile, !.multi_part_state = "Start"]
           \/ /\ lost' = TRUE /\ disk' = disk
              /\ upload' = [upload EXCEPT !.buffer = r, !.current_pos = 0,
                                          !.current_file = Parts!NoFile, !.multi_part_state = "Start"]
    BY FileStep
  <1>2. PICK k \in 0 .. Count : SavedInv(k) /\ PartPlace(k)
    BY DEF PartInv
  <1>3. PICK w \in 0 .. Len(message.body[k + 1].data) : k < Count /\ AtPart(k, w)
    BY <1>1, <1>2, PartPlaced
  <1>4. message \in Messages /\ Count \in Nat
    BY BufferType, MultipartIs
  <1>5. k \in 0 .. Count - 1
    BY <1>3, <1>4
  <1>6. PartRest(k, w)
    BY <1>1, <1>3, <1>5, PartEnds
  <1> DEFINE q == message.body[k + 1]
             d == q.data
  <1>7. q.header = upload.part /\ q.header # Parts!Field
    BY <1>1, <1>3 DEF AtPart
  <1>8. /\ Len(FilesBefore(k + 1)) = Len(FilesBefore(k)) + 1 /\ Len(FilesBefore(k)) \in Nat
        /\ FilesBefore(k + 1)[Len(FilesBefore(k)) + 1] = q
        /\ \A i \in 1 .. Len(FilesBefore(k)) : FilesBefore(k + 1)[i] = FilesBefore(k)[i]
    BY <1>3, <1>4, <1>7, FilesGrow
  <1>9. upload \in Uploads /\ r \in Seq(Byte) /\ Parts!NoFile \in FileName
        /\ saved \in Seq(FileName) /\ IsFiniteSet(DOMAIN disk)
    BY <1>6 DEF PartInv, PartRest, FileName, Parts!NoFile, Uploads
  <1>10. FilesBefore(k + 1)' = FilesBefore(k + 1)
    BY SameParts DEF AroundParts
  <1>11. q.header \in Byte /\ q.header # ""
    BY <1>4, <1>5, PartAt DEF Headers
  <1> HIDE DEF r, q, t, f
  <1>12. CASE disk' = Parts!Appended(file, t) /\ lost' = lost
              /\ upload' = [[upload EXCEPT !.saved_filenames = Append(saved, file)] EXCEPT
                                !.buffer = r, !.current_pos = 0,
                                !.current_file = Parts!NoFile, !.multi_part_state = "Start"]
    <2>1. Wrote(file, t)
      BY <1>7, <1>9, <1>11, <1>12, Writes
    <2> HIDE DEF file
    <2>2. IsFiniteSet(DOMAIN disk') /\ file \in FileName
      BY <2>1 DEF Wrote
    <2> DEFINE a == Append(saved, file)
    <2>3. a \in Seq(FileName) /\ Len(a) = Len(saved) + 1 /\ Len(saved) \in Nat
          /\ DOMAIN saved = 1 .. Len(saved) /\ DOMAIN a = 1 .. Len(a)
          /\ a[Len(saved) + 1] = file /\ \A i \in 1 .. Len(saved) : a[i] = saved[i]
      BY <1>9, <2>2, AppendProperties, LenProperties
    <2> HIDE DEF a
    <2>4. upload' = [[upload EXCEPT !.saved_filenames = a] EXCEPT
                                !.buffer = r, !.current_pos = 0,
                                !.current_file = Parts!NoFile, !.multi_part_state = "Start"]
      BY <1>12 DEF a
    <2>5. [upload EXCEPT !.saved_filenames = a] \in Uploads
      BY <1>9, <2>3 DEF Uploads
    <2>6. /\ upload' \in Uploads /\ upload'.buffer = r
          /\ upload'.current_pos = 0 /\ upload'.current_file = Parts!NoFile
          /\ upload'.multi_part_state = "Start"
      <3> DEFINE u == [upload EXCEPT !.saved_filenames = a]
      <3>1. u \in Uploads
        BY <2>5
      <3> HIDE DEF u
      <3>2. upload' = [u EXCEPT !.buffer = r, !.current_pos = 0,
                                !.current_file = Parts!NoFile, !.multi_part_state = "Start"]
        BY <2>4 DEF u
      <3> QED  BY <1>9, <3>1, <3>2 DEF Uploads
    <2>7. upload'.saved_filenames = a
      BY <1>9, <2>4 DEF Uploads
    <2>8. ASSUME ~lost
          PROVE  disk'[file] = d
      <3> DEFINE n == Len(d)
                 m == n - w
      <3>1. /\ d \in Seq(Byte) /\ n \in Nat /\ w \in Nat /\ w <= n
            /\ t \in Seq(Byte) /\ Len(t) = m /\ \A i \in 1 .. m : t[i] = d[w + i]
        BY <1>6 DEF PartRest, t, q
      <3>2. m \in Nat /\ w + m = n
        <4> HIDE DEF n
        <4> QED  BY <3>1
      <3>3. GoesOn(d, w, m, t) /\ d = message.body[k + 1].data
        <4>1. w + m <= Len(d)
          BY <3>1, <3>2
        <4> HIDE DEF m
        <4> QED  BY <3>1, <3>2, <4>1 DEF q, GoesOn
      <3>4. message.body[k + 1].header # Parts!Field
        BY <1>7 DEF q
      <3>5. SubSeq(d, 1, n) = d
        BY <3>1
      <3> HIDE DEF m, d
      <3>6. Holds(file, d, w + m)
        BY <1>3, <2>1, <2>8, <3>3, <3>4, Continued
      <3> QED  BY <3>2, <3>5, <3>6 DEF Holds
    <2>9. SavedInv(k + 1)'
      <3> DEFINE m == Len(saved)
                 F == FilesBefore(k)
                 G == FilesBefore(k + 1)
      <3> SUFFICES ASSUME ~lost
                   PROVE  Len(a) = Len(G) /\ \A i \in DOMAIN a : disk'[a[i]] = G[i].data
        BY <1>10, <1>12, <2>7 DEF SavedInv
      <3>1. m = Len(F) /\ \A i \in 1 .. m : disk[saved[i]] = F[i].data
        BY <1>2, <2>3 DEF SavedInv
      <3>2. \A i \in 1 .. m : disk'[saved[i]] = disk[saved[i]]
        BY <2>1, <2>3 DEF Wrote
      <3>3. ASSUME NEW i \in 1 .. m
            PROVE  disk'[a[i]] = G[i].data
        <4>1. a[i] = saved[i] /\ G[i] = F[i]
          BY <1>8, <2>3, <3>1
        <4> QED  BY <3>1, <3>2, <4>1
      <3>4. disk'[a[m + 1]] = G[m + 1].data
        BY <1>8, <2>3, <2>8, <3>1
      <3>5. Len(a) = m + 1 /\ Len(G) = m + 1 /\ m \in Nat /\ DOMAIN a = 1 .. m + 1
        BY <1>8, <2>3, <3>1
      <3> HIDE DEF m, G
      <3>6. \A i \in 1 .. m + 1 : i \in 1 .. m \/ i = m + 1
        BY <3>5
      <3> QED  BY <3>3, <3>4, <3>5, <3>6
    <2> QED  BY <1>1, <1>5, <1>6, <2>2, <2>6, <2>9, PartClosed DEF r, f
  <1>13. CASE lost' = TRUE /\ disk' = disk
              /\ upload' = [upload EXCEPT !.buffer = r, !.current_pos = 0,
                                          !.current_file = Parts!NoFile, !.multi_part_state = "Start"]
    <2>1. /\ upload' \in Uploads /\ upload'.buffer = r
          /\ upload'.current_pos = 0 /\ upload'.current_file = Parts!NoFile
          /\ upload'.multi_part_state = "Start"
      BY <1>9, <1>13 DEF Uploads
    <2>2. SavedInv(k + 1)'
      BY <1>13 DEF SavedInv
    <2> QED  BY <1>1, <1>5, <1>6, <1>9, <1>13, <2>1, <2>2, PartClosed DEF r, f
  <1> QED  BY <1>1, <1>12, <1>13

-----------------------------------------------------------------------------
(* A part whose end has not arrived: all but the tail is written.          *)

(* What is written is data of the part: the tail is at least as long as    *)
(* what can have arrived of the line break and the delimiter.              *)
FlushReads(k, w, m) ==
    LET s == upload.buffer
        p == upload.data_start
        d == message.body[k + 1].data
        t == Slice(s, p, Parts!WriteEnd)
        r == Drop(s, p, Parts!WriteEnd) IN
    /\ m \in Nat /\ m > 0 /\ w \in Nat /\ w + m \in 0 .. Len(d) /\ d \in Seq(Byte)
    /\ t \in Seq(Byte) /\ Len(t) = m /\ \A i \in 1 .. m : t[i] = d[w + i]
    /\ r \in Seq(Byte) /\ Len(r) = Len(s) - m /\ p \in 0 .. Len(r) /\ p \in Nat
    /\ Len(s) \in Nat /\ Used = Base + Len(s) /\ Base \in Int /\ Used \in Nat
    /\ (Base + m) + p = PartOffset(k) + 10 + (w + m)
    /\ \A i \in p + 1 .. Len(r) : r[i] = Wire[(Base + m) + i]
    /\ Used < PartOffset(k + 1) + 3

(* All that a flush writes is data of the part: the tail it leaves is long *)
(* enough to hold a line break and a delimiter that has not come whole.    *)
LEMMA FlushRead ==
    ASSUME BufferInv, ~Chunked, PartInv, NEW k \in 0 .. Count - 1,
           NEW w \in 0 .. Len(message.body[k + 1].data), AtPart(k, w),
           Parts!NextDelimiter = NotFound, Parts!WriteEnd > upload.data_start
    PROVE  FlushReads(k, w, Parts!WriteEnd - upload.data_start)
  <1> DEFINE s == upload.buffer
             n == Len(s)
             b == Base
             p == upload.data_start
             o == PartOffset(k)
             e == PartOffset(k + 1)
             d == message.body[k + 1].data
             c == Len(d)
             v == w
             a == Parts!WriteEnd
             m == a - p
             t == Slice(s, p, a)
             h == Slice(s, 0, p)
             z == Drain(s, a)
             r == h \o z
  <1>1. /\ Window(s, p, b) /\ Used \in Nat /\ b \in Int /\ n \in Nat /\ Used = b + n
        /\ message \in Messages /\ Count \in Nat /\ s \in Seq(Byte)
    <2>1. message \in Messages
      BY BufferType
    <2>2. Count \in Nat
      BY <2>1, MultipartIs
    <2>3. k \in 0 .. Count /\ PartPlace(k) /\ Position = p
      BY <2>2 DEF PartPlace, AtPart, Position
    <2> QED  BY <2>3, WindowOf
  <1>2. Used < e + 3
    BY NextDelimiterAt DEF NotFound
  <1>3. /\ d \in Seq(Byte) /\ c \in Nat /\ o \in Nat /\ e = o + c + 12
        /\ \A i \in 1 .. c : Wire[o + 10 + i] = d[i]
    BY <1>1, PartAt
  <1>4. p \in 0 .. n /\ b + p = o + 10 + v /\ v \in 0 .. c
    BY DEF AtPart
  <1>5. \A i \in p + 1 .. n : s[i] = Wire[b + i]
    BY <1>1 DEF Window
  <1>6. a = n - (1 + Slack) /\ Slack \in Nat /\ Slack >= 3 /\ a > p
    <2>1. Len(Parts!Boundary) = 1
      BY DEF Parts!Boundary
    <2> QED  BY <2>1, LimitsAssumption DEF Parts!WriteEnd, Parts!SafetyMargin
  <1> HIDE DEF a, v
  <1>7. /\ p \in Nat /\ a \in Nat /\ p <= a /\ a <= n /\ a \in 0 .. n
        /\ m \in Nat /\ m > 0 /\ a = p + m /\ v \in Nat /\ v + m \in 0 .. c
        /\ (b + m) + p = o + 10 + (v + m)
    <2>1. /\ n \in Nat /\ b \in Int /\ o \in Nat /\ c \in Nat /\ e = o + c + 12 /\ b + n < e + 3
          /\ p \in 0 .. n /\ b + p = o + 10 + v /\ v \in 0 .. c
      BY <1>1, <1>2, <1>3, <1>4
    <2> HIDE DEF n, b, p, o, e, c, m
    <2>2. p \in Nat /\ v \in Nat /\ a \in Int /\ a > p /\ b + n < o + c + 15
      BY <1>6, <2>1
    <2>3. a \in Nat /\ a <= n /\ a <= n - 4 /\ p <= a
      BY <1>6, <2>1, <2>2
    <2>4. m = a - p
      BY DEF m
    <2>5. m \in Nat /\ m > 0 /\ a = p + m
      BY <2>2, <2>3, <2>4
    <2>6. b + (p + m) <= o + 10 + c
      BY <2>1, <2>2, <2>3, <2>5
    <2>7. v + m <= c /\ (b + m) + p = o + 10 + (v + m)
      BY <2>1, <2>2, <2>5, <2>6
    <2> QED  BY <2>1, <2>2, <2>3, <2>5, <2>7
  <1>8. t \in Seq(Byte) /\ Sliced(s, p, a, t)
    <2>1. p \in Nat /\ a \in Nat /\ p <= a /\ a <= Len(s) /\ s \in Seq(Byte)
      BY <1>1, <1>7
    <2> HIDE DEF p, s
    <2> QED  BY <2>1, SliceOf
  <1>9. h \in Seq(Byte) /\ Len(h) = p
    <2>1. p \in Nat /\ 0 \in Nat /\ 0 <= p /\ p <= Len(s) /\ s \in Seq(Byte) /\ p - 0 = p
      BY <1>1, <1>4, <1>7
    <2> HIDE DEF p, s
    <2>2. h \in Seq(Byte) /\ Sliced(s, 0, p, h)
      BY <2>1, SliceOf
    <2> QED  BY <2>1, <2>2 DEF Sliced
  <1>10. z \in Seq(Byte) /\ Sliced(s, a, n, z)
    <2>1. a \in 0 .. Len(s) /\ s \in Seq(Byte)
      BY <1>1, <1>7
    <2> HIDE DEF s
    <2> QED  BY <2>1, DrainOf
  <1> HIDE DEF t, h, z
  <1>11. Joined(h, z, r)
    BY <1>9, <1>10, Join
  <1> HIDE DEF r
  <1>12. /\ r \in Seq(Byte) /\ Len(r) = p + (n - a)
         /\ \A i \in 1 .. n - a : r[p + i] = s[a + i]
    BY <1>9, <1>10, <1>11 DEF Joined, Sliced
  <1>13. Len(t) = m /\ \A i \in 1 .. m : t[i] = s[p + i]
    BY <1>8 DEF Sliced
  <1>14. ASSUME NEW i \in 1 .. m
         PROVE  t[i] = d[v + i]
    <2>1. p + i \in p + 1 .. n /\ v + i \in 1 .. c /\ b + (p + i) = o + 10 + (v + i)
      <3> DEFINE y == p
                 l == m
      <3>1. /\ y \in Nat /\ l \in Nat /\ b + y = o + 10 + v /\ v + l \in 0 .. c /\ i \in 1 .. l
            /\ y + l <= n /\ n \in Nat /\ b \in Int /\ o \in Nat /\ c \in Nat /\ v \in Nat
        BY <1>1, <1>3, <1>4, <1>7
      <3> HIDE DEF n, b, y, o, c, l
      <3>2. y + i \in y + 1 .. n /\ v + i \in 1 .. c /\ b + (y + i) = o + 10 + (v + i)
        BY <3>1
      <3> QED  BY <3>2 DEF y
    <2>2. t[i] = s[p + i]
      BY <1>13
    <2>3. s[p + i] = Wire[b + (p + i)]
      BY <1>5, <2>1
    <2>4. Wire[o + 10 + (v + i)] = d[v + i]
      BY <1>3, <2>1
    <2> QED  BY <2>1, <2>2, <2>3, <2>4
  <1>15. Len(r) = n - m /\ p \in 0 .. Len(r)
    <2> DEFINE y == p
               l == m
               x == Len(r)
    <2>1. y \in Nat /\ l \in Nat /\ a = y + l /\ a <= n /\ n \in Nat /\ x = y + (n - a) /\ a \in Nat
      BY <1>1, <1>7, <1>12
    <2> HIDE DEF n, y, l, x
    <2>2. x = n - l /\ y \in 0 .. x
      BY <2>1
    <2> QED  BY <2>2 DEF y, l, x
  <1>16. ASSUME NEW i \in p + 1 .. Len(r)
         PROVE  r[i] = Wire[(b + m) + i]
    <2> DEFINE y == p
               l == m
               x == Len(r)
               g == i - y
    <2>1. /\ y \in Nat /\ l \in Nat /\ a = y + l /\ a <= n /\ n \in Nat /\ x = y + (n - a) /\ a \in Nat
          /\ i \in y + 1 .. x /\ b \in Int
      BY <1>1, <1>7, <1>12
    <2> HIDE DEF n, y, l, x, b
    <2>2. g \in 1 .. n - a /\ y + g = i /\ a + g \in y + 1 .. n /\ b + (a + g) = (b + l) + i
      BY <2>1
    <2> HIDE DEF g
    <2>3. r[y + g] = s[a + g]
      BY <1>12, <2>2 DEF y, n
    <2>4. s[a + g] = Wire[b + (a + g)]
      BY <1>5, <2>2 DEF y, n, b
    <2> QED  BY <2>2, <2>3, <2>4 DEF l, b
  <1>17. r = Drop(s, p, a) /\ t = Slice(s, p, a)
    BY DEF Drop, r, h, z, t
  <1> HIDE DEF m
  <1>18. FlushReads(k, w, m)
    BY <1>1, <1>2, <1>3, <1>7, <1>8, <1>12, <1>13, <1>14, <1>15, <1>16, <1>17 DEF FlushReads, a, v
  <1> QED  BY <1>18 DEF m, a

(* A flush in the middle of a part leaves the first bytes of its data in   *)
(* its file.                                                               *)
LEMMA DataFlushed ==
    ASSUME BufferInv, NamesInv, ~Chunked, PartInv, AroundParts, Parts!Flush
    PROVE  BufferInv' /\ PartInv'
  <1> DEFINE s == upload.buffer
             p == upload.data_start
             a == Parts!WriteEnd
             m == a - p
             base == IF upload.part = Parts!Field THEN "tmp_upload" ELSE upload.part
             file == Parts!Target(base)
             t == Slice(s, p, a)
             r == Drop(s, p, a)
             saved == upload.saved_filenames
  <1>1. /\ upload.multi_part_state = "NextBoundary" /\ Parts!NextDelimiter = NotFound /\ a > p
        /\ \/ disk' = Parts!Appended(file, t) /\ lost' = lost
           \/ lost' = TRUE /\ disk' = disk
        /\ upload' = [upload EXCEPT !.buffer = r, !.current_pos = p, !.current_file = file]
        /\ pc' = "fed"
    BY SameBytes DEF Parts!Flush, Parts!At
  <1>2. PICK k \in 0 .. Count : SavedInv(k) /\ PartPlace(k)
    BY DEF PartInv
  <1>3. PICK w \in 0 .. Len(message.body[k + 1].data) : k < Count /\ AtPart(k, w)
    BY <1>1, <1>2, PartPlaced
  <1>4. message \in Messages /\ Count \in Nat
    BY BufferType, MultipartIs
  <1>5. k \in 0 .. Count - 1
    BY <1>3, <1>4
  <1>6. FlushReads(k, w, m)
    BY <1>1, <1>3, <1>5, FlushRead
  <1> DEFINE q == message.body[k + 1]
             d == q.data
  <1>7. q.header = upload.part /\ q.header \in Byte /\ q.header # ""
    BY <1>3, <1>4, <1>5, PartAt DEF AtPart, Headers
  <1>8. upload \in Uploads /\ IsFiniteSet(DOMAIN disk) /\ saved \in Seq(FileName)
    BY DEF PartInv, Uploads
  <1>9. base \in Byte \cup {"tmp_upload"} /\ base # ""
    BY <1>7
  <1> HIDE DEF base, m
  <1>10. file \in FileName /\ file # Parts!NoFile
    BY <1>8, <1>9, Targets
  <1>11. IsFiniteSet(DOMAIN disk') /\ (~lost' => ~lost /\ Wrote(file, t))
    <2>1. CASE disk' = Parts!Appended(file, t) /\ lost' = lost
      <3> HIDE DEF t
      <3>1. Wrote(file, t)
        BY <1>8, <1>9, <2>1, Writes
      <3> QED  BY <2>1, <3>1 DEF Wrote
    <2>2. CASE lost' = TRUE /\ disk' = disk
      BY <1>8, <2>2
    <2> QED  BY <1>1, <2>1, <2>2
  <1> HIDE DEF file
  <1>12. /\ m \in Nat /\ m > 0 /\ w \in Nat /\ w + m \in 0 .. Len(d) /\ d \in Seq(Byte)
         /\ t \in Seq(Byte) /\ Len(t) = m /\ \A i \in 1 .. m : t[i] = d[w + i]
         /\ r \in Seq(Byte) /\ Len(r) = Len(s) - m /\ p \in 0 .. Len(r) /\ p \in Nat
         /\ Len(s) \in Nat /\ Used = Base + Len(s) /\ Base \in Int /\ Used \in Nat
         /\ (Base + m) + p = PartOffset(k) + 10 + (w + m)
         /\ \A i \in p + 1 .. Len(r) : r[i] = Wire[(Base + m) + i]
         /\ Used < PartOffset(k + 1) + 3
    BY <1>6 DEF FlushReads
  <1> HIDE DEF r, t, a
  <1>13. /\ upload' \in Uploads /\ upload'.buffer = r /\ upload'.current_pos = p
         /\ upload'.current_file = file /\ upload'.saved_filenames = saved
         /\ upload'.data_start = p /\ upload'.part = upload.part
         /\ upload'.multi_part_state = "NextBoundary"
    BY <1>1, <1>8, <1>10, <1>12 DEF Uploads
  <1>14. /\ Used' = Used /\ Count' = Count /\ message.body' = message.body
         /\ PartOffset(k)' = PartOffset(k) /\ FilesBefore(k)' = FilesBefore(k)
         /\ PartOffset(k + 1)' = PartOffset(k + 1)
    BY BufferKept, SameParts DEF AroundParts
  <1>15. Base' = Base + m /\ Position' = p
    <2>1. Base' = Used - Len(r)
      BY <1>13, <1>14 DEF Base
    <2> DEFINE n == Len(s)
               b == Base
               x == Len(r)
    <2>2. m \in Nat /\ n \in Nat /\ b \in Int /\ x = n - m /\ Used = b + n
      BY <1>12
    <2> HIDE DEF n, b, x
    <2>3. Used - x = b + m
      BY <2>2
    <2> QED  BY <1>13, <2>1, <2>3 DEF x, b, Position
  <1>16. ASSUME ~lost', q.header # Parts!Field
         PROVE  Holds(file, d, w + m)
    <2>1. ~lost /\ Wrote(file, t)
      BY <1>11, <1>16
    <2>2. GoesOn(d, w, m, t) /\ d = message.body[k + 1].data
      BY <1>12 DEF GoesOn
    <2>3. message.body[k + 1].header # Parts!Field
      BY <1>16
    <2> HIDE DEF d
    <2> QED  BY <1>3, <2>1, <2>2, <2>3, Continued
  <1>17. PICK v \in 0 .. Len(d) : v = w + m
    BY <1>12
  <1>18. v > 0 /\ v # 0 /\ v \in Nat /\ (Base + m) + p = PartOffset(k) + 10 + v
    <2>1. v > 0
      BY <1>12, <1>17
    <2> QED  BY <1>12, <1>17, <2>1
  <1>19. ~lost' /\ q.header # Parts!Field => disk'[file] = SubSeq(d, 1, v)
    BY <1>16, <1>17 DEF Holds
  <1>20. AtPart(k, v)'
    <2> DEFINE x == (message.body[k + 1])'
    <2>1. x = q
      BY <1>14
    <2> HIDE DEF x
    <2>2. /\ (upload.multi_part_state = "NextBoundary")' /\ (upload.part)' = x.header
          /\ (upload.data_start \in 0 .. Len(upload.buffer))'
          /\ (upload.current_pos = upload.data_start)'
      BY <1>7, <1>12, <1>13, <2>1
    <2>3. (Base + upload.data_start = PartOffset(k) + 10 + v)'
      BY <1>13, <1>14, <1>15, <1>18
    <2>4. (v = 0 <=> upload.current_file = Parts!NoFile)'
      BY <1>10, <1>13, <1>18
    <2>5. (~lost)' /\ v > 0 /\ x.header # Parts!Field =>
             (disk[upload.current_file])' = SubSeq(x.data, 1, v)
      BY <1>13, <1>19, <2>1
    <2>6. (Used < PartOffset(k + 1) + 3)'
      BY <1>12, <1>14
    <2> QED  BY <2>2, <2>3, <2>4, <2>5, <2>6 DEF AtPart, x
  <1>21. PartPlace(k)'
    <2>1. v \in 0 .. Len(message.body[k + 1].data)' /\ k < Count'
      BY <1>3, <1>14, <1>17
    <2> QED  BY <1>20, <2>1 DEF PartPlace
  <1>22. SavedInv(k)'
    <2> SUFFICES ASSUME ~lost'
                 PROVE  /\ Len(saved) = Len(FilesBefore(k))
                        /\ \A i \in DOMAIN saved : disk'[saved[i]] = FilesBefore(k)[i].data
      BY <1>13, <1>14 DEF SavedInv
    <2>1. /\ Len(saved) = Len(FilesBefore(k))
          /\ \A i \in DOMAIN saved : disk[saved[i]] = FilesBefore(k)[i].data
      BY <1>2, <1>11 DEF SavedInv
    <2>2. \A i \in DOMAIN saved : disk'[saved[i]] = disk[saved[i]]
      BY <1>11 DEF Wrote
    <2> QED  BY <2>1, <2>2
  <1>23. \A i \in Position' + 1 .. Len(upload'.buffer) : upload'.buffer[i] = Wire[Base' + i]
    BY <1>12, <1>13, <1>15
  <1> QED  BY <1>1, <1>11, <1>13, <1>21, <1>22, <1>23, PartsKept

-----------------------------------------------------------------------------
(* The other steps.                                                        *)

(* A step that leaves the upload alone.                                    *)
LEMMA PartStays ==
    ASSUME NEW k, PartPlace(k), SavedInv(k), message' = message, upload' = upload, Used' = Used,
           lost' = lost, pc' \in {"fed", "complete"} => pc \in {"fed", "complete"},
           ~lost /\ upload.current_file # Parts!NoFile =>
               disk'[upload.current_file] = disk[upload.current_file],
           ~lost => \A i \in DOMAIN upload.saved_filenames :
               disk'[upload.saved_filenames[i]] = disk[upload.saved_filenames[i]]
    PROVE  PartPlace(k)' /\ SavedInv(k)' /\ Base' = Base /\ Position' = Position
  <1>1. Base' = Base /\ Position' = Position /\ Count' = Count /\ message.body' = message.body
    BY DEF Base, Position, Count
  <1>2. PartOffset(k)' = PartOffset(k) /\ PartOffset(k + 1)' = PartOffset(k + 1)
        /\ FilesBefore(k)' = FilesBefore(k)
    BY SameParts
  <1>3. ASSUME AtDelimiter(k)
        PROVE  PartPlace(k)'
    <2>1. AtDelimiter(k)'
      BY <1>1, <1>2, <1>3 DEF AtDelimiter
    <2> QED  BY <2>1 DEF PartPlace
  <1>4. ASSUME AtHeader(k)
        PROVE  PartPlace(k)'
    <2>1. AtHeader(k)'
      BY <1>1, <1>2, <1>4 DEF AtHeader
    <2> QED  BY <2>1 DEF PartPlace
  <1>5. ASSUME k < Count, NEW w \in 0 .. Len(message.body[k + 1].data), AtPart(k, w)
        PROVE  PartPlace(k)'
    <2>1. AtPart(k, w)'
      BY <1>1, <1>2, <1>5 DEF AtPart
    <2>2. w \in 0 .. Len(message.body[k + 1].data)' /\ k < Count'
      BY <1>1, <1>5
    <2> QED  BY <2>1, <2>2 DEF PartPlace
  <1>6. PartPlace(k)'
    BY <1>3, <1>4, <1>5 DEF PartPlace
  <1>7. SavedInv(k)'
    BY <1>2 DEF SavedInv
  <1> QED  BY <1>1, <1>6, <1>7

(* A fragment that arrives puts more of the wire behind what is buffered.  *)
LEMMA DeliverParts ==
    ASSUME BufferInv, ~Chunked, PartInv, Deliver
    PROVE  BufferInv' /\ PartInv'
  <1>1. Wire \in Seq(Byte)
    BY BufferType, PartsEndAt
  <1>2. BufferInv' /\ Used' = Used
    BY <1>1, Delivered
  <1>3. /\ message' = message /\ UNCHANGED chunkVars /\ pc' = "take"
        /\ UNCHANGED <<upload, disk, lost, body_remaining>>
    BY DEF Deliver, Chunked, fileVars
  <1>4. PICK k \in 0 .. Count : SavedInv(k) /\ PartPlace(k)
    BY DEF PartInv
  <1>5. PartPlace(k)' /\ SavedInv(k)' /\ Base' = Base /\ Position' = Position
    BY <1>2, <1>3, <1>4, PartStays
  <1>6. Wire' = Wire /\ Count' = Count /\ BodyWire(message)' = BodyWire(message)
    BY <1>3, SameParts
  <1> QED  BY <1>2, <1>3, <1>4, <1>5, <1>6 DEF PartInv, chunkVars

(* The body is complete when all its bytes were taken, and taking them     *)
(* moves the window of the upload along the wire.                          *)
LEMMA TurnEnds ==
    ASSUME BufferInv, ~Chunked, PartInv, BodyTaken
    PROVE  BufferInv' /\ PartInv'
  <1>1. /\ UNCHANGED <<message, arrived, buffer>> /\ UNCHANGED chunkVars
        /\ UNCHANGED <<upload, disk, lost, body_remaining>>
        /\ pc = "fed" /\ pc' = IF body_remaining = 0 THEN "complete" ELSE "wait"
    BY DEF BodyTaken, fileVars
  <1>2. BufferInv' /\ Used' = Used
    BY <1>1, BufferKept
  <1>4. PICK k \in 0 .. Count : SavedInv(k) /\ PartPlace(k)
    BY DEF PartInv
  <1>5. PartPlace(k)' /\ SavedInv(k)' /\ Base' = Base /\ Position' = Position
    BY <1>1, <1>2, <1>4, PartStays
  <1>6. Wire' = Wire /\ Count' = Count /\ BodyWire(message)' = BodyWire(message)
    BY <1>1, SameParts
  <1> QED  BY <1>1, <1>2, <1>4, <1>5, <1>6 DEF PartInv, chunkVars

(* Another connection takes a name that nobody has.                        *)
LEMMA OtherStored ==
    ASSUME BufferInv, NamesInv, ~Chunked, PartInv, OtherStores
    PROVE  BufferInv' /\ NamesInv' /\ PartInv'
  <1> DEFINE file == Parts!UniqueName(message.body[1].header)
             data == <<"other">>
  <1>1. /\ UNCHANGED <<message, arrived, buffer>> /\ UNCHANGED chunkVars
        /\ UNCHANGED <<upload, lost, body_remaining, pc>> /\ pc = "wait"
        /\ others' = others \cup {file} /\ disk' = Parts!Appended(file, data)
    BY DEF OtherStores
  <1>2. BufferInv' /\ Used' = Used
    BY <1>1, BufferKept
  <1>3. IsFiniteSet(DOMAIN disk)
    BY DEF PartInv
  <1>4. file \notin DOMAIN disk
    BY <1>3, FreshName
  <1> HIDE DEF file
  <1>5. AppendedTo(disk', file, data)
    BY <1>1, Appends
  <1>6. /\ DOMAIN disk' = DOMAIN disk \cup {file} /\ IsFiniteSet(DOMAIN disk')
        /\ \A f \in DOMAIN disk : f # file /\ disk'[f] = disk[f]
        /\ disk'[file] = <<"other">>
    <2>1. <<>> \o data = <<"other">>
      OBVIOUS
    <2> QED  BY <1>3, <1>4, <1>5, <2>1 DEF AppendedTo
  <1>7. NamesInv'
    BY <1>1, <1>6 DEF NamesInv
  <1>8. PICK k \in 0 .. Count : SavedInv(k) /\ PartPlace(k)
    BY DEF PartInv
  <1>9. PartPlace(k)' /\ SavedInv(k)' /\ Base' = Base /\ Position' = Position
    <2>1. ~lost /\ upload.current_file # Parts!NoFile =>
               disk'[upload.current_file] = disk[upload.current_file]
      BY <1>6 DEF NamesInv
    <2>2. \A i \in DOMAIN upload.saved_filenames :
               disk'[upload.saved_filenames[i]] = disk[upload.saved_filenames[i]]
      BY <1>6 DEF NamesInv
    <2> QED  BY <1>1, <1>2, <1>8, <2>1, <2>2, PartStays
  <1>10. Wire' = Wire /\ Count' = Count /\ BodyWire(message)' = BodyWire(message)
    BY <1>1, SameParts
  <1> QED  BY <1>1, <1>2, <1>6, <1>7, <1>8, <1>9, <1>10 DEF PartInv, chunkVars

(* What came of the body is fed to the upload.                             *)
LEMMA BodyFed ==
    ASSUME BufferInv, ~Chunked, PartInv, TakeBody
    PROVE  BufferInv' /\ PartInv'
  <1> DEFINE s == upload.buffer
             m == ToProcess
             t == Slice(buffer, 0, m)
             r == s \o t
             n == Len(s)
             b == Base
  <1>1. /\ UNCHANGED <<message, arrived, disk, lost>> /\ UNCHANGED chunkVars /\ pc' = "upload"
        /\ upload' = [upload EXCEPT !.buffer = r] /\ buffer' = Drain(buffer, m)
        /\ body_remaining' = body_remaining - m
    BY DEF TakeBody
  <1>2. PICK k \in 0 .. Count : SavedInv(k) /\ PartPlace(k)
    BY DEF PartInv
  <1>3. /\ Window(s, Position, b) /\ Used \in Nat /\ b \in Int /\ n \in Nat /\ Used = b + n
        /\ message \in Messages /\ Count \in Nat /\ s \in Seq(Byte)
    BY <1>2, WindowOf
  <1>4. /\ buffer \in Seq(Byte) /\ Len(buffer) \in Nat
        /\ \A i \in 1 .. Len(buffer) : buffer[i] = Wire[Used + i]
    BY BufferType DEF BufferInv
  <1>5. /\ body_remaining = Len(BodyWire(message)) - Used /\ body_remaining >= 0
        /\ Len(BodyWire(message)) \in Nat
    <2>1. Len(BodyWire(message)) = PartOffset(Count) + 7 /\ PartOffset(Count) \in Nat
      BY <1>3, PartsEndAt
    <2> QED  BY <2>1 DEF PartInv
  <1>6. m \in 0 .. Len(buffer) /\ m <= body_remaining /\ m \in Nat
    <2> DEFINE x == Len(buffer)
               y == Len(BodyWire(message))
    <2>1. x \in Nat /\ y \in Nat /\ body_remaining = y - Used /\ Used \in Nat /\ body_remaining >= 0
      BY <1>3, <1>4, <1>5
    <2>2. m = IF x < body_remaining THEN x ELSE body_remaining
      BY DEF ToProcess
    <2> HIDE DEF x, y, m
    <2>3. body_remaining \in Nat
      BY <2>1
    <2>4. m \in 0 .. x /\ m <= body_remaining /\ m \in Nat
      BY <2>1, <2>2, <2>3
    <2> QED  BY <2>4 DEF x
  <1> HIDE DEF m
  <1>7. BufferInv' /\ Used' = Used + m
    BY <1>1, <1>6, Drained
  <1>8. t \in Seq(Byte) /\ Len(t) = m /\ \A i \in 1 .. m : t[i] = buffer[i]
    <2>1. 0 \in Nat /\ m \in Nat /\ 0 <= m /\ m <= Len(buffer) /\ buffer \in Seq(Byte) /\ m - 0 = m
      BY <1>4, <1>6
    <2>2. t \in Seq(Byte) /\ Sliced(buffer, 0, m, t)
      BY <2>1, SliceOf
    <2> HIDE DEF t
    <2>3. Len(t) = m /\ \A i \in 1 .. m : t[i] = buffer[0 + i]
      BY <2>1, <2>2 DEF Sliced
    <2> QED  BY <2>2, <2>3
  <1> HIDE DEF t
  <1>9. Joined(s, t, r)
    BY <1>3, <1>8, Join
  <1> HIDE DEF r
  <1>10. /\ r \in Seq(Byte) /\ Len(r) = n + m
         /\ \A i \in 1 .. n : r[i] = s[i]
         /\ \A i \in 1 .. m : r[n + i] = t[i]
    BY <1>8, <1>9 DEF Joined
  <1>11. upload \in Uploads
    BY DEF PartInv
  <1>12. /\ upload' \in Uploads /\ upload'.buffer = r
         /\ upload'.multi_part_state = upload.multi_part_state
         /\ upload'.current_pos = upload.current_pos /\ upload'.data_start = upload.data_start
         /\ upload'.part = upload.part /\ upload'.current_file = upload.current_file
         /\ upload'.saved_filenames = upload.saved_filenames
    BY <1>1, <1>10, <1>11 DEF Uploads
  <1>13. Base' = b /\ Position' = Position
    <2>1. Base' = Used' - Len(r)
      BY <1>12 DEF Base
    <2>2. Used' = (b + n) + m /\ b \in Int /\ n \in Nat /\ m \in Nat
      BY <1>3, <1>6, <1>7
    <2> DEFINE x == Len(r)
               y == Used'
    <2>3. x = n + m
      BY <1>10
    <2> HIDE DEF n, b, x, y
    <2>4. y - x = b
      BY <2>2, <2>3 DEF y
    <2> QED  BY <1>12, <2>1, <2>4 DEF Position, x, y
  <1>14. /\ Wire' = Wire /\ Count' = Count /\ BodyWire(message)' = BodyWire(message)
         /\ PartOffset(k)' = PartOffset(k) /\ PartOffset(k + 1)' = PartOffset(k + 1)
         /\ FilesBefore(k)' = FilesBefore(k) /\ message.body' = message.body
    BY <1>1, SameParts
  <1>15. ASSUME NEW i \in Position + 1 .. Len(r)
         PROVE  r[i] = Wire[b + i]
    <2> DEFINE p == Position
               g == i - n
    <2>1. p \in Nat /\ p <= n /\ i \in p + 1 .. n + m
      BY <1>3, <1>10 DEF Window
    <2> HIDE DEF p
    <2>2. CASE i <= n
      <3>1. i \in p + 1 .. n /\ i \in 1 .. n
        <4> HIDE DEF n
        <4> QED  BY <1>3, <2>1, <2>2
      <3>2. s[i] = Wire[b + i]
        BY <1>3, <3>1 DEF Window, p
      <3> QED  BY <1>10, <3>1, <3>2
    <2>3. CASE i > n
      <3>1. g \in 1 .. m /\ n + g = i /\ Used + g = b + i /\ g \in 1 .. Len(buffer)
        <4> HIDE DEF n, b
        <4> QED  BY <1>3, <1>4, <1>6, <2>1, <2>3
      <3> HIDE DEF g
      <3> QED  BY <1>4, <1>8, <1>10, <3>1
    <2> QED  BY <1>3, <2>1, <2>2, <2>3
  <1>16. Len(s) \in Nat /\ Len(r) \in Nat /\ Len(s) <= Len(r)
    <2> DEFINE x == Len(r)
    <2>1. x = n + m
      BY <1>10
    <2> HIDE DEF n, x
    <2>2. n \in Nat /\ x \in Nat /\ n <= x
      BY <1>3, <1>6, <2>1
    <2> QED  BY <2>2 DEF n, x
  <1>17. PartPlace(k)'
    <2>1. ASSUME AtDelimiter(k)
          PROVE  PartPlace(k)'
      <3>1. AtDelimiter(k)'
        BY <1>1, <1>12, <1>13, <1>14, <2>1 DEF AtDelimiter
      <3> QED  BY <3>1 DEF PartPlace
    <2>2. ASSUME AtHeader(k)
          PROVE  PartPlace(k)'
      <3>1. upload.current_pos \in 0 .. Len(r)
        <4>1. upload.current_pos \in 0 .. Len(s)
          BY <2>2 DEF AtHeader
        <4> HIDE DEF s
        <4> QED  BY <1>16, <4>1
      <3>2. AtHeader(k)'
        BY <1>1, <1>12, <1>13, <1>14, <2>2, <3>1 DEF AtHeader
      <3> QED  BY <3>2 DEF PartPlace
    <2>3. ASSUME k < Count, NEW w \in 0 .. Len(message.body[k + 1].data), AtPart(k, w)
          PROVE  PartPlace(k)'
      <3>1. upload.data_start \in 0 .. Len(r)
        <4>1. upload.data_start \in 0 .. Len(s)
          BY <2>3 DEF AtPart
        <4> HIDE DEF s
        <4> QED  BY <1>16, <4>1
      <3>2. AtPart(k, w)'
        BY <1>1, <1>12, <1>13, <1>14, <2>3, <3>1 DEF AtPart
      <3>3. w \in 0 .. Len(message.body[k + 1].data)' /\ k < Count'
        BY <1>14, <2>3
      <3> QED  BY <3>2, <3>3 DEF PartPlace
    <2> QED  BY <1>2, <2>1, <2>2, <2>3 DEF PartPlace
  <1>18. SavedInv(k)'
    BY <1>1, <1>2, <1>12, <1>14 DEF SavedInv
  <1>19. body_remaining' = Len(BodyWire(message))' - Used' /\ body_remaining' >= 0
    <2> DEFINE l == Len(BodyWire(message))
    <2>1. /\ l \in Nat /\ body_remaining = l - Used /\ Used \in Nat /\ m \in Nat /\ m <= body_remaining
          /\ body_remaining' = body_remaining - m /\ Used' = Used + m
      BY <1>1, <1>3, <1>5, <1>6, <1>7
    <2>2. l' = l
      BY <1>14
    <2> HIDE DEF l
    <2>3. body_remaining' = l - Used' /\ body_remaining' >= 0
      BY <2>1
    <2> QED  BY <2>2, <2>3 DEF l
  <1>20. \A i \in Position' + 1 .. Len(upload'.buffer) : upload'.buffer[i] = Wire'[Base' + i]
    BY <1>12, <1>13, <1>14, <1>15
  <1> QED  BY <1>1, <1>2, <1>7, <1>12, <1>14, <1>17, <1>18, <1>19, <1>20 DEF PartInv, chunkVars

-----------------------------------------------------------------------------
(* The decoder's turn, and whose the files are.                            *)

(* Every turn of the decoder of parts leaves it at the byte of the wire    *)
(* the invariant says.                                                     *)
LEMMA PartTurn ==
    ASSUME BufferInv, NamesInv, ~Chunked, PartInv, DecodeParts
    PROVE  BufferInv' /\ PartInv'
  <1>1. AroundParts
    BY DEF DecodeParts, AroundParts
  <1>2. \/ Parts!NextPart \/ Parts!PartWait \/ Parts!NoPart \/ Parts!Header \/ Parts!HeaderWait
        \/ Parts!FilePartEnd \/ Parts!FieldEnd \/ Parts!Flush \/ Parts!DataWait
    BY DEF DecodeParts, Parts!Next
  <1> QED  BY <1>1, <1>2, PartBegins, PartsWait, NoPartKept, HeaderRead, FileClosed, FieldClosed,
              DataFlushed

(* A step that touches no file keeps what is said about whose the files    *)
(* are.                                                                    *)
LEMMA NamesStay ==
    ASSUME NamesInv, UNCHANGED <<disk, lost, others>>,
           upload'.saved_filenames = upload.saved_filenames,
           upload'.current_file \in {upload.current_file, Parts!NoFile}
    PROVE  NamesInv'
  BY DEF NamesInv

(* Every turn of the decoder of parts keeps files of others apart from     *)
(* those of this upload, until one is lost.                                *)
LEMMA NamesKept ==
    ASSUME BufferInv, NamesInv, ~Chunked, PartInv, DecodeParts
    PROVE  NamesInv'
  <1> DEFINE saved == upload.saved_filenames
  <1>1. /\ others' = others /\ upload \in Uploads /\ saved \in Seq(FileName)
        /\ IsFiniteSet(DOMAIN disk)
    BY DEF DecodeParts, PartInv, Uploads
  <1>2. PICK k \in 0 .. Count : PartPlace(k)
    BY DEF PartInv
  <1>3. upload.multi_part_state = "NextBoundary" => upload.part \in Byte /\ upload.part # ""
    <2> SUFFICES ASSUME upload.multi_part_state = "NextBoundary"
                 PROVE  upload.part \in Byte /\ upload.part # ""
      OBVIOUS
    <2>1. PICK w \in 0 .. Len(message.body[k + 1].data) : k < Count /\ AtPart(k, w)
      BY <1>2, PartPlaced
    <2>2. message \in Messages /\ Count \in Nat
      BY BufferType, MultipartIs
    <2>3. k \in 0 .. Count - 1
      BY <2>1, <2>2
    <2> QED  BY <2>1, <2>2, <2>3, PartAt DEF AtPart, Headers
  <1>4. /\ \A i \in DOMAIN saved : saved[i] \in DOMAIN disk
        /\ DOMAIN saved = 1 .. Len(saved) /\ Len(saved) \in Nat
    BY <1>1, LenProperties DEF NamesInv
  <1>5. ASSUME Parts!FilePartEnd
        PROVE  NamesInv'
    <2> DEFINE file == Parts!Target(upload.part)
               r == Drain(upload.buffer, Parts!NextDelimiter)
               t == Slice(upload.buffer, upload.data_start, Parts!DataEnd)
    <2>1. /\ upload.multi_part_state = "NextBoundary"
          /\ \/ /\ disk' = Parts!Appended(file, t) /\ lost' = lost
                /\ upload' = [[upload EXCEPT !.saved_filenames = Append(saved, file)] EXCEPT
                                  !.buffer = r, !.current_pos = 0,
                                  !.current_file = Parts!NoFile, !.multi_part_state = "Start"]
             \/ /\ lost' = TRUE /\ disk' = disk
                /\ upload' = [upload EXCEPT !.buffer = r, !.current_pos = 0,
                                            !.current_file = Parts!NoFile, !.multi_part_state = "Start"]
      BY <1>5, FileStep
    <2> HIDE DEF t, r
    <2>2. CASE disk' = Parts!Appended(file, t) /\ lost' = lost
                /\ upload' = [[upload EXCEPT !.saved_filenames = Append(saved, file)] EXCEPT
                                  !.buffer = r, !.current_pos = 0,
                                  !.current_file = Parts!NoFile, !.multi_part_state = "Start"]
      <3>1. Wrote(file, t)
        BY <1>1, <1>3, <2>1, <2>2, Writes
      <3> HIDE DEF file
      <3> DEFINE a == Append(saved, file)
      <3>2. file \in DOMAIN disk' /\ file \in FileName /\ DOMAIN disk \subseteq DOMAIN disk'
        BY <3>1 DEF Wrote
      <3>3. \A i \in DOMAIN a : a[i] \in DOMAIN disk'
        <4>1. /\ DOMAIN a = 1 .. Len(saved) + 1 /\ a[Len(saved) + 1] = file
              /\ \A i \in 1 .. Len(saved) : a[i] = saved[i]
          BY <1>1, <3>2, AppendProperties, LenProperties
        <4> HIDE DEF a
        <4>2. \A i \in 1 .. Len(saved) + 1 : i \in 1 .. Len(saved) \/ i = Len(saved) + 1
          BY <1>4
        <4> QED  BY <1>4, <3>2, <4>1, <4>2
      <3> HIDE DEF a
      <3>4. upload'.saved_filenames = a /\ upload'.current_file = Parts!NoFile
        BY <1>1, <2>2 DEF a, Uploads
      <3>5. ~lost => \A f \in others : f \in DOMAIN disk' /\ disk'[f] = <<"other">>
        BY <3>1 DEF Wrote
      <3> QED  BY <1>1, <2>2, <3>3, <3>4, <3>5 DEF NamesInv
    <2>3. CASE lost' = TRUE /\ disk' = disk
                /\ upload' = [upload EXCEPT !.buffer = r, !.current_pos = 0,
                                            !.current_file = Parts!NoFile, !.multi_part_state = "Start"]
      <3>1. upload'.saved_filenames = saved
        BY <1>1, <2>3 DEF Uploads
      <3> QED  BY <1>4, <2>3, <3>1 DEF NamesInv
    <2> QED  BY <2>1, <2>2, <2>3
  <1>6. ASSUME Parts!Flush
        PROVE  NamesInv'
    <2> DEFINE base == IF upload.part = Parts!Field THEN "tmp_upload" ELSE upload.part
               file == Parts!Target(base)
               t == Slice(upload.buffer, upload.data_start, Parts!WriteEnd)
               r == Drop(upload.buffer, upload.data_start, Parts!WriteEnd)
    <2>1. /\ upload.multi_part_state = "NextBoundary"
          /\ \/ disk' = Parts!Appended(file, t) /\ lost' = lost
             \/ lost' = TRUE /\ disk' = disk
          /\ upload' = [upload EXCEPT !.buffer = r, !.current_pos = upload.data_start,
                                      !.current_file = file]
      BY <1>6, SameBytes DEF Parts!Flush, Parts!At
    <2> HIDE DEF t, r
    <2>2. base \in Byte \cup {"tmp_upload"} /\ base # ""
      BY <1>3, <2>1
    <2>3. upload'.saved_filenames = saved /\ upload'.current_file = file
      BY <1>1, <2>1 DEF Uploads
    <2> HIDE DEF base
    <2>4. CASE disk' = Parts!Appended(file, t) /\ lost' = lost
      <3>1. Wrote(file, t)
        BY <1>1, <2>2, <2>4, Writes
      <3> HIDE DEF file
      <3>2. /\ file \in DOMAIN disk' /\ DOMAIN disk \subseteq DOMAIN disk'
            /\ ~lost => /\ file \notin others
                        /\ \A f \in others : f \in DOMAIN disk' /\ disk'[f] = <<"other">>
                        /\ \A i \in DOMAIN saved : saved[i] # file
        BY <3>1 DEF Wrote
      <3> QED  BY <1>1, <1>4, <2>3, <2>4, <3>2 DEF NamesInv
    <2>5. CASE lost' = TRUE /\ disk' = disk
      BY <1>4, <2>3, <2>5 DEF NamesInv
    <2> QED  BY <2>1, <2>4, <2>5
  <1>7. ASSUME Parts!FieldEnd
        PROVE  NamesInv'
    <2>1. /\ UNCHANGED <<disk, lost>> /\ upload'.saved_filenames = saved
          /\ upload'.current_file = Parts!NoFile
      BY <1>1, <1>7 DEF Parts!FieldEnd, Parts!Cleaned, Uploads
    <2> QED  BY <1>1, <2>1, NamesStay
  <1>8. ASSUME \/ Parts!NextPart \/ Parts!PartWait \/ Parts!NoPart \/ Parts!Header
               \/ Parts!HeaderWait \/ Parts!DataWait
        PROVE  NamesInv'
    <2>1. /\ UNCHANGED <<disk, lost>> /\ upload'.saved_filenames = saved
          /\ upload'.current_file = upload.current_file
      BY <1>1, <1>8 DEF Parts!NextPart, Parts!PartWait, Parts!NoPart, Parts!Header,
         Parts!HeaderWait, Parts!DataWait, Parts!Fed, Parts!Trimmed, Uploads
    <2> QED  BY <1>1, <2>1, NamesStay
  <1> QED  BY <1>5, <1>6, <1>7, <1>8 DEF DecodeParts, Parts!Next

-----------------------------------------------------------------------------
(* The invariant.                                                          *)

(* Where nothing was uploaded nobody's file is in danger.                  *)
LEMMA NoUploadNames ==
    /\ NoUpload => NamesInv
    /\ NoUpload' => NamesInv'
  <1>1. /\ Parts!NewUpload.saved_filenames = <<>> /\ Parts!NewUpload.current_file = Parts!NoFile
        /\ DOMAIN <<>> = {}
    BY DEF Parts!NewUpload
  <1>2. ASSUME NoUpload
        PROVE  NamesInv
    <2>1. DOMAIN upload.saved_filenames = {} /\ others = {} /\ upload.current_file = Parts!NoFile
      BY <1>1, <1>2 DEF NoUpload
    <2> QED  BY <2>1 DEF NamesInv
  <1>3. ASSUME NoUpload'
        PROVE  NamesInv'
    <2>1. DOMAIN upload'.saved_filenames = {} /\ others' = {} /\ upload'.current_file = Parts!NoFile
      <3>1. Parts!NewUpload' = Parts!NewUpload
        BY DEF Parts!NewUpload, Parts!NoFile, Parts!Field
      <3> QED  BY <1>1, <1>3, <3>1 DEF NoUpload
    <2> QED  BY <2>1 DEF NamesInv
  <1> QED  BY <1>2, <1>3

(* A connection starts with nothing taken from the wire.                   *)
LEMMA Initially == Init => IInv
  <1> SUFFICES ASSUME Init
               PROVE  IInv
    OBVIOUS
  <1>1. /\ message \in Messages /\ arrived = 0 /\ buffer = <<>> /\ cursor = 0
        /\ chunk_state = "ReadSize" /\ remaining_size = 0 /\ total_body_read = 0 /\ cgi_buffer = <<>>
        /\ body_remaining = IF message.encoding = "chunked" THEN 0 ELSE Len(BodyWire(message))
        /\ upload = Parts!NewUpload /\ disk = [f \in {} |-> <<>>] /\ lost = FALSE
        /\ others = {} /\ pc = "wait"
    BY DEF Init, Chunks!Init
  <1>2. Wire \in Seq(Byte) /\ Len(Wire) \in Nat
    BY <1>1, EndAt, PartsEndAt
  <1>3. Used = 0
    <2>1. Len(buffer) = 0 /\ arrived = 0 /\ Used = arrived - Len(buffer)
      BY <1>1 DEF Used
    <2> QED  BY <2>1
  <1>4. BufferInv
    <2>1. buffer \in Seq(Byte) /\ Len(buffer) = 0
      BY <1>1
    <2> QED  BY <1>1, <1>2, <1>3, <2>1 DEF BufferInv
  <1>5. CASE Chunked
    <2>1. NoUpload
      BY <1>1, <1>5 DEF NoUpload, Chunked
    <2>2. MaxBodySize \in Nat
      BY LimitsAssumption
    <2>3. ChunkSum
      <3>1. cgi_buffer \in Seq(Byte) /\ Len(cgi_buffer) = 0
        BY <1>1
      <3> QED  BY <1>1, <2>2, <3>1 DEF ChunkSum
    <2>4. Count \in Nat /\ (Count = 0 => message.flaw \in {"none", "trailer"})
      BY <1>1, <1>5, ChunkedIs
    <2>5. 0 \in 0 .. Count
      BY <2>4
    <2>6. Decoded(0) = <<>>
      BY <1>1, <1>5, <2>5, DecodedGrows
    <2>7. Offset(0) = 0
      <3>1. Firsts(ChunkFamily, 0) = <<>>
        <4>1. [i \in 1 .. 0 |-> ChunkFamily[i]] = <<>>
          OBVIOUS
        <4> QED  BY <4>1, FlattenEmpty DEF Firsts
      <3>2. Offset(0) = Len(Firsts(ChunkFamily, 0))
        BY <1>1, <1>5, <2>5, ChunkFamilyType
      <3> QED  BY <3>1, <3>2
    <2>8. AtSize(0)
      BY <1>1, <1>3, <2>4, <2>6, <2>7 DEF AtSize
    <2>9. ChunkPlace
      BY <2>5, <2>8 DEF ChunkPlace
    <2> QED  BY <1>4, <1>5, <2>1, <2>3, <2>9, NoUploadNames DEF IInv, ChunkInv
  <1>6. CASE ~Chunked
    <2>1. NamesInv
      BY <1>1 DEF NamesInv, Parts!NewUpload
    <2>2. Count \in Nat /\ PartOffset(Count) \in Nat /\ Len(BodyWire(message)) = PartOffset(Count) + 7
      BY <1>1, <1>6, MultipartIs, PartsEndAt
    <2>3. 0 \in 0 .. Count
      BY <2>2
    <2>4. PartOffset(0) \in Nat /\ FilesBefore(0) = <<>>
      BY <1>1, <1>6, <2>3, PartFamilyType, FilesGrow
    <2>5. /\ upload.multi_part_state = "Start" /\ upload.current_pos = 0
          /\ upload.current_file = Parts!NoFile /\ upload.buffer = <<>>
          /\ upload.saved_filenames = <<>>
      BY <1>1 DEF Parts!NewUpload
    <2>6. upload \in Uploads
      <3>1. <<>> \in Seq(Byte) /\ <<>> \in Seq(FileName)
        OBVIOUS
      <3>2. Parts!NoFile \in FileName /\ Parts!Field \in Byte
        BY DEF Parts!NoFile, FileName, Byte
      <3> QED  BY <1>1, <3>1, <3>2 DEF Uploads, Parts!NewUpload
    <2>7. Base = 0 /\ Position = 0
      <3>1. Len(upload.buffer) = 0
        BY <2>5
      <3>2. Base = Used - Len(upload.buffer)
        BY DEF Base
      <3>3. Position = 0
        BY <2>5 DEF Position
      <3> QED  BY <1>3, <3>1, <3>2, <3>3
    <2>8. 0 \in 0 .. PartOffset(0)
      BY <2>4
    <2>9. PartPlace(0)
      BY <1>1, <2>5, <2>7, <2>8 DEF PartPlace, AtDelimiter
    <2>10. SavedInv(0)
      BY <2>4, <2>5 DEF SavedInv
    <2>11. IsFiniteSet(DOMAIN disk)
      <3>1. DOMAIN disk = {}
        BY <1>1
      <3> QED  BY <3>1, FS_EmptySet
    <2>12. body_remaining = Len(BodyWire(message)) - Used /\ body_remaining >= 0
      <3>1. body_remaining = Len(BodyWire(message))
        BY <1>1, <1>6 DEF Chunked
      <3> QED  BY <1>3, <2>2, <3>1
    <2>13. \A i \in Position + 1 .. Len(upload.buffer) : upload.buffer[i] = Wire[Base + i]
      BY <2>5, <2>7
    <2>14. PartInv
      BY <1>1, <2>3, <2>6, <2>9, <2>10, <2>11, <2>12, <2>13 DEF PartInv
    <2> QED  BY <1>4, <1>6, <2>1, <2>14 DEF IInv
  <1> QED  BY <1>5, <1>6

(* A step that changes nothing.                                            *)
LEMMA Stutters ==
    ASSUME IInv, UNCHANGED vars
    PROVE  IInv'
  <1>1. /\ UNCHANGED <<message, arrived, buffer, body_remaining, others, pc>>
        /\ UNCHANGED <<cursor, chunk_state, remaining_size, total_body_read, cgi_buffer>>
        /\ UNCHANGED <<upload, disk, lost>>
    BY DEF vars, chunkVars, fileVars
  <1>2. BufferInv' /\ Used' = Used
    BY <1>1, BufferKept DEF IInv
  <1>3. /\ Wire' = Wire /\ Count' = Count /\ Chunked' = Chunked /\ WellFormed' = WellFormed
        /\ BodyWire(message)' = BodyWire(message) /\ message.body' = message.body
        /\ \A k : Offset(k)' = Offset(k) /\ Decoded(k)' = Decoded(k) /\ Flaw(k)' = Flaw(k)
    BY <1>1, SameMessage, SameParts
  <1>4. NamesInv'
    BY <1>1 DEF IInv, NamesInv
  <1>5. CASE Chunked
    <2>1. ChunkPlace /\ ChunkSum /\ NoUpload
      BY <1>5 DEF IInv, ChunkInv
    <2>2. NoUpload' /\ ChunkSum'
      BY <1>1, <2>1 DEF NoUpload, ChunkSum, Parts!NewUpload, Parts!Field, Parts!NoFile
    <2>3. ASSUME NEW k \in 0 .. Count, AtSize(k)
          PROVE  ChunkPlace'
      <3>1. AtSize(k)'
        BY <1>1, <1>2, <1>3, <2>3 DEF AtSize
      <3> QED  BY <1>3, <2>3, <3>1 DEF ChunkPlace
    <2>4. ASSUME NEW k \in 0 .. Count - 1, NEW j \in 0 .. Len(message.body[k + 1]) - 1, AtData(k, j)
          PROVE  ChunkPlace'
      <3>1. AtData(k, j)'
        BY <1>1, <1>2, <1>3, <2>4 DEF AtData
      <3> QED  BY <1>3, <2>4, <3>1 DEF ChunkPlace
    <2>5. ASSUME NEW k \in 0 .. Count - 1, AtBreak(k)
          PROVE  ChunkPlace'
      <3>1. AtBreak(k)'
        BY <1>1, <1>2, <1>3, <2>5 DEF AtBreak
      <3> QED  BY <1>3, <2>5, <3>1 DEF ChunkPlace
    <2>6. ASSUME AtTrailers \/ AtEnd
          PROVE  ChunkPlace'
      <3>1. AtTrailers' \/ AtEnd'
        BY <1>1, <1>2, <1>3, <2>6 DEF AtTrailers, AtEnd
      <3> QED  BY <3>1 DEF ChunkPlace
    <2>7. ChunkPlace'
      BY <2>1, <2>3, <2>4, <2>5, <2>6 DEF ChunkPlace
    <2> QED  BY <1>2, <1>3, <1>4, <1>5, <2>2, <2>7 DEF IInv, ChunkInv
  <1>6. CASE ~Chunked
    <2>1. PartInv
      BY <1>6 DEF IInv
    <2>2. PICK k \in 0 .. Count : SavedInv(k) /\ PartPlace(k)
      BY <2>1 DEF PartInv
    <2>3. PartPlace(k)' /\ SavedInv(k)' /\ Base' = Base /\ Position' = Position
      BY <1>1, <1>2, <2>2, PartStays
    <2>4. PartInv'
      BY <1>1, <1>2, <1>3, <2>1, <2>2, <2>3 DEF PartInv
    <2> QED  BY <1>2, <1>3, <1>4, <1>6, <2>4 DEF IInv
  <1> QED  BY <1>5, <1>6

(* No step leaves the invariant.                                           *)
LEMMA Preserved == IInv /\ [Next]_vars => IInv'
  <1> SUFFICES ASSUME IInv, [Next]_vars
               PROVE  IInv'
    OBVIOUS
  <1>1. BufferInv /\ NamesInv
    BY DEF IInv
  <1>2. CASE UNCHANGED vars
    BY <1>2, Stutters
  <1>3. CASE Next /\ Chunked
    <2>1. ChunkInv
      BY <1>3 DEF IInv
    <2>2. pc \in {"wait", "chunks", "refused", "complete"} /\ message.encoding = "chunked"
      BY <1>3, <2>1 DEF ChunkInv, ChunkPlace, AtSize, AtData, AtBreak, AtTrailers, AtEnd, Chunked
    <2>3. Deliver \/ DecodeChunks
      BY <1>3, <2>2 DEF Next, Handler, TakeBody, DecodeParts, BodyTaken, OtherStores, Parts!Next,
         Parts!NextPart, Parts!PartWait, Parts!NoPart, Parts!Header, Parts!HeaderWait,
         Parts!FilePartEnd, Parts!FieldEnd, Parts!Flush, Parts!DataWait, Parts!At
    <2>4. BufferInv' /\ ChunkInv'
      BY <1>1, <1>3, <2>1, <2>3, DeliverChunks, ChunkTurn
    <2>5. message' = message
      BY <2>3 DEF Deliver, DecodeChunks
    <2> QED  BY <1>3, <2>4, <2>5, SameMessage, NoUploadNames DEF IInv, ChunkInv
  <1>4. CASE Next /\ ~Chunked
    <2>1. PartInv
      BY <1>4 DEF IInv
    <2>2. pc # "chunks"
      BY <2>1 DEF PartInv
    <2>3. ~DecodeChunks
      BY <2>2 DEF DecodeChunks, Chunks!Next, Chunks!SizeWait, Chunks!SizeBad, Chunks!SizeTooLarge,
         Chunks!ChunkStart, Chunks!HasSize, Chunks!DataWait, Chunks!ReadData, Chunks!CrlfWait,
         Chunks!CrlfBad, Chunks!ChunkEnd, Chunks!TrailersTooLong, Chunks!TrailerWait,
         Chunks!TrailerBad, Chunks!NextTrailer, Chunks!LastTrailer, Chunks!InTrailers, Chunks!In
    <2>4. Deliver \/ TakeBody \/ DecodeParts \/ BodyTaken \/ OtherStores
      BY <1>4, <2>3 DEF Next, Handler
    <2>5. Chunked' = Chunked
      <3>1. message' = message
        BY <2>4 DEF Deliver, TakeBody, DecodeParts, BodyTaken, OtherStores
      <3> QED  BY <3>1, SameMessage
    <2>6. CASE Deliver
      <3>1. NamesInv'
        BY <1>1, <2>6 DEF Deliver, fileVars, NamesInv
      <3> QED  BY <1>1, <1>4, <2>1, <2>5, <2>6, <3>1, DeliverParts DEF IInv
    <2>7. CASE TakeBody
      <3>1. upload \in Uploads
        BY <2>1 DEF PartInv
      <3>2. /\ UNCHANGED <<disk, lost, others>>
            /\ upload'.saved_filenames = upload.saved_filenames
            /\ upload'.current_file = upload.current_file
        BY <2>7, <3>1 DEF TakeBody, Uploads
      <3>3. NamesInv'
        BY <1>1, <3>2, NamesStay
      <3> QED  BY <1>1, <1>4, <2>1, <2>5, <2>7, <3>3, BodyFed DEF IInv
    <2>8. CASE DecodeParts
      BY <1>1, <1>4, <2>1, <2>5, <2>8, PartTurn, NamesKept DEF IInv
    <2>9. CASE BodyTaken
      <3>1. NamesInv'
        BY <1>1, <2>9 DEF BodyTaken, fileVars, NamesInv
      <3> QED  BY <1>1, <1>4, <2>1, <2>5, <2>9, <3>1, TurnEnds DEF IInv
    <2>10. CASE OtherStores
      BY <1>1, <1>4, <2>1, <2>5, <2>10, OtherStored DEF IInv
    <2> QED  BY <2>4, <2>6, <2>7, <2>8, <2>9, <2>10
  <1> QED  BY <1>2, <1>3, <1>4

(* The invariant holds of every behaviour.                                 *)
THEOREM BodyAlways == Spec => []IInv
  BY Initially, Preserved, PTL DEF Spec

-----------------------------------------------------------------------------
(* What follows from it.                                                   *)

(* The invariant implies the types.                                        *)
LEMMA TypeFollows == IInv => TypeOK
  <1> SUFFICES ASSUME IInv
               PROVE  TypeOK
    OBVIOUS
  <1>1. message \in Messages /\ Len(buffer) \in Nat /\ MaxBodySize \in Nat
    BY BufferType, LimitsAssumption DEF IInv
  <1>2. Len(BodyWire(message)) \in Nat
    <2>1. CASE Chunked
      BY <1>1, <2>1, EndAt
    <2>2. CASE ~Chunked
      <3>1. Len(BodyWire(message)) = PartOffset(Count) + 7 /\ PartOffset(Count) \in Nat
        BY <1>1, <2>2, PartsEndAt
      <3> QED  BY <3>1
    <2> QED  BY <2>1, <2>2
  <1>3. CASE Chunked
    <2>1. ChunkPlace /\ ChunkSum /\ NoUpload
      BY <1>3 DEF IInv, ChunkInv
    <2>2. Count \in Nat /\ \A i \in 1 .. Count : Len(message.body[i]) \in Nat
      BY <1>1, <1>3, ChunkedIs
    <2>3. ASSUME NEW k \in 0 .. Count - 1, NEW j \in 0 .. Len(message.body[k + 1]) - 1, AtData(k, j)
          PROVE  remaining_size \in Nat
      <3>1. k + 1 \in 1 .. Count
        BY <2>2
      <3>2. Len(message.body[k + 1]) \in Nat
        BY <2>2, <3>1
      <3>3. remaining_size = Len(message.body[k + 1]) - j
        BY <2>3 DEF AtData
      <3> QED  BY <3>2, <3>3
    <2>4. /\ pc \in {"wait", "chunks", "refused", "complete"} /\ chunk_state \in Chunks!ChunkState
          /\ remaining_size \in Nat /\ cursor \in 0 .. Len(buffer)
      BY <1>1, <2>1, <2>3 DEF ChunkPlace, AtSize, AtData, AtBreak, AtTrailers, AtEnd, Chunks!ChunkState
    <2>5. total_body_read \in 0 .. MaxBodySize
      <3>1. Len(cgi_buffer) \in Nat
        BY <2>1, LenProperties DEF ChunkSum
      <3> QED  BY <1>1, <2>1, <3>1 DEF ChunkSum
    <2>6. /\ upload.state = "InProgress" /\ upload.multi_part_state = "Start"
          /\ upload.current_pos = 0 /\ upload.buffer = <<>>
      BY <2>1 DEF NoUpload, Parts!NewUpload
    <2>7. upload.current_pos \in 0 .. Len(upload.buffer)
      BY <2>6
    <2>8. body_remaining \in 0 .. Len(BodyWire(message))
      BY <1>2, <2>1 DEF NoUpload
    <2> QED  BY <2>4, <2>5, <2>6, <2>7, <2>8 DEF TypeOK
  <1>4. CASE ~Chunked
    <2>1. PartInv /\ BufferInv
      BY <1>4 DEF IInv
    <2>2. PICK k \in 0 .. Count : PartPlace(k)
      BY <2>1 DEF PartInv
    <2>3. Used \in Nat /\ Len(upload.buffer) \in Nat
      BY <1>4, <2>1, <2>2, WindowOf
    <2>4. body_remaining \in 0 .. Len(BodyWire(message))
      BY <1>2, <2>1, <2>3 DEF PartInv
    <2>5. /\ upload.state \in {"InProgress", "Done"}
          /\ upload.multi_part_state \in {"Start", "HeaderSep", "NextBoundary"}
      BY <2>1 DEF PartInv, Uploads
    <2>6. /\ upload.current_pos \in 0 .. Len(upload.buffer)
          /\ upload.multi_part_state = "NextBoundary" => upload.data_start \in 0 .. Len(upload.buffer)
      <3>1. CASE AtDelimiter(k)
        BY <2>3, <3>1 DEF AtDelimiter
      <3>2. CASE AtHeader(k)
        BY <2>3, <3>2 DEF AtHeader
      <3>3. CASE \E w \in 0 .. Len(message.body[k + 1].data) : AtPart(k, w)
        BY <2>3, <3>3 DEF AtPart
      <3> QED  BY <2>2, <3>1, <3>2, <3>3 DEF PartPlace
    <2>7. /\ pc \in {"wait", "take", "upload", "fed", "complete"}
          /\ chunk_state \in Chunks!ChunkState /\ remaining_size \in Nat
          /\ cursor \in 0 .. Len(buffer) /\ total_body_read \in 0 .. MaxBodySize
      BY <1>1, <2>1 DEF PartInv, Chunks!ChunkState
    <2> QED  BY <2>4, <2>5, <2>6, <2>7 DEF TypeOK
  <1> QED  BY <1>3, <1>4

(* Begins and IsPrefix say the same of byte sequences.                     *)
LEMMA BeginsIsPrefix ==
    ASSUME NEW s \in Seq(Byte), NEW t \in Seq(Byte), Begins(s, t)
    PROVE  IsPrefix(s, t)
  <1> DEFINE n == Len(s)
             a == SubSeq(s, 1, n)
             b == SubSeq(t, 1, n)
  <1>1. n \in Nat /\ Len(t) \in Nat /\ n <= Len(t) /\ \A i \in 1 .. n : t[i] = s[i]
    BY LenProperties DEF Begins
  <1>2. /\ a \in Seq(Byte) /\ Len(a) = n /\ \A i \in 1 .. n : a[i] = s[i]
        /\ b \in Seq(Byte) /\ Len(b) = n /\ \A i \in 1 .. n : b[i] = t[i]
    <2> HIDE DEF n
    <2> QED  BY <1>1 DEF n
  <1> HIDE DEF a, b
  <1>3. a = b
    BY <1>1, <1>2, SeqEqual
  <1> QED  BY <1>1, <1>3 DEF IsPrefix, a, b

(* What the decoder of chunks passed on is a prefix of what the client     *)
(* meant, and all of it at the end.                                        *)
LEMMA DecodedFollows == IInv => ChunksDecoded
  <1> SUFFICES ASSUME IInv, Chunked
               PROVE  /\ IsPrefix(cgi_buffer, FlattenSeq(message.body))
                      /\ pc = "complete" => cgi_buffer = FlattenSeq(message.body)
    BY DEF ChunksDecoded
  <1> DEFINE a == Decoded(Count)
  <1>1. message \in Messages /\ Count \in Nat /\ ChunkPlace /\ ChunkSum
    BY BufferType, ChunkedIs DEF IInv, ChunkInv
  <1>2. cgi_buffer \in Seq(Byte)
    BY <1>1 DEF ChunkSum
  <1>3. Count \in 0 .. Count
    BY <1>1
  <1>4. a = FlattenSeq(message.body) /\ a \in Seq(Byte) /\ Begins(a, a)
    BY <1>1, <1>3, DecodedGrows
  <1>5. Begins(cgi_buffer, a)
    <2>1. ASSUME NEW k \in 0 .. Count, AtSize(k)
          PROVE  Begins(cgi_buffer, a)
      BY <1>1, <2>1, DecodedGrows DEF AtSize
    <2>2. ASSUME NEW k \in 0 .. Count - 1, NEW j \in 0 .. Len(message.body[k + 1]) - 1, AtData(k, j)
          PROVE  Begins(cgi_buffer, a)
      <3> DEFINE c == message.body[k + 1]
                 s == Decoded(k)
                 n == Len(c) - j
                 t == SubSeq(c, j + 1, Len(c))
      <3>1. k \in 0 .. Count /\ k + 1 \in 1 .. Count /\ k < Count
        BY <1>1
      <3>2. c \in Seq(Byte) /\ Len(c) \in Nat
        <4>1. c \in Seq(Byte)
          BY <1>1, <3>1, ChunkedIs
        <4> QED  BY <4>1, LenProperties
      <3>3. s \in Seq(Byte) /\ Decoded(k + 1) = s \o c /\ Begins(Decoded(k + 1), a)
        BY <1>1, <3>1, DecodedGrows
      <3>4. cgi_buffer = s \o SubSeq(c, 1, j)
        BY <2>2 DEF AtData
      <3>5. j \in Nat /\ n \in Nat /\ j + n = Len(c) /\ j <= Len(c)
        <4> DEFINE l == Len(c)
        <4>1. l \in Nat /\ j \in 0 .. l - 1
          BY <3>2
        <4> HIDE DEF l
        <4>2. j \in Nat /\ l - j \in Nat /\ j + (l - j) = l /\ j <= l
          BY <4>1
        <4> QED  BY <4>2 DEF l
      <3> HIDE DEF c, s, n
      <3>6. t \in Seq(Byte) /\ Len(t) = n /\ \A i \in 1 .. n : t[i] = c[j + i]
        <4>1. Drain(c, j) \in Seq(Byte) /\ Sliced(c, j, Len(c), Drain(c, j))
          BY <3>2, <3>5, DrainOf
        <4>2. Len(c) - j = n
          BY <3>2, <3>5
        <4> QED  BY <4>1, <4>2 DEF Drain, Sliced
      <3> HIDE DEF t
      <3> DEFINE x == s \o SubSeq(c, 1, j)
      <3>7. x \o t = s \o c /\ x \in Seq(Byte)
        <4>1. s \in Seq(Byte) /\ c \in Seq(Byte) /\ j \in Nat /\ n \in Nat /\ j + n <= Len(c)
          BY <3>2, <3>3, <3>5
        <4>2. ReadsOn(s, c, j, n, t)
          BY <3>6, <4>1, ReadOn
        <4> QED  BY <3>5, <4>2 DEF ReadsOn
      <3> HIDE DEF x
      <3>8. Joined(x, t, s \o c)
        BY <3>6, <3>7, Join
      <3>9. Begins(x, a)
        BY <3>3, <3>8, JoinBegins
      <3> QED  BY <3>4, <3>9 DEF x
    <2>3. ASSUME NEW k \in 0 .. Count - 1, AtBreak(k)
          PROVE  Begins(cgi_buffer, a)
      <3>1. k + 1 \in 0 .. Count
        BY <1>1
      <3> QED  BY <1>1, <2>3, <3>1, DecodedGrows DEF AtBreak
    <2>4. ASSUME AtTrailers \/ AtEnd
          PROVE  Begins(cgi_buffer, a)
      BY <1>4, <2>4 DEF AtTrailers, AtEnd
    <2> QED  BY <1>1, <2>1, <2>2, <2>3, <2>4 DEF ChunkPlace
  <1>6. pc = "complete" => cgi_buffer = a
    BY <1>1 DEF ChunkPlace, AtSize, AtData, AtBreak, AtTrailers, AtEnd
  <1> HIDE DEF a
  <1> QED  BY <1>2, <1>4, <1>5, <1>6, BeginsIsPrefix

(* A request that took its body and no more has left what follows it.      *)
LEMMA RestIsLeft ==
    ASSUME BufferInv, Used = Len(BodyWire(message))
    PROVE  buffer \o Drain(Wire, arrived) = message.rest
  <1> DEFINE r == message.rest
             m == Len(BodyWire(message))
             z == Drain(Wire, arrived)
             x == buffer \o z
             n == Len(buffer)
  <1>1. /\ Wire \in Seq(Byte) /\ r \in Seq(Byte) /\ Len(r) \in Nat /\ Len(Wire) = m + Len(r)
        /\ m \in Nat /\ Len(Wire) \in Nat
        /\ \A i \in 1 .. Len(r) : Wire[m + i] = r[i]
    <2>0. message \in Messages
      BY DEF BufferInv
    <2>1. CASE Chunked
      BY <2>0, <2>1, EndAt
    <2>2. CASE ~Chunked
      <3>1. m = PartOffset(Count) + 7 /\ PartOffset(Count) \in Nat
        BY <2>0, <2>2, PartsEndAt
      <3>2. m \in Nat
        BY <3>1
      <3> QED  BY <2>0, <2>2, <3>2, PartsEndAt
    <2> QED  BY <2>1, <2>2
  <1>2. /\ buffer \in Seq(Byte) /\ n \in Nat /\ arrived \in Nat /\ arrived <= Len(Wire)
        /\ m = arrived - n /\ \A i \in 1 .. n : buffer[i] = Wire[m + i]
    <2>1. Used = arrived - n
      BY DEF Used
    <2>2. \A i \in 1 .. n : buffer[i] = Wire[Used + i]
      BY DEF BufferInv
    <2> QED  BY <2>1, <2>2, BufferType DEF BufferInv
  <1> HIDE DEF r, m
  <1>3. z \in Seq(Byte) /\ Len(z) = Len(Wire) - arrived /\ \A i \in 1 .. Len(z) : z[i] = Wire[arrived + i]
    <2>1. arrived \in 0 .. Len(Wire)
      BY <1>1, <1>2
    <2>2. z \in Seq(Byte) /\ Sliced(Wire, arrived, Len(Wire), z)
      BY <1>1, <2>1, DrainOf
    <2> QED  BY <2>2 DEF Sliced
  <1> HIDE DEF z
  <1>4. Joined(buffer, z, x)
    BY <1>2, <1>3, Join
  <1> HIDE DEF x
  <1>5. /\ x \in Seq(Byte) /\ Len(x) = n + Len(z) /\ Len(z) \in Nat
        /\ \A i \in 1 .. n : x[i] = buffer[i]
        /\ \A i \in 1 .. Len(z) : x[n + i] = z[i]
    BY <1>4 DEF Joined
  <1>6. arrived = m + n /\ Len(x) = Len(r)
    BY <1>1, <1>2, <1>3, <1>5
  <1>7. ASSUME NEW i \in 1 .. Len(x)
        PROVE  x[i] = r[i]
    <2>1. Wire[m + i] = r[i]
      BY <1>1, <1>6
    <2>2. CASE i <= n
      <3>1. i \in 1 .. n
        BY <1>2, <1>5, <2>2
      <3> QED  BY <1>2, <1>5, <2>1, <3>1
    <2>3. CASE i > n
      <3> DEFINE h == i - n
      <3>1. h \in 1 .. Len(z) /\ n + h = i /\ arrived + h = m + i
        BY <1>1, <1>2, <1>5, <1>6, <2>3
      <3> HIDE DEF h
      <3>2. x[n + h] = z[h] /\ z[h] = Wire[arrived + h]
        BY <1>3, <1>5, <3>1
      <3> QED  BY <2>1, <3>1, <3>2
    <2> QED  BY <1>2, <1>5, <2>2, <2>3
  <1>8. x = r
    BY <1>1, <1>5, <1>6, <1>7, SeqEqual
  <1> QED  BY <1>8 DEF x, r, z

(* At the end of a body, what was left in the buffer is what follows the   *)
(* body on the wire.                                                       *)
LEMMA EndFollows == IInv => EndsWhereItEnds
  <1> SUFFICES ASSUME IInv
               PROVE  EndsWhereItEnds
    OBVIOUS
  <1>1. BufferInv /\ message \in Messages
    BY DEF IInv, BufferInv
  <1>2. CASE Chunked
    <2>1. ChunkPlace /\ ChunkSum
      BY <1>2 DEF IInv, ChunkInv
    <2>2. ASSUME pc = "complete"
          PROVE  WellFormed /\ buffer \o Drain(Wire, arrived) = message.rest
      <3>1. AtEnd
        BY <2>1, <2>2 DEF ChunkPlace, AtSize, AtData, AtBreak, AtTrailers
      <3>2. Used = Len(BodyWire(message)) /\ message.flaw = "none" /\ cgi_buffer = Decoded(Count)
        BY <3>1 DEF AtEnd
      <3>3. Decoded(Count) = FlattenSeq(message.body)
        <4>1. Count \in Nat
          BY <1>1, <1>2, ChunkedIs
        <4>2. Count \in 0 .. Count
          BY <4>1
        <4> QED  BY <1>1, <1>2, <4>2, DecodedGrows
      <3>4. Len(FlattenSeq(message.body)) <= MaxBodySize
        BY <2>1, <3>2, <3>3 DEF ChunkSum
      <3> QED  BY <1>1, <3>2, <3>4, RestIsLeft DEF WellFormed
    <2>3. pc = "refused" /\ WellFormed => Len(buffer) > TrailerLimit
      BY <2>1 DEF ChunkPlace, AtSize, AtData, AtBreak, AtTrailers, AtEnd
    <2> QED  BY <2>2, <2>3 DEF EndsWhereItEnds
  <1>3. CASE ~Chunked
    <2>1. PartInv
      BY <1>3 DEF IInv
    <2>2. WellFormed /\ pc # "refused"
      BY <1>3, <2>1 DEF WellFormed, PartInv
    <2>3. ASSUME pc = "complete"
          PROVE  buffer \o Drain(Wire, arrived) = message.rest
      <3>1. Used = Len(BodyWire(message))
        <4> DEFINE l == Len(BodyWire(message))
        <4>1. l = PartOffset(Count) + 7 /\ PartOffset(Count) \in Nat
          BY <1>1, <1>3, PartsEndAt
        <4>2. l - Used = 0
          BY <2>1, <2>3 DEF PartInv
        <4>3. PICK k \in 0 .. Count : PartPlace(k)
          BY <2>1 DEF PartInv
        <4>4. Used \in Nat
          BY <1>1, <1>3, <2>1, <4>3, WindowOf
        <4>5. l \in Nat
          BY <4>1
        <4> HIDE DEF l
        <4>6. Used = l
          BY <4>2, <4>4, <4>5
        <4> QED  BY <4>6 DEF l
      <3> QED  BY <1>1, <3>1, RestIsLeft
    <2> QED  BY <2>2, <2>3 DEF EndsWhereItEnds
  <1> QED  BY <1>2, <1>3

(* At the end of an upload each saved file holds the data of its part.     *)
LEMMA FilesFollow == IInv => FilesFaithful
  <1> SUFFICES ASSUME IInv, ~Chunked
               PROVE  FilesFaithful
    BY DEF FilesFaithful
  <1> DEFINE saved == upload.saved_filenames
             file == upload.current_file
  <1>1. BufferInv /\ NamesInv /\ PartInv /\ message \in Messages
    BY DEF IInv, BufferInv
  <1>2. \A i \in DOMAIN saved : saved[i] \in DOMAIN disk
    BY <1>1 DEF NamesInv
  <1>3. ASSUME ~lost
        PROVE  /\ Len(saved) <= Len(FileParts)
               /\ \A i \in DOMAIN saved : disk[saved[i]] = FileParts[i].data
               /\ file # Parts!NoFile /\ upload.part # Parts!Field =>
                     IsPrefix(disk[file], FileParts[Len(saved) + 1].data)
               /\ pc = "complete" => Len(saved) = Len(FileParts)
    <2>1. PICK k \in 0 .. Count : SavedInv(k) /\ PartPlace(k)
      BY <1>1 DEF PartInv
    <2> DEFINE F == FilesBefore(k)
    <2>2. /\ Len(saved) = Len(F) /\ \A i \in DOMAIN saved : disk[saved[i]] = F[i].data
      BY <1>3, <2>1 DEF SavedInv
    <2>3. /\ Count \in Nat /\ Len(F) \in Nat /\ Begins(F, FileParts) /\ FilesBefore(Count) = FileParts
      BY <1>1, MultipartIs, FilesGrow
    <2>4. saved \in Seq(FileName) /\ DOMAIN saved = 1 .. Len(saved)
      <3>1. saved \in Seq(FileName)
        BY <1>1 DEF PartInv, Uploads
      <3> QED  BY <3>1, LenProperties
    <2> HIDE DEF F, saved
    <2>5. Len(saved) <= Len(FileParts) /\ \A i \in DOMAIN saved : disk[saved[i]] = FileParts[i].data
      BY <2>2, <2>3, <2>4 DEF Begins
    <2>6. ASSUME file # Parts!NoFile, upload.part # Parts!Field
          PROVE  IsPrefix(disk[file], FileParts[Len(saved) + 1].data)
      <3>1. PICK w \in 0 .. Len(message.body[k + 1].data) : k < Count /\ AtPart(k, w)
        BY <2>1, <2>6 DEF PartPlace, AtDelimiter, AtHeader
      <3> DEFINE q == message.body[k + 1]
                 d == q.data
      <3>2. k \in 0 .. Count - 1
        BY <2>3, <3>1
      <3>3. d \in Seq(Byte) /\ Len(d) \in Nat
        BY <1>1, <3>2, PartAt
      <3>4. w \in Nat /\ w <= Len(d) /\ w \in 0 .. Len(d)
        BY <3>3
      <3>5. q.header # Parts!Field /\ w # 0
        BY <2>6, <3>1 DEF AtPart
      <3>6. disk[file] = SubSeq(d, 1, w)
        BY <1>3, <3>1, <3>4, <3>5 DEF AtPart
      <3>7. /\ Len(FilesBefore(k + 1)) = Len(F) + 1 /\ FilesBefore(k + 1)[Len(F) + 1] = q
            /\ Begins(FilesBefore(k + 1), FileParts)
        BY <1>1, <3>1, <3>5, FilesGrow DEF F
      <3>8. FileParts[Len(F) + 1] = q
        <4>1. Len(F) + 1 \in 1 .. Len(FilesBefore(k + 1))
          BY <2>3, <3>7
        <4> QED  BY <3>7, <4>1 DEF Begins
      <3>9. IsPrefix(SubSeq(d, 1, w), d)
        <4> HIDE DEF d
        <4> DEFINE x == SubSeq(d, 1, w)
        <4>1. x \in Seq(Byte) /\ Len(x) = w /\ \A i \in 1 .. w : x[i] = d[i]
          BY <3>3, <3>4
        <4> HIDE DEF x
        <4>2. Begins(x, d)
          BY <3>4, <4>1 DEF Begins
        <4>3. IsPrefix(x, d)
          BY <3>3, <4>1, <4>2, BeginsIsPrefix
        <4> QED  BY <4>3 DEF x
      <3> QED  BY <2>2, <3>6, <3>8, <3>9
    <2>7. ASSUME pc = "complete"
          PROVE  k = Count
      <3> DEFINE l == Len(BodyWire(message))
      <3>1. Used = l /\ Used \in Nat
        <4>1. l = PartOffset(Count) + 7 /\ PartOffset(Count) \in Nat
          BY <1>1, PartsEndAt
        <4>2. l - Used = 0 /\ Used \in Nat /\ l \in Nat
          BY <1>1, <2>1, <2>7, <4>1, WindowOf DEF PartInv
        <4> HIDE DEF l
        <4> QED  BY <4>2
      <3>2. \A i \in 0 .. Count : PartOffset(i) \in Nat /\ PartOffset(i) + 5 <= l
        BY <1>1, DelimiterHere
      <3> HIDE DEF l
      <3>3. ASSUME k # Count
            PROVE  FALSE
        <4>1. k \in 0 .. Count - 1 /\ k + 1 \in 0 .. Count
          BY <2>3, <3>3
        <4> DEFINE o == PartOffset(k)
                   e == PartOffset(k + 1)
                   c == Len(message.body[k + 1].data)
        <4>2. c \in Nat /\ e = o + c + 12
          BY <1>1, <4>1, PartAt
        <4>3. o \in Nat /\ o + 5 <= l /\ e \in Nat /\ e + 5 <= l
          BY <3>2, <4>1
        <4>4. Used < o + 5 \/ Used < o + 10 \/ Used < e + 3
          <5>1. AtDelimiter(k) => Used < o + 5
            BY <2>7, <3>3 DEF AtDelimiter
          <5>2. AtHeader(k) => Used < o + 10
            BY <2>7 DEF AtHeader
          <5>3. \A w : AtPart(k, w) => Used < e + 3
            BY <2>7 DEF AtPart
          <5> HIDE DEF o, e
          <5> QED  BY <2>1, <5>1, <5>2, <5>3 DEF PartPlace
        <4> HIDE DEF o, e, c
        <4> QED  BY <3>1, <4>2, <4>3, <4>4
      <3> QED  BY <3>3
    <2>8. pc = "complete" => Len(saved) = Len(FileParts)
      BY <2>2, <2>3, <2>7 DEF F
    <2> QED  BY <2>5, <2>6, <2>8
  <1> QED  BY <1>2, <1>3 DEF FilesFaithful

(* A file that was there before, and was not lost, is as it was.           *)
LEMMA OthersFollow == IInv => OthersKept
  BY DEF IInv, NamesInv, OthersKept

-----------------------------------------------------------------------------
(* The theorems.                                                           *)

(* Offsets stay within their buffers, whatever arrives and however it is   *)
(* cut.                                                                    *)
THEOREM TypeCorrect == Spec => []TypeOK
  BY BodyAlways, TypeFollows, PTL

(* A script gets the data of the chunks, in order, from the first byte on, *)
(* and all of them when the request is complete.                           *)
THEOREM ChunksAlwaysDecoded == Spec => []ChunksDecoded
  BY BodyAlways, DecodedFollows, PTL

(* The decoder takes the body and not one byte of what follows it, refuses *)
(* what is damaged, and a sound body only at the trailer limit.            *)
THEOREM EndsAlwaysWhereItEnds == Spec => []EndsWhereItEnds
  BY BodyAlways, EndFollows, PTL

(* Files hold the data of the file parts and nothing of what separates     *)
(* them, wherever a delimiter or a header was cut in two.                  *)
THEOREM FilesAlwaysFaithful == Spec => []FilesFaithful
  BY BodyAlways, FilesFollow, PTL

(* An upload does not touch a file that another one stored.                *)
THEOREM OthersAlwaysKept == Spec => []OthersKept
  BY BodyAlways, OthersFollow, PTL

-----------------------------------------------------------------------------
(* No standstill.                                                          *)

(* A decoder of chunks that returns to wait has not had the last byte of   *)
(* the body.                                                               *)
LEMMA ChunksWaitForMore ==
    ASSUME BufferInv, Chunked, ChunkInv, DecodeChunks, pc' = "wait"
    PROVE  arrived < Len(BodyWire(message))
  <1> DEFINE o == Offset(Count)
             n == Len(BodyWire(message))
             t == Len(message.trailer)
             m == Len(buffer)
  <1>1. /\ message \in Messages /\ Count \in Nat /\ m \in Nat /\ arrived = Used + m
        /\ SizeLimit \in Nat
    BY BufferType, ChunkedIs, LimitsAssumption DEF Used
  <1>2. /\ o \in Nat /\ t \in Nat /\ n \in Nat
        /\ message.flaw = "trailer" => n = o + t + 8
        /\ message.flaw # "trailer" => n = o + t + 5
    BY <1>1, EndAt
  <1>3. ASSUME NEW k \in 0 .. Count - 1
        PROVE  LET c == message.body[k + 1] IN
               /\ Offset(k) \in Nat /\ Len(c) \in 1 .. 4
               /\ Flaw(k + 1) # "line" => Offset(k) + Len(c) + 6 <= o
               /\ Flaw(k + 1) = "line" => Offset(k) + SizeLimit <= o
    <2> DEFINE p == Offset(k + 1)
               l == Len(message.body[k + 1])
    <2>1. /\ Offset(k) \in Nat /\ l \in 1 .. 4 /\ p \in Nat /\ p <= o
          /\ Flaw(k + 1) # "line" => p = Offset(k) + l + 6
          /\ Flaw(k + 1) = "line" => Offset(k) + SizeLimit <= p
      BY <1>1, ChunkAt
    <2> HIDE DEF o, p, l
    <2> QED  BY <1>1, <1>2, <2>1 DEF l
  <1> HIDE DEF o, n, t, m
  <1>4. CASE Chunks!SizeWait
    <2>1. Chunks!LineEnd = NotFound /\ m < SizeLimit /\ chunk_state = "ReadSize"
      BY <1>4, SameBytes DEF Chunks!SizeWait, Chunks!In, m
    <2>2. PICK k \in 0 .. Count : AtSize(k)
      BY <2>1, Placed DEF ChunkInv
    <2>3. /\ Used = Offset(k)
          /\ k = Count => m < 3
          /\ k < Count /\ Flaw(k + 1) # "line" => m < 4
      <3>1. Used = Offset(k)
        BY <2>2 DEF AtSize
      <3> QED  BY <2>1, <3>1, SizeLineAt DEF NotFound, m
    <2>4. CASE k = Count
      BY <1>1, <1>2, <2>3, <2>4 DEF o, n
    <2>5. CASE k # Count
      <3>1. k \in 0 .. Count - 1 /\ k < Count
        BY <1>1, <2>5
      <3> DEFINE p == Offset(k)
                 l == Len(message.body[k + 1])
      <3>2. /\ p \in Nat /\ l \in 1 .. 4
            /\ Flaw(k + 1) # "line" => p + l + 6 <= o
            /\ Flaw(k + 1) = "line" => p + SizeLimit <= o
        BY <1>3, <3>1
      <3>3. arrived = p + m
        BY <1>1, <2>3
      <3> HIDE DEF p, l
      <3>4. p + m < o
        BY <1>1, <1>2, <2>1, <2>3, <3>1, <3>2
      <3> QED  BY <1>1, <1>2, <3>2, <3>3, <3>4 DEF n
    <2> QED  BY <2>4, <2>5
  <1>5. CASE Chunks!DataWait \/ Chunks!ReadData
    <2>1. PICK k \in 0 .. Count - 1 : \E j \in 0 .. Len(message.body[k + 1]) - 1 : AtData(k, j)
      <3>1. chunk_state = "ReadData"
        BY <1>5 DEF Chunks!DataWait, Chunks!ReadData, Chunks!In
      <3> QED  BY <3>1, Placed DEF ChunkInv
    <2> DEFINE l == Len(message.body[k + 1])
    <2>2. PICK j \in 0 .. l - 1 : AtData(k, j)
      BY <2>1
    <2>3. /\ Used = Offset(k) + 4 + j /\ remaining_size = l - j /\ Flaw(k + 1) # "line"
          /\ l \in 1 .. 4 /\ Offset(k) \in Nat /\ Offset(k) + l + 6 <= o
      BY <1>3, <2>2 DEF AtData
    <2> HIDE DEF l
    <2>4. m < l - j
      <3>1. CASE Chunks!DataWait
        <4>1. m = 0
          BY <3>1 DEF Chunks!DataWait, m
        <4> QED  BY <2>2, <2>3, <4>1
      <3>2. CASE Chunks!ReadData
        <4>1. remaining_size - Chunks!ToRead # 0
          BY <3>2 DEF Chunks!ReadData, Chunks!In
        <4>2. Chunks!ToRead = IF m < remaining_size THEN m ELSE remaining_size
          BY DEF Chunks!ToRead, m
        <4> QED  BY <1>1, <2>2, <2>3, <4>1, <4>2
      <3> QED  BY <1>5, <3>1, <3>2
    <2> DEFINE p == Offset(k)
    <2>5. arrived = p + 4 + j + m /\ p + l + 6 <= o /\ p \in Nat /\ j \in Nat
      BY <1>1, <2>2, <2>3
    <2> HIDE DEF p
    <2>6. p + 4 + j + m < o
      BY <1>1, <1>2, <2>3, <2>4, <2>5
    <2> QED  BY <1>1, <1>2, <2>5, <2>6 DEF n
  <1>6. CASE Chunks!CrlfWait
    <2>1. m < 2 /\ chunk_state = "ReadTrailingCRLF"
      BY <1>6 DEF Chunks!CrlfWait, Chunks!In, m
    <2>2. PICK k \in 0 .. Count - 1 : AtBreak(k)
      BY <2>1, Placed DEF ChunkInv
    <2> DEFINE l == Len(message.body[k + 1])
    <2>3. Used = Offset(k) + 4 + l /\ l \in 1 .. 4 /\ Offset(k) \in Nat /\ Offset(k) + l + 6 <= o
      BY <1>3, <2>2 DEF AtBreak
    <2> DEFINE p == Offset(k)
    <2>4. arrived = p + 4 + l + m /\ p + l + 6 <= o /\ p \in Nat
      BY <1>1, <2>3
    <2> HIDE DEF p, l
    <2>5. arrived < o
      BY <1>1, <1>2, <2>1, <2>3, <2>4
    <2>6. o <= n
      BY <1>2
    <2> QED  BY <1>1, <1>2, <2>5, <2>6 DEF n
  <1>7. CASE Chunks!TrailerWait
    <2>1. Chunks!TrailerEnd = NotFound /\ chunk_state = "ReadTrailers" /\ pc = "chunks"
      BY <1>7, SameBytes DEF Chunks!TrailerWait, Chunks!InTrailers, Chunks!In
    <2>2. AtTrailers
      BY <2>1, Placed DEF ChunkInv, AtEnd
    <2>3. /\ Used = o + 3 /\ message.flaw \in {"none", "trailer"}
          /\ cursor \in {0, Len(message.trailer)} /\ cursor <= Len(buffer)
      BY <1>1, <2>1, <2>2 DEF AtTrailers, o, m
    <2>4. \/ m < t + 3 /\ (message.flaw = "none" => m < t + 2)
          \/ Chunks!TrailerEnd \in {t, t + 1, 1}
      BY <2>3, TrailerAt DEF t, m, o
    <2>5. m < t + 3 /\ (message.flaw = "none" => m < t + 2)
      BY <1>2, <2>1, <2>4 DEF NotFound
    <2> QED  BY <1>1, <1>2, <2>3, <2>5 DEF n
  <1>8. ~(\/ Chunks!SizeBad \/ Chunks!SizeTooLarge \/ Chunks!ChunkStart \/ Chunks!CrlfBad
          \/ Chunks!ChunkEnd \/ Chunks!TrailersTooLong \/ Chunks!TrailerBad
          \/ Chunks!NextTrailer \/ Chunks!LastTrailer)
    BY DEF Chunks!SizeBad, Chunks!SizeTooLarge, Chunks!ChunkStart, Chunks!CrlfBad, Chunks!ChunkEnd,
       Chunks!TrailersTooLong, Chunks!TrailerBad, Chunks!NextTrailer, Chunks!LastTrailer,
       Chunks!Return, Chunks!HasSize, Chunks!InTrailers, Chunks!In
  <1> QED  BY <1>4, <1>5, <1>6, <1>7, <1>8 DEF DecodeChunks, Chunks!Next

(* Whoever waits has bytes of the body to come; and a turn over the upload *)
(* leaves no byte untaken while the body still lacks some.                 *)
WaitInv ==
    /\ pc = "wait" => arrived < Len(BodyWire(message))
    /\ ~Chunked /\ pc \in {"upload", "fed"} => body_remaining = 0 \/ buffer = <<>>

(* No body is empty: it has at least its last delimiter or its last chunk. *)
LEMMA WaitsInitially == Init => WaitInv
  <1> SUFFICES ASSUME Init
               PROVE  WaitInv
    OBVIOUS
  <1>1. message \in Messages /\ arrived = 0 /\ pc = "wait"
    BY DEF Init
  <1> DEFINE n == Len(BodyWire(message))
  <1>2. n \in Nat /\ n > 0
    <2>1. CASE Chunked
      <3>1. Count \in Nat
        BY <1>1, <2>1, ChunkedIs
      <3> DEFINE o == Offset(Count)
                 t == Len(message.trailer)
      <3>2. o \in Nat /\ t \in Nat /\ n \in {o + t + 8, o + t + 5}
        BY <1>1, <2>1, <3>1, EndAt
      <3> HIDE DEF o, t, n
      <3> QED  BY <3>2
    <2>2. CASE ~Chunked
      <3> DEFINE o == PartOffset(Count)
      <3>1. o \in Nat /\ n = o + 7
        BY <1>1, <2>2, PartsEndAt
      <3> HIDE DEF o, n
      <3> QED  BY <3>1
    <2> QED  BY <2>1, <2>2
  <1> HIDE DEF n
  <1> QED  BY <1>1, <1>2 DEF WaitInv, n

(* A turn takes all of the buffer or all that the body lacks.              *)
LEMMA TakesAll ==
    ASSUME BufferInv, ~Chunked, PartInv, TakeBody
    PROVE  body_remaining' = 0 \/ buffer' = <<>>
  <1> DEFINE n == ToProcess
             m == Len(buffer)
  <1>1. m \in Nat /\ buffer \in Seq(Byte)
    BY BufferType
  <1>2. body_remaining \in Nat
    <2>1. Len(BodyWire(message)) \in Nat /\ Used \in Int
      <3> DEFINE o == PartOffset(Count)
      <3>1. o \in Nat /\ Len(BodyWire(message)) = o + 7
        BY BufferType, PartsEndAt
      <3>2. arrived \in Nat /\ Used = arrived - m
        BY DEF BufferInv, Used
      <3> HIDE DEF o, m
      <3> QED  BY <1>1, <3>1, <3>2
    <2> QED  BY <2>1 DEF PartInv
  <1>3. body_remaining' = body_remaining - n /\ buffer' = Drain(buffer, n)
    BY DEF TakeBody
  <1>4. n = IF m < body_remaining THEN m ELSE body_remaining
    BY DEF ToProcess
  <1>5. CASE m < body_remaining
    <2>1. n = m
      BY <1>4, <1>5
    <2>2. buffer' \in Seq(Byte) /\ Len(buffer') = 0
      <3>1. Drain(buffer, m) \in Seq(Byte) /\ Len(Drain(buffer, m)) = m - m
        BY <1>1, DrainOf DEF Sliced
      <3> QED  BY <1>1, <1>3, <2>1, <3>1
    <2> QED  BY <2>2, EmptySeq
  <1>6. CASE ~(m < body_remaining)
    BY <1>2, <1>3, <1>4, <1>6
  <1> QED  BY <1>5, <1>6

(* A body in parts that is not complete when its turn ends has not come    *)
(* to its end.                                                             *)
LEMMA PartsWaitForMore ==
    ASSUME BufferInv, ~Chunked, PartInv, WaitInv, BodyTaken, pc' = "wait"
    PROVE  arrived < Len(BodyWire(message))
  <1> DEFINE n == Len(BodyWire(message))
             o == PartOffset(Count)
  <1>1. body_remaining # 0 /\ pc = "fed"
    BY DEF BodyTaken
  <1>2. buffer = <<>>
    BY <1>1 DEF WaitInv
  <1>3. Len(buffer) = 0 /\ arrived \in Nat
    BY <1>2 DEF BufferInv
  <1>4. Used = arrived
    BY <1>3 DEF Used
  <1>5. body_remaining = n - arrived /\ n - arrived >= 0
    BY <1>4 DEF PartInv
  <1>6. o \in Nat /\ n = o + 7
    BY BufferType, PartsEndAt
  <1> HIDE DEF n, o
  <1>7. arrived < n
    BY <1>1, <1>3, <1>5, <1>6
  <1> QED  BY <1>7 DEF n

LEMMA WaitsOn == IInv /\ WaitInv /\ [Next]_vars => WaitInv'
  <1> SUFFICES ASSUME IInv, WaitInv, [Next]_vars
               PROVE  WaitInv'
    OBVIOUS
  <1>1. BufferInv
    BY DEF IInv
  <1>2. ASSUME message' = message
        PROVE  BodyWire(message)' = BodyWire(message) /\ Chunked' = Chunked
    BY <1>2 DEF Chunked
  <1>3. CASE UNCHANGED vars
    <2>1. UNCHANGED <<message, arrived, buffer, body_remaining, pc>>
      BY <1>3 DEF vars
    <2> QED  BY <1>2, <2>1 DEF WaitInv
  <1>4. CASE Deliver
    <2>1. pc' \in {"chunks", "take"}
      BY <1>4 DEF Deliver
    <2> QED  BY <2>1 DEF WaitInv
  <1>5. CASE OtherStores
    <2>1. UNCHANGED <<message, arrived, buffer, body_remaining, pc>>
      BY <1>5 DEF OtherStores
    <2> QED  BY <1>2, <2>1 DEF WaitInv
  <1>6. CASE Handler /\ Chunked
    <2>1. ChunkInv
      BY <1>6 DEF IInv
    <2>2. pc \in {"wait", "chunks", "refused", "complete"}
      BY <2>1 DEF ChunkInv, ChunkPlace, AtSize, AtData, AtBreak, AtTrailers, AtEnd
    <2>3. DecodeChunks
      BY <1>6, <2>2 DEF Handler, TakeBody, DecodeParts, BodyTaken, Parts!Next,
         Parts!NextPart, Parts!PartWait, Parts!NoPart, Parts!Header, Parts!HeaderWait,
         Parts!FilePartEnd, Parts!FieldEnd, Parts!Flush, Parts!DataWait, Parts!At
    <2>4. message' = message /\ arrived' = arrived
      BY <2>3 DEF DecodeChunks
    <2>5. pc' = "wait" => arrived < Len(BodyWire(message))
      BY <1>1, <1>6, <2>1, <2>3, ChunksWaitForMore
    <2> QED  BY <1>2, <1>6, <2>4, <2>5 DEF WaitInv
  <1>7. CASE Handler /\ ~Chunked
    <2>1. PartInv
      BY <1>7 DEF IInv
    <2>2. pc # "chunks"
      BY <2>1 DEF PartInv
    <2>3. ~DecodeChunks
      BY <2>2 DEF DecodeChunks, Chunks!Next, Chunks!SizeWait, Chunks!SizeBad, Chunks!SizeTooLarge,
         Chunks!ChunkStart, Chunks!HasSize, Chunks!DataWait, Chunks!ReadData, Chunks!CrlfWait,
         Chunks!CrlfBad, Chunks!ChunkEnd, Chunks!TrailersTooLong, Chunks!TrailerWait,
         Chunks!TrailerBad, Chunks!NextTrailer, Chunks!LastTrailer, Chunks!InTrailers, Chunks!In
    <2>4. CASE TakeBody
      <3>1. pc' = "upload"
        BY <2>4 DEF TakeBody
      <3>2. body_remaining' = 0 \/ buffer' = <<>>
        BY <1>1, <1>7, <2>1, <2>4, TakesAll
      <3> QED  BY <3>1, <3>2 DEF WaitInv
    <2>5. CASE DecodeParts
      <3>1. UNCHANGED <<message, buffer, body_remaining>> /\ pc = "upload"
        BY <2>5 DEF DecodeParts, Parts!Next, Parts!NextPart, Parts!PartWait, Parts!NoPart,
           Parts!Header, Parts!HeaderWait, Parts!FilePartEnd, Parts!FieldEnd, Parts!Flush,
           Parts!DataWait, Parts!At
      <3>2. pc' \in {"upload", "fed"}
        BY <2>5, <3>1 DEF DecodeParts, Parts!Next, Parts!NextPart, Parts!PartWait, Parts!NoPart,
           Parts!Header, Parts!HeaderWait, Parts!FilePartEnd, Parts!FieldEnd, Parts!Flush,
           Parts!DataWait, Parts!Fed
      <3> QED  BY <1>7, <3>1, <3>2 DEF WaitInv
    <2>6. CASE BodyTaken
      <3>1. message' = message /\ arrived' = arrived /\ pc' \in {"complete", "wait"}
        BY <2>6 DEF BodyTaken
      <3>2. pc' = "wait" => arrived < Len(BodyWire(message))
        BY <1>1, <1>7, <2>1, <2>6, PartsWaitForMore
      <3> QED  BY <1>2, <3>1, <3>2 DEF WaitInv
    <2> QED  BY <1>7, <2>3, <2>4, <2>5, <2>6 DEF Handler
  <1> QED  BY <1>3, <1>4, <1>5, <1>6, <1>7 DEF Next

(* However the bytes are cut, whatever the body is and wherever its damage *)
(* lies: the parser never asks the client for bytes that it already has.   *)
(* When it returns to wait, the client has not sent the end of the body,   *)
(* so that both never wait for each other.                                 *)
THEOREM NeverWaitsInVain == Spec => [](pc = "wait" => arrived < Len(BodyWire(message)))
  <1>1. WaitInv => (pc = "wait" => arrived < Len(BodyWire(message)))
    BY DEF WaitInv
  <1>2. Spec => []WaitInv
    <2>1. Init => WaitInv
      BY WaitsInitially
    <2>2. IInv /\ WaitInv /\ [Next]_vars => WaitInv'
      BY WaitsOn
    <2> QED  BY <2>1, <2>2, BodyAlways, PTL DEF Spec
  <1> QED  BY <1>1, <1>2, PTL

-----------------------------------------------------------------------------
(* No endless loop.                                                        *)

(* What a decoder still has before it: the bytes it has not passed, and a  *)
(* delimiter that it has seen and will come back to.                       *)
Left ==
    IF Chunked THEN Len(buffer) - cursor
    ELSE 2 * (Len(upload.buffer) - upload.current_pos)
           + (IF upload.multi_part_state = "NextBoundary" THEN 1 ELSE 0)

(* There is never less than nothing left.                                  *)
LeftInv == Left \in Nat
LEMMA LeftFollows == IInv => LeftInv
  <1> SUFFICES ASSUME IInv PROVE Left \in Nat
    BY DEF LeftInv
  <1>1. TypeOK
    BY TypeFollows
  <1>2. CASE Chunked
    <2>1. cursor \in 0 .. Len(buffer) /\ Len(buffer) \in Nat
      BY <1>1, BufferType DEF TypeOK, IInv
    <2> QED  BY <1>2, <2>1 DEF Left
  <1>3. CASE ~Chunked
    <2>1. upload \in Uploads
      BY <1>3 DEF IInv, PartInv
    <2>2. Len(upload.buffer) \in Nat /\ upload.current_pos \in 0 .. Len(upload.buffer)
      BY <1>1, <2>1, LenProperties DEF TypeOK, Uploads
    <2> QED  BY <1>3, <2>2 DEF Left
  <1> QED  BY <1>2, <1>3

(* A turn over the chunks that does not end the loop passes some bytes.    *)
LEMMA ChunkTurnPasses ==
    ASSUME BufferInv, Chunked, ChunkInv, DecodeChunks, pc' = pc, cursor \in 0 .. Len(buffer)
    PROVE  Left' < Left
  <1> DEFINE m == Len(buffer)
  <1>1. /\ m \in Nat /\ buffer \in Seq(Byte) /\ cursor \in Nat /\ cursor <= m
        /\ SizeLimit \in Nat
    BY BufferType, LimitsAssumption
  <1>2. Left = m - cursor /\ Left' = Len(buffer') - cursor'
    <2>1. message' = message
      BY DEF DecodeChunks
    <2>2. Chunked'
      BY <2>1, SameMessage
    <2> QED  BY <2>2 DEF Left
  <1> HIDE DEF m
  <1>3. ASSUME NEW n \in 1 .. m, buffer' = Drain(buffer, n), cursor' = cursor
        PROVE  Left' < Left
    <2>1. n \in 0 .. Len(buffer)
      BY <1>1 DEF m
    <2>2. Len(buffer') = m - n
      BY <1>1, <1>3, <2>1, DrainOf DEF Sliced, m
    <2>3. Left' = (m - n) - cursor
      BY <1>2, <1>3, <2>2
    <2> QED  BY <1>1, <1>2, <2>3
  <1>4. CASE Chunks!ChunkStart
    <2> DEFINE k == IF m < SizeLimit THEN m ELSE SizeLimit
               s == Slice(buffer, 0, k)
               e == Find(s, CRLF, 0)
    <2>1. k \in Nat /\ 0 <= k /\ k <= m
      BY <1>1
    <2>2. s \in Seq(Byte) /\ Len(s) = k
      <3> HIDE DEF k
      <3>1. k <= Len(buffer)
        BY <2>1 DEF m
      <3>2. s \in Seq(Byte) /\ Sliced(buffer, 0, k, s)
        BY <1>1, <2>1, <3>1, SliceOf
      <3> QED  BY <2>1, <3>2 DEF Sliced
    <2>3. Chunks!LineEnd = e /\ e # NotFound /\ buffer' = Drain(buffer, e + 2) /\ cursor' = cursor
      <3>1. Chunks!LineEnd = e
        BY SameBytes DEF Chunks!LineEnd, m
      <3> QED  BY <1>4, <3>1, SameBytes DEF Chunks!ChunkStart, Chunks!HasSize
    <2> HIDE DEF k, s
    <2>4. e \in Nat /\ CrlfAt(s, e)
      BY <2>2, <2>3, FindCrlf
    <2> HIDE DEF e
    <2>5. e + 2 \in 1 .. m
      BY <1>1, <2>1, <2>2, <2>4 DEF CrlfAt
    <2> QED  BY <1>3, <2>3, <2>5
  <1>5. CASE Chunks!ReadData
    <2>1. chunk_state = "ReadData" /\ buffer # <<>> /\ cursor' = cursor
          /\ buffer' = Drain(buffer, Chunks!ToRead)
      BY <1>5, SameBytes DEF Chunks!ReadData, Chunks!In
    <2>2. remaining_size \in Nat /\ remaining_size > 0
      <3>1. PICK k \in 0 .. Count - 1 : \E j \in 0 .. Len(message.body[k + 1]) - 1 : AtData(k, j)
        BY <2>1, Placed DEF ChunkInv
      <3>2. PICK j \in 0 .. Len(message.body[k + 1]) - 1 : AtData(k, j)
        BY <3>1
      <3>3. Len(message.body[k + 1]) \in Nat
        <4>1. /\ Count \in Nat /\ \A i \in 1 .. Count : Len(message.body[i]) \in Nat
          BY BufferType, ChunkedIs
        <4> QED  BY <4>1
      <3> DEFINE l == Len(message.body[k + 1])
      <3>4. remaining_size = l - j /\ l \in Nat /\ j \in 0 .. l - 1
        BY <3>2, <3>3 DEF AtData
      <3> HIDE DEF l
      <3> QED  BY <3>4
    <2>3. m > 0
      BY <1>1, <2>1, EmptySeq DEF m
    <2>4. Chunks!ToRead = IF m < remaining_size THEN m ELSE remaining_size
      BY DEF Chunks!ToRead, m
    <2>5. Chunks!ToRead \in 1 .. m
      BY <1>1, <2>2, <2>3, <2>4
    <2> QED  BY <1>3, <2>1, <2>5
  <1>6. CASE Chunks!ChunkEnd
    <2>1. m >= 2 /\ buffer' = Drain(buffer, 2) /\ cursor' = cursor
      BY <1>6, SameBytes DEF Chunks!ChunkEnd, m
    <2>2. 2 \in 1 .. m
      BY <1>1, <2>1
    <2> QED  BY <1>3, <2>1, <2>2
  <1>7. CASE Chunks!NextTrailer
    <2> DEFINE e == Find(buffer, CRLF, cursor)
    <2>1. Chunks!TrailerEnd = e /\ e # NotFound /\ cursor' = e + 2 /\ buffer' = buffer
      <3>1. Chunks!TrailerEnd = e
        BY SameBytes DEF Chunks!TrailerEnd
      <3> QED  BY <1>7, <3>1, SameBytes DEF Chunks!NextTrailer
    <2>2. e \in Nat /\ cursor <= e
      BY <1>1, <2>1, FindCrlf
    <2> HIDE DEF e
    <2>3. Len(buffer') = m
      BY <2>1 DEF m
    <2> QED  BY <1>1, <1>2, <2>1, <2>2, <2>3
  <1>8. ~(\/ Chunks!SizeWait \/ Chunks!SizeBad \/ Chunks!SizeTooLarge \/ Chunks!DataWait
          \/ Chunks!CrlfWait \/ Chunks!CrlfBad \/ Chunks!TrailersTooLong \/ Chunks!TrailerWait
          \/ Chunks!TrailerBad \/ Chunks!LastTrailer)
    BY DEF Chunks!SizeWait, Chunks!SizeBad, Chunks!SizeTooLarge, Chunks!DataWait, Chunks!CrlfWait,
       Chunks!CrlfBad, Chunks!TrailersTooLong, Chunks!TrailerWait, Chunks!TrailerBad,
       Chunks!LastTrailer, Chunks!Return, Chunks!HasSize, Chunks!InTrailers, Chunks!In
  <1> QED  BY <1>4, <1>5, <1>6, <1>7, <1>8 DEF DecodeChunks, Chunks!Next

(* A turn over the parts that does not end the loop passes a delimiter or  *)
(* a header, or comes back to the delimiter at the end of a part.          *)
LEMMA PartTurnPasses ==
    ASSUME ~Chunked, PartInv, DecodeParts, pc' = pc,
           upload.current_pos \in 0 .. Len(upload.buffer)
    PROVE  Left' < Left
  <1> DEFINE s == upload.buffer
             m == Len(upload.buffer)
             p == upload.current_pos
  <1>1. upload \in Uploads /\ s \in Seq(Byte) /\ m \in Nat /\ p \in Nat /\ p <= m
    <2>1. upload \in Uploads
      BY DEF PartInv
    <2> QED  BY <2>1, LenProperties DEF Uploads
  <1>2. ~Chunked'
    <2>1. message' = message
      BY DEF DecodeParts
    <2> QED  BY <2>1, SameMessage
  <1>3. Left = 2 * (m - p) + (IF upload.multi_part_state = "NextBoundary" THEN 1 ELSE 0)
    BY DEF Left
  <1>4. Left' = 2 * (Len(upload'.buffer) - upload'.current_pos)
                  + (IF upload'.multi_part_state = "NextBoundary" THEN 1 ELSE 0)
    BY <1>2 DEF Left
  <1> HIDE DEF m, p
  <1>5. CASE Parts!NextPart
    <2> DEFINE e == Find(s, Parts!Delimiter, p)
    <2>1. Parts!Start = e /\ e # NotFound /\ upload.multi_part_state = "Start"
      <3>1. Parts!Start = e
        BY SameBytes DEF Parts!Start, p
      <3> QED  BY <1>5, <3>1, SameBytes DEF Parts!NextPart, Parts!At
    <2>2. e \in Nat /\ p <= e
      BY <1>1, <2>1, FindDelimiter
    <2>3. Parts!PartStart = e + 5
      BY <2>1, <2>2 DEF Parts!PartStart, Parts!Delimiter, Parts!Boundary
    <2>4. upload' = [upload EXCEPT !.current_pos = Parts!PartStart, !.multi_part_state = "HeaderSep"]
      <3>1. pc = "upload"
        BY <1>5 DEF Parts!NextPart, Parts!At
      <3> QED  BY <1>5, <3>1 DEF Parts!NextPart
    <2> HIDE DEF e
    <2>5. Len(upload'.buffer) = m /\ upload'.current_pos = e + 5
          /\ upload'.multi_part_state = "HeaderSep"
      BY <1>1, <2>3, <2>4 DEF Uploads, m
    <2> QED  BY <1>1, <1>3, <1>4, <2>1, <2>2, <2>5
  <1>6. CASE Parts!Header
    <2> DEFINE e == Find(s, Parts!HeaderSep, p)
    <2>1. Parts!HeaderEnd = e /\ e # NotFound /\ upload.multi_part_state = "HeaderSep"
      <3>1. Parts!HeaderEnd = e
        BY SameBytes DEF Parts!HeaderEnd, p
      <3> QED  BY <1>6, <3>1, SameBytes DEF Parts!Header, Parts!At
    <2>2. e \in Nat /\ p <= e
      BY <1>1, <2>1, FindHeaderSep
    <2>3. upload' = [upload EXCEPT !.part = upload.buffer[upload.current_pos + 1],
                                   !.multi_part_state = "NextBoundary",
                                   !.data_start = e + 4, !.current_pos = e + 4]
      BY <1>6, <2>1 DEF Parts!Header
    <2> HIDE DEF e
    <2>4. Len(upload'.buffer) = m /\ upload'.current_pos = e + 4
          /\ upload'.multi_part_state = "NextBoundary"
      BY <1>1, <2>3 DEF Uploads, m
    <2> QED  BY <1>1, <1>3, <1>4, <2>1, <2>2, <2>4
  <1>7. CASE Parts!FilePartEnd \/ Parts!FieldEnd
    <2> DEFINE e == Find(s, Parts!Delimiter, upload.data_start)
    <2>1. Parts!NextDelimiter = e /\ e # NotFound /\ upload.multi_part_state = "NextBoundary"
      <3>1. Parts!NextDelimiter = e
        BY SameBytes DEF Parts!NextDelimiter
      <3> QED  BY <1>7, <3>1, SameBytes DEF Parts!FilePartEnd, Parts!FieldEnd, Parts!At
    <2>2. upload.data_start = p /\ p \in Nat
      BY <1>1, <2>1 DEF PartInv, PartPlace, AtDelimiter, AtHeader, AtPart, p
    <2>3. e \in Nat /\ p <= e /\ e <= m
      <3>1. e \in Nat /\ p <= e /\ DelimiterAt(s, e)
        BY <1>1, <2>1, <2>2, FindDelimiter
      <3> HIDE DEF e
      <3> QED  BY <1>1, <3>1 DEF DelimiterAt, m
    <2> DEFINE r == Drain(s, e)
    <2>4. Len(r) = m - e
      <3>1. e \in 0 .. Len(s)
        BY <1>1, <2>3 DEF m
      <3> HIDE DEF e
      <3> QED  BY <1>1, <3>1, DrainOf DEF Sliced, m
    <2> DEFINE Closed(u) == [u EXCEPT !.buffer = r, !.current_pos = 0,
                                      !.current_file = Parts!NoFile, !.multi_part_state = "Start"]
    <2>5. \/ upload' = Closed(upload)
          \/ \E saved : upload' = Closed([upload EXCEPT !.saved_filenames = saved])
      <3>1. CASE Parts!FilePartEnd
        BY <2>1, <3>1, FileStep
      <3>2. CASE Parts!FieldEnd
        <4>1. upload' = Parts!Cleaned(upload, e)
          BY <2>1, <3>2 DEF Parts!FieldEnd
        <4>2. Parts!Cleaned(upload, e) = Closed(upload)
          BY SameBytes DEF Parts!Cleaned
        <4> QED  BY <4>1, <4>2
      <3> QED  BY <1>7, <3>1, <3>2
    <2> HIDE DEF r, e
    <2>6. upload'.buffer = r /\ upload'.current_pos = 0 /\ upload'.multi_part_state = "Start"
      <3>1. CASE upload' = Closed(upload)
        BY <1>1, <3>1 DEF Uploads
      <3>2. ASSUME NEW saved, upload' = Closed([upload EXCEPT !.saved_filenames = saved])
            PROVE  upload'.buffer = r /\ upload'.current_pos = 0 /\ upload'.multi_part_state = "Start"
        BY <1>1, <3>2 DEF Uploads
      <3> QED  BY <2>5, <3>1, <3>2
    <2>7. Len(upload'.buffer) = m - e
      BY <2>4, <2>6
    <2> QED  BY <1>1, <1>3, <1>4, <2>1, <2>3, <2>6, <2>7
  <1>8. ~(\/ Parts!PartWait \/ Parts!NoPart \/ Parts!HeaderWait \/ Parts!Flush \/ Parts!DataWait)
    BY DEF Parts!PartWait, Parts!NoPart, Parts!HeaderWait, Parts!Flush, Parts!DataWait,
       Parts!Fed, Parts!At
  <1> QED  BY <1>5, <1>6, <1>7, <1>8 DEF DecodeParts, Parts!Next

(* Whatever the bytes are and however they are cut: each turn of a         *)
(* decoder's loop that does not end the loop leaves less before it, and    *)
(* never less than nothing.  So no input keeps the one thread that serves  *)
(* all connections in it for ever.                                         *)
THEOREM TurnsEnd ==
    Spec => [][pc' = pc /\ pc \in {"chunks", "upload"} => Left' < Left /\ Left' \in Nat]_vars
  <1> DEFINE P == pc' = pc /\ pc \in {"chunks", "upload"} => Left' < Left /\ Left' \in Nat
  <1>1. IInv /\ LeftInv' /\ [Next]_vars => [P]_vars
    <2> SUFFICES ASSUME IInv, LeftInv', Next, pc' = pc, pc \in {"chunks", "upload"}
                 PROVE  Left' < Left /\ Left' \in Nat
      BY DEF P
    <2>1. Left' \in Nat
      BY DEF LeftInv
    <2>2. BufferInv /\ TypeOK
      BY TypeFollows DEF IInv
    <2>3. DecodeChunks \/ DecodeParts
      BY DEF Next, Handler, Deliver, TakeBody, BodyTaken, OtherStores
    <2>4. CASE Chunked
      <3>1. ChunkInv
        BY <2>4 DEF IInv
      <3>2. pc # "upload"
        BY <3>1 DEF ChunkInv, ChunkPlace, AtSize, AtData, AtBreak, AtTrailers, AtEnd
      <3>3. DecodeChunks
        BY <2>3, <3>2 DEF DecodeParts, Parts!Next, Parts!NextPart, Parts!PartWait, Parts!NoPart,
           Parts!Header, Parts!HeaderWait, Parts!FilePartEnd, Parts!FieldEnd, Parts!Flush,
           Parts!DataWait, Parts!At
      <3>4. cursor \in 0 .. Len(buffer)
        BY <2>2 DEF TypeOK
      <3> QED  BY <2>1, <2>2, <2>4, <3>1, <3>3, <3>4, ChunkTurnPasses
    <2>5. CASE ~Chunked
      <3>1. PartInv
        BY <2>5 DEF IInv
      <3>2. pc # "chunks"
        BY <3>1 DEF PartInv
      <3>3. DecodeParts
        BY <2>3, <3>2 DEF DecodeChunks, Chunks!Next, Chunks!SizeWait, Chunks!SizeBad,
           Chunks!SizeTooLarge, Chunks!ChunkStart, Chunks!HasSize, Chunks!DataWait,
           Chunks!ReadData, Chunks!CrlfWait, Chunks!CrlfBad, Chunks!ChunkEnd,
           Chunks!TrailersTooLong, Chunks!TrailerWait, Chunks!TrailerBad, Chunks!NextTrailer,
           Chunks!LastTrailer, Chunks!InTrailers, Chunks!In
      <3>4. upload.current_pos \in 0 .. Len(upload.buffer)
        BY <2>2 DEF TypeOK
      <3> QED  BY <2>1, <2>5, <3>1, <3>3, <3>4, PartTurnPasses
    <2> QED  BY <2>4, <2>5
  <1>2. Spec => []LeftInv
    BY BodyAlways, LeftFollows, PTL
  <1> QED  BY <1>1, <1>2, BodyAlways, PTL DEF Spec

=============================================================================
