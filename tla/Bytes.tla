-------------------------------- MODULE Bytes --------------------------------
(* Byte strings as sequences of symbols, with the offsets of the source: an  *)
(* offset counts the bytes before it, and a range ends before its second     *)
(* bound.                                                                    *)
EXTENDS Integers, Sequences

CRLF == <<"cr", "lf">>
NotFound == -1

Slice(s, from, to) == SubSeq(s, from + 1, to)
Drain(s, n) == SubSeq(s, n + 1, Len(s))
Drop(s, from, to) == Slice(s, 0, from) \o Drain(s, to)

(* find_subsequence, find_crlf: the first occurrence at or after an offset.  *)
Occurrences(s, needle, from) ==
    {i \in from .. Len(s) - Len(needle) : Slice(s, i, i + Len(needle)) = needle}
Find(s, needle, from) ==
    LET found == Occurrences(s, needle, from) IN
    IF found = {} THEN NotFound ELSE CHOOSE i \in found : \A j \in found : i <= j
=============================================================================
