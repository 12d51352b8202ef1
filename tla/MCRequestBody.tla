---------------------------- MODULE MCRequestBody ----------------------------
(* RequestBody with a few messages.                                         *)
EXTENDS RequestBody

ChunkMessage(body, trailer, rest, flaw) ==
    [encoding |-> "chunked", body |-> body, trailer |-> trailer, rest |-> rest, flaw |-> flaw]

(* Chunks that look like framing, one that fills MaxBodySize and one that   *)
(* exceeds it, trailers, a long next request, and every flaw.               *)
ChunkMessages ==
    {ChunkMessage(b, t, r, f) :
        b \in {<<<<"a", "cr", "lf">>, <<"0">>>>, <<<<"cr", "lf", "0", "a">>>>, <<<<"a", "a">>, <<"0", "a", "a">>>>},
        t \in {<<>>, <<"t">> \o CRLF}, r \in {<<>>, <<"x", "cr">>, <<"x", "x", "x", "x">>},
        f \in Flaws}

PartMessage(preamble, body, rest) ==
    [encoding |-> "multipart", preamble |-> preamble, body |-> body, rest |-> rest]

Part(header, data) == [header |-> header, data |-> data]
Tricky == <<"-", "-", "cr", "lf", "-", "-", "a", "a", "-">>

(* Short and long parts, equal names, data like a delimiter, a preamble.    *)
PartMessages ==
    { PartMessage(<<>>, <<Part("f", Tricky), Part("f", <<>>)>>, <<"x">>),
      PartMessage(<<>>, <<Part(Parts!Field, Tricky), Part("f", <<"a", "cr", "lf">>)>>, <<>>),
      PartMessage(<<"a", "a", "-", "-", "cr", "lf">>, <<Part("f", Tricky)>>, <<"x", "x">>) }

AllMessages == ChunkMessages \cup PartMessages
=============================================================================
