------------------------------- MODULE MCCgiPipe -------------------------------
(* CgiPipe with a few scripts.                                               *)
EXTENDS CgiPipe

(* Scripts that succeed, of every kind; scripts that break the lines of head *)
(* and body in every other way; and one that may exit at any time.           *)
Styled(ok, sized, heads, texts) ==
    [reads : {FALSE}, pieces : {1}, sized : sized, ok : ok, head : heads, text : texts]

SomeScripts ==
    [reads : BOOLEAN, pieces : {1}, sized : BOOLEAN, ok : {TRUE},
     head : {"crlf"}, text : {"plain"}]
      \cup Styled({TRUE}, {FALSE}, {"crlf"}, {"blank"})
      \cup Styled({TRUE}, {FALSE}, {"lf", "mixed", "open"}, {"plain", "cr", "blank"})
      \cup Styled({FALSE}, {FALSE}, {"lf"}, {"plain"})

(* Writes more than two reads take and exits.                                *)
LongScript ==
    {[reads |-> FALSE, pieces |-> 3, sized |-> TRUE, ok |-> TRUE,
      head |-> "crlf", text |-> "plain"]}
=============================================================================
