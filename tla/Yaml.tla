-------------------------------- MODULE Yaml --------------------------------
(***************************************************************************)
(* The configuration language: the tokenizer (parser/src/lexer), the       *)
(* parser (parser/src/lib.rs) and the conversion of what it read into      *)
(* typed structures (parser/src/from_yaml.rs, parser_derive), as operators *)
(* on a text.                                                              *)
(*                                                                         *)
(* A text is a sequence of symbols: a run of letters is one symbol, a      *)
(* break of the line is "NL", a space "SP", other white space "TAB", a     *)
(* quote "Q"; the others stand for themselves.  Recursive: for TLC only.   *)
(***************************************************************************)
EXTENDS Integers, Sequences, FiniteSets, SequencesExt, Functions, TLC

CONSTANTS
    Numeral,   \* the numbers that are written: text -> value
    BadSymbol  \* a character that nothing may begin with

(* The first place from p on at which a symbol of S stands, or the end.    *)
Seek(t, p, S(_)) ==
    CHOOSE q \in p .. Len(t) + 1 :
        /\ q = Len(t) + 1 \/ S(t[q])
        /\ \A r \in p .. q - 1 : ~S(t[r])

-----------------------------------------------------------------------------
(* The tokenizer.  A token that cannot be read is Bad, and the last one.   *)

Mark(kind) == [kind |-> kind]
Indent(n) == [kind |-> "Indent", n |-> n]
Identifier(text) == [kind |-> "Identifier", text |-> text]
Bad == Mark("Bad")

Punctuation ==
    [s \in {",", "[", "]", "{", "}"} |->
        CASE s = "," -> Mark("Comma")
          [] s = "[" -> Mark("OpenBracket") [] s = "]" -> Mark("CloseBracket")
          [] s = "{" -> Mark("OpenBrace")   [] s = "}" -> Mark("CloseBrace")]

EndsWord(s) == s \in {"SP", "TAB", "NL", ":", "#", "[", "]", ",", "{", "}"}

(* A token, where the next one begins, and is_at_line_start after it.      *)
Read(token, at, fresh) == [token |-> token, at |-> at, fresh |-> fresh]

(* read_identifier_from: from p, whose first symbol is taken in any case.  *)
ReadWord(t, p, fresh) ==
    LET e == Seek(t, p + 1, EndsWord) IN Read(Identifier(SubSeq(t, p, e - 1)), e, fresh)

ReadQuoted(t, p, fresh) ==
    LET e == Seek(t, p + 1, LAMBDA s : s = "Q") IN
    IF e > Len(t) THEN Read(Bad, e, fresh)
    ELSE Read(Identifier(SubSeq(t, p + 1, e - 1)), e + 1, fresh)

Blank(t, p) == p <= Len(t) /\ t[p] \in {"SP", "NL"}

(* Mutant: a comment counts as a line of its own.                          *)
IsContent_Comment(t, p) == p <= Len(t) /\ t[p] # "NL"
IsContent(t, p) == p <= Len(t) /\ t[p] \notin {"NL", "#"}

RECURSIVE NextToken(_, _, _)
NextToken(t, p, fresh) ==
    IF p > Len(t) THEN Read(Mark("Eof"), p, fresh)
    ELSE CASE t[p] = "NL" ->
                LET line == Seek(t, p + 1, LAMBDA s : s # "NL")
                    e == Seek(t, line, LAMBDA s : s # "SP")
                IN  IF IsContent(t, e) THEN Read(Indent(e - line), e, TRUE)
                    ELSE NextToken(t, e, fresh)
           [] t[p] = "#" -> NextToken(t, Seek(t, p, LAMBDA s : s = "NL"), fresh)
           [] t[p] \in {"SP", "TAB"} -> NextToken(t, p + 1, fresh)
           [] t[p] = "Q" -> ReadQuoted(t, p, fresh)
           [] t[p] = "-" /\ fresh /\ (p = Len(t) \/ Blank(t, p + 1)) ->
                Read(Mark("Dash"), p + 1, FALSE)
           [] t[p] = ":" /\ Blank(t, p + 1) -> Read(Mark("Colon"), p + 1, fresh)
           [] t[p] \in DOMAIN Punctuation -> Read(Punctuation[t[p]], p + 1, fresh)
           [] t[p] = BadSymbol -> Read(Bad, p, fresh)
           [] OTHER -> ReadWord(t, p, fresh)

RECURSIVE TokensFrom(_, _, _)
TokensFrom(t, p, fresh) ==
    LET r == NextToken(t, p, fresh) IN
    <<r.token>> \o IF r.token.kind \in {"Eof", "Bad"} THEN <<>>
                   ELSE TokensFrom(t, r.at, r.fresh)
Tokens(t) == TokensFrom(t, 1, TRUE)

-----------------------------------------------------------------------------
(* The parser: ts[i] is the lookahead.  Each operator gives the value and  *)
(* the lookahead behind it.  A Bad token is never consumed, so that a      *)
(* parse that advanced to it has it as its last lookahead, or failed.      *)

Scalar(text) == [scalar |-> text]
List(items) == [list |-> items]
Map(m) == [map |-> m]

Parsed(value, at) == [ok |-> TRUE, value |-> value, at |-> at]
Failed == [ok |-> FALSE]

NoKeys == [k \in {} |-> 0]
Is(ts, i, kind) == ts[i].kind = kind

RECURSIVE ParseValue(_, _, _), ParseList(_, _, _, _, _), ParseMap(_, _, _, _, _),
          ParseBrackets(_, _, _), ParseBraces(_, _, _)

(* parse_value: a deeper line begins a block, any other leaves the value   *)
(* empty; a scalar is one word.                                            *)
ParseValue(ts, i, indent) ==
    CASE Is(ts, i, "Indent") /\ ts[i].n <= indent -> Parsed(Scalar(<<>>), i)
      [] Is(ts, i, "Indent") /\ ts[i].n > indent ->
           (CASE Is(ts, i + 1, "Dash") -> ParseList(ts, i + 1, ts[i].n, indent, <<>>)
              [] Is(ts, i + 1, "Identifier") ->
                   ParseMap(ts, i + 2, ts[i + 1].text, ts[i].n, NoKeys)
              [] OTHER -> ParseValue(ts, i + 1, ts[i].n))
      [] Is(ts, i, "Dash") -> ParseList(ts, i, indent, indent, <<>>)
      [] Is(ts, i, "OpenBracket") -> ParseBrackets(ts, i + 1, <<>>)
      [] Is(ts, i, "OpenBrace") -> ParseBraces(ts, i + 1, NoKeys)
      [] Is(ts, i, "Identifier") ->
           IF Is(ts, i + 1, "Colon") THEN ParseMap(ts, i + 1, ts[i].text, indent, NoKeys)
           ELSE IF Is(ts, i + 1, "Identifier") THEN Failed
           ELSE Parsed(Scalar(ts[i].text), i + 1)
      [] Is(ts, i, "Eof") -> Parsed(Scalar(<<>>), i)
      [] OTHER -> Failed

ParseList(ts, i, list, parent, items) ==
    IF ~Is(ts, i, "Dash") THEN Parsed(List(items), i)
    ELSE LET v == ParseValue(ts, i + 1, list + 2) IN
         IF ~v.ok THEN Failed
         ELSE LET all == Append(items, v.value) IN
              CASE Is(ts, v.at, "Indent") /\ ts[v.at].n = list ->
                     IF Is(ts, v.at + 1, "Dash") THEN ParseList(ts, v.at + 1, list, parent, all)
                     ELSE Failed
                [] Is(ts, v.at, "Indent") /\ ts[v.at].n # list ->
                     IF ts[v.at].n <= parent THEN Parsed(List(all), v.at)
                     ELSE Failed
                [] OTHER -> ParseList(ts, v.at, list, parent, all)

(* parse_map, from the colon of a key on.                                  *)
ParseMap(ts, i, key, indent, m) ==
    IF ~Is(ts, i, "Colon") \/ Is(ts, i + 1, "Dash") THEN Failed
    ELSE LET v == ParseValue(ts, i + 1, indent) IN
         IF ~v.ok \/ key \in DOMAIN m THEN Failed
         ELSE LET all == m @@ (key :> v.value) IN
              IF ~Is(ts, v.at, "Indent") \/ ts[v.at].n < indent THEN Parsed(Map(all), v.at)
              ELSE IF ts[v.at].n > indent \/ ~Is(ts, v.at + 1, "Identifier") THEN Failed
              ELSE ParseMap(ts, v.at + 2, ts[v.at + 1].text, indent, all)

BehindComma(ts, i) == IF Is(ts, i, "Comma") THEN i + 1 ELSE i

ParseBrackets(ts, i, items) ==
    CASE Is(ts, i, "CloseBracket") -> Parsed(List(items), i + 1)
      [] Is(ts, i, "Indent") -> ParseBrackets(ts, i + 1, items)
      [] Is(ts, i, "Eof") -> Failed
      [] OTHER ->
           LET v == ParseValue(ts, i, 0) IN
           IF v.ok THEN ParseBrackets(ts, BehindComma(ts, v.at), Append(items, v.value))
           ELSE Failed

(* In braces a key that comes again replaces the first.                    *)
ParseBraces(ts, i, m) ==
    CASE Is(ts, i, "CloseBrace") -> Parsed(Map(m), i + 1)
      [] Is(ts, i, "Indent") -> ParseBraces(ts, i + 1, m)
      [] Is(ts, i, "Identifier") /\ Is(ts, i + 1, "Colon") ->
           LET v == ParseValue(ts, i + 2, 0) IN
           IF v.ok THEN ParseBraces(ts, BehindComma(ts, v.at), (ts[i].text :> v.value) @@ m)
           ELSE Failed
      [] OTHER -> Failed

(* parse: what follows a complete value is not looked at.                  *)
Complete(ts, r) == IF ~r.ok \/ Is(ts, r.at, "Bad") THEN Failed ELSE r
Parse(t) ==
    LET ts == Tokens(t) IN
    Complete(ts, IF Is(ts, 1, "Indent") THEN ParseValue(ts, 2, ts[1].n) ELSE ParseValue(ts, 1, 0))

-----------------------------------------------------------------------------
(* FromYaml: the value of a type, or a failure of the whole.               *)

Got(value) == [ok |-> TRUE, value |-> value]
IsScalar(v) == DOMAIN v = {"scalar"}
IsList(v) == DOMAIN v = {"list"}
IsMap(v) == DOMAIN v = {"map"}

String == [type |-> "String"]
Bool == [type |-> "bool"]
Number(max) == [type |-> "number", max |-> max]
Option(of) == [type |-> "Option", of |-> of]
Vec(of) == [type |-> "Vec", of |-> of]
HashMap(of) == [type |-> "HashMap", of |-> of]
Struct(fields, default) == [type |-> "struct", fields |-> fields, default |-> default]

AsNumber(text, max) ==
    IF text \in DOMAIN Numeral /\ Numeral[text] <= max THEN Got(Numeral[text]) ELSE Failed

(* All of a function's conversions, or the failure of one.                 *)
Every(f) ==
    IF \A x \in DOMAIN f : f[x].ok THEN Got([x \in DOMAIN f |-> f[x].value]) ELSE Failed

RECURSIVE FromYaml(_, _)
FromYaml(T, v) ==
    CASE T.type = "String" -> IF IsScalar(v) THEN Got(v.scalar) ELSE Failed
      [] T.type = "bool" ->
           IF ~IsScalar(v) THEN Failed
           ELSE IF v.scalar \in {<<"true">>, <<"on">>} THEN Got(TRUE)
           ELSE IF v.scalar \in {<<"false">>, <<"off">>, <<>>} THEN Got(FALSE)
           ELSE Failed
      [] T.type = "number" -> IF IsScalar(v) THEN AsNumber(v.scalar, T.max) ELSE Failed
      [] T.type = "Option" -> Every(<<FromYaml(T.of, v)>>)
      [] T.type = "Vec" ->
           LET items == IF IsList(v) THEN v.list ELSE <<v>> IN
           Every([i \in DOMAIN items |-> FromYaml(T.of, items[i])])
      [] T.type = "HashMap" ->
           IF ~IsMap(v) THEN Failed
           ELSE IF \E key \in DOMAIN v.map : ~AsNumber(key, 65535).ok THEN Failed
           ELSE Every([n \in {Numeral[key] : key \in DOMAIN v.map} |->
                          FromYaml(T.of, v.map[CHOOSE key \in DOMAIN v.map : Numeral[key] = n])])
      [] T.type = "struct" ->
           IF ~IsMap(v) THEN Failed
           ELSE Every([f \in DOMAIN T.fields |->
                          IF <<f>> \in DOMAIN v.map THEN FromYaml(T.fields[f], v.map[<<f>>])
                          ELSE Got(T.default[f])])

(* from_str *)
Converted(T, r) == IF r.ok THEN FromYaml(T, r.value) ELSE Failed
FromStr(T, t) == Converted(T, Parse(t))
=============================================================================
