----------------------------- MODULE MCStartup -----------------------------
(* Boot with small files, in several layouts, sound and damaged.          *)
EXTENDS Boot

-----------------------------------------------------------------------------
(* A writer of configurations.  A value is a text, a list of values, or a  *)
(* sequence of pairs of a key and a value; a line has an indentation and   *)
(* its symbols.                                                            *)

Texts(v) == [is |-> "text", v |-> v]
Items(v) == [is |-> "list", v |-> v]
Pairs(v) == [is |-> "map", v |-> v]

Spaces(n) == [i \in 1 .. n |-> "SP"]
Line(n, s) == <<[n |-> n, s |-> s]>>
Concat(s) == FoldLeft(\o, <<>>, s)

Word(l, text) == IF l.quoted \/ text = <<>> THEN <<"Q">> \o text \o <<"Q">> ELSE text
Spread(s) == Concat([i \in DOMAIN s |-> IF i = 1 THEN s[i] ELSE <<",", "SP">> \o s[i]])
Plain(v) == v.is = "list" /\ \A i \in DOMAIN v.v : v.v[i].is = "text"

RECURSIVE WriteMap(_, _, _), WriteList(_, _, _)
(* The lines below a list's key, its dashes at column n.                   *)
WriteList(l, v, n) ==
    Concat([i \in DOMAIN v |->
        LET lines == IF v[i].is = "text" THEN Line(0, Word(l, v[i].v)) ELSE WriteMap(l, v[i].v, n + 2)
        IN  Line(n, <<"-", "SP">> \o lines[1].s) \o Tail(lines)])
WriteMap(l, v, n) ==
    Concat([i \in DOMAIN v |->
        LET key == v[i][1] \o <<":">> value == v[i][2] IN
        CASE value.is = "text" -> Line(n, key \o <<"SP">> \o Word(l, value.v))
          [] value.is = "map" -> Line(n, key) \o WriteMap(l, value.v, n + l.step)
          [] value.is = "list" ->
               IF Plain(value) /\ l.flow
               THEN Line(n, key \o <<"SP", "[">>
                              \o Spread([j \in DOMAIN value.v |-> Word(l, value.v[j].v)]) \o <<"]">>)
               ELSE Line(n, key) \o WriteList(l, value.v, n + l.step)])

NumeralOf(n) == CHOOSE t \in DOMAIN Numeral : Numeral[t] = n
TextList(s) == Items([i \in DOMAIN s |-> Texts(s[i])])
(* A field, unless it has its default.                                     *)
Field(S, r, f, value) == IF r[f] = S.default[f] THEN <<>> ELSE <<<<<<f>>, value>>>>
Flag(b) == Texts(IF b THEN <<"on">> ELSE <<"false">>)

RouteTree(r) ==
    LET F(f, value) == Field(RouteConfig, r, f, value) IN
    Pairs(<<<<<<"path">>, Texts(r.path)>>>>
        \o F("methods", TextList(r.methods)) \o F("root", Texts(r.root))
        \o F("default_file", Texts(r.default_file)) \o F("autoindex", Flag(r.autoindex))
        \o (IF r.cgi_ext = <<>> THEN <<>> ELSE F("cgi_ext", Texts(r.cgi_ext[1])))
        \o (IF r.redirection = <<>> THEN <<>> ELSE F("redirection", Texts(r.redirection[1])))
        \o (IF r.redirect_code = <<>> THEN <<>>
            ELSE F("redirect_code", Texts(NumeralOf(r.redirect_code[1]))))
        \o F("upload_dir", Texts(r.upload_dir)))
ServerTree(s) ==
    LET F(f, value) == Field(ServerConfig, s, f, value) IN
    Pairs(<<<<<<"host">>, Texts(s.host)>>>>
        \o F("ports", TextList([i \in DOMAIN s.ports |-> NumeralOf(s.ports[i])]))
        \o F("server_name", Texts(s.server_name)) \o F("default_server", Flag(s.default_server))
        \o F("error_pages", Pairs([i \in 1 .. Cardinality(DOMAIN s.error_pages) |->
               LET code == SetToSeq(DOMAIN s.error_pages)[i] IN
               <<NumeralOf(code), Texts(s.error_pages[code])>>]))
        \o F("root", Texts(s.root))
        \o F("routes", Items([i \in DOMAIN s.routes |-> RouteTree(s.routes[i])])))
Lines(servers_, l) ==
    WriteMap(l, <<<<<<"servers">>,
                    Items([i \in DOMAIN servers_ |-> ServerTree(servers_[i])])>>>>, l.lead)

(* One slip of the pen on line i; a line without the symbol it is about is *)
(* left as it is.                                                          *)
Without(s, x) ==
    IF x \in Range(s) THEN RemoveAt(s, SelectLastInSeq(s, LAMBDA y : y = x)) ELSE s
Slipped(lines, slip, i) ==
    LET s == lines[i].s n == lines[i].n IN
    CASE slip = "none" -> lines
      [] slip = "right" -> [lines EXCEPT ![i].n = n + 1]
      [] slip = "left" -> [lines EXCEPT ![i].n = IF n = 0 THEN 0 ELSE n - 1]
      [] slip = "word" -> IF Last(s) = "]" THEN lines ELSE [lines EXCEPT ![i].s = s \o <<"SP", "w">>]
      [] slip = "colon" -> [lines EXCEPT ![i].s = Without(s, ":")]
      [] slip = "quote" -> [lines EXCEPT ![i].s = Without(s, "Q")]
      [] slip = "bracket" -> [lines EXCEPT ![i].s = Without(s, "]")]
      [] slip = "twice" -> IF s[1] = "-" THEN lines ELSE InsertAt(lines, i, lines[i])
      [] slip = "blank" -> InsertAt(lines, i, [n |-> 0, s |-> <<"TAB">>])
      [] slip = "symbol" -> [lines EXCEPT ![i].s = s \o <<"SP", BadSymbol>>]
Slips == {"right", "left", "word", "colon", "quote", "bracket", "twice", "blank", "symbol"}

(* Noise: blank lines, comments, and white space at the end of lines.      *)
Noise(l, i) ==
    IF ~l.noise THEN <<>>
    ELSE IF i % 2 = 0 THEN <<"SP", "#", "c", ":", "SP", "Q", "NL", "NL", "SP", "#", "-">>
    ELSE <<"SP", "NL", "SP", "SP">>
Write(source_) ==
    LET lines == Slipped(Lines(source_.meant, source_.layout), source_.slip, source_.line)
    IN  (IF source_.layout.lead > 0 THEN <<"NL">> ELSE <<>>)
          \o Concat([i \in DOMAIN lines |->
                 Spaces(lines[i].n) \o lines[i].s \o Noise(source_.layout, i) \o <<"NL">>])

-----------------------------------------------------------------------------
(* Configurations.                                                         *)

AllNumerals ==
    (<<"0">> :> 0) @@ (<<"1">> :> 1) @@ (<<"2">> :> 2) @@ (<<"404">> :> 404) @@ (<<"301">> :> 301)
Addresses4 == (<<"0.0.0.0">> :> AnyHost) @@ (<<"g">> :> "g") @@ (<<"h">> :> "h")
Spellings ==
    (<<"GET">> :> "GET") @@ (<<"POST">> :> "POST") @@ (<<"DELETE">> :> "DELETE")
      @@ (<<"get">> :> "GET")

SmallTree ==
    LET d == <<"www">> x == <<"x">> y == <<"y">> p == <<"p">> up == <<"up">> IN
    (<<d>> :> "dir") @@ (<<d, <<"i">>>> :> "file") @@ (<<d, p>> :> "file") @@ (<<d, x>> :> "dir")
      @@ (<<d, x, y>> :> "file") @@ (<<d, x, up>> :> "dir") @@ (<<d, x, up, y>> :> "file")
      @@ (<<d, y>> :> "file")

Route(path) == [RouteConfig.default EXCEPT !.path = path, !.default_file = <<>>]
Server(name, host, ports, default, routes) ==
    [ServerConfig.default EXCEPT !.server_name = name, !.host = host, !.ports = ports,
                                 !.default_server = default, !.routes = routes,
                                 !.root = <<"www">>]
Root == <<Route(<<"/">>)>>

Blocks(names, hosts, ports) ==
    {Server(b[1], b[2], b[3], b[4], Root) : b \in names \X hosts \X ports \X BOOLEAN}
(* A block is unsound by its root.                                         *)
Unsound(blocks) == {[b EXCEPT !.root = <<"none">>] : b \in blocks}

(* Two blocks of any kind, or three sound ones of different names, on two  *)
(* specific hosts.                                                         *)
ServerFiles ==
    LET names == {<<"a">>, <<"b">>} hosts == {<<"0.0.0.0">>, <<"h">>} IN
    [1 .. 2 -> Blocks(names, hosts, {<<1>>, <<1, 2>>, <<1, 1>>, <<2, 0>>})
                 \cup Unsound(Blocks(names, hosts, {<<1, 2>>}))]
      \cup {f \in [1 .. 3 -> Blocks({<<"a">>, <<"b">>, <<"c">>}, {<<"g">>, <<"h">>}, {<<1>>})] :
                Cardinality({f[i].server_name : i \in 1 .. 3}) = 3}

One(routes) == <<Server(<<"a">>, <<"h">>, <<1>>, FALSE, routes)>>

(* One server with any three routes.                                       *)
RoutePaths ==
    {<<>>, <<"/">>, <<"/", "x">>, <<"/", "x", "/">>, <<"/", "x", "y">>, <<"/", "x", "/", "y">>}
RouteFiles == {One([i \in 1 .. 3 |-> Route(r[i])]) : r \in [1 .. 3 -> RoutePaths]}

(* Routes of every kind, one by one and all together.                      *)
Kinds ==
    LET x == Route(<<"/", "x">>)
        all == [x EXCEPT !.methods = <<<<"GET">>, <<"POST">>, <<"DELETE">>>>]
    IN  {[x EXCEPT !.root = <<".", "/", "www", "/", "x">>],
         [x EXCEPT !.autoindex = TRUE],
         [x EXCEPT !.default_file = <<"i">>], [x EXCEPT !.default_file = <<"none">>],
         [x EXCEPT !.methods = <<<<"get">>>>], [x EXCEPT !.methods = <<<<"put">>>>],
         [x EXCEPT !.cgi_ext = <<<<"y">>>>], [x EXCEPT !.cgi_ext = <<<<".", "y">>>>],
         [x EXCEPT !.redirection = <<<<"u">>>>],
         [x EXCEPT !.redirection = <<<<"u">>>>, !.redirect_code = <<404>>],
         [x EXCEPT !.redirection = <<<<"u">>>>, !.redirect_code = <<301>>],
         all, [all EXCEPT !.upload_dir = <<"x">>], [all EXCEPT !.upload_dir = <<"none">>],
         [all EXCEPT !.root = <<"www", "/", "x">>, !.upload_dir = <<"/", "www">>],
         [all EXCEPT !.root = <<"www", "/", "x">>, !.upload_dir = <<"/", "x">>],
         [x EXCEPT !.root = <<"www", "/", "x">>, !.default_file = <<"/", "www", "/", "p">>],
         [all EXCEPT !.root = <<"www", "/", "x">>, !.upload_dir = <<"up">>, !.default_file = <<"y">>],
         [all EXCEPT !.path = <<"/">>], [all EXCEPT !.path = <<"/", "x", "/">>, !.upload_dir = <<"x">>]}
Paged(s, page) == [s EXCEPT ![1].error_pages = (404 :> page)]
KindFiles ==
    {One(<<r>>) : r \in Kinds} \cup {One(<<r, Route(<<"/">>)>>) : r \in Kinds}
      \cup {Paged(One(Root), page) : page \in {<<"/", "p">>, <<"none">>}}

(* A host in brackets, a text that is no host, and a root that is empty.   *)
OddFiles ==
    {<<Server(<<"a">>, host, <<1>>, FALSE, Root)>> : host \in {<<"[", "h", "]">>, <<"nowhere">>}}
      \cup {[One(Root) EXCEPT ![1].root = <<>>]}

-----------------------------------------------------------------------------
(* Sources.                                                                *)

Layouts ==
    [step : {1, 2, 4}, lead : {0, 1}, flow : BOOLEAN, quoted : BOOLEAN, noise : BOOLEAN]
House == [step |-> 2, lead |-> 0, flow |-> TRUE, quoted |-> TRUE, noise |-> FALSE]

(* A file that has one of everything.                                      *)
Full ==
    LET r == [Route(<<"/", "x">>) EXCEPT !.methods = <<<<"GET">>, <<"DELETE">>>>,
                                         !.upload_dir = <<"x">>, !.autoindex = TRUE]
        s == [Server(<<"a">>, <<"h">>, <<1, 2>>, TRUE, <<r, Route(<<"/">>)>>)
                EXCEPT !.error_pages = (404 :> <<"/", "p">>)]
        t == Server(<<"b">>, <<"h">>, <<2>>, FALSE, Root)
    IN  <<s, t>>

Source(meant, layout, slip, line) ==
    [meant |-> meant, layout |-> layout, slip |-> slip, line |-> line]
LaidOut == {Source(Full, l, "none", 1) : l \in Layouts}
Damaged ==
    UNION {{Source(Full, l, slip, i) : i \in DOMAIN Lines(Full, l)} :
              slip \in Slips,
              l \in {House} \cup [step : {2}, lead : {0}, flow : {FALSE}, quoted : {FALSE}, noise : {FALSE}]}
AllSources ==
    {Source(f, House, "none", 1) : f \in ServerFiles \cup RouteFiles \cup KindFiles \cup OddFiles}
      \cup LaidOut \cup Damaged

AnySymbol == STRING
AllNames == {<<"a">>, <<"z">>}
AllPaths == {<<"/">>, <<"/", "x">>, <<"/", "x", "/", "y">>, <<"/", "x", "y">>,
             <<"x", "/", "y">>}
=============================================================================
