------------------------------ MODULE Handlers ------------------------------
(***************************************************************************)
(* What answers a request once its route is known: the dispatch of         *)
(* HttpRequest::setup_action (src/http/request.rs), handle_get and         *)
(* handle_delete (src/handlers), handle_error (src/http/response.rs).      *)
(*                                                                         *)
(* A path, of a URL or of a file, is a sequence of symbols, "/" among      *)
(* them.  A file system maps the names leading to an entry to its kind;    *)
(* every entry can be read, and no path climbs ("..").  The program runs   *)
(* at the root of it.                                                      *)
(***************************************************************************)
EXTENDS Integers, Sequences, FiniteSets, SequencesExt, Functions

CONSTANT Symbol

ASSUME SymbolAssumption == "/" \in Symbol

Text == Seq(Symbol)

(* The pieces of a path between its slashes, and those that name something *)
Longer(pieces, c) ==
    IF c = "/" THEN Append(pieces, <<>>) ELSE [pieces EXCEPT ![Len(pieces)] = Append(@, c)]
Segments(path) ==
    LET upto[i \in 0 .. Len(path)] ==
            IF i = 0 THEN <<<<>>>> ELSE Longer(upto[i - 1], path[i])
    IN  upto[Len(path)]
Names(path) ==
    LET all == Segments(path) IN
    FlattenSeq([i \in DOMAIN all |-> IF all[i] \in {<<>>, <<".">>} THEN <<>> ELSE <<all[i]>>])

(* Path::join, where an absolute path replaces what it is joined to;       *)
(* trim_start_matches('/'), which leaves none that is.                     *)
Join(base, rest) == base \o <<"/">> \o rest
Absolute(path) == path # <<>> /\ path[1] = "/"
Push(base, rest) == IF Absolute(rest) THEN rest ELSE Join(base, rest)
TrimSlashes(path) ==
    LET kept == {i \in DOMAIN path : path[i] # "/"} IN
    IF kept = {} THEN <<>> ELSE SubSeq(path, Min(kept), Len(path))

(* What the system finds at a path.                                        *)
Lookup(fs, path) ==
    LET n == Names(path)
        file(m) == m \in DOMAIN fs /\ fs[m] = "file"
    IN  IF path = <<>> THEN "missing"
        ELSE IF \E i \in 1 .. Len(n) - 1 : file(SubSeq(n, 1, i)) THEN "not a directory"
        ELSE IF n \notin DOMAIN fs THEN "missing"
        ELSE IF file(n) /\ Last(path) = "/" THEN "not a directory"
        ELSE fs[n]

-----------------------------------------------------------------------------
(* Replies.                                                                *)

(* handle_error: the server's own page for the status, if it is there.     *)
Error(fs, s, status) ==
    LET page == IF status \in DOMAIN s.error_pages
                THEN Join(s.root, TrimSlashes(s.error_pages[status])) ELSE <<>>
    IN  [kind |-> "error", status |-> status,
         at |-> IF page # <<>> /\ Lookup(fs, page) = "file" THEN Names(page) ELSE <<>>]

Reply(kind, status, path) == [kind |-> kind, status |-> status, at |-> Names(path)]

(* The URL behind the route's path.                                        *)
Relative(r, url) == TrimSlashes(SubSeq(url, Len(r.path) + 1, Len(url)))

HandleGet(fs, s, r, url) ==
    LET path == Join(r.root, Relative(r, url))
        dir == Lookup(fs, path) = "dir"
        target == IF dir THEN Push(path, r.default_file) ELSE path
    IN  IF dir /\ r.default_file = <<>>
        THEN IF r.autoindex THEN Reply("listing", 200, path) ELSE Reply("error", 403, <<>>)
        ELSE CASE Lookup(fs, target) \in {"file", "dir"} -> Reply("file", 200, target)
               [] Lookup(fs, target) = "missing" -> Error(fs, s, 404)
               [] OTHER -> Error(fs, s, 500)

(* Mutant: the file is looked for where GET finds it.                      *)
UploadBase_Root(r) == r.root
UploadBase(r) == Push(r.root, r.upload_dir)

HandleDelete(fs, s, r, url) ==
    LET target == Join(UploadBase(r), Relative(r, url)) IN
    CASE Lookup(fs, UploadBase(r)) # "dir" -> Error(fs, s, 404)
      [] Lookup(fs, target) = "missing" -> Error(fs, s, 404)
      [] Lookup(fs, target) = "file" -> Reply("removed", 204, target)
      [] OTHER -> Error(fs, s, 403)

(* A POST is the start of an upload, unless it has nothing to store.       *)
HandlePost(fs, s, r, body) ==
    IF r.upload_dir = <<>> THEN Error(fs, s, 403)
    ELSE IF body THEN Reply("upload", 200, UploadBase(r)) ELSE Reply("error", 400, <<>>)

IsScript(r, url) == r.cgi_ext # <<>> /\ IsSuffix(r.cgi_ext[1], url)
Found(r) == IF r.redirect_code = <<>> THEN 302 ELSE r.redirect_code[1]

(* setup_action, for the best route; a script is looked up by its          *)
(* interpreter, under the root of the server.                              *)
Dispatch(fs, s, r, url, method, body) ==
    CASE r.redirection # <<>> -> Reply("redirect", Found(r), <<>>)
      [] r.redirection = <<>> /\ IsScript(r, url) ->
           Reply("script", 200, Join(s.root, TrimSlashes(url)))
      [] r.redirection = <<>> /\ ~IsScript(r, url) ->
           (CASE method = "GET" -> HandleGet(fs, s, r, url)
              [] method = "POST" -> HandlePost(fs, s, r, body)
              [] method = "DELETE" -> HandleDelete(fs, s, r, url))
=============================================================================
