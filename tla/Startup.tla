------------------------------- MODULE Startup -------------------------------
(***************************************************************************)
(* From the server blocks of a configuration to the answer of a request:   *)
(* AppConfig::validate and find_route (src/config.rs),                     *)
(* Server::setup_listeners (src/server.rs), resolve_config                 *)
(* (src/http/http_connection.rs); the handlers are in Handlers, the        *)
(* reading of the file in Boot.                                            *)
(*                                                                         *)
(* Names, hosts and paths are texts: sequences of symbols.  An optional    *)
(* field is a sequence of at most one element.  Here the file may turn out *)
(* to hold any blocks; Boot reads them from a text.                        *)
(***************************************************************************)
EXTENDS Handlers

CONSTANTS
    Tree,       \* the file system at the start
    Address,    \* the texts that are IP addresses, and the address each is
    Upper,      \* the texts that are methods in some spelling, and the method
    HostNames,  \* what clients put before the colon of a Host header, if they send one
    Paths,      \* the paths they ask for
    Methods,    \* and their methods
    AnyHost     \* the host 0.0.0.0

(* A file system is a tree of directories, with files at its ends.         *)
ASSUME TreeAssumption ==
    /\ IsFiniteSet(DOMAIN Tree) /\ DOMAIN Tree \subseteq Seq(Text)
    /\ Tree \in [DOMAIN Tree -> {"file", "dir"}]
    /\ \A n \in DOMAIN Tree : \A i \in 1 .. Len(n) - 1 :
          SubSeq(n, 1, i) \in DOMAIN Tree => Tree[SubSeq(n, 1, i)] = "dir"
ASSUME PathsAssumption == Paths \subseteq Text \ {<<>>}
ASSUME MethodsAssumption == Methods \subseteq {"GET", "POST", "DELETE"}

VARIABLES
    file, k,                                  \* the blocks read, the one to validate next
    virtual_hosts, default_servers_per_port,  \* what blocks so far have claimed
    servers,                                  \* the blocks found valid
    listeners,                                \* token -> address and servers behind it
    answer,                                   \* the last request and who serves it, and how
    fs,                                       \* the file system
    pc

vars == <<file, k, virtual_hosts, default_servers_per_port, servers, listeners, answer, fs, pc>>

NoRoute == [path |-> <<>>, methods |-> <<>>]
NoAnswer == [token |-> -1]

Fresh ==
    /\ k = 1
    /\ virtual_hosts = {} /\ default_servers_per_port = {}
    /\ servers = <<>> /\ listeners = [t \in {} |-> 0]
    /\ answer = NoAnswer
    /\ fs = Tree

(* What a block of a file can hold.                                        *)
RouteBlock ==
    [path : Text, methods : Seq(Text), redirection : Seq(Text), redirect_code : Seq(Nat),
     root : Text, default_file : Text, cgi_ext : Seq(Text), cgi_path : Seq(Text),
     autoindex : BOOLEAN, upload_dir : Text, allowe_upload : BOOLEAN]
IsBlock(s) ==
    s \in [host : Text, ports : Seq(Nat), server_name : Text, error_pages : {s.error_pages},
           client_max_body_size : Nat, routes : Seq(RouteBlock), default_server : BOOLEAN,
           root : Text]
IsFile(blocks) == blocks \in Seq(Range(blocks)) /\ \A s \in Range(blocks) : IsBlock(s)

Init == file = <<>> /\ Fresh /\ pc = "load"

(* main: a file that cannot be read as an AppConfig ends the program.      *)
ReadFile ==
    /\ pc = "load"
    /\ \/ IsFile(file') /\ pc' = "validate"
       \/ file' = <<>> /\ pc' = "aborted"
    /\ UNCHANGED <<k, virtual_hosts, default_servers_per_port, servers, listeners, answer, fs>>

-----------------------------------------------------------------------------
(* What validate makes of a block: its address, and a root for each route. *)

RouteRoot(s, r) == IF r.root = <<>> THEN s.root ELSE r.root

(* sync_host_fields: brackets around an address are dropped.               *)
Inner(text) ==
    IF text # <<>> /\ Head(text) = "[" /\ Last(text) = "]" THEN SubSeq(text, 2, Len(text) - 1)
    ELSE text

Completed(s) ==
    [s EXCEPT !.host = Address[Inner(@)],
              !.routes = [i \in DOMAIN @ |-> [@[i] EXCEPT !.root = RouteRoot(s, s.routes[i])]]]

(* The checks of a block and of a route that look at nothing else. Nothing *)
(* has touched the file system yet.                                        *)
SoundRoute(s, r) ==
    LET root == RouteRoot(s, r) IN
    /\ Lookup(Tree, root) = "dir"
    /\ r.upload_dir # <<>> => Lookup(Tree, Push(root, r.upload_dir)) = "dir"
    /\ r.default_file # <<>> => Lookup(Tree, Push(root, r.default_file)) = "file"
    /\ r.cgi_ext # <<>> => IsPrefix(<<".">>, r.cgi_ext[1])
    /\ r.redirection # <<>> => Found(r) \in 301 .. 308
    /\ Range(r.methods) \subseteq DOMAIN Upper
Sound(s) ==
    /\ Lookup(Tree, s.root) = "dir"
    /\ \A code \in DOMAIN s.error_pages :
          /\ code \in 100 .. 599
          /\ Lookup(Tree, Join(s.root, TrimSlashes(s.error_pages[code]))) = "file"
    /\ Inner(s.host) \in DOMAIN Address
    /\ \A r \in Range(s.routes) : SoundRoute(s, r)

-----------------------------------------------------------------------------
(* validate: a block that fails a check is skipped, but what it claimed    *)
(* before stays claimed; a conflict of claims ends the start-up.           *)

(* Mutant: one default server for all ports.                               *)
Conflicts_OneDefault(s, p) ==
    \/ s.default_server /\ default_servers_per_port # {}
    \/ <<s.server_name, p>> \in virtual_hosts
Conflicts(s, p) ==
    \/ s.default_server /\ p \in default_servers_per_port
    \/ <<s.server_name, p>> \in virtual_hosts

(* Mutant: a port may be named twice.                                      *)
BadPort_Dup(s, j) == s.ports[j] = 0
BadPort(s, j) == s.ports[j] = 0 \/ \E i \in 1 .. j - 1 : s.ports[i] = s.ports[j]

(* A block claims its ports in turn, up to the first bad one.              *)
Proper(s) == \A j \in DOMAIN s.ports : ~BadPort(s, j)
ClaimedPorts(s) == {s.ports[j] : j \in {j \in DOMAIN s.ports : \A i \in 1 .. j : ~BadPort(s, i)}}

Block == file[k]
Conflict == \E p \in ClaimedPorts(Block) : Conflicts(Block, p)

ValidateBlock ==
    /\ pc = "validate" /\ k <= Len(file) /\ ~Conflict
    /\ virtual_hosts' = virtual_hosts \cup {<<Block.server_name, p>> : p \in ClaimedPorts(Block)}
    /\ default_servers_per_port' =
           default_servers_per_port \cup (IF Block.default_server THEN ClaimedPorts(Block) ELSE {})
    /\ servers' = IF Sound(Block) /\ Proper(Block) THEN Append(servers, Completed(Block)) ELSE servers
    /\ k' = k + 1
    /\ UNCHANGED <<file, listeners, answer, fs, pc>>

Keep == UNCHANGED <<file, k, virtual_hosts, default_servers_per_port, servers, answer, fs>>

Refuse ==
    /\ pc = "validate"
    /\ IF k <= Len(file) THEN Conflict ELSE servers = <<>>
    /\ pc' = "aborted"
    /\ Keep /\ UNCHANGED listeners

Validated ==
    /\ pc = "validate" /\ k > Len(file) /\ servers # <<>>
    /\ pc' = "bind"
    /\ Keep /\ UNCHANGED listeners

-----------------------------------------------------------------------------
(* setup_listeners: one listener for each address, in the order of a hash  *)
(* map; the servers behind it in the order of the file.                    *)

(* Mutant: one listener for a port, whatever the host.                     *)
HasPort(s, p) == p \in Range(s.ports)
Behind_Port(a) ==
    FlattenSeq([i \in DOMAIN servers |-> IF HasPort(servers[i], a[2]) THEN <<servers[i]>> ELSE <<>>])
Listens(s, a) == s.host = a[1] /\ HasPort(s, a[2])
Behind(a) ==
    FlattenSeq([i \in DOMAIN servers |-> IF Listens(servers[i], a) THEN <<servers[i]>> ELSE <<>>])

Addresses ==
    UNION {{<<servers[i].host, servers[i].ports[j]>> : j \in DOMAIN servers[i].ports} :
              i \in DOMAIN servers}
Bound == {listeners[t].address : t \in DOMAIN listeners}

(* The kernel refuses a wildcard beside a specific address of one port.    *)
Clash(a, b) == a[2] = b[2] /\ (a[1] = b[1] \/ AnyHost \in {a[1], b[1]})

Bind ==
    /\ pc = "bind"
    /\ \E a \in Addresses \ Bound :
          /\ \A b \in Bound : ~Clash(a, b)
          /\ LET token == Cardinality(DOMAIN listeners) IN
             listeners' = [t \in 0 .. token |->
                              IF t < token THEN listeners[t]
                              ELSE [address |-> a, config_list |-> Behind(a)]]
    /\ Keep /\ UNCHANGED pc

BindFails ==
    /\ pc = "bind"
    /\ \E a \in Addresses \ Bound, b \in Bound : Clash(a, b)
    /\ pc' = "aborted"
    /\ Keep /\ UNCHANGED listeners

Start ==
    /\ pc = "bind" /\ Addresses = Bound
    /\ pc' = "running"
    /\ Keep /\ UNCHANGED listeners

-----------------------------------------------------------------------------
(* A request: resolve_config by its Host header, find_route by its path.   *)

Named(list, name) == {i \in DOMAIN list : list[i].server_name = name}
Defaults(list) == {i \in DOMAIN list : list[i].default_server}
FirstOr(found, otherwise) == IF found = {} THEN otherwise ELSE Min(found)

(* Mutant: the default server is looked for first.                         *)
ResolveConfig_Default(list, name) ==
    list[FirstOr(Defaults(list), FirstOr(Named(list, name), 1))]
ResolveConfig(list, name) ==
    list[FirstOr(Named(list, name), FirstOr(Defaults(list), 1))]

(* Mutant: a prefix is enough.                                             *)
AtBoundary_Any(r, path) == TRUE
AtBoundary(r, path) ==
    Len(path) = Len(r.path) \/ (r.path # <<>> /\ Last(r.path) = "/") \/ path[Len(r.path) + 1] = "/"

(* The first of the longest routes that match.                             *)
BestMatch(routes, path) ==
    LET matching == {i \in DOMAIN routes :
                        IsPrefix(routes[i].path, path) /\ AtBoundary(routes[i], path)}
        longest == {i \in matching :
                       \A j \in matching : Len(routes[j].path) <= Len(routes[i].path)}
    IN  IF matching = {} THEN NoRoute ELSE routes[Min(longest)]

FindRoute(routes, path, method) ==
    LET best == BestMatch(routes, path) IN
    [route |-> best,
     status |-> IF best = NoRoute THEN 404 ELSE IF <<method>> \in Range(best.methods) THEN 200 ELSE 405]

(* setup_action, for one request after the other; a file that is removed   *)
(* is gone when the answer is made.  A body over client_max_body_size is   *)
(* refused before its route is looked up.  Bodies are played for POST.     *)
Bodies(method) == IF method = "POST" THEN {"none", "some", "large"} ELSE {"none"}

Replied(tree, s, found, path, method, body) ==
    IF body = "large" THEN Error(tree, s, 413)
    ELSE IF found.status # 200 THEN Error(tree, s, found.status)
    ELSE Dispatch(tree, s, found.route, path, method, body # "none")

Request ==
    /\ pc = "running" /\ answer = NoAnswer
    /\ \E t \in DOMAIN listeners, name \in HostNames, path \in Paths, method \in Methods :
          \E body \in Bodies(method) :
          LET s == ResolveConfig(listeners[t].config_list, name)
              found == FindRoute(s.routes, path, method)
              reply == Replied(fs, s, found, path, method, body)
          IN  /\ answer' = [token |-> t, name |-> name, path |-> path, method |-> method,
                            server |-> s, found |-> found, reply |-> reply]
              /\ fs' = IF reply.kind = "removed" THEN Restrict(fs, DOMAIN fs \ {reply.at}) ELSE fs
    /\ UNCHANGED <<file, k, virtual_hosts, default_servers_per_port, servers, listeners, pc>>

(* The answer is written, and the server is ready for the next request.    *)
Answered ==
    /\ answer # NoAnswer
    /\ answer' = NoAnswer
    /\ UNCHANGED <<file, k, virtual_hosts, default_servers_per_port, servers, listeners, fs, pc>>

StartUp == ValidateBlock \/ Refuse \/ Validated \/ Bind \/ BindFails \/ Start

Next == ReadFile \/ StartUp \/ Request \/ Answered

Spec == Init /\ [][Next]_vars

-----------------------------------------------------------------------------
(* Properties.                                                             *)

(* The blocks that are served, read off the file.                          *)
GoodPorts(s) == 0 \notin Range(s.ports) /\ IsInjective(s.ports)
Accepted == {i \in DOMAIN file : Sound(file[i]) /\ GoodPorts(file[i])}
Host(i) == Address[Inner(file[i].host)]
BlocksAt(accepted, a) == {i \in accepted : Host(i) = a[1] /\ a[2] \in Range(file[i].ports)}
Served(here) == {Completed(file[i]) : i \in here}

(* The type invariant: servers come from sound blocks with proper ports.   *)
TypeOK ==
    /\ IsFile(file)
    /\ pc \in {"load", "validate", "bind", "running", "aborted"} /\ k \in 1 .. Len(file) + 1
    /\ pc = "bind" => Range(servers) \subseteq Served(Accepted)
    /\ DOMAIN listeners = 0 .. Cardinality(DOMAIN listeners) - 1
    /\ DOMAIN fs \subseteq DOMAIN Tree

(* A server that runs serves every sound block at each of its addresses,   *)
(* by one listener, once, and no block that was skipped.                   *)
EachServed ==
    pc = "running" /\ answer = NoAnswer =>
        LET accepted == Accepted IN
        /\ \A i \in accepted : \A p \in Range(file[i].ports) :
              \E t \in DOMAIN listeners : listeners[t].address = <<Host(i), p>>
        /\ \A t, u \in DOMAIN listeners :
              listeners[t].address = listeners[u].address => t = u
        /\ \A t \in DOMAIN listeners :
              LET here == BlocksAt(accepted, listeners[t].address) IN
              /\ Len(listeners[t].config_list) = Cardinality(here)
              /\ Range(listeners[t].config_list) = Served(here)

(* Who serves a request does not depend on the order of the file: the one  *)
(* block of the address that has the name asked for, or else the one that  *)
(* is the default; validate leaves at most one of each.                    *)
RightServer ==
    answer # NoAnswer =>
        LET here == BlocksAt(Accepted, listeners[answer.token].address)
            named == {i \in here : file[i].server_name = answer.name}
            default == {i \in here : file[i].default_server}
            chosen == IF named # {} THEN named ELSE IF default # {} THEN default ELSE here
        IN  /\ Cardinality(named) <= 1 /\ Cardinality(default) <= 1
            /\ answer.server \in Served(chosen)

(* Nor does the route on the order of the routes, but among routes with    *)
(* one and the same path: it covers whole segments of the URL's path, as   *)
(* many as any route does, and it alone decides if the method is allowed.  *)
Covers(r, path) ==
    LET s == Segments(r.path) q == Segments(path)
        n == IF Len(s) > 1 /\ Last(s) = <<>> THEN Len(s) - 1 ELSE Len(s)
    IN  Len(q) >= Len(s) /\ SubSeq(q, 1, n) = SubSeq(s, 1, n)
RightRoute ==
    answer # NoAnswer =>
        LET covering == {r \in Range(answer.server.routes) : Covers(r, answer.path)}
            best == answer.found.route
        IN  IF covering = {} THEN answer.found.status = 404
            ELSE /\ best \in covering
                 /\ \A r \in covering : Len(r.path) <= Len(best.path)
                 /\ answer.found.status = 405 <=> <<answer.method>> \notin Range(best.methods)

(* What a request reads or removes is what its URL names: the segments     *)
(* behind the route's, under the route's root, or for DELETE under its     *)
(* upload directory.  A file that is there is served, and no other route   *)
(* or method makes a file vanish.  (An absolute upload directory or        *)
(* default file is where it says.)                                         *)
Under(base, path) == IF Absolute(path) THEN Names(path) ELSE base \o Names(path)
Beneath(r, path) == SubSeq(Names(path), Len(Names(r.path)) + 1, Len(Names(path)))
Offered ==
    {n \in DOMAIN Tree : \E s \in Range(servers) : \E r \in Range(s.routes) :
        <<"DELETE">> \in Range(r.methods) /\ IsPrefix(Under(Names(r.root), r.upload_dir), n)}
RightFile ==
    /\ DOMAIN Tree \ DOMAIN fs \subseteq Offered
    /\ answer # NoAnswer =>
          LET r == answer.found.route
              plain == answer.found.status = 200 /\ r.redirection = <<>>
                           /\ ~IsScript(r, answer.path)
              here == Names(r.root) \o Beneath(r, answer.path)
              at == answer.reply.at
          IN  /\ answer.reply.kind = "file" =>
                     \/ at = here /\ Tree[here] = "file"
                     \/ at = Under(here, r.default_file) /\ Tree[here] = "dir"
              /\ answer.reply.kind = "removed" =>
                     /\ at = Under(Names(r.root), r.upload_dir) \o Beneath(r, answer.path)
                     /\ Tree[at] = "file" /\ at \notin DOMAIN fs
              /\ plain /\ answer.method = "GET" /\ Last(answer.path) # "/" =>
                     (answer.reply.kind = "file" /\ at = here
                        <=> here \in DOMAIN fs /\ fs[here] = "file")

(* A file whose blocks claim names and defaults once for each port, whose  *)
(* hosts can be bound side by side, and that has a sound block, starts.    *)
Compatible(i, j) ==
    \A p \in Range(file[i].ports) \cap Range(file[j].ports) :
        /\ file[i].server_name # file[j].server_name
        /\ ~(file[i].default_server /\ file[j].default_server)
Bindable(i, j) ==
    Range(file[i].ports) \cap Range(file[j].ports) = {}
      \/ Host(i) = Host(j) \/ AnyHost \notin {Host(i), Host(j)}
Sane ==
    LET served == Accepted IN
    /\ served # {}
    /\ \A i, j \in DOMAIN file : i # j => Compatible(i, j)
    /\ \A i, j \in served : Bindable(i, j)
SaneStarts == (pc = "validate" /\ k = 1 /\ Sane) ~> pc = "running"
=============================================================================
