# Verification of 01-server

01-server is a small HTTP/1.1 server in Rust: one thread, one `mio` poller
(edge-triggered epoll), client connections that are kept alive, static files,
uploads, and CGI scripts run as child processes that talk to the server over
socket pairs. This directory holds TLA+ models of the parts of it that are hard
to get right and hard to test, the TLC runs that check them on small instances,
and TLAPS proofs of the invariants of the event loop, of a client's connection, of
a script's streams, of the body decoders, of the sessions, and of the configuration
with the files it serves, for every size.

Source references below are relative to the repository (`src/server.rs` is the
server's crate, mapped in `PROJECT.json` as `src/src/server.rs`).

## 1. The system

### Parts, state and operations

| part | source | state | operations |
|---|---|---|---|
| event loop and routing | `src/server.rs` | `listeners`, `connections` (token -> connection), `cgi_to_client` (stream token -> client token), `next_token`, `zombie_purgatory` | `run`, `handle_accept`, `handle_connection` |
| sweeps | `src/timeouts.rs` | the clocks of connections and scripts | idle clients, overdue scripts, expired sessions, reaping the purgatory |
| connection | `src/http/http_connection.rs` | `request.buffer`, `write_buffer`, `cgi_buffer`, `action`, `upload_manager`, `response`, `closed`, the interest registered | read phase, write phase, post-write update, terminate |
| request parser | `src/http/request.rs` | parser state, cursor, chunk state, bytes still expected | request line, headers, `setup_action`, the two body decoders, `proces_request` |
| CGI | `src/cgi.rs` | the child, its two streams, their tokens, the parse state of its output | spawn (in `setup_action`), `handle_cgi_event` = read stdout / write stdin / watch the process, `force_cgi_timeout` |
| uploads | `src/upload.rs`, `src/handlers/upload_handler.rs` | multipart state, buffer, current part and file, names saved | simple and multipart bodies, file names, the answer |
| responses, handlers | `src/http/response.rs`, `src/handlers/*` | status, headers, body; the file system | serialisation, GET, DELETE, error pages |
| sessions, cookies | `src/utils/*` | `sessions`, `last_cleanup`; `session_id` and `response` of a connection | find or create, update from a script, expire, sweep |
| configuration language | `parser/`, `parser_derive/` | the position in the text, the lookahead | tokens, values, conversion into structures |
| configuration | `src/config.rs`, `src/router.rs` | what earlier blocks claimed; constant after start | validate, listen, `resolve_config`, `find_route` |

One loop iteration polls, runs the sweeps, and then serves the events that the
poll returned, in turn. An event is routed by its token: first through
`cgi_to_client`, then the listeners, then `connections`. A request for a script
spawns a child, allocates two tokens and enters both into `cgi_to_client`; from
then on the connection is served from two sides, the client's events and the
script's. A child that is killed and does not die at once moves to the
purgatory, which only the sweeps look at.

### What is hard

There are no threads, so the hard interleavings are those between the handler
and the world, and between the steps of different events:

* events were collected *before* the sweeps and before the earlier events of
  the batch: what they name may be gone when they are served;
* a script can exit between any two system calls of a handler, and its exit is
  noticed only as a side effect of some event on its streams;
* epoll is edge-triggered: every `reregister` decides which event will come
  next, and a missing one means that nothing ever happens again;
* requests, answers, uploads and scripts share fields of one connection, some
  of which outlive the request they belong to;
* a body arrives in fragments cut anywhere, and the decoders keep state
  between fragments;
* `closed`, `action` and the tokens are overwritten from several places.

`PROJECT.json` lists the hazards one by one, at their lines, with the
properties that watch them.

### What makes each part correct

* Loop: a token names one thing for ever; a stream's events reach the
  connection that runs the script; closing is final.
* Children: each has one owner, is waited for once, is never forgotten, and
  ends reaped.
* Connection: answers are whole, in order, once each; no edge is lost; a client
  that is served is served to the end, and a connection that is done goes.
* CGI streams: a body reaches the script whole and is ended; output keeps its
  order and is ended once; an end of file loses nothing.
* Bodies: what is decoded does not depend on how the bytes were cut.
* Configuration: a file is read as what was meant, however it is laid out, or is
  refused; what is accepted is served, and which server and route serve a
  request does not depend on the order of the file.
* Handlers: a request reads or removes the file its path names, under the root
  or the upload directory of its route, and nothing else vanishes.
* Sessions: a session is one browser's, lives as long as its cookie and ends; a
  page tells the browser the session it was served with.

## 2. The modules

The system is modelled from several sides, because each hides what the other
would drown in: `Server` has many connections and no bytes, `HttpConnection`
and `CgiPipe` have one connection and units of data, `RequestBody` has one body
and its bytes, `Sessions` has browsers, ids and time. `Boot` is the program from
the text of its configuration to its answers, one request after the other.

```
Server -- implements --> ChildReaper                        Server_proof: theorems
HttpConnection -- implements --> Exchange   (one client connection, its requests
                      and the poller)              HttpConnection_proof: theorems
CgiPipe               one script, its two streams, its exit        CgiPipe_proof: theorems
RequestBody -- INSTANCE --> ChunkedBody, Multipart;  all EXTEND Bytes
                            RequestChunks_proof, RequestBody_proof: theorems
Boot -- EXTENDS --> Yaml      text -> tokens -> values -> structures
                --> Startup   blocks -> listeners -> server and route, and
                --> Handlers  the reply, and what it does to the files
                                                        Startup_proof: theorems
Sessions              the store, the sweep and the cookies   Sessions_proof: theorems
SeqLemmas             what the proofs need to know of sequences and FlattenSeq
MC*                   the values of the constants for TLC
```

The name of a variable or a record field is the name it has in the code; `pc`
is the place the single thread is at. Operators named `X_Something` beside an
operator `X` are mutants: they say what a plausible mistake in that place would
be, and no specification uses them. `PROJECT.json` has the lines of every
definition under `map`.

### Server

One action per step of `Server::run` and of what it calls, cut so that a child
can exit between any two system calls. `Poll` chooses any registered sources as
the batch, `Timeouts` and `Reap` are `timeouts::process`, then each event of the
batch is routed (`CgiEvent`, `Accept`, `ClientEvent`, `StaleEvent`).

* A client's event goes through the places `read`, `write`, `post` and
  `lifecycle`: `handle_read_phase`, `handle_write_phase`,
  `handle_post_write_update`, and the end of `handle_connection`. What the bytes
  turn out to be is a choice: `LocalRequest` (answered, refused, still
  incomplete, a download or upload), `CgiRequest` (a spawn), `ReadBody`.
* A script's event goes through `cgi_read`, `cgi_write` and `monitor`: the three
  calls of `handle_cgi_event`. Each is a step of its own, so that the child may
  exit after its stdout was read and before it is waited for.
* `KillAndTry` is `kill` followed by `try_wait`: a child that is dead already is
  reaped on the spot, any other is killed and may or may not be; the rest go to
  the purgatory.
* `WithAction` is what an assignment to `conn.action` does in Rust: the old
  value is dropped, and with it the streams and the `Child`, which neither kills
  nor waits.

Buffers are "empty or not", clocks are two flags that only time raises and the
code lowers. Two switches separate what the code is meant to meet from what
breaks it. With `Overlap` a request may replace the action of an unfinished
script; no pipelining is needed for it, a client that has its whole answer and
sends the next request before the server sees the exit does it too. With
`PollErrors` a registration may fail, in which case `run` removes the
connection with no `terminate_connection`.

`ChildReaper` is the abstract specification: a child is unborn, held, doomed or
reaped, it moves forward only, and it is never lost. `ReapsChildren` maps the
phase of a child to who holds it (`ChildPhase`) and checks that the loop
implements it; `ScriptsEnd` is its liveness.

### HttpConnection

One client with a program of requests, the kernel's two buffers, the poller with
its interest and one queued edge, and the `HttpConnection`. The handler's
phases are actions, and below them the parser: `Page`, `Bare`, `FileDownload`,
`Upload`, `Bad`, then `Body` or `ChunkedBody`, then `Finish` (what
`proces_request` adds at the end) and `Rearm` (its `reregister`). A head and a
piece of a body or of a file are one unit each, so that order, loss and
duplication are visible and wording is not.

`response.to_bytes()` sends the body the response holds. A listing, an error page or
the answer to an upload sets one (`Respond`); a redirect, the 204 of a deletion and the
head of a file do not (`Bodiless`), and behind them goes what the response still holds
(`Held`) if the post-write update has not made it new in between. That can only happen
to requests parsed in one read phase.

Edge triggering is modelled as epoll has it: an edge is queued when data or room
appear for a direction that is watched, and when a registration is renewed for
something ready; `Poll` takes it away.

Clients differ in `eager`: one waits for each answer, the other sends all it
has. `Orderly` says which programs the code serves as promised: no request
behind a file that is being sent, no request behind an upload, no chunked
upload, and, of a client that does not wait, no file behind another request and no
redirect or deletion behind a page. The limits of `Orderly` are not conveniences: they
are there because the code fails without them. Those on files being sent, uploads and
chunks are the findings below. Those on clients that do not wait are about the body that
is held: of the program `PageThenRedirect` of `MCHttpConnection`, sent at once,
`AnswersInOrder` fails, as the body of the page is sent again behind the redirect, and a
file behind a page meets the same.

`Exchange` is the abstract specification: what a connection promises a client it
serves faithfully. The client asks, pieces of answers are given in the order of the
requests, each once and none before its request was sent (`Give`), the kernel takes
them while it has room (`Pass`), the client reads them (`Take`), and the connection is
given up only when everything given was passed on (`Quit`). It says nothing of parsers,
phases, interests or edges. `Seen` is the refinement mapping (what was given is what
the client received, the kernel holds and `write_buffer` holds, in this order), and
`OrderlyExchange` says that `HttpConnection` implements `Exchange` for orderly clients.

### CgiPipe

The body from the client to the script, the output from the script to the
client, three registrations and the exit. A piece is what one write of the script puts
into the stream. The script reads its stdin to the end
or not at all, writes a header and some pieces, says how long its output is or
not, succeeds or fails; it closes its streams *before* it can be waited for,
which is the window that both `ReadEof` and `MonitorExit` depend on. A session
that ends while the script runs is one action, because `read_cgi_output` throws
away what it reads when it finds none.

Where the head ends is found by searching, and scripts differ in what there is to be
found: `head` is how the lines of the head end and what ends the head, `text` whether the
pieces of the body hold a CR or a CRLF CRLF. `Processed` is `process_cgi_stdout`: CRLF
CRLF is searched first, in the body too (`CrlfInBody`), then LF LF; what ends the head is
taken for four bytes as soon as there is a CR anywhere in what was read (`HoldsCr`). For a
`Clear` script (a CRLF head; or an LF head and no CR in the body) this is the split that
was meant. For any other, `Misplaced` says that the first two bytes behind the split are
lost (a piece that is `"cut"`), or, if they have not arrived, that the slice panics and the
server is gone (`Panics`); an end that is not found keeps all output back. `OutputInOrder`
and `EofIsWhole` say that this is all that can be lost: the beginning of the first piece or,
without an end of the head, everything; and of a clear script nothing.

### RequestBody, ChunkedBody, Multipart, Bytes

The two decoders as loops over bytes: one action per turn, `pc` returning to
`"wait"` where the code returns for more. `Deliver` appends any number of bytes
up to `MaxFragment`, so that every cut of a message is played; after the body
come bytes of the next request. Damaged chunked bodies have one of four flaws.
Next to a multipart body another connection may store a file under the same
name, between any two events. Bytes are a few symbols: a line break is two, a
delimiter three, and the data are chosen to look like framing. `Data` are bytes
with no meaning to the decoders, and `MessagesAssumption` says what a client may
send: chunks of any bytes, of a length one digit can name, and parts whose data
hold no delimiter, as a client must see to when it chooses its boundary.

### Boot, Yaml, Startup, Handlers

`Boot` is the program's start: `Load` reads the text of the configuration and
ends the program if it cannot, then the actions of `Startup` go on with the
blocks. `Startup` is a specification of its own too, so that it can be proved
about without the recursive operators of `Yaml`: its `ReadFile` takes any blocks
whose fields have their types (`IsFile`), and `Load` is the case in which they come
from a text. That what `Load` reads is such a file is the first conjunct of
`TypeOK`, which the run checks of `Boot`.

`Yaml` has the tokenizer, the parser and the conversion as operators on a text,
which is a sequence of symbols (a run of letters is one symbol): the same
branches in the same order as `next_token`, `parse_value`, `parse_list`,
`parse_map` and the two flow forms, with the lookahead token as an index. What
the derive macro generates is `Struct`, with the fields and defaults that
`config.rs` gives it. The operators are recursive, so nothing is proved of them.

`ValidateBlock` is one turn of the loop of `AppConfig::validate`: its ports in
order, with the claims they make on names and defaults, then the checks of roots,
upload directories, default files, error pages, hosts, extensions, redirect codes
and methods (`Sound`, `SoundRoute`), looked up in a small file system. A block
that is skipped keeps its claims, a conflict ends the start-up (`Refuse`).
`Bind` takes the addresses in any order, as the iteration of a hash map does.
`Request` is `resolve_config`, the refusal of a body over `client_max_body_size`,
`find_route` and the dispatch of `setup_action` (bodies are played for POST);
`Handlers` has `handle_get`, `handle_delete` and `handle_error`, with `fs` as the
file system they find. A path is a sequence of `Symbol`s, "/" among them; what it
names is what stands between its slashes (`Segments`, `Names`), and an absolute one
replaces what it is joined to (`Push`). A path climbs nowhere (`..` is a name like
any other), the program runs at the root of the file system, every file can be read, and an upload is only told apart from an error: what it stores is in
`RequestBody`.

`MCStartup` writes the texts: from what is meant, in every layout (indentation,
flow or block lists, quotes, comments and blank lines), and with one slip of the
pen on any line. `LoadsWhatIsMeant` compares what is read with what was meant. Three
slips the language takes, and they are not played: a stray comma
(or a word behind a closing bracket) lets the rest of the file be dropped, a
tab counts as no indentation, and a misspelt key is skipped as an unknown field, with a
printed warning, so that its field keeps its default. Lists are written in brackets or
with dashes below their key, each with its item on one line; a dash alone on its line is
not played.

### Sessions

`RequestPage` and `RequestScript` are `setup_action` with its
`mange_session_store`: a known cookie is kept, any other is replaced by a new
session and the old entry removed. `ScriptOutput` is the head of a script's
output: with its session in the store `X-Session-Update` may write to it, without
one the output is lost. `Write` is the flush with `handle_post_write_update`, which
makes `conn.response` new but keeps `session_id`; `WriteNothing` is the same made
by a write event while a script runs. Age is counted per session up to the first
expired one, which is all that `is_expired` looks at. A session's datum is the
browser whose script wrote it, so that "a script reads what another browser wrote"
can be said.

Ids come from the clock and are never given out twice; `SessionId` bounds how many
are made in a behaviour. Requests refused before their head is read do not reach
the store and are left out, and so is a second request that is parsed while a
script of the same connection runs (that overlap is `Server`'s).

## 3. Runs

| run | question | result |
|---|---|---|
| `server_overlap` | do the lookups of `run` stay apart, and do routing, ownership, freshness of tokens and closing survive overlapping requests and failing registrations? | holds |
| `server_live` | is every child accounted for, does the loop implement `ChildReaper`, does every script end reaped? | holds under `FairSpec`, without overlap |
| `server_orphan` | is every child accounted for when requests overlap? | **violated** |
| `http_any` | does the connection implement `Exchange` for an orderly client (answers whole, in order, once), answer everything and go, and is no edge lost for anyone? | holds |
| `http_pipelined` | are answers in order when a page follows a file? | **violated** |
| `http_upload_reuse` | are answers in order when a page follows an upload? | **violated** |
| `http_chunked` | is a chunked upload answered? | **violated** |
| `cgi_streams` | bodies whole, output in order and flushed, an end of file loses nothing of a clear script, and of any other only what the split of head and body costs? | holds |
| `cgi_truncated` | does all output of a script that succeeds arrive? | **violated** |
| `request_bodies` | do the decoders give what was sent however it was cut, and stop at its last byte? | holds |
| `startup` | is a text read as what was meant, is what is accepted served, independent of order, do requests read and remove what they name, and does a sane file start? | holds |
| `sessions` | do sessions of different browsers stay apart, live for their time, end, and is the browser told its own? | holds |

### Findings

Each is a behaviour of the code, with the line it departs from quoted in
`PROJECT.json`.

* **A forgotten child** (`server_orphan`). `setup_action` assigns `conn.action`
  while it may hold a running script. The `Child` is dropped: not killed, not
  waited for, in no purgatory.
* **Answers inside answers** (`http_pipelined`). `handle_read_phase` parses the
  next request whatever `action` is. With a download under way, the next answer
  is appended to `write_buffer` in the middle of the file.
* **Two answers to one request** (`http_upload_reuse`). `upload_manager` is
  never reset: after an upload, every further request of that connection gets
  the upload's answer as well.
* **No answer** (`http_chunked`). Only the unchunked path creates an upload
  manager, so a chunked upload is discarded and nothing answers it.
* **Cut output** (`cgi_truncated`). An event reads stdout at most once, and
  `monitor_cgi_process` in the same event drops the stream when the child has
  exited, with whatever it still holds.

Also modelled, and no property forbids it: `force_cgi_timeout` clears both
tokens before `cleanup_cgi` looks them up, and `read_cgi_output` forgets them at
the end of file, so that `cgi_to_client` keeps entries of scripts and clients
that are gone. As tokens are never reused (`TokensNeverReused`) and lookups do
not shadow each other (`TokensDisjoint`), such an entry leads no event astray;
it only grows the map.

Two more are modelled and excluded where a property would not hold. A pipelined redirect or
deletion behind a page is sent with the body of that page (`Bodiless`, excluded by
`Orderly`). And a script that ends its head with LF LF and has a CR in what the server has
read so far, or a CRLF CRLF in its body, loses the beginning of its body, or takes the
server down if it has not sent any yet (`Split`, `Panics`; `Clear` names the scripts for
which neither can be).

### Bounds

| constant | value | why it is enough |
|---|---|---|
| `Pid`, `MaxClients`, `MaxToken` | 2, 2, 6 in `server_overlap`; 1, 1, 4 in `server_live`; 2, 1, 5 in `server_orphan` | token 0 is the listener's, a client takes one and a script two. Below 6 fit two clients with a script each, and a client whose script is replaced by another script next to a second client: what mixing up two clients or two scripts needs. In `server_live` liveness and the refinement are about one client and one script; for more, safety and the refinement rest on the theorems below, which hold for any number. The bound only stops accepting and spawning |
| `OneBusy` | a CONSTRAINT of `server_overlap` | two clients may each run a script, be idle or be overdue together, but states behind one in which both have a body to come, a file, a buffer or a close under way are not searched. Routing and ownership look at none of these; the theorems need no such bound |
| `MaxBatch` | 1 in `server_overlap`, 2 in `server_live` | with one event, the sweeps between the poll and the event can outdate it; two are the least with which one event outdates the other. Larger batches, and two events with two clients, are covered by the theorems |
| programs | all of 2 requests of six kinds, of 3 for the main kinds | a field that outlives its request shows at the next one, a third shows that it stays |
| `FileChunks`, `SendBuffer`, `ReadLimit` | 2 | a download has a middle, a write is cut short, a read stops with input left |
| `StdinRoom`, `ReadPieces`, body sizes | 1 (2 in `cgi_truncated`), 2, 0 or 2 | a body that fits, one that blocks; output that one read takes and output it does not |
| script pieces | 1, 3 in `cgi_truncated` | the head comes in two pieces, so that its end may be read with what is before it, alone, or with the body; one piece of body covers what the split does to it |
| kinds of scripts | clear ones with every framing; one of each other way of breaking lines | the split looks only at the first CRLF CRLF, LF LF and CR |
| `MaxFragment` | 5 | any cut: fragments of 1 to 5 put a boundary inside every delimiter, line and chunk |
| `SizeLimit` 4 (18), `TrailerLimit` 7 (8192), `Slack` 4 (10) | scaled with the messages | each limit is met and missed by some message; `Slack` 4 is one more than the least that is right: 1 + `Slack` bytes are held back, and all but the last byte of a line break and a delimiter are 4; the code has more |
| `MaxBodySize` | 4 | one message fills it, one exceeds it |
| blocks | any two of 40 kinds, three sound ones on one port, any three routes of six paths, 20 kinds of routes alone and beside a root route | claims are pairwise, resolution has three ways out (name, default, first); overlapping prefixes need two routes and a distractor |
| layouts, slips | 48 layouts of one full file; nine slips on each line of it in two layouts | every construct the configuration needs occurs in the full file, and a slip is local to a line; what is left out is named with `Boot` above |
| `Browser`, `Connection` | 2 browsers, 2 and 1 connections | two requests of one browser at once, next to another browser's |
| `SessionId` | 2 | one session each, or one that replaces another; a third is made like the second |
| `Ttl`, `CleanUp` | 1, 1 | ages 0, 1 (still valid) and 2 (expired); a sweep that is due and one that is not |

Symmetry is used in `server_overlap` only, over `Pid`: a run without liveness,
in which no definition distinguishes children. It is also the only run with a constraint.

### Fairness

* `Server`: the loop runs (one thread that polls with a timeout, so that it
  turns even with no events); a child that got `SIGKILL` dies; a script that
  keeps running becomes overdue. The last is strong fairness on a step that is
  possible only while the loop waits, as time passes there. Nothing is assumed
  of a script or a client: `ScriptsEnd` needs neither.
* `HttpConnection`: the handler serves the edges that are queued; the client
  sends its program, reads what arrives, and closes once it has everything. It
  may close earlier; then it is excused. Disk faults are never assumed.
* `CgiPipe`: the loop, the client's sending, and the script as a whole make
  progress. Nothing makes the session end.
* `RequestBody`: the decoder runs to its return and the client sends the rest.
* `Boot`: the start-up goes on once the file is read; no request is assumed.
  (`Load` needs no fairness for this: `SaneStarts` begins where it ends.)
* `Sessions`: time passes, and the sweep, which the loop calls after every poll,
  is not put off for ever. Nothing is assumed of browsers or scripts.

`CHECK_DEADLOCK FALSE` is set where the model may stop: a client that has its
answers and has closed, a script's request that is over, a body that is
complete, a start-up that was refused. `Server` always polls again and is
checked for deadlock.

## 4. Proofs

`Server_proof` proves what every state of `Server` satisfies and what its steps may do,
for any number of listeners, tokens, clients, events per batch and children, from `BoundsAssumption`, `FlagsAssumption` and
`SentinelAssumption` only:

| theorem | states |
|---|---|
| `Invariance` | `Spec => []IInv` |
| `TypeCorrect` | `TypeOK` |
| `TokensNameOneThing` | `TokensDisjoint` |
| `ScriptsAreRouted` | `CgiEventsReachOwner` |
| `ChildrenHaveOneOwner` | `ChildOwnedOnce` |
| `NoChildForgotten` | `ChildrenAccounted`, with `~Overlap` and `~PollErrors` as hypotheses |
| `LoopReapsChildren` | `ReapsChildren`, the refinement of `ChildReaper`, with the same hypotheses |
| `TokensAreFresh` | `TokensNeverReused` |
| `ClosingIsFinal` | `ClosedIsFinal` |

None of the properties is inductive alone. `IInv` is `DataInv`, `LoopType` and
`PlaceInv`:

* `DataType` and `LoopType`, the type invariant of what the handlers share and
  of the loop;
* `TokenInv`: every token in use was handed out after the listeners' and lies
  below `next_token`, and no client's token is a stream's. Needed since the
  disjointness of *new* tokens rests on freshness;
* `RouteInv`: both streams of a running script lead to its connection, and so
  does every token a connection remembers. Needed because `Terminate` and
  `MonitorExit` remove entries by the tokens a connection remembers, and must
  not take another's;
* `HoldInv`: who holds a child has the action `Cgi` and the reverse;
* `PlaceInv`: in the places of a handler, `cur` is a connection, or a stream
  whose client is a connection. It is what makes `connections[cur]` defined.

Most handler steps change one connection and leave its tokens and child alone or
drop them. The lemmas `...IsLocal` say so of each step, and `LocalKeeps` and
`DropKeeps` say once that such a change preserves `DataInv`; only accepting,
spawning, the sweeps, the exit and termination have proofs of their own.
`NoChildForgotten` then goes the same way over `IInv`.

The step theorems follow from `IInv`. For `LoopReapsChildren`, only the process
and the purgatory can take a child astray (`ProcStep`, true with overlap too:
what is killed was held, and what is doomed stays so until it is reaped); that
it is held in between is `NoChildForgotten`. For `TokensAreFresh`, only
accepting and spawning add to the maps. `ClosingIsFinal` needs one more
invariant, `PostOpen`: the post-write update does not look at `closed`, and is
right not to, because the write phase reaches it with an open connection only.

`Sessions_proof` proves of `Sessions`, for any browsers, connections, lifetimes and
supply of ids, from `OwnerAssumption`, `NoneAssumption` and `TimesAssumption`:

| theorem | states |
|---|---|
| `TypeCorrect` | `TypeOK` |
| `BrowsersApart` | `SessionsApart` |
| `AnswersTell` | `ToldItsSession` |
| `OutputLostOnlyByExpiry` | `LostOnlyByExpiry` |
| `SessionsLive` | `SessionLifetime` |
| `EndedForGood` | a session only gets older, does not come back, and a sweep leaves none past its time |

Its `IInv` adds two facts to the checked invariants. `ToldInv`: what waits in
`conn.response` or in `write_buffer` is the connection's own session, and nothing
waits while it is idle; without it, an answer could tell what an earlier request
left behind, and the browser would learn another's session. `LifeInv`: a session
that was made and is not in the store is past its time. Both requests are brought
to one form first (`Asked`: the session is kept or is made), so that each part of
the invariant is shown once for both; `Learns` and `SeenAtConnection` say that a
step lets at most one browser learn at most one id, which is new.

`CgiPipe_proof` proves of `CgiPipe`, for any set of scripts with a head and up to three
pieces of body, any way of breaking lines, any bodies, and any room of the streams, from `BoundsAssumption` and
`ScriptsAssumption`:

| theorem | states |
|---|---|
| `TypeCorrect` | `TypeOK` |
| `BodiesWhole` | `StdinWhole` |
| `OutputOrdered` | `OutputInOrder` |
| `EndOfFileWhole` | `EofIsWhole` |
| `NoOutputStranded` | when the loop waits, what is left in `write_buffer` has its interest and its edge; a connection that is gone left nothing in it |
| `NoBodyStranded` | when no event is left, the client has sent all and stdin is empty, a running script has had the whole sized body and its end |

Its `IInv` follows the pieces. `BodyInv`: while the script has the connection, the
client, the socket, `cgi_buffer`, the pipe and the script hold the whole body
between them, and `body_remaining` of a sized one is what has not been parsed; so
stdin is closed only behind the last piece. `OutInv`: nothing is shown
before the end of the head was found, and what was read of the output by then is in
`header_buf`; a clear script has no end of its head in there, because it is split by the
read that brings it. From then on what was shown and what the pipe still holds are together
what was written (`Flow`), or, of a script that is not clear, what was written with the
first piece cut: only the split can cut it, which `SplitCuts` says and `ClearSplit` excludes
for clear scripts. Once the end of file is read, this is the whole answer (`AtEof`), or
nothing if the end of the head was not found; and once the exit was noticed only "a
beginning of the answer" remains (`InPlace`), which is all `OutputInOrder` claims and what
`cgi_truncated` is about. Steps that leave the output alone are shown to at once (`SilentSteps`), and so
are those that leave the body alone (`SameBodySteps`) or pass it on (`BodyMoves`).

The last two are about edges, and need two invariants of their own. `FlushInv`: as long
as `write_buffer` holds something, writing is watched and an edge is queued for it, or
the write phase of this event is still to come. `FeedInv`: while the script runs, input
that arrived has an edge or is about to be read, and what was read of the body has one
on stdin whenever stdin has room. Both are lost at once if a `reregister` is left out
on any of the ways through the handlers.

`HttpConnection_proof` proves of `HttpConnection`, for programs of any length, files of
any number of pieces, and any size of the kernel's buffer and of a read, from
`BoundsAssumption` and `ProgramsAssumption`:

| theorem | states |
|---|---|
| `BaseAlways` | `Spec => []BaseInv` |
| `TypeCorrect` | `TypeOK` |
| `WakeupsNeverLost` | `NoLostWakeup` |
| `OrderlyAlways` | `Spec => [](Orderly => OrdInv)` |
| `ConnectionImplementsExchange` | `OrderlyExchange`, the refinement of `Exchange` |
| `AnswersAlwaysInOrder` | `Spec => [](Orderly => AnswersInOrder)`, which follows from it |
| `UploadsAlwaysStored` | `OrderlyStored` |
| `NoStandstill` | when neither the handler nor an orderly client has a step to take, everything was sent and answered |
| `NotKeptWhenDone` | a connection whose client has its answers and has closed does not stay at rest |

`BaseInv` holds whatever the client sends, the programs of the findings included. It
is `DataType`; `PlaceInv`, what each place of the handler relies on (a request is there
to be finished, nothing is left to write when the post-write update runs); and `WakeInv`,
which strengthens `NoLostWakeup` to every place of the handler: a direction with work
left has an edge queued, or is the event being served, or the handler has a
`reregister` still to come.

`OrdInv` holds of orderly clients only, as the findings show. `WireInv`: what waits in
the socket and in `request.buffer` is the end of what was sent (`WaitInv`), the parser
stands at the request that this leaves (`ParseInv`), and what was taken of a body is in
its file (`StoredInv`). `AnswerInv`: what was received, what the kernel holds, what
`write_buffer` holds and what the file on its way still has are together exactly the
answers to the requests that were answered (`ShownInv`). That equation survives a step
only because of three more facts: a client that waits sends nothing before it has its
answer (`SentInv`), an eager one asks for a file last and a response outlives its
request only while it is written (`FileInv`), and what is left in the buffer waits for
a write (`KeptInv`). That no answer is sent with the body of another needs `HeldInv`: a
body that is held is that of an earlier answer with a body, behind which an orderly client
asks for no answer without one before it is written (`NothingHeld`).

`ConnectionImplementsExchange` then takes the steps one by one: `OrdInv` before and after
a step says what the pieces in front of the client are, so that a step of the handler is
a `Give`, a `Pass`, a `Quit` or nothing that shows. `NoStandstill` joins both halves: by
`WakeInv` a handler at rest has nothing left to read or to write, and by `OrdInv` this
means that all requests were answered, unless the connection was closed before that.
`ClosedInv` excludes it: an orderly client's connection is closed by its last answer only,
and until that is written the handler holds on to it. For `NotKeptWhenDone`, `RestInv`
says that the handler comes to rest on a closed connection only when it still has
something to write.

`RequestChunks_proof` and `RequestBody_proof` prove of `RequestBody`, for messages of any
number of chunks or parts, parts of any length, any bytes in them, fragments of any size
cut anywhere, and any limits the assumptions allow (`BoundsAssumption`,
`LimitsAssumption`, `MessagesAssumption`; chunks stay within four bytes, as one digit
names their length):

| theorem | states |
|---|---|
| `BodyAlways` | `Spec => []IInv` |
| `TypeCorrect` | `TypeOK` |
| `ChunksAlwaysDecoded` | `ChunksDecoded` |
| `EndsAlwaysWhereItEnds` | `EndsWhereItEnds` |
| `FilesAlwaysFaithful` | `FilesFaithful` |
| `OthersAlwaysKept` | `OthersKept` |
| `NeverWaitsInVain` | the parser waits only while bytes of the body are still to come |
| `TurnsEnd` | every turn of a decoder's loop that does not end it leaves less before it |

A decoder knows nothing of the message; it sees what is buffered. `IInv` says which byte
of the wire that is. `BufferInv`: `request.buffer` is the wire from byte `Used` on. For a
body in chunks, `ChunkPlace` says that `Used` is the offset of the next chunk's size
line, or `j` bytes into a chunk, or its line break, or the trailers, and that what was
passed on is exactly the data before it. For a body in parts, `PartPlace` says the same
of the upload's buffer, a window of the wire that grows at one end and is drained at the
other: it stands before a delimiter, before a header's end, or `w` bytes into the data
of a part whose file holds these `w` bytes; `SavedInv` speaks of the files of the parts
that ended. `NamesInv` keeps the files of other connections apart from the current one.

That a search in what is buffered gives the right answer is the heart of it, and where
fragments could do harm. In `DelimiterInWindow` a search finds the first delimiter of
the *wire* that is wholly buffered, and if none is found it is not wholly there.
`NoneWithin` shows that none begins earlier than where the part ends, not even across the
line break behind the data. From both, `FlushRead` derives that what
`flush_partial_data` writes is data of the part: here `LimitsAssumption` is
used, that the tail held back has room for a line break and all but one byte of a
delimiter (`Slack >= 3`; with less, TLC finds the file that ends in a line break, which
is the mutant `SafetyMargin_Boundary`). For chunks the like is `SizeIs` and
`NotHex`: a size line that has come whole is read as the length it was written for, and
a damaged one is refused, never taken for another length.

The last two theorems say that a body is got through: `NeverWaitsInVain` that no decoder
asks for bytes it has (which would leave client and server waiting for each other), and
`TurnsEnd` that its loop comes to an end. `WaitInv` adds that a turn over the parts left
nothing untaken while the body lacks bytes; for chunks, `ChunksWaitForMore` goes through
the returns to wait one by one, and the one that is not plain is the search for the end of a
trailer from `cursor` on (`TrailerAt`), with a flaw in the trailers or without. `Left` is
the measure of `TurnsEnd`: the bytes behind the decoder's offset, and one more for a part
whose end is not drained yet, as draining it puts `current_pos` back to 0 (`Cleaned`).

`Startup_proof` proves of `Startup`, for files of any number of blocks, ports and routes,
any names, paths, tree of files and requests, from `SymbolAssumption`, `TreeAssumption`,
`PathsAssumption` and `MethodsAssumption` (the three methods of `src/http/request.rs:4`):

| theorem | states |
|---|---|
| `StartupAlways` | `Spec => []IInv` |
| `TypeCorrect` | `TypeOK` |
| `EachAlwaysServed` | `EachServed` |
| `ServerAlwaysRight` | `RightServer` |
| `RouteAlwaysRight` | `RightRoute` |
| `FileAlwaysRight` | `RightFile` |
| `SaneNeverRefused` | no step of the start-up refuses a `Sane` file |

`IInv` follows the file. `ClaimInv`: what the blocks validated so far claim is in
`virtual_hosts` and `default_servers_per_port`, and any two of them are `Apart` on the
ports both claim; it needs the sets, as those are what the next block is compared with.
`ServeInv`: the servers are the accepted blocks so far, one for each (`Numbers` is the
enumeration that says so). `ListenInv`: a listener has an address of its own and all
servers behind it. `AnswerInv`: an answer was made by `ResolveConfig`, `FindRoute` and
the handlers in a file system that is a part of the tree. An accepted block claims all
its ports (`ProperPorts`), so that two blocks of one address are `Apart`: at most one
has the name and one is the default, whatever their order, which is `RightServer`.

`RightRoute` speaks of segments and `find_route` of prefixes and of the symbol behind
them. `CoversIsMatch` says that both mean the same, for any two texts: a join has
the segments of its parts (`SegmentsJoin`), a text is told by its segments
(`SegmentsInjective`) and can be split at any of its slashes (`SplitAt`). The case that
makes it worth a proof is a route that ends in a slash, or is empty.

`RightFile` needs the same of names: those on a join are those on its parts
(`NamesJoin`), slashes in front of a path name nothing (`NamesTrimmed`), and what is left
of a URL behind the path of its route names what `Beneath` says (`BeneathRoute`), with
the boundary that `find_route` checked. With it `GetServes` and `DeleteRemoves` say what
the handlers do in any part of the tree. A default file is a file, by the check of
`validate` (`FileElsewhere`), so that one served for a directory is never taken for the
directory. `GoneInv`, the first conjunct of `RightFile`, is an invariant on top of `IInv`.

`SaneNeverRefused` needs the converse of `ClaimInv`: what is claimed was claimed by a
block that was validated (`ClaimedInv`), so that a conflict is one between two blocks of
the file, and a sane file has none; and addresses that clash when they are bound come from
such blocks too.

`SeqLemmas` has what these proofs need of the library's operators. The library's theorem
of induction cannot be used, as it takes an operator as a parameter; `NatSetInduction`
states it for a set, from the theorem that a well-founded relation has minimal elements,
which takes none. With it, that `FlattenSeq` appends one element at a time is proved for
sequences of any length (`FlattenGrows`), that a member of a family stands in the
flattened whole behind those before it (`FirstsAt`), that flattening a concatenation is
concatenating (`FlattenConcat`), that picking members of a sequence keeps just these
(`PickProperties`), and that an orderly client's wire is heads and one body
(`OrderlyWire`).

Only model-checked: `LoadsWhatIsMeant` and the liveness properties (`ScriptsEnd`,
`OrderlyAnswered`, `OrderlyRemoved`, `BodyDelivered`, `OutputFlushed`, `BodyServed`,
`SaneStarts`, `ExpiredSwept`). Liveness and `ENABLED` are beyond the proof system, and so are
the recursive operators of `Yaml`, in whose modules (`Yaml`, `Boot`) nothing can be proved. So
it is TLC that says that `Load` is a `ReadFile`, on the files of the run; from there on, the
theorems about `Startup` hold of `Boot`.

What liveness needs besides fairness is proved where the code could get it wrong, which is
that nothing gets stuck where no step of the handler is left to free it:

| liveness, checked by TLC | safety half, proved for every size |
|---|---|
| `OrderlyAnswered` | `NoStandstill` |
| `OrderlyRemoved` | `NotKeptWhenDone` |
| `OutputFlushed` | `NoOutputStranded` |
| `BodyDelivered` | `NoBodyStranded` |
| `BodyServed` | `NeverWaitsInVain` (no waiting for bytes that are there), `TurnsEnd` (no endless loop) |
| `SaneStarts` | `SaneNeverRefused` |
| `ExpiredSwept` | `EndedForGood` |

`ScriptsEnd` has `NoChildForgotten` and `LoopReapsChildren`, which say who holds a child until
it is reaped but not that its time comes.

## 5. Not modelled

* `build_cgi_env`, except for the session's data, and what `parse_cgi_headers`
  takes from a script's head besides its framing and `X-Session-Update`:
  conversions of strings.
* The request line and header fields, the bytes of listings and error pages,
  content types: units or choices in the models. How a cookie is written and
  parsed.
* Names that the code makes from the clock: ids are taken to be new. Two of them in
  one nanosecond (sessions) or one millisecond (uploads) are not played.
* A client that resets its connection, in `HttpConnection` (`Server` has it).
* Scripts whose body breaks lines otherwise from piece to piece, that write single bytes
  (a piece has at least the two bytes that a split in the wrong place takes), or whose
  body holds an LF LF while the head has no end of its own. The head is searched in the
  output from its beginning, as the code does; what its fields say is not.
* Bodies of requests other than POST, in `Startup`.
* Paths that climb (`..`), and files that exist and cannot be read.
* `proxy_log`, logging macros; `src/router.rs`, a table nothing fills; and
  `src/config_handler`, `src/lexer`, `derive_yaml`, which the crate does not reach.

## 6. Plan

In order of what the system depends on most. Done: `Server` with `ChildReaper`
and its proofs; `HttpConnection` with `Exchange` and its proofs; `CgiPipe` and its proofs;
`RequestBody` with its decoders and its proofs; `Boot` with the configuration language,
validation and the handlers, and the proofs about `Startup`; `Sessions` and its proofs. Left:

1. *Connection*: resets by the client, and scripts inside `HttpConnection`'s
   programs, so that the framing of a script's answer is composed with its
   successor's, and both with `Exchange`.
2. *Bodies*: a second body on one connection (`total_body_read` is never reset),
   and files that other requests remove or replace between two fragments.
