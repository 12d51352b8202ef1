------------------------------- MODULE Server -------------------------------
(***************************************************************************)
(* The event loop of the server (src/server.rs, src/timeouts.rs) and the   *)
(* resources it owns: the client connections, the tokens their streams are *)
(* registered under, the map from CGI stream tokens to client tokens, the  *)
(* CGI child processes and the purgatory of killed children.               *)
(*                                                                         *)
(* One thread runs the loop.  What runs concurrently is the world: clients *)
(* connect and send, scripts write and exit, and time passes.  pc names    *)
(* the place the loop is at, so that a script can exit between any two     *)
(* steps of a handler.  Bytes are abstracted to whether a buffer is empty. *)
(***************************************************************************)
EXTENDS Integers, FiniteSets, Functions

CONSTANTS
    Ports,       \* number of listeners set up from the configuration
    Pid,         \* the child processes that may ever be spawned
    MaxToken,    \* bound on the tokens handed out
    MaxClients,  \* bound on the clients connected at a time
    MaxBatch,    \* bound on the events one poll returns (1024 in the code)
    Overlap,     \* may a request replace the action of an unfinished script?
    PollErrors,  \* may registering a stream with the poller fail?
    NoToken,     \* Option::None for a token
    NoPid        \* no child

ASSUME BoundsAssumption ==
    Ports \in Nat /\ MaxToken \in Nat /\ Ports <= MaxToken /\ MaxClients \in Nat /\ MaxBatch \in Nat
ASSUME FlagsAssumption == Overlap \in BOOLEAN /\ PollErrors \in BOOLEAN
ASSUME SentinelAssumption == NoToken \notin Nat /\ NoPid \notin Pid

VARIABLES
    connections,      \* client token -> the connection's state
    cgi_to_client,    \* CGI stream token -> client token
    next_token,       \* the next token to hand out
    zombie_purgatory, \* killed children that were not reaped on the spot
    proc,             \* the kernel's view of every child
    pc, cur, batch    \* the loop: its place, its current token, its events

vars == <<connections, cgi_to_client, next_token, zombie_purgatory, proc,
          pc, cur, batch>>

Token == 0 .. MaxToken
Listeners == 0 .. Ports - 1
ProcState == {"unborn", "running", "killed", "zombie", "reaped"}

(* What the loop and the sweeps read or write of an HttpConnection.  A     *)
(* connection whose action is not "Cgi" holds no child and no stream.      *)
Connection ==
    [ action        : {"None", "Other", "Cgi"},
      child         : Pid \cup {NoPid},
      out_stream    : Token \cup {NoToken}, \* token the streams were registered
                                            \* under (stdin: the one after it)
      in_stream     : BOOLEAN,              \* the script's stdin is open
      cgi_out_token : Token \cup {NoToken},
      cgi_in_token  : Token \cup {NoToken},
      closed        : BOOLEAN,
      write_buffer  : BOOLEAN,              \* non-empty
      cgi_buffer    : BOOLEAN,              \* non-empty
      body_done     : BOOLEAN,              \* body_remaining = 0
      idle          : BOOLEAN,              \* CLIENT_TIMEOUT has passed
      overdue       : BOOLEAN ]             \* TIMEOUT_CGI has passed

NewConnection ==
    [ action |-> "None", child |-> NoPid, out_stream |-> NoToken,
      in_stream |-> FALSE, cgi_out_token |-> NoToken, cgi_in_token |-> NoToken,
      closed |-> FALSE, write_buffer |-> FALSE, cgi_buffer |-> FALSE,
      body_done |-> TRUE, idle |-> FALSE, overdue |-> FALSE ]

(* Assigning another action to a connection drops the streams of the old   *)
(* one, and the Child value with them: dropping it neither kills nor waits. *)
WithAction(c, a) ==
    [c EXCEPT !.action = a, !.child = NoPid, !.out_stream = NoToken,
              !.in_stream = FALSE, !.overdue = FALSE]

ShouldClose(c) == c.closed /\ ~c.write_buffer /\ ~c.cgi_buffer

Without(f, S) == Restrict(f, DOMAIN f \ S)
Goto(place, token) == pc' = place /\ cur' = token
Update(t, c) == connections' = [connections EXCEPT ![t] = c]

Init ==
    /\ connections = [t \in {} |-> NewConnection]
    /\ cgi_to_client = [t \in {} |-> 0]
    /\ next_token = Ports
    /\ zombie_purgatory = {}
    /\ proc = [p \in Pid |-> "unborn"]
    /\ pc = "poll" /\ cur = NoToken /\ batch = {}

-----------------------------------------------------------------------------
(* The loop: wait for events, sweep the timeouts, serve the events.        *)

(* The streams the poller watches.                                         *)
Registered ==
    Listeners \cup DOMAIN connections
      \cup {k \in Token : \E t \in DOMAIN connections :
              LET c == connections[t] IN
                 /\ c.action = "Cgi"
                 /\ \/ k = c.out_stream
                    \/ c.in_stream /\ k = c.out_stream + 1}

Poll ==
    /\ pc = "poll"
    /\ \E b \in SUBSET Registered : Cardinality(b) <= MaxBatch /\ batch' = b
    /\ Goto("timeouts", NoToken)
    /\ UNCHANGED <<connections, cgi_to_client, next_token, zombie_purgatory, proc>>

(* Mutant: the script is killed and answered for, the action stays.        *)
ForceCgiTimeout_Keep(c) ==
    [c EXCEPT !.write_buffer = TRUE, !.cgi_buffer = FALSE,
              !.cgi_out_token = NoToken, !.cgi_in_token = NoToken]

(* force_cgi_timeout: the tokens are cleared before cleanup_cgi looks for  *)
(* them, so cgi_to_client keeps its entries.                               *)
ForceCgiTimeout(c) ==
    LET d == [WithAction(c, "None") EXCEPT !.cgi_buffer = FALSE,
                                           !.cgi_out_token = NoToken,
                                           !.cgi_in_token = NoToken]
    IN  IF c.action = "Cgi" THEN [d EXCEPT !.write_buffer = TRUE] ELSE d

IdleTokens == {t \in DOMAIN connections : connections[t].idle}
(* Mutant: a script whose stdout has ended is not timed anymore.           *)
OverdueTokens_Open ==
    {t \in DOMAIN connections :
        ~connections[t].idle /\ connections[t].cgi_out_token # NoToken /\ connections[t].overdue}
OverdueTokens ==
    {t \in DOMAIN connections :
        ~connections[t].idle /\ connections[t].action = "Cgi" /\ connections[t].overdue}
ExpiredChildren ==
    {connections[t].child : t \in {u \in IdleTokens \cup OverdueTokens :
                                     connections[u].action = "Cgi"}}

(* Mutant: a killed child that is not dead yet is dropped.                 *)
KillAndTry_Drop(S, dead) ==
    /\ dead \subseteq S
    /\ {p \in S : proc[p] = "zombie"} \subseteq dead
    /\ proc' = [p \in Pid |-> IF p \in dead THEN "reaped"
                              ELSE IF p \in S THEN "killed" ELSE proc[p]]
    /\ UNCHANGED zombie_purgatory

(* A child that was killed and is tried once: it is reaped if it is        *)
(* already dead (dead holds those) and goes to the purgatory otherwise.    *)
KillAndTry(S, dead) ==
    /\ dead \subseteq S
    /\ {p \in S : proc[p] = "zombie"} \subseteq dead
    /\ proc' = [p \in Pid |-> IF p \in dead THEN "reaped"
                              ELSE IF p \in S THEN "killed" ELSE proc[p]]
    /\ zombie_purgatory' = zombie_purgatory \cup (S \ dead)

(* timeouts::process, first half: idle connections are removed, scripts    *)
(* that ran too long are killed and answered for.                          *)
Timeouts ==
    /\ pc = "timeouts"
    /\ connections' = [t \in DOMAIN connections \ IdleTokens |->
                         IF t \in OverdueTokens THEN ForceCgiTimeout(connections[t])
                                                ELSE connections[t]]
    /\ \E dead \in SUBSET ExpiredChildren : KillAndTry(ExpiredChildren, dead)
    /\ Goto("reap", NoToken)
    /\ UNCHANGED <<cgi_to_client, next_token, batch>>

(* timeouts::process, second half: what died in the purgatory is reaped.   *)
Reap ==
    /\ pc = "reap"
    /\ zombie_purgatory' = {p \in zombie_purgatory : proc[p] # "zombie"}
    /\ proc' = [p \in Pid |-> IF p \in zombie_purgatory /\ proc[p] = "zombie"
                              THEN "reaped" ELSE proc[p]]
    /\ Goto("events", NoToken)
    /\ UNCHANGED <<connections, cgi_to_client, next_token, batch>>

Quiet == UNCHANGED <<connections, cgi_to_client, next_token, zombie_purgatory, proc>>

EndOfBatch ==
    /\ pc = "events" /\ batch = {}
    /\ Goto("poll", NoToken)
    /\ batch' = batch /\ Quiet

TakeEvent(k) == pc = "events" /\ k \in batch /\ batch' = batch \ {k}

(* An event of a CGI stream: the client that owns it may be gone already.  *)
CgiEvent(k) ==
    /\ TakeEvent(k)
    /\ k \in DOMAIN cgi_to_client
    /\ IF cgi_to_client[k] \in DOMAIN connections
       THEN Goto("cgi_read", k) ELSE Goto("events", NoToken)
    /\ Quiet

(* Mutants: the counter is bumped before it is used; free tokens are taken *)
(* from the lowest up.                                                     *)
Fresh_Late(n) == next_token + 1 .. next_token + n
Fresh_Slab(n) ==
    LET free == Token \ (Registered \cup DOMAIN cgi_to_client)
    IN  {t \in free : Cardinality({u \in free : u < t}) < n}
(* The tokens of n new clients.                                            *)
Fresh(n) == next_token .. next_token + n - 1

(* handle_accept: tokens are handed out before the stream is registered,   *)
(* so a failed registration burns one.                                     *)
Accept(k) ==
    /\ TakeEvent(k)
    /\ k \notin DOMAIN cgi_to_client
    /\ k \in Listeners
    /\ \E n \in 0 .. MaxClients, burnt \in IF PollErrors THEN {0, 1} ELSE {0} :
          /\ next_token + n + burnt <= MaxToken + 1
          /\ Cardinality(DOMAIN connections) + n <= MaxClients
          /\ next_token' = next_token + n + burnt
          /\ connections' = [t \in DOMAIN connections \cup Fresh(n) |->
                               IF t \in Fresh(n) THEN NewConnection ELSE connections[t]]
    /\ Goto("events", NoToken)
    /\ UNCHANGED <<cgi_to_client, zombie_purgatory, proc>>

(* handle_connection begins: the client was active.                        *)
ClientEvent(k) ==
    /\ TakeEvent(k)
    /\ k \notin DOMAIN cgi_to_client /\ k \notin Listeners
    /\ k \in DOMAIN connections
    /\ Update(k, [connections[k] EXCEPT !.idle = FALSE])
    /\ Goto("read", k)
    /\ UNCHANGED <<cgi_to_client, next_token, zombie_purgatory, proc>>

(* The connection was removed since the events were collected.             *)
StaleEvent(k) ==
    /\ TakeEvent(k)
    /\ k \notin DOMAIN cgi_to_client \cup Listeners \cup DOMAIN connections
    /\ Goto("events", NoToken)
    /\ Quiet

-----------------------------------------------------------------------------
(* proces_request on connection t, with next the place the loop goes to.   *)

(* The rest of a script's body precedes the next request.                  *)
MayBegin(c) == c.action = "Cgi" => c.body_done
(* Mutant: any complete request replaces a running script.                 *)
MayReplace_Always(c) == c.action = "Cgi" => c.body_done
MayReplace(c) == c.action = "Cgi" => Overlap /\ c.body_done

(* An answer in write_buffer: a redirect, a page, a listing, an upload's   *)
(* result, or an error response, after which the connection closes.        *)
Respond(t) ==
    LET c == connections[t] IN
    /\ MayBegin(c)
    /\ \E err \in BOOLEAN, done \in BOOLEAN :
          Update(t, [c EXCEPT !.write_buffer = TRUE, !.closed = err, !.body_done = done])

(* Body bytes: they queue for the script's stdin, and may be the last.     *)
FeedBody(t) ==
    LET c == connections[t] IN
    \E done \in {c.body_done, TRUE} :
        Update(t, [c EXCEPT !.cgi_buffer = @ \/ c.action = "Cgi", !.body_done = done])

(* A file download, answered at once, or an upload, answered at its end.   *)
BeginOther(t) ==
    LET c == connections[t] IN
    /\ MayReplace(c)
    /\ \E out \in {c.write_buffer, TRUE}, done \in BOOLEAN :
          Update(t, [WithAction(c, "Other") EXCEPT !.write_buffer = out, !.body_done = done])

(* proces_request without a spawn; the request may still be incomplete.    *)
LocalRequest(t, next) ==
    /\ Respond(t) \/ BeginOther(t) \/ UNCHANGED connections
    /\ Goto(next, t)
    /\ UNCHANGED <<cgi_to_client, next_token, zombie_purgatory, proc, batch>>

(* The script has been spawned as p, its streams get the next two tokens.  *)
(* Body bytes that came with the head are queued; a bad one is answered.   *)
BeginCgi(t, p) ==
    LET c == connections[t] IN
    \E done \in BOOLEAN, in \in {c.cgi_buffer, TRUE},
       err \in BOOLEAN, out \in {c.write_buffer, TRUE} :
     /\ out = (c.write_buffer \/ err)
     /\ Update(t, [c EXCEPT
            !.action = "Cgi", !.child = p, !.out_stream = next_token,
            !.in_stream = TRUE, !.overdue = FALSE,
            !.cgi_out_token = next_token, !.cgi_in_token = next_token + 1,
            !.body_done = done, !.cgi_buffer = in,
            !.closed = err, !.write_buffer = out])

(* Mutant: only stdout gets an entry in cgi_to_client.                     *)
ScriptTokens_OutOnly == {next_token}
(* A script's stdout and stdin.                                            *)
ScriptTokens == {next_token, next_token + 1}

(* proces_request that reaches a script: two tokens, two map entries.      *)
CgiRequest(t, next) ==
    /\ MayReplace(connections[t])
    /\ next_token + 1 <= MaxToken
    /\ \E p \in Pid :
          /\ proc[p] = "unborn"
          /\ proc' = [proc EXCEPT ![p] = "running"]
          /\ BeginCgi(t, p)
    /\ cgi_to_client' = [k \in DOMAIN cgi_to_client \cup ScriptTokens |->
                           IF k \in ScriptTokens THEN t ELSE cgi_to_client[k]]
    /\ next_token' = next_token + 2
    /\ Goto(next, t)
    /\ UNCHANGED <<zombie_purgatory, batch>>

-----------------------------------------------------------------------------
(* handle_connection: read, write, then the connection's lifecycle.        *)

KeepAllButConnections ==
    UNCHANGED <<cgi_to_client, next_token, zombie_purgatory, proc, batch>>

(* Not readable or already closed; or nothing complete was read.           *)
ReadNothing ==
    /\ pc = "read"
    /\ Goto("write", cur)
    /\ batch' = batch /\ Quiet

(* End of file or a read error: what was read is not processed.            *)
ReadEof ==
    /\ pc = "read" /\ ~connections[cur].closed
    /\ Update(cur, [connections[cur] EXCEPT !.closed = TRUE])
    /\ Goto("write", cur)
    /\ KeepAllButConnections

(* Mutant: the read phase does not look at closed.                         *)
ReadRequest_Closed ==
    pc = "read" /\ (LocalRequest(cur, "write") \/ CgiRequest(cur, "write"))
ReadRequest ==
    /\ pc = "read" /\ ~connections[cur].closed
    /\ LocalRequest(cur, "write") \/ CgiRequest(cur, "write")

ReadBody ==
    /\ pc = "read" /\ ~connections[cur].closed
    /\ FeedBody(cur)
    /\ Goto("write", cur)
    /\ KeepAllButConnections

(* handle_write_phase up to the flush: an empty buffer is refilled from a  *)
(* download, which may end; some, all or nothing of the buffer is written; *)
(* reading the file or writing the socket may fail.                        *)
Refilled(c) ==
    IF c.write_buffer \/ c.action # "Other" THEN {c}
    ELSE {c, WithAction(c, "None"), [c EXCEPT !.write_buffer = TRUE]}

Write ==
    /\ pc = "write"
    /\ \E c \in Refilled(connections[cur]) :
       \E left \in {c.write_buffer, FALSE}, fail \in {c.closed, TRUE} :
          /\ fail => c.closed \/ c.write_buffer \/ c.action = "Other"
          /\ Update(cur, [c EXCEPT !.write_buffer = left, !.closed = fail])
          /\ Goto(IF fail \/ left THEN "lifecycle" ELSE "post", cur)
    /\ KeepAllButConnections

(* The event was not writable.                                             *)
NoWrite ==
    /\ pc = "write"
    /\ Goto("lifecycle", cur)
    /\ batch' = batch /\ Quiet

(* handle_post_write_update: the next request may be in the buffer; the    *)
(* rest of a body is not looked at here.                                   *)
PostWrite ==
    /\ pc = "post"
    /\ LocalRequest(cur, "lifecycle") \/ CgiRequest(cur, "lifecycle")

KeepConnection ==
    /\ pc = "lifecycle" /\ ~ShouldClose(connections[cur])
    /\ Goto("events", NoToken)
    /\ batch' = batch /\ Quiet

(* terminate_connection: the child is killed, tried once, and the map      *)
(* loses the tokens the connection still remembers.                        *)
Terminate ==
    LET c == connections[cur] IN
    /\ pc = "lifecycle" /\ ShouldClose(c)
    /\ connections' = Without(connections, {cur})
    /\ IF c.action = "Cgi"
       THEN /\ \E dead \in SUBSET {c.child} : KillAndTry({c.child}, dead)
            /\ cgi_to_client' = Without(cgi_to_client, {c.cgi_out_token, c.cgi_in_token})
       ELSE UNCHANGED <<proc, zombie_purgatory, cgi_to_client>>
    /\ Goto("events", NoToken)
    /\ UNCHANGED <<next_token, batch>>

(* A registration failed under handle_connection: run() only removes the   *)
(* connection.                                                             *)
ConnectionError ==
    /\ PollErrors
    /\ pc \in {"read", "write", "post", "lifecycle"}
    /\ connections' = Without(connections, {cur})
    /\ Goto("events", NoToken)
    /\ KeepAllButConnections

-----------------------------------------------------------------------------
(* handle_cgi_event: read stdout, write stdin, watch the process.          *)

Client == cgi_to_client[cur]

IsStdout(c) == c.action = "Cgi" /\ cur = c.cgi_out_token
IsStdin(c) == c.action = "Cgi" /\ cur = c.cgi_in_token /\ c.in_stream /\ c.cgi_buffer

(* read_cgi_output: data, lost when the session is gone, a read error, or  *)
(* end of file, after which both tokens are forgotten.                     *)
CgiData ==
    LET c == connections[Client] IN
    IsStdout(c) /\ Update(Client, [c EXCEPT !.write_buffer = TRUE])
CgiFail ==
    LET c == connections[Client] IN
    IsStdout(c) /\ Update(Client, [c EXCEPT !.closed = TRUE])
CgiEof ==
    LET c == connections[Client] IN
    /\ IsStdout(c)
    /\ \E out \in {c.write_buffer, TRUE} :
          Update(Client, [c EXCEPT !.write_buffer = out,
                                   !.cgi_out_token = NoToken,
                                   !.cgi_in_token = NoToken])

ReadCgiOutput ==
    /\ pc = "cgi_read"
    /\ CgiData \/ CgiFail \/ CgiEof \/ UNCHANGED connections
    /\ Goto("cgi_write", cur)
    /\ KeepAllButConnections

(* write_to_cgi_stdin: a part or all of the body that has arrived, or an   *)
(* error; stdin is dropped when that was the end of the body.              *)
StdinWrite ==
    LET c == connections[Client] IN
    /\ IsStdin(c)
    /\ Update(Client, IF c.body_done
                      THEN [c EXCEPT !.cgi_buffer = FALSE, !.in_stream = FALSE,
                                     !.cgi_in_token = NoToken]
                      ELSE [c EXCEPT !.cgi_buffer = FALSE])
StdinFail ==
    LET c == connections[Client] IN
    IsStdin(c) /\ Update(Client, [c EXCEPT !.closed = TRUE])

WriteToCgiStdin ==
    /\ pc = "cgi_write"
    /\ StdinWrite \/ StdinFail \/ UNCHANGED connections
    /\ Goto("monitor", cur)
    /\ KeepAllButConnections

(* monitor_cgi_process when try_wait reaps the child.  A script that       *)
(* failed before its headers is answered 505 and the connection closes.    *)
(* Dropping stdin forgets cgi_in_token before cleanup_cgi can remove it.   *)
MonitorExit ==
    LET c == connections[Client]
        drops == c.body_done /\ ~c.cgi_buffer /\ c.in_stream
        known == {c.cgi_out_token} \cup IF drops THEN {} ELSE {c.cgi_in_token}
    IN
    /\ pc = "monitor" /\ c.action = "Cgi" /\ proc[c.child] = "zombie"
    /\ proc' = [proc EXCEPT ![c.child] = "reaped"]
    /\ \E out \in {c.write_buffer, TRUE}, fail \in {c.closed, TRUE} :
          /\ fail # c.closed => out \/ PollErrors
          /\ out # c.write_buffer => fail
          /\ Update(Client, [WithAction(c, "None") EXCEPT
                             !.write_buffer = out, !.closed = fail,
                             !.cgi_out_token = NoToken, !.cgi_in_token = NoToken])
    /\ cgi_to_client' = Without(cgi_to_client, known)
    /\ Goto("events", NoToken)
    /\ UNCHANGED <<next_token, zombie_purgatory, batch>>

MonitorAlive ==
    LET c == connections[Client] IN
    /\ pc = "monitor" /\ ~(c.action = "Cgi" /\ proc[c.child] = "zombie")
    /\ Goto("events", NoToken)
    /\ batch' = batch /\ Quiet

(* Registering the client failed under read or write: the rest of the      *)
(* handler is skipped, what it did before stays, and run() closes.         *)
CgiError ==
    LET c == connections[Client] IN
    /\ PollErrors
    /\ \/ /\ pc = "cgi_read" /\ IsStdout(c)
          /\ \E out \in {c.write_buffer, TRUE} :
                Update(Client, [c EXCEPT !.write_buffer = out, !.closed = TRUE])
       \/ /\ pc = "cgi_write" /\ IsStdin(c)
          /\ \E rest \in BOOLEAN :
                Update(Client, [c EXCEPT !.cgi_buffer = rest, !.closed = TRUE])
    /\ Goto("events", NoToken)
    /\ KeepAllButConnections

-----------------------------------------------------------------------------
(* The world: children exit, and time passes while the loop waits.         *)

ChildExit(p) ==
    /\ proc[p] \in {"running", "killed"}
    /\ proc' = [proc EXCEPT ![p] = "zombie"]
    /\ UNCHANGED <<connections, cgi_to_client, next_token, zombie_purgatory,
                   pc, cur, batch>>

CgiOverdue(t) ==
    /\ pc = "poll" /\ t \in DOMAIN connections
    /\ connections[t].action = "Cgi" /\ ~connections[t].overdue
    /\ Update(t, [connections[t] EXCEPT !.overdue = TRUE])
    /\ UNCHANGED <<cgi_to_client, next_token, zombie_purgatory, proc, pc, cur, batch>>

ClientIdle(t) ==
    /\ pc = "poll" /\ t \in DOMAIN connections
    /\ ~connections[t].idle
    /\ connections[t].action = "Cgi" => connections[t].overdue
    /\ Update(t, [connections[t] EXCEPT !.idle = TRUE])
    /\ UNCHANGED <<cgi_to_client, next_token, zombie_purgatory, proc, pc, cur, batch>>

-----------------------------------------------------------------------------
HandleEvent == \E k \in batch : CgiEvent(k) \/ Accept(k) \/ ClientEvent(k) \/ StaleEvent(k)

HandleConnection ==
    \/ ReadNothing \/ ReadEof \/ ReadRequest \/ ReadBody
    \/ Write \/ NoWrite \/ PostWrite
    \/ KeepConnection \/ Terminate \/ ConnectionError

HandleCgiEvent ==
    ReadCgiOutput \/ WriteToCgiStdin \/ MonitorExit \/ MonitorAlive \/ CgiError

Loop == Poll \/ Timeouts \/ Reap \/ EndOfBatch \/ HandleEvent \/ HandleConnection \/ HandleCgiEvent

World ==
    \/ \E p \in Pid : ChildExit(p)
    \/ \E t \in Token : CgiOverdue(t) \/ ClientIdle(t)

Next == Loop \/ World

Spec == Init /\ [][Next]_vars

(* The loop never stops; a process that was sent SIGKILL exits; a script   *)
(* that keeps running becomes overdue while the loop waits.                *)
Fairness ==
    /\ WF_vars(Loop)
    /\ \A p \in Pid : WF_vars(proc[p] = "killed" /\ ChildExit(p))
    /\ \A t \in Token : SF_vars(CgiOverdue(t))

FairSpec == Spec /\ Fairness

-----------------------------------------------------------------------------
(* Properties.                                                             *)

Places == {"poll", "timeouts", "reap", "events", "read", "write", "post",
           "lifecycle", "cgi_read", "cgi_write", "monitor"}

(* The type invariant of the loop's state.                                 *)
TypeOK ==
    /\ DOMAIN connections \subseteq Token
    /\ connections \in [DOMAIN connections -> Connection]
    /\ DOMAIN cgi_to_client \subseteq Token
    /\ cgi_to_client \in [DOMAIN cgi_to_client -> Token]
    /\ next_token \in Nat
    /\ zombie_purgatory \subseteq Pid
    /\ proc \in [Pid -> ProcState]
    /\ pc \in Places
    /\ cur \in Token \cup {NoToken}
    /\ batch \subseteq Token

(* An event's token names one thing: run() looks a token up in             *)
(* cgi_to_client, then among the listeners, then among the connections,    *)
(* and neither lookup may shadow a later one.                              *)
TokensDisjoint ==
    /\ DOMAIN cgi_to_client \cap (Listeners \cup DOMAIN connections) = {}
    /\ Listeners \cap DOMAIN connections = {}

(* While a connection runs a script, the events of both of the script's    *)
(* streams are routed to that connection: a missing entry would leave the  *)
(* child unmonitored, a wrong one would mix two clients' answers.          *)
CgiEventsReachOwner ==
    \A t \in DOMAIN connections :
        connections[t].action = "Cgi" =>
            \A k \in {connections[t].out_stream, connections[t].out_stream + 1} :
                k \in DOMAIN cgi_to_client /\ cgi_to_client[k] = t

Holders(p) == {t \in DOMAIN connections : connections[t].child = p}

(* A child has at most one owner, a connection or the purgatory, and its   *)
(* owner is still owed its exit status: no child is waited for twice, none *)
(* that a connection holds has been killed, none in the purgatory has not. *)
ChildOwnedOnce ==
    \A p \in Pid :
        /\ \A t, u \in Holders(p) : t = u
        /\ Holders(p) # {} => proc[p] \in {"running", "zombie"}
        /\ p \in zombie_purgatory => proc[p] \in {"killed", "zombie"} /\ Holders(p) = {}

(* No child is forgotten: one that was spawned and not reaped is held by a *)
(* connection or waits in the purgatory (terminate_connection's doc: "Moves *)
(* un-reaped processes to purgatory to prevent zombies").                  *)
ChildrenAccounted ==
    \A p \in Pid :
        proc[p] \in {"running", "killed", "zombie"} =>
            p \in zombie_purgatory \/ Holders(p) # {}

(* Tokens are never reused: what a step adds to the maps is new, so an     *)
(* event collected for something that is gone reaches nothing else; and an *)
(* entry of cgi_to_client never changes its client.                        *)
TokensNeverReused ==
    [][ /\ \A t \in (DOMAIN connections' \cup DOMAIN cgi_to_client')
                     \ (DOMAIN connections \cup DOMAIN cgi_to_client) :
              next_token <= t /\ t < next_token'
        /\ \A k \in DOMAIN cgi_to_client \cap DOMAIN cgi_to_client' :
              cgi_to_client'[k] = cgi_to_client[k] ]_vars

(* A connection that is closing never reopens and starts nothing: the read *)
(* and post-write paths overwrite conn.closed with a request's verdict, so *)
(* this rests on their guards.                                             *)
ClosedIsFinal ==
    [][ \A t \in DOMAIN connections \cap DOMAIN connections' :
          connections[t].closed =>
              /\ connections'[t].closed
              /\ connections'[t].child \in {connections[t].child, NoPid} ]_vars

-----------------------------------------------------------------------------
(* The children as ChildReaper sees them; "lost" is no phase of its.       *)
ChildPhase ==
    [p \in Pid |->
        IF proc[p] \in {"unborn", "reaped"} THEN proc[p]
        ELSE IF p \in zombie_purgatory THEN "doomed"
        ELSE IF Holders(p) # {} THEN "held" ELSE "lost"]

Reaper == INSTANCE ChildReaper WITH child <- ChildPhase

(* The loop implements ChildReaper: accept, read, write, the CGI streams,  *)
(* the sweeps and terminate_connection hand a child over exactly once.     *)
ReapsChildren == Reaper!Spec

(* Every script ends: it exits and is reaped, or TIMEOUT_CGI kills it and  *)
(* the sweeps reap it.                                                     *)
ScriptsEnd == Reaper!AllReaped
=============================================================================
