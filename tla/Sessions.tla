------------------------------ MODULE Sessions ------------------------------
(***************************************************************************)
(* Sessions: the store and its expiry (src/utils/session.rs), what a       *)
(* request does to it (mange_session_store, called by setup_action), what  *)
(* scripts read and write in it (build_cgi_env, read_cgi_output,           *)
(* parse_cgi_headers in src/cgi.rs), the sweep (src/timeouts.rs), and the  *)
(* browsers that keep the cookie.                                          *)
(*                                                                         *)
(* A browser may have several connections, and on each sends a request     *)
(* when the last is answered.  A session holds one datum, the browser      *)
(* whose script wrote it; a script's output is its head.  Time is the age  *)
(* of each session, counted up to the first age at which it is expired.    *)
(***************************************************************************)
EXTENDS Integers

CONSTANTS
    Browser, Connection,
    Owner,      \* the browser of a connection
    SessionId,  \* what generate_session_id may return: the bound on sessions
    Ttl,        \* SessionStore.ttl, in ticks
    CleanUp,    \* CLEAN_UP, in ticks
    None

ASSUME OwnerAssumption == Owner \in [Connection -> Browser]
ASSUME NoneAssumption == None \notin Browser \cup SessionId
ASSUME TimesAssumption == Ttl \in Nat /\ CleanUp \in Nat

VARIABLES
    age,       \* of every session made so far, since it was made
    sessions,  \* the store: id -> datum
    since,     \* last_cleanup.elapsed()
    cookie,    \* what each browser has been told last, unless it forgot
    conn       \* the connections

vars == <<age, sessions, since, cookie, conn>>

Datum == Browser \cup {None}

(* phase: a script runs, the answer to a page or the output of a script is *)
(* in write_buffer, or is lost; presented: the cookie of the request;      *)
(* response: the Set-Cookie of conn.response; out: that of the answer in   *)
(* write_buffer; env: what the script was given.                            *)
NewConnection ==
    [phase |-> "idle", session_id |-> None, presented |-> None,
     response |-> None, out |-> None, env |-> None]

Init ==
    /\ age = [i \in {} |-> 0]
    /\ sessions = [i \in {} |-> None]
    /\ since = 0
    /\ cookie = [b \in Browser |-> None]
    /\ conn = [c \in Connection |-> NewConnection]

-----------------------------------------------------------------------------
(* The store.                                                              *)

(* is_expired; mutant: a session lives one second less than its cookie.    *)
Expired_Early(id) == age[id] >= Ttl
Expired(id) == age[id] > Ttl

(* generate_session_id, from the clock: never the same twice.              *)
(* Mutant: an id that the store does not hold.                             *)
NewId_Free == CHOOSE id \in SessionId : id \notin DOMAIN sessions
NewId == CHOOSE id \in SessionId : id \notin DOMAIN age

With(f, i, value) == [j \in DOMAIN f \cup {i} |-> IF j = i THEN value ELSE f[j]]
Without(f, I) == [j \in DOMAIN f \ I |-> f[j]]

(* The session the cookie names, if it may still be used.                  *)
Known(id) == id \in DOMAIN sessions /\ ~Expired(id)

(* A new session is the connection's and is told in conn.response.         *)
(* Mutant: it is told, and the connection keeps the one it had.            *)
Adopted_Told(k, id) == [k EXCEPT !.response = id]
Adopted(k, id) == [k EXCEPT !.session_id = id, !.response = id]

(* mange_session_store: what the cookie of a request on c makes of the     *)
(* connection, the store and the ages.                                     *)
Managed(c) ==
    LET id == cookie[Owner[c]]
        k  == [conn[c] EXCEPT !.presented = id]
    IN  IF Known(id) THEN [k EXCEPT !.session_id = id] ELSE Adopted(k, NewId)

ManageSessionStore(c) ==
    LET id == cookie[Owner[c]] IN
    \/ Known(id) /\ UNCHANGED <<age, sessions>>
    \/ /\ ~Known(id) /\ DOMAIN age # SessionId
       /\ age' = With(age, NewId, 0)
       /\ sessions' = With(Without(sessions, {id}), NewId, None)

-----------------------------------------------------------------------------
(* What the server does for a connection.                                  *)

(* An answer the server makes itself: conn.response, with its headers.     *)
Answered(k, phase) == [k EXCEPT !.phase = phase, !.out = k.response]

(* A request for a page, an upload, a removal, or one that is refused once *)
(* its head is read.                                                       *)
RequestPage(c) ==
    /\ conn[c].phase = "idle"
    /\ ManageSessionStore(c)
    /\ conn' = [conn EXCEPT ![c] = Answered(Managed(c), "page")]
    /\ UNCHANGED <<since, cookie>>

(* A request for a script: build_cgi_env gives it the session's data.      *)
RequestScript(c) ==
    /\ conn[c].phase = "idle"
    /\ ManageSessionStore(c)
    /\ conn' = [conn EXCEPT ![c] =
          [Managed(c) EXCEPT !.phase = "script",
                             !.env = sessions'[Managed(c).session_id]]]
    /\ UNCHANGED <<since, cookie>>

(* The script's head comes: with its session, X-Session-Update writes to   *)
(* it and an answer is made from nothing but the script's headers; without *)
(* one, what the script wrote is dropped.                                  *)
ScriptOutput(c) ==
    /\ conn[c].phase = "script"
    /\ LET id == conn[c].session_id IN
       IF id \in DOMAIN sessions
       THEN /\ \E datum \in {sessions[id], Owner[c]} :
                  sessions' = With(sessions, id, datum)
            /\ conn' = [conn EXCEPT ![c].phase = "output"]
       ELSE /\ conn' = [conn EXCEPT ![c].phase = "lost"]
            /\ UNCHANGED sessions
    /\ UNCHANGED <<age, since, cookie>>

(* The script fails before its head (505) or runs for too long (504): the  *)
(* server answers.                                                         *)
ScriptError(c) ==
    /\ conn[c].phase = "script"
    /\ conn' = [conn EXCEPT ![c] = Answered(@, "output")]
    /\ UNCHANGED <<age, sessions, since, cookie>>

(* handle_post_write_update: what write_buffer held is with the browser,   *)
(* and conn.response is new.  Mutant: it is the old one.                   *)
Drained_Stale(k) ==
    [NewConnection EXCEPT !.session_id = k.session_id, !.response = k.response]
Drained(k) == [NewConnection EXCEPT !.session_id = k.session_id]

(* The answer is written (one that closes the connection: and then Drop).  *)
Write(c) ==
    /\ conn[c].phase \in {"page", "output"}
    /\ cookie' = IF conn[c].out = None THEN cookie
                 ELSE [cookie EXCEPT ![Owner[c]] = conn[c].out]
    /\ conn' = [conn EXCEPT ![c] = Drained(@)]
    /\ UNCHANGED <<age, sessions, since>>

(* A write event while the script runs finds write_buffer empty, and makes *)
(* conn.response new all the same.                                         *)
WriteNothing(c) ==
    /\ conn[c].phase = "script"
    /\ conn' = [conn EXCEPT ![c].response = None]
    /\ UNCHANGED <<age, sessions, since, cookie>>

(* The connection ends, at either end, and the browser opens another.      *)
Drop(c) ==
    /\ conn' = [conn EXCEPT ![c] = NewConnection]
    /\ UNCHANGED <<age, sessions, since, cookie>>

-----------------------------------------------------------------------------
(* The browsers, the clock and the sweep.                                  *)

(* A browser drops the cookie: its Max-Age, or its user.                   *)
Forget(b) ==
    /\ cookie' = [cookie EXCEPT ![b] = None]
    /\ UNCHANGED <<age, sessions, since, conn>>

(* A second passes; ages are counted no further than they matter.          *)
Tick ==
    /\ age' = [i \in DOMAIN age |-> IF age[i] > Ttl THEN age[i] ELSE age[i] + 1]
    /\ since' = IF since > CleanUp THEN since ELSE since + 1
    /\ UNCHANGED <<sessions, cookie, conn>>

(* cleanup, called by process when the last is more than CLEAN_UP ago.     *)
(* Mutants: a session that a connection still has is left alone; retain    *)
(* with its condition the wrong way round.                                 *)
Swept_Unused ==
    {id \in DOMAIN sessions : Expired(id) /\ \A c \in Connection : conn[c].session_id # id}
Swept_Fresh == {id \in DOMAIN sessions : ~Expired(id)}
Swept == {id \in DOMAIN sessions : Expired(id)}

Sweep ==
    /\ since > CleanUp
    /\ sessions' = Without(sessions, Swept)
    /\ since' = 0
    /\ UNCHANGED <<age, cookie, conn>>

Next ==
    \/ \E c \in Connection :
          \/ RequestPage(c) \/ RequestScript(c)
          \/ ScriptOutput(c) \/ ScriptError(c)
          \/ Write(c) \/ WriteNothing(c) \/ Drop(c)
    \/ \E b \in Browser : Forget(b)
    \/ Tick
    \/ Sweep

(* Time passes, and the event loop calls process after every poll.         *)
Spec == Init /\ [][Next]_vars /\ WF_vars(Tick) /\ WF_vars(Sweep)

-----------------------------------------------------------------------------
Told == DOMAIN age \cup {None}

(* The state is of the kind declared, and a request that is being served   *)
(* has a session that was made (mange_session_store always sets one).      *)
TypeOK ==
    /\ DOMAIN age \subseteq SessionId
    /\ age \in [DOMAIN age -> 0 .. Ttl + 1]
    /\ DOMAIN sessions \subseteq DOMAIN age
    /\ sessions \in [DOMAIN sessions -> Datum]
    /\ since \in 0 .. CleanUp + 1
    /\ cookie \in [Browser -> Told]
    /\ conn \in [Connection ->
          [phase : {"idle", "script", "page", "output", "lost"}, env : Datum,
           session_id : Told, presented : Told, response : Told, out : Told]]
    /\ \A c \in Connection : conn[c].phase # "idle" => conn[c].session_id # None

(* The ids a browser has seen or is about to see.                          *)
Seen(b) ==
    {id \in SessionId :
        \/ id = cookie[b]
        \/ \E c \in Connection : /\ Owner[c] = b
                                /\ id \in {conn[c].session_id, conn[c].response, conn[c].out}}

(* Sessions of different browsers stay apart, whoever expired, was swept   *)
(* or came back with an old cookie: no id is known to two browsers, and    *)
(* what a script reads was written for the same browser.                   *)
SessionsApart ==
    /\ \A b, d \in Browser : b # d => Seen(b) \cap Seen(d) = {}
    /\ \A c \in Connection : conn[c].env \in {None, Owner[c]}
    /\ \A b \in Browser : \A id \in Seen(b) \cap DOMAIN sessions : sessions[id] \in {None, b}

(* A session and its data live for as long as its cookie says: nothing     *)
(* removes one of age Ttl or less, its datum is never taken back, and a    *)
(* request is never given an older one.                                    *)
SessionLifetime ==
    [][/\ \A id \in DOMAIN sessions :
             age[id] <= Ttl => /\ id \in DOMAIN sessions'
                               /\ sessions[id] # None => sessions'[id] # None
       /\ \A c \in Connection : conn'[c].session_id \notin {conn[c].session_id, None}
             => age'[conn'[c].session_id] <= Ttl]_vars

(* A page leaves the browser with the session its request was served with: *)
(* it named it or is told it; and no answer of any kind tells another, that *)
(* an earlier request left in conn.response.                               *)
ToldItsSession ==
    \A c \in Connection :
        /\ conn[c].phase = "page" => conn[c].session_id \in {conn[c].presented, conn[c].out}
        /\ conn[c].phase \in {"page", "output"} => conn[c].out \in {None, conn[c].session_id}

(* What a script writes is dropped only if the session has outlived its    *)
(* time, not for anything that happens on other connections.               *)
LostOnlyByExpiry ==
    \A c \in Connection : conn[c].phase = "lost" => age[conn[c].session_id] > Ttl

(* Every session ends: the sweep removes what no request comes back for.   *)
ExpiredSwept ==
    \A id \in SessionId : (id \in DOMAIN sessions) ~> (id \notin DOMAIN sessions)
=============================================================================
