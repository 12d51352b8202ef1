---------------------------- MODULE Server_proof ----------------------------
(***************************************************************************)
(* Proofs about Server.  The inductive invariant IInv adds to the checked  *)
(* invariants where the loop is (PlaceInv), that tokens grow (TokenInv)    *)
(* and that the map knows every stream of every script (RouteInv).         *)
(***************************************************************************)
EXTENDS Server, TLAPS

AtConnection == {"read", "write", "post", "lifecycle"}
AtStream == {"cgi_read", "cgi_write", "monitor"}

(* Inside a handler the connection it serves is still there: each handler  *)
(* removes it, if at all, as its last act.                                 *)
PlaceInv ==
    /\ pc \in AtConnection => cur \in DOMAIN connections
    /\ pc \in AtStream => cur \in DOMAIN cgi_to_client /\ Client \in DOMAIN connections

(* Every token in use was handed out after the listeners' and before the   *)
(* next one; no client's token is a stream's.                              *)
TokenInv ==
    /\ Ports <= next_token /\ next_token <= MaxToken + 1
    /\ \A t \in DOMAIN connections : Ports <= t /\ t < next_token
    /\ \A k \in DOMAIN cgi_to_client : Ports <= k /\ k < next_token
    /\ \A k \in DOMAIN cgi_to_client : k \notin DOMAIN connections

Routed(k, t) == k \in DOMAIN cgi_to_client /\ cgi_to_client[k] = t

(* What a connection's script fields mean to the map: both streams of a    *)
(* running script lead to it, and so does every token it remembers.        *)
RouteInv ==
    \A t \in DOMAIN connections :
        LET c == connections[t] IN
        /\ c.action = "Cgi" => /\ c.out_stream \in Token
                               /\ Routed(c.out_stream, t)
                               /\ Routed(c.out_stream + 1, t)
        /\ c.cgi_out_token # NoToken => Routed(c.cgi_out_token, t)
        /\ c.cgi_in_token # NoToken => Routed(c.cgi_in_token, t)

(* A connection holds a child exactly while its action is a script.        *)
HoldInv ==
    \A t \in DOMAIN connections :
        (connections[t].action = "Cgi") <=> (connections[t].child \in Pid)

DataType ==
    /\ DOMAIN connections \subseteq Token
    /\ connections \in [DOMAIN connections -> Connection]
    /\ DOMAIN cgi_to_client \subseteq Token
    /\ cgi_to_client \in [DOMAIN cgi_to_client -> Token]
    /\ next_token \in Nat
    /\ zombie_purgatory \subseteq Pid
    /\ proc \in [Pid -> ProcState]

LoopType == pc \in Places /\ cur \in Token \cup {NoToken} /\ batch \subseteq Token

DataInv == DataType /\ TokenInv /\ RouteInv /\ HoldInv /\ ChildOwnedOnce

IInv == DataInv /\ LoopType /\ PlaceInv

-----------------------------------------------------------------------------
(* A step of a handler that touches one connection, keeps the maps, and    *)
(* either keeps the connection's script or lets go of it.                  *)

SameOrGone(c, d) ==
    /\ \/ d.action = c.action /\ d.child = c.child /\ d.out_stream = c.out_stream
       \/ d.action # "Cgi" /\ d.child = NoPid /\ (c.action = "Cgi" => Overlap)
    /\ d.cgi_out_token \in {c.cgi_out_token, NoToken}
    /\ d.cgi_in_token \in {c.cgi_in_token, NoToken}

Local(t) ==
    /\ t \in DOMAIN connections
    /\ \E d \in Connection : SameOrGone(connections[t], d) /\ Update(t, d)
    /\ UNCHANGED <<cgi_to_client, next_token, zombie_purgatory, proc>>

(* Each step of a handler that spawns nothing and reaps nothing is Local.  *)
LEMMA LetGo ==
    ASSUME NEW c \in Connection, NEW a \in {"None", "Other"}, c.action = "Cgi" => Overlap
    PROVE  WithAction(c, a) \in Connection /\ SameOrGone(c, WithAction(c, a))
  BY DEF WithAction, Connection, SameOrGone

LEMMA RequestIsLocal ==
    ASSUME DataType, NEW t \in DOMAIN connections, NEW next, LocalRequest(t, next)
    PROVE  Local(t) \/ Quiet
  <1> DEFINE c == connections[t]
  <1>1. c \in Connection
    BY DEF DataType
  <1>2. CASE Respond(t)
    <2>1. PICK err \in BOOLEAN, done \in BOOLEAN :
             Update(t, [c EXCEPT !.write_buffer = TRUE, !.closed = err, !.body_done = done])
      BY <1>2 DEF Respond
    <2> DEFINE d == [c EXCEPT !.write_buffer = TRUE, !.closed = err, !.body_done = done]
    <2>2. d \in Connection /\ SameOrGone(c, d)
      BY <1>1 DEF Connection, SameOrGone
    <2> QED  BY <2>1, <2>2 DEF Local, LocalRequest
  <1>3. CASE BeginOther(t)
    <2> DEFINE e == WithAction(c, "Other")
    <2>1. PICK out \in {c.write_buffer, TRUE}, done \in BOOLEAN :
             Update(t, [e EXCEPT !.write_buffer = out, !.body_done = done])
      BY <1>3 DEF BeginOther
    <2> DEFINE d == [e EXCEPT !.write_buffer = out, !.body_done = done]
    <2>2. e \in Connection /\ SameOrGone(c, e)
      BY <1>1, <1>3, LetGo DEF BeginOther, MayReplace
    <2>3. out \in BOOLEAN
      BY <1>1 DEF Connection
    <2> HIDE DEF c, e
    <2>4. d \in Connection /\ SameOrGone(c, d)
      BY <2>2, <2>3 DEF Connection, SameOrGone
    <2> QED  BY <2>1, <2>4 DEF Local, LocalRequest, c
  <1> QED  BY <1>2, <1>3 DEF LocalRequest, Quiet

LEMMA ReadIsLocal ==
    ASSUME IInv, ReadEof \/ ReadBody
    PROVE  Local(cur)
  <1> DEFINE c == connections[cur]
  <1>1. cur \in DOMAIN connections /\ c \in Connection
    BY DEF ReadEof, ReadBody, IInv, DataInv, DataType, PlaceInv, AtConnection
  <1>2. CASE ReadEof
    <2> DEFINE d == [c EXCEPT !.closed = TRUE]
    <2>1. d \in Connection /\ SameOrGone(c, d)
      BY <1>1 DEF Connection, SameOrGone
    <2> QED  BY <1>1, <1>2, <2>1 DEF ReadEof, Local, KeepAllButConnections
  <1>3. CASE ReadBody
    <2>1. PICK done \in {c.body_done, TRUE} :
             Update(cur, [c EXCEPT !.cgi_buffer = c.cgi_buffer \/ c.action = "Cgi",
                                   !.body_done = done])
      BY <1>3 DEF ReadBody, FeedBody
    <2> DEFINE d == [c EXCEPT !.cgi_buffer = c.cgi_buffer \/ c.action = "Cgi",
                              !.body_done = done]
    <2>2. d \in Connection /\ SameOrGone(c, d)
      BY <1>1 DEF Connection, SameOrGone
    <2> QED  BY <1>1, <1>3, <2>1, <2>2 DEF ReadBody, Local, KeepAllButConnections
  <1> QED  BY <1>2, <1>3

LEMMA WriteIsLocal ==
    ASSUME IInv, Write
    PROVE  Local(cur)
  <1> DEFINE c == connections[cur]
  <1>1. cur \in DOMAIN connections /\ c \in Connection
    BY DEF Write, IInv, DataInv, DataType, PlaceInv, AtConnection
  <1>2. PICK e \in Refilled(c) : \E left \in {e.write_buffer, FALSE}, fail \in {e.closed, TRUE} :
           Update(cur, [e EXCEPT !.write_buffer = left, !.closed = fail])
    BY DEF Write
  <1>3. e \in Connection /\ SameOrGone(c, e)
    <2>1. \/ e \in {c, [c EXCEPT !.write_buffer = TRUE]}
          \/ e = WithAction(c, "None") /\ c.action = "Other"
      BY <1>2 DEF Refilled
    <2>2. [c EXCEPT !.write_buffer = TRUE] \in Connection
          /\ SameOrGone(c, [c EXCEPT !.write_buffer = TRUE])
      BY <1>1 DEF Connection, SameOrGone
    <2>3. SameOrGone(c, c)
      BY DEF SameOrGone
    <2> QED  BY <1>1, <2>1, <2>2, <2>3, LetGo
  <1>4. PICK left \in {e.write_buffer, FALSE}, fail \in {e.closed, TRUE} :
           Update(cur, [e EXCEPT !.write_buffer = left, !.closed = fail])
    BY <1>2
  <1> DEFINE d == [e EXCEPT !.write_buffer = left, !.closed = fail]
  <1>5. d \in Connection /\ SameOrGone(c, d)
    BY <1>3 DEF Connection, SameOrGone
  <1> QED  BY <1>1, <1>4, <1>5 DEF Write, Local, KeepAllButConnections

LEMMA StreamIsLocal ==
    ASSUME IInv, ReadCgiOutput \/ WriteToCgiStdin \/ CgiError
    PROVE  Local(Client) \/ Quiet
  <1> DEFINE c == connections[Client]
  <1>1. Client \in DOMAIN connections /\ c \in Connection
    BY DEF ReadCgiOutput, WriteToCgiStdin, CgiError, IInv, DataInv, DataType, PlaceInv, AtStream
  <1> DEFINE Possible(d) == d \in Connection /\ SameOrGone(c, d)
  <1>2. \/ UNCHANGED connections
        \/ \E d \in Connection : SameOrGone(c, d) /\ Update(Client, d)
    <2>1. CASE CgiData
      <3>1. Possible([c EXCEPT !.write_buffer = TRUE])
        BY <1>1 DEF Connection, SameOrGone
      <3> QED  BY <2>1, <3>1 DEF CgiData
    <2>2. CASE CgiFail \/ StdinFail
      <3>1. Possible([c EXCEPT !.closed = TRUE])
        BY <1>1 DEF Connection, SameOrGone
      <3> QED  BY <2>2, <3>1 DEF CgiFail, StdinFail
    <2>3. CASE CgiEof
      <3>1. PICK out \in {c.write_buffer, TRUE} :
               Update(Client, [c EXCEPT !.write_buffer = out, !.cgi_out_token = NoToken,
                                        !.cgi_in_token = NoToken])
        BY <2>3 DEF CgiEof
      <3>2. Possible([c EXCEPT !.write_buffer = out, !.cgi_out_token = NoToken,
                               !.cgi_in_token = NoToken])
        BY <1>1 DEF Connection, SameOrGone
      <3> QED  BY <3>1, <3>2
    <2>4. CASE StdinWrite
      <3>1. Possible([c EXCEPT !.cgi_buffer = FALSE])
        BY <1>1 DEF Connection, SameOrGone
      <3>2. Possible([c EXCEPT !.cgi_buffer = FALSE, !.in_stream = FALSE,
                               !.cgi_in_token = NoToken])
        BY <1>1 DEF Connection, SameOrGone
      <3> QED  BY <2>4, <3>1, <3>2 DEF StdinWrite
    <2>5. CASE CgiError
      <3>1. \A out \in {c.write_buffer, TRUE} :
               Possible([c EXCEPT !.write_buffer = out, !.closed = TRUE])
        BY <1>1 DEF Connection, SameOrGone
      <3>2. \A rest \in BOOLEAN : Possible([c EXCEPT !.cgi_buffer = rest, !.closed = TRUE])
        BY <1>1 DEF Connection, SameOrGone
      <3> QED  BY <2>5, <3>1, <3>2 DEF CgiError
    <2> QED
      BY <2>1, <2>2, <2>3, <2>4, <2>5 DEF ReadCgiOutput, WriteToCgiStdin
  <1> QED
    BY <1>1, <1>2 DEF Local, Quiet, KeepAllButConnections, ReadCgiOutput, WriteToCgiStdin, CgiError

LEMMA ClientEventIsLocal ==
    ASSUME IInv, NEW k, ClientEvent(k)
    PROVE  Local(k)
  <1> DEFINE c == connections[k]
  <1>1. c \in Connection
    BY DEF ClientEvent, IInv, DataInv, DataType
  <1>2. [c EXCEPT !.idle = FALSE] \in Connection /\ SameOrGone(c, [c EXCEPT !.idle = FALSE])
    BY <1>1 DEF Connection, SameOrGone
  <1> QED  BY <1>2 DEF ClientEvent, Local

LEMMA TimePassesIsLocal ==
    ASSUME IInv, NEW t, CgiOverdue(t) \/ ClientIdle(t)
    PROVE  Local(t)
  <1> DEFINE c == connections[t]
  <1>1. t \in DOMAIN connections /\ c \in Connection
    BY DEF CgiOverdue, ClientIdle, IInv, DataInv, DataType
  <1>2. /\ [c EXCEPT !.idle = TRUE] \in Connection
        /\ SameOrGone(c, [c EXCEPT !.idle = TRUE])
        /\ [c EXCEPT !.overdue = TRUE] \in Connection
        /\ SameOrGone(c, [c EXCEPT !.overdue = TRUE])
    BY <1>1 DEF Connection, SameOrGone
  <1> QED  BY <1>1, <1>2 DEF CgiOverdue, ClientIdle, Local

-----------------------------------------------------------------------------
(* Local steps preserve the invariant of the data.                         *)

LEMMA LocalKeeps ==
    ASSUME DataInv, NEW t, Local(t)
    PROVE  DataInv' /\ DOMAIN connections' = DOMAIN connections
  <1> USE SentinelAssumption
  <1>1. PICK d \in Connection : SameOrGone(connections[t], d) /\ Update(t, d)
    BY DEF Local
  <1>2. /\ t \in DOMAIN connections
        /\ DOMAIN connections' = DOMAIN connections
        /\ connections'[t] = d
        /\ \A u \in DOMAIN connections \ {t} : connections'[u] = connections[u]
        /\ UNCHANGED <<cgi_to_client, next_token, zombie_purgatory, proc>>
    BY <1>1 DEF Local, Update, DataInv, DataType
  <1>3. DataType'
    BY <1>1, <1>2 DEF DataInv, DataType, Update, Local
  <1>4. TokenInv'
    BY <1>2 DEF DataInv, TokenInv
  <1>5. RouteInv'
    BY <1>1, <1>2 DEF DataInv, RouteInv, SameOrGone, Routed
  <1>6. HoldInv'
    BY <1>1, <1>2 DEF DataInv, HoldInv, SameOrGone
  <1>7. ChildOwnedOnce'
    <2>1. \A p \in Pid : Holders(p)' \subseteq Holders(p)
      BY <1>1, <1>2 DEF DataInv, HoldInv, SameOrGone, Holders
    <2> QED  BY <1>2, <2>1 DEF DataInv, ChildOwnedOnce
  <1> QED  BY <1>2, <1>3, <1>4, <1>5, <1>6, <1>7 DEF DataInv

-----------------------------------------------------------------------------
(* The steps that accept, spawn, reap or remove preserve it too.           *)

LEMMA ReapKeeps ==
    ASSUME DataInv, Reap
    PROVE  DataInv'
  <1>1. DataType'
    BY DEF Reap, DataInv, DataType, ProcState
  <1>2. TokenInv' /\ RouteInv' /\ HoldInv'
    BY DEF Reap, DataInv, TokenInv, RouteInv, HoldInv, Routed
  <1>3. ChildOwnedOnce'
    BY DEF Reap, DataInv, DataType, ChildOwnedOnce, Holders
  <1> QED  BY <1>1, <1>2, <1>3 DEF DataInv

LEMMA ExitKeeps ==
    ASSUME DataInv, NEW p \in Pid, ChildExit(p)
    PROVE  DataInv'
  <1>1. DataType'
    BY DEF ChildExit, DataInv, DataType, ProcState
  <1>2. TokenInv' /\ RouteInv' /\ HoldInv'
    BY DEF ChildExit, DataInv, TokenInv, RouteInv, HoldInv, Routed
  <1>3. ChildOwnedOnce'
    BY DEF ChildExit, DataInv, DataType, ChildOwnedOnce, Holders
  <1> QED  BY <1>1, <1>2, <1>3 DEF DataInv

(* Removing a connection whose child, if any, is not handed over.          *)
LEMMA DropKeeps ==
    ASSUME DataInv, ConnectionError
    PROVE  DataInv'
  <1>1. /\ DOMAIN connections' = DOMAIN connections \ {cur}
        /\ \A t \in DOMAIN connections' : connections'[t] = connections[t]
        /\ connections' = [t \in DOMAIN connections' |-> connections'[t]]
        /\ UNCHANGED <<cgi_to_client, next_token, zombie_purgatory, proc>>
    BY DEF ConnectionError, Without, Restrict, KeepAllButConnections
  <1>2. DataType'
    BY <1>1 DEF DataInv, DataType
  <1>3. TokenInv' /\ RouteInv' /\ HoldInv'
    BY <1>1 DEF DataInv, TokenInv, RouteInv, HoldInv, Routed
  <1>4. ChildOwnedOnce'
    BY <1>1 DEF DataInv, ChildOwnedOnce, Holders
  <1> QED  BY <1>2, <1>3, <1>4 DEF DataInv

LEMMA AcceptKeeps ==
    ASSUME DataInv, NEW k, Accept(k)
    PROVE  DataInv'
  <1> USE BoundsAssumption, SentinelAssumption
  <1>1. PICK n \in 0 .. MaxClients, burnt \in {0, 1} :
           LET fresh == next_token .. next_token + n - 1 IN
           /\ next_token + n + burnt <= MaxToken + 1
           /\ next_token' = next_token + n + burnt
           /\ connections' = [t \in DOMAIN connections \cup fresh |->
                                IF t \in fresh THEN NewConnection ELSE connections[t]]
    BY DEF Accept, Fresh
  <1> DEFINE fresh == next_token .. next_token + n - 1
  <1>2. NewConnection \in Connection
    BY DEF NewConnection, Connection
  <1>3. UNCHANGED <<cgi_to_client, zombie_purgatory, proc>>
    BY DEF Accept, Fresh
  <1>4. /\ DOMAIN connections' = DOMAIN connections \cup fresh
        /\ DOMAIN connections \cap fresh = {}
        /\ \A t \in fresh : connections'[t] = NewConnection /\ t \in Token
        /\ \A t \in DOMAIN connections : connections'[t] = connections[t]
    BY <1>1 DEF DataInv, DataType, TokenInv, Token
  <1>5. DataType'
    <2>1. connections' \in [DOMAIN connections' -> Connection]
      BY <1>1, <1>2, <1>4 DEF DataInv, DataType
    <2>2. next_token' \in Nat
      BY <1>1 DEF DataInv, DataType
    <2> QED  BY <1>3, <1>4, <2>1, <2>2 DEF DataInv, DataType
  <1>6. TokenInv'
    <2>1. next_token <= next_token' /\ next_token' <= MaxToken + 1
      BY <1>1 DEF DataInv, DataType
    <2>2. \A t \in fresh : next_token <= t /\ t < next_token' /\ t \in Int
      BY <1>1 DEF DataInv, DataType
    <2> HIDE DEF fresh
    <2>3. \A t \in DOMAIN connections \cup DOMAIN cgi_to_client : t \in Int
      BY DEF DataInv, DataType, Token
    <2>4. next_token \in Nat /\ next_token' \in Nat
      BY <1>5 DEF DataInv, DataType
    <2> QED  BY <1>3, <1>4, <2>1, <2>2, <2>3, <2>4 DEF DataInv, TokenInv
  <1>7. RouteInv'
    BY <1>3, <1>4 DEF DataInv, RouteInv, Routed, NewConnection
  <1>8. HoldInv'
    BY <1>4 DEF DataInv, HoldInv, NewConnection
  <1>9. ChildOwnedOnce'
    <2>1. \A p \in Pid : Holders(p)' = Holders(p)
      BY <1>4 DEF Holders, NewConnection
    <2> QED  BY <1>3, <2>1 DEF DataInv, ChildOwnedOnce
  <1> QED  BY <1>5, <1>6, <1>7, <1>8, <1>9 DEF DataInv

(* A spawn: the two tokens are fresh, so no other route is disturbed, and  *)
(* the child is new, so nobody owned it before.                            *)
LEMMA SpawnKeeps ==
    ASSUME DataInv, NEW t \in DOMAIN connections, NEW next, CgiRequest(t, next)
    PROVE  DataInv' /\ DOMAIN connections' = DOMAIN connections
  <1> USE BoundsAssumption, SentinelAssumption
  <1> DEFINE c == connections[t]
             o == next_token
             i == next_token + 1
             e == connections'[t]
  <1>1. c \in Connection
    BY DEF DataInv, DataType
  <1>2. PICK p \in Pid : /\ proc[p] = "unborn"
                         /\ proc' = [proc EXCEPT ![p] = "running"]
                         /\ BeginCgi(t, p)
    BY DEF CgiRequest, ScriptTokens
  <1>3. /\ o \in Token /\ i \in Token /\ o # NoToken /\ i # NoToken
        /\ next_token' = next_token + 2
        /\ next_token' <= MaxToken + 1
        /\ cgi_to_client' = [k \in DOMAIN cgi_to_client \cup {o, i} |->
                               IF k \in {o, i} THEN t ELSE cgi_to_client[k]]
        /\ zombie_purgatory' = zombie_purgatory
    BY DEF CgiRequest, ScriptTokens, DataInv, DataType, TokenInv, Token
  <1>4. \E d \in Connection :
           /\ Update(t, d)
           /\ d.action = "Cgi" /\ d.child = p /\ d.out_stream = o
           /\ d.cgi_out_token = o /\ d.cgi_in_token = i
    <2>1. PICK done \in BOOLEAN, in \in {c.cgi_buffer, TRUE},
               err \in BOOLEAN, out \in {c.write_buffer, TRUE} :
             Update(t, [c EXCEPT
                !.action = "Cgi", !.child = p, !.out_stream = next_token,
                !.in_stream = TRUE, !.overdue = FALSE,
                !.cgi_out_token = next_token, !.cgi_in_token = next_token + 1,
                !.body_done = done, !.cgi_buffer = in,
                !.closed = err, !.write_buffer = out])
      BY <1>2, ZenonT(60) DEF BeginCgi
    <2> DEFINE d == [c EXCEPT
                !.action = "Cgi", !.child = p, !.out_stream = o,
                !.in_stream = TRUE, !.overdue = FALSE,
                !.cgi_out_token = o, !.cgi_in_token = i,
                !.body_done = done, !.cgi_buffer = in,
                !.closed = err, !.write_buffer = out]
    <2>2. in \in BOOLEAN /\ out \in BOOLEAN
      BY <1>1 DEF Connection
    <2>3. d \in Connection
      BY <1>1, <1>3, <2>2, ZenonT(60) DEF Connection
    <2>4. /\ d.action = "Cgi" /\ d.child = p /\ d.out_stream = o
          /\ d.cgi_out_token = o /\ d.cgi_in_token = i
      BY <1>1 DEF Connection
    <2> QED  BY <2>1, <2>3, <2>4
  <1>5. /\ DOMAIN connections' = DOMAIN connections
        /\ connections' \in [DOMAIN connections' -> Connection]
        /\ e.action = "Cgi" /\ e.child = p /\ e.out_stream = o
        /\ e.cgi_out_token = o /\ e.cgi_in_token = i
        /\ \A u \in DOMAIN connections \ {t} : connections'[u] = connections[u]
    BY <1>4 DEF Update, DataInv, DataType
  <1> HIDE DEF c, e
  <1>6. DataType'
    <2>1. t \in Token
      BY DEF DataInv, DataType
    <2>2. cgi_to_client' \in [DOMAIN cgi_to_client' -> Token] /\ DOMAIN cgi_to_client' \subseteq Token
      BY <1>3, <2>1 DEF DataInv, DataType
    <2>3. next_token' \in Nat
      BY <1>3 DEF DataInv, DataType
    <2>4. proc' \in [Pid -> ProcState]
      BY <1>2 DEF DataInv, DataType, ProcState
    <2> QED  BY <1>3, <1>5, <2>2, <2>3, <2>4 DEF DataInv, DataType
  <1>7. TokenInv'
    <2>1. \A k \in DOMAIN cgi_to_client' : k \in Int
      BY <1>6 DEF DataType, Token
    <2> QED  BY <1>3, <1>5, <2>1 DEF DataInv, DataType, TokenInv, Token
  <1>8. RouteInv'
    <2>1. \A k \in DOMAIN cgi_to_client : k # o /\ k # i
      BY DEF DataInv, DataType, TokenInv, Token
    <2> DEFINE After(k, u) == k \in DOMAIN cgi_to_client' /\ cgi_to_client'[k] = u
    <2>2. \A k, u : Routed(k, u) => After(k, u)
      BY <1>3, <2>1 DEF Routed
    <2>3. After(o, t) /\ After(i, t)
      BY <1>3
    <2> HIDE DEF After
    <2>4. ASSUME NEW u \in DOMAIN connections'
          PROVE  LET x == connections'[u] IN
                 /\ x.action = "Cgi" => /\ x.out_stream \in Token
                                        /\ After(x.out_stream, u)
                                        /\ After(x.out_stream + 1, u)
                 /\ x.cgi_out_token # NoToken => After(x.cgi_out_token, u)
                 /\ x.cgi_in_token # NoToken => After(x.cgi_in_token, u)
      <3>1. CASE u = t
        BY <1>3, <1>5, <2>3, <3>1 DEF e
      <3>2. CASE u # t
        BY <1>5, <2>2, <3>2 DEF DataInv, RouteInv
      <3> QED  BY <3>1, <3>2
    <2> QED  BY <2>4 DEF RouteInv, Routed, After
  <1>9. HoldInv'
    BY <1>5 DEF DataInv, HoldInv, e
  <1>10. ChildOwnedOnce'
    <2>1. Holders(p) = {} /\ p \notin zombie_purgatory
      BY <1>2 DEF DataInv, ChildOwnedOnce
    <2>2. Holders(p)' = {t}
      BY <1>5, <2>1 DEF Holders, e
    <2>3. \A q \in Pid \ {p} : Holders(q)' \subseteq Holders(q) /\ proc'[q] = proc[q]
      BY <1>2, <1>5 DEF Holders, e, DataInv, DataType
    <2>4. proc'[p] = "running"
      BY <1>2 DEF DataInv, DataType
    <2> QED  BY <1>3, <2>1, <2>2, <2>3, <2>4 DEF DataInv, ChildOwnedOnce
  <1> QED  BY <1>5, <1>6, <1>7, <1>8, <1>9, <1>10 DEF DataInv

(* Killing children: each is reaped on the spot or waits in the purgatory. *)
LEMMA KillEffect ==
    ASSUME DataType, NEW S \in SUBSET Pid, NEW dead, KillAndTry(S, dead)
    PROVE  /\ proc' \in [Pid -> ProcState]
           /\ zombie_purgatory' \subseteq Pid
           /\ \A p \in Pid \ S : /\ proc'[p] = proc[p]
                                 /\ p \in zombie_purgatory' <=> p \in zombie_purgatory
           /\ \A p \in S : \/ proc'[p] = "killed" /\ p \in zombie_purgatory'
                           \/ proc'[p] = "reaped"
                              /\ (p \in zombie_purgatory' => p \in zombie_purgatory)
  BY DEF KillAndTry, DataType, ProcState

LEMMA TerminateKeeps ==
    ASSUME DataInv, cur \in DOMAIN connections, Terminate
    PROVE  DataInv'
  <1> USE SentinelAssumption
  <1> DEFINE c == connections[cur]
             K == {c.cgi_out_token, c.cgi_in_token}
  <1>1. /\ DOMAIN connections' = DOMAIN connections \ {cur}
        /\ \A t \in DOMAIN connections' : connections'[t] = connections[t]
        /\ connections' = [t \in DOMAIN connections' |-> connections'[t]]
        /\ next_token' = next_token
    BY DEF Terminate, Without, Restrict
  <1>2. /\ DOMAIN cgi_to_client' \subseteq DOMAIN cgi_to_client
        /\ DOMAIN cgi_to_client \ K \subseteq DOMAIN cgi_to_client'
        /\ \A k \in DOMAIN cgi_to_client' : cgi_to_client'[k] = cgi_to_client[k]
        /\ cgi_to_client' \in [DOMAIN cgi_to_client' -> Token]
    BY DEF Terminate, Without, Restrict, DataInv, DataType
  <1>3. \A k \in K : k = NoToken \/ Routed(k, cur)
    BY DEF DataInv, RouteInv
  <1>4. DataType' /\ ChildOwnedOnce'
    <2>1. CASE c.action = "Cgi"
      <3>1. PICK q \in Pid : q = c.child
        BY <2>1 DEF DataInv, HoldInv
      <3>2. PICK dead : KillAndTry({q}, dead)
        BY <2>1, <3>1 DEF Terminate
      <3>3. \A p \in Pid : Holders(p)' = Holders(p) \ {cur}
        BY <1>1 DEF Holders
      <3>4. Holders(q)' = {} /\ q \notin zombie_purgatory
        <4>1. cur \in Holders(q)
          BY <3>1 DEF Holders
        <4>2. \A t \in Holders(q) : t = cur
          BY <4>1 DEF DataInv, ChildOwnedOnce
        <4> QED  BY <3>3, <4>1, <4>2 DEF DataInv, ChildOwnedOnce
      <3>5. {q} \in SUBSET Pid /\ DataType
        BY DEF DataInv
      <3>6. /\ proc' \in [Pid -> ProcState]
            /\ zombie_purgatory' \subseteq Pid
            /\ \A p \in Pid \ {q} : /\ proc'[p] = proc[p]
                                    /\ p \in zombie_purgatory' <=> p \in zombie_purgatory
            /\ \/ proc'[q] = "killed" /\ q \in zombie_purgatory'
               \/ proc'[q] = "reaped" /\ (q \in zombie_purgatory' => q \in zombie_purgatory)
        BY <3>2, <3>5, KillEffect
      <3>7. ChildOwnedOnce'
        <4>1. ASSUME NEW p \in Pid
              PROVE  /\ \A t, u \in Holders(p)' : t = u
                     /\ Holders(p)' # {} => proc'[p] \in {"running", "zombie"}
                     /\ p \in zombie_purgatory' => /\ proc'[p] \in {"killed", "zombie"}
                                                   /\ Holders(p)' = {}
          <5>1. CASE p = q
            BY <3>4, <3>6, <5>1
          <5>2. CASE p # q
            <6>1. proc'[p] = proc[p] /\ (p \in zombie_purgatory' => p \in zombie_purgatory)
              BY <3>6, <5>2
            <6>2. Holders(p)' \subseteq Holders(p)
              BY <3>3
            <6> QED  BY <6>1, <6>2 DEF DataInv, ChildOwnedOnce
          <5> QED  BY <5>1, <5>2
        <4> QED  BY <4>1 DEF ChildOwnedOnce
      <3>8. DataType'
        BY <1>1, <1>2, <3>6 DEF DataInv, DataType
      <3> QED  BY <3>7, <3>8
    <2>2. CASE c.action # "Cgi"
      <3>1. UNCHANGED <<proc, zombie_purgatory, cgi_to_client>>
        BY <2>2 DEF Terminate
      <3>2. ChildOwnedOnce'
        BY <1>1, <3>1 DEF DataInv, ChildOwnedOnce, Holders
      <3>3. DataType'
        BY <1>1, <1>2, <3>1 DEF DataInv, DataType
      <3> QED  BY <3>2, <3>3
    <2> QED  BY <2>1, <2>2
  <1>5. TokenInv' /\ HoldInv'
    BY <1>1, <1>2 DEF DataInv, TokenInv, HoldInv
  <1>6. RouteInv'
    <2>1. \A k, u : Routed(k, u) /\ u # cur =>
                       k \in DOMAIN cgi_to_client' /\ cgi_to_client'[k] = u
      <3>1. \A k \in DOMAIN cgi_to_client : k # NoToken
        BY DEF DataInv, DataType, Token
      <3> QED  BY <1>2, <1>3, <3>1 DEF Routed
    <2> QED  BY <1>1, <2>1 DEF DataInv, RouteInv, Routed
  <1> QED  BY <1>4, <1>5, <1>6 DEF DataInv

(* The exit of a child: its connection lets go of it, and what leaves the  *)
(* map led to that connection.                                             *)
LEMMA MonitorKeeps ==
    ASSUME DataInv, Client \in DOMAIN connections, MonitorExit
    PROVE  DataInv' /\ DOMAIN connections' = DOMAIN connections
  <1> USE SentinelAssumption
  <1>1. PICK t \in DOMAIN connections : t = Client
    OBVIOUS
  <1> DEFINE c == connections[t]
  <1>2. c \in Connection /\ c.action = "Cgi" /\ proc[c.child] = "zombie"
    BY <1>1 DEF MonitorExit, DataInv, DataType
  <1>3. PICK q \in Pid : q = c.child
    BY <1>2 DEF DataInv, HoldInv
  <1>4. \E d \in Connection :
           /\ Update(t, d)
           /\ d.action = "None" /\ d.child = NoPid
           /\ d.cgi_out_token = NoToken /\ d.cgi_in_token = NoToken
    <2> DEFINE e == WithAction(c, "None")
    <2>1. PICK out \in {c.write_buffer, TRUE}, fail \in {c.closed, TRUE} :
             Update(t, [e EXCEPT !.write_buffer = out, !.closed = fail,
                                 !.cgi_out_token = NoToken, !.cgi_in_token = NoToken])
      BY <1>1 DEF MonitorExit
    <2>2. e \in Connection /\ e.action = "None" /\ e.child = NoPid
      BY <1>2 DEF WithAction, Connection
    <2>3. out \in BOOLEAN /\ fail \in BOOLEAN
      BY <1>2 DEF Connection
    <2> HIDE DEF c, e
    <2> DEFINE d == [e EXCEPT !.write_buffer = out, !.closed = fail,
                              !.cgi_out_token = NoToken, !.cgi_in_token = NoToken]
    <2>4. d \in Connection
      BY <2>2, <2>3 DEF Connection
    <2>5. /\ d.action = "None" /\ d.child = NoPid
          /\ d.cgi_out_token = NoToken /\ d.cgi_in_token = NoToken
      BY <2>2 DEF Connection
    <2> QED  BY <2>1, <2>4, <2>5
  <1>5. /\ DOMAIN connections' = DOMAIN connections
        /\ connections' \in [DOMAIN connections' -> Connection]
        /\ connections'[t].action = "None" /\ connections'[t].child = NoPid
        /\ connections'[t].cgi_out_token = NoToken
        /\ connections'[t].cgi_in_token = NoToken
        /\ \A u \in DOMAIN connections \ {t} : connections'[u] = connections[u]
    BY <1>4 DEF Update, DataInv, DataType
  <1>6. /\ proc' = [proc EXCEPT ![q] = "reaped"]
        /\ UNCHANGED <<next_token, zombie_purgatory>>
    BY <1>1, <1>3 DEF MonitorExit
  <1>7. /\ DOMAIN cgi_to_client' \subseteq DOMAIN cgi_to_client
        /\ \A k \in DOMAIN cgi_to_client' : cgi_to_client'[k] = cgi_to_client[k]
        /\ cgi_to_client' \in [DOMAIN cgi_to_client' -> Token]
    BY DEF MonitorExit, Without, Restrict, DataInv, DataType
  <1>8. \A k, u : Routed(k, u) /\ u # t =>
                    k \in DOMAIN cgi_to_client' /\ cgi_to_client'[k] = u
    <2>1. \A k \in {c.cgi_out_token, c.cgi_in_token} : k = NoToken \/ Routed(k, t)
      BY DEF DataInv, RouteInv
    <2>2. \A k \in DOMAIN cgi_to_client : k # NoToken
      BY DEF DataInv, DataType, Token
    <2>3. DOMAIN cgi_to_client \ {c.cgi_out_token, c.cgi_in_token}
            \subseteq DOMAIN cgi_to_client'
      BY <1>1 DEF MonitorExit, Without, Restrict
    <2> QED  BY <1>7, <2>1, <2>2, <2>3 DEF Routed
  <1> HIDE DEF c
  <1>9. DataType'
    BY <1>5, <1>6, <1>7 DEF DataInv, DataType, ProcState
  <1>10. TokenInv'
    BY <1>5, <1>6, <1>7 DEF DataInv, TokenInv
  <1>11. RouteInv' /\ HoldInv'
    BY <1>5, <1>8 DEF DataInv, RouteInv, HoldInv, Routed
  <1>12. ChildOwnedOnce'
    <2>1. t \in Holders(q)
      BY <1>3 DEF Holders, c
    <2>2. Holders(q)' = {} /\ \A p \in Pid : Holders(p)' \subseteq Holders(p)
      <3>1. \A p \in Pid : Holders(p)' = Holders(p) \ {t}
        BY <1>5 DEF Holders
      <3> QED  BY <2>1, <3>1 DEF DataInv, ChildOwnedOnce
    <2>3. q \notin zombie_purgatory
      BY <2>1 DEF DataInv, ChildOwnedOnce
    <2>4. \A p \in Pid \ {q} : proc'[p] = proc[p]
      BY <1>6 DEF DataInv, DataType
    <2> QED  BY <1>6, <2>2, <2>3, <2>4 DEF DataInv, ChildOwnedOnce
  <1> QED  BY <1>5, <1>9, <1>10, <1>11, <1>12 DEF DataInv

(* The sweep: whoever holds an expired child is removed or lets go of it.  *)
LEMMA TimeoutsKeeps ==
    ASSUME DataInv, Timeouts
    PROVE  DataInv'
  <1> USE SentinelAssumption
  <1> DEFINE S == ExpiredChildren
             Late(t) == t \in OverdueTokens
  <1>1. PICK dead \in SUBSET S : KillAndTry(S, dead)
    BY DEF Timeouts
  <1>2. /\ DOMAIN connections' = DOMAIN connections \ IdleTokens
        /\ connections' = [t \in DOMAIN connections' |->
                             IF Late(t) THEN ForceCgiTimeout(connections[t])
                                        ELSE connections[t]]
        /\ UNCHANGED <<cgi_to_client, next_token>>
    BY DEF Timeouts
  <1>3. \A c \in Connection :
           LET d == ForceCgiTimeout(c) IN
           /\ d \in Connection
           /\ d.action = "None" /\ d.child = NoPid
           /\ d.cgi_out_token = NoToken /\ d.cgi_in_token = NoToken
    <2> SUFFICES ASSUME NEW c \in Connection
                 PROVE  LET d == ForceCgiTimeout(c) IN
                        /\ d \in Connection
                        /\ d.action = "None" /\ d.child = NoPid
                        /\ d.cgi_out_token = NoToken /\ d.cgi_in_token = NoToken
      OBVIOUS
    <2> DEFINE d == [WithAction(c, "None") EXCEPT !.cgi_buffer = FALSE,
                                                  !.cgi_out_token = NoToken,
                                                  !.cgi_in_token = NoToken]
               f == [d EXCEPT !.write_buffer = TRUE]
    <2>1. /\ d \in Connection /\ d.action = "None" /\ d.child = NoPid
          /\ d.cgi_out_token = NoToken /\ d.cgi_in_token = NoToken
      BY DEF WithAction, Connection
    <2>2. ForceCgiTimeout(c) \in {d, f}
      BY DEF ForceCgiTimeout
    <2> HIDE DEF d
    <2>3. /\ f \in Connection /\ f.action = "None" /\ f.child = NoPid
          /\ f.cgi_out_token = NoToken /\ f.cgi_in_token = NoToken
      BY <2>1 DEF Connection
    <2> QED  BY <2>1, <2>2, <2>3
  <1>4. \A t \in DOMAIN connections' :
           /\ connections'[t] \in Connection
           /\ \/ connections'[t] = connections[t] /\ ~Late(t)
              \/ /\ connections'[t].action = "None" /\ connections'[t].child = NoPid
                 /\ connections'[t].cgi_out_token = NoToken
                 /\ connections'[t].cgi_in_token = NoToken
    BY <1>2, <1>3 DEF DataInv, DataType
  <1>5. S \in SUBSET Pid
    BY DEF ExpiredChildren, IdleTokens, OverdueTokens, DataInv, HoldInv
  <1>6. \A p \in Pid : Holders(p)' \subseteq Holders(p)
    BY <1>2, <1>4 DEF Holders
  <1>7. \A p \in S : Holders(p)' = {} /\ p \notin zombie_purgatory
    <2> SUFFICES ASSUME NEW p \in S
                 PROVE  Holders(p)' = {} /\ p \notin zombie_purgatory
      OBVIOUS
    <2>1. PICK t \in IdleTokens \cup OverdueTokens :
             connections[t].action = "Cgi" /\ p = connections[t].child
      BY DEF ExpiredChildren
    <2>2. p \in Pid /\ t \in Holders(p)
      BY <1>5, <2>1 DEF Holders, IdleTokens, OverdueTokens
    <2>3. Holders(p) = {t} /\ p \notin zombie_purgatory
      BY <2>2 DEF DataInv, ChildOwnedOnce
    <2>4. t \notin Holders(p)'
      BY <1>2, <1>4, <2>1, <2>2 DEF Holders
    <2> QED  BY <1>6, <2>2, <2>3, <2>4
  <1>8. /\ proc' \in [Pid -> ProcState]
        /\ zombie_purgatory' \subseteq Pid
        /\ \A p \in Pid \ S : /\ proc'[p] = proc[p]
                              /\ p \in zombie_purgatory' <=> p \in zombie_purgatory
        /\ \A p \in S : \/ proc'[p] = "killed" /\ p \in zombie_purgatory'
                        \/ proc'[p] = "reaped"
                           /\ (p \in zombie_purgatory' => p \in zombie_purgatory)
    BY <1>1, <1>5, KillEffect DEF DataInv
  <1> HIDE DEF S
  <1>9. DataType'
    <2>1. connections' \in [DOMAIN connections' -> Connection]
      BY <1>2, <1>4
    <2> QED  BY <1>2, <1>8, <2>1 DEF DataInv, DataType
  <1>10. TokenInv' /\ HoldInv'
    BY <1>2, <1>4 DEF DataInv, TokenInv, HoldInv
  <1>11. RouteInv'
    BY <1>2, <1>4 DEF DataInv, RouteInv, Routed
  <1>12. ChildOwnedOnce'
    <2>1. \A p \in Pid \ S : /\ proc'[p] = proc[p]
                             /\ p \in zombie_purgatory' => p \in zombie_purgatory
      BY <1>8
    <2>2. \A p \in S : p \in zombie_purgatory' => proc'[p] = "killed"
      BY <1>7, <1>8
    <2> QED  BY <1>6, <1>7, <2>1, <2>2 DEF DataInv, ChildOwnedOnce
  <1> QED  BY <1>9, <1>10, <1>11, <1>12 DEF DataInv

-----------------------------------------------------------------------------
(* The invariant is inductive.                                             *)

LEMMA InitEstablishes == Init => IInv
  <1> SUFFICES ASSUME Init PROVE IInv
    OBVIOUS
  <1> USE BoundsAssumption, SentinelAssumption
  <1>1. /\ DOMAIN connections = {} /\ DOMAIN cgi_to_client = {}
        /\ connections \in [DOMAIN connections -> Connection]
        /\ cgi_to_client \in [DOMAIN cgi_to_client -> Token]
    BY DEF Init
  <1>2. DataInv
    BY <1>1 DEF Init, DataInv, DataType, TokenInv, RouteInv, HoldInv, ChildOwnedOnce,
                Holders, ProcState
  <1>3. LoopType /\ PlaceInv
    BY DEF Init, LoopType, PlaceInv, Places, AtConnection, AtStream
  <1> QED  BY <1>2, <1>3 DEF IInv

(* Nothing of the data changes: its invariant stays.                       *)
LEMMA QuietKeeps ==
    ASSUME DataInv, Quiet
    PROVE  DataInv' /\ DOMAIN connections' = DOMAIN connections
  BY DEF Quiet, DataInv, DataType, TokenInv, RouteInv, HoldInv, ChildOwnedOnce, Holders, Routed

LEMMA LoopStepsKeep ==
    ASSUME IInv, Poll \/ Timeouts \/ Reap \/ EndOfBatch
    PROVE  IInv'
  <1> USE BoundsAssumption, SentinelAssumption DEF Places, AtConnection, AtStream, Goto
  <1>1. DataInv'
    BY QuietKeeps, TimeoutsKeeps, ReapKeeps DEF IInv, Poll, EndOfBatch, Quiet
  <1>2. batch' \subseteq Token
    <2>1. Registered \subseteq Token
      BY DEF Registered, Listeners, Token, IInv, DataInv, DataType
    <2> QED  BY <2>1 DEF IInv, LoopType, Poll, Timeouts, Reap, EndOfBatch
  <1>3. pc' \in {"timeouts", "reap", "events", "poll"} /\ cur' = NoToken
    BY DEF Poll, Timeouts, Reap, EndOfBatch
  <1> QED  BY <1>1, <1>2, <1>3 DEF IInv, LoopType, PlaceInv

LEMMA EventStepsKeep ==
    ASSUME IInv, HandleEvent
    PROVE  IInv'
  <1> USE SentinelAssumption DEF Places, AtConnection, AtStream, Goto
  <1>1. PICK k \in batch : CgiEvent(k) \/ Accept(k) \/ ClientEvent(k) \/ StaleEvent(k)
    BY DEF HandleEvent
  <1>2. k \in Token /\ batch' \subseteq Token
    BY <1>1 DEF IInv, LoopType, CgiEvent, Accept, ClientEvent, StaleEvent, TakeEvent
  <1>3. CASE CgiEvent(k)
    <2>1. DataInv'
      BY <1>3, QuietKeeps DEF CgiEvent, IInv
    <2>2. LoopType' /\ PlaceInv'
      BY <1>2, <1>3 DEF CgiEvent, Quiet, LoopType, PlaceInv, Client
    <2> QED  BY <2>1, <2>2 DEF IInv
  <1>4. CASE Accept(k)
    <2>1. DataInv'
      BY <1>4, AcceptKeeps DEF IInv
    <2> QED  BY <1>2, <1>4, <2>1 DEF Accept, IInv, LoopType, PlaceInv
  <1>5. CASE ClientEvent(k)
    <2>1. DataInv' /\ DOMAIN connections' = DOMAIN connections
      BY <1>5, ClientEventIsLocal, LocalKeeps DEF IInv
    <2> QED  BY <1>2, <1>5, <2>1 DEF ClientEvent, IInv, LoopType, PlaceInv
  <1>6. CASE StaleEvent(k)
    <2>1. DataInv'
      BY <1>6, QuietKeeps DEF StaleEvent, IInv
    <2> QED  BY <1>2, <1>6, <2>1 DEF StaleEvent, IInv, LoopType, PlaceInv
  <1> QED  BY <1>1, <1>3, <1>4, <1>5, <1>6

LEMMA ConnectionStepsKeep ==
    ASSUME IInv, HandleConnection
    PROVE  IInv'
  <1> USE SentinelAssumption DEF Places, AtConnection, AtStream, Goto
  <1>1. cur \in DOMAIN connections /\ cur \in Token /\ batch' = batch
    BY DEF IInv, PlaceInv, DataInv, DataType, HandleConnection, ReadNothing, ReadEof,
           ReadRequest, ReadBody, Write, NoWrite, PostWrite, KeepConnection, Terminate,
           ConnectionError, LocalRequest, CgiRequest, KeepAllButConnections
  <1>2. CASE ReadNothing \/ NoWrite \/ KeepConnection
    <2>1. DataInv' /\ DOMAIN connections' = DOMAIN connections
      BY <1>2, QuietKeeps DEF ReadNothing, NoWrite, KeepConnection, IInv
    <2> QED
      BY <1>1, <1>2, <2>1 DEF ReadNothing, NoWrite, KeepConnection, IInv, LoopType, PlaceInv
  <1>3. CASE ReadEof \/ ReadBody \/ Write
    <2>1. DataInv' /\ DOMAIN connections' = DOMAIN connections
      BY <1>3, ReadIsLocal, WriteIsLocal, LocalKeeps DEF IInv
    <2>2. pc' \in {"write", "lifecycle", "post"} /\ cur' = cur
      BY <1>3 DEF ReadEof, ReadBody, Write
    <2> QED  BY <1>1, <2>1, <2>2 DEF IInv, LoopType, PlaceInv
  <1>4. CASE ReadRequest \/ PostWrite
    <2>1. PICK next \in {"write", "lifecycle"} : LocalRequest(cur, next) \/ CgiRequest(cur, next)
      BY <1>4 DEF ReadRequest, PostWrite
    <2>2. DataInv' /\ DOMAIN connections' = DOMAIN connections
      BY <1>1, <2>1, RequestIsLocal, LocalKeeps, QuietKeeps, SpawnKeeps DEF IInv, DataInv
    <2>3. pc' = next /\ cur' = cur
      BY <2>1 DEF LocalRequest, CgiRequest
    <2> QED  BY <1>1, <2>2, <2>3 DEF IInv, LoopType, PlaceInv
  <1>5. CASE Terminate \/ ConnectionError
    <2>1. DataInv'
      BY <1>1, <1>5, TerminateKeeps, DropKeeps DEF IInv
    <2> QED  BY <1>1, <1>5, <2>1 DEF Terminate, ConnectionError, IInv, LoopType, PlaceInv
  <1> QED  BY <1>2, <1>3, <1>4, <1>5 DEF HandleConnection

LEMMA StreamStepsKeep ==
    ASSUME IInv, HandleCgiEvent
    PROVE  IInv'
  <1> USE SentinelAssumption DEF Places, AtConnection, AtStream, Goto
  <1>1. cur \in DOMAIN cgi_to_client /\ Client \in DOMAIN connections
        /\ cur \in Token /\ batch' = batch
    BY DEF IInv, PlaceInv, DataInv, DataType, HandleCgiEvent, ReadCgiOutput, WriteToCgiStdin,
           MonitorExit, MonitorAlive, CgiError, KeepAllButConnections
  <1>2. CASE ReadCgiOutput \/ WriteToCgiStdin \/ CgiError
    <2>1. DataInv' /\ DOMAIN connections' = DOMAIN connections
      BY <1>2, StreamIsLocal, LocalKeeps, QuietKeeps DEF IInv
    <2>2. cgi_to_client' = cgi_to_client /\ pc' \in Places
          /\ \/ pc' \in AtStream /\ cur' = cur
             \/ pc' = "events" /\ cur' = NoToken
      <3>1. CASE ReadCgiOutput
        BY <3>1 DEF ReadCgiOutput, KeepAllButConnections
      <3>2. CASE WriteToCgiStdin
        BY <3>2 DEF WriteToCgiStdin, KeepAllButConnections
      <3>3. CASE CgiError
        BY <3>3 DEF CgiError, KeepAllButConnections
      <3> QED  BY <1>2, <3>1, <3>2, <3>3
    <2> QED  BY <1>1, <2>1, <2>2 DEF IInv, LoopType, PlaceInv, Client
  <1>3. CASE MonitorExit \/ MonitorAlive
    <2>1. DataInv'
      BY <1>1, <1>3, MonitorKeeps, QuietKeeps DEF IInv, MonitorAlive
    <2> QED  BY <1>1, <1>3, <2>1 DEF MonitorExit, MonitorAlive, IInv, LoopType, PlaceInv
  <1> QED  BY <1>2, <1>3 DEF HandleCgiEvent

LEMMA WorldStepsKeep ==
    ASSUME IInv, World
    PROVE  IInv'
  <1>1. DataInv' /\ DOMAIN connections' = DOMAIN connections
        /\ UNCHANGED <<cgi_to_client, pc, cur, batch>>
    <2>1. CASE \E p \in Pid : ChildExit(p)
      BY <2>1, ExitKeeps DEF ChildExit, IInv
    <2>2. CASE \E t \in Token : CgiOverdue(t) \/ ClientIdle(t)
      BY <2>2, TimePassesIsLocal, LocalKeeps DEF CgiOverdue, ClientIdle, IInv
    <2> QED  BY <2>1, <2>2 DEF World
  <1> QED  BY <1>1 DEF IInv, LoopType, PlaceInv, Client

LEMMA StepKeeps == IInv /\ [Next]_vars => IInv'
  <1> SUFFICES ASSUME IInv, [Next]_vars PROVE IInv'
    OBVIOUS
  <1>1. CASE Loop
    BY <1>1, LoopStepsKeep, EventStepsKeep, ConnectionStepsKeep, StreamStepsKeep DEF Loop
  <1>2. CASE World
    BY <1>2, WorldStepsKeep
  <1>3. CASE UNCHANGED vars
    <2>1. DataInv'
      BY <1>3, QuietKeeps DEF vars, Quiet, IInv
    <2> QED  BY <1>3, <2>1 DEF vars, IInv, LoopType, PlaceInv, Client
  <1> QED  BY <1>1, <1>2, <1>3 DEF Next

-----------------------------------------------------------------------------
THEOREM Invariance == Spec => []IInv
  BY InitEstablishes, StepKeeps, PTL DEF Spec

(* The loop's state keeps its types, whatever the bounds and the world do. *)
THEOREM TypeCorrect == Spec => []TypeOK
  <1>1. IInv => TypeOK
    BY DEF IInv, DataInv, DataType, LoopType, TypeOK
  <1> QED  BY <1>1, Invariance, PTL

(* An event's token names one listener, one connection or one stream.      *)
THEOREM TokensNameOneThing == Spec => []TokensDisjoint
  <1>1. IInv => TokensDisjoint
    <2> SUFFICES ASSUME IInv, NEW k \in DOMAIN cgi_to_client \cup DOMAIN connections
                 PROVE  k \notin Listeners
                        /\ ~(k \in DOMAIN cgi_to_client /\ k \in DOMAIN connections)
      BY DEF TokensDisjoint
    <2>1. k \in Int /\ Ports <= k
      BY DEF IInv, DataInv, DataType, TokenInv, Token
    <2> QED  BY <2>1, BoundsAssumption DEF IInv, DataInv, TokenInv, Listeners
  <1> QED  BY <1>1, Invariance, PTL

(* The events of a running script's streams reach its connection.          *)
THEOREM ScriptsAreRouted == Spec => []CgiEventsReachOwner
  <1>1. IInv => CgiEventsReachOwner
    BY DEF IInv, DataInv, RouteInv, Routed, CgiEventsReachOwner
  <1> QED  BY <1>1, Invariance, PTL

(* A child has at most one owner, and the owner is owed its exit status.   *)
THEOREM ChildrenHaveOneOwner == Spec => []ChildOwnedOnce
  BY Invariance, PTL DEF IInv, DataInv

-----------------------------------------------------------------------------
(* No child is forgotten, when no request replaces an unfinished script's  *)
(* action and no registration fails: the two places that drop a Child.     *)

LEMMA LocalAccounts ==
    ASSUME DataInv, ~Overlap, NEW t, Local(t), ChildrenAccounted
    PROVE  ChildrenAccounted'
  <1> USE SentinelAssumption
  <1>1. PICK d \in Connection : SameOrGone(connections[t], d) /\ Update(t, d)
    BY DEF Local
  <1>2. d.child = connections[t].child \/ connections[t].child \notin Pid
    BY <1>1 DEF Local, SameOrGone, DataInv, HoldInv
  <1>3. \A p \in Pid : Holders(p) \subseteq Holders(p)'
    BY <1>1, <1>2 DEF Local, Update, Holders, DataInv, DataType
  <1> QED  BY <1>3 DEF Local, ChildrenAccounted

LEMMA SpawnAccounts ==
    ASSUME DataInv, ~Overlap, NEW t \in DOMAIN connections, NEW next, CgiRequest(t, next),
           ChildrenAccounted
    PROVE  ChildrenAccounted'
  <1>1. PICK p \in Pid : proc' = [proc EXCEPT ![p] = "running"] /\ BeginCgi(t, p)
    BY DEF CgiRequest, ScriptTokens
  <1>2. connections[t].child \notin Pid
    BY DEF CgiRequest, ScriptTokens, MayReplace, DataInv, HoldInv
  <1>3. /\ DOMAIN connections' = DOMAIN connections
        /\ connections'[t].child = p
        /\ \A u \in DOMAIN connections \ {t} : connections'[u] = connections[u]
    <2> DEFINE c == connections[t]
    <2>1. \E d : d.child = p /\ Update(t, d)
      <3>1. c \in Connection
        BY DEF DataInv, DataType
      <3>2. PICK done \in BOOLEAN, in \in {c.cgi_buffer, TRUE},
                 err \in BOOLEAN, out \in {c.write_buffer, TRUE} :
               Update(t, [c EXCEPT
                  !.action = "Cgi", !.child = p, !.out_stream = next_token,
                  !.in_stream = TRUE, !.overdue = FALSE,
                  !.cgi_out_token = next_token, !.cgi_in_token = next_token + 1,
                  !.body_done = done, !.cgi_buffer = in,
                  !.closed = err, !.write_buffer = out])
        BY <1>1, ZenonT(60) DEF BeginCgi
      <3> DEFINE d == [c EXCEPT
                  !.action = "Cgi", !.child = p, !.out_stream = next_token,
                  !.in_stream = TRUE, !.overdue = FALSE,
                  !.cgi_out_token = next_token, !.cgi_in_token = next_token + 1,
                  !.body_done = done, !.cgi_buffer = in,
                  !.closed = err, !.write_buffer = out]
      <3>3. d.child = p
        BY <3>1 DEF Connection
      <3> QED  BY <3>2, <3>3
    <2> QED  BY <2>1 DEF Update, DataInv, DataType
  <1>4. t \in Holders(p)' /\ \A q \in Pid : Holders(q) \subseteq Holders(q)'
    BY <1>2, <1>3 DEF Holders
  <1>5. \A q \in Pid \ {p} : proc'[q] = proc[q]
    BY <1>1 DEF DataInv, DataType
  <1> QED  BY <1>4, <1>5 DEF CgiRequest, ScriptTokens, ChildrenAccounted

LEMMA TerminateAccounts ==
    ASSUME DataInv, cur \in DOMAIN connections, Terminate, ChildrenAccounted
    PROVE  ChildrenAccounted'
  <1> USE SentinelAssumption
  <1>1. \A p \in Pid : Holders(p)' = Holders(p) \ {cur}
    BY DEF Terminate, Without, Restrict, Holders
  <1>2. CASE connections[cur].action # "Cgi"
    <2>1. \A p \in Pid : cur \notin Holders(p)
      BY <1>2 DEF DataInv, HoldInv, Holders
    <2> QED  BY <1>1, <1>2, <2>1 DEF Terminate, ChildrenAccounted
  <1>3. CASE connections[cur].action = "Cgi"
    <2>1. PICK q \in Pid : q = connections[cur].child
      BY <1>3 DEF DataInv, HoldInv
    <2>2. PICK dead : KillAndTry({q}, dead)
      BY <1>3, <2>1 DEF Terminate
    <2>3. /\ \A p \in Pid \ {q} : /\ proc'[p] = proc[p]
                                  /\ p \in zombie_purgatory => p \in zombie_purgatory'
          /\ \/ proc'[q] = "killed" /\ q \in zombie_purgatory'
             \/ proc'[q] = "reaped"
      BY <2>2 DEF KillAndTry, DataInv, DataType
    <2>4. \A p \in Pid \ {q} : Holders(p)' = Holders(p)
      BY <1>1, <2>1 DEF Holders
    <2> QED  BY <2>3, <2>4 DEF ChildrenAccounted
  <1> QED  BY <1>2, <1>3

LEMMA TimeoutsAccount ==
    ASSUME DataInv, Timeouts, ChildrenAccounted
    PROVE  ChildrenAccounted'
  <1> USE SentinelAssumption
  <1> DEFINE S == ExpiredChildren
  <1>1. PICK dead \in SUBSET S : KillAndTry(S, dead)
    BY DEF Timeouts
  <1>2. /\ \A p \in Pid \ S : /\ proc'[p] = proc[p]
                              /\ p \in zombie_purgatory => p \in zombie_purgatory'
        /\ \A p \in S \cap Pid : \/ proc'[p] = "killed" /\ p \in zombie_purgatory'
                                 \/ proc'[p] = "reaped"
    BY <1>1 DEF KillAndTry, DataInv, DataType
  <1>3. \A p \in Pid \ S : Holders(p) \subseteq Holders(p)'
    <2> SUFFICES ASSUME NEW p \in Pid \ S, NEW t \in Holders(p)
                 PROVE  t \in Holders(p)'
      OBVIOUS
    <2>1. t \in DOMAIN connections /\ connections[t].child = p /\ connections[t].action = "Cgi"
      BY DEF Holders, DataInv, HoldInv
    <2>2. t \notin IdleTokens /\ t \notin OverdueTokens
      BY <2>1 DEF ExpiredChildren
    <2> QED  BY <2>1, <2>2 DEF Timeouts, Holders
  <1> HIDE DEF S
  <1> QED  BY <1>2, <1>3 DEF ChildrenAccounted

LEMMA StepAccounts ==
    ASSUME IInv, ChildrenAccounted, ~Overlap, ~PollErrors, [Next]_vars
    PROVE  ChildrenAccounted'
  <1>1. CASE Quiet
    BY <1>1 DEF Quiet, ChildrenAccounted, Holders
  <1>2. CASE \E t : Local(t)
    BY <1>2, LocalAccounts DEF IInv
  <1>3. CASE Reap \/ \E p \in Pid : ChildExit(p)
    BY <1>3 DEF Reap, ChildExit, ChildrenAccounted, Holders, IInv, DataInv, DataType
  <1>4. CASE Timeouts
    BY <1>4, TimeoutsAccount DEF IInv
  <1>5. CASE \E k : Accept(k)
    <2>1. \A p \in Pid : Holders(p) \subseteq Holders(p)'
      <3>1. PICK k : Accept(k)
        BY <1>5
      <3>2. PICK n \in Nat :
               LET fresh == next_token .. next_token + n - 1 IN
               connections' = [t \in DOMAIN connections \cup fresh |->
                                 IF t \in fresh THEN NewConnection ELSE connections[t]]
        BY <3>1, BoundsAssumption DEF Accept, Fresh
      <3>3. \A t \in DOMAIN connections : t \notin next_token .. next_token + n - 1
        BY DEF IInv, DataInv, DataType, TokenInv, Token
      <3> QED  BY <3>2, <3>3 DEF Holders
    <2>2. UNCHANGED <<zombie_purgatory, proc>>
      BY <1>5 DEF Accept
    <2> QED  BY <2>1, <2>2 DEF ChildrenAccounted
  <1>6. CASE Terminate
    BY <1>6, TerminateAccounts DEF IInv, PlaceInv, AtConnection, Terminate
  <1>7. CASE ReadRequest \/ PostWrite
    <2>1. PICK next : LocalRequest(cur, next) \/ CgiRequest(cur, next)
      BY <1>7 DEF ReadRequest, PostWrite
    <2>2. cur \in DOMAIN connections
      BY <1>7 DEF ReadRequest, PostWrite, IInv, PlaceInv, AtConnection
    <2> QED  BY <1>1, <1>2, <2>1, <2>2, RequestIsLocal, SpawnAccounts DEF IInv, DataInv
  <1>8. CASE MonitorExit
    <2>1. PICK q : proc' = [proc EXCEPT ![q] = "reaped"] /\ q = connections[Client].child
      BY <1>8 DEF MonitorExit
    <2>2. \A p \in Pid \ {q} : Holders(p) \subseteq Holders(p)' /\ proc'[p] = proc[p]
      BY <1>8, <2>1 DEF MonitorExit, Update, Holders, IInv, DataInv, DataType
    <2>3. q \in Pid => proc'[q] = "reaped"
      BY <2>1 DEF IInv, DataInv, DataType
    <2> QED  BY <1>8, <2>2, <2>3 DEF MonitorExit, ChildrenAccounted
  <1>9. CASE HandleEvent
    BY <1>1, <1>2, <1>5, <1>9, ClientEventIsLocal DEF HandleEvent, CgiEvent, StaleEvent
  <1>10. CASE HandleConnection
    BY <1>1, <1>2, <1>6, <1>7, <1>10, ReadIsLocal, WriteIsLocal
       DEF HandleConnection, ReadNothing, NoWrite, KeepConnection, ConnectionError
  <1>11. CASE HandleCgiEvent
    BY <1>1, <1>2, <1>8, <1>11, StreamIsLocal DEF HandleCgiEvent, MonitorAlive
  <1>12. CASE Poll \/ EndOfBatch \/ UNCHANGED vars
    BY <1>1, <1>12 DEF Poll, EndOfBatch, vars, Quiet
  <1>13. CASE World
    BY <1>2, <1>3, <1>13, TimePassesIsLocal DEF World
  <1> QED  BY <1>3, <1>4, <1>9, <1>10, <1>11, <1>12, <1>13 DEF Next, Loop

(* Where the two droppings cannot happen every spawned child is reaped or  *)
(* still has the owner that will reap it.                                  *)
THEOREM NoChildForgotten ==
    ASSUME ~Overlap, ~PollErrors
    PROVE  Spec => []ChildrenAccounted
  <1>1. Init => ChildrenAccounted
    BY DEF Init, ChildrenAccounted
  <1>2. IInv /\ ChildrenAccounted /\ [Next]_vars => ChildrenAccounted'
    BY StepAccounts
  <1> QED  BY <1>1, <1>2, Invariance, PTL DEF Spec

-----------------------------------------------------------------------------
(* What the steps of Server may do: theorems about pairs of states.        *)
(* Children move as ChildReaper says, tokens are handed out once, and a    *)
(* closing connection stays closing.                                       *)
(*                                                                         *)
(* The loop implements ChildReaper.  Of a child's phase only its process   *)
(* and the purgatory can go astray: that it has a holder in between is     *)
(* NoChildForgotten.                                                       *)

ProcStep(p) ==
    /\ proc[p] = "unborn" => proc'[p] \in {"unborn", "running"}
    /\ proc[p] # "unborn" => proc'[p] # "unborn"
    /\ proc[p] = "reaped" => proc'[p] = "reaped"
    /\ p \in zombie_purgatory => p \in zombie_purgatory' \/ proc'[p] = "reaped"

LEMMA KillStep ==
    ASSUME DataInv, NEW S, NEW dead, KillAndTry(S, dead),
           \A q \in S \cap Pid : Holders(q) # {}
    PROVE  \A p \in Pid : ProcStep(p)
  <1> SUFFICES ASSUME NEW p \in Pid PROVE ProcStep(p)
    OBVIOUS
  <1>1. p \in S => proc[p] \in {"running", "zombie"} /\ p \notin zombie_purgatory
    BY DEF DataInv, ChildOwnedOnce
  <1>2. \/ proc'[p] = proc[p] /\ p \notin S
        \/ proc'[p] \in {"reaped", "killed"} /\ p \in S
    BY DEF KillAndTry
  <1>3. p \in zombie_purgatory => p \in zombie_purgatory'
    BY DEF KillAndTry
  <1> QED  BY <1>1, <1>2, <1>3 DEF ProcStep

LEMMA SameChildren ==
    ASSUME UNCHANGED <<proc, zombie_purgatory>>
    PROVE  \A p \in Pid : ProcStep(p)
  BY DEF ProcStep

LEMMA LoopChildren ==
    ASSUME IInv, Poll \/ Timeouts \/ Reap \/ EndOfBatch
    PROVE  \A p \in Pid : ProcStep(p)
  <1>1. CASE Poll \/ EndOfBatch
    BY <1>1, SameChildren DEF Poll, EndOfBatch, Quiet
  <1>2. CASE Timeouts
    <2>1. PICK dead : KillAndTry(ExpiredChildren, dead)
      BY <1>2 DEF Timeouts
    <2>2. \A q \in ExpiredChildren \cap Pid : Holders(q) # {}
      BY DEF ExpiredChildren, IdleTokens, OverdueTokens, Holders
    <2> QED  BY <2>1, <2>2, KillStep DEF IInv
  <1>3. CASE Reap
    BY <1>3 DEF Reap, ProcStep
  <1> QED  BY <1>1, <1>2, <1>3

LEMMA ConnectionChildren ==
    ASSUME IInv, HandleConnection
    PROVE  \A p \in Pid : ProcStep(p)
  <1>1. cur \in DOMAIN connections
    BY DEF IInv, PlaceInv, AtConnection, HandleConnection, ReadNothing, ReadEof,
           ReadRequest, ReadBody, Write, NoWrite, PostWrite, KeepConnection, Terminate,
           ConnectionError
  <1>2. CASE ReadNothing \/ NoWrite \/ KeepConnection
    BY <1>2, SameChildren DEF ReadNothing, NoWrite, KeepConnection, Quiet
  <1>3. CASE ReadEof \/ ReadBody \/ Write \/ ConnectionError
    BY <1>3, SameChildren DEF ReadEof, ReadBody, Write, ConnectionError, KeepAllButConnections
  <1>4. CASE ReadRequest \/ PostWrite
    <2>1. CASE \E next : LocalRequest(cur, next)
      BY <2>1, SameChildren DEF LocalRequest
    <2>2. CASE \E next : CgiRequest(cur, next)
      <3>1. PICK q \in Pid : proc[q] = "unborn" /\ proc' = [proc EXCEPT ![q] = "running"]
        BY <2>2 DEF CgiRequest, ScriptTokens
      <3>2. zombie_purgatory' = zombie_purgatory
        BY <2>2 DEF CgiRequest, ScriptTokens
      <3> QED  BY <3>1, <3>2 DEF ProcStep, IInv, DataInv, DataType
    <2> QED  BY <1>4, <2>1, <2>2 DEF ReadRequest, PostWrite
  <1>5. CASE Terminate
    <2>1. CASE connections[cur].action = "Cgi"
      <3>1. PICK dead : KillAndTry({connections[cur].child}, dead)
        BY <1>5, <2>1 DEF Terminate
      <3>2. \A q \in {connections[cur].child} \cap Pid : Holders(q) # {}
        BY <1>1 DEF Holders
      <3> QED  BY <3>1, <3>2, KillStep DEF IInv
    <2>2. CASE connections[cur].action # "Cgi"
      BY <1>5, <2>2, SameChildren DEF Terminate
    <2> QED  BY <2>1, <2>2
  <1> QED  BY <1>2, <1>3, <1>4, <1>5 DEF HandleConnection

LEMMA StreamChildren ==
    ASSUME IInv, HandleCgiEvent
    PROVE  \A p \in Pid : ProcStep(p)
  <1>1. CASE ReadCgiOutput \/ WriteToCgiStdin \/ CgiError
    BY <1>1, SameChildren DEF ReadCgiOutput, WriteToCgiStdin, CgiError, KeepAllButConnections
  <1>2. CASE MonitorAlive
    BY <1>2, SameChildren DEF MonitorAlive, Quiet
  <1>3. CASE MonitorExit
    <2>1. PICK q : proc' = [proc EXCEPT ![q] = "reaped"] /\ proc[q] = "zombie"
      BY <1>3 DEF MonitorExit
    <2>2. zombie_purgatory' = zombie_purgatory
      BY <1>3 DEF MonitorExit
    <2> QED  BY <2>1, <2>2 DEF ProcStep, IInv, DataInv, DataType
  <1> QED  BY <1>1, <1>2, <1>3 DEF HandleCgiEvent

LEMMA ChildrenStep ==
    ASSUME IInv, [Next]_vars
    PROVE  \A p \in Pid : ProcStep(p)
  <1>1. CASE HandleEvent
    BY <1>1, SameChildren DEF HandleEvent, CgiEvent, Accept, ClientEvent, StaleEvent, Quiet
  <1>2. CASE World
    <2>1. CASE \E p \in Pid : ChildExit(p)
      BY <2>1 DEF ChildExit, ProcStep, IInv, DataInv, DataType
    <2>2. CASE \E t \in Token : CgiOverdue(t) \/ ClientIdle(t)
      BY <2>2, SameChildren DEF CgiOverdue, ClientIdle
    <2> QED  BY <1>2, <2>1, <2>2 DEF World
  <1>3. CASE UNCHANGED vars
    BY <1>3, SameChildren DEF vars
  <1> QED
    BY <1>1, <1>2, <1>3, LoopChildren, ConnectionChildren, StreamChildren DEF Next, Loop

(* What the phase of a child is, when none is forgotten.                   *)
LEMMA PhaseOfChild ==
    ASSUME DataInv, ChildrenAccounted, NEW p \in Pid
    PROVE  LET f == ChildPhase[p] IN
           /\ f \in Reaper!Phase
           /\ proc[p] \in {"unborn", "reaped"} => f = proc[p]
           /\ proc[p] \notin {"unborn", "reaped"} =>
                 f = IF p \in zombie_purgatory THEN "doomed" ELSE "held"
  BY DEF DataInv, DataType, ProcState, ChildrenAccounted, ChildPhase, Reaper!Phase

LEMMA PhaseStep ==
    ASSUME IInv, IInv', ChildrenAccounted, ChildrenAccounted', [Next]_vars
    PROVE  Reaper!Next
  <1> SUFFICES ASSUME NEW p \in Pid
               PROVE  /\ ChildPhase'[p] \in Reaper!Phase
                      /\ ChildPhase'[p] \in Reaper!Successors[ChildPhase[p]]
    <2>1. DOMAIN ChildPhase' = Pid /\ ChildPhase' = [q \in Pid |-> ChildPhase'[q]]
      BY DEF ChildPhase
    <2> QED  BY <2>1 DEF Reaper!Next
  <1> DEFINE f == ChildPhase[p]
             g == ChildPhase'[p]
  <1>1. /\ f \in Reaper!Phase
        /\ proc[p] \in {"unborn", "reaped"} => f = proc[p]
        /\ proc[p] \notin {"unborn", "reaped"} =>
              f = IF p \in zombie_purgatory THEN "doomed" ELSE "held"
    BY PhaseOfChild DEF IInv
  <1>2. /\ g \in Reaper!Phase
        /\ proc'[p] \in {"unborn", "reaped"} => g = proc'[p]
        /\ proc'[p] \notin {"unborn", "reaped"} =>
              g = IF p \in zombie_purgatory' THEN "doomed" ELSE "held"
    BY DEF IInv, DataInv, DataType, ProcState, ChildrenAccounted, ChildPhase, Reaper!Phase
  <1>3. ProcStep(p)
    BY ChildrenStep
  <1>4. /\ p \in zombie_purgatory => proc[p] \in {"killed", "zombie"}
        /\ p \in zombie_purgatory' => proc'[p] \in {"killed", "zombie"}
    BY DEF IInv, DataInv, ChildOwnedOnce
  <1> HIDE DEF f, g
  <1>5. g \in Reaper!Successors[f]
    BY <1>1, <1>2, <1>3, <1>4 DEF ProcStep, Reaper!Successors, Reaper!Phase
  <1> QED  BY <1>2, <1>5 DEF f, g

(* Where the two droppings cannot happen the loop implements ChildReaper:  *)
(* every child is handed from its connection to the purgatory or to its    *)
(* end, once, and never back.                                              *)
THEOREM LoopReapsChildren ==
    ASSUME ~Overlap, ~PollErrors
    PROVE  Spec => ReapsChildren
  <1>1. Init => Reaper!Init
    BY DEF Init, Reaper!Init, ChildPhase
  <1>2. IInv /\ IInv' /\ ChildrenAccounted /\ ChildrenAccounted' /\ [Next]_vars
           => [Reaper!Next]_ChildPhase
    BY PhaseStep
  <1>3. Spec => []ChildrenAccounted
    BY NoChildForgotten
  <1> QED
    BY <1>1, <1>2, <1>3, Invariance, PTL DEF Spec, ReapsChildren, Reaper!Spec

-----------------------------------------------------------------------------
(* Tokens: only accepting a client and spawning a script add to the maps.  *)

Adds(S) ==
    /\ DOMAIN connections' \subseteq DOMAIN connections \cup S
    /\ DOMAIN cgi_to_client' \subseteq DOMAIN cgi_to_client \cup S
    /\ \A k \in DOMAIN cgi_to_client \cap DOMAIN cgi_to_client' :
          cgi_to_client'[k] = cgi_to_client[k]

FreshStep ==
    /\ \A t \in (DOMAIN connections' \cup DOMAIN cgi_to_client')
                 \ (DOMAIN connections \cup DOMAIN cgi_to_client) :
          next_token <= t /\ t < next_token'
    /\ \A k \in DOMAIN cgi_to_client \cap DOMAIN cgi_to_client' :
          cgi_to_client'[k] = cgi_to_client[k]

LEMMA AddsNothing ==
    ASSUME Adds({})
    PROVE  FreshStep
  BY DEF Adds, FreshStep

LEMMA LocalAdds ==
    ASSUME DataInv, NEW t, Local(t)
    PROVE  FreshStep
  BY LocalKeeps, AddsNothing DEF Local, Adds

LEMMA QuietAdds ==
    ASSUME UNCHANGED <<connections, cgi_to_client>>
    PROVE  FreshStep
  BY AddsNothing DEF Adds

LEMMA AcceptAdds ==
    ASSUME DataInv, NEW k, Accept(k)
    PROVE  FreshStep
  <1>1. PICK n \in 0 .. MaxClients, burnt \in {0, 1} :
           /\ next_token' = next_token + n + burnt
           /\ DOMAIN connections' = DOMAIN connections \cup (next_token .. next_token + n - 1)
    BY DEF Accept, Fresh
  <1>2. \A t \in next_token .. next_token + n - 1 : next_token <= t /\ t < next_token'
    BY <1>1, BoundsAssumption DEF DataInv, DataType
  <1>3. cgi_to_client' = cgi_to_client
    BY DEF Accept
  <1> QED  BY <1>1, <1>2, <1>3 DEF FreshStep

LEMMA SpawnAdds ==
    ASSUME DataInv, NEW t \in DOMAIN connections, NEW next, CgiRequest(t, next)
    PROVE  FreshStep
  <1>1. DOMAIN connections' = DOMAIN connections
    BY SpawnKeeps
  <1>2. /\ next_token' = next_token + 2
        /\ cgi_to_client' = [k \in DOMAIN cgi_to_client \cup {next_token, next_token + 1} |->
                               IF k \in {next_token, next_token + 1} THEN t
                               ELSE cgi_to_client[k]]
    BY DEF CgiRequest, ScriptTokens
  <1>3. \A k \in DOMAIN cgi_to_client : k # next_token /\ k # next_token + 1
    BY DEF DataInv, DataType, TokenInv, Token
  <1>4. next_token \in Nat
    BY DEF DataInv, DataType
  <1> QED  BY <1>1, <1>2, <1>3, <1>4 DEF FreshStep

LEMMA TokenStep ==
    ASSUME IInv, [Next]_vars
    PROVE  FreshStep
  <1>1. CASE Poll \/ Reap \/ EndOfBatch \/ UNCHANGED vars \/ (\E p \in Pid : ChildExit(p))
    BY <1>1, QuietAdds DEF Poll, Reap, EndOfBatch, vars, ChildExit, Quiet
  <1>2. CASE Timeouts
    <2>1. Adds({})
      BY <1>2 DEF Timeouts, Adds
    <2> QED  BY <2>1, AddsNothing
  <1>3. CASE HandleEvent
    BY <1>3, QuietAdds, AcceptAdds, ClientEventIsLocal, LocalAdds
       DEF HandleEvent, CgiEvent, StaleEvent, Quiet, IInv
  <1>4. CASE HandleConnection
    <2>1. CASE ReadNothing \/ NoWrite \/ KeepConnection
      BY <2>1, QuietAdds DEF ReadNothing, NoWrite, KeepConnection, Quiet
    <2>2. CASE ReadEof \/ ReadBody \/ Write
      BY <2>2, ReadIsLocal, WriteIsLocal, LocalAdds DEF IInv
    <2>3. CASE ReadRequest \/ PostWrite
      <3>1. PICK next : LocalRequest(cur, next) \/ CgiRequest(cur, next)
        BY <2>3 DEF ReadRequest, PostWrite
      <3>2. cur \in DOMAIN connections /\ DataInv /\ DataType
        BY <2>3 DEF ReadRequest, PostWrite, IInv, DataInv, PlaceInv, AtConnection
      <3> QED  BY <3>1, <3>2, RequestIsLocal, LocalAdds, SpawnAdds, QuietAdds DEF Quiet
    <2>4. CASE Terminate
      <3>1. Adds({})
        BY <2>4 DEF Terminate, Without, Restrict, Adds
      <3> QED  BY <3>1, AddsNothing
    <2>5. CASE ConnectionError
      <3>1. Adds({})
        BY <2>5 DEF ConnectionError, KeepAllButConnections, Without, Restrict, Adds
      <3> QED  BY <3>1, AddsNothing
    <2> QED  BY <1>4, <2>1, <2>2, <2>3, <2>4, <2>5 DEF HandleConnection
  <1>5. CASE HandleCgiEvent
    <2>1. CASE ReadCgiOutput \/ WriteToCgiStdin \/ CgiError
      BY <2>1, StreamIsLocal, LocalAdds, QuietAdds DEF IInv, Quiet
    <2>2. CASE MonitorAlive
      BY <2>2, QuietAdds DEF MonitorAlive, Quiet
    <2>3. CASE MonitorExit
      <3>1. Adds({})
        BY <2>3 DEF MonitorExit, Update, Without, Restrict, Adds
      <3> QED  BY <3>1, AddsNothing
    <2> QED  BY <1>5, <2>1, <2>2, <2>3 DEF HandleCgiEvent
  <1>6. CASE \E t \in Token : CgiOverdue(t) \/ ClientIdle(t)
    BY <1>6, TimePassesIsLocal, LocalAdds DEF IInv
  <1> QED  BY <1>1, <1>2, <1>3, <1>4, <1>5, <1>6 DEF Next, Loop, World

(* What enters a map in a step carries a token handed out in that step, so *)
(* an event collected for something that is gone reaches nothing else.     *)
THEOREM TokensAreFresh == Spec => TokensNeverReused
  <1>1. IInv /\ [Next]_vars => [FreshStep]_vars
    BY TokenStep
  <1>2. Spec => [][FreshStep]_vars
    BY <1>1, Invariance, PTL DEF Spec
  <1> QED  BY <1>2 DEF TokensNeverReused, FreshStep

-----------------------------------------------------------------------------
(* Closing is final.  read looks at closed, post does not: that it is not  *)
(* reached with a closed connection is an invariant of its own.            *)

PostOpen == pc = "post" => ~connections[cur].closed

Stays(c, d) == c.closed => d.closed /\ d.child \in {c.child, NoPid}

ClosedStep ==
    \A t \in DOMAIN connections \cap DOMAIN connections' :
        connections[t].closed =>
            /\ connections'[t].closed
            /\ connections'[t].child \in {connections[t].child, NoPid}

(* One connection changes, and its flag is not lowered.                    *)
LEMMA LocalStays ==
    ASSUME DataInv, NEW t, Local(t), connections[t].closed => connections'[t].closed
    PROVE  ClosedStep
  <1>1. PICK d \in Connection : SameOrGone(connections[t], d) /\ Update(t, d)
    BY DEF Local
  <1>2. connections'[t] = d /\ \A u \in DOMAIN connections \ {t} : connections'[u] = connections[u]
    BY <1>1 DEF Local, Update, DataInv, DataType
  <1> QED  BY <1>1, <1>2 DEF ClosedStep, Stays, SameOrGone

LEMMA SameStays ==
    ASSUME \A t \in DOMAIN connections \cap DOMAIN connections' : connections'[t] = connections[t]
    PROVE  ClosedStep
  BY DEF ClosedStep, Stays

(* An open connection is served a request: nothing is asked of it.         *)
LEMMA OpenStays ==
    ASSUME DataInv, NEW t \in DOMAIN connections, ~connections[t].closed,
           \A u \in DOMAIN connections \ {t} : connections'[u] = connections[u]
    PROVE  ClosedStep
  BY DEF ClosedStep, Stays

LEMMA RequestStays ==
    ASSUME IInv, PostOpen, ReadRequest \/ PostWrite
    PROVE  ClosedStep
  <1>1. /\ cur \in DOMAIN connections /\ connections[cur] \in Connection
        /\ ~connections[cur].closed /\ DataInv /\ DataType
    BY DEF ReadRequest, PostWrite, PostOpen, IInv, DataInv, DataType, PlaceInv, AtConnection
  <1>2. PICK next : LocalRequest(cur, next) \/ CgiRequest(cur, next)
    BY DEF ReadRequest, PostWrite
  <1>3. CASE LocalRequest(cur, next)
    <2>1. CASE Local(cur)
      BY <1>1, <2>1, LocalStays
    <2>2. CASE Quiet
      BY <2>2, SameStays DEF Quiet
    <2> QED  BY <1>1, <1>3, <2>1, <2>2, RequestIsLocal
  <1>4. CASE CgiRequest(cur, next)
    <2>1. PICK p \in Pid : BeginCgi(cur, p)
      BY <1>4 DEF CgiRequest, ScriptTokens
    <2>2. \E d : Update(cur, d)
      BY <2>1 DEF BeginCgi
    <2>3. \A u \in DOMAIN connections \ {cur} : connections'[u] = connections[u]
      BY <1>1, <2>2 DEF Update, DataType
    <2> QED  BY <1>1, <2>3, OpenStays
  <1> QED  BY <1>2, <1>3, <1>4

LEMMA WriteStays ==
    ASSUME IInv, Write
    PROVE  ClosedStep /\ PostOpen'
  <1> DEFINE c == connections[cur]
  <1>1. cur \in DOMAIN connections /\ c \in Connection /\ DataInv
    BY DEF Write, IInv, DataInv, DataType, PlaceInv, AtConnection
  <1>2. PICK e \in Refilled(c) : \E left \in {e.write_buffer, FALSE}, fail \in {e.closed, TRUE} :
           /\ Update(cur, [e EXCEPT !.write_buffer = left, !.closed = fail])
           /\ Goto(IF fail \/ left THEN "lifecycle" ELSE "post", cur)
    BY DEF Write
  <1>3. e \in Connection /\ e.closed = c.closed
    <2>1. e \in {c, WithAction(c, "None"), [c EXCEPT !.write_buffer = TRUE]}
      BY DEF Refilled
    <2> HIDE DEF c
    <2>2. WithAction(c, "None") \in Connection /\ WithAction(c, "None").closed = c.closed
      BY <1>1 DEF WithAction, Connection
    <2>3. /\ [c EXCEPT !.write_buffer = TRUE] \in Connection
          /\ [c EXCEPT !.write_buffer = TRUE].closed = c.closed
      BY <1>1 DEF Connection
    <2> QED  BY <1>1, <2>1, <2>2, <2>3
  <1>4. PICK left \in {e.write_buffer, FALSE}, fail \in {e.closed, TRUE} :
           /\ Update(cur, [e EXCEPT !.write_buffer = left, !.closed = fail])
           /\ Goto(IF fail \/ left THEN "lifecycle" ELSE "post", cur)
    BY <1>2
  <1> HIDE DEF c
  <1>5. [e EXCEPT !.write_buffer = left, !.closed = fail].closed = fail
    BY <1>3 DEF Connection
  <1>6. connections'[cur].closed = fail
    BY <1>1, <1>4, <1>5 DEF Update, DataInv, DataType
  <1>7. c.closed => fail
    BY <1>3
  <1>8. ClosedStep
    BY <1>1, <1>6, <1>7, WriteIsLocal, LocalStays DEF c
  <1>9. PostOpen'
    BY <1>4, <1>6 DEF Goto, PostOpen
  <1> QED  BY <1>8, <1>9

(* The other steps of handle_connection.                                   *)
LEMMA ConnectionStays ==
    ASSUME IInv, PostOpen, HandleConnection
    PROVE  ClosedStep /\ PostOpen'
  <1>1. cur \in DOMAIN connections /\ connections[cur] \in Connection /\ DataInv
    BY DEF IInv, DataInv, DataType, PlaceInv, AtConnection, HandleConnection, ReadNothing, ReadEof,
           ReadRequest, ReadBody, Write, NoWrite, PostWrite, KeepConnection, Terminate,
           ConnectionError
  <1>2. ClosedStep
    <2>1. CASE Write
      BY <2>1, WriteStays
    <2>2. CASE ReadNothing \/ NoWrite \/ KeepConnection
      BY <2>2, SameStays DEF ReadNothing, NoWrite, KeepConnection, Quiet
    <2>3. CASE ReadEof \/ ReadBody
      BY <1>1, <2>3, ReadIsLocal, LocalStays DEF ReadEof, ReadBody
    <2>4. CASE ReadRequest \/ PostWrite
      BY <2>4, RequestStays
    <2>5. CASE Terminate \/ ConnectionError
      <3>1. connections' = Without(connections, {cur})
        BY <2>5 DEF Terminate, ConnectionError
      <3> QED  BY <3>1, SameStays DEF Without, Restrict
    <2> QED  BY <2>1, <2>2, <2>3, <2>4, <2>5 DEF HandleConnection
  <1>3. PostOpen'
    <2>1. Write => PostOpen'
      BY WriteStays
    <2> QED
      BY <2>1 DEF HandleConnection, ReadNothing, ReadEof, ReadRequest, ReadBody, NoWrite, PostWrite,
           KeepConnection, Terminate, ConnectionError, LocalRequest, CgiRequest, Goto, PostOpen
  <1> QED  BY <1>2, <1>3

LEMMA StreamStays ==
    ASSUME IInv, HandleCgiEvent
    PROVE  ClosedStep
  <1> DEFINE c == connections[Client]
  <1>1. Client \in DOMAIN connections /\ c \in Connection /\ DataInv
    BY DEF IInv, DataInv, DataType, PlaceInv, AtStream, HandleCgiEvent, ReadCgiOutput,
           WriteToCgiStdin, MonitorExit, MonitorAlive, CgiError
  <1>2. CASE ReadCgiOutput \/ WriteToCgiStdin \/ CgiError
    <2>1. UNCHANGED connections \/ (c.closed => connections'[Client].closed)
      <3>1. CASE CgiData
        BY <1>1, <3>1 DEF CgiData, Update, Connection, DataInv, DataType
      <3>2. CASE CgiFail \/ StdinFail
        BY <1>1, <3>2 DEF CgiFail, StdinFail, Update, Connection, DataInv, DataType
      <3>3. CASE CgiEof
        <4>1. PICK out \in {c.write_buffer, TRUE} :
                 Update(Client, [c EXCEPT !.write_buffer = out, !.cgi_out_token = NoToken,
                                          !.cgi_in_token = NoToken])
          BY <3>3 DEF CgiEof
        <4> DEFINE d == [c EXCEPT !.write_buffer = out, !.cgi_out_token = NoToken,
                                  !.cgi_in_token = NoToken]
        <4>2. d.closed = c.closed
          BY <1>1 DEF Connection
        <4>3. connections'[Client] = d
          BY <1>1, <4>1 DEF Update
        <4> QED  BY <4>2, <4>3
      <3>4. CASE StdinWrite
        BY <1>1, <3>4 DEF StdinWrite, Update, Connection, DataInv, DataType
      <3>5. CASE CgiError
        BY <1>1, <3>5 DEF CgiError, Update, Connection, DataInv, DataType
      <3> QED  BY <1>2, <3>1, <3>2, <3>3, <3>4, <3>5 DEF ReadCgiOutput, WriteToCgiStdin
    <2>2. CASE Local(Client)
      <3>1. CASE UNCHANGED connections
        BY <3>1, SameStays
      <3> QED  BY <1>1, <2>1, <2>2, <3>1, LocalStays
    <2>3. CASE Quiet
      BY <2>3, SameStays DEF Quiet
    <2> QED  BY <1>2, <2>2, <2>3, StreamIsLocal
  <1>3. CASE MonitorAlive
    BY <1>3, SameStays DEF MonitorAlive, Quiet
  <1>4. CASE MonitorExit
    <2> DEFINE e == WithAction(c, "None")
    <2>1. PICK out \in {c.write_buffer, TRUE}, fail \in {c.closed, TRUE} :
             Update(Client, [e EXCEPT !.write_buffer = out, !.closed = fail,
                                      !.cgi_out_token = NoToken, !.cgi_in_token = NoToken])
      BY <1>4 DEF MonitorExit
    <2>2. e \in Connection /\ e.child = NoPid
      BY <1>1 DEF WithAction, Connection
    <2> HIDE DEF c, e
    <2> DEFINE d == [e EXCEPT !.write_buffer = out, !.closed = fail,
                              !.cgi_out_token = NoToken, !.cgi_in_token = NoToken]
    <2>3. d.closed = fail /\ d.child = NoPid
      BY <2>2 DEF Connection
    <2>4. connections'[Client] = d
          /\ \A u \in DOMAIN connections \ {Client} : connections'[u] = connections[u]
      BY <1>1, <2>1 DEF Update, DataInv, DataType
    <2>5. Stays(c, d)
      BY <2>1, <2>3 DEF Stays
    <2> HIDE DEF d
    <2>6. \A u \in DOMAIN connections : connections'[u] = connections[u] \/ u = Client
      BY <2>4
    <2> QED  BY <2>4, <2>5, <2>6 DEF ClosedStep, Stays, c
  <1> QED  BY <1>2, <1>3, <1>4 DEF HandleCgiEvent

LEMMA TimeoutsStay ==
    ASSUME IInv, Timeouts
    PROVE  ClosedStep
  <1>1. \A c \in Connection : Stays(c, ForceCgiTimeout(c))
    BY DEF ForceCgiTimeout, WithAction, Connection, Stays
  <1> QED  BY <1>1 DEF Timeouts, IInv, DataInv, DataType, ClosedStep, Stays

LEMMA EventStays ==
    ASSUME IInv, HandleEvent
    PROVE  ClosedStep
  <1>1. PICK k \in batch : CgiEvent(k) \/ Accept(k) \/ ClientEvent(k) \/ StaleEvent(k)
    BY DEF HandleEvent
  <1>2. CASE CgiEvent(k) \/ StaleEvent(k)
    BY <1>2, SameStays DEF CgiEvent, StaleEvent, Quiet
  <1>3. CASE Accept(k)
    <2>1. \A n, t : t \in DOMAIN connections => t \notin Fresh(n)
      BY DEF Fresh, IInv, DataInv, DataType, TokenInv, Token
    <2> QED  BY <1>3, <2>1, SameStays DEF Accept
  <1>4. CASE ClientEvent(k)
    <2>1. connections[k] \in Connection /\ k \in DOMAIN connections
      BY <1>4 DEF ClientEvent, IInv, DataInv, DataType
    <2>2. connections'[k].closed = connections[k].closed
      BY <1>4, <2>1 DEF ClientEvent, Update, Connection
    <2> QED  BY <1>4, <2>2, ClientEventIsLocal, LocalStays DEF IInv
  <1> QED  BY <1>1, <1>2, <1>3, <1>4

LEMMA StepStays ==
    ASSUME IInv, PostOpen, [Next]_vars
    PROVE  ClosedStep /\ PostOpen'
  <1>1. CASE UNCHANGED vars
    BY <1>1, SameStays DEF vars, PostOpen
  <1>2. CASE HandleConnection
    BY <1>2, ConnectionStays
  <1>3. CASE Poll \/ Reap \/ EndOfBatch
    BY <1>3, SameStays DEF Poll, Reap, EndOfBatch, Quiet, Goto, PostOpen
  <1>4. CASE Timeouts
    BY <1>4, TimeoutsStay DEF Timeouts, Goto, PostOpen
  <1>5. CASE HandleEvent
    <2>1. PostOpen'
      BY <1>5 DEF HandleEvent, CgiEvent, Accept, ClientEvent, StaleEvent, Goto, PostOpen
    <2> QED  BY <1>5, <2>1, EventStays
  <1>6. CASE HandleCgiEvent
    <2>1. PostOpen'
      BY <1>6 DEF HandleCgiEvent, ReadCgiOutput, WriteToCgiStdin, MonitorExit, MonitorAlive,
                  CgiError, Goto, PostOpen
    <2> QED  BY <1>6, <2>1, StreamStays
  <1>7. CASE \E p \in Pid : ChildExit(p)
    BY <1>7, SameStays DEF ChildExit, PostOpen
  <1>8. CASE \E t \in Token : CgiOverdue(t) \/ ClientIdle(t)
    <2>1. PICK t \in Token : CgiOverdue(t) \/ ClientIdle(t)
      BY <1>8
    <2>2. connections[t] \in Connection /\ t \in DOMAIN connections
      BY <2>1 DEF CgiOverdue, ClientIdle, IInv, DataInv, DataType
    <2>3. connections'[t].closed = connections[t].closed
      BY <2>1, <2>2 DEF CgiOverdue, ClientIdle, Update, Connection
    <2>4. PostOpen'
      BY <2>1 DEF CgiOverdue, ClientIdle, PostOpen
    <2> QED  BY <2>1, <2>3, <2>4, TimePassesIsLocal, LocalStays DEF IInv
  <1> QED  BY <1>1, <1>2, <1>3, <1>4, <1>5, <1>6, <1>7, <1>8 DEF Next, Loop, World

(* Once closed a connection is never reopened, and it is given no script,  *)
(* although reads and the update after a write assign closed the verdict   *)
(* of the request they process.                                            *)
THEOREM ClosingIsFinal == Spec => ClosedIsFinal
  <1>1. Init => PostOpen
    BY DEF Init, PostOpen
  <1>2. IInv /\ PostOpen /\ [Next]_vars => PostOpen' /\ [ClosedStep]_vars
    BY StepStays
  <1>3. Spec => [][ClosedStep]_vars
    BY <1>1, <1>2, Invariance, PTL DEF Spec
  <1> QED  BY <1>3 DEF ClosedIsFinal, ClosedStep
=============================================================================
