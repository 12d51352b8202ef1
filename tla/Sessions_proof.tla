---------------------------- MODULE Sessions_proof ----------------------------
(***************************************************************************)
(* Proofs about Sessions, for any browsers, connections and lifetimes.     *)
(* The inductive invariant IInv adds to the checked invariants what a      *)
(* connection may still tell (ToldInv) and that nothing but age takes a    *)
(* session out of the store (LifeInv).                                     *)
(***************************************************************************)
EXTENDS Sessions, TLAPS

(* What waits in conn.response or in write_buffer is of the connection's   *)
(* session, and nothing waits while it is idle.                            *)
ToldInv ==
    \A c \in Connection :
        /\ conn[c].response \in {None, conn[c].session_id}
        /\ conn[c].out \in {None, conn[c].session_id}
        /\ conn[c].phase = "idle" => conn[c].response = None /\ conn[c].out = None

(* A session that was made and is not in the store is past its time.       *)
LifeInv == \A id \in DOMAIN age \ DOMAIN sessions : age[id] > Ttl

IInv ==
    /\ TypeOK
    /\ ToldInv /\ ToldItsSession
    /\ LifeInv /\ LostOnlyByExpiry
    /\ SessionsApart

Phase == {"idle", "script", "page", "output", "lost"}
SomeId == SessionId \cup {None}
Conn ==
    [phase : Phase, env : Datum, session_id : SomeId, presented : SomeId,
     response : SomeId, out : SomeId]

LEMMA ConnType == ASSUME TypeOK PROVE conn \in [Connection -> Conn]
  BY DEF TypeOK, Conn, Phase, Told, SomeId

-----------------------------------------------------------------------------
(* A new session has an id that no one has seen.                           *)
LEMMA NewIdIsNew ==
    ASSUME DOMAIN age \subseteq SessionId, DOMAIN age # SessionId
    PROVE  NewId \in SessionId /\ NewId \notin DOMAIN age
  BY DEF NewId

(* The two outcomes of mange_session_store, for the session id.            *)
Kept(c, id) ==
    /\ id = cookie[Owner[c]] /\ id \in DOMAIN sessions /\ age[id] <= Ttl
    /\ age' = age /\ sessions' = sessions
Made(c, id) ==
    /\ id \notin DOMAIN age
    /\ age' = With(age, id, 0)
    /\ sessions' = With(Without(sessions, {cookie[Owner[c]]}), id, None)
    /\ cookie[Owner[c]] \in DOMAIN sessions => age[cookie[Owner[c]]] > Ttl

LEMMA StoreOutcome ==
    ASSUME TypeOK, NEW c \in Connection, ManageSessionStore(c)
    PROVE  \E id \in SessionId :
              \/ /\ Kept(c, id)
                 /\ Managed(c) = [conn[c] EXCEPT !.presented = cookie[Owner[c]],
                                                 !.session_id = id]
              \/ /\ Made(c, id)
                 /\ Managed(c) = [conn[c] EXCEPT !.presented = cookie[Owner[c]],
                                                 !.session_id = id, !.response = id]
  <1> DEFINE b == cookie[Owner[c]]
  <1>1. CASE Known(b)
    <2>1. b \in SessionId
      BY <1>1 DEF TypeOK, Known
    <2>2. age[b] \in Int /\ Ttl \in Int
      BY <1>1, TimesAssumption DEF TypeOK, Known
    <2>3. Kept(c, b)
      BY <1>1, <2>2 DEF Kept, Known, Expired, ManageSessionStore
    <2> QED  BY <1>1, <2>1, <2>3 DEF Managed
  <1>2. CASE ~Known(b)
    <2>1. NewId \in SessionId /\ NewId \notin DOMAIN age
      BY <1>2, NewIdIsNew DEF TypeOK, ManageSessionStore
    <2>2. b \in DOMAIN sessions => age[b] > Ttl
      BY <1>2 DEF Known, Expired
    <2>3. Made(c, NewId)
      BY <1>2, <2>1, <2>2 DEF Made, ManageSessionStore
    <2> QED  BY <1>2, <2>1, <2>3 DEF Managed, Adopted
  <1> QED  BY <1>1, <1>2

(* What either request makes of the connection, field by field.            *)
Asked(c, id, k) ==
    /\ conn[c].phase = "idle"
    /\ conn' = [conn EXCEPT ![c] = k]
    /\ k.session_id = id
    /\ k.presented = cookie[Owner[c]]
    /\ \/ Kept(c, id) /\ k.response = conn[c].response
       \/ Made(c, id) /\ k.response = id
    /\ \/ k.phase = "page" /\ k.out = k.response /\ k.env = conn[c].env
       \/ k.phase = "script" /\ k.out = conn[c].out /\ k.env = sessions'[id]
    /\ UNCHANGED <<since, cookie>>

LEMMA SessionDatum ==
    ASSUME TypeOK, NEW c \in Connection, NEW id \in SessionId, Kept(c, id) \/ Made(c, id)
    PROVE  id \in DOMAIN sessions' /\ sessions'[id] \in Datum
  <1>1. CASE Kept(c, id)
    BY <1>1 DEF Kept, TypeOK
  <1>2. CASE Made(c, id)
    BY <1>2 DEF Made, With, Datum
  <1> QED  BY <1>1, <1>2

LEMMA RequestIsAsked ==
    ASSUME TypeOK, NEW c \in Connection, RequestPage(c) \/ RequestScript(c)
    PROVE  \E id \in SessionId, k \in Conn : Asked(c, id, k)
  <1>1. conn[c] \in Conn /\ cookie[Owner[c]] \in SomeId
    BY ConnType, OwnerAssumption DEF TypeOK, Told, SomeId
  <1>2. ManageSessionStore(c)
    BY DEF RequestPage, RequestScript
  <1>3. PICK id \in SessionId :
              \/ /\ Kept(c, id)
                 /\ Managed(c) = [conn[c] EXCEPT !.presented = cookie[Owner[c]],
                                                 !.session_id = id]
              \/ /\ Made(c, id)
                 /\ Managed(c) = [conn[c] EXCEPT !.presented = cookie[Owner[c]],
                                                 !.session_id = id, !.response = id]
    BY <1>2, StoreOutcome
  <1> DEFINE m == Managed(c)
  <1>4. /\ m \in Conn
        /\ m.session_id = id /\ m.presented = cookie[Owner[c]]
        /\ m.out = conn[c].out /\ m.env = conn[c].env
        /\ \/ Kept(c, id) /\ m.response = conn[c].response
           \/ Made(c, id) /\ m.response = id
    BY <1>1, <1>3 DEF Conn, SomeId
  <1> HIDE DEF m
  <1>5. CASE RequestPage(c)
    <2> DEFINE k == Answered(m, "page")
    <2>1. k \in Conn /\ Asked(c, id, k)
      BY <1>4, <1>5 DEF Asked, RequestPage, Answered, Conn, Phase, m
    <2> QED  BY <2>1
  <1>6. CASE RequestScript(c)
    <2> DEFINE k == [m EXCEPT !.phase = "script", !.env = sessions'[m.session_id]]
    <2>1. sessions'[id] \in Datum
      BY <1>4, SessionDatum
    <2>2. k \in Conn /\ Asked(c, id, k)
      BY <1>4, <1>6, <2>1 DEF Asked, RequestScript, Conn, Phase, m
    <2> QED  BY <2>2
  <1> QED  BY <1>5, <1>6

-----------------------------------------------------------------------------
(* Types.                                                                  *)

StoreType ==
    /\ DOMAIN age \subseteq SessionId
    /\ age \in [DOMAIN age -> 0 .. Ttl + 1]
    /\ DOMAIN sessions \subseteq DOMAIN age
    /\ sessions \in [DOMAIN sessions -> Datum]

LEMMA StoreStep ==
    ASSUME TypeOK, NEW c \in Connection, NEW id \in SessionId, Kept(c, id) \/ Made(c, id)
    PROVE  StoreType' /\ Told \subseteq Told' /\ id \in DOMAIN age'
  <1>1. CASE Kept(c, id)
    BY <1>1 DEF Kept, TypeOK, StoreType, Told
  <1>2. CASE Made(c, id)
    <2>1. 0 \in 0 .. Ttl + 1 /\ None \in Datum
      BY TimesAssumption DEF Datum
    <2>2. DOMAIN age' = DOMAIN age \cup {id} /\ age' \in [DOMAIN age' -> 0 .. Ttl + 1]
      BY <1>2, <2>1 DEF Made, With, TypeOK
    <2>3. /\ DOMAIN sessions' = (DOMAIN sessions \ {cookie[Owner[c]]}) \cup {id}
          /\ sessions' \in [DOMAIN sessions' -> Datum]
      BY <1>2, <2>1 DEF Made, With, Without, TypeOK
    <2> QED  BY <2>2, <2>3 DEF TypeOK, StoreType, Told
  <1> QED  BY <1>1, <1>2

LEMMA TypeStep ==
    ASSUME TypeOK, [Next]_vars
    PROVE  TypeOK'
  <1>1. ASSUME NEW c \in Connection, RequestPage(c) \/ RequestScript(c)
        PROVE  TypeOK'
    <2>1. PICK id \in SessionId, k \in Conn : Asked(c, id, k)
      BY <1>1, RequestIsAsked
    <2>2. Kept(c, id) \/ Made(c, id)
      BY <2>1 DEF Asked
    <2>3. StoreType' /\ Told \subseteq Told' /\ id \in DOMAIN age'
      BY <2>2, StoreStep
    <2>4. /\ cookie' = cookie /\ since' = since /\ cookie \in [Browser -> Told]
          /\ cookie[Owner[c]] \in Told
      BY <2>1, OwnerAssumption DEF Asked, TypeOK
    <2>5. /\ k.session_id \in Told' /\ k.presented \in Told'
          /\ k.response \in Told' /\ k.out \in Told' /\ k.session_id # None
      BY <2>1, <2>3, <2>4, NoneAssumption DEF Asked, TypeOK, Told
    <2>6. k \in [phase : Phase, env : Datum, session_id : Told', presented : Told',
                 response : Told', out : Told']
      BY <2>5 DEF Conn
    <2>7. conn' \in [Connection ->
              [phase : Phase, env : Datum, session_id : Told', presented : Told',
               response : Told', out : Told']]
      BY <2>1, <2>3, <2>6 DEF Asked, TypeOK, Phase
    <2>8. \A d \in Connection : conn'[d].phase # "idle" => conn'[d].session_id # None
      BY <2>1, <2>5 DEF Asked, TypeOK
    <2> QED  BY <2>3, <2>4, <2>7, <2>8 DEF TypeOK, StoreType, Phase
  <1>2. ASSUME NEW c \in Connection, ScriptOutput(c)
        PROVE  TypeOK'
    <2>1. CASE conn[c].session_id \in DOMAIN sessions
      <3>1. PICK datum \in {sessions[conn[c].session_id], Owner[c]} :
               sessions' = With(sessions, conn[c].session_id, datum)
        BY <1>2, <2>1 DEF ScriptOutput
      <3>2. datum \in Datum
        BY <2>1, <3>1, OwnerAssumption DEF TypeOK, Datum
      <3>3. DOMAIN sessions' = DOMAIN sessions /\ sessions' \in [DOMAIN sessions -> Datum]
        BY <2>1, <3>1, <3>2 DEF With, TypeOK
      <3> QED  BY <1>2, <2>1, <3>3 DEF ScriptOutput, TypeOK, Told
    <2>2. CASE conn[c].session_id \notin DOMAIN sessions
      BY <1>2, <2>2 DEF ScriptOutput, TypeOK, Told
    <2> QED  BY <2>1, <2>2
  <1>3. ASSUME NEW c \in Connection, ScriptError(c)
        PROVE  TypeOK'
    <2> DEFINE T == [phase : Phase, env : Datum, session_id : Told, presented : Told,
                     response : Told, out : Told]
               k == Answered(conn[c], "output")
    <2>1. conn \in [Connection -> T] /\ conn[c] \in T
      BY DEF TypeOK, Phase
    <2>2. k \in T /\ k.session_id = conn[c].session_id /\ conn[c].phase # "idle"
      BY <1>3, <2>1 DEF ScriptError, Answered, Phase
    <2>3. conn' = [conn EXCEPT ![c] = k] /\ UNCHANGED <<age, sessions, since, cookie>>
      BY <1>3 DEF ScriptError
    <2> HIDE DEF k
    <2>4. conn' \in [Connection -> T]
      BY <2>1, <2>2, <2>3
    <2>5. \A d \in Connection : conn'[d].phase # "idle" => conn'[d].session_id # None
      BY <2>1, <2>2, <2>3 DEF TypeOK
    <2> QED  BY <2>3, <2>4, <2>5 DEF TypeOK, Told, Phase
  <1>4. ASSUME NEW c \in Connection, Write(c)
        PROVE  TypeOK'
    <2>1. Drained(conn[c]) = [NewConnection EXCEPT !.session_id = conn[c].session_id]
      BY DEF Drained
    <2>2. cookie' \in [Browser -> Told]
      BY <1>4, OwnerAssumption DEF Write, TypeOK, Told
    <2> QED  BY <1>4, <2>1, <2>2 DEF Write, NewConnection, TypeOK, Told, Datum
  <1>5. ASSUME NEW c \in Connection, WriteNothing(c) \/ Drop(c)
        PROVE  TypeOK'
    BY <1>5 DEF WriteNothing, Drop, NewConnection, TypeOK, Told, Datum
  <1>6. ASSUME NEW b \in Browser, Forget(b)
        PROVE  TypeOK'
    BY <1>6 DEF Forget, TypeOK, Told
  <1>7. CASE Tick
    <2>1. DOMAIN age' = DOMAIN age /\ age' \in [DOMAIN age -> 0 .. Ttl + 1]
      BY <1>7, TimesAssumption DEF Tick, TypeOK
    <2>2. since' \in 0 .. CleanUp + 1
      BY <1>7, TimesAssumption DEF Tick, TypeOK
    <2> QED  BY <1>7, <2>1, <2>2 DEF Tick, TypeOK, Told
  <1>8. CASE Sweep
    BY <1>8, TimesAssumption DEF Sweep, Without, TypeOK, Told
  <1>9. CASE UNCHANGED vars
    BY <1>9 DEF vars, TypeOK, Told
  <1> QED  BY <1>1, <1>2, <1>3, <1>4, <1>5, <1>6, <1>7, <1>8, <1>9 DEF Next

-----------------------------------------------------------------------------
(* What answers tell.                                                      *)

LEMMA ToldStep ==
    ASSUME TypeOK, ToldInv, ToldItsSession, [Next]_vars
    PROVE  ToldInv' /\ ToldItsSession'
  <1> USE DEF ToldInv, ToldItsSession
  <1>0. conn \in [Connection -> Conn]
    BY ConnType
  <1>1. ASSUME NEW c \in Connection, RequestPage(c) \/ RequestScript(c)
        PROVE  ToldInv' /\ ToldItsSession'
    <2>1. PICK id \in SessionId, k \in Conn : Asked(c, id, k)
      BY <1>1, RequestIsAsked
    <2>2. /\ k.response \in {None, k.session_id} /\ k.out \in {None, k.session_id}
          /\ k.phase # "idle"
          /\ k.phase = "page" => k.session_id \in {k.presented, k.out}
      BY <2>1 DEF Asked, Kept
    <2> QED  BY <1>0, <2>1, <2>2 DEF Asked
  <1>2. ASSUME NEW c \in Connection, ScriptOutput(c)
        PROVE  ToldInv' /\ ToldItsSession'
    BY <1>0, <1>2 DEF ScriptOutput, Conn
  <1>3. ASSUME NEW c \in Connection, ScriptError(c)
        PROVE  ToldInv' /\ ToldItsSession'
    <2> DEFINE k == Answered(conn[c], "output")
    <2>1. /\ k.session_id = conn[c].session_id /\ k.phase = "output"
          /\ k.response = conn[c].response /\ k.out = conn[c].response
      BY <1>0 DEF Answered, Conn
    <2>2. conn' = [conn EXCEPT ![c] = k]
      BY <1>3 DEF ScriptError
    <2> HIDE DEF k
    <2> QED  BY <1>0, <2>1, <2>2
  <1>4. ASSUME NEW c \in Connection, Write(c)
        PROVE  ToldInv' /\ ToldItsSession'
    BY <1>0, <1>4 DEF Write, Drained, NewConnection
  <1>5. ASSUME NEW c \in Connection, WriteNothing(c) \/ Drop(c)
        PROVE  ToldInv' /\ ToldItsSession'
    BY <1>0, <1>5 DEF WriteNothing, Drop, NewConnection, Conn
  <1>6. ASSUME conn' = conn
        PROVE  ToldInv' /\ ToldItsSession'
    BY <1>6
  <1> QED  BY <1>1, <1>2, <1>3, <1>4, <1>5, <1>6 DEF Next, Forget, Tick, Sweep, vars

-----------------------------------------------------------------------------
(* Only age ends a session.                                                *)

LEMMA LifeStep ==
    ASSUME TypeOK, LifeInv, LostOnlyByExpiry, [Next]_vars
    PROVE  LifeInv' /\ LostOnlyByExpiry'
  <1>0. /\ conn \in [Connection -> Conn] /\ NoneAssumption
        /\ \A c \in Connection : conn[c].phase # "idle" => conn[c].session_id \in DOMAIN age
    BY ConnType, NoneAssumption DEF TypeOK, Told
  <1>1. ASSUME NEW c \in Connection, RequestPage(c) \/ RequestScript(c)
        PROVE  LifeInv' /\ LostOnlyByExpiry'
    <2>1. PICK id \in SessionId, k \in Conn : Asked(c, id, k)
      BY <1>1, RequestIsAsked
    <2>2. k.phase # "lost" /\ conn' = [conn EXCEPT ![c] = k]
      BY <2>1 DEF Asked
    <2>3. CASE Kept(c, id)
      BY <1>0, <2>2, <2>3 DEF Kept, LifeInv, LostOnlyByExpiry
    <2>4. CASE Made(c, id)
      <3>1. \A i \in DOMAIN age : i \in DOMAIN age' /\ age'[i] = age[i]
        BY <2>4 DEF Made, With
      <3>2. LostOnlyByExpiry'
        BY <1>0, <2>2, <3>1 DEF LostOnlyByExpiry
      <3>3. \A i \in DOMAIN age' \ DOMAIN sessions' :
               i \in DOMAIN age /\ (i \notin DOMAIN sessions \/ i = cookie[Owner[c]])
        BY <2>4 DEF Made, With, Without
      <3>4. LifeInv'
        BY <2>4, <3>1, <3>3 DEF Made, LifeInv
      <3> QED  BY <3>2, <3>4
    <2> QED  BY <2>1, <2>3, <2>4 DEF Asked
  <1>2. ASSUME NEW c \in Connection, ScriptOutput(c)
        PROVE  LifeInv' /\ LostOnlyByExpiry'
    <2>1. DOMAIN sessions' = DOMAIN sessions /\ age' = age
      BY <1>2 DEF ScriptOutput, With
    <2>2. ASSUME NEW d \in Connection, conn'[d].phase = "lost"
          PROVE  age'[conn'[d].session_id] > Ttl
      BY <1>0, <1>2, <2>1, <2>2 DEF ScriptOutput, LifeInv, LostOnlyByExpiry, Conn
    <2> QED  BY <2>1, <2>2 DEF LifeInv, LostOnlyByExpiry
  <1>3. ASSUME NEW c \in Connection, ScriptError(c) \/ Write(c) \/ WriteNothing(c) \/ Drop(c)
        PROVE  LifeInv' /\ LostOnlyByExpiry'
    <2>1. age' = age /\ sessions' = sessions
      BY <1>3 DEF ScriptError, Write, WriteNothing, Drop
    <2>2. conn'[c].phase # "lost"
      <3>1. Answered(conn[c], "output").phase = "output"
        BY <1>0 DEF Answered, Conn
      <3>2. CASE ScriptError(c)
        BY <1>0, <3>1, <3>2 DEF ScriptError
      <3>3. CASE Write(c) \/ WriteNothing(c) \/ Drop(c)
        BY <1>0, <3>3 DEF Write, WriteNothing, Drop, Drained, NewConnection, Conn
      <3> QED  BY <1>3, <3>2, <3>3
    <2>3. \A d \in Connection \ {c} : conn'[d] = conn[d]
      BY <1>0, <1>3 DEF ScriptError, Write, WriteNothing, Drop
    <2> QED  BY <2>1, <2>2, <2>3 DEF LifeInv, LostOnlyByExpiry
  <1>4. CASE Tick
    <2>1. \A i \in DOMAIN age : i \in DOMAIN age' /\ (age[i] > Ttl => age'[i] > Ttl)
      BY <1>4 DEF Tick
    <2>2. DOMAIN age' = DOMAIN age /\ sessions' = sessions /\ conn' = conn
      BY <1>4 DEF Tick
    <2> QED  BY <1>0, <2>1, <2>2 DEF LifeInv, LostOnlyByExpiry
  <1>5. CASE Sweep
    BY <1>5 DEF Sweep, Without, Swept, Expired, LifeInv, LostOnlyByExpiry
  <1>6. ASSUME UNCHANGED <<age, sessions, conn>>
        PROVE  LifeInv' /\ LostOnlyByExpiry'
    BY <1>6 DEF LifeInv, LostOnlyByExpiry
  <1> QED  BY <1>1, <1>2, <1>3, <1>4, <1>5, <1>6 DEF Next, Forget, vars

-----------------------------------------------------------------------------
(* Browsers stay apart.                                                    *)

LEMMA SeenIsMade ==
    ASSUME TypeOK, NEW b \in Browser
    PROVE  Seen(b) \subseteq DOMAIN age
  BY NoneAssumption DEF Seen, TypeOK, Told

(* A step lets browsers see what they have seen, and one of them perhaps a *)
(* session that is new.                                                    *)
Learns(b, I) ==
    /\ Seen(b)' \subseteq Seen(b) \cup I
    /\ \A d \in Browser : d # b => Seen(d)' \subseteq Seen(d)

LEMMA SeenAtConnection ==
    ASSUME TypeOK, NEW c \in Connection, NEW k \in Conn, NEW I,
           conn' = [conn EXCEPT ![c] = k], cookie' = cookie,
           \A id \in {k.session_id, k.response, k.out} \cap SessionId :
              id \in Seen(Owner[c]) \cup I
    PROVE  Learns(Owner[c], I)
  <1>1. \A d \in Connection \ {c} : conn'[d] = conn[d]
    BY DEF TypeOK
  <1>2. conn'[c] = k
    BY DEF TypeOK
  <1>3. ASSUME NEW d \in Browser, NEW i \in Seen(d)'
        PROVE  i \in Seen(d) \/ (d = Owner[c] /\ i \in I)
    <2>1. i \in SessionId
      BY <1>3 DEF Seen
    <2>2. CASE i = cookie[d]
      BY <2>1, <2>2 DEF Seen
    <2>3. CASE i # cookie[d]
      <3>1. PICK e \in Connection :
               Owner[e] = d /\ i \in {conn'[e].session_id, conn'[e].response, conn'[e].out}
        BY <1>3, <2>3 DEF Seen
      <3>2. CASE e = c
        BY <1>2, <2>1, <3>1, <3>2
      <3>3. CASE e # c
        BY <1>1, <2>1, <3>1, <3>3 DEF Seen
      <3> QED  BY <3>2, <3>3
    <2> QED  BY <2>2, <2>3
  <1> QED  BY <1>3, OwnerAssumption DEF Learns

LEMMA ApartWhenNothingIsSeen ==
    ASSUME SessionsApart, NEW b \in Browser, Learns(b, {})
    PROVE  \A e, d \in Browser : e # d => Seen(e)' \cap Seen(d)' = {}
  BY DEF SessionsApart, Learns

LEMMA ApartAsked ==
    ASSUME TypeOK, ToldInv, SessionsApart, NEW c \in Connection, NEW id \in SessionId,
           NEW k \in Conn, Asked(c, id, k)
    PROVE  SessionsApart'
  <1> DEFINE b == Owner[c]
  <1>1. b \in Browser /\ conn[c].response = None /\ conn[c].out = None
    BY OwnerAssumption DEF Asked, ToldInv
  <1>2. Learns(b, {id})
    <2>1. {k.session_id, k.response, k.out} \subseteq {id, None}
      BY <1>1 DEF Asked
    <2>2. \A i \in {k.session_id, k.response, k.out} \cap SessionId : i \in Seen(b) \cup {id}
      BY <2>1, NoneAssumption
    <2>3. conn' = [conn EXCEPT ![c] = k] /\ cookie' = cookie
      BY DEF Asked
    <2> QED  BY <2>2, <2>3, SeenAtConnection
  <1>3. /\ conn \in [Connection -> Conn] /\ conn'[c] = k
        /\ \A d \in Connection \ {c} : conn'[d] = conn[d]
    BY ConnType DEF Asked
  <1>4. CASE Kept(c, id)
    <2>1. id \in Seen(b) /\ id \in DOMAIN sessions /\ sessions' = sessions
      BY <1>4 DEF Kept, Seen
    <2>2. \A d \in Browser : Seen(d)' \subseteq Seen(d)
      BY <1>2, <2>1 DEF Learns
    <2>3. sessions[id] \in {None, b}
      BY <1>1, <2>1 DEF SessionsApart
    <2>4. k.env \in {None, b}
      BY <2>1, <2>3 DEF Asked, SessionsApart
    <2> QED  BY <1>3, <2>1, <2>2, <2>4 DEF SessionsApart
  <1>5. CASE Made(c, id)
    <2>1. \A d \in Browser : id \notin Seen(d)
      BY <1>5, SeenIsMade DEF Made
    <2>2. \A e, d \in Browser : e # d => Seen(e)' \cap Seen(d)' = {}
      BY <1>1, <1>2, <2>1 DEF Learns, SessionsApart
    <2>3. /\ id \in DOMAIN sessions' /\ sessions'[id] = None
          /\ \A i \in DOMAIN sessions' \ {id} : i \in DOMAIN sessions /\ sessions'[i] = sessions[i]
      BY <1>5 DEF Made, With, Without
    <2>4. \A d \in Connection : conn'[d].env \in {None, Owner[d]}
      BY <1>3, <2>3 DEF Asked, SessionsApart
    <2>5. ASSUME NEW d \in Browser, NEW i \in Seen(d)' \cap DOMAIN sessions'
          PROVE  sessions'[i] \in {None, d}
      BY <1>1, <1>2, <2>3, <2>5 DEF Learns, SessionsApart
    <2> QED  BY <2>2, <2>4, <2>5 DEF SessionsApart
  <1> QED  BY <1>4, <1>5 DEF Asked
(* A step that adds nothing to what is seen, to the data or to what the    *)
(* scripts were given keeps browsers apart.                                *)
LEMMA ApartKept ==
    ASSUME SessionsApart,
           \A d \in Browser : Seen(d)' \subseteq Seen(d),
           \A d \in Connection : conn'[d].env \in {None, Owner[d]},
           \A i \in DOMAIN sessions' : i \in DOMAIN sessions /\ sessions'[i] = sessions[i]
    PROVE  SessionsApart'
  BY DEF SessionsApart

(* What is seen at a connection, when it becomes k by a step that makes no *)
(* session.                                                                *)
LEMMA NothingNew ==
    ASSUME TypeOK, NEW c \in Connection, NEW k \in Conn,
           conn' = [conn EXCEPT ![c] = k], cookie' = cookie,
           {k.session_id, k.response, k.out} \subseteq
               {None, conn[c].session_id, conn[c].response, conn[c].out}
    PROVE  \A d \in Browser : Seen(d)' \subseteq Seen(d)
  <1>1. \A i \in {k.session_id, k.response, k.out} \cap SessionId :
           i \in Seen(Owner[c]) \cup {}
    BY NoneAssumption DEF Seen
  <1>2. Learns(Owner[c], {})
    BY <1>1, SeenAtConnection
  <1> QED  BY <1>2 DEF Learns

LEMMA ApartStep ==
    ASSUME TypeOK, ToldInv, SessionsApart, [Next]_vars
    PROVE  SessionsApart'
  <1>0. conn \in [Connection -> Conn] /\ NewConnection \in Conn
    BY ConnType DEF NewConnection, Conn, Phase, Datum, SomeId
  <1>1. ASSUME NEW c \in Connection, RequestPage(c) \/ RequestScript(c)
        PROVE  SessionsApart'
    BY <1>1, RequestIsAsked, ApartAsked
  <1>2. ASSUME NEW c \in Connection, ScriptOutput(c)
        PROVE  SessionsApart'
    <2> DEFINE id == conn[c].session_id
    <2>1. PICK p \in Phase : conn' = [conn EXCEPT ![c].phase = p]
      BY <1>2 DEF ScriptOutput, Phase
    <2>2. \A d \in Connection : /\ conn'[d].session_id = conn[d].session_id
                               /\ conn'[d].response = conn[d].response
                               /\ conn'[d].out = conn[d].out
                               /\ conn'[d].env = conn[d].env
      BY <1>0, <2>1 DEF Conn
    <2>3. cookie' = cookie
      BY <1>2 DEF ScriptOutput
    <2>4. \A d \in Browser : Seen(d)' = Seen(d)
      BY <2>2, <2>3 DEF Seen
    <2>5. CASE id \in DOMAIN sessions
      <3>1. PICK datum \in {sessions[id], Owner[c]} : sessions' = With(sessions, id, datum)
        BY <1>2, <2>5 DEF ScriptOutput
      <3>2. Owner[c] \in Browser /\ id \in Seen(Owner[c])
        BY <2>5, OwnerAssumption DEF Seen, TypeOK
      <3>3. sessions'[id] \in {None, Owner[c]} /\ DOMAIN sessions' = DOMAIN sessions
        <4>1. sessions[id] \in {None, Owner[c]}
          BY <2>5, <3>2 DEF SessionsApart
        <4>2. sessions'[id] = datum /\ DOMAIN sessions' = DOMAIN sessions
          BY <2>5, <3>1 DEF With
        <4> QED  BY <4>1, <4>2
      <3>4. \A i \in DOMAIN sessions \ {id} : sessions'[i] = sessions[i]
        BY <3>1 DEF With
      <3>5. ASSUME NEW d \in Browser, NEW i \in Seen(d)' \cap DOMAIN sessions'
            PROVE  sessions'[i] \in {None, d}
        <4>1. CASE i = id
          BY <2>4, <3>2, <3>3, <3>5, <4>1 DEF SessionsApart
        <4>2. CASE i # id
          BY <2>4, <3>3, <3>4, <3>5, <4>2 DEF SessionsApart
        <4> QED  BY <4>1, <4>2
      <3> QED  BY <2>2, <2>4, <3>5 DEF SessionsApart
    <2>6. CASE id \notin DOMAIN sessions
      <3>1. sessions' = sessions
        BY <1>2, <2>6 DEF ScriptOutput
      <3> QED  BY <2>2, <2>4, <3>1 DEF SessionsApart
    <2> QED  BY <2>5, <2>6
  <1>3. ASSUME NEW c \in Connection, ScriptError(c)
        PROVE  SessionsApart'
    <2> DEFINE k == Answered(conn[c], "output")
    <2>1. /\ k \in Conn /\ k.env = conn[c].env
          /\ k.session_id = conn[c].session_id /\ k.response = conn[c].response
          /\ k.out = conn[c].response
      BY <1>0 DEF Answered, Conn, Phase
    <2>2. conn' = [conn EXCEPT ![c] = k] /\ cookie' = cookie /\ sessions' = sessions
      BY <1>3 DEF ScriptError
    <2> HIDE DEF k
    <2>3. \A d \in Browser : Seen(d)' \subseteq Seen(d)
      BY <2>1, <2>2, NothingNew
    <2>4. \A d \in Connection : conn'[d].env \in {None, Owner[d]}
      BY <1>0, <2>1, <2>2 DEF SessionsApart
    <2> QED  BY <2>2, <2>3, <2>4, ApartKept
  <1>4. ASSUME NEW c \in Connection, Write(c)
        PROVE  SessionsApart'
    <2> DEFINE k == Drained(conn[c])
    <2>1. /\ k \in Conn /\ k.env = None
          /\ k.session_id = conn[c].session_id /\ k.response = None /\ k.out = None
      BY <1>0 DEF Drained, NewConnection, Conn
    <2>2. conn' = [conn EXCEPT ![c] = k] /\ sessions' = sessions
      BY <1>4 DEF Write
    <2> HIDE DEF k
    <2>3. \A d \in Connection \ {c} : conn'[d] = conn[d]
      BY <1>0, <2>2
    <2>4. conn'[c] = k
      BY <1>0, <2>2
    <2>5. ASSUME NEW d \in Browser, NEW i \in Seen(d)'
          PROVE  i \in Seen(d)
      <3>1. i \in SessionId
        BY <2>5 DEF Seen
      <3>2. CASE i = cookie'[d]
        <4>1. cookie'[d] = cookie[d] \/ (d = Owner[c] /\ cookie'[d] = conn[c].out)
          BY <1>4 DEF Write, TypeOK
        <4> QED  BY <3>1, <3>2, <4>1 DEF Seen
      <3>3. CASE i # cookie'[d]
        <4>1. PICK e \in Connection :
                 Owner[e] = d /\ i \in {conn'[e].session_id, conn'[e].response, conn'[e].out}
          BY <2>5, <3>3 DEF Seen
        <4>2. i \in {conn[e].session_id, conn[e].response, conn[e].out}
          BY <2>1, <2>3, <2>4, <3>1, <4>1, NoneAssumption
        <4> QED  BY <3>1, <4>1, <4>2 DEF Seen
      <3> QED  BY <3>2, <3>3
    <2>6. \A d \in Connection : conn'[d].env \in {None, Owner[d]}
      BY <2>1, <2>3, <2>4 DEF SessionsApart
    <2> QED  BY <2>2, <2>5, <2>6, ApartKept
  <1>5. ASSUME NEW c \in Connection, WriteNothing(c) \/ Drop(c)
        PROVE  SessionsApart'
    <2>1. PICK k \in {NewConnection, [conn[c] EXCEPT !.response = None]} :
             conn' = [conn EXCEPT ![c] = k] /\ cookie' = cookie /\ sessions' = sessions
      BY <1>5 DEF WriteNothing, Drop
    <2>2. /\ k \in Conn /\ k.env \in {None, conn[c].env}
          /\ {k.session_id, k.response, k.out} \subseteq
                {None, conn[c].session_id, conn[c].response, conn[c].out}
      BY <1>0 DEF Conn, NewConnection, SomeId
    <2>3. \A d \in Browser : Seen(d)' \subseteq Seen(d)
      BY <2>1, <2>2, NothingNew
    <2>4. \A d \in Connection : conn'[d].env \in {None, Owner[d]}
      BY <1>0, <2>1, <2>2 DEF SessionsApart
    <2> QED  BY <2>1, <2>3, <2>4, ApartKept
  <1>6. ASSUME NEW b \in Browser, Forget(b)
        PROVE  SessionsApart'
    <2>1. conn' = conn /\ sessions' = sessions
      BY <1>6 DEF Forget
    <2>2. \A d \in Browser : cookie'[d] \in {None, cookie[d]}
      BY <1>6 DEF Forget, TypeOK
    <2>3. \A d \in Browser : Seen(d)' \subseteq Seen(d)
      BY <2>1, <2>2, NoneAssumption DEF Seen
    <2>4. \A d \in Connection : conn'[d].env \in {None, Owner[d]}
      BY <2>1 DEF SessionsApart
    <2> QED  BY <2>1, <2>3, <2>4, ApartKept
  <1>7. CASE Tick \/ Sweep \/ UNCHANGED vars
    <2>1. conn' = conn /\ cookie' = cookie
      BY <1>7 DEF Tick, Sweep, vars
    <2>2. \A i \in DOMAIN sessions' : i \in DOMAIN sessions /\ sessions'[i] = sessions[i]
      BY <1>7 DEF Tick, Sweep, Without, vars
    <2>3. \A d \in Browser : Seen(d)' = Seen(d)
      BY <2>1 DEF Seen
    <2>4. \A d \in Connection : conn'[d].env \in {None, Owner[d]}
      BY <2>1 DEF SessionsApart
    <2> QED  BY <2>2, <2>3, <2>4, ApartKept
  <1> QED  BY <1>1, <1>2, <1>3, <1>4, <1>5, <1>6, <1>7 DEF Next

-----------------------------------------------------------------------------
(* Sessions live for their time.                                           *)

(* What a step may do to the store, and to the session of a connection.    *)
Lives ==
    \A id \in DOMAIN sessions :
        age[id] <= Ttl => /\ id \in DOMAIN sessions'
                          /\ sessions[id] # None => sessions'[id] # None
NotOlder ==
    \A c \in Connection :
        conn'[c].session_id \notin {conn[c].session_id, None} => age'[conn'[c].session_id] <= Ttl

LEMMA LivesStep ==
    ASSUME TypeOK, ToldInv, [Next]_vars
    PROVE  Lives /\ NotOlder
  <1>0. /\ conn \in [Connection -> Conn] /\ Ttl \in Nat
        /\ \A id \in DOMAIN sessions : age[id] \in Int
    BY ConnType, TimesAssumption DEF TypeOK
  <1>1. ASSUME NEW c \in Connection, RequestPage(c) \/ RequestScript(c)
        PROVE  Lives /\ NotOlder
    <2>1. PICK id \in SessionId, k \in Conn : Asked(c, id, k)
      BY <1>1, RequestIsAsked
    <2>2. /\ conn'[c].session_id = id
          /\ \A d \in Connection \ {c} : conn'[d] = conn[d]
      BY <1>0, <2>1 DEF Asked
    <2>3. CASE Kept(c, id)
      BY <2>2, <2>3 DEF Kept, Lives, NotOlder
    <2>4. CASE Made(c, id)
      <3>1. age'[id] <= Ttl
        BY <1>0, <2>4 DEF Made, With
      <3>2. \A i \in DOMAIN sessions : i # cookie[Owner[c]] =>
               i # id /\ i \in DOMAIN sessions' /\ sessions'[i] = sessions[i]
        BY <2>4 DEF Made, With, Without, TypeOK
      <3>3. Lives
        BY <1>0, <2>4, <3>2 DEF Lives, Made
      <3> QED  BY <2>2, <3>1, <3>3 DEF NotOlder
    <2> QED  BY <2>1, <2>3, <2>4 DEF Asked
  <1>2. ASSUME NEW c \in Connection, ScriptOutput(c)
        PROVE  Lives /\ NotOlder
    <2>1. \A d \in Connection : conn'[d].session_id = conn[d].session_id
      BY <1>0, <1>2 DEF ScriptOutput, Conn
    <2>2. Owner[c] # None
      BY OwnerAssumption, NoneAssumption
    <2>3. Lives
      BY <1>2, <2>2 DEF ScriptOutput, With, Lives
    <2> QED  BY <2>1, <2>3 DEF NotOlder
  <1>3. ASSUME NEW c \in Connection, NEW k \in Conn, conn' = [conn EXCEPT ![c] = k],
               k.session_id \in {conn[c].session_id, None}, sessions' = sessions
        PROVE  Lives /\ NotOlder
    BY <1>0, <1>3 DEF Lives, NotOlder
  <1>4. ASSUME NEW c \in Connection, ScriptError(c) \/ Write(c) \/ WriteNothing(c) \/ Drop(c)
        PROVE  Lives /\ NotOlder
    <2>1. PICK k \in {Answered(conn[c], "output"), Drained(conn[c]), NewConnection,
                      [conn[c] EXCEPT !.response = None]} :
             conn' = [conn EXCEPT ![c] = k] /\ sessions' = sessions
      BY <1>4 DEF ScriptError, Write, WriteNothing, Drop
    <2>2. NewConnection \in Conn /\ NewConnection.session_id = None
      BY DEF NewConnection, Conn, Phase, SomeId, Datum
    <2>3. k \in Conn /\ k.session_id \in {conn[c].session_id, None}
      <3>1. CASE k = Answered(conn[c], "output")
        BY <1>0, <3>1, ZenonT(60) DEF Answered, Conn, Phase
      <3>2. CASE k = Drained(conn[c])
        BY <1>0, <2>2, <3>2 DEF Drained, Conn
      <3>3. CASE k = NewConnection
        BY <2>2, <3>3
      <3>4. CASE k = [conn[c] EXCEPT !.response = None]
        BY <1>0, <3>4 DEF Conn, SomeId
      <3> QED  BY <2>1, <3>1, <3>2, <3>3, <3>4
    <2> QED  BY <1>3, <2>1, <2>3
  <1>5. CASE Sweep
    BY <1>0, <1>5 DEF Sweep, Swept, Expired, Without, Lives, NotOlder
  <1>6. ASSUME conn' = conn, sessions' = sessions
        PROVE  Lives /\ NotOlder
    BY <1>6 DEF Lives, NotOlder
  <1> QED  BY <1>1, <1>2, <1>4, <1>5, <1>6 DEF Next, Forget, Tick, vars

-----------------------------------------------------------------------------
(* The theorems.                                                           *)

LEMMA InitInv == Init => IInv
  <1> SUFFICES ASSUME Init PROVE IInv
    OBVIOUS
  <1>1. conn = [c \in Connection |-> NewConnection] /\ None \in Datum /\ None \in Told
    BY DEF Init, Datum, Told
  <1>2. 0 \in 0 .. CleanUp + 1
    BY TimesAssumption
  <1>3. TypeOK
    BY <1>1, <1>2 DEF Init, TypeOK, NewConnection
  <1>4. ToldInv /\ ToldItsSession /\ LifeInv /\ LostOnlyByExpiry
    BY <1>1 DEF Init, NewConnection, ToldInv, ToldItsSession, LifeInv, LostOnlyByExpiry
  <1>5. ASSUME NEW b \in Browser, NEW id \in Seen(b)
        PROVE  FALSE
    <2>1. id \in SessionId /\ id # None /\ cookie[b] = None
      BY <1>5, NoneAssumption DEF Init, Seen
    <2>2. \A c \in Connection : conn[c].session_id = None /\ conn[c].response = None
                               /\ conn[c].out = None
      BY <1>1 DEF NewConnection
    <2> QED  BY <1>5, <2>1, <2>2 DEF Seen
  <1>6. SessionsApart
    BY <1>1, <1>5 DEF NewConnection, SessionsApart
  <1> QED  BY <1>3, <1>4, <1>6 DEF IInv

LEMMA NextInv == IInv /\ [Next]_vars => IInv'
  BY TypeStep, ToldStep, LifeStep, ApartStep DEF IInv

(* The inductive invariant holds in every state.                           *)
THEOREM Invariance == Spec => []IInv
  BY InitInv, NextInv, PTL DEF Spec

(* The state is of the kind declared, and a request being served has a     *)
(* session that was made.                                                  *)
THEOREM TypeCorrect == Spec => []TypeOK
  <1>1. IInv => TypeOK
    BY DEF IInv
  <1> QED  BY <1>1, Invariance, PTL

(* No session id is known to two browsers and no script reads what another *)
(* browser's wrote, for any number of browsers, connections and sessions.  *)
THEOREM BrowsersApart == Spec => []SessionsApart
  <1>1. IInv => SessionsApart
    BY DEF IInv
  <1> QED  BY <1>1, Invariance, PTL

(* A page tells the browser the session it was served with, and no answer  *)
(* tells another, however often conn.response is made anew.                *)
THEOREM AnswersTell == Spec => []ToldItsSession
  <1>1. IInv => ToldItsSession
    BY DEF IInv
  <1> QED  BY <1>1, Invariance, PTL

(* A script's output is dropped for want of a session only when the        *)
(* session is past its time (read_cgi_output, cleanup).                    *)
THEOREM OutputLostOnlyByExpiry == Spec => []LostOnlyByExpiry
  <1>1. IInv => LostOnlyByExpiry
    BY DEF IInv
  <1> QED  BY <1>1, Invariance, PTL

(* No step takes a session or its datum away before its time, and none     *)
(* gives a connection a session past it (mange_session_store, cleanup).    *)
THEOREM SessionsLive == Spec => SessionLifetime
  <1>1. IInv /\ [Next]_vars =>
          [/\ \A id \in DOMAIN sessions :
                 age[id] <= Ttl => /\ id \in DOMAIN sessions'
                                   /\ sessions[id] # None => sessions'[id] # None
           /\ \A c \in Connection : conn'[c].session_id \notin {conn[c].session_id, None}
                 => age'[conn'[c].session_id] <= Ttl]_vars
    BY LivesStep DEF IInv, Lives, NotOlder
  <1> QED  BY <1>1, Invariance, PTL DEF Spec, SessionLifetime

(* A session that was made only gets older, one that has left the store    *)
(* does not come back, whoever returns with its cookie or writes to it     *)
(* from a script that outlived it, and a sweep leaves none that is past    *)
(* its time.  With the fairness of time and of the sweep this is why       *)
(* ExpiredSwept holds.                                                     *)
Ageing ==
    \A id \in DOMAIN age :
        /\ id \in DOMAIN age' /\ age'[id] >= age[id]
        /\ id \notin DOMAIN sessions => id \notin DOMAIN sessions'
        /\ since' < since /\ id \in DOMAIN sessions' => age'[id] <= Ttl
THEOREM EndedForGood == Spec => [][Ageing]_vars
  <1>1. ASSUME TypeOK, Next
        PROVE  Ageing
    <2>0. /\ Ttl \in Nat /\ CleanUp \in Nat /\ since \in Int
          /\ \A id \in DOMAIN age : age[id] \in Int
          /\ DOMAIN sessions \subseteq DOMAIN age
      BY <1>1, TimesAssumption DEF TypeOK
    <2>1. ASSUME NEW c \in Connection, RequestPage(c) \/ RequestScript(c)
          PROVE  Ageing
      <3>1. PICK id \in SessionId, k \in Conn : Asked(c, id, k)
        BY <1>1, <2>1, RequestIsAsked
      <3>2. since' = since
        BY <2>1 DEF RequestPage, RequestScript
      <3>3. CASE Kept(c, id)
        BY <2>0, <3>2, <3>3 DEF Kept, Ageing
      <3>4. CASE Made(c, id)
        BY <2>0, <3>2, <3>4 DEF Made, With, Without, Ageing
      <3> QED  BY <3>1, <3>3, <3>4 DEF Asked
    <2>2. ASSUME NEW c \in Connection, ScriptOutput(c)
          PROVE  Ageing
      BY <2>0, <2>2 DEF ScriptOutput, With, Ageing
    <2>3. CASE UNCHANGED <<age, sessions, since>>
      BY <2>0, <2>3 DEF Ageing
    <2>4. CASE Tick
      BY <2>0, <2>4 DEF Tick, Ageing
    <2>5. CASE Sweep
      BY <2>0, <2>5 DEF Sweep, Swept, Expired, Without, Ageing
    <2> QED  BY <1>1, <2>1, <2>2, <2>3, <2>4, <2>5 DEF Next, ScriptError, Write, WriteNothing,
                Drop, Forget
  <1>2. IInv /\ [Next]_vars => [Ageing]_vars
    BY <1>1 DEF IInv
  <1> QED  BY <1>2, Invariance, PTL DEF Spec
=============================================================================
