---------------------------- MODULE Startup_proof ----------------------------
(***************************************************************************)
(* Proofs about Startup, for every file of blocks, every tree of files and *)
(* every sequence of requests.                                             *)
(***************************************************************************)
EXTENDS Startup, SeqLemmas

-----------------------------------------------------------------------------
(* The inductive invariant.                                                *)

(* Where the start-up is.                                                  *)
PlaceInv ==
    /\ pc \in {"load", "validate", "bind", "running", "aborted"}
    /\ k \in 1 .. Len(file) + 1
    /\ pc = "load" => k = 1 /\ servers = <<>>
    /\ pc \in {"load", "validate"} => DOMAIN listeners = {}
    /\ pc \in {"bind", "running"} => k = Len(file) + 1
    /\ answer # NoAnswer => pc = "running"

(* What the blocks so far claim is theirs alone.                           *)
Claims(i) == ClaimedPorts(file[i])
Apart(i, j) ==
    \A p \in Claims(i) \cap Claims(j) :
        /\ file[i].server_name # file[j].server_name
        /\ ~(file[i].default_server /\ file[j].default_server)
ClaimInv ==
    /\ \A i \in 1 .. k - 1 : \A p \in Claims(i) :
          /\ <<file[i].server_name, p>> \in virtual_hosts
          /\ file[i].default_server => p \in default_servers_per_port
    /\ \A i, j \in 1 .. k - 1 : i # j => Apart(i, j)

(* The servers are the accepted blocks so far, one for each.               *)
AcceptedSoFar == Accepted \cap 1 .. k - 1
Numbers(f) ==
    /\ f \in [1 .. Len(servers) -> AcceptedSoFar]
    /\ \A i, j \in 1 .. Len(servers) : f[i] = f[j] => i = j
    /\ \A b \in AcceptedSoFar : \E i \in 1 .. Len(servers) : f[i] = b
    /\ \A i \in 1 .. Len(servers) : servers[i] = Completed(file[f[i]])
ServeInv ==
    /\ servers \in Seq(Served(Accepted))
    /\ \E f : Numbers(f)

(* A listener has an address of its own and the servers behind it.         *)
ListenInv ==
    /\ \E n \in Nat : DOMAIN listeners = 0 .. n - 1
    /\ \A t \in DOMAIN listeners :
          /\ listeners[t].address \in Addresses
          /\ listeners[t].config_list = Behind(listeners[t].address)
    /\ \A t, u \in DOMAIN listeners : listeners[t].address = listeners[u].address => t = u
    /\ pc = "running" => Addresses \subseteq Bound

(* The file system is the tree, without what was removed.                  *)
Within(old) ==
    /\ DOMAIN old \subseteq DOMAIN Tree
    /\ old = [n \in DOMAIN old |-> Tree[n]]

(* Where an answer comes from: the file system before it, and the request. *)
Removed(old, reply) ==
    IF reply.kind = "removed" THEN Restrict(old, DOMAIN old \ {reply.at}) ELSE old
Made(old, body) ==
    LET s == answer.server IN
    /\ answer.token \in DOMAIN listeners
    /\ s = ResolveConfig(listeners[answer.token].config_list, answer.name)
    /\ answer.path \in Paths
    /\ answer.found = FindRoute(s.routes, answer.path, answer.method)
    /\ answer.reply = Replied(old, s, answer.found, answer.path, answer.method, body)
    /\ answer.method \in Methods /\ body \in Bodies(answer.method)
    /\ fs = Removed(old, answer.reply)
AnswerInv ==
    /\ Within(fs)
    /\ answer # NoAnswer => \E old, body : Within(old) /\ Made(old, body)

IInv ==
    /\ IsFile(file)
    /\ PlaceInv
    /\ ClaimInv
    /\ ServeInv
    /\ ListenInv
    /\ AnswerInv

-----------------------------------------------------------------------------
(* Blocks.                                                                 *)

LEMMA BlockFields ==
    ASSUME NEW s, IsBlock(s)
    PROVE  /\ s.host \in Text /\ s.root \in Text /\ s.server_name \in Text
           /\ s.ports \in Seq(Nat) /\ s.routes \in Seq(RouteBlock)
           /\ s.default_server \in BOOLEAN
  BY DEF IsBlock

LEMMA FileBlocks ==
    ASSUME NEW blocks, IsFile(blocks)
    PROVE  /\ blocks \in Seq(Range(blocks)) /\ Len(blocks) \in Nat
           /\ DOMAIN blocks = 1 .. Len(blocks)
           /\ \A i \in 1 .. Len(blocks) : IsBlock(blocks[i])
  <1>1. blocks \in Seq(Range(blocks)) /\ \A s \in Range(blocks) : IsBlock(s)
    BY DEF IsFile
  <1>2. Len(blocks) \in Nat /\ DOMAIN blocks = 1 .. Len(blocks)
    BY <1>1
  <1>3. \A i \in 1 .. Len(blocks) : blocks[i] \in Range(blocks)
    BY <1>2 DEF Range
  <1> QED  BY <1>1, <1>2, <1>3

(* What completing a block leaves as it is.                                *)
LEMMA CompletedFields ==
    ASSUME NEW s, IsBlock(s)
    PROVE  /\ Completed(s).host = Address[Inner(s.host)]
           /\ Completed(s).ports = s.ports
           /\ Completed(s).server_name = s.server_name
           /\ Completed(s).default_server = s.default_server
           /\ Completed(s).root = s.root
           /\ Completed(s).error_pages = s.error_pages
           /\ Completed(s).routes =
                 [i \in DOMAIN s.routes |->
                     [s.routes[i] EXCEPT !.root = RouteRoot(s, s.routes[i])]]
  BY DEF IsBlock, Completed

(* Ports without a bad one are good, and are all claimed.                  *)
LEMMA ProperPorts ==
    ASSUME NEW s, IsBlock(s)
    PROVE  /\ Proper(s) <=> GoodPorts(s)
           /\ Proper(s) => ClaimedPorts(s) = Range(s.ports)
  <1> DEFINE q == s.ports
  <1>1. q \in Seq(Nat) /\ Len(q) \in Nat /\ DOMAIN q = 1 .. Len(q)
    BY BlockFields
  <1>2. Range(q) = {q[j] : j \in 1 .. Len(q)}
    BY <1>1 DEF Range
  <1>3. Proper(s) <=> \A j \in 1 .. Len(q) : q[j] # 0 /\ \A i \in 1 .. j - 1 : q[i] # q[j]
    BY <1>1 DEF Proper, BadPort
  <1>4. ASSUME Proper(s) PROVE GoodPorts(s)
    <2>1. 0 \notin Range(q)
      BY <1>2, <1>3, <1>4
    <2>2. ASSUME NEW a \in DOMAIN q, NEW b \in DOMAIN q, q[a] = q[b]
          PROVE  a = b
      <3>1. a \in 1 .. Len(q) /\ b \in 1 .. Len(q)
        BY <1>1
      <3>2. CASE a < b
        <4>1. a \in 1 .. b - 1
          BY <1>1, <3>1, <3>2
        <4> QED  BY <1>3, <1>4, <2>2, <3>1, <4>1
      <3>3. CASE b < a
        <4>1. b \in 1 .. a - 1
          BY <1>1, <3>1, <3>3
        <4> QED  BY <1>3, <1>4, <2>2, <3>1, <4>1
      <3> QED  BY <1>1, <3>1, <3>2, <3>3
    <2> QED  BY <2>1, <2>2 DEF GoodPorts, IsInjective
  <1>5. ASSUME GoodPorts(s) PROVE Proper(s)
    <2>1. \A a, b \in DOMAIN q : q[a] = q[b] => a = b
      BY <1>5 DEF GoodPorts, IsInjective
    <2>2. 0 \notin Range(q)
      BY <1>5 DEF GoodPorts
    <2>3. ASSUME NEW j \in 1 .. Len(q)
          PROVE  q[j] # 0 /\ \A i \in 1 .. j - 1 : q[i] # q[j]
      <3>1. q[j] # 0
        BY <1>2, <2>2
      <3>2. ASSUME NEW i \in 1 .. j - 1 PROVE q[i] # q[j]
        <4>1. i \in DOMAIN q /\ j \in DOMAIN q /\ i # j
          BY <1>1
        <4> QED  BY <2>1, <4>1
      <3> QED  BY <3>1, <3>2
    <2> QED  BY <1>3, <2>3
  <1>6. ASSUME Proper(s) PROVE ClaimedPorts(s) = Range(s.ports)
    <2>1. \A j \in 1 .. Len(q) : ~BadPort(s, j)
      BY <1>1, <1>6 DEF Proper
    <2>2. ASSUME NEW j \in 1 .. Len(q), NEW i \in 1 .. j PROVE ~BadPort(s, i)
      <3>1. i \in 1 .. Len(q)
        BY <1>1
      <3> QED  BY <2>1, <3>1
    <2>3. {j \in DOMAIN q : \A i \in 1 .. j : ~BadPort(s, i)} = 1 .. Len(q)
      BY <1>1, <2>2
    <2> QED  BY <1>2, <2>3 DEF ClaimedPorts
  <1> QED  BY <1>4, <1>5, <1>6

-----------------------------------------------------------------------------
(* The servers of an address.                                              *)

LEMMA BehindPicks ==
    ASSUME NEW S, servers \in Seq(S), NEW a
    PROVE  Behind(a) = Pick(servers, {i \in 1 .. Len(servers) : Listens(servers[i], a)})
  <1> DEFINE P == {i \in 1 .. Len(servers) : Listens(servers[i], a)}
  <1>1. DOMAIN servers = 1 .. Len(servers)
    OBVIOUS
  <1>2. \A i \in 1 .. Len(servers) : i \in P <=> Listens(servers[i], a)
    OBVIOUS
  <1> HIDE DEF P
  <1>3. [i \in 1 .. Len(servers) |-> IF i \in P THEN <<servers[i]>> ELSE <<>>]
            = [i \in 1 .. Len(servers) |-> IF Listens(servers[i], a) THEN <<servers[i]>> ELSE <<>>]
    BY <1>2
  <1> QED  BY <1>1, <1>3 DEF Behind, Pick, P

(* Once every block has been validated, they are the accepted blocks with  *)
(* that address, one for each.                                             *)
LEMMA ServersBehind ==
    ASSUME IsFile(file), servers \in Seq(Served(Accepted)), NEW f, Numbers(f),
           k = Len(file) + 1, NEW a
    PROVE  LET here == BlocksAt(Accepted, a) IN
           /\ Behind(a) \in Seq(Served(here))
           /\ Len(Behind(a)) = Cardinality(here)
           /\ Range(Behind(a)) = Served(here)
  <1> DEFINE here == BlocksAt(Accepted, a)
             n == Len(servers)
             P == {i \in 1 .. n : Listens(servers[i], a)}
             q == Pick(servers, P)
  <1>1. AcceptedSoFar = Accepted /\ Accepted \subseteq 1 .. Len(file)
    BY FileBlocks DEF AcceptedSoFar, Accepted
  <1>2. n \in Nat /\ f \in [1 .. n -> Accepted]
    BY <1>1 DEF Numbers
  <1>3. ASSUME NEW i \in 1 .. n
        PROVE  Listens(servers[i], a) <=> f[i] \in here
    <2>1. f[i] \in Accepted /\ servers[i] = Completed(file[f[i]])
      BY <1>2 DEF Numbers
    <2>2. IsBlock(file[f[i]])
      BY <1>1, <2>1, FileBlocks
    <2> DEFINE s == file[f[i]]
    <2>3. Completed(s).host = Address[Inner(s.host)] /\ Completed(s).ports = s.ports
      BY <2>2, CompletedFields
    <2>4. servers[i].host = Host(f[i]) /\ servers[i].ports = file[f[i]].ports
      BY <2>1, <2>3 DEF Host
    <2> QED  BY <2>1, <2>4 DEF Listens, HasPort, BlocksAt
  <1>4. P \in SUBSET (1 .. n)
    OBVIOUS
  <1>5. \A i \in 1 .. n : i \in P <=> f[i] \in here
    BY <1>3
  <1>6. here \subseteq Accepted
    BY DEF BlocksAt
  <1>7. Behind(a) = q
    BY BehindPicks
  <1> HIDE DEF here, P, q
  <1>8. Cardinality(here) = Cardinality(P)
    <2> DEFINE g == [i \in P |-> f[i]]
    <2>1. g \in [P -> here] /\ DOMAIN g = P
      BY <1>2, <1>4, <1>5
    <2>2. \A i, j \in P : g[i] = g[j] => i = j
      BY <1>4 DEF Numbers
    <2>3. \A b \in here : \E i \in P : g[i] = b
      BY <1>1, <1>4, <1>5, <1>6 DEF Numbers
    <2> HIDE DEF g
    <2>4. g \in Bijection(P, here)
      BY <2>1, <2>2, <2>3 DEF Bijection, Injection, Surjection, IsInjective
    <2>5. IsFiniteSet(P)
      <3>1. IsFiniteSet(1 .. n)
        BY <1>2, FS_Interval
      <3> HIDE DEF n
      <3> QED  BY <1>4, <3>1, FS_Subset
    <2>6. ExistsBijection(P, here)
      BY <2>4 DEF ExistsBijection
    <2> QED  BY <2>5, <2>6, FS_Bijection
  <1>9. /\ q \in Seq(Served(Accepted)) /\ Len(q) = Cardinality(P)
        /\ \A i \in 1 .. Len(q) : \E j \in P : q[i] = servers[j]
        /\ \A j \in P : \E i \in 1 .. Len(q) : q[i] = servers[j]
    <2> DEFINE S == Served(Accepted)
    <2>1. servers \in Seq(S)
      OBVIOUS
    <2> HIDE DEF S, n
    <2>2. P \in SUBSET (1 .. Len(servers))
      BY <1>4 DEF n
    <2>3. /\ Pick(servers, P) \in Seq(S) /\ Len(Pick(servers, P)) = Cardinality(P)
          /\ \A i \in 1 .. Len(Pick(servers, P)) : \E j \in P : Pick(servers, P)[i] = servers[j]
          /\ \A j \in P : \E i \in 1 .. Len(Pick(servers, P)) : Pick(servers, P)[i] = servers[j]
      BY <2>1, <2>2, PickProperties
    <2> QED  BY <2>3 DEF q, S
  <1>10. DOMAIN q = 1 .. Len(q) /\ Len(q) \in Nat
    BY <1>9
  <1>11. \A j \in P : servers[j] \in Served(here)
    BY <1>4, <1>5 DEF Numbers, Served
  <1>12. \A s \in Served(here) : \E j \in P : servers[j] = s
    <2>1. ASSUME NEW b \in here PROVE \E j \in P : servers[j] = Completed(file[b])
      <3>1. PICK j \in 1 .. n : f[j] = b
        BY <1>1, <1>6 DEF Numbers
      <3>2. j \in P /\ servers[j] = Completed(file[b])
        BY <1>5, <3>1 DEF Numbers
      <3> QED  BY <3>2
    <2> QED  BY <2>1 DEF Served
  <1>13. \A i \in 1 .. Len(q) : q[i] \in Served(here)
    BY <1>9, <1>11
  <1>14. q \in Seq(Served(here))
    <2> DEFINE T == Served(here)
               U == Served(Accepted)
    <2>1. q \in Seq(U) /\ \A i \in 1 .. Len(q) : q[i] \in T
      BY <1>9, <1>13
    <2> HIDE DEF T, U
    <2>2. q \in Seq(T)
      BY <2>1, SeqOver
    <2> QED  BY <2>2 DEF T
  <1>15. Range(q) = Served(here)
    <2>1. Range(q) \subseteq Served(here)
      BY <1>10, <1>13 DEF Range
    <2>2. \A s \in Served(here) : s \in Range(q)
      <3>1. ASSUME NEW s \in Served(here) PROVE s \in Range(q)
        <4>1. PICK j \in P : servers[j] = s
          BY <1>12
        <4>2. PICK i \in 1 .. Len(q) : q[i] = servers[j]
          BY <1>9
        <4> QED  BY <1>10, <4>1, <4>2 DEF Range
      <3> QED  BY <3>1
    <2> QED  BY <2>1, <2>2
  <1> QED  BY <1>7, <1>8, <1>9, <1>14, <1>15 DEF here

-----------------------------------------------------------------------------
(* The start-up keeps the invariant.                                       *)

LEMMA Initially ==
    ASSUME Init
    PROVE  IInv
  <1> USE DEF Init, Fresh
  <1>1. IsFile(file)
    BY DEF IsFile, Range
  <1>2. PlaceInv
    BY DEF PlaceInv
  <1>3. ClaimInv
    BY DEF ClaimInv
  <1>4. ServeInv
    <2>1. AcceptedSoFar = {}
      BY DEF AcceptedSoFar
    <2>2. Numbers(<<>>)
      BY <2>1 DEF Numbers
    <2> QED  BY <2>2 DEF ServeInv
  <1>5. ListenInv
    <2>1. DOMAIN listeners = 0 .. 0 - 1
      OBVIOUS
    <2> QED  BY <2>1 DEF ListenInv
  <1>6. AnswerInv
    <2>1. Tree = [n \in DOMAIN Tree |-> Tree[n]]
      BY TreeAssumption
    <2> QED  BY <2>1 DEF AnswerInv, Within
  <1> QED  BY <1>1, <1>2, <1>3, <1>4, <1>5, <1>6 DEF IInv

(* What a step that leaves the blocks and the servers alone keeps.         *)
LEMMA BlocksKept ==
    ASSUME IInv, UNCHANGED <<file, k, virtual_hosts, default_servers_per_port, servers>>
    PROVE  IsFile(file)' /\ ClaimInv' /\ ServeInv'
  <1>1. IsFile(file)'
    BY DEF IInv
  <1>2. ClaimInv'
    BY DEF IInv, ClaimInv, Apart, Claims
  <1>3. ServeInv'
    <2>1. Accepted' = Accepted /\ AcceptedSoFar' = AcceptedSoFar
      BY DEF Accepted, AcceptedSoFar
    <2>2. Served(Accepted)' = Served(Accepted)
      BY <2>1 DEF Served
    <2>3. PICK f : Numbers(f)
      BY DEF IInv, ServeInv
    <2>4. Numbers(f)'
      BY <2>1, <2>3 DEF Numbers
    <2> QED  BY <2>2, <2>4 DEF IInv, ServeInv
  <1> QED  BY <1>1, <1>2, <1>3

(* And one that leaves the listeners alone too.                            *)
LEMMA ListenersKept ==
    ASSUME IInv, UNCHANGED <<servers, listeners>>, pc' = "running" => pc = "running"
    PROVE  ListenInv'
  <1>1. Addresses' = Addresses /\ Bound' = Bound /\ \A a : Behind(a)' = Behind(a)
    BY DEF Addresses, Bound, Behind, Listens, HasPort
  <1> QED  BY <1>1 DEF IInv, ListenInv

(* No answer was made, and none is.                                        *)
LEMMA AnswerKept ==
    ASSUME IInv, answer = NoAnswer, UNCHANGED <<answer, fs>>
    PROVE  AnswerInv'
  BY DEF IInv, AnswerInv, Within

LEMMA ReadStep ==
    ASSUME IInv, ReadFile
    PROVE  IInv'
  <1> USE DEF ReadFile
  <1>1. /\ k = 1 /\ servers = <<>> /\ DOMAIN listeners = {} /\ answer = NoAnswer
        /\ k' = 1 /\ servers' = <<>> /\ DOMAIN listeners' = {}
        /\ pc' \in {"validate", "aborted"}
    BY DEF IInv, PlaceInv
  <1>2. IsFile(file)'
    <2>1. IsFile(file') \/ file' = <<>>
      OBVIOUS
    <2>2. IsFile(<<>>)
      BY DEF IsFile, Range
    <2> QED  BY <2>1, <2>2
  <1>3. PlaceInv'
    <2>1. Len(file)' \in Nat
      BY <1>2, FileBlocks
    <2> QED  BY <1>1, <2>1 DEF PlaceInv
  <1>4. ClaimInv'
    BY <1>1 DEF ClaimInv
  <1>5. ServeInv'
    <2>1. AcceptedSoFar' = {}
      BY <1>1 DEF AcceptedSoFar
    <2>2. Numbers(<<>>)'
      BY <1>1, <2>1 DEF Numbers
    <2> QED  BY <1>1, <2>2 DEF ServeInv
  <1>6. ListenInv'
    BY <1>1, ListenersKept
  <1>7. AnswerInv'
    BY <1>1, AnswerKept
  <1> QED  BY <1>2, <1>3, <1>4, <1>5, <1>6, <1>7 DEF IInv

LEMMA ValidateBlockStep ==
    ASSUME IInv, ValidateBlock
    PROVE  IInv'
  <1>1. /\ IsFile(file) /\ k \in 1 .. Len(file) /\ Len(file) \in Nat /\ k' = k + 1 /\ k \in Nat
        /\ file' = file /\ pc = "validate" /\ pc' = pc /\ ~Conflict
        /\ UNCHANGED <<listeners, answer, fs>>
    BY FileBlocks DEF IInv, PlaceInv, ValidateBlock
  <1>2. IsBlock(Block)
    BY <1>1, FileBlocks DEF Block
  <1>3. PlaceInv'
    BY <1>1 DEF IInv, PlaceInv
  <1>4. ClaimInv'
    <2>1. \A i \in 1 .. k' - 1 : i \in 1 .. k - 1 \/ i = k
      BY <1>1
    <2>2. \A i : Claims(i)' = Claims(i)
      BY <1>1 DEF Claims
    <2>3. \A p \in Claims(k) : <<Block.server_name, p>> \in virtual_hosts'
      BY DEF ValidateBlock, Claims, Block
    <2>4. Block.default_server => \A p \in Claims(k) : p \in default_servers_per_port'
      BY DEF ValidateBlock, Claims, Block
    <2>5. virtual_hosts \subseteq virtual_hosts'
              /\ default_servers_per_port \subseteq default_servers_per_port'
      BY DEF ValidateBlock
    <2>6. (\A i \in 1 .. k - 1 : \A p \in Claims(i) :
             /\ <<file[i].server_name, p>> \in virtual_hosts
             /\ file[i].default_server => p \in default_servers_per_port)'
      <3>1. ASSUME NEW i \in 1 .. k' - 1, NEW p \in Claims(i)
            PROVE  /\ <<file[i].server_name, p>> \in virtual_hosts'
                   /\ file[i].default_server => p \in default_servers_per_port'
        <4>1. CASE i \in 1 .. k - 1
          BY <2>5, <4>1 DEF IInv, ClaimInv
        <4>2. CASE i = k
          BY <2>3, <2>4, <4>2 DEF Block
        <4> QED  BY <2>1, <4>1, <4>2
      <3> QED  BY <1>1, <2>2, <3>1
    <2>7. ASSUME NEW i \in 1 .. k - 1
          PROVE  Apart(i, k) /\ Apart(k, i)
      <3>1. ASSUME NEW p \in Claims(i) \cap Claims(k)
            PROVE  /\ file[i].server_name # file[k].server_name
                   /\ ~(file[i].default_server /\ file[k].default_server)
        <4>1. /\ <<file[i].server_name, p>> \in virtual_hosts
              /\ file[i].default_server => p \in default_servers_per_port
          BY DEF IInv, ClaimInv
        <4>2. ~Conflicts(Block, p)
          BY <1>1 DEF Conflict, Claims, Block
        <4> QED  BY <4>1, <4>2 DEF Conflicts, Block
      <3> QED  BY <3>1 DEF Apart
    <2>8. (\A i, j \in 1 .. k - 1 : i # j => Apart(i, j))'
      <3>1. ASSUME NEW i \in 1 .. k' - 1, NEW j \in 1 .. k' - 1, i # j
            PROVE  Apart(i, j)
        <4>1. CASE i \in 1 .. k - 1 /\ j \in 1 .. k - 1
          BY <3>1, <4>1 DEF IInv, ClaimInv
        <4>2. CASE i \in 1 .. k - 1 /\ j = k
          BY <2>7, <4>2
        <4>3. CASE i = k /\ j \in 1 .. k - 1
          BY <2>7, <4>3
        <4> QED  BY <2>1, <3>1, <4>1, <4>2, <4>3
      <3>2. \A i, j : Apart(i, j)' <=> Apart(i, j)
        BY <1>1, <2>2 DEF Apart
      <3> QED  BY <3>1, <3>2
    <2> QED  BY <2>6, <2>8 DEF ClaimInv
  <1>5. ServeInv'
    <2>1. Accepted' = Accepted
      BY <1>1 DEF Accepted
    <2>2. Served(Accepted)' = Served(Accepted)
      BY <1>1, <2>1 DEF Served
    <2>3. PICK f : Numbers(f)
      BY DEF IInv, ServeInv
    <2>4. k \in Accepted <=> Sound(Block) /\ Proper(Block)
      BY <1>1, <1>2, ProperPorts, FileBlocks DEF Accepted, Block
    <2>5. servers \in Seq(Served(Accepted)) /\ Len(servers) \in Nat
      BY DEF IInv, ServeInv
    <2>6. CASE Sound(Block) /\ Proper(Block)
      <3> DEFINE x == Completed(Block)
                 n == Len(servers)
                 g == [i \in 1 .. n + 1 |-> IF i \in 1 .. n THEN f[i] ELSE k]
      <3>1. servers' = Append(servers, x)
        BY <2>6 DEF ValidateBlock
      <3>2. x \in Served(Accepted)
        BY <2>4, <2>6 DEF Served, Block
      <3>3. /\ servers' \in Seq(Served(Accepted)) /\ Len(servers') = n + 1
            /\ \A i \in 1 .. n : servers'[i] = servers[i]
            /\ servers'[n + 1] = x
        <4>1. /\ Append(servers, x) \in Seq(Served(Accepted))
              /\ Len(Append(servers, x)) = n + 1
              /\ \A i \in 1 .. n : Append(servers, x)[i] = servers[i]
              /\ Append(servers, x)[n + 1] = x
          <5> DEFINE U == Served(Accepted)
          <5>1. servers \in Seq(U) /\ x \in U
            BY <2>5, <3>2
          <5> HIDE DEF U, x
          <5>2. /\ Append(servers, x) \in Seq(U)
                /\ Len(Append(servers, x)) = n + 1
                /\ \A i \in 1 .. n : Append(servers, x)[i] = servers[i]
                /\ Append(servers, x)[n + 1] = x
            BY <5>1, AppendProperties
          <5> QED  BY <5>2 DEF U
        <4> HIDE DEF x, n
        <4> QED  BY <3>1, <4>1
      <3>4. AcceptedSoFar' = AcceptedSoFar \cup {k} /\ k \notin AcceptedSoFar
        BY <1>1, <2>1, <2>4, <2>6 DEF AcceptedSoFar
      <3>5. /\ f \in [1 .. n -> AcceptedSoFar]
            /\ \A i, j \in 1 .. n : f[i] = f[j] => i = j
            /\ \A b \in AcceptedSoFar : \E i \in 1 .. n : f[i] = b
            /\ \A i \in 1 .. n : servers[i] = Completed(file[f[i]])
        BY <2>3 DEF Numbers
      <3> HIDE DEF n, x
      <3>6. n \in Nat /\ \A i \in 1 .. n + 1 : i \in 1 .. n \/ i = n + 1
        BY <2>5 DEF n
      <3>7. n + 1 \in 1 .. n + 1 /\ n + 1 \notin 1 .. n /\ \A i \in 1 .. n : i \in 1 .. n + 1
        BY <3>6
      <3>8. g \in [1 .. n + 1 -> AcceptedSoFar'] /\ g[n + 1] = k /\ \A i \in 1 .. n : g[i] = f[i]
        BY <3>4, <3>5, <3>7
      <3> HIDE DEF g
      <3>9. \A i, j \in 1 .. n + 1 : g[i] = g[j] => i = j
        BY <3>4, <3>5, <3>6, <3>8
      <3>10. \A b \in AcceptedSoFar' : \E i \in 1 .. n + 1 : g[i] = b
        BY <3>4, <3>5, <3>7, <3>8
      <3>11. \A i \in 1 .. n + 1 : servers'[i] = Completed(file[g[i]])
        BY <3>3, <3>5, <3>6, <3>8 DEF x, Block
      <3>12. \E h : Numbers(h)'
        <4>0. PICK h : h = g
          OBVIOUS
        <4>1. Len(servers)' = n + 1
          BY <3>3
        <4>2. h \in [1 .. Len(servers)' -> AcceptedSoFar']
          BY <4>0, <3>8, <4>1
        <4>3. \A i, j \in 1 .. Len(servers)' : h[i] = h[j] => i = j
          BY <4>0, <3>9, <4>1
        <4>4. \A b \in AcceptedSoFar' : \E i \in 1 .. Len(servers)' : h[i] = b
          BY <4>0, <3>10, <4>1
        <4>5. \A i \in 1 .. Len(servers)' : servers'[i] = Completed(file'[h[i]])
          BY <4>0, <1>1, <3>11, <4>1
        <4>6. Numbers(h)'
          BY <4>2, <4>3, <4>4, <4>5 DEF Numbers
        <4> QED  BY <4>6
      <3> QED  BY <2>2, <3>3, <3>12 DEF ServeInv
    <2>7. CASE ~(Sound(Block) /\ Proper(Block))
      <3>1. servers' = servers
        BY <2>7 DEF ValidateBlock
      <3>2. AcceptedSoFar' = AcceptedSoFar
        BY <1>1, <2>1, <2>4, <2>7 DEF AcceptedSoFar
      <3>3. Numbers(f)'
        BY <1>1, <2>3, <3>1, <3>2 DEF Numbers
      <3> QED  BY <2>2, <2>5, <3>1, <3>3 DEF ServeInv
    <2> QED  BY <2>6, <2>7
  <1>6. ListenInv'
    <2>1. DOMAIN listeners' = {} /\ pc' # "running" /\ {} = 0 .. 0 - 1
      BY <1>1 DEF IInv, PlaceInv
    <2> QED  BY <2>1 DEF ListenInv
  <1>7. AnswerInv'
    <2>1. answer = NoAnswer
      BY <1>1 DEF IInv, PlaceInv
    <2> QED  BY <1>1, <2>1, AnswerKept
  <1> QED  BY <1>1, <1>3, <1>4, <1>5, <1>6, <1>7 DEF IInv

LEMMA PlaceStep ==
    ASSUME IInv, Refuse \/ Validated \/ BindFails \/ Start
    PROVE  IInv'
  <1> USE DEF Refuse, Validated, BindFails, Start, Keep
  <1>1. /\ UNCHANGED <<file, k, virtual_hosts, default_servers_per_port, servers, listeners,
                       answer, fs>>
        /\ answer = NoAnswer
        /\ pc \in {"validate", "bind"} /\ pc' \in {"aborted", "bind", "running"}
    BY DEF IInv, PlaceInv
  <1>2. IsFile(file)' /\ ClaimInv' /\ ServeInv'
    BY <1>1, BlocksKept
  <1>3. PlaceInv'
    <2>1. pc' \in {"bind", "running"} => k = Len(file) + 1
      <3>1. pc' = "bind" => k = Len(file) + 1
        <4>1. IsFile(file) /\ k \in 1 .. Len(file) + 1
          BY DEF IInv, PlaceInv
        <4>2. Len(file) \in Nat
          BY <4>1, FileBlocks
        <4> QED  BY <4>1, <4>2
      <3>2. pc' = "running" => k = Len(file) + 1
        BY DEF IInv, PlaceInv
      <3> QED  BY <3>1, <3>2
    <2> QED  BY <1>1, <2>1 DEF IInv, PlaceInv
  <1>4. ListenInv'
    <2>1. Addresses' = Addresses /\ Bound' = Bound /\ \A a : Behind(a)' = Behind(a)
      BY <1>1 DEF Addresses, Bound, Behind, Listens, HasPort
    <2>2. pc' = "running" => Addresses = Bound
      OBVIOUS
    <2> QED  BY <1>1, <2>1, <2>2 DEF IInv, ListenInv
  <1>5. AnswerInv'
    BY <1>1, AnswerKept
  <1> QED  BY <1>2, <1>3, <1>4, <1>5 DEF IInv

LEMMA BindStep ==
    ASSUME IInv, Bind
    PROVE  IInv'
  <1>1. /\ UNCHANGED <<file, k, virtual_hosts, default_servers_per_port, servers, answer, fs, pc>>
        /\ pc = "bind" /\ answer = NoAnswer
    BY DEF IInv, PlaceInv, Bind, Keep
  <1>2. IsFile(file)' /\ ClaimInv' /\ ServeInv'
    BY <1>1, BlocksKept
  <1>3. PlaceInv'
    BY <1>1 DEF IInv, PlaceInv
  <1>4. ListenInv'
    <2>1. PICK n \in Nat : DOMAIN listeners = 0 .. n - 1
      BY DEF IInv, ListenInv
    <2>2. Cardinality(DOMAIN listeners) = n
      <3>1. Cardinality(0 .. n - 1) = IF 0 > n - 1 THEN 0 ELSE (n - 1) - 0 + 1
        BY FS_Interval
      <3> QED  BY <2>1, <3>1
    <2>3. PICK a \in Addresses \ Bound :
             listeners' = [t \in 0 .. n |-> IF t < n THEN listeners[t]
                                            ELSE [address |-> a, config_list |-> Behind(a)]]
      BY <2>2 DEF Bind
    <2>4. DOMAIN listeners' = 0 .. n /\ 0 .. n = 0 .. (n + 1) - 1 /\ n + 1 \in Nat
      BY <2>1, <2>3
    <2>5. Addresses' = Addresses /\ \A b : Behind(b)' = Behind(b)
      BY <1>1 DEF Addresses, Behind, Listens, HasPort
    <2>6. /\ \A t \in DOMAIN listeners : t \in 0 .. n /\ listeners'[t] = listeners[t]
          /\ n \in 0 .. n
          /\ listeners'[n].address = a /\ listeners'[n].config_list = Behind(a)
          /\ \A t \in 0 .. n : t \in DOMAIN listeners \/ t = n
      BY <2>1, <2>3
    <2>7. \A t \in DOMAIN listeners : listeners[t].address # a
      BY <2>3 DEF Bound
    <2>8. ASSUME NEW t \in 0 .. n
          PROVE  /\ listeners'[t].address \in Addresses
                 /\ listeners'[t].config_list = Behind(listeners'[t].address)
      <3>1. CASE t \in DOMAIN listeners
        BY <2>6, <3>1 DEF IInv, ListenInv
      <3>2. CASE t = n
        BY <2>3, <2>6, <3>2
      <3> QED  BY <2>6, <3>1, <3>2
    <2>9. ASSUME NEW t \in 0 .. n, NEW u \in 0 .. n, listeners'[t].address = listeners'[u].address
          PROVE  t = u
      <3>1. CASE t \in DOMAIN listeners /\ u \in DOMAIN listeners
        BY <2>6, <2>9, <3>1 DEF IInv, ListenInv
      <3>2. CASE t \in DOMAIN listeners /\ u = n
        BY <2>6, <2>7, <2>9, <3>2
      <3>3. CASE t = n /\ u \in DOMAIN listeners
        BY <2>6, <2>7, <2>9, <3>3
      <3> QED  BY <2>6, <3>1, <3>2, <3>3
    <2>10. (\A t \in DOMAIN listeners : listeners[t].config_list = Behind(listeners[t].address))'
      BY <1>1, <2>4, <2>8 DEF Behind, Listens, HasPort
    <2> QED  BY <1>1, <2>4, <2>5, <2>8, <2>9, <2>10 DEF ListenInv
  <1>5. AnswerInv'
    BY <1>1, AnswerKept
  <1> QED  BY <1>2, <1>3, <1>4, <1>5 DEF IInv

-----------------------------------------------------------------------------
(* So do the requests.                                                     *)

LEMMA RequestStep ==
    ASSUME IInv, Request
    PROVE  IInv'
  <1>1. /\ UNCHANGED <<file, k, virtual_hosts, default_servers_per_port, servers, listeners, pc>>
        /\ pc = "running"
    BY DEF Request
  <1>2. IsFile(file)' /\ ClaimInv' /\ ServeInv'
    BY <1>1, BlocksKept
  <1>3. PlaceInv'
    BY <1>1 DEF IInv, PlaceInv
  <1>4. ListenInv'
    BY <1>1, ListenersKept
  <1>5. AnswerInv'
    <2>1. Within(fs)
      BY DEF IInv, AnswerInv
    <2>a. PICK t \in DOMAIN listeners, name \in HostNames, path \in Paths, method \in Methods :
          \E body \in Bodies(method) :
            LET s == ResolveConfig(listeners[t].config_list, name)
                found == FindRoute(s.routes, path, method)
                reply == Replied(fs, s, found, path, method, body)
            IN  /\ answer' = [token |-> t, name |-> name, path |-> path, method |-> method,
                              server |-> s, found |-> found, reply |-> reply]
                /\ fs' = Removed(fs, reply)
      BY DEF Request, Removed
    <2>2. PICK body \in Bodies(method) :
            LET s == ResolveConfig(listeners[t].config_list, name)
                found == FindRoute(s.routes, path, method)
                reply == Replied(fs, s, found, path, method, body)
            IN  /\ answer' = [token |-> t, name |-> name, path |-> path, method |-> method,
                              server |-> s, found |-> found, reply |-> reply]
                /\ fs' = Removed(fs, reply)
      BY <2>a
    <2> DEFINE s == ResolveConfig(listeners[t].config_list, name)
               found == FindRoute(s.routes, path, method)
               reply == Replied(fs, s, found, path, method, body)
    <2>3. /\ answer' = [token |-> t, name |-> name, path |-> path, method |-> method,
                        server |-> s, found |-> found, reply |-> reply]
          /\ fs' = Removed(fs, reply)
      BY <2>2
    <2> HIDE DEF s, found, reply
    <2>4. /\ answer'.token = t /\ answer'.name = name /\ answer'.path = path
          /\ answer'.method = method /\ answer'.server = s /\ answer'.found = found
          /\ answer'.reply = reply
      BY <2>3
    <2>5. PICK old : old = fs
      OBVIOUS
    <2>6. Made(old, body)'
      <3>1. s = ResolveConfig(listeners'[t].config_list, name)
        BY <1>1 DEF s
      <3>2. found = FindRoute(s.routes, path, method)
        BY DEF found
      <3>3. reply = Replied(old, s, found, path, method, body)
        BY <2>5 DEF reply
      <3>4. fs' = Removed(old, reply) /\ t \in DOMAIN listeners'
        BY <1>1, <2>3, <2>5
      <3> QED  BY <2>4, <3>1, <3>2, <3>3, <3>4 DEF Made
    <2>7. Within(fs)'
      <3>1. DOMAIN fs' \subseteq DOMAIN fs /\ fs' = [n \in DOMAIN fs' |-> fs[n]]
        <4>1. CASE reply.kind = "removed"
          BY <2>3, <4>1 DEF Removed, Restrict
        <4>2. CASE reply.kind # "removed"
          BY <2>1, <2>3, <4>2 DEF Removed, Within
        <4> QED  BY <4>1, <4>2
      <3> QED  BY <2>1, <3>1 DEF Within
    <2>8. Within(old)'
      BY <2>1, <2>5 DEF Within
    <2> QED  BY <2>6, <2>7, <2>8 DEF AnswerInv
  <1> QED  BY <1>2, <1>3, <1>4, <1>5 DEF IInv

LEMMA AnsweredStep ==
    ASSUME IInv, Answered
    PROVE  IInv'
  <1>1. /\ UNCHANGED <<file, k, virtual_hosts, default_servers_per_port, servers, listeners, pc, fs>>
        /\ answer' = NoAnswer
    BY DEF Answered
  <1>2. IsFile(file)' /\ ClaimInv' /\ ServeInv'
    BY <1>1, BlocksKept
  <1>3. PlaceInv'
    BY <1>1 DEF IInv, PlaceInv
  <1>4. ListenInv'
    BY <1>1, ListenersKept
  <1>5. AnswerInv'
    BY <1>1 DEF IInv, AnswerInv, Within
  <1> QED  BY <1>2, <1>3, <1>4, <1>5 DEF IInv

LEMMA StutterStep ==
    ASSUME IInv, UNCHANGED vars
    PROVE  IInv'
  <1>1. /\ UNCHANGED <<file, k, virtual_hosts, default_servers_per_port, servers, listeners, pc, fs,
                       answer>>
    BY DEF vars
  <1>2. IsFile(file)' /\ ClaimInv' /\ ServeInv'
    BY <1>1, BlocksKept
  <1>3. PlaceInv'
    BY <1>1 DEF IInv, PlaceInv
  <1>4. ListenInv'
    BY <1>1, ListenersKept
  <1>5. AnswerInv'
    <2>1. \A old, body : Made(old, body)' <=> Made(old, body)
      BY <1>1 DEF Made
    <2> QED  BY <1>1, <2>1 DEF IInv, AnswerInv, Within
  <1> QED  BY <1>2, <1>3, <1>4, <1>5 DEF IInv

(* The invariant of every start-up, and of every request after it.         *)
THEOREM StartupAlways == Spec => []IInv
  <1>1. ASSUME IInv, [Next]_vars
        PROVE  IInv'
    BY <1>1, ReadStep, ValidateBlockStep, PlaceStep, BindStep, RequestStep, AnsweredStep,
       StutterStep DEF Next, StartUp
  <1> QED  BY <1>1, Initially, PTL DEF Spec

-----------------------------------------------------------------------------
(* What the invariant says of the answer of a request.                     *)

(* The file is read through, and behind the listener are the accepted      *)
(* blocks of its address; there is one.                                    *)
LEMMA BlocksBehind ==
    ASSUME IInv, pc = "running", NEW t \in DOMAIN listeners
    PROVE  LET here == BlocksAt(Accepted, listeners[t].address)
               list == listeners[t].config_list
           IN  /\ here \subseteq Accepted /\ Accepted \subseteq 1 .. Len(file)
               /\ here # {}
               /\ list \in Seq(Served(here))
               /\ Len(list) = Cardinality(here)
               /\ Range(list) = Served(here)
               /\ Len(list) \in Nat \ {0}
  <1> DEFINE here == BlocksAt(Accepted, listeners[t].address)
             list == listeners[t].config_list
  <1>1. /\ IsFile(file) /\ servers \in Seq(Served(Accepted)) /\ k = Len(file) + 1
        /\ list = Behind(listeners[t].address) /\ listeners[t].address \in Addresses
    BY DEF IInv, PlaceInv, ServeInv, ListenInv
  <1>2. PICK f : Numbers(f)
    BY DEF IInv, ServeInv
  <1>3. list \in Seq(Served(here)) /\ Len(list) = Cardinality(here) /\ Range(list) = Served(here)
    BY <1>1, <1>2, ServersBehind
  <1>4. here \subseteq Accepted /\ Accepted \subseteq 1 .. Len(file)
    BY <1>1, FileBlocks DEF Accepted, BlocksAt
  <1>5. here # {}
    <2>a. PICK i \in DOMAIN servers : \E j \in DOMAIN servers[i].ports :
             listeners[t].address = <<servers[i].host, servers[i].ports[j]>>
      BY <1>1 DEF Addresses
    <2>1. PICK j \in DOMAIN servers[i].ports :
             listeners[t].address = <<servers[i].host, servers[i].ports[j]>>
      BY <2>a
    <2>2. i \in 1 .. Len(servers)
      BY <1>1
    <2>3. f[i] \in Accepted /\ servers[i] = Completed(file[f[i]])
      BY <1>2, <2>2 DEF Numbers, AcceptedSoFar
    <2>4. IsBlock(file[f[i]])
      BY <1>1, <1>4, <2>3, FileBlocks
    <2>5. servers[i].host = Host(f[i]) /\ servers[i].ports = file[f[i]].ports
      <3> DEFINE s == file[f[i]]
      <3>1. Completed(s).host = Address[Inner(s.host)] /\ Completed(s).ports = s.ports
        BY <2>4, CompletedFields
      <3> QED  BY <2>3, <3>1 DEF Host
    <2>6. servers[i].ports[j] \in Range(file[f[i]].ports)
      BY <2>1, <2>5 DEF Range
    <2>7. f[i] \in here
      BY <2>1, <2>3, <2>5, <2>6 DEF BlocksAt
    <2> QED  BY <2>7
  <1> HIDE DEF here, list
  <1>6. Len(list) \in Nat \ {0}
    <2>1. IsFiniteSet(1 .. Len(file))
      BY <1>1, FileBlocks, FS_Interval
    <2>2. IsFiniteSet(here)
      BY <1>4, <2>1, FS_Subset
    <2>3. Cardinality(here) \in Nat /\ Cardinality(here) # 0
      BY <1>5, <2>2, FS_CardinalityType, FS_EmptySet
    <2> QED  BY <1>3, <2>3
  <1> QED  BY <1>3, <1>4, <1>5, <1>6 DEF here, list

(* The least of a set of positions in a sequence is one of them.           *)
LEMMA MinOfSome ==
    ASSUME NEW D \in SUBSET Nat, D # {}
    PROVE  Min(D) \in D /\ \A y \in D : Min(D) <= y
  <1> DEFINE A == {m \in Nat : \A x \in D : x <= m => \E z \in D : \A y \in D : z <= y}
  <1>1. 0 \in A
    <2>1. ASSUME NEW x \in D, x <= 0
          PROVE  \E z \in D : \A y \in D : z <= y
      <3>1. x = 0 /\ \A y \in D : y \in Nat
        BY <2>1
      <3>2. \A y \in D : x <= y
        BY <3>1
      <3> QED  BY <3>2
    <2> QED  BY <2>1
  <1>2. ASSUME NEW m \in Nat, m \in A
        PROVE  m + 1 \in A
    <2>1. ASSUME NEW x \in D, x <= m + 1
          PROVE  \E z \in D : \A y \in D : z <= y
      <3>1. CASE \E v \in D : v <= m
        BY <1>2, <3>1
      <3>2. CASE \A v \in D : ~(v <= m)
        <4>1. x \in Nat /\ \A v \in D : v \in Nat /\ m < v
          BY <3>2
        <4>2. \A y \in D : x <= y
          BY <2>1, <4>1
        <4> QED  BY <4>2
      <3> QED  BY <3>1, <3>2
    <2> QED  BY <2>1
  <1> HIDE DEF A
  <1>3. \A m \in Nat : m \in A
    BY <1>1, <1>2, NatSetInduction
  <1>4. PICK x \in D : x \in Nat
    OBVIOUS
  <1>5. \E z \in D : \A y \in D : z <= y
    BY <1>3, <1>4 DEF A
  <1> QED  BY <1>5 DEF Min

(* resolve_config takes one that has the name, or else a default one.      *)
LEMMA Resolved ==
    ASSUME NEW S, NEW list \in Seq(S), list # <<>>, NEW name
    PROVE  LET s == ResolveConfig(list, name) IN
           /\ s \in Range(list)
           /\ (\E x \in Range(list) : x.server_name = name) => s.server_name = name
           /\ ~(\E x \in Range(list) : x.server_name = name)
                /\ (\E x \in Range(list) : x.default_server) => s.default_server
  <1>1. Len(list) \in Nat \ {0} /\ DOMAIN list = 1 .. Len(list) /\ 1 \in DOMAIN list
    BY EmptySeq, LenProperties
  <1> DEFINE N == Named(list, name)
             D == Defaults(list)
  <1>2. N \in SUBSET Nat /\ N \subseteq DOMAIN list /\ \A i \in N : list[i].server_name = name
    BY <1>1 DEF Named
  <1>3. D \in SUBSET Nat /\ D \subseteq DOMAIN list /\ \A i \in D : list[i].default_server
    BY <1>1 DEF Defaults
  <1>4. N = {} <=> ~(\E x \in Range(list) : x.server_name = name)
    BY DEF Named, Range
  <1>5. D = {} <=> ~(\E x \in Range(list) : x.default_server)
    BY DEF Defaults, Range
  <1> HIDE DEF N, D
  <1>6. ResolveConfig(list, name)
            = list[IF N = {} THEN (IF D = {} THEN 1 ELSE Min(D)) ELSE Min(N)]
    BY DEF ResolveConfig, FirstOr, N, D
  <1>7. N # {} => Min(N) \in N
    BY <1>2, MinOfSome
  <1>8. D # {} => Min(D) \in D
    BY <1>3, MinOfSome
  <1>9. \A i \in DOMAIN list : list[i] \in Range(list)
    BY DEF Range
  <1> QED  BY <1>1, <1>2, <1>3, <1>4, <1>5, <1>6, <1>7, <1>8, <1>9

(* Two accepted blocks with a port in common have names of their own and   *)
(* are not both the default.                                               *)
LEMMA AcceptedApart ==
    ASSUME IInv, k = Len(file) + 1, NEW i \in Accepted, NEW j \in Accepted, i # j,
           NEW p \in Range(file[i].ports) \cap Range(file[j].ports)
    PROVE  /\ file[i].server_name # file[j].server_name
           /\ ~(file[i].default_server /\ file[j].default_server)
  <1>1. IsFile(file) /\ Accepted \subseteq 1 .. Len(file) /\ Len(file) \in Nat
    BY FileBlocks DEF IInv, Accepted
  <1>2. ASSUME NEW m \in Accepted
        PROVE  Claims(m) = Range(file[m].ports)
    <2>1. IsBlock(file[m]) /\ GoodPorts(file[m])
      BY <1>1, FileBlocks DEF Accepted
    <2> QED  BY <2>1, ProperPorts DEF Claims
  <1>3. i \in 1 .. k - 1 /\ j \in 1 .. k - 1
    BY <1>1
  <1>4. Apart(i, j)
    BY <1>3 DEF IInv, ClaimInv
  <1> QED  BY <1>2, <1>4 DEF Apart

-----------------------------------------------------------------------------
(* What is promised of the start-up and of who serves a request.           *)

(* The invariant gives the types the runs check.                           *)
THEOREM TypeCorrect == Spec => []TypeOK
  <1>1. ASSUME IInv PROVE TypeOK
    <2>1. pc = "bind" => Range(servers) \subseteq Served(Accepted)
      <3>1. servers \in Seq(Served(Accepted)) /\ DOMAIN servers = 1 .. Len(servers)
        BY <1>1 DEF IInv, ServeInv
      <3>2. \A i \in DOMAIN servers : servers[i] \in Served(Accepted)
        BY <3>1, ElementOfSeq
      <3> QED  BY <3>2 DEF Range
    <2>2. DOMAIN listeners = 0 .. Cardinality(DOMAIN listeners) - 1
      <3>1. PICK n \in Nat : DOMAIN listeners = 0 .. n - 1
        BY <1>1 DEF IInv, ListenInv
      <3>2. Cardinality(0 .. n - 1) = IF 0 > n - 1 THEN 0 ELSE (n - 1) - 0 + 1
        BY FS_Interval
      <3> QED  BY <3>1, <3>2
    <2> QED  BY <1>1, <2>1, <2>2 DEF IInv, PlaceInv, AnswerInv, Within, TypeOK
  <1> QED  BY <1>1, StartupAlways, PTL

(* A server that runs serves every accepted block at each of its           *)
(* addresses, by one listener, and no other: validate and setup_listeners. *)
THEOREM EachAlwaysServed == Spec => []EachServed
  <1>1. ASSUME IInv PROVE EachServed
    <2> SUFFICES ASSUME pc = "running"
                 PROVE  LET accepted == Accepted IN
                        /\ \A i \in accepted : \A p \in Range(file[i].ports) :
                              \E t \in DOMAIN listeners : listeners[t].address = <<Host(i), p>>
                        /\ \A t, u \in DOMAIN listeners :
                              listeners[t].address = listeners[u].address => t = u
                        /\ \A t \in DOMAIN listeners :
                              LET here == BlocksAt(accepted, listeners[t].address) IN
                              /\ Len(listeners[t].config_list) = Cardinality(here)
                              /\ Range(listeners[t].config_list) = Served(here)
      BY DEF EachServed
    <2>1. /\ IsFile(file) /\ servers \in Seq(Served(Accepted)) /\ k = Len(file) + 1
          /\ Addresses \subseteq Bound
      BY <1>1 DEF IInv, PlaceInv, ServeInv, ListenInv
    <2>2. PICK f : Numbers(f)
      BY <1>1 DEF IInv, ServeInv
    <2>3. Accepted \subseteq 1 .. Len(file) /\ AcceptedSoFar = Accepted
      BY <2>1, FileBlocks DEF Accepted, AcceptedSoFar
    <2>4. ASSUME NEW i \in Accepted, NEW p \in Range(file[i].ports)
          PROVE  \E t \in DOMAIN listeners : listeners[t].address = <<Host(i), p>>
      <3>1. PICK j \in 1 .. Len(servers) : f[j] = i
        BY <2>2, <2>3 DEF Numbers
      <3>2. servers[j] = Completed(file[i]) /\ j \in DOMAIN servers
        BY <2>1, <2>2, <3>1 DEF Numbers
      <3>3. IsBlock(file[i])
        BY <2>1, <2>3, FileBlocks
      <3> DEFINE s == file[i]
      <3>4. Completed(s).host = Address[Inner(s.host)] /\ Completed(s).ports = s.ports
        BY <3>3, CompletedFields
      <3>5. servers[j].host = Host(i) /\ servers[j].ports = file[i].ports
        BY <3>2, <3>4 DEF Host
      <3>6. PICK m \in DOMAIN file[i].ports : file[i].ports[m] = p
        BY DEF Range
      <3>7. <<servers[j].host, servers[j].ports[m]>> \in Addresses
        BY <3>2, <3>5, <3>6 DEF Addresses
      <3>8. <<Host(i), p>> \in Bound
        BY <2>1, <3>5, <3>6, <3>7
      <3> QED  BY <3>8 DEF Bound
    <2>5. \A t, u \in DOMAIN listeners : listeners[t].address = listeners[u].address => t = u
      BY <1>1 DEF IInv, ListenInv
    <2>6. ASSUME NEW t \in DOMAIN listeners
          PROVE  LET here == BlocksAt(Accepted, listeners[t].address) IN
                 /\ Len(listeners[t].config_list) = Cardinality(here)
                 /\ Range(listeners[t].config_list) = Served(here)
      BY <1>1, BlocksBehind
    <2> QED  BY <2>4, <2>5, <2>6
  <1> QED  BY <1>1, StartupAlways, PTL

(* A set any two elements of which are one has no more than one.           *)
LEMMA AtMostOne ==
    ASSUME NEW S, \A x, y \in S : x = y
    PROVE  Cardinality(S) <= 1
  <1>1. CASE S = {}
    BY <1>1, FS_EmptySet
  <1>2. CASE S # {}
    <2>1. PICK x \in S : S = {x}
      BY <1>2
    <2> QED  BY <2>1, FS_Singleton
  <1> QED  BY <1>1, <1>2

(* Who serves a request is the one accepted block of the address that has  *)
(* the name asked for, or else the one that is the default: validate and   *)
(* resolve_config.                                                         *)
THEOREM ServerAlwaysRight == Spec => []RightServer
  <1>1. ASSUME IInv PROVE RightServer
    <2> DEFINE a == listeners[answer.token].address
               here == BlocksAt(Accepted, a)
               named == {i \in here : file[i].server_name = answer.name}
               default == {i \in here : file[i].default_server}
               chosen == IF named # {} THEN named ELSE IF default # {} THEN default ELSE here
               list == listeners[answer.token].config_list
               s == answer.server
    <2> SUFFICES ASSUME answer # NoAnswer
                 PROVE  /\ Cardinality(named) <= 1 /\ Cardinality(default) <= 1
                        /\ s \in Served(chosen)
      BY DEF RightServer
    <2>1. /\ pc = "running" /\ k = Len(file) + 1 /\ IsFile(file)
          /\ answer.token \in DOMAIN listeners
          /\ s = ResolveConfig(list, answer.name)
      BY <1>1 DEF IInv, PlaceInv, AnswerInv, Made
    <2>2. /\ here \subseteq Accepted /\ Accepted \subseteq 1 .. Len(file)
          /\ list \in Seq(Served(here)) /\ Range(list) = Served(here) /\ Len(list) \in Nat \ {0}
      BY <1>1, <2>1, BlocksBehind
    <2>3. \A i \in here : a[2] \in Range(file[i].ports)
      BY DEF BlocksAt
    <2> HIDE DEF a, here, list, s
    <2>4. \A i, j \in here : i # j => /\ file[i].server_name # file[j].server_name
                                      /\ ~(file[i].default_server /\ file[j].default_server)
      BY <1>1, <2>1, <2>2, <2>3, AcceptedApart
    <2>5. Cardinality(named) <= 1
      <3>1. \A x, y \in named : x = y
        BY <2>4
      <3> HIDE DEF named
      <3> QED  BY <3>1, AtMostOne
    <2>6. Cardinality(default) <= 1
      <3>1. \A x, y \in default : x = y
        BY <2>4
      <3> HIDE DEF default
      <3> QED  BY <3>1, AtMostOne
    <2>7. /\ s \in Range(list)
          /\ (\E x \in Range(list) : x.server_name = answer.name) => s.server_name = answer.name
          /\ ~(\E x \in Range(list) : x.server_name = answer.name)
               /\ (\E x \in Range(list) : x.default_server) => s.default_server
      <3>1. list # <<>>
        BY <2>2
      <3> DEFINE S == Served(here)
      <3>2. list \in Seq(S)
        BY <2>2
      <3> HIDE DEF S
      <3> QED  BY <2>1, <3>1, <3>2, Resolved
    <2>8. \A i \in here : /\ Completed(file[i]).server_name = file[i].server_name
                          /\ Completed(file[i]).default_server = file[i].default_server
      <3>1. ASSUME NEW i \in here
            PROVE  /\ Completed(file[i]).server_name = file[i].server_name
                   /\ Completed(file[i]).default_server = file[i].default_server
        <4>1. IsBlock(file[i])
          BY <2>1, <2>2, FileBlocks
        <4> DEFINE b == file[i]
        <4>2. Completed(b).server_name = b.server_name /\ Completed(b).default_server = b.default_server
          BY <4>1, CompletedFields
        <4> QED  BY <4>2
      <3> QED  BY <3>1
    <2>9. \A i \in here : Completed(file[i]) \in Range(list)
      BY <2>2 DEF Served
    <2>10. PICK i \in here : s = Completed(file[i])
      BY <2>2, <2>7 DEF Served
    <2>11. i \in chosen
      <3>1. CASE named # {}
        <4>1. file[i].server_name = answer.name
          BY <2>7, <2>8, <2>9, <2>10, <3>1
        <4> QED  BY <3>1, <4>1
      <3>2. CASE named = {} /\ default # {}
        <4>1. ~(\E x \in Range(list) : x.server_name = answer.name)
          BY <2>2, <2>8, <3>2 DEF Served
        <4>2. file[i].default_server
          BY <2>7, <2>8, <2>9, <2>10, <3>2, <4>1
        <4> QED  BY <3>2, <4>2
      <3>3. CASE named = {} /\ default = {}
        BY <3>3
      <3> QED  BY <3>1, <3>2, <3>3
    <2> HIDE DEF chosen
    <2> QED  BY <2>5, <2>6, <2>10, <2>11 DEF Served
  <1> QED  BY <1>1, StartupAlways, PTL

-----------------------------------------------------------------------------
(* The pieces of a path.  Pieces(f, path): f satisfies the recursive       *)
(* definition that Segments chooses its function by.                       *)

Lists == Seq(Text) \ {<<>>}
Pieces(f, path) ==
    f = [i \in 0 .. Len(path) |-> IF i = 0 THEN <<<<>>>> ELSE Longer(f[i - 1], path[i])]

LEMMA EmptyText == <<>> \in Text /\ <<<<>>>> \in Lists /\ Len(<<<<>>>>) = 1 /\ <<<<>>>>[1] = <<>>
  <1>1. <<>> \in Text
    BY EmptySeq DEF Text
  <1> DEFINE e == <<>>
  <1> HIDE DEF e
  <1>2. e \in Text => <<e>> \in Lists /\ Len(<<e>>) = 1 /\ <<e>>[1] = e
    BY EmptySeq DEF Lists
  <1> QED  BY <1>1, <1>2 DEF e

LEMMA ListProperties ==
    ASSUME NEW l \in Lists
    PROVE  /\ l \in Seq(Text) /\ Len(l) \in Nat \ {0} /\ Len(l) \in 1 .. Len(l)
           /\ \A i \in 1 .. Len(l) : l[i] \in Text
           /\ Last(l) = l[Len(l)] /\ Last(l) \in Text
  <1>1. l \in Seq(Text) /\ l # <<>>
    BY DEF Lists
  <1>2. Len(l) \in Nat \ {0} /\ \A i \in 1 .. Len(l) : l[i] \in Text
    BY <1>1, EmptySeq, LenProperties, ElementOfSeq
  <1>3. Len(l) \in 1 .. Len(l)
    BY <1>2
  <1> QED  BY <1>1, <1>2, <1>3 DEF Last

(* One symbol more makes a piece more, or makes the last one longer.       *)
LEMMA LongerProperties ==
    ASSUME NEW l \in Lists, NEW c \in Symbol
    PROVE  LET m == Longer(l, c) IN
           /\ m \in Lists
           /\ c = "/" => /\ Len(m) = Len(l) + 1
                         /\ \A i \in 1 .. Len(l) : m[i] = l[i]
                         /\ m[Len(l) + 1] = <<>>
           /\ c # "/" => /\ Len(m) = Len(l)
                         /\ \A i \in 1 .. Len(l) - 1 : m[i] = l[i]
                         /\ m[Len(l)] = Append(l[Len(l)], c)
  <1> DEFINE n == Len(l)
             m == Longer(l, c)
  <1>1. /\ l \in Seq(Text) /\ n \in Nat \ {0} /\ n \in 1 .. n /\ l[n] \in Text
        /\ \A i \in 1 .. n : l[i] \in Text
    BY ListProperties
  <1>2. CASE c = "/"
    <2>1. m = Append(l, <<>>)
      BY <1>2 DEF Longer
    <2>2. /\ m \in Seq(Text) /\ Len(m) = n + 1
          /\ \A i \in 1 .. n : m[i] = l[i]
          /\ m[n + 1] = <<>>
      BY <1>1, <2>1, EmptyText, AppendProperties
    <2>3. m # <<>>
      <3> HIDE DEF m, n
      <3>1. Len(m) # 0
        BY <1>1, <2>2
      <3> QED  BY <3>1
    <2> QED  BY <1>2, <2>2, <2>3 DEF Lists
  <1>3. CASE c # "/"
    <2> DEFINE e == Append(l[n], c)
    <2>1. e \in Text
      BY <1>1, AppendProperties DEF Text
    <2>2. m = [l EXCEPT ![n] = e]
      BY <1>3 DEF Longer
    <2> HIDE DEF e, m, n
    <2>3. l \in [1 .. n -> Text]
      BY <1>1 DEF n
    <2>4. m \in [1 .. n -> Text] /\ m[n] = e /\ \A i \in 1 .. n : i # n => m[i] = l[i]
      BY <1>1, <2>1, <2>2, <2>3
    <2>5. m \in Seq(Text) /\ Len(m) = n
      BY <1>1, <2>4
    <2>6. m # <<>>
      BY <1>1, <2>5, EmptySeq
    <2>7. \A i \in 1 .. n - 1 : i \in 1 .. n /\ i # n
      BY <1>1
    <2> QED  BY <1>3, <2>4, <2>5, <2>6, <2>7 DEF Lists, m, n, e
  <1> QED  BY <1>2, <1>3

LEMMA PiecesExist ==
    ASSUME NEW path \in Text
    PROVE  \E f \in [0 .. Len(path) -> Lists] : Pieces(f, path)
  <1> DEFINE Upto(f, n) ==
                f = [i \in 0 .. n |-> IF i = 0 THEN <<<<>>>> ELSE Longer(f[i - 1], path[i])]
             Reached(n) == \E f \in [0 .. n -> Lists] : Upto(f, n)
             A == {n \in Nat : n <= Len(path) => Reached(n)}
  <1>0. Len(path) \in Nat /\ \A i \in 1 .. Len(path) : path[i] \in Symbol
    BY LenProperties, ElementOfSeq DEF Text
  <1>1. 0 \in A
    <2> DEFINE f == [i \in 0 .. 0 |-> <<<<>>>>]
    <2>1. f \in [0 .. 0 -> Lists] /\ \A i \in 0 .. 0 : i = 0
      BY EmptyText
    <2>2. Upto(f, 0)
      OBVIOUS
    <2> HIDE DEF f, Upto
    <2> QED  BY <2>1, <2>2
  <1>2. ASSUME NEW n \in Nat, n \in A
        PROVE  n + 1 \in A
    <2> SUFFICES ASSUME n + 1 <= Len(path) PROVE Reached(n + 1)
      OBVIOUS
    <2>0. n <= Len(path) /\ n + 1 \in 1 .. Len(path)
      BY <1>0
    <2>1. PICK f \in [0 .. n -> Lists] : Upto(f, n)
      BY <1>2, <2>0
    <2> DEFINE x == Longer(f[n], path[n + 1])
               g == [i \in 0 .. n + 1 |-> IF i \in 0 .. n THEN f[i] ELSE x]
    <2>2. x \in Lists
      <3>1. f[n] \in Lists /\ path[n + 1] \in Symbol
        BY <1>0, <2>0, <2>1
      <3> QED  BY <3>1, LongerProperties
    <2>3. g \in [0 .. n + 1 -> Lists]
      BY <2>2
    <2>4. \A i \in 0 .. n : f[i] = IF i = 0 THEN <<<<>>>> ELSE Longer(f[i - 1], path[i])
      BY <2>1
    <2> HIDE DEF x
    <2>5. g[n + 1] = x /\ \A i \in 0 .. n : g[i] = f[i]
      OBVIOUS
    <2>6. ASSUME NEW i \in 0 .. n + 1
          PROVE  g[i] = IF i = 0 THEN <<<<>>>> ELSE Longer(g[i - 1], path[i])
      <3> HIDE DEF g
      <3>1. CASE i = 0
        BY <2>4, <2>5, <3>1
      <3>2. CASE i \in 1 .. n
        <4>1. i \in 0 .. n /\ i - 1 \in 0 .. n /\ i # 0
          BY <3>2
        <4> QED  BY <2>4, <2>5, <4>1
      <3>3. CASE i = n + 1
        <4>1. i - 1 = n /\ i # 0 /\ n \in 0 .. n
          BY <3>3
        <4> QED  BY <2>5, <3>3, <4>1 DEF x
      <3> QED  BY <3>1, <3>2, <3>3
    <2>7. Upto(g, n + 1)
      <3> HIDE DEF g
      <3>1. g = [i \in 0 .. n + 1 |-> g[i]]
        BY <2>3
      <3> QED  BY <2>6, <3>1
    <2> HIDE DEF Upto, g
    <2> QED  BY <2>3, <2>7
  <1> HIDE DEF A
  <1>3. Len(path) \in A
    BY <1>0, <1>1, <1>2, NatSetInduction
  <1> QED  BY <1>0, <1>3 DEF A, Pieces

LEMMA PiecesUnique ==
    ASSUME NEW path \in Text, NEW f, NEW g, Pieces(f, path), Pieces(g, path)
    PROVE  f = g
  <1> DEFINE A == {n \in Nat : n \in 0 .. Len(path) => f[n] = g[n]}
  <1>0. Len(path) \in Nat
    BY LenProperties DEF Text
  <1>1. /\ \A i \in 0 .. Len(path) : f[i] = IF i = 0 THEN <<<<>>>> ELSE Longer(f[i - 1], path[i])
        /\ \A i \in 0 .. Len(path) : g[i] = IF i = 0 THEN <<<<>>>> ELSE Longer(g[i - 1], path[i])
    BY DEF Pieces
  <1>2. 0 \in A
    BY <1>0, <1>1
  <1>3. ASSUME NEW n \in Nat, n \in A
        PROVE  n + 1 \in A
    <2> SUFFICES ASSUME n + 1 \in 0 .. Len(path) PROVE f[n + 1] = g[n + 1]
      OBVIOUS
    <2>1. n \in 0 .. Len(path) /\ n + 1 # 0 /\ (n + 1) - 1 = n
      BY <1>0
    <2> QED  BY <1>1, <1>3, <2>1
  <1> HIDE DEF A
  <1>4. \A n \in Nat : n \in A
    BY <1>2, <1>3, NatSetInduction
  <1>5. \A n \in 0 .. Len(path) : f[n] = g[n]
    BY <1>0, <1>4 DEF A
  <1>6. /\ f = [n \in 0 .. Len(path) |-> f[n]]
        /\ g = [n \in 0 .. Len(path) |-> g[n]]
    BY <1>0 DEF Pieces
  <1> QED  BY <1>5, <1>6

LEMMA SegmentsIs ==
    ASSUME NEW path \in Text, NEW f, Pieces(f, path)
    PROVE  Segments(path) = f[Len(path)]
  <1> DEFINE g == CHOOSE g : g = [i \in 0 .. Len(path) |->
                                    IF i = 0 THEN <<<<>>>> ELSE Longer(g[i - 1], path[i])]
  <1>1. Segments(path) = g[Len(path)]
    BY DEF Segments
  <1>2. Pieces(g, path)
    <2>1. g = [i \in 0 .. Len(path) |-> IF i = 0 THEN <<<<>>>> ELSE Longer(g[i - 1], path[i])]
      BY DEF Pieces
    <2> HIDE DEF g
    <2> QED  BY <2>1 DEF Pieces
  <1> HIDE DEF g
  <1>3. f = g
    BY <1>2, PiecesUnique
  <1> QED  BY <1>1, <1>3

LEMMA SegmentsEmpty == Segments(<<>>) = <<<<>>>>
  <1>1. PICK f \in [0 .. Len(<<>>) -> Lists] : Pieces(f, <<>>)
    BY EmptyText, PiecesExist
  <1>2. Len(<<>>) = 0 /\ 0 \in 0 .. 0
    OBVIOUS
  <1>3. f[0] = <<<<>>>>
    BY <1>1, <1>2 DEF Pieces
  <1> QED  BY <1>1, <1>2, <1>3, EmptyText, SegmentsIs

LEMMA SegmentsType ==
    ASSUME NEW path \in Text
    PROVE  Segments(path) \in Lists
  <1>1. PICK f \in [0 .. Len(path) -> Lists] : Pieces(f, path)
    BY PiecesExist
  <1>2. Len(path) \in 0 .. Len(path)
    BY LenProperties DEF Text
  <1> QED  BY <1>1, <1>2, SegmentsIs

LEMMA TextAppend ==
    ASSUME NEW path \in Text, NEW c \in Symbol
    PROVE  /\ Append(path, c) \in Text
           /\ Len(path) \in Nat /\ Len(Append(path, c)) = Len(path) + 1
           /\ \A i \in 1 .. Len(path) : Append(path, c)[i] = path[i]
           /\ Append(path, c)[Len(path) + 1] = c
  <1>1. path \in Seq(Symbol)
    BY DEF Text
  <1>2. Append(path, c) \in Seq(Symbol)
    BY <1>1, AppendProperties
  <1>3. Len(path) \in Nat /\ Len(Append(path, c)) = Len(path) + 1
    BY <1>1
  <1>4. \A i \in 1 .. Len(path) : Append(path, c)[i] = path[i]
    BY <1>1
  <1>5. Append(path, c)[Len(path) + 1] = c
    BY <1>1, AppendProperties
  <1> QED  BY <1>2, <1>3, <1>4, <1>5 DEF Text

(* The pieces of a path that is one symbol longer.                         *)
LEMMA SegmentsAppend ==
    ASSUME NEW path \in Text, NEW c \in Symbol
    PROVE  /\ Append(path, c) \in Text
           /\ Segments(Append(path, c)) = Longer(Segments(path), c)
  <1> DEFINE n == Len(path)
             t == Append(path, c)
  <1>1. /\ n \in Nat /\ t \in Text /\ Len(t) = n + 1
        /\ \A i \in 1 .. n : t[i] = path[i]
        /\ t[n + 1] = c
    BY TextAppend
  <1> HIDE DEF t, n
  <1>2. PICK f \in [0 .. Len(t) -> Lists] : Pieces(f, t)
    BY <1>1, PiecesExist
  <1>3. \A i \in 0 .. n + 1 : f[i] = IF i = 0 THEN <<<<>>>> ELSE Longer(f[i - 1], t[i])
    BY <1>1, <1>2 DEF Pieces
  <1> DEFINE g == [i \in 0 .. n |-> f[i]]
  <1>4. \A i \in 0 .. n : g[i] = IF i = 0 THEN <<<<>>>> ELSE Longer(g[i - 1], path[i])
    <2>1. \A i \in 0 .. n : i \in 0 .. n + 1 /\ (i # 0 => i \in 1 .. n /\ i - 1 \in 0 .. n)
      BY <1>1
    <2> QED  BY <1>1, <1>3, <2>1
  <1>5. g = [i \in 0 .. n |-> g[i]]
    OBVIOUS
  <1>6. g[n] = f[n]
    BY <1>1
  <1> HIDE DEF g
  <1>7. Pieces(g, path)
    BY <1>4, <1>5 DEF Pieces, n
  <1>8. Segments(path) = f[n]
    BY <1>6, <1>7, SegmentsIs DEF n
  <1>9. Segments(t) = f[n + 1]
    BY <1>1, <1>2, SegmentsIs
  <1>10. f[n + 1] = Longer(f[n], c)
    <2>1. n + 1 \in 0 .. n + 1 /\ n + 1 # 0 /\ (n + 1) - 1 = n
      BY <1>1
    <2> QED  BY <1>1, <1>3, <2>1
  <1> QED  BY <1>1, <1>8, <1>9, <1>10 DEF t

-----------------------------------------------------------------------------
(* Paths that are joined.                                                  *)

LEMMA TextFront ==
    ASSUME NEW path \in Text, path # <<>>
    PROVE  /\ Front(path) \in Text /\ Last(path) \in Symbol
           /\ path = Append(Front(path), Last(path))
           /\ Len(path) \in Nat \ {0} /\ Len(Front(path)) = Len(path) - 1
           /\ Last(path) = path[Len(path)]
  <1>1. path \in Seq(Symbol)
    BY DEF Text
  <1> QED  BY <1>1, FrontThenLast DEF Text

LEMMA TextConcat ==
    /\ \A s, t \in Text : s \o t \in Text
    /\ \A s, t, u \in Text : (s \o t) \o u = s \o (t \o u)
    /\ \A s \in Text : s \o <<>> = s /\ <<>> \o s = s
    /\ \A s \in Text : \A c \in Symbol : Append(s, c) = s \o <<c>> /\ <<c>> \in Text
  <1>1. \A S : \A s, t \in Seq(S) : s \o t \in Seq(S)
    BY ConcatProperties
  <1>2. \A S : \A s, t, u \in Seq(S) : (s \o t) \o u = s \o (t \o u)
    BY ConcatAssociative
  <1>3. \A S : \A s \in Seq(S) : s \o <<>> = s /\ <<>> \o s = s
    BY ConcatEmptySeq
  <1>4. \A S : \A s \in Seq(S) : \A c \in S : Append(s, c) = s \o <<c>>
    BY AppendIsConcat
  <1>5. \A S : \A c \in S : <<c>> \in Seq(S)
    OBVIOUS
  <1>6. \A s, t \in Text : s \o t \in Text
    BY <1>1 DEF Text
  <1>7. \A s, t, u \in Text : (s \o t) \o u = s \o (t \o u)
    BY <1>2 DEF Text
  <1>8. \A s \in Text : s \o <<>> = s /\ <<>> \o s = s
    BY <1>3 DEF Text
  <1>9. \A s \in Text : \A c \in Symbol : Append(s, c) = s \o <<c>>
    BY <1>4 DEF Text
  <1>10. \A c \in Symbol : <<c>> \in Text
    BY <1>5 DEF Text
  <1> QED  BY <1>6, <1>7, <1>8, <1>9, <1>10

LEMMA TextAssociates ==
    ASSUME NEW s \in Text, NEW t \in Text, NEW u \in Text
    PROVE  (s \o t) \o u = s \o (t \o u)
  BY TextConcat

LEMMA JoinProperties ==
    ASSUME NEW p \in Text, NEW q \in Text
    PROVE  /\ Join(p, q) \in Text
           /\ Join(p, q) = Append(p, "/") \o q
           /\ Join(p, <<>>) = Append(p, "/")
           /\ \A c \in Symbol : Join(p, Append(q, c)) = Append(Join(p, q), c)
  <1>1. "/" \in Symbol
    BY SymbolAssumption
  <1>2. Append(p, "/") = p \o <<"/">> /\ p \o <<"/">> \in Text
    BY <1>1, TextConcat
  <1> DEFINE b == p \o <<"/">>
  <1>3. \A r : Join(p, r) = b \o r
    BY DEF Join
  <1>4. b \in Text
    BY <1>2
  <1> HIDE DEF b
  <1>5. b \o q \in Text /\ b \o <<>> = b
    BY <1>4, TextConcat
  <1>6. ASSUME NEW c \in Symbol
        PROVE  Join(p, Append(q, c)) = Append(Join(p, q), c)
    <2>1. Append(q, c) = q \o <<c>> /\ <<c>> \in Text
      BY TextConcat
    <2>2. Append(b \o q, c) = (b \o q) \o <<c>>
      BY <1>3, <1>5, TextConcat
    <2>3. (b \o q) \o <<c>> = b \o (q \o <<c>>)
      BY <1>4, <2>1, TextConcat
    <2> QED  BY <1>3, <2>1, <2>2, <2>3
  <1>7. b = Append(p, "/")
    BY <1>2 DEF b
  <1> QED  BY <1>3, <1>5, <1>6, <1>7

LEMMA LongerConcat ==
    ASSUME NEW a \in Seq(Text), NEW b \in Lists, NEW c \in Symbol
    PROVE  a \o b \in Lists /\ Longer(a \o b, c) = a \o Longer(b, c)
  <1> DEFINE ab == a \o b
             l == Longer(b, c)
             m == Longer(ab, c)
             n == Len(a)
  <1>1. /\ b \in Seq(Text) /\ Len(b) \in Nat \ {0} /\ n \in Nat
    BY ListProperties, LenProperties
  <1>2. /\ ab \in Seq(Text) /\ Len(ab) = n + Len(b)
        /\ \A i \in 1 .. n : ab[i] = a[i]
        /\ \A i \in 1 .. Len(b) : ab[n + i] = b[i]
    BY <1>1, ConcatBegins
  <1>3. ab \in Lists
    <2> HIDE DEF ab, n
    <2>1. Len(ab) # 0
      BY <1>1, <1>2
    <2>2. ab # <<>>
      BY <2>1
    <2> QED  BY <1>2, <2>2 DEF Lists
  <1>4. l \in Lists /\ m \in Lists
    BY <1>3, LongerProperties
  <1>5. /\ l \in Seq(Text) /\ m \in Seq(Text) /\ Len(l) \in Nat /\ Len(m) \in Nat
    BY <1>4, ListProperties
  <1>6. /\ a \o l \in Seq(Text) /\ Len(a \o l) = n + Len(l)
        /\ \A i \in 1 .. n : (a \o l)[i] = a[i]
        /\ \A i \in 1 .. Len(l) : (a \o l)[n + i] = l[i]
    <2> HIDE DEF l
    <2> QED  BY <1>5, ConcatBegins
  <1>7. /\ c = "/" => /\ Len(l) = Len(b) + 1
                      /\ \A i \in 1 .. Len(b) : l[i] = b[i]
                      /\ l[Len(b) + 1] = <<>>
        /\ c # "/" => /\ Len(l) = Len(b)
                      /\ \A i \in 1 .. Len(b) - 1 : l[i] = b[i]
                      /\ l[Len(b)] = Append(b[Len(b)], c)
    BY LongerProperties
  <1>8. /\ c = "/" => /\ Len(m) = Len(ab) + 1
                      /\ \A i \in 1 .. Len(ab) : m[i] = ab[i]
                      /\ m[Len(ab) + 1] = <<>>
        /\ c # "/" => /\ Len(m) = Len(ab)
                      /\ \A i \in 1 .. Len(ab) - 1 : m[i] = ab[i]
                      /\ m[Len(ab)] = Append(ab[Len(ab)], c)
    BY <1>3, LongerProperties
  <1> DEFINE al == a \o l
  <1> HIDE DEF ab, l, m, n, al
  <1>9. Len(m) = Len(al)
    BY <1>1, <1>2, <1>6, <1>7, <1>8 DEF al
  <1>10. ASSUME NEW i \in 1 .. Len(m)
         PROVE  m[i] = al[i]
    <2>0. i \in Nat /\ 1 <= i /\ i <= Len(m)
      BY <1>5
    <2>1. CASE i \in 1 .. n
      <3>1. i \in 1 .. Len(ab) - 1 /\ i \in 1 .. Len(ab)
        BY <1>1, <1>2, <2>0, <2>1
      <3>2. m[i] = ab[i]
        BY <1>8, <3>1
      <3> QED  BY <1>2, <1>6, <2>1, <3>2 DEF al
    <2>2. CASE i \notin 1 .. n
      <3> DEFINE j == i - n
      <3>1. j \in Nat /\ 1 <= j /\ i = n + j /\ j \in 1 .. Len(l)
        BY <1>1, <1>6, <1>9, <2>0, <2>2 DEF al
      <3> HIDE DEF j
      <3>2. al[i] = l[j]
        BY <1>6, <3>1 DEF al
      <3>3. CASE c = "/" /\ j = Len(b) + 1
        <4>1. i = Len(ab) + 1
          BY <1>1, <1>2, <3>1, <3>3
        <4> QED  BY <1>7, <1>8, <3>2, <3>3, <4>1
      <3>4. CASE c # "/" /\ j = Len(b)
        <4>1. i = Len(ab) /\ ab[n + j] = b[j] /\ j \in 1 .. Len(b)
          BY <1>1, <1>2, <3>1, <3>4
        <4>2. m[i] = Append(ab[i], c) /\ l[j] = Append(b[j], c)
          BY <1>7, <1>8, <3>4, <4>1
        <4> QED  BY <3>1, <3>2, <4>1, <4>2
      <3>5. CASE IF c = "/" THEN j # Len(b) + 1 ELSE j # Len(b)
        <4>1. j \in 1 .. Len(b) /\ (c # "/" => j \in 1 .. Len(b) - 1)
          BY <1>1, <1>7, <3>1, <3>5
        <4>2. l[j] = b[j] /\ ab[i] = b[j]
          BY <1>2, <1>7, <3>1, <4>1
        <4>3. i \in 1 .. Len(ab) /\ (c # "/" => i \in 1 .. Len(ab) - 1)
          BY <1>1, <1>2, <3>1, <4>1
        <4>4. m[i] = ab[i]
          BY <1>8, <4>3
        <4> QED  BY <3>2, <4>2, <4>4
      <3> QED  BY <3>3, <3>4, <3>5
    <2> QED  BY <2>1, <2>2
  <1>11. m = al
    BY <1>5, <1>6, <1>9, <1>10, SeqEqual DEF al
  <1> QED  BY <1>3, <1>11 DEF ab, l, m, al

(* The pieces of a join are those of its parts.                            *)
LEMMA SegmentsJoin ==
    ASSUME NEW p \in Text, NEW q \in Text
    PROVE  Segments(Join(p, q)) = Segments(p) \o Segments(q)
  <1> DEFINE A == {n \in Nat : \A t \in Text :
                      Len(t) = n => Segments(Join(p, t)) = Segments(p) \o Segments(t)}
  <1>0. Segments(p) \in Seq(Text) /\ Segments(p) \in Lists /\ "/" \in Symbol
    <2>1. Segments(p) \in Lists
      BY SegmentsType
    <2>2. Segments(p) \in Seq(Text)
      BY <2>1, ListProperties
    <2> QED  BY <2>1, <2>2, SymbolAssumption
  <1>1. 0 \in A
    <2>1. ASSUME NEW t \in Text, Len(t) = 0
          PROVE  Segments(Join(p, t)) = Segments(p) \o Segments(t)
      <3>1. t = <<>>
        BY <2>1, EmptySeq DEF Text
      <3>2. Segments(Join(p, t)) = Longer(Segments(p), "/")
        BY <1>0, <3>1, JoinProperties, SegmentsAppend
      <3>3. Longer(Segments(p), "/") = Append(Segments(p), <<>>)
        BY DEF Longer
      <3>4. Append(Segments(p), <<>>) = Segments(p) \o <<<<>>>>
        BY <1>0, EmptyText, AppendIsConcat
      <3> QED  BY <3>1, <3>2, <3>3, <3>4, SegmentsEmpty
    <2> QED  BY <2>1
  <1>2. ASSUME NEW n \in Nat, n \in A
        PROVE  n + 1 \in A
    <2>1. ASSUME NEW t \in Text, Len(t) = n + 1
          PROVE  Segments(Join(p, t)) = Segments(p) \o Segments(t)
      <3> DEFINE v == Front(t)
                 c == Last(t)
      <3>1. t # <<>>
        BY <2>1
      <3>2. v \in Text /\ c \in Symbol /\ t = Append(v, c) /\ Len(v) = n
        BY <2>1, <3>1, TextFront
      <3> HIDE DEF v, c
      <3>3. Join(p, t) = Append(Join(p, v), c) /\ Join(p, v) \in Text
        BY <3>2, JoinProperties
      <3>4. Segments(Join(p, t)) = Longer(Segments(Join(p, v)), c)
        BY <3>2, <3>3, SegmentsAppend
      <3>5. Segments(Join(p, v)) = Segments(p) \o Segments(v)
        BY <1>2, <3>2
      <3>6. Segments(v) \in Lists
        BY <3>2, SegmentsType
      <3>7. Longer(Segments(p) \o Segments(v), c) = Segments(p) \o Longer(Segments(v), c)
        BY <1>0, <3>2, <3>6, LongerConcat
      <3>8. Segments(t) = Longer(Segments(v), c)
        BY <3>2, SegmentsAppend
      <3> QED  BY <3>4, <3>5, <3>7, <3>8
    <2> QED  BY <2>1
  <1> HIDE DEF A
  <1>3. Len(q) \in A
    BY <1>1, <1>2, NatSetInduction, LenProperties DEF Text
  <1> QED  BY <1>3 DEF A

(* A list of pieces that is made longer tells what it was, and by what.    *)
LEMMA LongerInjective ==
    ASSUME NEW l \in Lists, NEW c \in Symbol, NEW h \in Lists, NEW d \in Symbol,
           Longer(l, c) = Longer(h, d)
    PROVE  l = h /\ c = d
  <1> DEFINE m == Longer(l, c)
             n == Len(m)
  <1>1. /\ l \in Seq(Text) /\ Len(l) \in Nat \ {0} /\ l[Len(l)] \in Text
        /\ h \in Seq(Text) /\ Len(h) \in Nat \ {0} /\ h[Len(h)] \in Text
    BY ListProperties
  <1>2. \A x \in Text : \A y \in Symbol : Append(x, y) # <<>>
    <2> SUFFICES ASSUME NEW x \in Text, NEW y \in Symbol PROVE Append(x, y) # <<>>
      OBVIOUS
    <2>1. x \in Seq(Symbol)
      BY DEF Text
    <2> QED  BY <2>1, AppendProperties
  <1>3. \A x, z \in Text : \A y, w \in Symbol : Append(x, y) = Append(z, w) => x = z /\ y = w
    BY AppendInjective DEF Text
  <1>4. /\ c = "/" => /\ n = Len(l) + 1
                      /\ \A i \in 1 .. Len(l) : m[i] = l[i]
                      /\ m[Len(l) + 1] = <<>>
        /\ c # "/" => /\ n = Len(l)
                      /\ \A i \in 1 .. Len(l) - 1 : m[i] = l[i]
                      /\ m[Len(l)] = Append(l[Len(l)], c)
    BY LongerProperties
  <1>5. /\ d = "/" => /\ n = Len(h) + 1
                      /\ \A i \in 1 .. Len(h) : m[i] = h[i]
                      /\ m[Len(h) + 1] = <<>>
        /\ d # "/" => /\ n = Len(h)
                      /\ \A i \in 1 .. Len(h) - 1 : m[i] = h[i]
                      /\ m[Len(h)] = Append(h[Len(h)], d)
    <2>1. m = Longer(h, d)
      OBVIOUS
    <2> HIDE DEF m
    <2> QED  BY <2>1, LongerProperties
  <1> HIDE DEF m, n
  <1>6. CASE c = "/" /\ d = "/"
    <2>1. Len(l) = Len(h)
      BY <1>1, <1>4, <1>5, <1>6
    <2>2. \A i \in 1 .. Len(l) : l[i] = h[i]
      BY <1>4, <1>5, <1>6, <2>1
    <2> QED  BY <1>1, <1>6, <2>1, <2>2, SeqEqual
  <1>7. CASE c # "/" /\ d # "/"
    <2>1. Len(l) = Len(h) /\ n = Len(l)
      BY <1>4, <1>5, <1>7
    <2>2. Append(l[Len(l)], c) = Append(h[Len(l)], d)
      BY <1>4, <1>5, <1>7, <2>1
    <2>3. l[Len(l)] = h[Len(l)] /\ c = d
      BY <1>1, <1>3, <2>1, <2>2
    <2>4. \A i \in 1 .. Len(l) : i \in 1 .. Len(l) - 1 \/ i = Len(l)
      BY <1>1
    <2>5. \A i \in 1 .. Len(l) - 1 : l[i] = h[i]
      BY <1>4, <1>5, <1>7, <2>1
    <2>6. \A i \in 1 .. Len(l) : l[i] = h[i]
      BY <2>3, <2>4, <2>5
    <2>7. l = h
      BY <1>1, <2>1, <2>6, SeqEqual
    <2> QED  BY <2>3, <2>7
  <1>8. CASE c = "/" /\ d # "/"
    <2>1. m[n] = <<>> /\ m[n] = Append(h[Len(h)], d)
      BY <1>4, <1>5, <1>8
    <2> QED  BY <1>1, <1>2, <2>1
  <1>9. CASE c # "/" /\ d = "/"
    <2>1. m[n] = <<>> /\ m[n] = Append(l[Len(l)], c)
      BY <1>4, <1>5, <1>9
    <2> QED  BY <1>1, <1>2, <2>1
  <1> QED  BY <1>6, <1>7, <1>8, <1>9

LEMMA LongerIsSome ==
    ASSUME NEW l \in Lists, NEW c \in Symbol
    PROVE  Longer(l, c) # <<<<>>>>
  <1> DEFINE m == Longer(l, c)
  <1>1. /\ Len(l) \in Nat \ {0} /\ l[Len(l)] \in Text
    BY ListProperties
  <1>2. /\ c = "/" => Len(m) = Len(l) + 1
        /\ c # "/" => Len(m) = Len(l) /\ m[Len(l)] = Append(l[Len(l)], c)
    BY LongerProperties
  <1>3. SUFFICES ASSUME m = <<<<>>>> PROVE FALSE
    OBVIOUS
  <1>4. Len(m) = 1 /\ m[1] = <<>>
    BY <1>3, EmptyText
  <1> HIDE DEF m
  <1>5. c # "/" /\ Len(l) = 1 /\ m[1] = Append(l[1], c) /\ l[1] \in Text
    BY <1>1, <1>2, <1>4
  <1>6. Len(Append(l[1], c)) = Len(l[1]) + 1 /\ Len(l[1]) \in Nat
    BY <1>5, TextAppend
  <1>7. Len(Append(l[1], c)) # 0
    BY <1>6
  <1> QED  BY <1>4, <1>5, <1>7

(* Paths of the same pieces are the same.                                  *)
LEMMA SegmentsInjective ==
    ASSUME NEW a \in Text, NEW b \in Text, Segments(a) = Segments(b)
    PROVE  a = b
  <1> DEFINE A == {n \in Nat : \A s, t \in Text :
                      Len(s) = n /\ Segments(s) = Segments(t) => s = t}
  <1>a. \A s \in Text : Segments(s) \in Lists
    BY SegmentsType
  <1>b. ASSUME NEW s \in Text, s # <<>>
        PROVE  \E v \in Text, c \in Symbol :
                  s = Append(v, c) /\ Len(v) = Len(s) - 1 /\ Segments(s) = Longer(Segments(v), c)
    <2>1. /\ Front(s) \in Text /\ Last(s) \in Symbol
          /\ s = Append(Front(s), Last(s)) /\ Len(Front(s)) = Len(s) - 1
      BY <1>b, TextFront
    <2>2. Segments(Append(Front(s), Last(s))) = Longer(Segments(Front(s)), Last(s))
      BY <2>1, SegmentsAppend
    <2> QED  BY <2>1, <2>2
  <1>1. 0 \in A
    <2>1. ASSUME NEW s \in Text, NEW t \in Text, Len(s) = 0, Segments(s) = Segments(t)
          PROVE  s = t
      <3>1. s = <<>>
        BY <2>1, EmptySeq DEF Text
      <3>2. SUFFICES ASSUME t # <<>> PROVE FALSE
        BY <3>1
      <3>3. PICK v \in Text, c \in Symbol : Segments(t) = Longer(Segments(v), c)
        BY <1>b, <3>2
      <3> QED  BY <1>a, <2>1, <3>1, <3>3, SegmentsEmpty, LongerIsSome
    <2> QED  BY <2>1
  <1>2. ASSUME NEW n \in Nat, n \in A
        PROVE  n + 1 \in A
    <2>1. ASSUME NEW s \in Text, NEW t \in Text, Len(s) = n + 1, Segments(s) = Segments(t)
          PROVE  s = t
      <3>1. s # <<>>
        BY <2>1
      <3>2. PICK v \in Text, c \in Symbol :
               s = Append(v, c) /\ Len(v) = Len(s) - 1 /\ Segments(s) = Longer(Segments(v), c)
        BY <1>b, <3>1
      <3>3. t # <<>>
        BY <1>a, <2>1, <3>2, SegmentsEmpty, LongerIsSome
      <3>4. PICK w \in Text, d \in Symbol :
               t = Append(w, d) /\ Segments(t) = Longer(Segments(w), d)
        BY <1>b, <3>3
      <3>5. Segments(v) = Segments(w) /\ c = d
        <4>1. Longer(Segments(v), c) = Longer(Segments(w), d)
          BY <2>1, <3>2, <3>4
        <4>2. Segments(v) \in Lists /\ Segments(w) \in Lists
          BY <1>a
        <4> QED  BY <4>1, <4>2, LongerInjective
      <3>6. Len(v) = n
        BY <2>1, <3>2
      <3>7. v = w
        BY <1>2, <3>5, <3>6
      <3> QED  BY <3>2, <3>4, <3>5, <3>7
    <2> QED  BY <2>1
  <1> HIDE DEF A
  <1>3. Len(a) \in A
    BY <1>1, <1>2, NatSetInduction, LenProperties DEF Text
  <1> QED  BY <1>3 DEF A

(* A path can be parted at any slash.                                      *)
LEMMA SplitAt ==
    ASSUME NEW path \in Text, NEW n \in 1 .. Len(Segments(path)) - 1
    PROVE  \E a, b \in Text :
              /\ path = Join(a, b) /\ Len(Segments(a)) = n
              /\ \A i \in 1 .. n : Segments(a)[i] = Segments(path)[i]
  <1> DEFINE Parted(s, m) == \E a, b \in Text :
                 /\ s = Join(a, b) /\ Len(Segments(a)) = m
                 /\ \A i \in 1 .. m : Segments(a)[i] = Segments(s)[i]
             A == {x \in Nat : \A s \in Text : Len(s) = x =>
                      \A m \in 1 .. Len(Segments(s)) - 1 : Parted(s, m)}
  <1>1. 0 \in A
    <2>1. ASSUME NEW s \in Text, Len(s) = 0, NEW m \in 1 .. Len(Segments(s)) - 1
          PROVE  FALSE
      <3>1. s = <<>>
        BY <2>1, EmptySeq DEF Text
      <3>2. Len(Segments(s)) = 1
        BY <3>1, SegmentsEmpty, EmptyText
      <3> QED  BY <2>1, <3>2
    <2> QED  BY <2>1
  <1>2. ASSUME NEW x \in Nat, x \in A
        PROVE  x + 1 \in A
    <2>1. ASSUME NEW s \in Text, Len(s) = x + 1, NEW m \in 1 .. Len(Segments(s)) - 1
          PROVE  Parted(s, m)
      <3> DEFINE v == Front(s)
                 c == Last(s)
                 l == Segments(v)
      <3>0. s # <<>>
        BY <2>1
      <3>1. v \in Text /\ c \in Symbol /\ s = Append(v, c) /\ Len(v) = x
        BY <2>1, <3>0, TextFront
      <3> HIDE DEF v, c
      <3>2. l \in Lists /\ Len(l) \in Nat \ {0} /\ Segments(s) = Longer(l, c)
        BY <3>1, SegmentsType, SegmentsAppend, ListProperties
      <3>3. ASSUME NEW a \in Text, NEW b \in Text, v = Join(a, b)
            PROVE  Append(b, c) \in Text /\ s = Join(a, Append(b, c))
        <4>1. Append(b, c) \in Text
          BY <3>1, TextAppend
        <4>2. Join(a, Append(b, c)) = Append(Join(a, b), c)
          BY <3>1, JoinProperties
        <4> QED  BY <3>1, <3>3, <4>1, <4>2
      <3> HIDE DEF l
      <3>4. /\ c = "/" => /\ Len(Segments(s)) = Len(l) + 1
                          /\ \A i \in 1 .. Len(l) : Segments(s)[i] = l[i]
            /\ c # "/" => /\ Len(Segments(s)) = Len(l)
                          /\ \A i \in 1 .. Len(l) - 1 : Segments(s)[i] = l[i]
        BY <3>1, <3>2, LongerProperties
      <3>5. CASE m \in 1 .. Len(l) - 1
        <4>1. PICK a, b \in Text : /\ v = Join(a, b) /\ Len(Segments(a)) = m
                                   /\ \A i \in 1 .. m : Segments(a)[i] = l[i]
          BY <1>2, <3>1, <3>5 DEF l
        <4>2. \A i \in 1 .. m : i \in 1 .. Len(l) /\ i \in 1 .. Len(l) - 1
          BY <3>2, <3>5
        <4>3. \A i \in 1 .. m : Segments(a)[i] = Segments(s)[i]
          BY <3>4, <4>1, <4>2
        <4>4. Append(b, c) \in Text /\ s = Join(a, Append(b, c))
          BY <3>3, <4>1
        <4> QED  BY <4>1, <4>3, <4>4
      <3>6. CASE m \notin 1 .. Len(l) - 1
        <4>1. c = "/" /\ m = Len(l)
          BY <2>1, <3>2, <3>4, <3>6
        <4>2. s = Join(v, <<>>)
          BY <3>1, <4>1, EmptyText, JoinProperties
        <4>3. \A i \in 1 .. m : l[i] = Segments(s)[i]
          BY <3>4, <4>1
        <4> QED  BY <3>1, <4>1, <4>2, <4>3, EmptyText DEF l
      <3> QED  BY <3>5, <3>6
    <2> HIDE DEF Parted
    <2> QED  BY <2>1
  <1> HIDE DEF A
  <1>3. Len(path) \in A
    BY <1>1, <1>2, NatSetInduction, LenProperties DEF Text
  <1> QED  BY <1>3 DEF A

-----------------------------------------------------------------------------
(* A route that matches covers whole segments.                             *)

LEMMA FirstsAgree ==
    ASSUME NEW S, NEW s \in Seq(S), NEW t \in Seq(S), NEW n \in Nat, n <= Len(s), n <= Len(t)
    PROVE  SubSeq(s, 1, n) = SubSeq(t, 1, n) <=> \A i \in 1 .. n : s[i] = t[i]
  <1>1. Len(s) \in Nat /\ Len(t) \in Nat
    BY LenProperties
  <1>2. /\ SubSeq(s, 1, n) = [i \in 1 .. n |-> s[i]]
        /\ SubSeq(t, 1, n) = [i \in 1 .. n |-> t[i]]
    BY <1>1
  <1>3. [i \in 1 .. n |-> s[i]] = [i \in 1 .. n |-> t[i]] <=> \A i \in 1 .. n : s[i] = t[i]
    <2> DEFINE f == [i \in 1 .. n |-> s[i]]
               g == [i \in 1 .. n |-> t[i]]
    <2>1. ASSUME f = g PROVE \A i \in 1 .. n : s[i] = t[i]
      <3>1. \A i \in 1 .. n : f[i] = s[i] /\ g[i] = t[i]
        OBVIOUS
      <3> HIDE DEF f, g
      <3> QED  BY <2>1, <3>1
    <2> QED  BY <2>1
  <1> QED  BY <1>2, <1>3

(* Pieces a route's path asks for: all of them, but for an empty last one. *)
Asked(s) == IF Len(s) > 1 /\ Last(s) = <<>> THEN Len(s) - 1 ELSE Len(s)
CoversPieces(s, q) == Len(q) >= Len(s) /\ \A i \in 1 .. Asked(s) : q[i] = s[i]

LEMMA CoversByPieces ==
    ASSUME NEW r, r.path \in Text, NEW path \in Text
    PROVE  Covers(r, path) <=> CoversPieces(Segments(r.path), Segments(path))
  <1> DEFINE s == Segments(r.path)
             q == Segments(path)
             n == Asked(s)
  <1>1. Covers(r, path) <=> Len(q) >= Len(s) /\ SubSeq(q, 1, n) = SubSeq(s, 1, n)
    BY DEF Covers, Asked
  <1>2. s \in Lists /\ q \in Lists
    BY SegmentsType
  <1> HIDE DEF s, q
  <1>3. s \in Seq(Text) /\ q \in Seq(Text) /\ Len(s) \in Nat \ {0} /\ Len(q) \in Nat
    BY <1>2, ListProperties
  <1>4. n \in Nat /\ n <= Len(s)
    BY <1>3 DEF Asked
  <1> HIDE DEF n
  <1>5. ASSUME Len(q) >= Len(s)
        PROVE  SubSeq(q, 1, n) = SubSeq(s, 1, n) <=> \A i \in 1 .. n : q[i] = s[i]
    <2>1. n <= Len(q)
      BY <1>3, <1>4, <1>5
    <2> QED  BY <1>3, <1>4, <2>1, FirstsAgree
  <1> QED  BY <1>1, <1>5 DEF CoversPieces, n, s, q

Matches(r, path) == IsPrefix(r.path, path) /\ AtBoundary(r, path)

LEMMA MatchCovers ==
    ASSUME NEW r, r.path \in Text, NEW path \in Text, Matches(r, path)
    PROVE  CoversPieces(Segments(r.path), Segments(path))
  <1> DEFINE p == r.path
             s == Segments(p)
             q == Segments(path)
  <1>1. IsPrefix(p, path)
    BY DEF Matches
  <1>2. \/ Len(path) = Len(p)
        \/ p # <<>> /\ Last(p) = "/"
        \/ path[Len(p) + 1] = "/"
    BY DEF Matches, AtBoundary
  <1>3. p \in Text
    OBVIOUS
  <1> HIDE DEF p
  <1>4. /\ s \in Lists /\ q \in Lists /\ s \in Seq(Text) /\ Len(s) \in Nat \ {0}
        /\ Last(s) = s[Len(s)]
    BY <1>3, SegmentsType, ListProperties
  <1>5. PICK u \in Text : path = p \o u
    BY <1>1, <1>3, PrefixSplits DEF Text
  <1>6. /\ Len(path) = Len(p) + Len(u) /\ Len(p) \in Nat /\ Len(u) \in Nat
        /\ \A i \in 1 .. Len(u) : path[Len(p) + i] = u[i]
    BY <1>3, <1>5, ConcatBegins DEF Text
  <1>7. CASE u = <<>>
    <2>1. q = s
      BY <1>3, <1>5, <1>7, TextConcat
    <2> HIDE DEF q, s
    <2> QED  BY <1>4, <2>1 DEF CoversPieces, p, q, s
  <1>8. CASE u # <<>> /\ path[Len(p) + 1] = "/"
    <2>1. Len(u) # 0
      BY <1>8, EmptySeq DEF Text
    <2>2. u[1] = "/"
      BY <1>6, <1>8, <2>1
    <2>3. u = <<Head(u)>> \o Tail(u) /\ Head(u) = u[1] /\ Tail(u) \in Text
      BY <1>8, HeadThenTail, HeadTailProperties DEF Text
    <2>4. path = Join(p, Tail(u))
      <3>1. <<"/">> \in Text
        BY SymbolAssumption, TextConcat
      <3>2. path = p \o (<<"/">> \o Tail(u))
        BY <1>5, <2>2, <2>3
      <3> DEFINE x == <<"/">>
                 v == Tail(u)
      <3>3. x \in Text /\ v \in Text /\ path = p \o (x \o v)
        BY <2>3, <3>1, <3>2
      <3>4. Join(p, v) = (p \o x) \o v
        BY DEF Join
      <3> HIDE DEF x, v
      <3>5. (p \o x) \o v = p \o (x \o v)
        BY <1>3, <3>3, TextAssociates, SMTT(40)
      <3> QED  BY <3>3, <3>4, <3>5 DEF v
    <2>5. q = s \o Segments(Tail(u))
      BY <1>3, <2>3, <2>4, SegmentsJoin
    <2>6. Segments(Tail(u)) \in Seq(Text)
      BY <2>3, SegmentsType, ListProperties
    <2> HIDE DEF q, s
    <2>7. Len(q) >= Len(s) /\ \A i \in 1 .. Len(s) : q[i] = s[i]
      <3>1. Len(q) = Len(s) + Len(Segments(Tail(u))) /\ Len(Segments(Tail(u))) \in Nat
        BY <1>4, <2>5, <2>6, ConcatBegins
      <3>2. \A i \in 1 .. Len(s) : q[i] = s[i]
        BY <1>4, <2>5, <2>6, ConcatBegins
      <3> QED  BY <1>4, <3>1, <3>2
    <2>8. \A i \in 1 .. Asked(s) : i \in 1 .. Len(s)
      BY <1>4 DEF Asked
    <2> QED  BY <2>7, <2>8 DEF CoversPieces, p, q, s
  <1>9. CASE p # <<>> /\ Last(p) = "/"
    <2> DEFINE w == Front(p)
               a == Segments(w)
    <2>1. w \in Text /\ p = Append(w, "/")
      BY <1>3, <1>9, TextFront
    <2> HIDE DEF w
    <2>2. p = Join(w, <<>>)
      BY <2>1, EmptyText, JoinProperties
    <2>3. path = Join(w, u)
      BY <1>5, <2>1, JoinProperties
    <2>4. s = a \o <<<<>>>> /\ q = a \o Segments(u)
      BY <2>1, <2>2, <2>3, EmptyText, SegmentsEmpty, SegmentsJoin
    <2>5. /\ a \in Seq(Text) /\ Len(a) \in Nat \ {0}
          /\ Segments(u) \in Seq(Text) /\ Len(Segments(u)) \in Nat \ {0}
          /\ <<<<>>>> \in Seq(Text)
      BY <2>1, SegmentsType, ListProperties, EmptyText
    <2> HIDE DEF q, s, a
    <2>6. /\ Len(s) = Len(a) + 1 /\ \A i \in 1 .. Len(a) : s[i] = a[i]
          /\ s[Len(a) + 1] = <<>>
      <3>1. Append(a, <<>>) = s
        BY <2>4, <2>5, EmptyText, AppendIsConcat
      <3> QED  BY <2>5, <3>1, EmptyText, AppendProperties, SMTT(40)
    <2>7. Len(q) = Len(a) + Len(Segments(u)) /\ \A i \in 1 .. Len(a) : q[i] = a[i]
      BY <2>4, <2>5, ConcatBegins
    <2>8. Asked(s) = Len(a)
      BY <1>4, <2>5, <2>6 DEF Asked
    <2>9. Len(q) >= Len(s)
      BY <2>5, <2>6, <2>7
    <2> QED  BY <2>6, <2>7, <2>8, <2>9 DEF CoversPieces, p, q, s
  <1>10. u = <<>> \/ (u # <<>> /\ path[Len(p) + 1] = "/") \/ (p # <<>> /\ Last(p) = "/")
    <2>1. u # <<>> => Len(u) # 0
      BY EmptySeq DEF Text
    <2> QED  BY <1>2, <1>6, <2>1
  <1> QED  BY <1>7, <1>8, <1>9, <1>10

LEMMA OneMore ==
    ASSUME NEW t \in Seq(Text), NEW v \in Seq(Text), NEW s, s = t \o v,
           Len(s) = Len(t) + 1, s[Len(s)] = <<>>
    PROVE  v = <<<<>>>>
  <1>1. /\ Len(s) = Len(t) + Len(v) /\ Len(t) \in Nat /\ Len(v) \in Nat
        /\ \A i \in 1 .. Len(v) : s[Len(t) + i] = v[i]
    BY ConcatBegins
  <1>2. Len(v) = 1
    <2>1. \A x, y \in Nat : x + 1 = x + y => y = 1
      OBVIOUS
    <2>2. Len(t) + 1 = Len(t) + Len(v)
      BY <1>1, Zenon
    <2> QED  BY <1>1, <2>1, <2>2, Zenon
  <1>3. v[1] = <<>>
    BY <1>1, <1>2
  <1>4. <<<<>>>> \in Seq(Text)
    BY EmptyText DEF Lists
  <1>5. \A i \in 1 .. Len(v) : v[i] = <<<<>>>>[i]
    BY <1>2, <1>3, EmptyText
  <1> QED  BY <1>2, <1>4, <1>5, EmptyText, SeqEqual

LEMMA CoversMatches ==
    ASSUME NEW r, r.path \in Text, NEW path \in Text,
           CoversPieces(Segments(r.path), Segments(path))
    PROVE  Matches(r, path)
  <1> DEFINE p == r.path
             s == Segments(p)
             q == Segments(path)
             n == Asked(s)
  <1>1. Len(q) >= Len(s) /\ \A i \in 1 .. n : q[i] = s[i]
    BY DEF CoversPieces
  <1>2. p \in Text
    OBVIOUS
  <1>3. SUFFICES /\ IsPrefix(p, path)
                 /\ \/ Len(path) = Len(p)
                    \/ p # <<>> /\ Last(p) = "/"
                    \/ path[Len(p) + 1] = "/"
    BY DEF Matches, AtBoundary
  <1> HIDE DEF p
  <1>4. /\ s \in Seq(Text) /\ Len(s) \in Nat \ {0} /\ Last(s) = s[Len(s)]
        /\ q \in Seq(Text) /\ Len(q) \in Nat \ {0}
    BY <1>2, SegmentsType, ListProperties
  <1>5. CASE n = Len(s) /\ Len(q) = Len(s)
    <2>1. q = s
      <3> HIDE DEF q, s, n
      <3> QED  BY <1>1, <1>4, <1>5, SeqEqual
    <2>2. path = p
      BY <1>2, <2>1, SegmentsInjective
    <2>3. IsPrefix(p, p)
      BY <1>2 DEF IsPrefix, Text
    <2> QED  BY <2>2, <2>3
  <1>6. CASE n = Len(s) /\ Len(q) > Len(s)
    <2>1. Len(s) \in 1 .. Len(q) - 1
      BY <1>4, <1>6
    <2>2. PICK a, b \in Text : /\ path = Join(a, b) /\ Len(Segments(a)) = Len(s)
                               /\ \A i \in 1 .. Len(s) : Segments(a)[i] = q[i]
      BY <2>1, SplitAt
    <2>3. Segments(a) \in Seq(Text)
      BY <2>2, SegmentsType, ListProperties
    <2>4. Segments(a) = s
      <3> DEFINE t == Segments(a)
      <3> HIDE DEF q, s, n, t
      <3>1. \A i \in 1 .. Len(t) : t[i] = s[i]
        BY <1>1, <1>6, <2>2 DEF t
      <3>2. t = s
        BY <1>4, <2>2, <2>3, <3>1, SeqEqual DEF t
      <3> QED  BY <3>2 DEF t
    <2>5. a = p
      BY <1>2, <2>4, SegmentsInjective
    <2>6. path = Append(p, "/") \o b /\ Append(p, "/") \in Text
      BY <1>2, <2>2, <2>5, JoinProperties, TextAppend, SymbolAssumption
    <2>7. /\ Len(Append(p, "/")) = Len(p) + 1 /\ Append(p, "/")[Len(p) + 1] = "/"
          /\ Len(p) \in Nat
      BY <1>2, TextAppend, SymbolAssumption
    <2>8. path[Len(p) + 1] = "/"
      <3> DEFINE x == Append(p, "/")
      <3>1. Len(x) = Len(p) + 1 /\ x[Len(p) + 1] = "/" /\ path = x \o b /\ x \in Text
        BY <2>6, <2>7
      <3> HIDE DEF x
      <3>2. \A i \in 1 .. Len(x) : path[i] = x[i]
        BY <2>2, <3>1, ConcatBegins DEF Text
      <3> QED  BY <2>7, <3>1, <3>2
    <2>9. IsPrefix(p, path)
      <3>1. <<"/">> \in Text /\ <<"/">> \o b \in Text
        BY <2>2, TextConcat, SymbolAssumption
      <3>2. path = p \o (<<"/">> \o b)
        BY <1>2, <2>2, <2>5, <3>1, TextConcat, SMTT(40) DEF Join
      <3> QED  BY <1>2, <3>1, <3>2, ConcatIsPrefix DEF Text
    <2> QED  BY <2>8, <2>9
  <1>7. CASE n # Len(s)
    <2>1. Len(s) > 1 /\ s[Len(s)] = <<>> /\ n = Len(s) - 1
      BY <1>4, <1>7 DEF Asked
    <2>2. n \in 1 .. Len(s) - 1 /\ n \in 1 .. Len(q) - 1
      <3> HIDE DEF n
      <3> QED  BY <1>1, <1>4, <2>1
    <2> HIDE DEF n
    <2>3. PICK a, b \in Text : /\ p = Join(a, b) /\ Len(Segments(a)) = n
                               /\ \A i \in 1 .. n : Segments(a)[i] = s[i]
      BY <1>2, <2>2, SplitAt
    <2>4. PICK c, d \in Text : /\ path = Join(c, d) /\ Len(Segments(c)) = n
                               /\ \A i \in 1 .. n : Segments(c)[i] = q[i]
      BY <2>2, SplitAt
    <2>5. /\ Segments(a) \in Seq(Text) /\ Segments(c) \in Seq(Text)
          /\ Segments(b) \in Seq(Text) /\ Len(Segments(b)) \in Nat
      BY <2>3, <2>4, SegmentsType, ListProperties
    <2>6. Segments(a) = Segments(c)
      <3> DEFINE t == Segments(a)
                 v == Segments(c)
      <3> HIDE DEF q, s, t, v
      <3>1. \A i \in 1 .. Len(t) : t[i] = v[i]
        BY <1>1, <2>3, <2>4 DEF t, v
      <3>2. t = v
        BY <2>3, <2>4, <2>5, <3>1, SeqEqual DEF t, v
      <3> QED  BY <3>2 DEF t, v
    <2>7. a = c
      BY <2>3, <2>4, <2>6, SegmentsInjective
    <2>8. Segments(b) = Segments(<<>>)
      <3>1. s = Segments(a) \o Segments(b)
        BY <2>3, SegmentsJoin
      <3>2. Segments(b) = <<<<>>>>
        <4> DEFINE t == Segments(a)
                   v == Segments(b)
        <4>1. Len(t) = Len(s) - 1 /\ Len(s) \in Nat
          BY <1>4, <2>1, <2>3
        <4>2. Len(s) = Len(t) + 1
          <5> HIDE DEF s, t
          <5> QED  BY <4>1
        <4>3. t \in Seq(Text) /\ v \in Seq(Text) /\ s = t \o v /\ s[Len(s)] = <<>>
          BY <2>1, <2>5, <3>1
        <4> HIDE DEF s, t, v
        <4>4. v = <<<<>>>>
          BY <4>2, <4>3, OneMore
        <4> QED  BY <4>4 DEF v
      <3> QED  BY <3>2, SegmentsEmpty
    <2>9. b = <<>>
      BY <2>3, <2>8, EmptyText, SegmentsInjective
    <2>10. p = Append(a, "/") /\ path = Append(a, "/") \o d
      BY <2>3, <2>4, <2>7, <2>9, JoinProperties
    <2>11. IsPrefix(p, path)
      BY <1>2, <2>4, <2>10, ConcatIsPrefix DEF Text
    <2>12. p # <<>> /\ Last(p) = "/"
      <3>1. a \in Seq(Symbol)
        BY <2>3 DEF Text
      <3>2. p # <<>> /\ Len(p) = Len(a) + 1 /\ p[Len(a) + 1] = "/"
        BY <2>10, <3>1, AppendProperties, SymbolAssumption
      <3> QED  BY <3>2 DEF Last
    <2> QED  BY <2>11, <2>12
  <1>8. n = Len(s) => Len(q) = Len(s) \/ Len(q) > Len(s)
    BY <1>1, <1>4
  <1> QED  BY <1>5, <1>6, <1>7, <1>8

-----------------------------------------------------------------------------
(* The route of a request.                                                 *)

(* What Covers asks of a route is what find_route asks of it.              *)
LEMMA CoversIsMatch ==
    ASSUME NEW r, r.path \in Text, NEW path \in Text
    PROVE  Covers(r, path) <=> IsPrefix(r.path, path) /\ AtBoundary(r, path)
  BY CoversByPieces, MatchCovers, CoversMatches DEF Matches

(* find_route takes one of the longest that match, if one does.            *)
LEMMA BestIsLongest ==
    ASSUME NEW S, NEW routes \in Seq(S), \A r \in S : r.path \in Text, NEW path \in Text
    PROVE  LET best == BestMatch(routes, path)
               covering == {r \in Range(routes) : Covers(r, path)}
           IN  IF covering = {} THEN best = NoRoute
               ELSE /\ best \in covering
                    /\ \A r \in covering : Len(r.path) <= Len(best.path)
  <1> DEFINE covering == {r \in Range(routes) : Covers(r, path)}
             matching == {i \in DOMAIN routes :
                             IsPrefix(routes[i].path, path) /\ AtBoundary(routes[i], path)}
             longest == {i \in matching :
                            \A j \in matching : Len(routes[j].path) <= Len(routes[i].path)}
             best == BestMatch(routes, path)
  <1>1. /\ Len(routes) \in Nat /\ DOMAIN routes = 1 .. Len(routes)
        /\ \A i \in DOMAIN routes : routes[i] \in S /\ routes[i] \in Range(routes)
    BY LenProperties, ElementOfSeq DEF Range
  <1>2. best = IF matching = {} THEN NoRoute ELSE routes[Min(longest)]
    BY DEF BestMatch
  <1>3. \A i \in DOMAIN routes : i \in matching <=> routes[i] \in covering
    <2> SUFFICES ASSUME NEW i \in DOMAIN routes
                 PROVE  i \in matching <=> routes[i] \in covering
      OBVIOUS
    <2> DEFINE r == routes[i]
    <2>1. r \in Range(routes) /\ r.path \in Text
      BY <1>1
    <2> HIDE DEF r
    <2>2. Covers(r, path) <=> IsPrefix(r.path, path) /\ AtBoundary(r, path)
      BY <2>1, CoversIsMatch
    <2> QED  BY <2>1, <2>2 DEF r
  <1>4. \A r \in covering : \E i \in matching : r = routes[i]
    <2>1. \A r \in Range(routes) : \E i \in DOMAIN routes : r = routes[i]
      BY DEF Range
    <2> QED  BY <1>3, <2>1
  <1>5. matching \subseteq DOMAIN routes /\ \A i \in matching : routes[i] \in covering
    BY <1>3
  <1>6. \A i \in matching : Len(routes[i].path) \in 0 .. Len(path)
    <2> SUFFICES ASSUME NEW i \in matching PROVE Len(routes[i].path) \in 0 .. Len(path)
      OBVIOUS
    <2>1. routes[i].path \in Text /\ IsPrefix(routes[i].path, path)
      BY <1>1
    <2>2. Len(routes[i].path) \in Nat /\ Len(path) \in Nat
      BY <2>1, LenProperties DEF Text
    <2>3. Len(routes[i].path) <= Len(path)
      BY <2>1 DEF IsPrefix
    <2> QED  BY <2>2, <2>3
  <1>7. longest = {i \in matching :
                      \A j \in matching : Len(routes[j].path) <= Len(routes[i].path)}
    OBVIOUS
  <1> HIDE DEF covering, matching, longest, best
  <1>8. CASE covering = {}
    <2>1. matching = {}
      BY <1>5, <1>8
    <2> QED  BY <1>2, <1>8, <2>1 DEF best, covering
  <1>9. CASE covering # {}
    <2>1. matching # {}
      BY <1>4, <1>9
    <2> DEFINE L == {Len(routes[i].path) : i \in matching}
    <2>a. Len(path) \in Nat
      BY LenProperties DEF Text
    <2>2. L \in SUBSET (0 .. Len(path)) /\ L # {}
      BY <1>6, <2>1
    <2> HIDE DEF L
    <2>3. Max(L) \in L /\ \A y \in L : y <= Max(L)
      BY <2>a, <2>2, MaxOfBounded
    <2>4. PICK m \in matching : Max(L) = Len(routes[m].path)
      BY <2>3 DEF L
    <2>5. m \in longest
      BY <1>7, <2>3, <2>4 DEF L
    <2>6. longest \in SUBSET Nat /\ longest # {}
      <3>1. longest \subseteq matching
        BY <1>7
      <3>2. matching \subseteq Nat
        BY <1>1, <1>5
      <3> QED  BY <2>5, <3>1, <3>2
    <2>7. Min(longest) \in longest
      BY <2>6, MinOfSome
    <2>8. PICK n \in longest : best = routes[n]
      BY <1>2, <2>1, <2>7
    <2>9. n \in matching /\ \A j \in matching : Len(routes[j].path) <= Len(routes[n].path)
      BY <1>7
    <2>10. best \in covering
      BY <1>5, <2>8, <2>9
    <2>11. \A r \in covering : Len(r.path) <= Len(best.path)
      BY <1>4, <2>8, <2>9
    <2> QED  BY <1>9, <2>10, <2>11 DEF best, covering
  <1> QED  BY <1>8, <1>9

(* The routes of a completed block are routes with a root.                 *)
LEMMA CompletedRoutes ==
    ASSUME NEW s, IsBlock(s)
    PROVE  Completed(s).routes \in Seq(RouteBlock)
  <1> DEFINE n == Len(s.routes)
             c == [i \in DOMAIN s.routes |-> [s.routes[i] EXCEPT !.root = RouteRoot(s, s.routes[i])]]
  <1>1. s.routes \in Seq(RouteBlock) /\ s.root \in Text
    BY BlockFields
  <1>2. n \in Nat /\ DOMAIN s.routes = 1 .. n /\ \A i \in 1 .. n : s.routes[i] \in RouteBlock
    BY <1>1, LenProperties, ElementOfSeq
  <1>3. ASSUME NEW r \in RouteBlock
        PROVE  [r EXCEPT !.root = RouteRoot(s, r)] \in RouteBlock
    <2>1. RouteRoot(s, r) \in Text
      BY <1>1 DEF RouteRoot, RouteBlock
    <2> QED  BY <2>1 DEF RouteBlock
  <1>4. c \in [1 .. n -> RouteBlock]
    BY <1>2, <1>3
  <1>5. c \in Seq(RouteBlock)
    BY <1>2, <1>4
  <1> QED  BY <1>5, CompletedFields

LEMMA RouteIsSome == NoRoute \notin RouteBlock
  <1>1. \A r \in RouteBlock : "root" \in DOMAIN r
    BY DEF RouteBlock
  <1>2. "root" \notin DOMAIN NoRoute
    BY DEF NoRoute
  <1> QED  BY <1>1, <1>2

(* What serves a request: a completed block that was found sound.          *)
LEMMA ServerOfAnswer ==
    ASSUME IInv, answer # NoAnswer
    PROVE  \E i \in Accepted : /\ answer.server = Completed(file[i])
                               /\ IsBlock(file[i]) /\ Sound(file[i])
                               /\ answer.server \in Range(servers)
  <1> DEFINE t == answer.token
             a == listeners[t].address
             here == BlocksAt(Accepted, a)
             list == listeners[t].config_list
             s == answer.server
  <1>1. /\ pc = "running" /\ IsFile(file)
        /\ t \in DOMAIN listeners
        /\ s = ResolveConfig(list, answer.name)
        /\ list = Behind(a)
    BY DEF IInv, PlaceInv, AnswerInv, Made, ListenInv
  <1>2. /\ here \subseteq Accepted /\ Accepted \subseteq 1 .. Len(file)
        /\ list \in Seq(Served(here)) /\ Range(list) = Served(here) /\ Len(list) \in Nat \ {0}
    BY <1>1, BlocksBehind
  <1> HIDE DEF a, here, list, s, t
  <1>3. s \in Range(list)
    <2> DEFINE S == Served(here)
    <2>1. list \in Seq(S) /\ list # <<>>
      BY <1>2
    <2> HIDE DEF S
    <2> QED  BY <1>1, <2>1, Resolved
  <1>4. PICK i \in here : s = Completed(file[i])
    BY <1>2, <1>3 DEF Served
  <1>5. IsBlock(file[i]) /\ Sound(file[i]) /\ i \in Accepted
    BY <1>1, <1>2, FileBlocks DEF Accepted
  <1>6. Range(list) \subseteq Range(servers)
    <2> DEFINE S == Served(Accepted)
               P == {j \in 1 .. Len(servers) : Listens(servers[j], a)}
    <2>1. servers \in Seq(S)
      BY DEF IInv, ServeInv
    <2> HIDE DEF S
    <2>2. list = Pick(servers, P) /\ P \in SUBSET (1 .. Len(servers))
      BY <1>1, <2>1, BehindPicks
    <2> HIDE DEF P
    <2>3. /\ list \in Seq(S)
          /\ \A n \in 1 .. Len(list) : \E j \in P : list[n] = servers[j]
      BY <2>1, <2>2, PickProperties
    <2>4. DOMAIN list = 1 .. Len(list) /\ DOMAIN servers = 1 .. Len(servers)
      BY <2>1, <2>3
    <2> QED  BY <2>2, <2>3, <2>4 DEF Range
  <1> QED  BY <1>3, <1>4, <1>5, <1>6 DEF s

(* Whatever order the routes come in, a request gets the route that covers *)
(* most of its path, and 404 when none covers it: find_route.              *)
THEOREM RouteAlwaysRight == Spec => []RightRoute
  <1>1. ASSUME IInv PROVE RightRoute
    <2> DEFINE s == answer.server
               covering == {r \in Range(s.routes) : Covers(r, answer.path)}
               best == BestMatch(s.routes, answer.path)
    <2> SUFFICES ASSUME answer # NoAnswer
                 PROVE  IF covering = {} THEN answer.found.status = 404
                        ELSE /\ answer.found.route \in covering
                             /\ \A r \in covering : Len(r.path) <= Len(answer.found.route.path)
                             /\ answer.found.status = 405
                                  <=> <<answer.method>> \notin Range(answer.found.route.methods)
      BY DEF RightRoute
    <2>1. PICK i \in Accepted : s = Completed(file[i]) /\ IsBlock(file[i])
      BY <1>1, ServerOfAnswer
    <2>2. s.routes \in Seq(RouteBlock)
      BY <2>1, CompletedRoutes
    <2>3. answer.path \in Text /\ answer.found = FindRoute(s.routes, answer.path, answer.method)
      BY <1>1, PathsAssumption DEF IInv, AnswerInv, Made
    <2>4. /\ answer.found.route = best
          /\ answer.found.status = IF best = NoRoute THEN 404
                                   ELSE IF <<answer.method>> \in Range(best.methods) THEN 200 ELSE 405
      BY <2>3 DEF FindRoute
    <2>5. IF covering = {} THEN best = NoRoute
          ELSE /\ best \in covering
               /\ \A r \in covering : Len(r.path) <= Len(best.path)
      <3>1. \A r \in RouteBlock : r.path \in Text
        BY DEF RouteBlock
      <3> HIDE DEF s
      <3> QED  BY <2>2, <2>3, <3>1, BestIsLongest
    <2>6. \A r \in covering : r # NoRoute
      <3>1. Range(s.routes) \subseteq RouteBlock
        BY <2>2, RangeOfSeq
      <3> QED  BY <3>1, RouteIsSome
    <2> HIDE DEF s, covering, best
    <2> QED  BY <2>4, <2>5, <2>6
  <1> QED  BY <1>1, StartupAlways, PTL

-----------------------------------------------------------------------------
(* The names on a path.                                                    *)

KeptPieces(all) == [i \in DOMAIN all |-> IF all[i] \in {<<>>, <<".">>} THEN <<>> ELSE <<all[i]>>]

LEMMA KeptType ==
    ASSUME NEW all \in Seq(Text)
    PROVE  /\ KeptPieces(all) \in Seq(Seq(Text)) /\ Len(KeptPieces(all)) = Len(all)
           /\ \A i \in 1 .. Len(all) : KeptPieces(all)[i] =
                 IF all[i] \in {<<>>, <<".">>} THEN <<>> ELSE <<all[i]>>
  <1> DEFINE n == Len(all)
             g == KeptPieces(all)
  <1>1. n \in Nat /\ DOMAIN all = 1 .. n /\ \A i \in 1 .. n : all[i] \in Text
    BY LenProperties, ElementOfSeq
  <1>2. \A x : \A S : x \in S => <<x>> \in Seq(S)
    OBVIOUS
  <1>3. \A S : <<>> \in Seq(S)
    OBVIOUS
  <1>4. \A i \in 1 .. n : (IF all[i] \in {<<>>, <<".">>} THEN <<>> ELSE <<all[i]>>) \in Seq(Text)
    <2> SUFFICES ASSUME NEW i \in 1 .. n
                 PROVE  (IF all[i] \in {<<>>, <<".">>} THEN <<>> ELSE <<all[i]>>) \in Seq(Text)
      OBVIOUS
    <2>1. <<all[i]>> \in Seq(Text) /\ <<>> \in Seq(Text)
      BY <1>1, <1>2, <1>3
    <2> QED  BY <2>1, Zenon
  <1>5. g = [i \in 1 .. n |-> IF all[i] \in {<<>>, <<".">>} THEN <<>> ELSE <<all[i]>>]
    BY <1>1 DEF KeptPieces
  <1> HIDE DEF g, n
  <1>6. g \in [1 .. n -> Seq(Text)]
    BY <1>4, <1>5, Zenon
  <1>7. g \in Seq(Seq(Text)) /\ Len(g) = n
    BY <1>1, <1>6
  <1>8. \A i \in 1 .. n : g[i] = IF all[i] \in {<<>>, <<".">>} THEN <<>> ELSE <<all[i]>>
    BY <1>5, Zenon
  <1> QED  BY <1>7, <1>8 DEF g, n

LEMMA NamesAre ==
    ASSUME NEW path \in Text
    PROVE  Names(path) = FlattenSeq(KeptPieces(Segments(path))) /\ Names(path) \in Seq(Text)
  <1>1. Names(path) = FlattenSeq(KeptPieces(Segments(path)))
    BY DEF Names, KeptPieces
  <1>2. Segments(path) \in Seq(Text)
    BY SegmentsType, ListProperties
  <1> QED  BY <1>1, <1>2, KeptType, FlattenType

LEMMA NamesEmpty == Names(<<>>) = <<>>
  <1> DEFINE e == <<<<>>>>
             g == KeptPieces(e)
  <1>1. Names(<<>>) = FlattenSeq(g)
    BY EmptyText, NamesAre, SegmentsEmpty
  <1>2. e \in Seq(Text) /\ Len(e) = 1 /\ e[1] = <<>>
    BY EmptyText DEF Lists
  <1> HIDE DEF e
  <1>3. /\ g \in Seq(Seq(Text)) /\ Len(g) = 1
        /\ g[1] = IF e[1] \in {<<>>, <<".">>} THEN <<>> ELSE <<e[1]>>
    <2>1. 1 \in 1 .. Len(e)
      BY <1>2
    <2>2. /\ g \in Seq(Seq(Text)) /\ Len(g) = Len(e)
          /\ \A i \in 1 .. Len(e) : g[i] = IF e[i] \in {<<>>, <<".">>} THEN <<>> ELSE <<e[i]>>
      BY <1>2, KeptType
    <2> HIDE DEF g
    <2> QED  BY <1>2, <2>1, <2>2
  <1>4. g[1] = <<>>
    BY <1>2, <1>3
  <1> HIDE DEF g
  <1>5. g = Append(<<>>, <<>>)
    <2> DEFINE h == Append(<<>>, <<>>)
    <2>1. <<>> \in Seq(Text) /\ <<>> \in Seq(Seq(Text))
      OBVIOUS
    <2>2. h \in Seq(Seq(Text)) /\ Len(h) = 1 /\ h[1] = <<>>
      OBVIOUS
    <2> HIDE DEF h
    <2>3. \A i \in 1 .. Len(g) : g[i] = h[i]
      BY <1>3, <1>4, <2>2
    <2>4. g = h
      BY <1>3, <2>2, <2>3, SeqEqual
    <2> QED  BY <2>4 DEF h
  <1>6. FlattenSeq(Append(<<>>, <<>>)) = FlattenSeq(<<>>) \o <<>>
    <2>1. <<>> \in Seq(Text) /\ <<>> \in Seq(Seq(Text))
      OBVIOUS
    <2> QED  BY <2>1, FlattenAppend
  <1>7. <<>> \o <<>> = <<>>
    OBVIOUS
  <1> QED  BY <1>1, <1>5, <1>6, <1>7, FlattenEmpty

(* The names on a join are those on its parts.                             *)
LEMMA NamesJoin ==
    ASSUME NEW p \in Text, NEW q \in Text
    PROVE  Join(p, q) \in Text /\ Names(Join(p, q)) = Names(p) \o Names(q)
  <1> DEFINE a == Segments(p)
             b == Segments(q)
             ab == a \o b
             ka == KeptPieces(a)
             kb == KeptPieces(b)
             kab == KeptPieces(ab)
             m == Len(a)
             n == Len(b)
  <1>1. a \in Seq(Text) /\ b \in Seq(Text)
    BY SegmentsType, ListProperties
  <1>2. Join(p, q) \in Text /\ Segments(Join(p, q)) = ab
    BY JoinProperties, SegmentsJoin
  <1>3. /\ Names(p) = FlattenSeq(ka) /\ Names(q) = FlattenSeq(kb)
        /\ Names(Join(p, q)) = FlattenSeq(kab)
    BY <1>2, NamesAre
  <1> HIDE DEF a, b
  <1>4. /\ ab \in Seq(Text) /\ Len(ab) = m + n /\ m \in Nat /\ n \in Nat
        /\ \A i \in 1 .. m : ab[i] = a[i]
        /\ \A i \in 1 .. n : ab[m + i] = b[i]
    BY <1>1, ConcatBegins
  <1> DEFINE Kept(x) == IF x \in {<<>>, <<".">>} THEN <<>> ELSE <<x>>
  <1> HIDE DEF ab
  <1>5. /\ ka \in Seq(Seq(Text)) /\ Len(ka) = m /\ \A i \in 1 .. m : ka[i] = Kept(a[i])
        /\ kb \in Seq(Seq(Text)) /\ Len(kb) = n /\ \A i \in 1 .. n : kb[i] = Kept(b[i])
        /\ kab \in Seq(Seq(Text)) /\ Len(kab) = m + n
        /\ \A i \in 1 .. m + n : kab[i] = Kept(ab[i])
    BY <1>1, <1>4, KeptType
  <1> HIDE DEF ka, kb, kab, Kept, m, n
  <1>6. /\ ka \o kb \in Seq(Seq(Text)) /\ Len(ka \o kb) = m + n
        /\ \A i \in 1 .. m : (ka \o kb)[i] = ka[i]
        /\ \A i \in 1 .. n : (ka \o kb)[m + i] = kb[i]
    <2>1. /\ ka \o kb \in Seq(Seq(Text)) /\ Len(ka \o kb) = Len(ka) + Len(kb)
          /\ \A i \in 1 .. Len(ka) : (ka \o kb)[i] = ka[i]
          /\ \A i \in 1 .. Len(kb) : (ka \o kb)[Len(ka) + i] = kb[i]
      <3> DEFINE S == Seq(Text)
      <3>1. ka \in Seq(S) /\ kb \in Seq(S)
        BY <1>5
      <3> HIDE DEF S
      <3>2. /\ ka \o kb \in Seq(S) /\ Len(ka \o kb) = Len(ka) + Len(kb)
            /\ \A i \in 1 .. Len(ka) : (ka \o kb)[i] = ka[i]
            /\ \A i \in 1 .. Len(kb) : (ka \o kb)[Len(ka) + i] = kb[i]
        BY <3>1, ConcatBegins
      <3> QED  BY <3>2 DEF S
    <2>2. Len(ka) = m /\ Len(kb) = n
      BY <1>5
    <2> QED  BY <2>1, <2>2
  <1> DEFINE w == ka \o kb
  <1>7. ASSUME NEW i \in 1 .. m + n
        PROVE  kab[i] = w[i]
    <2>1. CASE i \in 1 .. m
      BY <1>4, <1>5, <1>6, <2>1
    <2>2. CASE i \notin 1 .. m
      <3> DEFINE j == i - m
      <3>1. j \in 1 .. n /\ i = m + j
        BY <1>4, <2>2
      <3> HIDE DEF j, w
      <3>2. ab[i] = b[j] /\ w[i] = kb[j]
        BY <1>4, <1>6, <3>1 DEF w
      <3> QED  BY <1>5, <3>1, <3>2
    <2> QED  BY <2>1, <2>2
  <1>8. kab = w
    <2> HIDE DEF w
    <2>1. w \in Seq(Seq(Text)) /\ Len(w) = m + n
      BY <1>6 DEF w
    <2> QED  BY <1>5, <1>7, <2>1, SeqEqual
  <1>9. FlattenSeq(ka \o kb) = FlattenSeq(ka) \o FlattenSeq(kb)
    BY <1>5, FlattenConcat
  <1> QED  BY <1>2, <1>3, <1>8, <1>9

(* So are those on a path joined to a directory, unless it is absolute.    *)
LEMMA NamesPush ==
    ASSUME NEW p \in Text, NEW q \in Text
    PROVE  Push(p, q) \in Text /\ Names(Push(p, q)) = Under(Names(p), q)
  <1>1. Join(p, q) \in Text /\ Names(Join(p, q)) = Names(p) \o Names(q)
    BY NamesJoin
  <1> QED  BY <1>1 DEF Push, Under

(* Slashes in front name nothing.                                          *)
LEMMA NamesWithoutSlashes ==
    ASSUME NEW u \in Text, NEW n \in 0 .. Len(u), \A i \in 1 .. n : u[i] = "/"
    PROVE  SubSeq(u, n + 1, Len(u)) \in Text /\ Names(SubSeq(u, n + 1, Len(u))) = Names(u)
  <1> DEFINE Rest(m) == SubSeq(u, m + 1, Len(u))
             A == {m \in Nat : m <= Len(u) /\ (\A i \in 1 .. m : u[i] = "/")
                                  => Names(Rest(m)) = Names(u)}
  <1>0. Len(u) \in Nat /\ u \in Seq(Symbol)
    BY LenProperties DEF Text
  <1>1. \A m \in Nat : m <= Len(u) => Rest(m) \in Text
    BY <1>0, SubSeqProperties DEF Text
  <1>2. 0 \in A
    <2>1. Rest(0) = u
      BY <1>0, SubSeqFull
    <2> QED  BY <2>1
  <1>3. ASSUME NEW m \in Nat, m \in A
        PROVE  m + 1 \in A
    <2> SUFFICES ASSUME m + 1 <= Len(u), \A i \in 1 .. m + 1 : u[i] = "/"
                 PROVE  Names(Rest(m + 1)) = Names(u)
      OBVIOUS
    <2>1. m <= Len(u) /\ m + 1 \in 1 .. Len(u) /\ Len(u) \in m + 1 .. Len(u) /\ u[m + 1] = "/"
      BY <1>0
    <2>2. \A i \in 1 .. m : u[i] = "/"
      OBVIOUS
    <2>3. Names(Rest(m)) = Names(u)
      BY <1>3, <2>1, <2>2
    <2>4. Rest(m) = <<u[m + 1]>> \o Rest(m + 1)
      BY <1>0, <2>1, SubSeqRecursiveFirst
    <2>5. Rest(m + 1) \in Text
      BY <1>1, <2>1
    <2> HIDE DEF Rest
    <2>6. Rest(m) = Join(<<>>, Rest(m + 1))
      <3>1. <<>> \o <<"/">> = <<"/">>
        OBVIOUS
      <3> QED  BY <2>1, <2>4, <3>1 DEF Join
    <2>7. Names(Rest(m)) = Names(<<>>) \o Names(Rest(m + 1))
      BY <2>5, <2>6, EmptyText, NamesJoin
    <2>8. Names(Rest(m + 1)) \in Seq(Text)
      BY <2>5, NamesAre
    <2>9. <<>> \o Names(Rest(m + 1)) = Names(Rest(m + 1))
      BY <2>8, ConcatEmptySeq
    <2> QED  BY <2>3, <2>7, <2>9, NamesEmpty
  <1> HIDE DEF A
  <1>4. n \in Nat /\ n <= Len(u) /\ n \in A
    BY <1>0, <1>2, <1>3, NatSetInduction
  <1> QED  BY <1>1, <1>4 DEF A

LEMMA NamesTrimmed ==
    ASSUME NEW u \in Text
    PROVE  /\ TrimSlashes(u) \in Text /\ Names(TrimSlashes(u)) = Names(u)
           /\ TrimSlashes(u) = <<>> => u = <<>> \/ Last(u) = "/"
           /\ TrimSlashes(u) # <<>> => Last(TrimSlashes(u)) = Last(u)
  <1> DEFINE kept == {i \in DOMAIN u : u[i] # "/"}
             t == TrimSlashes(u)
  <1>1. u \in Seq(Symbol) /\ Len(u) \in Nat /\ DOMAIN u = 1 .. Len(u)
    BY LenProperties DEF Text
  <1>2. t = IF kept = {} THEN <<>> ELSE SubSeq(u, Min(kept), Len(u))
    BY DEF TrimSlashes
  <1>3. kept \in SUBSET Nat
    BY <1>1
  <1>4. \A i \in 1 .. Len(u) : i \notin kept => u[i] = "/"
    BY <1>1
  <1> HIDE DEF kept, t
  <1>5. CASE kept = {}
    <2>1. \A i \in 1 .. Len(u) : u[i] = "/"
      BY <1>4, <1>5
    <2>2. SubSeq(u, Len(u) + 1, Len(u)) = <<>>
      BY <1>1, SubSeqProperties, EmptySeq
    <2>3. Len(u) \in 0 .. Len(u)
      BY <1>1
    <2>4. Names(<<>>) = Names(u)
      BY <2>1, <2>2, <2>3, NamesWithoutSlashes
    <2>5. u # <<>> => Last(u) = "/"
      <3>1. u # <<>> => Len(u) \in 1 .. Len(u)
        BY <1>1, EmptySeq
      <3> QED  BY <2>1, <3>1 DEF Last
    <2> QED  BY <1>2, <1>5, <2>4, <2>5, EmptyText DEF t
  <1>6. CASE kept # {}
    <2> DEFINE m == Min(kept)
               n == m - 1
    <2>1. m \in kept /\ \A y \in kept : m <= y
      BY <1>3, <1>6, MinOfSome
    <2>2. m \in 1 .. Len(u)
      BY <1>1, <2>1 DEF kept
    <2> HIDE DEF m
    <2>3. n \in 0 .. Len(u) /\ n + 1 = m
      BY <1>1, <2>2
    <2>4. \A i \in 1 .. n : i \in 1 .. Len(u) /\ i < m /\ i \in Nat
      BY <1>1, <2>2
    <2>5. \A i \in 1 .. n : u[i] = "/"
      <3> SUFFICES ASSUME NEW i \in 1 .. n PROVE i \notin kept
        BY <1>4, <2>4
      <3>1. i < m /\ i \in Nat /\ m \in Nat
        BY <2>2, <2>4
      <3>2. ~(m <= i)
        BY <3>1
      <3> QED  BY <2>1, <3>2
    <2> HIDE DEF n
    <2>a. t = SubSeq(u, m, Len(u))
      BY <1>2, <1>6 DEF m
    <2>6. t = SubSeq(u, n + 1, Len(u))
      BY <2>3, <2>a, Zenon
    <2>7. t \in Text /\ Names(t) = Names(u)
      BY <2>3, <2>5, <2>6, NamesWithoutSlashes
    <2>8. t # <<>> /\ Last(t) = Last(u)
      <3>a. /\ m \in Int /\ Len(u) \in Int /\ m <= Len(u)
            /\ \A i \in m .. Len(u) : i \in 1 .. Len(u)
        BY <1>1, <2>2
      <3>b. \A i \in m .. Len(u) : u[i] \in Symbol
        BY <1>1, <3>a, ElementOfSeq
      <3>1. Len(t) = Len(u) - m + 1 /\ \A i \in 1 .. Len(u) - m + 1 : t[i] = u[m + i - 1]
        BY <2>a, <3>a, <3>b, SubSeqProperties
      <3>2. Len(t) \in 1 .. Len(u) - m + 1 /\ m + Len(t) - 1 = Len(u) /\ Len(t) # 0
        BY <1>1, <2>2, <3>1
      <3>3. t[Len(t)] = u[Len(u)]
        BY <3>1, <3>2
      <3>4. t # <<>>
        BY <3>2
      <3> QED  BY <3>3, <3>4 DEF Last
    <2> QED  BY <2>7, <2>8 DEF t
  <1> QED  BY <1>5, <1>6

-----------------------------------------------------------------------------
(* What the names behind a route's path are.                               *)

LEMMA RestAfterPrefix ==
    ASSUME NEW S, NEW p \in Seq(S), NEW v \in Seq(S)
    PROVE  SubSeq(p \o v, Len(p) + 1, Len(p \o v)) = v
  <1> DEFINE w == p \o v
             m == Len(p) + 1
             n == Len(w)
             x == SubSeq(w, m, n)
  <1>1. /\ w \in Seq(S) /\ n = Len(p) + Len(v) /\ Len(p) \in Nat /\ Len(v) \in Nat
        /\ \A i \in 1 .. Len(v) : w[Len(p) + i] = v[i]
    BY ConcatBegins
  <1> HIDE DEF w, n
  <1>2. \A i \in m .. n : i \in 1 .. n /\ m \in Int /\ n \in Int
    BY <1>1
  <1>3. \A i \in m .. n : w[i] \in S
    BY <1>1, <1>2, ElementOfSeq DEF n
  <1>4. m \in Int /\ n \in Int
    BY <1>1
  <1> HIDE DEF m
  <1>5. /\ x \in Seq(S) /\ Len(x) = (IF m <= n THEN n - m + 1 ELSE 0)
        /\ \A i \in 1 .. n - m + 1 : x[i] = w[m + i - 1]
    BY <1>3, <1>4, SubSeqProperties
  <1> HIDE DEF x
  <1>6. Len(x) = Len(v)
    BY <1>1, <1>5 DEF m
  <1>7. ASSUME NEW i \in 1 .. Len(x)
        PROVE  x[i] = v[i]
    <2>1. i \in 1 .. n - m + 1 /\ m + i - 1 = Len(p) + i /\ i \in 1 .. Len(v)
      BY <1>1, <1>6 DEF m
    <2> QED  BY <1>1, <1>5, <2>1
  <1>8. x = v
    BY <1>5, <1>6, <1>7, SeqEqual
  <1> QED  BY <1>8 DEF x, w, m, n

LEMMA BeneathRoute ==
    ASSUME NEW r, r.path \in Text, NEW url \in Text, Matches(r, url)
    PROVE  /\ Relative(r, url) \in Text
           /\ Names(Relative(r, url)) = Beneath(r, url)
           /\ Relative(r, url) # <<>> => Last(Relative(r, url)) = Last(url)
  <1> DEFINE p == r.path
  <1>1. IsPrefix(p, url)
    BY DEF Matches
  <1>2. \/ Len(url) = Len(p)
        \/ p # <<>> /\ Last(p) = "/"
        \/ url[Len(p) + 1] = "/"
    BY DEF Matches, AtBoundary
  <1>3. p \in Text
    OBVIOUS
  <1> HIDE DEF p
  <1>5. PICK u \in Text : url = p \o u
    BY <1>1, <1>3, PrefixSplits DEF Text
  <1>6. /\ Len(url) = Len(p) + Len(u) /\ Len(p) \in Nat /\ Len(u) \in Nat
        /\ \A i \in 1 .. Len(u) : url[Len(p) + i] = u[i]
    BY <1>3, <1>5, ConcatBegins DEF Text
  <1>7. Relative(r, url) = TrimSlashes(u)
    <2>1. SubSeq(url, Len(p) + 1, Len(url)) = u
      BY <1>3, <1>5, RestAfterPrefix DEF Text
    <2> QED  BY <2>1 DEF Relative, p
  <1>8. /\ TrimSlashes(u) \in Text /\ Names(TrimSlashes(u)) = Names(u)
        /\ TrimSlashes(u) = <<>> => u = <<>> \/ Last(u) = "/"
        /\ TrimSlashes(u) # <<>> => Last(TrimSlashes(u)) = Last(u)
    BY NamesTrimmed
  <1>9. Names(url) = Names(p) \o Names(u)
    <2>0. /\ Names(p) \in Seq(Text) /\ Names(u) \in Seq(Text)
          /\ Names(p) \o <<>> = Names(p)
      BY <1>3, NamesAre, ConcatEmptySeq
    <2>1. CASE u = <<>>
      <3>1. url = p
        BY <1>3, <1>5, <2>1, TextConcat
      <3> QED  BY <2>0, <2>1, <3>1, NamesEmpty
    <2>2. CASE u # <<>> /\ url[Len(p) + 1] = "/"
      <3>1. Len(u) # 0
        BY <2>2, EmptySeq DEF Text
      <3>2. u[1] = "/"
        BY <1>6, <2>2, <3>1
      <3> DEFINE v == Tail(u)
                 x == <<"/">>
      <3>3. u = <<Head(u)>> \o Tail(u) /\ Head(u) = u[1] /\ Tail(u) \in Text
        BY <2>2, HeadThenTail, HeadTailProperties DEF Text
      <3>4. u = x \o v /\ v \in Text /\ x \in Text
        BY <3>2, <3>3, SymbolAssumption, TextConcat
      <3>5. Join(<<>>, v) = (<<>> \o x) \o v /\ Join(p, v) = (p \o x) \o v
        BY DEF Join
      <3> HIDE DEF v, x
      <3>6. u = Join(<<>>, v)
        <4>1. <<>> \o x = x
          BY <3>4, TextConcat
        <4> QED  BY <3>4, <3>5, <4>1
      <3>7. url = Join(p, v)
        <4>1. (p \o x) \o v = p \o (x \o v)
          BY <1>3, <3>4, TextAssociates, SMTT(40)
        <4> QED  BY <1>5, <3>4, <3>5, <4>1
      <3>8. Names(u) = <<>> \o Names(v) /\ Names(url) = Names(p) \o Names(v)
        <4>1. Names(Join(<<>>, v)) = Names(<<>>) \o Names(v)
          BY <3>4, EmptyText, NamesJoin
        <4>2. Names(Join(p, v)) = Names(p) \o Names(v)
          BY <1>3, <3>4, NamesJoin
        <4> QED  BY <3>6, <3>7, <4>1, <4>2, NamesEmpty
      <3>9. <<>> \o Names(v) = Names(v)
        BY <3>4, NamesAre, ConcatEmptySeq
      <3> QED  BY <3>8, <3>9
    <2>3. CASE p # <<>> /\ Last(p) = "/"
      <3> DEFINE w == Front(p)
      <3>1. w \in Text /\ p = Append(w, "/")
        BY <1>3, <2>3, TextFront
      <3> HIDE DEF w
      <3>2. p = Join(w, <<>>) /\ url = Join(w, u)
        BY <1>5, <3>1, EmptyText, JoinProperties
      <3>3. Names(p) = Names(w) \o <<>> /\ Names(url) = Names(w) \o Names(u)
        BY <3>1, <3>2, EmptyText, NamesJoin, NamesEmpty, ZenonT(60)
      <3>4. Names(w) \o <<>> = Names(w)
        BY <3>1, NamesAre, ConcatEmptySeq
      <3> QED  BY <3>3, <3>4
    <2>4. u = <<>> \/ (u # <<>> /\ url[Len(p) + 1] = "/") \/ (p # <<>> /\ Last(p) = "/")
      <3>1. u # <<>> => Len(u) # 0
        BY EmptySeq DEF Text
      <3> QED  BY <1>2, <1>6, <3>1
    <2> QED  BY <2>1, <2>2, <2>3, <2>4
  <1>10. Beneath(r, url) = Names(u)
    <2>1. Names(p) \in Seq(Text) /\ Names(u) \in Seq(Text)
      BY <1>3, NamesAre
    <2>2. SubSeq(Names(p) \o Names(u), Len(Names(p)) + 1, Len(Names(p) \o Names(u))) = Names(u)
      BY <2>1, RestAfterPrefix
    <2> QED  BY <1>9, <2>2 DEF Beneath, p
  <1>11. u # <<>> => Last(u) = Last(url)
    <2>1. u # <<>> => Len(u) \in 1 .. Len(u)
      BY <1>6, EmptySeq DEF Text
    <2>2. u # <<>> => url[Len(p) + Len(u)] = u[Len(u)]
      BY <1>6, <2>1
    <2> QED  BY <1>6, <2>2 DEF Last
  <1>12. u = <<>> => TrimSlashes(u) = <<>>
    <2>1. DOMAIN <<>> = {}
      OBVIOUS
    <2>2. TrimSlashes(<<>>) = <<>>
      BY <2>1 DEF TrimSlashes
    <2> QED  BY <2>2
  <1> QED  BY <1>7, <1>8, <1>10, <1>11, <1>12

-----------------------------------------------------------------------------
(* What the system finds.                                                  *)

LEMMA LookupFinds ==
    ASSUME NEW tree, Within(tree), NEW path, Lookup(tree, path) \in {"file", "dir"}
    PROVE  /\ Names(path) \in DOMAIN tree /\ tree[Names(path)] = Lookup(tree, path)
           /\ Names(path) \in DOMAIN Tree /\ Tree[Names(path)] = Lookup(tree, path)
  <1> DEFINE n == Names(path)
             some == \E i \in 1 .. Len(n) - 1 :
                        SubSeq(n, 1, i) \in DOMAIN tree /\ tree[SubSeq(n, 1, i)] = "file"
  <1>1. Lookup(tree, path) =
           IF path = <<>> THEN "missing"
           ELSE IF some THEN "not a directory"
           ELSE IF n \notin DOMAIN tree THEN "missing"
           ELSE IF n \in DOMAIN tree /\ tree[n] = "file" /\ Last(path) = "/" THEN "not a directory"
           ELSE tree[n]
    BY DEF Lookup
  <1> HIDE DEF n, some
  <1>2. n \in DOMAIN tree /\ tree[n] = Lookup(tree, path)
    BY <1>1
  <1>3. n \in DOMAIN Tree /\ tree[n] = Tree[n]
    BY <1>2 DEF Within
  <1> QED  BY <1>2, <1>3 DEF n

(* A file is found by its names, unless it is named as a directory.        *)
LEMMA LookupFile ==
    ASSUME NEW tree, Within(tree), NEW path \in Text, path # <<>>,
           Names(path) \in DOMAIN tree, tree[Names(path)] = "file", Last(path) # "/"
    PROVE  Lookup(tree, path) = "file"
  <1> DEFINE n == Names(path)
             some == \E i \in 1 .. Len(n) - 1 :
                        SubSeq(n, 1, i) \in DOMAIN tree /\ tree[SubSeq(n, 1, i)] = "file"
  <1>1. Lookup(tree, path) =
           IF path = <<>> THEN "missing"
           ELSE IF some THEN "not a directory"
           ELSE IF n \notin DOMAIN tree THEN "missing"
           ELSE IF n \in DOMAIN tree /\ tree[n] = "file" /\ Last(path) = "/" THEN "not a directory"
           ELSE tree[n]
    BY DEF Lookup
  <1>2. n \in DOMAIN Tree
    BY DEF Within
  <1>3. ~some
    <2> SUFFICES ASSUME NEW i \in 1 .. Len(n) - 1,
                        SubSeq(n, 1, i) \in DOMAIN tree, tree[SubSeq(n, 1, i)] = "file"
                 PROVE  FALSE
      OBVIOUS
    <2>1. SubSeq(n, 1, i) \in DOMAIN Tree /\ Tree[SubSeq(n, 1, i)] = "file"
      BY DEF Within
    <2> HIDE DEF n
    <2> QED  BY <1>2, <2>1, TreeAssumption
  <1> HIDE DEF some
  <1> QED  BY <1>1, <1>3

-----------------------------------------------------------------------------
(* What the handlers read and remove.                                      *)

Here(r, url) == Names(r.root) \o Beneath(r, url)
GetFaithful(tree, r, url, reply) ==
    /\ reply.kind # "removed"
    /\ reply.kind = "file" =>
          \/ /\ reply.at = Here(r, url) /\ Here(r, url) \in DOMAIN tree
             /\ tree[Here(r, url)] = "file" /\ Tree[Here(r, url)] = "file"
          \/ /\ reply.at = Under(Here(r, url), r.default_file) /\ r.default_file # <<>>
             /\ Tree[Here(r, url)] = "dir"
    /\ /\ Here(r, url) \in DOMAIN tree /\ tree[Here(r, url)] = "file" /\ Last(url) # "/"
       /\ Tree[Names(r.root)] = "dir"
       => reply.kind = "file" /\ reply.at = Here(r, url)

LEMMA GetServes ==
    ASSUME NEW tree, Within(tree), NEW s, NEW r, r.path \in Text, r.root \in Text,
           r.default_file \in Text, NEW url \in Text, Matches(r, url)
    PROVE  GetFaithful(tree, r, url, HandleGet(tree, s, r, url))
  <1> DEFINE reply == HandleGet(tree, s, r, url)
             here == Here(r, url)
             rel == Relative(r, url)
             path == Join(r.root, rel)
             dir == Lookup(tree, path) = "dir"
             index == Push(path, r.default_file)
             target == IF dir THEN index ELSE path
             error == Reply("error", 403, <<>>)
  <1>1. /\ rel \in Text /\ Names(rel) = Beneath(r, url)
        /\ rel # <<>> => Last(rel) = Last(url)
    BY BeneathRoute
  <1>2. path \in Text /\ Names(path) = here
    BY <1>1, NamesJoin, ZenonT(60) DEF Here
  <1>3. index \in Text /\ Names(index) = Under(here, r.default_file)
    <2> HIDE DEF path, here
    <2> QED  BY <1>2, NamesPush
  <1>4. reply = IF dir /\ r.default_file = <<>>
                THEN IF r.autoindex THEN Reply("listing", 200, path) ELSE error
                ELSE CASE Lookup(tree, target) \in {"file", "dir"} -> Reply("file", 200, target)
                       [] Lookup(tree, target) = "missing" -> Error(tree, s, 404)
                       [] OTHER -> Error(tree, s, 500)
    BY DEF HandleGet
  <1>5. \A kind, status, p : Reply(kind, status, p).kind = kind /\ Reply(kind, status, p).at = Names(p)
    BY DEF Reply
  <1>6. \A status : Error(tree, s, status).kind = "error"
    BY DEF Error
  <1> HIDE DEF error
  <1>7. error.kind = "error"
    BY <1>5 DEF error
  <1>8. Lookup(tree, path) \in {"file", "dir"} =>
           here \in DOMAIN tree /\ tree[here] = Lookup(tree, path) /\ Tree[here] = Lookup(tree, path)
    <2> HIDE DEF here
    <2> SUFFICES ASSUME Lookup(tree, path) \in {"file", "dir"}
                 PROVE  /\ here \in DOMAIN tree /\ tree[here] = Lookup(tree, path)
                        /\ Tree[here] = Lookup(tree, path)
      OBVIOUS
    <2> HIDE DEF path
    <2>1. /\ Names(path) \in DOMAIN tree /\ tree[Names(path)] = Lookup(tree, path)
          /\ Tree[Names(path)] = Lookup(tree, path)
      BY LookupFinds
    <2> QED  BY <1>2, <2>1
  <1>9. reply.kind \in {"listing", "error", "file"}
    <2> HIDE DEF dir, path, target
    <2> QED  BY <1>4, <1>5, <1>6, <1>7
  <1>10. reply.kind = "file" => /\ ~(dir /\ r.default_file = <<>>)
                                /\ Lookup(tree, target) \in {"file", "dir"}
                                /\ reply.at = Names(target)
    <2> HIDE DEF dir, path, target
    <2> QED  BY <1>4, <1>5, <1>6, <1>7
  <1>11. ASSUME reply.kind = "file"
         PROVE  \/ /\ reply.at = here
                   /\ here \in DOMAIN tree /\ tree[here] = "file" /\ Tree[here] = "file"
                \/ /\ reply.at = Under(here, r.default_file) /\ r.default_file # <<>>
                   /\ Tree[here] = "dir"
    <2> HIDE DEF reply, path, index, here
    <2>1. CASE dir
      BY <1>3, <1>8, <1>10, <1>11, <2>1
    <2>2. CASE ~dir
      BY <1>2, <1>8, <1>10, <1>11, <2>2
    <2> QED  BY <2>1, <2>2
  <1>12. ASSUME here \in DOMAIN tree, tree[here] = "file", Last(url) # "/",
                Tree[Names(r.root)] = "dir"
         PROVE  reply.kind = "file" /\ reply.at = here
    <2>1. rel # <<>>
      <3> SUFFICES ASSUME rel = <<>> PROVE FALSE
        OBVIOUS
      <3>1. Beneath(r, url) = <<>>
        BY <1>1, NamesEmpty
      <3>2. Names(r.root) \in Seq(Text)
        BY NamesAre
      <3>3. Names(r.root) \o <<>> = Names(r.root)
        BY <3>2, ConcatEmptySeq
      <3>4. here = Names(r.root)
        BY <3>1, <3>3 DEF Here
      <3>5. Tree[here] = "file"
        <4> HIDE DEF here
        <4> QED  BY <1>12 DEF Within
      <3> QED  BY <1>12, <3>4, <3>5
    <2>2. path # <<>> /\ Last(path) # "/"
      <3>1. Join(r.root, rel) = Append(r.root, "/") \o rel /\ Append(r.root, "/") \in Text
        BY <1>1, JoinProperties, TextAppend, SymbolAssumption
      <3> DEFINE a == Append(r.root, "/")
      <3>2. a \in Text /\ path = a \o rel
        BY <3>1
      <3> HIDE DEF a, path, rel
      <3>3. /\ Len(path) = Len(a) + Len(rel) /\ Len(a) \in Nat /\ Len(rel) \in Nat
            /\ \A i \in 1 .. Len(rel) : path[Len(a) + i] = rel[i]
        BY <1>1, <3>2, ConcatBegins DEF Text
      <3>4. Len(rel) \in 1 .. Len(rel)
        BY <1>1, <2>1, <3>3, EmptySeq DEF Text
      <3>5. Last(path) = Last(rel)
        BY <3>3, <3>4 DEF Last
      <3>6. path # <<>>
        BY <3>3, <3>4
      <3> QED  BY <1>1, <1>12, <2>1, <3>5, <3>6
    <2>3. Lookup(tree, path) = "file"
      <3> HIDE DEF path, here
      <3>1. Names(path) \in DOMAIN tree /\ tree[Names(path)] = "file"
        BY <1>2, <1>12
      <3> QED  BY <1>2, <2>2, <3>1, LookupFile
    <2> HIDE DEF path, here, index
    <2>4. ~dir /\ target = path
      BY <2>3
    <2>5. reply = Reply("file", 200, path)
      <3> HIDE DEF reply, dir, target
      <3> QED  BY <1>4, <2>3, <2>4
    <2> HIDE DEF reply
    <2> QED  BY <1>2, <1>5, <2>5
  <1> HIDE DEF reply, here
  <1>13. /\ reply.kind # "removed"
         /\ reply.kind = "file" =>
               \/ /\ reply.at = here /\ here \in DOMAIN tree
                  /\ tree[here] = "file" /\ Tree[here] = "file"
               \/ /\ reply.at = Under(here, r.default_file) /\ r.default_file # <<>>
                  /\ Tree[here] = "dir"
         /\ /\ here \in DOMAIN tree /\ tree[here] = "file" /\ Last(url) # "/"
            /\ Tree[Names(r.root)] = "dir"
            => reply.kind = "file" /\ reply.at = here
    BY <1>9, <1>11, <1>12
  <1> QED  BY <1>13 DEF reply, here, GetFaithful

There(r, url) == Under(Names(r.root), r.upload_dir) \o Beneath(r, url)
DeleteFaithful(tree, r, url, reply) ==
    /\ reply.kind # "file"
    /\ reply.kind = "removed" => /\ reply.at = There(r, url) /\ reply.at \in DOMAIN tree
                                 /\ Tree[reply.at] = "file"

LEMMA DeleteRemoves ==
    ASSUME NEW tree, Within(tree), NEW s, NEW r, r.path \in Text, r.root \in Text,
           r.upload_dir \in Text, NEW url \in Text, Matches(r, url)
    PROVE  DeleteFaithful(tree, r, url, HandleDelete(tree, s, r, url))
  <1> DEFINE reply == HandleDelete(tree, s, r, url)
             at == There(r, url)
             rel == Relative(r, url)
             base == UploadBase(r)
             target == Join(base, rel)
  <1>1. rel \in Text /\ Names(rel) = Beneath(r, url)
    BY BeneathRoute
  <1>2. base \in Text /\ Names(base) = Under(Names(r.root), r.upload_dir)
    BY NamesPush DEF UploadBase
  <1>3. target \in Text /\ Names(target) = at
    <2> HIDE DEF base, rel
    <2> QED  BY <1>1, <1>2, NamesJoin DEF There
  <1>4. reply = CASE Lookup(tree, base) # "dir" -> Error(tree, s, 404)
                  [] Lookup(tree, target) = "missing" -> Error(tree, s, 404)
                  [] Lookup(tree, target) = "file" -> Reply("removed", 204, target)
                  [] OTHER -> Error(tree, s, 403)
    BY DEF HandleDelete
  <1>5. \A kind, status, p : Reply(kind, status, p).kind = kind /\ Reply(kind, status, p).at = Names(p)
    BY DEF Reply
  <1>6. \A status : Error(tree, s, status).kind = "error"
    BY DEF Error
  <1> HIDE DEF reply, base, target, at
  <1>7. \/ reply = Error(tree, s, 404)
        \/ reply = Error(tree, s, 403)
        \/ reply = Reply("removed", 204, target) /\ Lookup(tree, target) = "file"
    BY <1>4
  <1>8. reply.kind \in {"error", "removed"}
    BY <1>5, <1>6, <1>7
  <1>9. ASSUME reply.kind = "removed"
        PROVE  reply.at = at /\ at \in DOMAIN tree /\ Tree[at] = "file"
    <2>1. reply = Reply("removed", 204, target) /\ Lookup(tree, target) = "file"
      BY <1>6, <1>7, <1>9
    <2>2. Names(target) \in DOMAIN tree /\ Tree[Names(target)] = "file"
      BY <2>1, LookupFinds
    <2> QED  BY <1>3, <1>5, <2>1, <2>2
  <1>10. /\ reply.kind # "file"
         /\ reply.kind = "removed" => /\ reply.at = at /\ reply.at \in DOMAIN tree
                                      /\ Tree[reply.at] = "file"
    BY <1>8, <1>9
  <1> QED  BY <1>10 DEF reply, at, DeleteFaithful

(* Only GET reads a file and only DELETE removes one, and not by a         *)
(* redirection or a script.                                                *)
LEMMA RepliesByHandler ==
    ASSUME NEW tree, NEW s, NEW found, NEW url,
           NEW method \in {"GET", "POST", "DELETE"}, NEW body \in Bodies(method)
    PROVE  LET reply == Replied(tree, s, found, url, method, body)
               r == found.route
               plain == found.status = 200 /\ r.redirection = <<>> /\ ~IsScript(r, url)
           IN  /\ reply.kind \in {"file", "removed"} => plain /\ method # "POST"
               /\ plain /\ method = "GET" => reply = HandleGet(tree, s, r, url)
               /\ plain /\ method = "DELETE" => reply = HandleDelete(tree, s, r, url)
  <1> DEFINE reply == Replied(tree, s, found, url, method, body)
             r == found.route
             plain == found.status = 200 /\ r.redirection = <<>> /\ ~IsScript(r, url)
  <1>1. \A kind, status, p : Reply(kind, status, p).kind = kind
    BY DEF Reply
  <1>2. \A status : Error(tree, s, status).kind = "error"
    BY DEF Error
  <1>3. found.status # 200 \/ body = "large" => reply.kind = "error"
    BY <1>2 DEF Replied
  <1> DEFINE stores == body # "none"
             served == found.status = 200 /\ body # "large"
  <1>4. served => reply = Dispatch(tree, s, r, url, method, stores)
    BY DEF Replied
  <1> HIDE DEF reply, stores
  <1>5. served /\ r.redirection # <<>> => reply.kind = "redirect"
    BY <1>1, <1>4 DEF Dispatch
  <1>6. served /\ r.redirection = <<>> /\ IsScript(r, url) => reply.kind = "script"
    BY <1>1, <1>4 DEF Dispatch
  <1>7. plain /\ body # "large" => reply =
           (CASE method = "GET" -> HandleGet(tree, s, r, url)
              [] method = "POST" -> HandlePost(tree, s, r, stores)
              [] method = "DELETE" -> HandleDelete(tree, s, r, url))
    BY <1>4 DEF Dispatch
  <1>0. method # "POST" => body # "large"
    BY DEF Bodies
  <1> HIDE DEF plain
  <1>8. /\ plain /\ method = "GET" => reply = HandleGet(tree, s, r, url)
        /\ plain /\ method = "DELETE" => reply = HandleDelete(tree, s, r, url)
        /\ plain /\ method = "POST" /\ body # "large" => reply = HandlePost(tree, s, r, stores)
    BY <1>0, <1>7
  <1>9. HandlePost(tree, s, r, stores).kind \in {"error", "upload"}
    BY <1>1, <1>2 DEF HandlePost
  <1>10. plain \/ reply.kind \in {"error", "redirect", "script"}
    BY <1>3, <1>5, <1>6 DEF plain
  <1> QED  BY <1>3, <1>8, <1>9, <1>10 DEF plain, reply

-----------------------------------------------------------------------------
(* The files of a request.                                                 *)

LEMMA TreeWithin == Within(Tree)
  BY TreeAssumption DEF Within

(* A default file is never the directory it is the default of.             *)
Elsewhere(path) == IF Absolute(path) THEN Tree[Names(path)] = "file" ELSE Names(path) # <<>>

LEMMA FileElsewhere ==
    ASSUME NEW p \in Text, NEW q \in Text,
           Tree[Names(p)] = "dir", Tree[Names(Push(p, q))] = "file"
    PROVE  Elsewhere(q)
  <1> DEFINE a == Names(p)
             b == Names(q)
  <1>1. a \in Seq(Text) /\ a \o <<>> = a
    BY NamesAre, ConcatEmptySeq
  <1>2. Tree[a] = "dir" /\ Tree[Under(a, q)] = "file"
    BY NamesPush
  <1>3. CASE Absolute(q)
    BY <1>2, <1>3 DEF Under, Elsewhere
  <1>4. CASE ~Absolute(q)
    <2>1. Tree[a \o b] = "file"
      BY <1>2, <1>4 DEF Under
    <2> HIDE DEF a, b
    <2>2. b # <<>>
      <3> SUFFICES ASSUME b = <<>> PROVE FALSE
        OBVIOUS
      <3>1. a \o b = a
        BY <1>1
      <3>2. Tree[a] = "file"
        BY <2>1, <3>1
      <3> QED  BY <1>2, <3>2
    <2> QED  BY <1>4, <2>2 DEF Elsewhere, b
  <1> QED  BY <1>3, <1>4

(* The route a request got belongs to a server, matches, allows the method *)
(* and was found sound.                                                    *)
LEMMA RouteOfAnswer ==
    ASSUME IInv, answer # NoAnswer, answer.found.status = 200
    PROVE  LET r == answer.found.route IN
           /\ r \in RouteBlock /\ answer.server \in Range(servers)
           /\ r \in Range(answer.server.routes)
           /\ Matches(r, answer.path) /\ <<answer.method>> \in Range(r.methods)
           /\ Tree[Names(r.root)] = "dir"
           /\ r.default_file # <<>> => Elsewhere(r.default_file)
  <1> DEFINE s == answer.server
             best == BestMatch(s.routes, answer.path)
             r == answer.found.route
  <1>1. PICK i \in Accepted : /\ s = Completed(file[i]) /\ IsBlock(file[i]) /\ Sound(file[i])
                              /\ s \in Range(servers)
    BY ServerOfAnswer
  <1>2. s.routes \in Seq(RouteBlock)
    BY <1>1, CompletedRoutes
  <1>3. answer.path \in Text /\ answer.found = FindRoute(s.routes, answer.path, answer.method)
    BY PathsAssumption DEF IInv, AnswerInv, Made
  <1>4. /\ r = best
        /\ answer.found.status = IF best = NoRoute THEN 404
                                 ELSE IF <<answer.method>> \in Range(best.methods) THEN 200 ELSE 405
    BY <1>3 DEF FindRoute
  <1>5. \A x \in RouteBlock : x.path \in Text
    BY DEF RouteBlock
  <1>6. best # NoRoute /\ <<answer.method>> \in Range(best.methods)
    <2> HIDE DEF best, s
    <2> QED  BY <1>4
  <1>7. best \in Range(s.routes) /\ Covers(best, answer.path)
    <2> HIDE DEF s
    <2>1. IF {x \in Range(s.routes) : Covers(x, answer.path)} = {} THEN best = NoRoute
          ELSE best \in {x \in Range(s.routes) : Covers(x, answer.path)}
      BY <1>2, <1>3, <1>5, BestIsLongest
    <2> HIDE DEF best
    <2> QED  BY <1>6, <2>1
  <1>8. best \in RouteBlock
    <2> HIDE DEF s, best
    <2>1. Range(s.routes) \subseteq RouteBlock
      BY <1>2, RangeOfSeq
    <2> QED  BY <1>7, <2>1
  <1>9. Matches(best, answer.path)
    <2> HIDE DEF s, best
    <2>1. best.path \in Text
      BY <1>5, <1>8
    <2> QED  BY <1>3, <1>7, <2>1, CoversIsMatch DEF Matches
  <1> DEFINE b == file[i]
  <1>10. PICK x \in Range(b.routes) : best = [x EXCEPT !.root = RouteRoot(b, x)]
    <2>1. s.routes = [j \in DOMAIN b.routes |-> [b.routes[j] EXCEPT !.root = RouteRoot(b, b.routes[j])]]
      BY <1>1, CompletedFields
    <2> HIDE DEF s, best, b
    <2>2. PICK j \in DOMAIN s.routes : best = s.routes[j]
      BY <1>7 DEF Range
    <2>3. j \in DOMAIN b.routes /\ best = [b.routes[j] EXCEPT !.root = RouteRoot(b, b.routes[j])]
      BY <2>1, <2>2
    <2> DEFINE x == b.routes[j]
    <2>4. x \in Range(b.routes)
      BY <2>3 DEF Range
    <2>5. best = [x EXCEPT !.root = RouteRoot(b, x)]
      BY <2>3
    <2> HIDE DEF x
    <2> QED  BY <2>4, <2>5
  <1>11. x \in RouteBlock /\ RouteRoot(b, x) \in Text
    <2>1. b.routes \in Seq(RouteBlock) /\ b.root \in Text
      BY <1>1, BlockFields
    <2> HIDE DEF b
    <2>2. x \in RouteBlock
      BY <1>10, <2>1, RangeOfSeq
    <2> QED  BY <2>1, <2>2 DEF RouteBlock, RouteRoot
  <1>12. /\ best.root = RouteRoot(b, x) /\ best.default_file = x.default_file
         /\ best.default_file \in Text
    <2> HIDE DEF best, b
    <2> QED  BY <1>10, <1>11 DEF RouteBlock
  <1>13. /\ Lookup(Tree, best.root) = "dir"
         /\ best.default_file # <<>> => Lookup(Tree, Push(best.root, best.default_file)) = "file"
    <2>1. SoundRoute(b, x)
      BY <1>1, <1>10 DEF Sound
    <2> HIDE DEF best, b
    <2> QED  BY <1>12, <2>1 DEF SoundRoute
  <1> HIDE DEF best, b
  <1>14. Tree[Names(best.root)] = "dir"
    BY <1>13, TreeWithin, LookupFinds
  <1>15. ASSUME best.default_file # <<>>
         PROVE  Elsewhere(best.default_file)
    <2> DEFINE p == best.root
               q == best.default_file
    <2>1. p \in Text /\ q \in Text
      BY <1>11, <1>12
    <2>2. Tree[Names(p)] = "dir" /\ Tree[Names(Push(p, q))] = "file"
      BY <1>13, <1>14, <1>15, TreeWithin, LookupFinds
    <2> HIDE DEF p, q
    <2>3. Elsewhere(q)
      BY <2>1, <2>2, FileElsewhere
    <2> QED  BY <2>3 DEF q
  <1> HIDE DEF s
  <1>16. /\ best \in RouteBlock /\ s \in Range(servers) /\ best \in Range(s.routes)
         /\ Matches(best, answer.path) /\ <<answer.method>> \in Range(best.methods)
         /\ Tree[Names(best.root)] = "dir"
         /\ best.default_file # <<>> => Elsewhere(best.default_file)
    BY <1>1, <1>6, <1>7, <1>8, <1>9, <1>14, <1>15
  <1> HIDE DEF r
  <1>17. /\ r \in RouteBlock /\ s \in Range(servers) /\ r \in Range(s.routes)
         /\ Matches(r, answer.path) /\ <<answer.method>> \in Range(r.methods)
         /\ Tree[Names(r.root)] = "dir"
         /\ r.default_file # <<>> => Elsewhere(r.default_file)
    BY <1>4, <1>16
  <1> QED  BY <1>17 DEF r, s

(* How the answer was made, by the handler of its method.                  *)
LEMMA HandlersAnswer ==
    ASSUME IInv, answer # NoAnswer
    PROVE  LET reply == answer.reply
               r == answer.found.route
               plain == answer.found.status = 200 /\ r.redirection = <<>>
                            /\ ~IsScript(r, answer.path)
           IN  \E old : /\ Within(old) /\ fs = Removed(old, reply)
                        /\ answer.method \in {"GET", "POST", "DELETE"}
                        /\ reply.kind \in {"file", "removed"} => plain /\ answer.method # "POST"
                        /\ plain /\ answer.method = "GET" =>
                              reply = HandleGet(old, answer.server, r, answer.path)
                        /\ plain /\ answer.method = "DELETE" =>
                              reply = HandleDelete(old, answer.server, r, answer.path)
  <1>1. PICK old, body : Within(old) /\ Made(old, body)
    BY DEF IInv, AnswerInv
  <1>2. /\ answer.reply = Replied(old, answer.server, answer.found, answer.path, answer.method, body)
        /\ answer.method \in {"GET", "POST", "DELETE"} /\ body \in Bodies(answer.method)
        /\ fs = Removed(old, answer.reply)
    BY <1>1, MethodsAssumption DEF Made
  <1> DEFINE reply == answer.reply
             r == answer.found.route
             plain == answer.found.status = 200 /\ r.redirection = <<>>
                          /\ ~IsScript(r, answer.path)
  <1> DEFINE made == Replied(old, answer.server, answer.found, answer.path, answer.method, body)
  <1>0. /\ made.kind \in {"file", "removed"} => plain /\ answer.method # "POST"
        /\ plain /\ answer.method = "GET" => made = HandleGet(old, answer.server, r, answer.path)
        /\ plain /\ answer.method = "DELETE" =>
              made = HandleDelete(old, answer.server, r, answer.path)
    <2> SUFFICES ASSUME NEW method \in {"GET", "POST", "DELETE"}, NEW b \in Bodies(method)
                 PROVE  LET by == Replied(old, answer.server, answer.found, answer.path, method, b) IN
                        /\ by.kind \in {"file", "removed"} => plain /\ method # "POST"
                        /\ plain /\ method = "GET" => by = HandleGet(old, answer.server, r, answer.path)
                        /\ plain /\ method = "DELETE" =>
                              by = HandleDelete(old, answer.server, r, answer.path)
      BY <1>2
    <2> QED  BY RepliesByHandler
  <1>3. /\ reply.kind \in {"file", "removed"} => plain /\ answer.method # "POST"
        /\ plain /\ answer.method = "GET" => reply = HandleGet(old, answer.server, r, answer.path)
        /\ plain /\ answer.method = "DELETE" =>
              reply = HandleDelete(old, answer.server, r, answer.path)
    <2> HIDE DEF r, plain
    <2> QED  BY <1>0, <1>2
  <1> HIDE DEF reply, r, plain
  <1>4. /\ Within(old) /\ fs = Removed(old, reply)
        /\ answer.method \in {"GET", "POST", "DELETE"}
    BY <1>1, <1>2 DEF reply
  <1>5. \E old_ : /\ Within(old_) /\ fs = Removed(old_, reply)
                  /\ answer.method \in {"GET", "POST", "DELETE"}
                  /\ reply.kind \in {"file", "removed"} => plain /\ answer.method # "POST"
                  /\ plain /\ answer.method = "GET" =>
                        reply = HandleGet(old_, answer.server, r, answer.path)
                  /\ plain /\ answer.method = "DELETE" =>
                        reply = HandleDelete(old_, answer.server, r, answer.path)
    BY <1>3, <1>4
  <1> QED  BY <1>5 DEF reply, r, plain

(* What is removed was offered for it.                                     *)
LEMMA RemovedOffered ==
    ASSUME IInv, answer # NoAnswer, answer.reply.kind = "removed"
    PROVE  answer.reply.at \in Offered
  <1> DEFINE r == answer.found.route
             s == answer.server
             base == Under(Names(r.root), r.upload_dir)
             rest == Beneath(r, answer.path)
             at == answer.reply.at
  <1>1. PICK old : /\ Within(old)
                   /\ answer.found.status = 200
                   /\ answer.method \in {"GET", "DELETE"}
                   /\ answer.method = "GET" => answer.reply = HandleGet(old, s, r, answer.path)
                   /\ answer.method = "DELETE" => answer.reply = HandleDelete(old, s, r, answer.path)
    BY HandlersAnswer
  <1>2. /\ r \in RouteBlock /\ s \in Range(servers) /\ r \in Range(s.routes)
        /\ Matches(r, answer.path) /\ <<answer.method>> \in Range(r.methods)
    BY <1>1, RouteOfAnswer
  <1>3. answer.path \in Text
    BY PathsAssumption DEF IInv, AnswerInv, Made
  <1>4. /\ r.path \in Text /\ r.root \in Text /\ r.default_file \in Text /\ r.upload_dir \in Text
    <2> HIDE DEF r
    <2> QED  BY <1>2 DEF RouteBlock
  <1> HIDE DEF r, s
  <1>5. answer.method = "DELETE"
    <2> SUFFICES ASSUME answer.method = "GET" PROVE FALSE
      BY <1>1
    <2>1. GetFaithful(old, r, answer.path, HandleGet(old, s, r, answer.path))
      BY <1>1, <1>2, <1>3, <1>4, GetServes
    <2> QED  BY <1>1, <2>1 DEF GetFaithful
  <1>6. at = base \o rest /\ at \in DOMAIN Tree
    <2> DEFINE reply == HandleDelete(old, s, r, answer.path)
    <2>1. answer.reply = reply
      BY <1>1, <1>5
    <2>2. DeleteFaithful(old, r, answer.path, reply)
      BY <1>1, <1>2, <1>3, <1>4, DeleteRemoves
    <2> HIDE DEF reply
    <2>3. at = base \o rest /\ at \in DOMAIN old
      BY <2>1, <2>2 DEF DeleteFaithful, There
    <2> HIDE DEF base, rest
    <2> QED  BY <1>1, <2>3 DEF Within
  <1>7. base \in Seq(Text) /\ rest \in Seq(Text)
    <2>1. /\ Names(r.root) \in Seq(Text) /\ Names(r.upload_dir) \in Seq(Text)
      BY <1>4, NamesAre
    <2>2. base \in Seq(Text)
      BY <2>1, ConcatProperties DEF Under
    <2>3. Relative(r, answer.path) \in Text /\ Names(Relative(r, answer.path)) = rest
      BY <1>2, <1>3, <1>4, BeneathRoute
    <2>4. rest \in Seq(Text)
      BY <2>3, NamesAre
    <2> QED  BY <2>2, <2>4
  <1> HIDE DEF rest, at
  <1>8. IsPrefix(base, at)
    <2> HIDE DEF base
    <2> QED  BY <1>6, <1>7, ConcatIsPrefix
  <1>9. <<"DELETE">> \in Range(r.methods)
    BY <1>2, <1>5
  <1> QED  BY <1>2, <1>6, <1>8, <1>9 DEF Offered, at, base, s

(* Nothing is gone from the tree but what routes offer to DELETE: the      *)
(* first promise about files, as an invariant of its own.                  *)
GoneInv == DOMAIN Tree \ DOMAIN fs \subseteq Offered

LEMMA GoneStep ==
    ASSUME IInv, IInv', GoneInv, [Next]_vars
    PROVE  GoneInv'
  <1>1. ASSUME UNCHANGED <<servers, fs>>
        PROVE  GoneInv'
    BY <1>1 DEF GoneInv, Offered
  <1>2. CASE ValidateBlock
    <2>1. fs' = fs
      BY <1>2 DEF ValidateBlock
    <2>2. Range(servers) \subseteq Range(servers')
      <3>1. servers' = servers \/ servers' = Append(servers, Completed(Block))
        BY <1>2 DEF ValidateBlock
      <3> DEFINE S == Served(Accepted)
                 c == Completed(Block)
                 U == S \cup {c}
      <3>2. servers \in Seq(S)
        BY DEF IInv, ServeInv
      <3> HIDE DEF S, c
      <3>3. \A i \in 1 .. Len(servers) : servers[i] \in U
        BY <3>2, ElementOfSeq
      <3>4. servers \in Seq(U) /\ c \in U
        BY <3>2, <3>3, SeqOver
      <3> HIDE DEF U
      <3>5. /\ Append(servers, c) \in Seq(U) /\ Len(Append(servers, c)) = Len(servers) + 1
            /\ \A i \in 1 .. Len(servers) : Append(servers, c)[i] = servers[i]
        BY <3>4, AppendProperties
      <3>6. Len(servers) \in Nat /\ DOMAIN servers = 1 .. Len(servers)
            /\ DOMAIN Append(servers, c) = 1 .. Len(servers) + 1
        BY <3>4, <3>5, LenProperties
      <3>7. Range(servers) \subseteq Range(Append(servers, c))
        BY <3>5, <3>6 DEF Range
      <3> QED  BY <3>1, <3>7 DEF c
    <2>3. Offered \subseteq Offered'
      BY <2>2 DEF Offered
    <2> QED  BY <2>1, <2>3 DEF GoneInv
  <1>3. CASE Request
    <2>1. servers' = servers
      BY <1>3 DEF Request
    <2>2. /\ answer' # NoAnswer
          /\ fs' = IF answer'.reply.kind = "removed"
                   THEN Restrict(fs, DOMAIN fs \ {answer'.reply.at}) ELSE fs
      <3>a. PICK t \in DOMAIN listeners, name \in HostNames, path \in Paths, method \in Methods :
            \E body \in Bodies(method) :
              LET s == ResolveConfig(listeners[t].config_list, name)
                  found == FindRoute(s.routes, path, method)
                  reply == Replied(fs, s, found, path, method, body)
              IN  /\ answer' = [token |-> t, name |-> name, path |-> path, method |-> method,
                                server |-> s, found |-> found, reply |-> reply]
                  /\ fs' = Removed(fs, reply)
        BY <1>3 DEF Request, Removed
      <3>1. PICK body \in Bodies(method) :
              LET s == ResolveConfig(listeners[t].config_list, name)
                  found == FindRoute(s.routes, path, method)
                  reply == Replied(fs, s, found, path, method, body)
              IN  /\ answer' = [token |-> t, name |-> name, path |-> path, method |-> method,
                                server |-> s, found |-> found, reply |-> reply]
                  /\ fs' = Removed(fs, reply)
        BY <3>a
      <3> DEFINE s == ResolveConfig(listeners[t].config_list, name)
                 found == FindRoute(s.routes, path, method)
                 reply == Replied(fs, s, found, path, method, body)
      <3>2. /\ answer' = [token |-> t, name |-> name, path |-> path, method |-> method,
                          server |-> s, found |-> found, reply |-> reply]
            /\ fs' = Removed(fs, reply)
        BY <3>1
      <3> HIDE DEF s, found, reply
      <3>3. answer'.reply = reply
        BY <3>2
      <3>4. answer' # NoAnswer
        <4>1. "reply" \in DOMAIN answer'
          BY <3>2
        <4>2. "reply" \notin DOMAIN NoAnswer
          BY DEF NoAnswer
        <4> QED  BY <4>1, <4>2
      <3> QED  BY <3>2, <3>3, <3>4 DEF Removed
    <2>3. Offered' = Offered
      BY <2>1 DEF Offered
    <2>4. CASE answer'.reply.kind = "removed"
      <3>1. answer'.reply.at \in Offered'
        <4>1. (answer # NoAnswer /\ answer.reply.kind = "removed" /\ IInv
                 => answer.reply.at \in Offered)'
          BY RemovedOffered, PTL
        <4> QED  BY <2>2, <2>4, <4>1
      <3>2. DOMAIN fs' = DOMAIN fs \ {answer'.reply.at}
        BY <2>2, <2>4 DEF Restrict
      <3> QED  BY <2>3, <3>1, <3>2 DEF GoneInv
    <2>5. CASE answer'.reply.kind # "removed"
      BY <2>1, <2>2, <2>5, <1>1
    <2> QED  BY <2>4, <2>5
  <1>4. CASE ReadFile \/ Refuse \/ Validated \/ Bind \/ BindFails \/ Start \/ Answered \/ UNCHANGED vars
    <2>1. UNCHANGED <<servers, fs>>
      BY <1>4 DEF ReadFile, Refuse, Validated, Bind, BindFails, Start, Answered, Keep, vars
    <2> QED  BY <1>1, <2>1
  <1> QED  BY <1>2, <1>3, <1>4 DEF Next, StartUp

(* Files are faithful to what was asked: handle_get, handle_delete, and    *)
(* what find_route and the checks of validate leave them.                  *)
THEOREM FileAlwaysRight == Spec => []RightFile
  <1>1. Init => GoneInv
    BY DEF Init, Fresh, GoneInv
  <1>2. ASSUME IInv, GoneInv PROVE RightFile
    <2> DEFINE r == answer.found.route
               url == answer.path
               reply == answer.reply
               plain == answer.found.status = 200 /\ r.redirection = <<>> /\ ~IsScript(r, url)
               here == Here(r, url)
    <2>1. SUFFICES ASSUME answer # NoAnswer
                   PROVE  /\ reply.kind = "file" =>
                                \/ reply.at = here /\ Tree[here] = "file"
                                \/ reply.at = Under(here, r.default_file) /\ Tree[here] = "dir"
                          /\ reply.kind = "removed" =>
                                /\ reply.at = There(r, url)
                                /\ Tree[reply.at] = "file" /\ reply.at \notin DOMAIN fs
                          /\ plain /\ answer.method = "GET" /\ Last(url) # "/" =>
                                (reply.kind = "file" /\ reply.at = here
                                   <=> here \in DOMAIN fs /\ fs[here] = "file")
      BY <1>2 DEF RightFile, GoneInv, Here, There
    <2>2. PICK old : /\ Within(old) /\ fs = Removed(old, reply)
                     /\ answer.method \in {"GET", "POST", "DELETE"}
                     /\ reply.kind \in {"file", "removed"} => plain /\ answer.method # "POST"
                     /\ plain /\ answer.method = "GET" => reply = HandleGet(old, answer.server, r, url)
                     /\ plain /\ answer.method = "DELETE" =>
                           reply = HandleDelete(old, answer.server, r, url)
      BY <1>2, <2>1, HandlersAnswer
    <2>3. SUFFICES ASSUME plain
                   PROVE  /\ reply.kind = "file" =>
                                \/ reply.at = here /\ Tree[here] = "file"
                                \/ reply.at = Under(here, r.default_file) /\ Tree[here] = "dir"
                          /\ reply.kind = "removed" =>
                                /\ reply.at = There(r, url)
                                /\ Tree[reply.at] = "file" /\ reply.at \notin DOMAIN fs
                          /\ answer.method = "GET" /\ Last(url) # "/" =>
                                (reply.kind = "file" /\ reply.at = here
                                   <=> here \in DOMAIN fs /\ fs[here] = "file")
      <3> HIDE DEF plain, reply, here, url
      <3> QED  BY <2>2
    <2>4. /\ r \in RouteBlock /\ Matches(r, url) /\ Tree[Names(r.root)] = "dir"
          /\ r.default_file # <<>> => Elsewhere(r.default_file)
      BY <1>2, <2>1, <2>3, RouteOfAnswer
    <2>5. url \in Text
      BY <1>2, <2>1, PathsAssumption DEF IInv, AnswerInv, Made
    <2> HIDE DEF r, url, reply
    <2>6. /\ r.path \in Text /\ r.root \in Text /\ r.default_file \in Text /\ r.upload_dir \in Text
      BY <2>4 DEF RouteBlock
    <2> DEFINE got == HandleGet(old, answer.server, r, url)
               gone == HandleDelete(old, answer.server, r, url)
    <2>7. GetFaithful(old, r, url, got)
      BY <2>2, <2>4, <2>5, <2>6, GetServes
    <2>8. DeleteFaithful(old, r, url, gone)
      BY <2>2, <2>4, <2>5, <2>6, DeleteRemoves
    <2>9. here \in Seq(Text) /\ Names(r.default_file) \in Seq(Text)
      <3>1. Names(r.root) \in Seq(Text) /\ Names(r.default_file) \in Seq(Text)
        BY <2>6, NamesAre
      <3>2. Relative(r, url) \in Text /\ Names(Relative(r, url)) = Beneath(r, url)
        BY <2>4, <2>5, <2>6, BeneathRoute
      <3>3. Beneath(r, url) \in Seq(Text)
        BY <3>2, NamesAre
      <3> QED  BY <3>1, <3>3, ConcatProperties DEF Here
    <2> HIDE DEF got, gone, here
    <2>10. CASE answer.method = "GET"
      <3>1. reply = got
        BY <2>2, <2>3, <2>10 DEF got
      <3>2. /\ got.kind # "removed"
            /\ got.kind = "file" =>
                  \/ /\ got.at = here /\ here \in DOMAIN old
                     /\ old[here] = "file" /\ Tree[here] = "file"
                  \/ /\ got.at = Under(here, r.default_file) /\ r.default_file # <<>>
                     /\ Tree[here] = "dir"
            /\ here \in DOMAIN old /\ old[here] = "file" /\ Last(url) # "/" =>
                  got.kind = "file" /\ got.at = here
        BY <2>4, <2>7 DEF GetFaithful, here
      <3>3. fs = old
        BY <2>2, <3>1, <3>2 DEF Removed
      <3>4. ASSUME r.default_file # <<>>, Tree[here] = "dir"
            PROVE  Under(here, r.default_file) # here
        <4> DEFINE d == Names(r.default_file)
        <4>1. d \in Seq(Text)
          BY <2>9
        <4>2. CASE Absolute(r.default_file)
          BY <2>4, <3>4, <4>2 DEF Under, Elsewhere
        <4>3. CASE ~Absolute(r.default_file)
          <5>1. Under(here, r.default_file) = here \o d /\ d # <<>>
            BY <2>4, <3>4, <4>3 DEF Under, Elsewhere
          <5> HIDE DEF d
          <5> QED  BY <2>9, <4>1, <5>1, ConcatEqualIffEmpty
        <4> QED  BY <4>2, <4>3
      <3> QED  BY <3>1, <3>2, <3>3, <3>4
    <2>11. CASE answer.method = "DELETE"
      <3>1. reply = gone
        BY <2>2, <2>3, <2>11 DEF gone
      <3>2. reply.kind = "removed" => reply.at \notin DOMAIN fs
        BY <2>2 DEF Removed, Restrict
      <3> QED  BY <2>8, <2>11, <3>1, <3>2 DEF DeleteFaithful
    <2>12. CASE answer.method = "POST"
      BY <2>2, <2>12
    <2> QED  BY <2>2, <2>10, <2>11, <2>12
  <1> QED  BY <1>1, <1>2, GoneStep, StartupAlways, PTL DEF Spec

-----------------------------------------------------------------------------
(* What SaneStarts says about every state: nothing stops a sane file.      *)

(* Nothing is claimed but by a block that was validated.                   *)
ClaimedInv ==
    /\ \A x \in virtual_hosts :
          \E i \in 1 .. k - 1 : \E p \in Claims(i) : x = <<file[i].server_name, p>>
    /\ \A p \in default_servers_per_port :
          \E i \in 1 .. k - 1 : file[i].default_server /\ p \in Claims(i)

LEMMA ClaimedStep == ASSUME IInv, ClaimedInv, [Next]_vars PROVE ClaimedInv'
  <1>1. CASE ReadFile
    <2>1. k' = k /\ k = 1 /\ UNCHANGED <<virtual_hosts, default_servers_per_port>>
      BY <1>1 DEF ReadFile, IInv, PlaceInv
    <2>2. virtual_hosts = {} /\ default_servers_per_port = {}
      BY <2>1 DEF ClaimedInv
    <2> QED  BY <2>1, <2>2 DEF ClaimedInv
  <1>2. CASE ValidateBlock
    <2>1. file' = file /\ k' = k + 1 /\ k \in Nat /\ k # 0
      <3>1. Len(file) \in Nat
        BY FileBlocks DEF IInv
      <3> QED  BY <1>2, <3>1 DEF ValidateBlock, IInv, PlaceInv
    <2>2. \A i : Claims(i)' = Claims(i)
      BY <2>1 DEF Claims
    <2>3. k \in 1 .. k' - 1 /\ \A i \in 1 .. k - 1 : i \in 1 .. k' - 1
      BY <2>1
    <2>4. ASSUME NEW x \in virtual_hosts'
          PROVE  \E i \in 1 .. k' - 1 : \E p \in Claims(i) : x = <<file[i].server_name, p>>
      <3>1. x \in virtual_hosts \/ \E p \in Claims(k) : x = <<file[k].server_name, p>>
        BY <1>2 DEF ValidateBlock, Claims, Block
      <3> QED  BY <2>3, <3>1 DEF ClaimedInv
    <2>5. ASSUME NEW p \in default_servers_per_port'
          PROVE  \E i \in 1 .. k' - 1 : file[i].default_server /\ p \in Claims(i)
      <3>1. p \in default_servers_per_port \/ (file[k].default_server /\ p \in Claims(k))
        BY <1>2 DEF ValidateBlock, Claims, Block
      <3> QED  BY <2>3, <3>1 DEF ClaimedInv
    <2> QED  BY <2>1, <2>2, <2>4, <2>5 DEF ClaimedInv
  <1>3. CASE ~ReadFile /\ ~ValidateBlock
    <2>1. UNCHANGED <<file, k, virtual_hosts, default_servers_per_port>>
      BY <1>3 DEF Next, StartUp, Refuse, Validated, Bind, BindFails, Start, Keep, Request,
                  Answered, vars
    <2> QED  BY <2>1 DEF ClaimedInv, Claims
  <1> QED  BY <1>1, <1>2, <1>3

(* Blocks that are compatible do not conflict, whatever came before them.  *)
LEMMA NoConflict ==
    ASSUME IInv, ClaimedInv, Sane, k <= Len(file)
    PROVE  ~Conflict
  <1>1. /\ Len(file) \in Nat /\ DOMAIN file = 1 .. Len(file) /\ k \in 1 .. Len(file)
        /\ \A i \in 1 .. Len(file) : IsBlock(file[i])
    <2>1. Len(file) \in Nat /\ DOMAIN file = 1 .. Len(file)
          /\ \A i \in 1 .. Len(file) : IsBlock(file[i])
      BY FileBlocks DEF IInv
    <2> QED  BY <2>1 DEF IInv, PlaceInv
  <1>2. \A i \in 1 .. Len(file) : Claims(i) \subseteq Range(file[i].ports)
    BY DEF Claims, ClaimedPorts, Range
  <1> SUFFICES ASSUME NEW p \in Claims(k), Conflicts(file[k], p)
               PROVE  FALSE
    BY DEF Conflict, Claims, Block
  <1>3. ASSUME NEW i \in 1 .. k - 1, p \in Claims(i)
        PROVE  /\ file[i].server_name # file[k].server_name
               /\ ~(file[i].default_server /\ file[k].default_server)
    <2>1. i \in DOMAIN file /\ k \in DOMAIN file /\ i # k
      BY <1>1
    <2>2. Compatible(i, k)
      BY <2>1 DEF Sane
    <2>3. p \in Range(file[i].ports) \cap Range(file[k].ports)
      BY <1>1, <1>2, <1>3, <2>1
    <2> QED  BY <2>2, <2>3 DEF Compatible
  <1>4. CASE file[k].default_server /\ p \in default_servers_per_port
    BY <1>3, <1>4 DEF ClaimedInv
  <1>5. CASE <<file[k].server_name, p>> \in virtual_hosts
    <2>1. PICK i \in 1 .. k - 1 :
             \E q \in Claims(i) : <<file[k].server_name, p>> = <<file[i].server_name, q>>
      BY <1>5 DEF ClaimedInv
    <2>2. p \in Claims(i) /\ file[k].server_name = file[i].server_name
      BY <2>1
    <2> QED  BY <1>3, <2>2
  <1> QED  BY <1>4, <1>5 DEF Conflicts

(* A sound block leaves a server.                                          *)
LEMMA SomeServed ==
    ASSUME IInv, Sane, k = Len(file) + 1
    PROVE  servers # <<>>
  <1>1. AcceptedSoFar = Accepted
    <2>1. Len(file) \in Nat /\ Accepted \subseteq 1 .. Len(file)
      BY FileBlocks DEF IInv, Accepted
    <2>2. k - 1 = Len(file)
      BY <2>1
    <2> QED  BY <2>1, <2>2 DEF AcceptedSoFar
  <1>2. PICK f : Numbers(f)
    BY DEF IInv, ServeInv
  <1>3. PICK b : b \in Accepted
    BY DEF Sane
  <1>4. 1 .. Len(servers) # {}
    BY <1>1, <1>2, <1>3 DEF Numbers
  <1>5. 1 .. Len(<<>>) = {}
    OBVIOUS
  <1> QED  BY <1>4, <1>5

(* An address is the host and a port of an accepted block.                 *)
LEMMA AddressOfBlock ==
    ASSUME IInv, NEW a \in Addresses
    PROVE  \E b \in Accepted : /\ a = <<Host(b), a[2]>>
                               /\ a[2] \in Range(file[b].ports)
  <1>a. PICK i \in DOMAIN servers :
           \E j \in DOMAIN servers[i].ports : a = <<servers[i].host, servers[i].ports[j]>>
    BY DEF Addresses
  <1>1. PICK j \in DOMAIN servers[i].ports : a = <<servers[i].host, servers[i].ports[j]>>
    BY <1>a
  <1>2. PICK f : Numbers(f)
    BY DEF IInv, ServeInv
  <1>3. i \in 1 .. Len(servers)
    <2> DEFINE S == Served(Accepted)
    <2>1. servers \in Seq(S)
      BY DEF IInv, ServeInv
    <2> HIDE DEF S
    <2> QED  BY <2>1
  <1>4. f[i] \in Accepted /\ servers[i] = Completed(file[f[i]])
    BY <1>2, <1>3 DEF Numbers, AcceptedSoFar
  <1>5. IsBlock(file[f[i]])
    BY <1>4, FileBlocks DEF IInv, Accepted
  <1>6. servers[i].host = Host(f[i]) /\ servers[i].ports = file[f[i]].ports
    <2> DEFINE s == file[f[i]]
    <2>1. Completed(s).host = Address[Inner(s.host)] /\ Completed(s).ports = s.ports
      BY <1>5, CompletedFields
    <2> QED  BY <1>4, <2>1 DEF Host
  <1>7. a[2] = servers[i].ports[j]
    BY <1>1
  <1>8. a[2] \in Range(file[f[i]].ports)
    BY <1>6, <1>7 DEF Range
  <1> QED  BY <1>1, <1>4, <1>6, <1>7, <1>8

(* Addresses of a sane file can be bound side by side.                     *)
LEMMA NoClash ==
    ASSUME IInv, Sane, NEW a \in Addresses, NEW b \in Addresses, a # b
    PROVE  ~Clash(a, b)
  <1>1. PICK i \in Accepted : a = <<Host(i), a[2]>> /\ a[2] \in Range(file[i].ports)
    BY AddressOfBlock
  <1>2. PICK j \in Accepted : b = <<Host(j), b[2]>> /\ b[2] \in Range(file[j].ports)
    BY AddressOfBlock
  <1>3. a[1] = Host(i) /\ b[1] = Host(j)
    BY <1>1, <1>2
  <1>4. Bindable(i, j)
    BY DEF Sane
  <1> SUFFICES ASSUME a[2] = b[2], a[1] = b[1] \/ AnyHost \in {a[1], b[1]} PROVE FALSE
    BY DEF Clash
  <1>5. Range(file[i].ports) \cap Range(file[j].ports) # {}
    BY <1>1, <1>2
  <1>6. Host(i) = Host(j)
    BY <1>3, <1>4, <1>5 DEF Bindable
  <1> QED  BY <1>1, <1>2, <1>6

LEMMA BoundAddresses == ASSUME IInv PROVE Bound \subseteq Addresses
  BY DEF IInv, ListenInv, Bound

(* A sane file is never refused: no block of it conflicts with what those  *)
(* before it have claimed, damaged ones included, a server is left when    *)
(* all are validated, and the addresses can be bound in whatever order the *)
(* hash map of setup_listeners gives them.  Each step of the start-up of   *)
(* such a file can therefore be taken, and none is the end of the program: *)
(* with the fairness of running at all this is SaneStarts.                 *)
Proceeds ==
    /\ pc # "aborted"
    /\ pc = "validate" => IF k <= Len(file) THEN ~Conflict ELSE servers # <<>>
    /\ pc = "bind" => \A a \in Addresses \ Bound, b \in Bound : ~Clash(a, b)
THEOREM SaneNeverRefused == Spec => [](Sane => Proceeds)
  <1>1. Init => ClaimedInv /\ (Sane => pc # "aborted")
    BY DEF Init, Fresh, ClaimedInv
  <1>2. ASSUME IInv, ClaimedInv, Sane, pc # "aborted"
        PROVE  Proceeds
    <2>1. ASSUME pc = "validate"
          PROVE  IF k <= Len(file) THEN ~Conflict ELSE servers # <<>>
      <3>1. Len(file) \in Nat /\ k \in 1 .. Len(file) + 1
        BY <1>2, FileBlocks DEF IInv, PlaceInv
      <3>2. k <= Len(file) => ~Conflict
        BY <1>2, NoConflict
      <3>3. ~(k <= Len(file)) => k = Len(file) + 1
        BY <3>1
      <3>4. ~(k <= Len(file)) => servers # <<>>
        BY <1>2, <3>3, SomeServed
      <3> QED  BY <3>2, <3>4
    <2>2. ASSUME NEW a \in Addresses \ Bound, NEW b \in Bound
          PROVE  ~Clash(a, b)
      BY <1>2, BoundAddresses, NoClash
    <2> QED  BY <1>2, <2>1, <2>2 DEF Proceeds
  <1>3. ASSUME IInv, ClaimedInv, Sane => pc # "aborted", [Next]_vars
        PROVE  (Sane => pc # "aborted")'
    <2>1. CASE ReadFile
      <3>1. SUFFICES ASSUME file' = <<>> PROVE ~Sane'
        BY <2>1 DEF ReadFile
      <3>2. Accepted' = {}
        BY <3>1 DEF Accepted
      <3> QED  BY <3>2 DEF Sane
    <2>2. CASE ~ReadFile
      <3>1. file' = file
        BY <1>3, <2>2 DEF Next, StartUp, ValidateBlock, Refuse, Validated, Bind, BindFails,
                          Start, Keep, Request, Answered, vars
      <3>2. Sane' = Sane
        BY <3>1 DEF Sane, Accepted, Compatible, Bindable, Host
      <3>3. SUFFICES ASSUME Sane, pc' = "aborted" PROVE FALSE
        BY <3>2
      <3>4. Proceeds
        BY <1>2, <1>3, <3>3
      <3>5. Refuse \/ BindFails
        BY <1>3, <2>2, <3>3, <3>4 DEF Proceeds, Next, StartUp, ValidateBlock, Validated, Bind,
                          Start, Keep, Request, Answered, vars
      <3> QED  BY <3>4, <3>5 DEF Proceeds, Refuse, BindFails
    <2> QED  BY <2>1, <2>2
  <1>4. IInv /\ ClaimedInv /\ [Next]_vars => ClaimedInv'
    BY ClaimedStep
  <1>5. IInv /\ ClaimedInv /\ (Sane => pc # "aborted") => (Sane => Proceeds)
    BY <1>2
  <1>6. IInv /\ ClaimedInv /\ (Sane => pc # "aborted") /\ [Next]_vars
        => (Sane => pc # "aborted")'
    BY <1>3
  <1> QED  BY <1>1, <1>4, <1>5, <1>6, StartupAlways, PTL DEF Spec

=============================================================================
