--------------------------- MODULE DnsSystemProofs ---------------------------
(***************************************************************************)
(* Proofs about DnsSystem: whatever the network reorders or loses, for any *)
(* clients, servers and queries.                                           *)
(***************************************************************************)
EXTENDS DnsSystem, DnsServerProofs

-----------------------------------------------------------------------------
(* Bags.                                                                   *)

CopiesOf(x, b) == IF x \in DOMAIN b THEN b[x] ELSE 0

LEMMA BagElements ==
  ASSUME NEW b
  PROVE  IsABag(b) <=> b = [x \in DOMAIN b |-> b[x]] /\ \A x \in DOMAIN b : b[x] \in Nat /\ b[x] > 0
BY DEF IsABag

LEMMA CopiesType ==
  ASSUME NEW b, IsABag(b), NEW x
  PROVE  CopiesOf(x, b) \in Nat /\ (x \in DOMAIN b <=> CopiesOf(x, b) > 0)
BY BagElements DEF CopiesOf

LEMMA AddCopies ==
  ASSUME NEW b, IsABag(b), NEW S
  PROVE  /\ IsABag(b (+) SetToBag(S)) /\ DOMAIN (b (+) SetToBag(S)) = DOMAIN b \cup S
         /\ \A x : CopiesOf(x, b (+) SetToBag(S)) = CopiesOf(x, b) + (IF x \in S THEN 1 ELSE 0)
<1> DEFINE c == b (+) SetToBag(S)
<1>1. c = [x \in DOMAIN b \cup S |->
             (IF x \in DOMAIN b THEN b[x] ELSE 0) + (IF x \in S THEN 1 ELSE 0)]
  <2>1. DOMAIN SetToBag(S) = S /\ \A x \in S : SetToBag(S)[x] = 1
    BY DEF SetToBag
  <2> QED BY <2>1 DEF (+)
<1>2. \A x \in DOMAIN b : b[x] \in Nat /\ b[x] > 0
  BY BagElements
<1> HIDE DEF c
<1>3. DOMAIN c = DOMAIN b \cup S
  BY <1>1
<1>4. \A x \in DOMAIN c : c[x] = (IF x \in DOMAIN b THEN b[x] ELSE 0) + (IF x \in S THEN 1 ELSE 0)
  BY <1>1, <1>3
<1>5. \A x \in DOMAIN c : c[x] \in Nat /\ c[x] > 0
  BY <1>2, <1>3, <1>4
<1>6. c = [x \in DOMAIN c |-> c[x]]
  BY <1>1
<1>7. IsABag(c)
  BY <1>5, <1>6, BagElements
<1>8. \A x : CopiesOf(x, c) = CopiesOf(x, b) + (IF x \in S THEN 1 ELSE 0)
  BY <1>2, <1>3, <1>4 DEF CopiesOf
<1> QED BY <1>3, <1>7, <1>8 DEF c

LEMMA DropCopy ==
  ASSUME NEW b, IsABag(b), NEW m \in DOMAIN b
  PROVE  /\ IsABag(b (-) SetToBag({m})) /\ DOMAIN (b (-) SetToBag({m})) \subseteq DOMAIN b
         /\ \A x : CopiesOf(x, b (-) SetToBag({m})) = CopiesOf(x, b) - (IF x = m THEN 1 ELSE 0)
<1> DEFINE c == b (-) SetToBag({m})
           B == [x \in DOMAIN b |-> IF x = m THEN b[x] - 1 ELSE b[x]]
<1>1. c = [x \in {y \in DOMAIN B : B[y] > 0} |-> B[x]]
  <2>1. DOMAIN SetToBag({m}) = {m} /\ SetToBag({m})[m] = 1
    BY DEF SetToBag
  <2>2. B = [e \in DOMAIN b |-> IF e \in DOMAIN SetToBag({m}) THEN b[e] - SetToBag({m})[e] ELSE b[e]]
    BY <2>1
  <2> QED BY <2>2, Zenon DEF (-)
<1>2. \A x \in DOMAIN b : b[x] \in Nat /\ b[x] > 0
  BY BagElements
<1>3. DOMAIN B = DOMAIN b /\ \A x \in DOMAIN b : B[x] \in Nat /\ B[x] = b[x] - (IF x = m THEN 1 ELSE 0)
  BY <1>2
<1> HIDE DEF c, B
<1>4. DOMAIN c = {y \in DOMAIN b : B[y] > 0} /\ c = [x \in DOMAIN c |-> c[x]]
  BY <1>1, <1>3
<1>5. \A x \in DOMAIN c : c[x] = B[x] /\ c[x] \in Nat /\ c[x] > 0
  BY <1>1, <1>3, <1>4
<1>6. IsABag(c)
  BY <1>4, <1>5, BagElements
<1>7. ASSUME NEW x PROVE CopiesOf(x, c) = CopiesOf(x, b) - (IF x = m THEN 1 ELSE 0)
  <2>1. CASE x \in DOMAIN c
    BY <1>3, <1>4, <1>5, <2>1 DEF CopiesOf
  <2>2. CASE x \notin DOMAIN c /\ x \in DOMAIN b
    <3>1. B[x] = 0
      BY <1>3, <1>4, <2>2
    <3> QED BY <1>3, <2>2, <3>1 DEF CopiesOf
  <2>3. CASE x \notin DOMAIN b
    BY <1>4, <2>3 DEF CopiesOf
  <2> QED BY <2>1, <2>2, <2>3
<1> QED BY <1>4, <1>6, <1>7 DEF c

(* What a step of the network does to the number of copies.                *)
LEMMA MoveCopies ==
  ASSUME IsABag(net), NEW m \in DOMAIN net, NEW S
  PROVE  /\ IsABag(Move(m, S)) /\ DOMAIN Move(m, S) \subseteq DOMAIN net \cup S
         /\ \A x : CopiesOf(x, Move(m, S)) =
                     CopiesOf(x, net) - (IF x = m THEN 1 ELSE 0) + (IF x \in S THEN 1 ELSE 0)
<1> DEFINE b == net (-) SetToBag({m})
<1>1. /\ IsABag(b) /\ DOMAIN b \subseteq DOMAIN net
      /\ \A x : CopiesOf(x, b) = CopiesOf(x, net) - (IF x = m THEN 1 ELSE 0)
  BY DropCopy
<1>2. Move(m, S) = b (+) SetToBag(S)
  BY DEF Move
<1> HIDE DEF b
<1>3. /\ IsABag(b (+) SetToBag(S)) /\ DOMAIN (b (+) SetToBag(S)) = DOMAIN b \cup S
      /\ \A x : CopiesOf(x, b (+) SetToBag(S)) = CopiesOf(x, b) + (IF x \in S THEN 1 ELSE 0)
  BY <1>1, AddCopies
<1> QED BY <1>1, <1>2, <1>3

-----------------------------------------------------------------------------
(* The inductive invariant: what is in transit, and for each query a       *)
(* budget.  Each time the client sends it the query is in one place only:  *)
(* on its way to the forwarder, waiting there, or answered, the answer in  *)
(* transit or received.                                                    *)

FromServer(m) == m.to = Daemon /\ m.from \in Servers
ToClient(m) ==
  m.from = Daemon /\ m.to \in Endpoints /\ m.packet = UpstreamPacket(m.packet.id, m.packet.question)

Carried(m) ==
  /\ m = Transit(m.from, m.to, m.packet)
  /\ m.packet \in PacketType
  /\ m.packet.qr => FromServer(m) \/ ToClient(m)

NetInv == IsABag(net) /\ \A m \in DOMAIN net : Carried(m)

Waits(q) == IF q \in waiting THEN 1 ELSE 0

Spent(q) ==
  got[q] + CopiesOf(AnswerDatagram(q), net) + CopiesOf(QueryDatagram(q), net) + Waits(q)

Budget ==
  /\ tries \in [Queries -> Nat] /\ got \in [Queries -> Nat]
  /\ \A q \in Queries : Spent(q) <= tries[q]

SysInv == IInv /\ NetInv /\ Budget

(* The datagrams of different queries differ, and queries from answers.    *)
LEMMA DatagramsDiffer ==
  ASSUME NEW q \in Queries, NEW r \in Queries
  PROVE  /\ QueryDatagram(q) = QueryDatagram(r) => q = r
         /\ AnswerDatagram(q) = AnswerDatagram(r) => q = r
         /\ QueryDatagram(q) # AnswerDatagram(r)
         /\ ~QueryDatagram(q).packet.qr /\ AnswerDatagram(q).packet.qr
         /\ QueryDatagram(q).from # Daemon /\ AnswerDatagram(q).from = Daemon
         /\ QueryDatagram(q).to = Daemon /\ AnswerDatagram(q).to = q.endpoint
<1> DEFINE dq(x) == QueryDatagram(x)
           da(x) == AnswerDatagram(x)
<1>1. /\ q = [endpoint |-> q.endpoint, id |-> q.id, question |-> q.question]
      /\ r = [endpoint |-> r.endpoint, id |-> r.id, question |-> r.question]
      /\ q.endpoint \in Endpoints
  BY QueryType
<1>2. q.endpoint # Daemon
  BY <1>1, SystemConstants
<1>3. \A x \in Queries : /\ dq(x).from = x.endpoint /\ dq(x).to = Daemon /\ dq(x).packet = Packet(x)
                         /\ da(x).from = Daemon /\ da(x).to = x.endpoint
                         /\ da(x).packet = UpstreamPacket(x.id, x.question)
  BY DEF QueryDatagram, AnswerDatagram, Transit
<1>4. \A x : Packet(x).id = x.id /\ Packet(x).question = x.question /\ Packet(x).qr = FALSE
  BY DEF Packet
<1>5. \A x, y : UpstreamPacket(x, y).id = x /\ UpstreamPacket(x, y).question = y
                /\ UpstreamPacket(x, y).qr = TRUE
  BY DEF UpstreamPacket
<1> HIDE DEF dq, da
<1>6. dq(q) = dq(r) => q.endpoint = r.endpoint /\ q.id = r.id /\ q.question = r.question
  BY <1>3, <1>4
<1>7. da(q) = da(r) => q.endpoint = r.endpoint /\ q.id = r.id /\ q.question = r.question
  BY <1>3, <1>5
<1>8. dq(q) # da(r)
  BY <1>2, <1>3
<1> QED BY <1>1, <1>2, <1>3, <1>4, <1>5, <1>6, <1>7, <1>8 DEF dq, da

LEMMA UpstreamType ==
  ASSUME NEW i \in Ids, NEW h \in Questions
  PROVE  UpstreamPacket(i, h) \in PacketType /\ UpstreamPacket(i, h).qr
BY DEF UpstreamPacket, PacketType

LEMMA SpentType ==
  ASSUME SysInv, NEW q \in Queries
  PROVE  /\ got[q] \in Nat /\ tries[q] \in Nat /\ Waits(q) \in 0 .. 1
         /\ CopiesOf(AnswerDatagram(q), net) \in Nat /\ CopiesOf(QueryDatagram(q), net) \in Nat
         /\ Spent(q) <= tries[q]
<1>1. Waits(q) \in 0 .. 1
  BY DEF Waits
<1>2. IsABag(net)
  BY DEF SysInv, NetInv
<1>3. CopiesOf(AnswerDatagram(q), net) \in Nat /\ CopiesOf(QueryDatagram(q), net) \in Nat
  BY <1>2, CopiesType
<1> QED BY <1>1, <1>3 DEF SysInv, Budget

LEMMA SysInit1 == SysInit => SysInv
<1> SUFFICES ASSUME SysInit PROVE SysInv
  OBVIOUS
<1>1. IInv
  BY InitIInv DEF SysInit
<1>2. net = [e \in {} |-> 1]
  BY DEF SysInit, EmptyBag, SetToBag
<1>3. NetInv /\ \A x : CopiesOf(x, net) = 0
  BY <1>2, BagElements DEF NetInv, CopiesOf
<1>4. \A q \in Queries : Spent(q) = 0 /\ tries[q] = 0
  BY <1>3 DEF SysInit, Init, Spent, Waits
<1> QED BY <1>1, <1>3, <1>4 DEF SysInv, Budget, SysInit

-----------------------------------------------------------------------------
(* The steps.                                                              *)

LEMMA SameServer ==
  ASSUME UNCHANGED vars, IInv
  PROVE  IInv' /\ \A q : Waits(q)' = Waits(q)
<1>1. IInv'
  BY NextIInv
<1> QED BY <1>1 DEF Waits, vars

(* A client sends: one more query in transit, one more try.                *)
LEMMA SendStep ==
  ASSUME SysInv, NEW q \in Queries, ClientSend(q)
  PROVE  SysInv'
<1>1. /\ net' = net (+) SetToBag({QueryDatagram(q)}) /\ tries' = [tries EXCEPT ![q] = @ + 1]
      /\ got' = got /\ UNCHANGED vars
  BY DEF ClientSend
<1>2. IInv' /\ \A r : Waits(r)' = Waits(r)
  BY <1>1, SameServer DEF SysInv
<1>3. /\ IsABag(net') /\ DOMAIN net' = DOMAIN net \cup {QueryDatagram(q)}
      /\ \A x : CopiesOf(x, net') = CopiesOf(x, net) + (IF x \in {QueryDatagram(q)} THEN 1 ELSE 0)
  BY <1>1, AddCopies DEF SysInv, NetInv
<1>4. Carried(QueryDatagram(q))
  <2>1. ~QueryDatagram(q).packet.qr
    BY DatagramsDiffer
  <2>2. Packet(q) \in PacketType
    BY QueryType
  <2> QED BY <2>1, <2>2 DEF Carried, QueryDatagram, Transit
<1>5. NetInv'
  BY <1>3, <1>4 DEF SysInv, NetInv
<1>6. ASSUME NEW r \in Queries PROVE Spent(r)' <= tries'[r]
  <2>1. /\ got[r] \in Nat /\ tries[r] \in Nat /\ Waits(r) \in 0 .. 1
        /\ CopiesOf(AnswerDatagram(r), net) \in Nat /\ CopiesOf(QueryDatagram(r), net) \in Nat
        /\ Spent(r) <= tries[r]
    BY SpentType
  <2>2. CopiesOf(AnswerDatagram(r), net') = CopiesOf(AnswerDatagram(r), net)
    BY <1>3, <2>1, DatagramsDiffer
  <2>3. CopiesOf(QueryDatagram(r), net') =
          CopiesOf(QueryDatagram(r), net) + (IF r = q THEN 1 ELSE 0)
    BY <1>3, DatagramsDiffer
  <2>4. tries'[r] = tries[r] + (IF r = q THEN 1 ELSE 0)
    BY <1>1, <2>1 DEF SysInv, Budget
  <2>5. Spent(r)' = got[r] + CopiesOf(AnswerDatagram(r), net') + CopiesOf(QueryDatagram(r), net') + Waits(r)
    BY <1>1, <1>2 DEF Spent
  <2> QED BY <2>1, <2>2, <2>3, <2>4, <2>5 DEF Spent
<1>7. tries' \in [Queries -> Nat] /\ got' \in [Queries -> Nat]
  BY <1>1 DEF SysInv, Budget
<1> QED BY <1>2, <1>5, <1>6, <1>7 DEF SysInv, Budget

(* A datagram m is received, the datagrams of S are sent: nothing comes to *)
(* a query's account that does not leave it.                               *)
Balanced(q, m, S) ==
  got'[q] + (IF AnswerDatagram(q) \in S THEN 1 ELSE 0) + (IF QueryDatagram(q) \in S THEN 1 ELSE 0) + Waits(q)'
    <= got[q] + (IF AnswerDatagram(q) = m THEN 1 ELSE 0) + (IF QueryDatagram(q) = m THEN 1 ELSE 0) + Waits(q)

LEMMA MoveStep ==
  ASSUME SysInv, IInv', NEW m \in DOMAIN net, NEW S, net' = Move(m, S), \A x \in S : Carried(x),
         tries' = tries, got' \in [Queries -> Nat], \A q \in Queries : Balanced(q, m, S)
  PROVE  SysInv'
<1>1. /\ IsABag(net') /\ DOMAIN net' \subseteq DOMAIN net \cup S
      /\ \A x : CopiesOf(x, net') =
                  CopiesOf(x, net) - (IF x = m THEN 1 ELSE 0) + (IF x \in S THEN 1 ELSE 0)
  BY MoveCopies DEF SysInv, NetInv
<1>2. NetInv'
  BY <1>1 DEF SysInv, NetInv
<1>3. ASSUME NEW q \in Queries PROVE Spent(q)' <= tries'[q]
  <2> DEFINE a == CopiesOf(AnswerDatagram(q), net)
             b == CopiesOf(QueryDatagram(q), net)
             aOut == IF AnswerDatagram(q) = m THEN 1 ELSE 0
             bOut == IF QueryDatagram(q) = m THEN 1 ELSE 0
             aIn == IF AnswerDatagram(q) \in S THEN 1 ELSE 0
             bIn == IF QueryDatagram(q) \in S THEN 1 ELSE 0
  <2>1. /\ got[q] \in Nat /\ tries[q] \in Nat /\ Waits(q) \in 0 .. 1 /\ a \in Nat /\ b \in Nat
        /\ got[q] + a + b + Waits(q) <= tries[q]
    BY SpentType DEF Spent
  <2>2. got'[q] \in Nat /\ Waits(q)' \in 0 .. 1
    BY DEF Waits
  <2>3. CopiesOf(AnswerDatagram(q), net') = a - aOut + aIn /\ CopiesOf(QueryDatagram(q), net') = b - bOut + bIn
    BY <1>1
  <2>4. got'[q] + aIn + bIn + Waits(q)' <= got[q] + aOut + bOut + Waits(q)
    BY DEF Balanced
  <2>5. aIn \in 0 .. 1 /\ bIn \in 0 .. 1 /\ aOut \in 0 .. 1 /\ bOut \in 0 .. 1
    OBVIOUS
  <2>6. Spent(q)' = got'[q] + (a - aOut + aIn) + (b - bOut + bIn) + Waits(q)'
    BY <2>3 DEF Spent
  <2> HIDE DEF a, b, aOut, bOut, aIn, bIn
  <2> QED BY <2>1, <2>2, <2>4, <2>5, <2>6
<1> QED BY <1>2, <1>3 DEF SysInv, Budget

(* What the daemon sends for a query is no response.                       *)
LEMMA ResolveSends ==
  ASSUME NEW q \in Queries, resolve(q)
  PROVE  (\A d \in out' : ~d.packet.qr) /\ waiting' \subseteq waiting \cup {q}
<1>1. \A r \in Queries : ~Refusal(r).packet.qr
  BY DEF Refusal, sendPacket, SetResponseCode, Packet
<1>2. \A r \in Queries : \A d \in Forwards(Packet(r)) : ~d.packet.qr
  BY DEF Forwards, sendPacket, Packet
<1>3. \A r \in Queries : \A i : \A d \in Forwards(SetId(Packet(r), i)) : ~d.packet.qr
  BY DEF Forwards, sendPacket, SetId, Packet
<1> QED
  BY <1>1, <1>2, <1>3
  DEF resolve, ResolveNoServers, ResolveRepeat, ResolveJoin,
      ResolveTimedOut, ResolveNew, ResolveRefused

Sent == {Transit(Daemon, d.to, d.packet) : d \in out'}

LEMMA SentShape ==
  ASSUME IInv'
  PROVE  \A x \in Sent : \E d \in out' :
           /\ x.from = Daemon /\ x.to = d.to /\ x.packet = d.packet
           /\ x = Transit(x.from, x.to, x.packet) /\ x.packet \in PacketType
<1>1. out' \subseteq DatagramType
  BY DEF IInv, TypeOK
<1>2. \A d \in out' : d.packet \in PacketType
  BY <1>1 DEF DatagramType
<1> QED BY <1>2 DEF Sent, Transit

LEMMA QueryStep ==
  ASSUME SysInv, DaemonReceivesQuery
  PROVE  SysInv'
<1>1. PICK q \in Queries : /\ BagIn(QueryDatagram(q), net) /\ resolve(q)
                           /\ net' = Move(QueryDatagram(q), Sent)
                           /\ UNCHANGED <<tries, got>>
  BY DEF DaemonReceivesQuery, Sent
<1>2. QueryDatagram(q) \in DOMAIN net
  BY <1>1 DEF BagIn, BagToSet
<1>3. IInv'
  BY <1>1, NextIInv DEF SysInv, Next
<1>4. (\A d \in out' : ~d.packet.qr) /\ waiting' \subseteq waiting \cup {q}
  BY <1>1, ResolveSends
<1>5. \A x \in Sent : Carried(x) /\ ~x.packet.qr /\ x.from = Daemon
  BY <1>3, <1>4, SentShape DEF Carried
<1>6. ASSUME NEW r \in Queries PROVE Balanced(r, QueryDatagram(q), Sent)
  <2>1. AnswerDatagram(r) \notin Sent /\ QueryDatagram(r) \notin Sent
    BY <1>5, DatagramsDiffer
  <2>2. got'[r] = got[r] /\ got[r] \in Nat
    BY <1>1, SpentType
  <2>3. CASE r = q
    BY <2>1, <2>2, <2>3, DatagramsDiffer DEF Balanced, Waits
  <2>4. CASE r # q
    BY <1>4, <2>1, <2>2, <2>4, DatagramsDiffer DEF Balanced, Waits
  <2> QED BY <2>3, <2>4
<1>7. got' \in [Queries -> Nat] /\ tries' = tries
  BY <1>1 DEF SysInv, Budget
<1> HIDE DEF Sent
<1> QED BY <1>1, <1>2, <1>3, <1>5, <1>6, <1>7, MoveStep

LEMMA ServerStep ==
  ASSUME SysInv, ServerAnswers
  PROVE  SysInv'
<1>1. PICK m \in DOMAIN net :
        /\ m.to \in Servers
        /\ net' = Move(m, {Transit(m.to, Daemon, UpstreamPacket(m.packet.id, m.packet.question))})
        /\ UNCHANGED <<tries, got>> /\ UNCHANGED vars
  BY DEF ServerAnswers, BagToSet
<1> DEFINE u == UpstreamPacket(m.packet.id, m.packet.question)
           x == Transit(m.to, Daemon, u)
<1>2. Carried(m) /\ m.packet \in PacketType
  BY <1>1 DEF SysInv, NetInv, Carried
<1>3. u \in PacketType
  BY <1>2, UpstreamType DEF PacketType
<1>4. x = [from |-> m.to, to |-> Daemon, packet |-> u]
  BY DEF Transit
<1>5. x.from = m.to /\ x.to = Daemon /\ x.packet = u
  BY <1>4
<1>6. Carried(x)
  BY <1>1, <1>3, <1>5 DEF Carried, FromServer, Transit
<1>7. u.qr
  BY DEF UpstreamPacket
<1> HIDE DEF u, x
<1>8. IInv' /\ \A r : Waits(r)' = Waits(r)
  BY <1>1, SameServer DEF SysInv
<1>9. ASSUME NEW r \in Queries PROVE Balanced(r, m, {x})
  <2>1. AnswerDatagram(r) # x /\ QueryDatagram(r) # x
    BY <1>1, <1>5, <1>7, DatagramsDiffer, SystemConstants
  <2>2. got'[r] = got[r] /\ got[r] \in Nat /\ Waits(r)' = Waits(r) /\ Waits(r) \in 0 .. 1
    BY <1>1, <1>8, SpentType
  <2> QED BY <2>1, <2>2 DEF Balanced
<1>10. got' \in [Queries -> Nat] /\ tries' = tries /\ net' = Move(m, {x})
  BY <1>1 DEF SysInv, Budget, x, u
<1> QED BY <1>1, <1>6, <1>8, <1>9, <1>10, MoveStep

(* The client receives a response: it is the answer to a query.            *)
LEMMA ClientStep ==
  ASSUME SysInv, ClientReceives
  PROVE  SysInv'
<1>1. PICK m \in DOMAIN net :
        /\ m.to \in Endpoints
        /\ net' = Move(m, {})
        /\ got' = [q \in Queries |-> IF IsAnswerTo(m, q) THEN got[q] + 1 ELSE got[q]]
        /\ UNCHANGED tries /\ UNCHANGED vars
  BY DEF ClientReceives, BagToSet
<1>2. Carried(m)
  BY <1>1 DEF SysInv, NetInv
<1>3. IInv' /\ \A r : Waits(r)' = Waits(r)
  BY <1>1, SameServer DEF SysInv
<1>4. ASSUME NEW r \in Queries, IsAnswerTo(m, r) PROVE m = AnswerDatagram(r)
  <2>1. m.packet.qr /\ m.to = r.endpoint /\ m.packet.id = r.id /\ m.packet.question = r.question
    BY <1>4 DEF IsAnswerTo, Concerns
  <2>2. m.to # Daemon
    BY <1>1, SystemConstants
  <2>3. ToClient(m) /\ m = Transit(m.from, m.to, m.packet)
    BY <1>2, <2>1, <2>2 DEF Carried, FromServer
  <2>4. m.from = Daemon /\ m.packet = UpstreamPacket(m.packet.id, m.packet.question)
    BY <2>3 DEF ToClient
  <2>5. m = Transit(Daemon, r.endpoint, UpstreamPacket(r.id, r.question))
    BY <2>1, <2>3, <2>4
  <2> QED BY <2>5 DEF AnswerDatagram
<1>5. \A r \in Queries : got[r] \in Nat /\ Waits(r) \in 0 .. 1
  BY SpentType
<1>6. got' \in [Queries -> Nat] /\ tries' = tries
  BY <1>1, <1>5
<1>7. ASSUME NEW r \in Queries PROVE Balanced(r, m, {})
  <2>1. got'[r] = IF IsAnswerTo(m, r) THEN got[r] + 1 ELSE got[r]
    BY <1>1
  <2>2. Waits(r)' = Waits(r) /\ got[r] \in Nat /\ Waits(r) \in 0 .. 1
    BY <1>3, <1>5
  <2> QED BY <1>4, <2>1, <2>2 DEF Balanced
<1>8. \A x \in {} : Carried(x)
  OBVIOUS
<1> QED BY <1>1, <1>3, <1>6, <1>7, <1>8, MoveStep

LEMMA LoseStep ==
  ASSUME SysInv, Lose
  PROVE  SysInv'
<1>1. PICK m \in DOMAIN net : net' = Move(m, {}) /\ UNCHANGED <<tries, got>> /\ UNCHANGED vars
  BY DEF Lose, BagToSet
<1>2. IInv' /\ \A r : Waits(r)' = Waits(r)
  BY <1>1, SameServer DEF SysInv
<1>3. \A r \in Queries : got[r] \in Nat /\ Waits(r) \in 0 .. 1
  BY SpentType
<1>4. got' \in [Queries -> Nat] /\ tries' = tries
  BY <1>1 DEF SysInv, Budget
<1>5. ASSUME NEW r \in Queries PROVE Balanced(r, m, {})
  BY <1>1, <1>2, <1>3 DEF Balanced
<1>6. \A x \in {} : Carried(x)
  OBVIOUS
<1> QED BY <1>1, <1>2, <1>4, <1>5, <1>6, MoveStep

(* The daemon passes on an answer: to queries that wait, and wait no more. *)
LEMMA AnswersSent ==
  ASSUME IInv, NEW from, NEW i \in Ids, NEW h \in Questions, UpstreamResponse(from, i, h)
  PROVE  /\ \A d \in out' : /\ d.to \in Endpoints
                            /\ d.packet = UpstreamPacket(d.packet.id, d.packet.question)
                            /\ [endpoint |-> d.to, id |-> d.packet.id, question |-> d.packet.question]
                                 \in waiting \ waiting'
         /\ waiting' \subseteq waiting
<1>1. PICK k \in Lookup(records, i, h) : /\ out' = Answers(records[k], UpstreamPacket(i, h))
                                         /\ waiting' = waiting \ QueriesOf(records[k])
  BY DEF UpstreamResponse
<1>2. k \in InUse(records) /\ records[k].hash = h
  BY DEF Lookup, First
<1>3. QueriesOf(records[k]) \subseteq waiting
  BY <1>2 DEF IInv, SourcesWaiting
<1>4. ASSUME NEW d \in out'
      PROVE  /\ d.to \in Endpoints
             /\ d.packet = UpstreamPacket(d.packet.id, d.packet.question)
             /\ [endpoint |-> d.to, id |-> d.packet.id, question |-> d.packet.question]
                  \in waiting \ waiting'
  <2>1. PICK s \in SourcesOf(records[k]) :
          d = sendPacket(SetId(UpstreamPacket(i, h), s.originalId), s.endpoint)
    BY <1>1, <1>4 DEF Answers
  <2>2. SetId(UpstreamPacket(i, h), s.originalId) = UpstreamPacket(s.originalId, h)
    <3> DEFINE p == UpstreamPacket(i, h)
               c == s.originalId
               e == SetId(p, c)
    <3>1. DOMAIN e = DOMAIN UpstreamPacket(c, h)
      BY DEF SetId, UpstreamPacket
    <3>2. /\ e.id = c /\ e.question = h /\ e.qr = TRUE
          /\ e.rcode = "NOERROR" /\ e.data = "upstream"
      BY DEF SetId, UpstreamPacket
    <3>3. e = [x \in DOMAIN e |-> e[x]]
      BY DEF SetId
    <3> DEFINE u == UpstreamPacket(c, h)
    <3>4. \A x \in DOMAIN e : e[x] = u[x]
      <4>1. DOMAIN u = {"id", "question", "qr", "rcode", "data"}
        BY DEF UpstreamPacket
      <4>2. /\ u.id = c /\ u.question = h /\ u.qr = TRUE
            /\ u.rcode = "NOERROR" /\ u.data = "upstream"
        BY DEF UpstreamPacket
      <4> HIDE DEF e, c, u
      <4>3. /\ e["id"] = u["id"] /\ e["question"] = u["question"] /\ e["qr"] = u["qr"]
            /\ e["rcode"] = u["rcode"] /\ e["data"] = u["data"]
        BY <3>2, <4>2
      <4> QED BY <3>1, <4>1, <4>3 DEF u
    <3>5. UpstreamPacket(c, h) = [x \in DOMAIN UpstreamPacket(c, h) |-> UpstreamPacket(c, h)[x]]
      BY DEF UpstreamPacket
    <3> HIDE DEF e, c
    <3> QED BY <3>1, <3>3, <3>4, <3>5, Zenon DEF e, c, p
  <2>3. d.to = s.endpoint /\ d.packet = UpstreamPacket(s.originalId, h)
    BY <2>1, <2>2 DEF sendPacket
  <2>4. d.packet.id = s.originalId /\ d.packet.question = h
    BY <2>3 DEF UpstreamPacket
  <2> DEFINE r == [endpoint |-> d.to, id |-> d.packet.id, question |-> d.packet.question]
  <2>5. r \in QueriesOf(records[k])
    BY <1>2, <2>3, <2>4 DEF QueriesOf
  <2>6. r \in Queries /\ r.endpoint = d.to
    BY <1>3, <2>5 DEF IInv, TypeOK
  <2> HIDE DEF r
  <2>7. d.to \in Endpoints
    BY <2>6, QueryType
  <2> QED BY <1>1, <1>3, <2>3, <2>4, <2>5, <2>7 DEF r
<1> QED BY <1>1, <1>4

LEMMA SysResponseStep ==
  ASSUME SysInv, DaemonReceivesResponse
  PROVE  SysInv'
<1>1. PICK m \in DOMAIN net :
        /\ m.to = Daemon /\ m.packet.qr
        /\ processUpstreamResponse(m.from, m.packet.id, m.packet.question)
        /\ net' = Move(m, Sent) /\ UNCHANGED <<tries, got>>
  BY DEF DaemonReceivesResponse, BagToSet, Sent
<1> DEFINE i == m.packet.id
           h == m.packet.question
<1>2. m.from \in Servers /\ i \in Ids /\ h \in Questions
  <2>1. Carried(m)
    BY <1>1 DEF SysInv, NetInv
  <2>2. FromServer(m)
    BY <1>1, <2>1, SystemConstants DEF Carried, ToClient
  <2> QED BY <2>1, <2>2 DEF FromServer, Carried, PacketType
<1>3. IInv'
  BY <1>1, <1>2, NextIInv DEF SysInv, Next
<1>4. got' \in [Queries -> Nat] /\ tries' = tries
  BY <1>1 DEF SysInv, Budget
<1>5. \A r \in Queries : got'[r] = got[r] /\ got[r] \in Nat
  BY <1>1, SpentType
<1>6. CASE UpstreamNoSource(m.from, i, h)
  <2>1. Sent = {} /\ waiting' = waiting
    BY <1>6 DEF UpstreamNoSource, Sent
  <2>2. \A x \in Sent : Carried(x)
    BY <2>1
  <2>3. \A r \in Queries : Balanced(r, m, Sent)
    BY <1>5, <2>1 DEF Balanced, Waits
  <2> HIDE DEF Sent
  <2> QED BY <1>1, <1>3, <1>4, <2>2, <2>3, MoveStep
<1>7. CASE UpstreamResponse(m.from, i, h)
  <2>1. /\ \A d \in out' : /\ d.to \in Endpoints
                           /\ d.packet = UpstreamPacket(d.packet.id, d.packet.question)
                           /\ [endpoint |-> d.to, id |-> d.packet.id, question |-> d.packet.question]
                                \in waiting \ waiting'
        /\ waiting' \subseteq waiting
    BY <1>2, <1>7, AnswersSent DEF SysInv
  <2>2. ASSUME NEW x \in Sent
        PROVE  /\ Carried(x) /\ x.from = Daemon
               /\ [endpoint |-> x.to, id |-> x.packet.id, question |-> x.packet.question]
                    \in waiting \ waiting'
    BY <1>3, <2>1, <2>2, SentShape DEF Carried, ToClient
  <2>3. ASSUME NEW r \in Queries PROVE Balanced(r, m, Sent)
    <3>1. QueryDatagram(r) \notin Sent
      BY <2>2, DatagramsDiffer
    <3>2. AnswerDatagram(r) \in Sent => r \in waiting /\ r \notin waiting'
      <4>1. /\ AnswerDatagram(r).to = r.endpoint
            /\ AnswerDatagram(r).packet.id = r.id /\ AnswerDatagram(r).packet.question = r.question
        BY DEF AnswerDatagram, Transit, UpstreamPacket
      <4>2. r = [endpoint |-> r.endpoint, id |-> r.id, question |-> r.question]
        BY QueryType
      <4> QED BY <2>2, <4>1, <4>2
    <3>3. r \in waiting' => r \in waiting
      BY <2>1
    <3> HIDE DEF Sent
    <3> QED BY <1>5, <3>1, <3>2, <3>3 DEF Balanced, Waits
  <2> HIDE DEF Sent
  <2> QED BY <1>1, <1>3, <1>4, <2>2, <2>3, MoveStep
<1> QED BY <1>1, <1>6, <1>7 DEF processUpstreamResponse

LEMMA SysTickStep ==
  ASSUME SysInv, SysTick \/ UNCHANGED sysVars
  PROVE  SysInv'
<1>1. IInv' /\ waiting' = waiting /\ net' = net /\ tries' = tries /\ got' = got
  <2>1. CASE SysTick
    BY <2>1, NextIInv DEF SysTick, Tick, netVars, SysInv, Next
  <2>2. CASE UNCHANGED sysVars
    BY <2>2, SameServer DEF sysVars, netVars, vars, SysInv
  <2> QED BY <2>1, <2>2
<1>2. NetInv'
  BY <1>1 DEF SysInv, NetInv
<1>3. \A q \in Queries : Spent(q)' = Spent(q)
  BY <1>1 DEF Spent, Waits
<1> QED BY <1>1, <1>2, <1>3 DEF SysInv, Budget

LEMMA SysStep == SysInv /\ [SysNext]_sysVars => SysInv'
<1> SUFFICES ASSUME SysInv, [SysNext]_sysVars PROVE SysInv'
  OBVIOUS
<1>1. CASE \E q \in Queries : ClientSend(q)
  BY <1>1, SendStep
<1>2. CASE Deliver
  BY <1>2, QueryStep, ServerStep, SysResponseStep, ClientStep DEF Deliver
<1>3. CASE Lose
  BY <1>3, LoseStep
<1>4. CASE SysTick \/ UNCHANGED sysVars
  BY <1>4, SysTickStep
<1> QED BY <1>1, <1>2, <1>3, <1>4 DEF SysNext

(* A query is answered at most once for each time its client sent it,      *)
(* although all servers are asked and all answer (processUpstreamResponse).*)
THEOREM OneAnswerPerTryHolds == SysSpec => []OneAnswerPerTry
<1>1. SysInv => OneAnswerPerTry
  <2> SUFFICES ASSUME SysInv, NEW q \in Queries
               PROVE  got[q] + Copies(AnswerDatagram(q)) <= tries[q]
    BY DEF OneAnswerPerTry
  <2>1. Copies(AnswerDatagram(q)) = CopiesOf(AnswerDatagram(q), net)
    BY DEF Copies, CopiesOf, BagIn, BagToSet
  <2>2. /\ got[q] \in Nat /\ tries[q] \in Nat /\ Waits(q) \in 0 .. 1
        /\ CopiesOf(AnswerDatagram(q), net) \in Nat /\ CopiesOf(QueryDatagram(q), net) \in Nat
        /\ Spent(q) <= tries[q]
    BY SpentType
  <2> QED BY <2>1, <2>2 DEF Spent
<1> QED BY <1>1, SysInit1, SysStep, PTL DEF SysSpec
=============================================================================
