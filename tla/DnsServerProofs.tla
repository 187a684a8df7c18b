--------------------------- MODULE DnsServerProofs ---------------------------
(***************************************************************************)
(* Theorems about DnsServer, for every number of clients, questions,       *)
(* servers and clock readings, and every TIMEOUT and MAX_FWD_QUERIES.      *)
(***************************************************************************)
EXTENDS DnsServer, NatFacts, FiniteSetTheorems, TLAPS

-----------------------------------------------------------------------------
(* Facts about the pool operators.                                         *)

LEMMA MapIsSeq ==
  ASSUME NEW S, NEW rs \in Seq(S), NEW f \in [DOMAIN rs -> S]
  PROVE  f \in Seq(S) /\ Len(f) = Len(rs) /\ DOMAIN f = DOMAIN rs
  OBVIOUS

LEMMA FreedType ==
  ASSUME NEW r \in RecordType
  PROVE  /\ Freed(r) \in RecordType
         /\ ~Freed(r).sentTo
         /\ Freed(r).newId = r.newId /\ Freed(r).hash = r.hash /\ Freed(r).time = r.time
         /\ Freed(r).source = r.source
  BY DEF Freed, RecordType

LEMMA CollectType ==
  ASSUME NEW rs \in Seq(RecordType), NEW t
  PROVE  /\ Collect(rs, t) \in Seq(RecordType)
         /\ Len(Collect(rs, t)) = Len(rs)
         /\ DOMAIN Collect(rs, t) = DOMAIN rs
         /\ InUse(Collect(rs, t)) = InUse(rs) \ Collectable(rs, t)
         /\ \A k \in InUse(Collect(rs, t)) : Collect(rs, t)[k] = rs[k]
<1>1. \A k \in DOMAIN rs : rs[k] \in RecordType
  OBVIOUS
<1>2. \A k \in DOMAIN rs : Freed(rs[k]) \in RecordType /\ ~Freed(rs[k]).sentTo
  BY <1>1, FreedType
<1>3. Collect(rs, t) \in [DOMAIN rs -> RecordType]
  BY <1>1, <1>2 DEF Collect
<1>4. /\ Collect(rs, t) \in Seq(RecordType)
      /\ Len(Collect(rs, t)) = Len(rs)
      /\ DOMAIN Collect(rs, t) = DOMAIN rs
  BY <1>3, MapIsSeq
<1>5. \A k \in DOMAIN rs : Collect(rs, t)[k] =
        IF k \in Collectable(rs, t) THEN Freed(rs[k]) ELSE rs[k]
  BY DEF Collect
<1>6. InUse(Collect(rs, t)) = InUse(rs) \ Collectable(rs, t)
  BY <1>2, <1>4, <1>5 DEF InUse, Collectable
<1> QED
  BY <1>4, <1>5, <1>6 DEF InUse

(* p is the pool rs after r was placed at n: the other records in use were *)
(* in use before, and GetNewRecord left them alone.                        *)
PlacedAt(rs, t, r, p, n) ==
  /\ n \in DOMAIN p
  /\ p[n] = r
  /\ n \notin InUse(Evict(rs, t))
  /\ InUse(p) = InUse(Evict(rs, t)) \cup {n}
  /\ \A k \in InUse(Evict(rs, t)) :
       /\ k \in InUse(rs)
       /\ p[k] = rs[k]
       /\ Evict(rs, t)[k] = rs[k]

(* What GetNewRecord leaves in the pool: one record more in use, all the   *)
(* others as they were or gone.                                            *)
LEMMA PlaceRecordEffect ==
  ASSUME NEW rs \in Seq(RecordType), NEW t, NEW r \in RecordType, r.sentTo
  PROVE  /\ PlaceRecord(rs, t, r) \in Seq(RecordType)
         /\ \E n : PlacedAt(rs, t, r, PlaceRecord(rs, t, r), n)
<1> DEFINE c == Collect(rs, t)
           T == Target(c, t)
           p == PlaceRecord(rs, t, r)
           e == Evict(rs, t)
<1>1. /\ c \in Seq(RecordType) /\ Len(c) = Len(rs) /\ DOMAIN c = DOMAIN rs
      /\ InUse(c) \subseteq InUse(rs)
      /\ \A k \in InUse(c) : c[k] = rs[k]
  BY CollectType
<1>3. e = [k \in DOMAIN c |-> IF k \in T THEN Freed(c[k]) ELSE c[k]]
  BY DEF Evict
<1>4. \A k \in DOMAIN c : ~Freed(c[k]).sentTo
  BY <1>1, FreedType
<1>5. T \subseteq DOMAIN c
  BY DEF Target, InUse
<1>6. \A j, k \in T : j = k
  <2>1. \A j, k \in DOMAIN c : j \in Nat /\ k \in Nat /\ c[j].time \in Nat /\ c[k].time \in Nat
    <3>1. \A k \in DOMAIN c : k \in Nat /\ c[k] \in RecordType
      BY <1>1
    <3>2. \A x \in RecordType : x.time \in Nat
      BY ServerConstants DEF RecordType
    <3> QED BY <3>1, <3>2
  <2> QED BY <1>5, <2>1 DEF Target, InUse
<1>7. CASE T = {}
  <2>1. p = Append(c, r)
    BY <1>7 DEF PlaceRecord
  <2>2. p \in Seq(RecordType) /\ DOMAIN p = DOMAIN c \cup {Len(c) + 1}
        /\ p[Len(c) + 1] = r /\ (\A k \in DOMAIN c : p[k] = c[k]) /\ Len(c) + 1 \notin DOMAIN c
    BY <1>1, <2>1
  <2>3. \A k \in DOMAIN c : e[k] = c[k]
    BY <1>3, <1>7
  <2>4. DOMAIN e = DOMAIN c
    BY <1>3
  <2>5. InUse(e) = InUse(c) /\ Len(c) + 1 \notin InUse(e)
    BY <2>2, <2>3, <2>4 DEF InUse
  <2>6. InUse(p) = InUse(e) \cup {Len(c) + 1}
    BY <2>2, <2>5 DEF InUse
  <2>7. \A k \in InUse(e) : k \in InUse(rs) /\ p[k] = rs[k] /\ e[k] = rs[k]
    BY <1>1, <2>2, <2>3, <2>5 DEF InUse
  <2>9. PlacedAt(rs, t, r, p, Len(c) + 1)
    BY <2>2, <2>5, <2>6, <2>7 DEF PlacedAt
  <2> QED BY <2>2, <2>9
<1>8. CASE T # {}
  <2>1. PICK n \in T : T = {n}
    BY <1>6, <1>8
  <2>2. p = [k \in DOMAIN c |-> IF k \in T THEN r ELSE c[k]]
    BY <1>8 DEF PlaceRecord
  <2>3. p \in [DOMAIN c -> RecordType]
    BY <1>1, <2>2
  <2>4. p \in Seq(RecordType) /\ DOMAIN p = DOMAIN c
    BY <1>1, <2>3, MapIsSeq
  <2>5. n \in DOMAIN p /\ p[n] = r /\ n \notin InUse(e)
    BY <1>3, <1>4, <1>5, <2>1, <2>2 DEF InUse
  <2>6. InUse(p) = InUse(e) \cup {n}
    BY <1>3, <2>1, <2>2, <2>5 DEF InUse
  <2>7. \A k \in InUse(e) : k \in InUse(rs) /\ p[k] = rs[k] /\ e[k] = rs[k]
    BY <1>1, <1>3, <2>1, <2>2, <2>5 DEF InUse
  <2>9. PlacedAt(rs, t, r, p, n)
    BY <2>5, <2>6, <2>7 DEF PlacedAt
  <2> QED BY <2>4, <2>9
<1> QED BY <1>7, <1>8

(* A non-empty set of indices has a last one, so First finds it.           *)
LEMMA FirstNonEmpty ==
  ASSUME NEW n \in Nat, NEW M \in SUBSET (1 .. n), First(M) = {}
  PROVE  M = {}
<1> SUFFICES ASSUME M # {} PROVE FALSE
  OBVIOUS
<1> DEFINE N == {d \in 0 .. n : n - d \in M}
<1>1. PICK k \in M : TRUE
  OBVIOUS
<1>2. k \in 1 .. n /\ n - k \in 0 .. n /\ n - (n - k) = k
  OBVIOUS
<1>3. n - k \in N
  BY <1>2
<1>4. PICK m \in N : \A x \in N : m <= x
  <2>1. N \in SUBSET Nat
    OBVIOUS
  <2> HIDE DEF N
  <2> QED BY <1>3, <2>1, LeastNat
<1>5. n - m \in M
  BY <1>4
<1>6. \A j \in M : j <= n - m
  <2> SUFFICES ASSUME NEW j \in M PROVE j <= n - m
    OBVIOUS
  <2>1. j \in 1 .. n /\ n - j \in 0 .. n /\ n - (n - j) = j
    OBVIOUS
  <2>2. n - j \in N
    BY <2>1
  <2> QED BY <1>4, <2>1, <2>2
<1> QED BY <1>5, <1>6 DEF First

-----------------------------------------------------------------------------
(* The inductive invariant.                                                *)
IInv ==
  /\ TypeOK
  /\ DistinctNewIds
  /\ OneRecordPerQuestion
  /\ SourcesWaiting

(* The pool of a step that opens no record: every record in use was in use *)
(* before, under the same id and question.                                 *)
Shrinks ==
  /\ InUse(records') \subseteq InUse(records)
  /\ \A k \in InUse(records') :
       records'[k].newId = records[k].newId /\ records'[k].hash = records[k].hash

LEMMA ShrinksKeepsUnique ==
  ASSUME DistinctNewIds, OneRecordPerQuestion, Shrinks
  PROVE  DistinctNewIds' /\ OneRecordPerQuestion'
  BY DEF DistinctNewIds, OneRecordPerQuestion, Shrinks

LEMMA QueryType ==
  ASSUME NEW q \in Queries
  PROVE  /\ q.endpoint \in Endpoints /\ q.id \in Ids /\ q.question \in Questions
         /\ q = [endpoint |-> q.endpoint, id |-> q.id, question |-> q.question]
         /\ Source(q) \in SourceType
         /\ Packet(q) \in PacketType
  BY ServerConstants DEF Endpoints, Questions, Source, SourceType, Packet, PacketType

LEMMA DatagramsSent ==
  ASSUME servers \subseteq Servers
  PROVE  /\ \A q \in Queries : Refusal(q) \in DatagramType
         /\ \A q \in Queries :
              sendPacket(updateRedirectResponse(Packet(q)), q.endpoint) \in DatagramType
         /\ \A p \in PacketType : Forwards(p) \subseteq DatagramType
         /\ \A p \in PacketType : \A i \in Ids : SetId(p, i) \in PacketType
         /\ \A i \in Ids, h \in Questions : UpstreamPacket(i, h) \in PacketType
         /\ \A p \in PacketType, r \in RecordType : Answers(r, p) \subseteq DatagramType
<1>1. \A q \in Queries : Refusal(q) \in DatagramType
  BY QueryType DEF Refusal, sendPacket, SetResponseCode, DatagramType, PacketType
<1>2. \A q \in Queries :
        sendPacket(updateRedirectResponse(Packet(q)), q.endpoint) \in DatagramType
  BY QueryType DEF updateRedirectResponse, sendPacket, DatagramType, PacketType
<1>3. \A p \in PacketType : Forwards(p) \subseteq DatagramType
  BY DEF Forwards, sendPacket, DatagramType
<1>4. \A p \in PacketType : \A i \in Ids : SetId(p, i) \in PacketType
  BY DEF SetId, PacketType
<1>5. \A i \in Ids, h \in Questions : UpstreamPacket(i, h) \in PacketType
  BY DEF UpstreamPacket, PacketType
<1>6. \A p \in PacketType, r \in RecordType : Answers(r, p) \subseteq DatagramType
  <2> SUFFICES ASSUME NEW p \in PacketType, NEW r \in RecordType, NEW s \in SourcesOf(r)
               PROVE  sendPacket(SetId(p, s.originalId), s.endpoint) \in DatagramType
    BY DEF Answers
  <2>1. s.endpoint \in Endpoints /\ s.originalId \in Ids
    BY DEF SourcesOf, RecordType, SourceType
  <2> QED BY <1>4, <2>1 DEF sendPacket, DatagramType
<1> QED BY <1>1, <1>2, <1>3, <1>4, <1>5, <1>6

(* A step that leaves the pool and the servers alone and at most adds to   *)
(* the history.                                                            *)
LEMMA QuietStep ==
  ASSUME IInv, out' \subseteq DatagramType, now' \in Clock, up' \in BOOLEAN,
         undefined' \in BOOLEAN, UNCHANGED <<records, servers>>,
         waiting \subseteq waiting', waiting' \subseteq Queries
  PROVE  IInv'
<1>1. \A k \in InUse(records) : QueriesOf(records[k]) \subseteq waiting'
  BY DEF IInv, SourcesWaiting
<1> QED
  BY <1>1 DEF IInv, TypeOK, DistinctNewIds, OneRecordPerQuestion, SourcesWaiting,
         InUse, QueriesOf, SourcesOf

LEMMA JoinStep ==
  ASSUME IInv, NEW q \in Queries, ResolveJoin(q)
  PROVE  IInv'
<1>1. /\ undefined' = TRUE /\ out' = {} /\ waiting' = waiting \cup {q}
      /\ UNCHANGED <<records, servers, up, now>>
  BY DEF ResolveJoin
<1>2. waiting \subseteq waiting' /\ waiting' \subseteq Queries /\ undefined' \in BOOLEAN
  BY <1>1 DEF IInv, TypeOK
<1>3. now' \in Clock /\ up' \in BOOLEAN /\ out' \subseteq DatagramType
  BY <1>1 DEF IInv, TypeOK
<1> QED BY <1>1, <1>2, <1>3, QuietStep

(* The answered query: its record is freed.                                *)
LEMMA ReleaseStep ==
  ASSUME IInv, NEW k \in InUse(records),
         records' = [records EXCEPT ![k] = Freed(records[k])],
         waiting' \subseteq Queries,
         \A j \in InUse(records) : j # k => QueriesOf(records[j]) \subseteq waiting',
         out' \subseteq DatagramType,
         UNCHANGED <<undefined, servers, up, now>>
  PROVE  IInv'
<1>1. records \in Seq(RecordType) /\ k \in DOMAIN records /\ records[k] \in RecordType
  BY DEF IInv, TypeOK, InUse
<1>2. Freed(records[k]) \in RecordType /\ ~Freed(records[k]).sentTo
  BY <1>1, FreedType
<1>3. records' \in Seq(RecordType) /\ DOMAIN records' = DOMAIN records
  BY <1>1, <1>2
<1>4. \A j \in InUse(records') : j \in InUse(records) /\ j # k /\ records'[j] = records[j]
  BY <1>1, <1>2, <1>3 DEF InUse
<1>5. Shrinks
  BY <1>4 DEF Shrinks
<1>6. TypeOK'
  BY <1>3 DEF IInv, TypeOK
<1>7. SourcesWaiting'
  <2>1. \A j \in InUse(records') : QueriesOf(records'[j]) \subseteq waiting'
    BY <1>4
  <2> QED BY <2>1 DEF SourcesWaiting, QueriesOf, SourcesOf, InUse
<1> QED BY <1>5, <1>6, <1>7, ShrinksKeepsUnique DEF IInv

(* A record that is freed and taken again is the record it was.            *)
LEMMA TakenAgain ==
  ASSUME IInv, NEW q \in Queries, ResolveTimedOut(q)
  PROVE  records' = records
<1>1. PICK k \in LookupByQuery(records, q.question) :
        records' = [records EXCEPT ![k] = [Freed(records[k]) EXCEPT !.sentTo = TRUE]]
  BY DEF ResolveTimedOut
<1>2. k \in DOMAIN records /\ records[k] \in RecordType /\ records[k].sentTo
      /\ records \in Seq(RecordType)
  BY DEF LookupByQuery, First, InUse, IInv, TypeOK
<1>3. [Freed(records[k]) EXCEPT !.sentTo = TRUE] = records[k]
  <2>1. records[k].sentTo = TRUE
    BY <1>2 DEF RecordType
  <2> QED BY <1>2, <2>1 DEF Freed, RecordType
<1> QED BY <1>1, <1>2, <1>3

LEMMA TimedOutStep ==
  ASSUME IInv, NEW q \in Queries, ResolveTimedOut(q)
  PROVE  IInv'
<1>1. records' = records
  BY TakenAgain
<1>2. waiting' = waiting \cup {q} /\ UNCHANGED <<undefined, servers, up, now>>
  BY DEF ResolveTimedOut
<1>3. out' \subseteq DatagramType
  BY DatagramsSent, QueryType DEF ResolveTimedOut, IInv, TypeOK
<1>4. waiting \subseteq waiting' /\ waiting' \subseteq Queries
  BY <1>2 DEF IInv, TypeOK
<1>5. now' \in Clock /\ up' \in BOOLEAN /\ undefined' \in BOOLEAN
  BY <1>2 DEF IInv, TypeOK
<1> QED BY <1>1, <1>2, <1>3, <1>4, <1>5, QuietStep

LEMMA ResponseStep ==
  ASSUME IInv, NEW from, NEW i \in Ids, NEW h \in Questions, UpstreamResponse(from, i, h)
  PROVE  IInv'
<1>1. PICK k \in Lookup(records, i, h) :
        /\ out' = Answers(records[k], UpstreamPacket(i, h))
        /\ records' = [records EXCEPT ![k] = Freed(records[k])]
        /\ waiting' = waiting \ QueriesOf(records[k])
  BY DEF UpstreamResponse
<1>2. k \in InUse(records) /\ records[k] \in RecordType
  BY DEF Lookup, First, InUse, IInv, TypeOK
<1>4. UNCHANGED <<undefined, servers, up, now>>
  BY DEF UpstreamResponse
<1>5. out' \subseteq DatagramType
  BY <1>1, <1>2, DatagramsSent DEF IInv, TypeOK
<1>6. \A j \in InUse(records) : j # k => QueriesOf(records[j]) \subseteq waiting'
  <2> SUFFICES ASSUME NEW j \in InUse(records), j # k, NEW x \in QueriesOf(records[j])
               PROVE  x \in waiting /\ x \notin QueriesOf(records[k])
    BY <1>1
  <2>1. x \in waiting
    BY DEF IInv, SourcesWaiting
  <2>2. records[j].hash # records[k].hash
    BY <1>2 DEF IInv, OneRecordPerQuestion
  <2>3. x.question = records[j].hash
    BY DEF QueriesOf
  <2>4. \A y \in QueriesOf(records[k]) : y.question = records[k].hash
    BY DEF QueriesOf
  <2> QED BY <2>1, <2>2, <2>3, <2>4
<1>7. waiting' \subseteq Queries
  BY <1>1 DEF IInv, TypeOK
<1> QED BY <1>1, <1>2, <1>4, <1>5, <1>6, <1>7, ReleaseStep

LEMMA NewStep ==
  ASSUME IInv, NEW q \in Queries, ResolveNew(q)
  PROVE  IInv'
<1>1. PICK i \in NewIds(Evict(records, now)) :
        /\ records' = PlaceRecord(records, now, NewRecord(q, i))
        /\ out' = Forwards(SetId(Packet(q), i))
  BY DEF ResolveNew
<1> DEFINE r == NewRecord(q, i)
<1>2. records \in Seq(RecordType) /\ now \in Clock
  BY DEF IInv, TypeOK
<1>3. i \in Ids
  BY PoolConstants DEF NewIds, Ids
<1>4. /\ r \in RecordType /\ r.sentTo /\ r.newId = i /\ r.hash = q.question
      /\ r.source = Source(q)
  BY <1>2, <1>3, QueryType DEF NewRecord, RecordType
<1> HIDE DEF r
<1>5. records' = PlaceRecord(records, now, r)
  BY <1>1 DEF r
<1>6. records' \in Seq(RecordType)
  BY <1>2, <1>4, <1>5, PlaceRecordEffect
<1>7. PICK n : PlacedAt(records, now, r, records', n)
  BY <1>2, <1>4, <1>5, PlaceRecordEffect
<1>8. TypeOK'
  <2>4. out' \subseteq DatagramType
    BY <1>1, <1>3, DatagramsSent, QueryType DEF IInv, TypeOK
  <2> QED BY <1>6, <2>4 DEF ResolveNew, IInv, TypeOK
<1>9. DistinctNewIds'
  <2>1. \A k \in InUse(records') \ {n} : records[k].newId # i
    BY <1>7 DEF NewIds, PlacedAt
  <2> QED BY <1>4, <1>7, <2>1 DEF IInv, DistinctNewIds, InUse, PlacedAt
<1>10. OneRecordPerQuestion'
  <2>1. \A k \in InUse(records) : records[k].hash # q.question
    <3>1. {k \in InUse(records) : records[k].hash = q.question} = {}
      <4> DEFINE M == {k \in InUse(records) : records[k].hash = q.question}
      <4>1. First(M) = {}
        BY DEF ResolveNew, LookupByQuery
      <4>2. M \subseteq 1 .. Len(records)
        BY <1>2 DEF InUse
      <4> HIDE DEF M
      <4>3. M = {}
        <5>1. Len(records) \in Nat
          BY <1>2
        <5> QED BY <4>1, <4>2, <5>1, FirstNonEmpty
      <4> QED BY <4>3 DEF M
    <3> QED BY <3>1
  <2> QED BY <1>4, <1>7, <2>1 DEF IInv, OneRecordPerQuestion, InUse, PlacedAt
<1>11. SourcesWaiting'
  <2>1. waiting' = waiting \cup {q}
    BY DEF ResolveNew
  <2>2. QueriesOf(r) = {q}
    <3>1. SourcesOf(r) = {Source(q)}
      BY <1>4 DEF SourcesOf
    <3>2. q = [endpoint |-> q.endpoint, id |-> q.id, question |-> q.question]
      BY QueryType
    <3> QED BY <1>4, <3>1, <3>2 DEF QueriesOf, Source
  <2>3. \A k \in InUse(records') : QueriesOf(records'[k]) \subseteq waiting'
    BY <1>7, <2>1, <2>2 DEF IInv, SourcesWaiting, PlacedAt
  <2> QED BY <2>3 DEF SourcesWaiting, QueriesOf, SourcesOf, InUse
<1> QED BY <1>8, <1>9, <1>10, <1>11 DEF IInv

LEMMA RefusedStep ==
  ASSUME IInv, NEW q \in Queries, ResolveRefused(q)
  PROVE  IInv'
<1>1. records' = Collect(records, now) /\ records \in Seq(RecordType)
  BY DEF ResolveRefused, IInv, TypeOK
<1>2. /\ records' \in Seq(RecordType) /\ DOMAIN records' = DOMAIN records
      /\ InUse(records') \subseteq InUse(records)
      /\ \A k \in InUse(records') : records'[k] = records[k]
  BY <1>1, CollectType
<1>3. Shrinks
  BY <1>2 DEF Shrinks
<1>4. TypeOK'
  <2>4. out' \subseteq DatagramType
    BY DatagramsSent DEF ResolveRefused, IInv, TypeOK
  <2> QED BY <1>2, <2>4 DEF ResolveRefused, IInv, TypeOK
<1>5. SourcesWaiting'
  <2>1. \A k \in InUse(records') : QueriesOf(records'[k]) \subseteq waiting'
    BY <1>2 DEF ResolveRefused, IInv, SourcesWaiting
  <2> QED BY <2>1 DEF SourcesWaiting, QueriesOf, SourcesOf, InUse
<1> QED BY <1>3, <1>4, <1>5, ShrinksKeepsUnique DEF IInv

LEMMA ConfiguredServers ==
  \A c \in Configs : initUpstreamServers(c) \subseteq Servers
  BY ServerConstants DEF initUpstreamServers

LEMMA EmptyPool ==
  /\ <<>> \in Seq(RecordType)
  /\ InUse(<<>>) = {}
  BY DEF InUse

LEMMA StartStep ==
  ASSUME IInv, Start
  PROVE  IInv'
<1>1. records' = <<>> /\ InUse(records') = {}
  BY EmptyPool DEF Start
<1>2. TypeOK'
  <2>1. servers' \subseteq Servers
    BY ConfiguredServers DEF Start
  <2> QED BY <1>1, <2>1, EmptyPool, PoolConstants DEF Start, IInv, TypeOK
<1>3. DistinctNewIds' /\ OneRecordPerQuestion' /\ SourcesWaiting'
  BY <1>1 DEF DistinctNewIds, OneRecordPerQuestion, SourcesWaiting
<1> QED BY <1>2, <1>3 DEF IInv

LEMMA InitIInv == Init => IInv
<1> SUFFICES ASSUME Init PROVE IInv
  OBVIOUS
<1>1. records = <<>> /\ InUse(records) = {}
  BY EmptyPool DEF Init
<1>2. TypeOK
  <2>1. servers \subseteq Servers
    BY ConfiguredServers DEF Init
  <2> QED BY <1>1, <2>1, EmptyPool, PoolConstants DEF Init, TypeOK
<1>3. DistinctNewIds /\ OneRecordPerQuestion /\ SourcesWaiting
  BY <1>1 DEF DistinctNewIds, OneRecordPerQuestion, SourcesWaiting
<1> QED BY <1>2, <1>3 DEF IInv

LEMMA UndefinedSends ==
  ASSUME Undefined
  PROVE  out' \subseteq DatagramType
<1>1. \A q \in Queries : UpstreamPacket(q.id, q.question) \in PacketType /\ q.endpoint \in Endpoints
  BY QueryType DEF UpstreamPacket, PacketType
<1>2. \A q \in Queries :
        sendPacket(UpstreamPacket(q.id, q.question), q.endpoint) \in DatagramType
  BY <1>1 DEF sendPacket, DatagramType
<1> QED BY <1>2 DEF Undefined

LEMMA NextIInv == IInv /\ [Next]_vars => IInv'
<1> SUFFICES ASSUME IInv, [Next]_vars PROVE IInv'
  OBVIOUS
<1>1. ASSUME DropDatagram PROVE IInv'
  BY <1>1, QuietStep DEF DropDatagram, poolVars, IInv, TypeOK
<1>2. ASSUME NEW q \in Queries, Redirect(q) PROVE IInv'
  BY <1>2, QuietStep, DatagramsSent DEF Redirect, poolVars, IInv, TypeOK
<1>3. ASSUME NEW q \in Queries, resolve(q) PROVE IInv'
  <2>1. CASE ResolveNoServers
    BY <2>1, QuietStep DEF ResolveNoServers, poolVars, IInv, TypeOK
  <2>2. CASE ResolveRepeat(q)
    <3>1. out' \subseteq DatagramType
      BY <2>2, DatagramsSent DEF ResolveRepeat, IInv, TypeOK
    <3> QED BY <2>2, <3>1, QuietStep DEF ResolveRepeat, poolVars, IInv, TypeOK
  <2>3. CASE ResolveJoin(q)
    BY <2>3, JoinStep
  <2>5. CASE ResolveTimedOut(q)
    BY <2>5, TimedOutStep
  <2>6. CASE ResolveNew(q)
    BY <2>6, NewStep
  <2>7. CASE ResolveRefused(q)
    BY <2>7, RefusedStep
  <2> QED BY <1>3, <2>1, <2>2, <2>3, <2>5, <2>6, <2>7 DEF resolve
<1>4. ASSUME NEW from \in Servers, NEW i \in Ids, NEW h \in Questions,
             processUpstreamResponse(from, i, h)
      PROVE IInv'
  <2>1. CASE UpstreamResponse(from, i, h)
    BY <2>1, ResponseStep
  <2>2. CASE UpstreamNoSource(from, i, h)
    BY <2>2, QuietStep DEF UpstreamNoSource, poolVars, IInv, TypeOK
  <2> QED BY <1>4, <2>1, <2>2 DEF processUpstreamResponse
<1>5. ASSUME Tick PROVE IInv'
  BY <1>5, QuietStep DEF Tick, poolVars, IInv, TypeOK
<1>6. ASSUME Stop PROVE IInv'
  BY <1>6, QuietStep DEF Stop, poolVars, IInv, TypeOK
<1>7. ASSUME Start PROVE IInv'
  BY <1>7, StartStep
<1>8. ASSUME UNCHANGED vars PROVE IInv'
  BY <1>8, QuietStep DEF vars, poolVars, IInv, TypeOK
<1>9. ASSUME Undefined PROVE IInv'
  <2>1. out' \subseteq DatagramType
    BY <1>9, UndefinedSends
  <2> QED BY <1>9, <2>1, QuietStep DEF Undefined, poolVars, IInv, TypeOK
<1> QED BY <1>1, <1>2, <1>3, <1>4, <1>5, <1>6, <1>7, <1>8, <1>9 DEF Next

(* The state keeps its shape, records and datagrams, for every             *)
(* sequence of datagrams, clock settings and restarts.                     *)
THEOREM TypeCorrect == Spec => []TypeOK
<1>1. IInv => TypeOK
  BY DEF IInv
<1> QED BY <1>1, InitIInv, NextIInv, PTL DEF Spec

(* No two outstanding queries share a forwarded id (GetNewId).             *)
THEOREM DistinctNewIdsHolds == Spec => []DistinctNewIds
<1>1. IInv => DistinctNewIds
  BY DEF IInv
<1> QED BY <1>1, InitIInv, NextIInv, PTL DEF Spec

(* No question is outstanding in two records (LookupByQuery, GetNewRecord).*)
THEOREM OneRecordPerQuestionHolds == Spec => []OneRecordPerQuestion
<1>1. IInv => OneRecordPerQuestion
  BY DEF IInv
<1> QED BY <1>1, InitIInv, NextIInv, PTL DEF Spec

(* Whoever a record would answer is waiting for it.                        *)
THEOREM SourcesWaitingHolds == Spec => []SourcesWaiting
<1>1. IInv => SourcesWaiting
  BY DEF IInv
<1> QED BY <1>1, InitIInv, NextIInv, PTL DEF Spec

-----------------------------------------------------------------------------
(* The limits of the pool.                                                 *)

LEMMA RecordTimes ==
  ASSUME NEW rs \in Seq(RecordType), NEW k \in DOMAIN rs
  PROVE  rs[k] \in RecordType /\ rs[k].time \in Nat /\ k \in Nat
<1>1. \A x \in RecordType : x.time \in Nat
  BY ServerConstants DEF RecordType
<1>2. rs[k] \in RecordType /\ k \in Nat
  OBVIOUS
<1> QED BY <1>1, <1>2

(* GetNewRecord allocates only when every record is in use and younger     *)
(* than TIMEOUT: otherwise there is a free one, or the oldest is reused.   *)
LEMMA AllocatesOnlyWhenAllYoung ==
  ASSUME NEW c \in Seq(RecordType), NEW t \in Nat, Target(c, t) = {}
  PROVE  Young(c, t) = 1 .. Len(c) /\ InUse(c) = 1 .. Len(c)
<1> DEFINE U == InUse(c)
<1>1. DOMAIN c = 1 .. Len(c) /\ Len(c) \in Nat /\ U \subseteq DOMAIN c
  BY DEF InUse
<1>2. \A k \in DOMAIN c : c[k].time \in Nat /\ k \in Nat
  BY RecordTimes
<1>3. DOMAIN c \ U = {}
  <2> SUFFICES ASSUME DOMAIN c \ U # {} PROVE FALSE
    OBVIOUS
  <2>1. DOMAIN c \ U \in SUBSET Nat
    BY <1>1, <1>2
  <2> DEFINE D == DOMAIN c \ U
  <2> HIDE DEF D
  <2>2. PICK m \in D : \A j \in D : m <= j
    BY <2>1, LeastNat DEF D
  <2>3. m \in Target(c, t)
    BY <2>2 DEF Target, D
  <2> QED BY <2>3
<1>4. U = 1 .. Len(c)
  BY <1>1, <1>3
<1>5. \A j \in U : Age(c[j], t) < TIMEOUT
  <2> SUFFICES ASSUME NEW j \in U, ~(Age(c[j], t) < TIMEOUT) PROVE FALSE
    OBVIOUS
  <2> DEFINE Times == {c[x].time : x \in U}
  <2>1. Times \in SUBSET Nat /\ c[j].time \in Times
    BY <1>1, <1>2
  <2> HIDE DEF Times
  <2>2. PICK least \in Times : \A x \in Times : least <= x
    BY <2>1, LeastNat
  <2> DEFINE Eldest == {x \in U : c[x].time = least}
  <2>3. Eldest \in SUBSET Nat /\ Eldest # {}
    BY <1>1, <1>2, <2>2 DEF Times
  <2> HIDE DEF Eldest
  <2>4. PICK m \in Eldest : \A x \in Eldest : m <= x
    BY <2>3, LeastNat
  <2>5. m \in U /\ c[m].time = least
    BY <2>4 DEF Eldest
  <2>6. \A x \in U : c[m].time < c[x].time \/ (c[m].time = c[x].time /\ m <= x)
    <3> SUFFICES ASSUME NEW x \in U
                 PROVE  c[m].time < c[x].time \/ (c[m].time = c[x].time /\ m <= x)
      OBVIOUS
    <3>1. least <= c[x].time
      BY <2>2 DEF Times
    <3>2. c[x].time = least => m <= x
      BY <2>4 DEF Eldest
    <3>3. c[x].time \in Nat /\ least \in Nat
      BY <1>1, <1>2, <2>1, <2>2
    <3> QED BY <2>5, <3>1, <3>2, <3>3
  <2>7. Age(c[m], t) >= TIMEOUT
    <3>1. c[m].time <= c[j].time
      BY <2>2, <2>5 DEF Times
    <3>2. c[m].time \in Nat /\ c[j].time \in Nat
      BY <1>1, <1>2, <2>5
    <3> QED BY <3>1, <3>2, PoolConstants DEF Age
  <2>8. m \in Target(c, t)
    BY <1>3, <2>5, <2>6, <2>7 DEF Target
  <2> QED BY <2>8
<1> QED BY <1>4, <1>5 DEF Young

LEMMA RoomForOneMore ==
  ASSUME NEW rs \in Seq(RecordType), NEW t \in Nat, ~MaxedOut(rs, t),
         Target(Collect(rs, t), t) = {}
  PROVE  Len(rs) < MAX_FWD_QUERIES
<1>1. Collect(rs, t) \in Seq(RecordType) /\ Len(Collect(rs, t)) = Len(rs) /\ Len(rs) \in Nat
  BY CollectType
<1>2. Young(Collect(rs, t), t) = 1 .. Len(rs)
  BY <1>1, AllocatesOnlyWhenAllYoung
<1>3. Cardinality(1 .. Len(rs)) = Len(rs)
  <2>1. 1 \in Int /\ Len(rs) \in Int
    BY <1>1
  <2>2. Cardinality(1 .. Len(rs)) = IF 1 > Len(rs) THEN 0 ELSE Len(rs) - 1 + 1
    BY <2>1, FS_Interval
  <2> QED BY <1>1, <2>2
<1> QED BY <1>1, <1>2, <1>3, PoolConstants DEF MaxedOut

LEMMA PlaceRecordLen ==
  ASSUME NEW rs \in Seq(RecordType), NEW t \in Nat, NEW r \in RecordType,
         ~MaxedOut(rs, t), Len(rs) <= MAX_FWD_QUERIES
  PROVE  Len(PlaceRecord(rs, t, r)) <= MAX_FWD_QUERIES
<1> DEFINE c == Collect(rs, t)
<1>1. c \in Seq(RecordType) /\ Len(c) = Len(rs)
  BY CollectType
<1>2. CASE Target(c, t) = {}
  <2>1. Len(rs) < MAX_FWD_QUERIES
    BY <1>2, RoomForOneMore
  <2> QED BY <1>1, <1>2, <2>1, PoolConstants DEF PlaceRecord
<1>3. CASE Target(c, t) # {}
  <2>1. PlaceRecord(rs, t, r) = [k \in DOMAIN c |-> IF k \in Target(c, t) THEN r ELSE c[k]]
    BY <1>3 DEF PlaceRecord
  <2>2. PlaceRecord(rs, t, r) \in [DOMAIN c -> RecordType]
    BY <1>1, <2>1
  <2> QED BY <1>1, <2>2, MapIsSeq
<1> QED BY <1>2, <1>3

LEMMA NextPoolBounded ==
  ASSUME IInv, PoolBounded, [Next]_vars
  PROVE  PoolBounded'
<1>1. /\ records \in Seq(RecordType) /\ now \in Nat
      /\ Len(records) \in Nat
  BY ServerConstants DEF IInv, TypeOK
<1>2. ASSUME NEW q \in Queries, ResolveNew(q) PROVE PoolBounded'
  <2>1. PICK i \in NewIds(Evict(records, now)) :
          records' = PlaceRecord(records, now, NewRecord(q, i))
    BY <1>2 DEF ResolveNew
  <2>2. i \in Ids
    BY PoolConstants DEF NewIds, Ids
  <2>3. NewRecord(q, i) \in RecordType
    BY <2>2, QueryType DEF NewRecord, RecordType, IInv, TypeOK
  <2> QED BY <1>1, <1>2, <2>1, <2>3, PlaceRecordLen DEF ResolveNew, PoolBounded
<1>3. ASSUME NEW q \in Queries, ResolveRefused(q) PROVE PoolBounded'
  BY <1>1, <1>3, CollectType DEF ResolveRefused, PoolBounded
<1>4. ASSUME Start PROVE PoolBounded'
  BY <1>4, PoolConstants DEF Start, PoolBounded
<1>5. ASSUME NEW k, NEW r, records' = [records EXCEPT ![k] = r] PROVE PoolBounded'
  BY <1>1, <1>5 DEF PoolBounded
<1>7. ASSUME NEW q \in Queries, ResolveTimedOut(q) PROVE PoolBounded'
  BY <1>5, <1>7 DEF ResolveTimedOut
<1>8. ASSUME NEW from, NEW i, NEW h, UpstreamResponse(from, i, h) PROVE PoolBounded'
  BY <1>5, <1>8 DEF UpstreamResponse
<1>9. ASSUME records' = records PROVE PoolBounded'
  BY <1>9 DEF PoolBounded
<1> QED
  BY <1>2, <1>3, <1>4, <1>7, <1>8, <1>9
  DEF Next, resolve, processUpstreamResponse, vars, poolVars, DropDatagram, Redirect,
      ResolveNoServers, ResolveRepeat, ResolveJoin, UpstreamNoSource, Undefined, Tick, Stop

(* The pool never holds more than MAX_FWD_QUERIES records, whatever the    *)
(* clock does (GetNewRecord).                                              *)
THEOREM PoolBoundedHolds == Spec => []PoolBounded
<1>1. Init => PoolBounded
  BY PoolConstants DEF Init, PoolBounded
<1> QED BY <1>1, InitIInv, NextIInv, NextPoolBounded, PTL DEF Spec

(* With room for a query there is an id for it.                            *)
LEMMA IdsAreLeft ==
  ASSUME NEW rs \in Seq(RecordType), NEW t \in Nat, Len(rs) <= MAX_FWD_QUERIES,
         ~MaxedOut(rs, t)
  PROVE  NewIds(Evict(rs, t)) # {}
<1> DEFINE c == Collect(rs, t)
           T == Target(c, t)
           e == Evict(rs, t)
           U == InUse(e)
<1>1. c \in Seq(RecordType) /\ Len(c) = Len(rs) /\ DOMAIN c = 1 .. Len(rs) /\ Len(rs) \in Nat
  BY CollectType
<1>2. e = [k \in DOMAIN c |-> IF k \in T THEN Freed(c[k]) ELSE c[k]] /\ T \subseteq DOMAIN c
  BY DEF Evict, Target, InUse
<1>3. U \subseteq 1 .. Len(rs) /\ U \cap T = {}
  BY <1>1, <1>2, FreedType DEF InUse
<1>4. IsFiniteSet(1 .. Len(rs)) /\ Cardinality(1 .. Len(rs)) = Len(rs)
  <2>1. 1 \in Int /\ Len(rs) \in Int
    BY <1>1
  <2>2. /\ IsFiniteSet(1 .. Len(rs))
        /\ Cardinality(1 .. Len(rs)) = IF 1 > Len(rs) THEN 0 ELSE Len(rs) - 1 + 1
    BY <2>1, FS_Interval
  <2> QED BY <1>1, <2>2
<1> HIDE DEF U, T, c
<1>5. IsFiniteSet(U) /\ Cardinality(U) < ID_MAX /\ Cardinality(U) \in Nat
  <2>1. IsFiniteSet(U) /\ Cardinality(U) <= Len(rs) /\ (Cardinality(U) = Len(rs) => U = 1 .. Len(rs))
    BY <1>3, <1>4, FS_Subset
  <2>2. Cardinality(U) \in Nat
    BY <2>1, FS_CardinalityType
  <2>3. CASE T = {}
    <3>1. Len(rs) < MAX_FWD_QUERIES
      BY <2>3, RoomForOneMore DEF T, c
    <3> QED BY <1>1, <2>1, <2>2, <3>1, PoolConstants
  <2>4. CASE T # {}
    <3>1. U # 1 .. Len(rs)
      BY <1>1, <1>2, <1>3, <2>4
    <3> QED BY <1>1, <2>1, <2>2, <3>1, PoolConstants
  <2> QED BY <2>1, <2>2, <2>3, <2>4
<1>6. SUFFICES ASSUME NewIds(e) = {} PROVE FALSE
  OBVIOUS
<1>7. \A i \in 1 .. ID_MAX : \E k \in U : e[k].newId = i
  BY <1>6 DEF NewIds, U
<1> DEFINE g == [i \in 1 .. ID_MAX |-> CHOOSE k \in U : e[k].newId = i]
<1>8. g \in [1 .. ID_MAX -> U] /\ \A i \in 1 .. ID_MAX : e[g[i]].newId = i
  BY <1>7
<1>9. IsFiniteSet(1 .. ID_MAX) /\ Cardinality(1 .. ID_MAX) = ID_MAX
  <2>1. 1 \in Int /\ ID_MAX \in Int /\ ID_MAX \in Nat
    BY PoolConstants
  <2>2. /\ IsFiniteSet(1 .. ID_MAX)
        /\ Cardinality(1 .. ID_MAX) = IF 1 > ID_MAX THEN 0 ELSE ID_MAX - 1 + 1
    BY <2>1, FS_Interval
  <2> QED BY <2>1, <2>2
<1> HIDE DEF g, e
<1>10. \E x, y \in 1 .. ID_MAX : x # y /\ g[x] = g[y]
  BY <1>5, <1>8, <1>9, FS_PigeonHole
<1> QED BY <1>8, <1>10

(* The loop of GetNewId always ends: an id is free whenever it is entered. *)
THEOREM NewIdAvailableHolds == Spec => []NewIdAvailable
<1>1. IInv /\ PoolBounded => NewIdAvailable
  BY IdsAreLeft, ServerConstants DEF IInv, TypeOK, PoolBounded, NewIdAvailable
<1>2. Init => PoolBounded
  BY PoolConstants DEF Init, PoolBounded
<1> QED BY <1>1, <1>2, InitIInv, NextIInv, NextPoolBounded, PTL DEF Spec

-----------------------------------------------------------------------------
(* Answers.                                                                *)

(* Only processUpstreamResponse sends data of an upstream server.          *)
LEMMA OthersAnswerNobody ==
  ASSUME [Next]_vars, ~UNCHANGED vars, ~undefined,
         \A from \in Servers, i \in Ids, h \in Questions : ~UpstreamResponse(from, i, h)
  PROVE  \A m \in out' : m.packet.data # "upstream"
<1>1. \A q \in Queries : Packet(q).data = "none"
  BY DEF Packet
<1>2. \A q \in Queries : Refusal(q).packet.data = "none"
  BY DEF Refusal, sendPacket, SetResponseCode, Packet
<1>3. \A q \in Queries :
        sendPacket(updateRedirectResponse(Packet(q)), q.endpoint).packet.data = "redirect"
  BY DEF sendPacket, updateRedirectResponse, Packet
<1>4. \A q \in Queries : \A m \in Forwards(Packet(q)) : m.packet.data = "none"
  BY DEF Forwards, sendPacket, Packet
<1>5. \A q \in Queries : \A i : \A m \in Forwards(SetId(Packet(q), i)) : m.packet.data = "none"
  BY DEF Forwards, sendPacket, SetId, Packet
<1>6. ASSUME NEW q \in Queries, resolve(q) PROVE \A m \in out' : m.packet.data # "upstream"
  BY <1>2, <1>4, <1>5, <1>6
  DEF resolve, ResolveNoServers, ResolveRepeat, ResolveJoin,
      ResolveTimedOut, ResolveNew, ResolveRefused
<1> QED
  BY <1>3, <1>6
  DEF Next, processUpstreamResponse, DropDatagram, Redirect, UpstreamNoSource, Undefined, Tick, Stop, Start

LEMMA AnswerStep ==
  ASSUME IInv, [Next]_vars
  PROVE  [~undefined => \A m \in out' : m.packet.data = "upstream" =>
            [endpoint |-> m.to, id |-> m.packet.id, question |-> m.packet.question]
              \in waiting]_vars
<1> SUFFICES ASSUME ~UNCHANGED vars, ~undefined, NEW m \in out', m.packet.data = "upstream"
             PROVE  [endpoint |-> m.to, id |-> m.packet.id, question |-> m.packet.question]
                      \in waiting
  OBVIOUS
<1>1. PICK from \in Servers, i \in Ids, h \in Questions : UpstreamResponse(from, i, h)
  BY OthersAnswerNobody
<1>2. PICK k \in Lookup(records, i, h) : out' = Answers(records[k], UpstreamPacket(i, h))
  BY <1>1 DEF UpstreamResponse
<1>3. k \in InUse(records) /\ records[k].hash = h
  BY DEF Lookup, First
<1>4. PICK s \in SourcesOf(records[k]) :
        m = sendPacket(SetId(UpstreamPacket(i, h), s.originalId), s.endpoint)
  BY <1>2 DEF Answers
<1>5. m.to = s.endpoint /\ m.packet.id = s.originalId /\ m.packet.question = h
  BY <1>4 DEF sendPacket, SetId, UpstreamPacket
<1>6. [endpoint |-> m.to, id |-> m.packet.id, question |-> m.packet.question]
        \in QueriesOf(records[k])
  BY <1>3, <1>5 DEF QueriesOf
<1> QED BY <1>3, <1>6 DEF IInv, SourcesWaiting

(* An upstream answer reaches only a client that asked this question with  *)
(* this id and has had no answer since (processUpstreamResponse).          *)
THEOREM AnswersOnlyWaitingHolds == Spec => AnswersOnlyWaiting
BY InitIInv, NextIInv, AnswerStep, PTL DEF Spec, AnswersOnlyWaiting

-----------------------------------------------------------------------------
(* Freed memory.                                                           *)

LEMMA NextMemorySafe ==
  ASSUME IInv, MemorySafe, [Next]_vars
  PROVE  MemorySafe'
<1>1. ASSUME NEW q \in Queries, ResolveJoin(q) PROVE MemorySafe'
  <2>1. PICK k \in LookupByQuery(records, q.question) :
          ~HasTimedOut(records[k]) /\ Source(q) \notin SourcesOf(records[k])
    BY <1>1 DEF ResolveJoin
  <2>2. k \in InUse(records) /\ k \in DOMAIN records /\ records[k].hash = q.question
    BY DEF LookupByQuery, First, InUse
  <2>3. records[k].time \in Nat
    <3>1. records \in Seq(RecordType)
      BY DEF IInv, TypeOK
    <3>2. records[k] \in RecordType
      BY <2>2, <3>1
    <3> QED BY <3>2, ServerConstants DEF RecordType
  <2>4. records[k].time <= TIMEOUT
    BY <2>1, <2>3, PoolConstants DEF HasTimedOut
  <2>5. records' = records /\ q \in waiting'
    BY <1>1 DEF ResolveJoin
  <2> QED BY <2>1, <2>2, <2>4, <2>5 DEF MemorySafe, InUse, SourcesOf
<1>2. ASSUME UNCHANGED <<records, undefined, waiting>> PROVE MemorySafe'
  BY <1>2 DEF MemorySafe, InUse, SourcesOf
<1>3. ASSUME ~undefined' PROVE MemorySafe'
  BY <1>3 DEF MemorySafe
<1> QED
  BY <1>1, <1>2, <1>3
  DEF Next, resolve, processUpstreamResponse, vars, poolVars, Running, DropDatagram, Redirect,
      ResolveNoServers, ResolveRepeat, ResolveTimedOut, ResolveNew, ResolveRefused,
      UpstreamResponse, UpstreamNoSource, Undefined, Tick, Stop, Start

(* The forwarder uses freed memory only for a second client of a question  *)
(* that was opened in the first TIMEOUT seconds of the clock.              *)
THEOREM MemorySafeHolds == Spec => []MemorySafe
<1>1. Init => MemorySafe
  BY DEF Init, MemorySafe
<1> QED BY <1>1, InitIInv, NextIInv, NextMemorySafe, PTL DEF Spec

(* On a host whose clock is past TIMEOUT seconds it never does.            *)
THEOREM MemorySafeOnRealClock ==
  ASSUME \A t \in Clock : t > TIMEOUT
  PROVE  Spec => []~undefined
<1>1. Init => MemorySafe
  BY DEF Init, MemorySafe
<1>2. IInv /\ MemorySafe => ~undefined
  <2> SUFFICES ASSUME IInv, MemorySafe, undefined PROVE FALSE
    OBVIOUS
  <2>1. PICK k \in InUse(records) : records[k].time <= TIMEOUT
    BY DEF MemorySafe
  <2>2. k \in DOMAIN records /\ records \in Seq(RecordType)
    BY DEF InUse, IInv, TypeOK
  <2>3. records[k] \in RecordType
    BY <2>2
  <2>4. records[k].time \in Clock /\ records[k].time \in Nat
    BY <2>3, ServerConstants DEF RecordType
  <2>5. records[k].time > TIMEOUT
    BY <2>4
  <2> QED BY <2>1, <2>4, <2>5, PoolConstants
<1> QED BY <1>1, <1>2, InitIInv, NextIInv, NextMemorySafe, PTL DEF Spec

-----------------------------------------------------------------------------
(* The forwarder implements QueryBroker.                                   *)

LEMMA FreedEviction ==
  ASSUME NEW rs \in Seq(RecordType), NEW t \in Nat, NEW k \in InUse(rs),
         k \notin InUse(Evict(rs, t))
  PROVE  t - rs[k].time >= TIMEOUT
<1> DEFINE c == Collect(rs, t)
<1>1. /\ DOMAIN c = DOMAIN rs /\ InUse(c) = InUse(rs) \ Collectable(rs, t)
      /\ \A j \in InUse(c) : c[j] = rs[j]
  BY CollectType
<1>2. rs[k].time \in Nat
  BY RecordTimes DEF InUse
<1>3. CASE k \in Collectable(rs, t)
  BY <1>2, <1>3, PoolConstants DEF Collectable, Age
<1>4. CASE k \notin Collectable(rs, t)
  <2>1. k \in InUse(c) /\ c[k] = rs[k]
    BY <1>1, <1>4
  <2>2. k \in Target(c, t)
    BY <2>1 DEF Evict, InUse
  <2>3. Age(c[k], t) >= TIMEOUT
    BY <2>1, <2>2 DEF Target
  <2> QED BY <2>1, <2>3 DEF Age
<1> QED BY <1>3, <1>4

LEMMA NobodyAnswered ==
  ASSUME undefined' \/ \A m \in out' : m.packet.data # "upstream"
  PROVE  Delivered' = {}
  BY DEF Delivered

LEMMA SameQuestions ==
  ASSUME records' = records
  PROVE  OpenQuestions' = OpenQuestions
  BY DEF OpenQuestions, AsOpen, InUse, SourcesOf

LEMMA AsOpenInjective ==
  ASSUME OneRecordPerQuestion, NEW j \in InUse(records), NEW k \in InUse(records),
         AsOpen(records[j]) = AsOpen(records[k])
  PROVE  j = k
  BY DEF OneRecordPerQuestion, AsOpen

(* Giving questions up: what stays is unchanged, what goes has expired.    *)
LEMMA GiveUp ==
  ASSUME IInv, NEW S \in SUBSET InUse(records),
         \A k \in InUse(records) \ S : now - records[k].time >= TIMEOUT
  PROVE  \E gone \in SUBSET Broker!Expired :
           {AsOpen(records[k]) : k \in S} = OpenQuestions \ gone
<1> DEFINE gone == {AsOpen(records[k]) : k \in InUse(records) \ S}
<1>1. gone \in SUBSET Broker!Expired
  BY DEF Broker!Expired, OpenQuestions, AsOpen
<1>2. {AsOpen(records[k]) : k \in S} \subseteq OpenQuestions \ gone
  <2> SUFFICES ASSUME NEW k \in S, NEW j \in InUse(records) \ S,
                      AsOpen(records[k]) = AsOpen(records[j])
               PROVE FALSE
    BY DEF OpenQuestions
  <2> QED BY AsOpenInjective DEF IInv
<1>3. OpenQuestions \ gone \subseteq {AsOpen(records[k]) : k \in S}
  BY DEF OpenQuestions
<1> QED BY <1>1, <1>2, <1>3

LEMMA BrokerSilent ==
  ASSUME IInv, up, records' = records, Delivered' = {}, UNCHANGED <<up, now>>
  PROVE  Broker!BrokerNext
<1>1. OpenQuestions' = OpenQuestions
  BY SameQuestions
<1>2. {} \in SUBSET Broker!Expired /\ OpenQuestions \ {} = OpenQuestions
  OBVIOUS
<1>3. Broker!Silent
  BY <1>1, <1>2 DEF Broker!Silent
<1> QED BY <1>3 DEF Broker!BrokerNext

LEMMA BrokerRefused ==
  ASSUME IInv, NEW q \in Queries, ResolveRefused(q), Delivered' = {}
  PROVE  Broker!BrokerNext
<1>1. records' = Collect(records, now) /\ records \in Seq(RecordType) /\ now \in Nat
      /\ up /\ UNCHANGED <<up, now>>
  BY ServerConstants DEF Running, ResolveRefused, IInv, TypeOK
<1> DEFINE S == InUse(records')
<1>2. S = InUse(records) \ Collectable(records, now) /\ \A k \in S : records'[k] = records[k]
  BY <1>1, CollectType
<1>3. \A k \in InUse(records) : records[k].time \in Nat
  BY <1>1, RecordTimes DEF InUse
<1>4. \A k \in InUse(records) \ S : now - records[k].time >= TIMEOUT
  BY <1>1, <1>2, <1>3, PoolConstants DEF Collectable, Age
<1>5. OpenQuestions' = {AsOpen(records[k]) : k \in S}
  <2>1. OpenQuestions' = {AsOpen(records'[k]) : k \in S}
    BY DEF OpenQuestions, AsOpen, InUse, SourcesOf
  <2> QED BY <1>2, <2>1
<1> HIDE DEF S
<1>6. \E gone \in SUBSET Broker!Expired : OpenQuestions' = OpenQuestions \ gone
  BY <1>2, <1>4, <1>5, GiveUp
<1>7. Broker!Silent
  BY <1>1, <1>6 DEF Broker!Silent
<1> QED BY <1>7 DEF Broker!BrokerNext

LEMMA BrokerOpens ==
  ASSUME IInv, NEW q \in Queries, ResolveNew(q), Delivered' = {}
  PROVE  Broker!BrokerNext
<1>1. records \in Seq(RecordType) /\ now \in Nat /\ now \in Clock /\ up /\ UNCHANGED <<up, now>>
  BY ServerConstants DEF Running, ResolveNew, IInv, TypeOK
<1>2. PICK i \in NewIds(Evict(records, now)) :
        records' = PlaceRecord(records, now, NewRecord(q, i))
  BY DEF ResolveNew
<1> DEFINE r == NewRecord(q, i)
           S == InUse(Evict(records, now))
<1>3. i \in Ids
  BY PoolConstants DEF NewIds, Ids
<1>4. /\ r \in RecordType /\ r.sentTo /\ r.hash = q.question
      /\ r.time = now /\ r.source = Source(q)
  BY <1>1, <1>3, QueryType DEF NewRecord, RecordType
<1> HIDE DEF r
<1>5. PICK n : PlacedAt(records, now, r, records', n)
  BY <1>1, <1>2, <1>4, PlaceRecordEffect DEF r
<1>6. /\ InUse(records') = S \cup {n} /\ S \subseteq InUse(records)
      /\ records'[n] = r /\ \A k \in S : records'[k] = records[k]
  BY <1>5 DEF PlacedAt
<1>7. \A k \in InUse(records) \ S : now - records[k].time >= TIMEOUT
  BY <1>1, FreedEviction
<1> HIDE DEF S
<1>8. AsOpen(r) = [question |-> q.question, since |-> now, askers |-> {Broker!Asker(q)}]
  BY <1>4 DEF AsOpen, SourcesOf, Source, Broker!Asker
<1>9. OpenQuestions' = {AsOpen(records[k]) : k \in S} \cup {AsOpen(r)}
  <2>1. OpenQuestions' = {AsOpen(records'[k]) : k \in InUse(records')}
    BY DEF OpenQuestions, AsOpen, InUse, SourcesOf
  <2> QED BY <1>6, <2>1
<1>10. \E gone \in SUBSET Broker!Expired :
         OpenQuestions' = (OpenQuestions \ gone) \cup {AsOpen(r)}
  BY <1>6, <1>7, <1>9, GiveUp
<1>11. \A o \in OpenQuestions : o.question # q.question
  <2>1. \A k \in InUse(records) : records[k].hash # q.question
    <3> DEFINE M == {k \in InUse(records) : records[k].hash = q.question}
    <3>1. First(M) = {}
      BY DEF ResolveNew, LookupByQuery
    <3>2. M \subseteq 1 .. Len(records) /\ Len(records) \in Nat
      BY <1>1 DEF InUse
    <3> HIDE DEF M
    <3>3. M = {}
      BY <3>1, <3>2, FirstNonEmpty
    <3> QED BY <3>3 DEF M
  <2> QED BY <2>1 DEF OpenQuestions, AsOpen
<1>12. Broker!OpenQuestion(q)
  BY <1>1, <1>8, <1>10, <1>11 DEF Broker!OpenQuestion
<1> QED BY <1>12 DEF Broker!BrokerNext

LEMMA BrokerAnswers ==
  ASSUME IInv, NEW from, NEW i \in Ids, NEW h \in Questions, UpstreamResponse(from, i, h)
  PROVE  Broker!BrokerNext
<1>1. PICK k \in Lookup(records, i, h) :
        /\ out' = Answers(records[k], UpstreamPacket(i, h))
        /\ records' = [records EXCEPT ![k] = Freed(records[k])]
  BY DEF UpstreamResponse
<1>2. /\ k \in InUse(records) /\ records[k] \in RecordType /\ records[k].hash = h
      /\ records \in Seq(RecordType) /\ k \in DOMAIN records
  BY DEF Lookup, First, InUse, IInv, TypeOK
<1>3. ~Freed(records[k]).sentTo
  BY <1>2, FreedType
<1> DEFINE o == AsOpen(records[k])
<1>4. InUse(records') = InUse(records) \ {k} /\ \A j \in InUse(records') : records'[j] = records[j]
  BY <1>1, <1>2, <1>3 DEF InUse
<1>5. OpenQuestions' = OpenQuestions \ {o}
  <2>1. OpenQuestions' = {AsOpen(records'[j]) : j \in InUse(records')}
    BY DEF OpenQuestions, AsOpen, InUse, SourcesOf
  <2>2. \A j \in InUse(records) : j # k => AsOpen(records[j]) # o
    BY <1>2, AsOpenInjective DEF IInv
  <2> QED BY <1>2, <1>4, <2>1, <2>2 DEF OpenQuestions
<1>6. o \in OpenQuestions /\ o.question = h /\ o.askers = SourcesOf(records[k])
  BY <1>2 DEF OpenQuestions, AsOpen
<1>7. Delivered' = {[endpoint |-> a.endpoint, id |-> a.originalId, question |-> h] :
                    a \in SourcesOf(records[k])}
  <2> DEFINE d(a) == sendPacket(SetId(UpstreamPacket(i, h), a.originalId), a.endpoint)
  <2>1. \A a : /\ d(a).packet.data = "upstream" /\ d(a).to = a.endpoint
               /\ d(a).packet.id = a.originalId /\ d(a).packet.question = h
    BY DEF sendPacket, SetId, UpstreamPacket
  <2>2. out' = {d(a) : a \in SourcesOf(records[k])}
    BY <1>1 DEF Answers
  <2> HIDE DEF d
  <2>3. {m \in out' : m.packet.data = "upstream"} = {d(a) : a \in SourcesOf(records[k])}
    BY <2>1, <2>2
  <2>4. Delivered' = {[endpoint |-> m.to, id |-> m.packet.id, question |-> m.packet.question] :
                      m \in {d(a) : a \in SourcesOf(records[k])}}
    <3>1. ~undefined'
      BY DEF UpstreamResponse, Running
    <3> QED BY <2>3, <3>1 DEF Delivered
  <2> QED BY <2>1, <2>4
<1>8. up /\ UNCHANGED <<up, now>>
  BY DEF UpstreamResponse, Running
<1> HIDE DEF o
<1>9. Broker!Answer(o)
  BY <1>5, <1>6, <1>7, <1>8 DEF Broker!Answer
<1> QED BY <1>6, <1>9 DEF Broker!BrokerNext

LEMMA BrokerStep ==
  ASSUME IInv, [Next]_vars
  PROVE  [Broker!BrokerNext]_(Broker!bvars)
<1>1. CASE UNCHANGED vars
  <2>1. OpenQuestions' = OpenQuestions
    BY <1>1, SameQuestions DEF vars
  <2>2. Delivered' = Delivered
    BY <1>1 DEF vars, Delivered
  <2> QED BY <1>1, <2>1, <2>2 DEF Broker!bvars, vars
<1>2. CASE \E from \in Servers, i \in Ids, h \in Questions : UpstreamResponse(from, i, h)
  BY <1>2, BrokerAnswers
<1>3. CASE /\ ~UNCHANGED vars
           /\ \A from \in Servers, i \in Ids, h \in Questions : ~UpstreamResponse(from, i, h)
  <2>1. Delivered' = {}
    <3>1. CASE undefined'
      BY <3>1, NobodyAnswered
    <3>2. CASE ~undefined' /\ ~undefined
      BY <1>3, <3>2, OthersAnswerNobody, NobodyAnswered
    <3>3. CASE ~undefined' /\ undefined
      <4>1. out' = {}
        BY <1>3, <3>3
        DEF Next, resolve, processUpstreamResponse, poolVars, Running, DropDatagram, Redirect,
            ResolveNoServers, ResolveRepeat, ResolveJoin, ResolveTimedOut, ResolveNew,
            ResolveRefused, UpstreamNoSource, Undefined, Tick, Stop, Start
      <4> QED BY <4>1, NobodyAnswered
    <3> QED BY <3>1, <3>2, <3>3
  <2>2. CASE up /\ records' = records /\ UNCHANGED <<up, now>>
    BY <2>1, <2>2, BrokerSilent
  <2>3. CASE \E q \in Queries : resolve(q)
    BY <2>1, <2>2, <2>3, TakenAgain, BrokerOpens, BrokerRefused
    DEF resolve, Running, ResolveNoServers, ResolveRepeat, ResolveJoin, ResolveTimedOut, poolVars
  <2>4. CASE Tick
    <3>1. OpenQuestions' = OpenQuestions
      BY <2>4, SameQuestions DEF Tick, poolVars
    <3>2. Broker!BrokerTick
      BY <2>1, <2>4, <3>1 DEF Tick, Broker!BrokerTick
    <3> QED BY <3>2 DEF Broker!BrokerNext
  <2>5. CASE Stop
    <3>1. OpenQuestions' = OpenQuestions
      BY <2>5, SameQuestions DEF Stop, poolVars
    <3>2. Broker!BrokerStop
      BY <2>1, <2>5, <3>1 DEF Stop, Broker!BrokerStop
    <3> QED BY <3>2 DEF Broker!BrokerNext
  <2>6. CASE Start
    <3>1. OpenQuestions' = {}
      BY <2>6, EmptyPool DEF Start, OpenQuestions, InUse
    <3>2. Broker!BrokerStart
      BY <2>1, <2>6, <3>1 DEF Start, Broker!BrokerStart
    <3> QED BY <3>2 DEF Broker!BrokerNext
  <2>7. CASE DropDatagram \/ Undefined \/ \E q \in Queries : Redirect(q)
    BY <2>2, <2>7 DEF Running, DropDatagram, Undefined, Redirect, poolVars
  <2>8. CASE \E from \in Servers, i \in Ids, h \in Questions : UpstreamNoSource(from, i, h)
    BY <2>2, <2>8 DEF Running, UpstreamNoSource, poolVars
  <2> QED
    BY <1>3, <2>3, <2>4, <2>5, <2>6, <2>7, <2>8 DEF Next, processUpstreamResponse
<1> QED BY <1>1, <1>2, <1>3

(* The forwarder with its pool, ids, collection and reuse of records       *)
(* implements the abstract broker of open questions.                       *)
THEOREM Refinement == Spec => ImplementsBroker
<1>1. Init => Broker!BrokerInit
  BY EmptyPool DEF Init, Broker!BrokerInit, OpenQuestions, Delivered, InUse
<1> QED
  BY <1>1, InitIInv, NextIInv, BrokerStep, PTL
  DEF Spec, ImplementsBroker, Broker!BrokerSpec
-----------------------------------------------------------------------------
(* No young query is dropped.                                              *)

(* What becomes of the record in use at k in a step.                       *)
Kept(k) == \E j \in InUse(records') : QueriesOf(records[k]) \subseteq QueriesOf(records'[j])
Answered(k) == Answers(records[k], UpstreamPacket(records[k].newId, records[k].hash)) \subseteq out'

(* A record that is left alone is kept.                                    *)
LEMMA SameRecordKept ==
  ASSUME NEW k \in InUse(records), k \in InUse(records'), records'[k] = records[k]
  PROVE  Kept(k)
BY DEF Kept

(* GetNewRecord gives up no young record, whether it finds one or refuses. *)
LEMMA NewKeeps ==
  ASSUME IInv, NEW q \in Queries, ResolveNew(q), NEW k \in Young(records, now)
  PROVE  Kept(k)
<1>1. records \in Seq(RecordType) /\ now \in Nat /\ now \in Clock
  BY ServerConstants DEF IInv, TypeOK
<1>2. PICK i \in NewIds(Evict(records, now)) :
        records' = PlaceRecord(records, now, NewRecord(q, i))
  BY DEF ResolveNew
<1> DEFINE r == NewRecord(q, i)
<1>3. r \in RecordType /\ r.sentTo
  BY <1>1, PoolConstants, QueryType DEF NewIds, Ids, NewRecord, RecordType
<1> HIDE DEF r
<1>4. PICK n : PlacedAt(records, now, r, records', n)
  BY <1>1, <1>2, <1>3, PlaceRecordEffect DEF r
<1>5. k \in InUse(records) /\ now - records[k].time < TIMEOUT /\ records[k].time \in Nat
  BY <1>1, RecordTimes DEF Young, Age, InUse
<1>6. k \in InUse(Evict(records, now))
  BY <1>1, <1>5, FreedEviction, PoolConstants
<1> QED BY <1>4, <1>5, <1>6, SameRecordKept DEF PlacedAt

LEMMA RefusedKeeps ==
  ASSUME IInv, NEW q \in Queries, ResolveRefused(q), NEW k \in Young(records, now)
  PROVE  Kept(k)
<1>1. records \in Seq(RecordType) /\ now \in Nat /\ records' = Collect(records, now)
  BY ServerConstants DEF IInv, TypeOK, ResolveRefused
<1>2. k \in InUse(records) /\ now - records[k].time < TIMEOUT /\ records[k].time \in Nat
  BY <1>1, RecordTimes DEF Young, Age, InUse
<1>3. k \notin Collectable(records, now)
  BY <1>1, <1>2, PoolConstants DEF Collectable, Age
<1> QED BY <1>1, <1>2, <1>3, CollectType, SameRecordKept

(* A response answers the clients of the record it frees.                  *)
LEMMA ResponseKeeps ==
  ASSUME IInv, NEW from, NEW i, NEW h, UpstreamResponse(from, i, h), NEW k \in InUse(records)
  PROVE  Kept(k) \/ Answered(k)
<1>1. PICK j \in Lookup(records, i, h) :
        /\ out' = Answers(records[j], UpstreamPacket(i, h))
        /\ records' = [records EXCEPT ![j] = Freed(records[j])]
  BY DEF UpstreamResponse
<1>2. records[j].newId = i /\ records[j].hash = h
  BY <1>1 DEF Lookup, First
<1>3. CASE k = j
  BY <1>1, <1>2, <1>3 DEF Answered
<1>4. CASE k # j
  BY <1>1, <1>4, SameRecordKept DEF InUse
<1> QED BY <1>3, <1>4

LEMMA YoungStep ==
  ASSUME IInv, [Next]_vars
  PROVE  [Running /\ up' => \A k \in Young(records, now) : Kept(k) \/ Answered(k)]_vars
<1> SUFFICES ASSUME Next, up, ~undefined, up', NEW k \in Young(records, now)
             PROVE  Kept(k) \/ Answered(k)
  BY DEF Running
<1>1. k \in InUse(records)
  BY DEF Young
<1>2. CASE records' = records
  BY <1>1, <1>2, SameRecordKept
<1>3. CASE \E q \in Queries : resolve(q)
  BY <1>1, <1>2, <1>3, TakenAgain, NewKeeps, RefusedKeeps
  DEF resolve, ResolveNoServers, ResolveRepeat, ResolveJoin, poolVars
<1>4. CASE \E from \in Servers, i \in Ids, h \in Questions : UpstreamResponse(from, i, h)
  BY <1>1, <1>4, ResponseKeeps
<1> QED
  BY <1>2, <1>3, <1>4
  DEF Next, processUpstreamResponse, DropDatagram, Redirect, UpstreamNoSource, Undefined, Tick, Stop, Start,
      poolVars

(* A query younger than TIMEOUT leaves the pool only by being answered: no *)
(* collection, reuse or repeat drops its client, whatever the clock does.  *)
THEOREM KeptUntilTimeoutHolds == Spec => KeptUntilTimeout
<1>1. IInv /\ [Next]_vars =>
        [Running /\ up' => \A k \in Young(records, now) :
           \/ \E j \in InUse(records') : QueriesOf(records[k]) \subseteq QueriesOf(records'[j])
           \/ Answers(records[k], UpstreamPacket(records[k].newId, records[k].hash)) \subseteq out'
        ]_vars
  BY YoungStep DEF Kept, Answered
<1> QED
  BY <1>1, InitIInv, NextIInv, PTL DEF Spec, KeptUntilTimeout
=============================================================================
