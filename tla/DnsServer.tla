------------------------------ MODULE DnsServer ------------------------------
(***************************************************************************)
(* The DNS forwarder: class DnsServer (src/dns/server.cpp) with its pool   *)
(* of outstanding queries (PeerRequests).                                  *)
(*                                                                         *)
(* One io_context thread runs every handler, so a handler is one step.  A  *)
(* step takes a datagram that any client or server may send at any time    *)
(* and leaves in `out' what the handler hands to sendPacket.  Loss,        *)
(* duplication, delay and reordering need no state of their own here: the  *)
(* datagrams received are not tied to the ones sent.  DnsSystem ties them. *)
(*                                                                         *)
(* The rule engine's verdict on a query (resolve or redirect) is an input. *)
(***************************************************************************)
EXTENDS PeerRequests

CONSTANTS
  Queries,       \* client queries: records [endpoint, id, question]
  Servers,       \* endpoints of DNS servers, configured or not
  Configs,       \* configurations: sets of records [endpoint, protocol]
  Clock,         \* readings of the wall clock (time_t), in seconds
  REPEAT_WINDOW  \* seconds, 2 in the code

Endpoints == {q.endpoint : q \in Queries}
Questions == {q.question : q \in Queries}

ASSUME ServerConstants ==
  /\ \A q \in Queries : q = [endpoint |-> q.endpoint, id |-> q.id, question |-> q.question]
  /\ \A q \in Queries : q.id \in Ids
  /\ Clock \subseteq Nat
  /\ \A c \in Configs : \A s \in c : s.endpoint \in Servers
  /\ REPEAT_WINDOW \in Nat

VARIABLES
  records,      \* peerRequests.records
  undefined,    \* the process has written to freed memory
  servers,      \* endpoints of the upstream servers in use
  up,           \* the process runs
  now,          \* the wall clock
  out,          \* datagrams the last handler sent
  waiting       \* history: queries taken for resolution and not answered yet

poolVars == <<records, undefined>>
vars == <<records, undefined, servers, up, now, out, waiting>>

(* A handler whose effect the language defines can run.                    *)
Running == up /\ ~undefined

-----------------------------------------------------------------------------
(* Packets: what a handler may change of one.  `data' tells the answers of *)
(* an upstream server from the ones a redirect makes up.                   *)
Packet(q) == [id |-> q.id, question |-> q.question, qr |-> FALSE,
              rcode |-> "NOERROR", data |-> "none"]

SetId(p, i) == [p EXCEPT !.id = i]
SetResponseCode(p, c) == [p EXCEPT !.rcode = c]

(* updateRedirectResponse turns the query into an answer of its own.       *)
updateRedirectResponse(p) == [p EXCEPT !.qr = TRUE, !.data = "redirect"]

(* What an upstream server answers to a question, whatever id it carries.  *)
UpstreamPacket(i, h) == [id |-> i, question |-> h, qr |-> TRUE,
                         rcode |-> "NOERROR", data |-> "upstream"]

sendPacket(p, to) == [to |-> to, packet |-> p]

Refusal(q) == sendPacket(SetResponseCode(Packet(q), "REFUSED"), q.endpoint)
Forwards(p) == {sendPacket(p, s) : s \in servers}
(* Mutant: the client's id is not restored.                                *)
AnswersWithNewId(r, p) == {sendPacket(p, s.endpoint) : s \in SourcesOf(r)}

Answers(r, p) == {sendPacket(SetId(p, s.originalId), s.endpoint) : s \in SourcesOf(r)}

(* The queries a record stands for.                                        *)
QueriesOf(r) == {[endpoint |-> s.endpoint, id |-> s.originalId, question |-> r.hash] :
                 s \in SourcesOf(r)}

NewRecord(q, i) ==
  [sentTo |-> TRUE, newId |-> i, hash |-> q.question, time |-> now,
   source |-> Source(q)]

-----------------------------------------------------------------------------
(* The constructor: servers configured for TCP are skipped.                *)
initUpstreamServers(c) == {s.endpoint : s \in {t \in c : t.protocol # "tcp"}}

Init ==
  /\ records = <<>> /\ undefined = FALSE
  /\ servers \in {initUpstreamServers(c) : c \in Configs}
  /\ up = TRUE
  /\ now \in Clock
  /\ out = {}
  /\ waiting = {}

(* A datagram that is read and dropped: a receive error, fewer bytes than  *)
(* a DnsHeader object has, source port 0, a packet Read or Validate rejects*)
(* (an error response is prepared and not sent).  DnsPacket has the detail.*)
DropDatagram ==
  /\ Running
  /\ out' = {}
  /\ UNCHANGED <<poolVars, servers, up, now, waiting>>

(* processRequest with a rule or policy that redirects.                    *)
Redirect(q) ==
  /\ Running
  /\ out' = {sendPacket(updateRedirectResponse(Packet(q)), q.endpoint)}
  /\ UNCHANGED <<poolVars, servers, up, now, waiting>>

(* resolve() with no upstream server: the query is dropped.                *)
ResolveNoServers ==
  /\ Running
  /\ servers = {}
  /\ out' = {}
  /\ UNCHANGED <<poolVars, servers, up, now, waiting>>

(* resolve() of a question that is outstanding and not timed out, again    *)
(* from a client the record knows: refused within REPEAT_WINDOW seconds,   *)
(* ignored after that.                                                     *)
ResolveRepeat(q) ==
  /\ Running
  /\ servers # {}
  /\ \E k \in LookupByQuery(records, q.question) :
       /\ ~HasTimedOut(records[k])
       /\ Source(q) \in SourcesOf(records[k])
       /\ out' = IF Age(records[k], now) < REPEAT_WINDOW THEN {Refusal(q)} ELSE {}
  /\ UNCHANGED <<poolVars, servers, up, now, waiting>>

(* resolve() of such a question from another client, whose source is to be *)
(* linked behind the first.  GetNewPeerSource makes a node, and moving the *)
(* free list past it (sources = std::move(sources->next), peer.cpp:166)    *)
(* destroys it; the node is then written to, linked into the record and    *)
(* owned by it.  From here on the language defines nothing: `records' and  *)
(* `waiting' keep the last values they had.                                *)
ResolveJoin(q) ==
  /\ Running
  /\ servers # {}
  /\ \E k \in LookupByQuery(records, q.question) :
       /\ ~HasTimedOut(records[k])
       /\ Source(q) \notin SourcesOf(records[k])
  /\ undefined' = TRUE
  /\ out' = {}
  /\ waiting' = waiting \cup {q}
  /\ UNCHANGED <<records, servers, up, now>>

(* What a process may do after that: send any client anything, or nothing. *)
(* It may also end (Stop).                                                 *)
Undefined ==
  /\ up
  /\ undefined
  /\ out' \in {{}} \cup {{sendPacket(UpstreamPacket(q.id, q.question), q.endpoint)} : q \in Queries}
  /\ UNCHANGED <<poolVars, servers, up, now, waiting>>

(* Mutant: the freed record is not taken again.                            *)
ResolveTimedOutFreed(q) ==
  /\ Running
  /\ servers # {}
  /\ \E k \in LookupByQuery(records, q.question) :
       /\ HasTimedOut(records[k])
       /\ records' = [records EXCEPT ![k] = Freed(records[k])]
  /\ out' = Forwards(Packet(q))
  /\ waiting' = waiting \cup {q}
  /\ UNCHANGED <<undefined, servers, up, now>>

(* resolve() of an outstanding question whose record has timed out: the    *)
(* record is freed, and taken again by the forwarding loop as it is, with  *)
(* its first source, its id and its time; the query goes out with the id   *)
(* the client gave it.                                                     *)
ResolveTimedOut(q) ==
  /\ Running
  /\ servers # {}
  /\ \E k \in LookupByQuery(records, q.question) :
       /\ HasTimedOut(records[k])
       /\ records' = [records EXCEPT ![k] = [Freed(records[k]) EXCEPT !.sentTo = TRUE]]
  /\ out' = Forwards(Packet(q))
  /\ waiting' = waiting \cup {q}
  /\ UNCHANGED <<undefined, servers, up, now>>

(* resolve() of a new question: a record, a fresh id, and the query to     *)
(* every server.                                                           *)
ResolveNew(q) ==
  /\ Running
  /\ servers # {}
  /\ LookupByQuery(records, q.question) = {}
  /\ ~MaxedOut(records, now)
  /\ \E i \in NewIds(Evict(records, now)) :
       /\ records' = PlaceRecord(records, now, NewRecord(q, i))
       /\ out' = Forwards(SetId(Packet(q), i))
  /\ waiting' = waiting \cup {q}
  /\ UNCHANGED <<undefined, servers, up, now>>

(* ... or a refusal when GetNewRecord has none; what its walk collected    *)
(* stays collected.                                                        *)
ResolveRefused(q) ==
  /\ Running
  /\ servers # {}
  /\ LookupByQuery(records, q.question) = {}
  /\ MaxedOut(records, now)
  /\ records' = Collect(records, now)
  /\ out' = {Refusal(q)}
  /\ UNCHANGED <<undefined, servers, up, now, waiting>>

(* processUpstreamResponse.  A valid response of a known server to an      *)
(* outstanding query answers every client of the record and frees it.      *)
UpstreamResponse(from, i, h) ==
  /\ Running
  /\ from \in servers
  /\ \E k \in Lookup(records, i, h) :
       /\ out' = Answers(records[k], UpstreamPacket(i, h))
       /\ records' = [records EXCEPT ![k] = Freed(records[k])]
       /\ waiting' = waiting \ QueriesOf(records[k])
  /\ UNCHANGED <<undefined, servers, up, now>>

(* Any other response changes only the statistics.                         *)
UpstreamNoSource(from, i, h) ==
  /\ Running
  /\ from \notin servers \/ Lookup(records, i, h) = {}
  /\ out' = {}
  /\ UNCHANGED <<poolVars, servers, up, now, waiting>>

(* The wall clock may run on or be set, in either direction.               *)
Tick ==
  /\ now' \in Clock \ {now}
  /\ out' = {}
  /\ UNCHANGED <<poolVars, servers, up, waiting>>

(* The process ends: by a signal, or (what follows a use of freed memory)  *)
(* at any moment after.                                                    *)
Stop ==
  /\ up
  /\ up' = FALSE
  /\ out' = {}
  /\ UNCHANGED <<poolVars, servers, now, waiting>>

(* A new process: an empty pool and the configuration read again.          *)
Start ==
  /\ ~up
  /\ up' = TRUE
  /\ records' = <<>> /\ undefined' = FALSE
  /\ servers' \in {initUpstreamServers(c) : c \in Configs}
  /\ out' = {}
  /\ UNCHANGED <<now, waiting>>

resolve(q) ==
  \/ ResolveNoServers
  \/ ResolveRepeat(q)
  \/ ResolveJoin(q)
  \/ ResolveTimedOut(q)
  \/ ResolveNew(q)
  \/ ResolveRefused(q)

processUpstreamResponse(from, i, h) ==
  \/ UpstreamResponse(from, i, h)
  \/ UpstreamNoSource(from, i, h)

Next ==
  \/ DropDatagram
  \/ \E q \in Queries : Redirect(q) \/ resolve(q)
  \/ \E from \in Servers, i \in Ids, h \in Questions :
       processUpstreamResponse(from, i, h)
  \/ Undefined
  \/ Tick
  \/ Stop
  \/ Start

Spec == Init /\ [][Next]_vars

-----------------------------------------------------------------------------
SourceType == [endpoint : Endpoints, originalId : Ids]
RecordType ==
  [sentTo : BOOLEAN, newId : Ids, hash : Questions, time : Clock,
   source : SourceType]
PacketType ==
  [id : Ids, question : Questions, qr : BOOLEAN, rcode : {"NOERROR", "REFUSED"},
   data : {"none", "redirect", "upstream"}]
DatagramType == [to : Endpoints \cup Servers, packet : PacketType]

(* The shape of the state: pool records and datagrams.                     *)
TypeOK ==
  /\ records \in Seq(RecordType)
  /\ undefined \in BOOLEAN
  /\ servers \subseteq Servers
  /\ up \in BOOLEAN
  /\ now \in Clock
  /\ out \subseteq DatagramType
  /\ waiting \subseteq Queries

(* No two outstanding queries share the id they were forwarded with, so a  *)
(* response never finds the record of another query (GetNewId, Lookup).    *)
DistinctNewIds ==
  \A j, k \in InUse(records) : records[j].newId = records[k].newId => j = k

(* A question is outstanding once: LookupByQuery finds the record and no   *)
(* second one is opened, whatever was collected or reused meanwhile.       *)
OneRecordPerQuestion ==
  \A j, k \in InUse(records) : records[j].hash = records[k].hash => j = k

(* GetNewRecord never lets the pool grow past MAX_FWD_QUERIES records,     *)
(* also when the clock is set back and every record looks young for ever.  *)
PoolBounded == Len(records) <= MAX_FWD_QUERIES

(* The loop of GetNewId always has an id to find.                          *)
NewIdAvailable == ~MaxedOut(records, now) => NewIds(Evict(records, now)) # {}

(* Every client a record in use would answer asked that very question and  *)
(* is still waiting for its answer.                                        *)
SourcesWaiting ==
  \A k \in InUse(records) : QueriesOf(records[k]) \subseteq waiting

(* An answer of an upstream server is passed on only to a client that      *)
(* asked that question with that id and was not answered since: duplicate, *)
(* late and reordered responses (all servers are asked and all answer),    *)
(* evictions and restarts never cause a second or a misdirected answer.    *)
AnswersOnlyWaiting ==
  [][~undefined => \A m \in out' : m.packet.data = "upstream" =>
       [endpoint |-> m.to, id |-> m.packet.id, question |-> m.packet.question] \in waiting]_vars

(* A query younger than TIMEOUT leaves the pool only by being answered (or *)
(* with the process): neither the collection in GetNewRecord nor a repeat  *)
(* of its question drops one of its clients.                               *)
KeptUntilTimeout ==
  [][Running /\ up' => \A k \in Young(records, now) :
       \/ \E j \in InUse(records') : QueriesOf(records[k]) \subseteq QueriesOf(records'[j])
       \/ Answers(records[k], UpstreamPacket(records[k].newId, records[k].hash)) \subseteq out'
    ]_vars

(* The process uses freed memory only on a host that boots near the epoch: *)
(* it takes a record opened in the first TIMEOUT seconds of the clock and a *)
(* second client that asks its question (HasTimedOut, GetNewPeerSource).   *)
MemorySafe ==
  undefined => \E k \in InUse(records), q \in waiting :
    /\ records[k].time <= TIMEOUT
    /\ q.question = records[k].hash
    /\ Source(q) \notin SourcesOf(records[k])

(* "Same request can come from multiple sources" (peer.hpp:32): a query    *)
(* taken for resolution is among the sources its answer will go to.        *)
EveryAskerIsASource ==
  [][\A q \in waiting' \ waiting :
       \E k \in InUse(records') : q \in QueriesOf(records'[k])]_vars

-----------------------------------------------------------------------------
(* The forwarder implements QueryBroker: a record in use is an open        *)
(* question, its source the client that is to be answered.  What a process *)
(* sends after it used freed memory is not held against it.                *)
AsOpen(r) == [question |-> r.hash, since |-> r.time, askers |-> SourcesOf(r)]

OpenQuestions == {AsOpen(records[k]) : k \in InUse(records)}

Delivered ==
  {[endpoint |-> m.to, id |-> m.packet.id, question |-> m.packet.question] :
     m \in {d \in out : ~undefined /\ d.packet.data = "upstream"}}

Broker == INSTANCE QueryBroker WITH
  open <- OpenQuestions, delivered <- Delivered, Timeout <- TIMEOUT

(* Seen from its clients, the forwarder with its pool, ids, collection and *)
(* reuse of records behaves as the broker: one open question per query,    *)
(* each client answered once, nothing given up before TIMEOUT.             *)
ImplementsBroker == Broker!BrokerSpec
=============================================================================
