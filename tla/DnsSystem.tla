------------------------------ MODULE DnsSystem ------------------------------
(***************************************************************************)
(* The forwarder between its clients and its upstream servers, joined by a *)
(* network that may reorder datagrams and lose a bounded number of them.   *)
(* The forwarder's steps are those of DnsServer; here the datagrams it     *)
(* receives are the ones in transit and what its handlers send goes there. *)
(* Clients and upstream servers are external: a client sends a query,      *)
(* repeats it when RETRY seconds passed without an answer, and takes a     *)
(* response (QR set) that carries its id and its question; a server        *)
(* answers each query it gets, with the id and question of the query.      *)
(* The clock is that of a running host, past TIMEOUT, so that no handler   *)
(* is undefined (MemorySafeOnRealClock in DnsServerProofs).                *)
(***************************************************************************)
EXTENDS DnsServer, Bags

LOCAL INSTANCE FiniteSetsExt

CONSTANTS
  MAX_SENDS,  \* how often the clients send queries, all together
  RETRY,      \* seconds a client waits before it sends it again
  MAX_LOSS    \* how many datagrams the network loses

Daemon == "daemon"

ASSUME SystemConstants ==
  /\ MAX_SENDS \in Nat \ {0}
  /\ RETRY \in Nat
  /\ MAX_LOSS \in Nat
  /\ Daemon \notin Endpoints \cup Servers
  /\ \A t \in Clock : t > TIMEOUT

VARIABLES
  net,       \* bag of the datagrams in transit: [from, to, packet]
  tries,     \* how often each query was sent
  sentAt,    \* when each query was sent last
  got,       \* how many responses to each query its client has
  refused,   \* queries whose client has a refusal
  lost       \* how many datagrams of each question were lost

netVars == <<net, tries, sentAt, got, refused, lost>>
sysVars == <<vars, netVars>>

Transit(from, to, p) == [from |-> from, to |-> to, packet |-> p]
QueryDatagram(q) == Transit(q.endpoint, Daemon, Packet(q))
AnswerDatagram(q) == Transit(Daemon, q.endpoint, UpstreamPacket(q.id, q.question))

(* One copy of m leaves the network, the datagrams of S enter it.          *)
Move(m, S) == (net (-) SetToBag({m})) (+) SetToBag(S)

Copies(m) == IF BagIn(m, net) THEN net[m] ELSE 0

Sends == MapThenSumSet(LAMBDA q : tries[q], Queries)
Losses == MapThenSumSet(LAMBDA h : lost[h], Questions)

SysInit ==
  /\ Init
  /\ net = EmptyBag
  /\ tries = [q \in Queries |-> 0]
  /\ sentAt = [q \in Queries |-> now]
  /\ got = [q \in Queries |-> 0]
  /\ refused = {}
  /\ lost = [h \in Questions |-> 0]

(* External: a client sends its query, first or again.                     *)
ClientSend(q) ==
  /\ got[q] = 0
  /\ Sends < MAX_SENDS
  /\ tries[q] > 0 => now - sentAt[q] >= RETRY
  /\ net' = net (+) SetToBag({QueryDatagram(q)})
  /\ tries' = [tries EXCEPT ![q] = @ + 1]
  /\ sentAt' = [sentAt EXCEPT ![q] = now]
  /\ UNCHANGED <<vars, got, refused, lost>>

(* The forwarder receives a query the rules let through.                   *)
DaemonReceivesQuery ==
  \E q \in Queries :
    /\ BagIn(QueryDatagram(q), net)
    /\ resolve(q)
    /\ net' = Move(QueryDatagram(q), {Transit(Daemon, d.to, d.packet) : d \in out'})
    /\ UNCHANGED <<tries, sentAt, got, refused, lost>>

(* External: an upstream server answers.                                   *)
ServerAnswers ==
  \E m \in BagToSet(net) :
    /\ m.to \in Servers
    /\ net' = Move(m, {Transit(m.to, Daemon, UpstreamPacket(m.packet.id, m.packet.question))})
    /\ UNCHANGED <<vars, tries, sentAt, got, refused, lost>>

(* The forwarder receives a response.                                      *)
DaemonReceivesResponse ==
  \E m \in BagToSet(net) :
    /\ m.to = Daemon
    /\ m.packet.qr
    /\ processUpstreamResponse(m.from, m.packet.id, m.packet.question)
    /\ net' = Move(m, {Transit(Daemon, d.to, d.packet) : d \in out'})
    /\ UNCHANGED <<tries, sentAt, got, refused, lost>>

Concerns(m, q) == m.to = q.endpoint /\ m.packet.id = q.id /\ m.packet.question = q.question
IsAnswerTo(m, q) == m.packet.qr /\ Concerns(m, q)
IsRefusalOf(m, q) == m.packet.rcode = "REFUSED" /\ Concerns(m, q)

(* External: a client receives a datagram; only a response counts as one.  *)
(* A refusal is none, QR is not set in it (resolve).                       *)
ClientReceives ==
  \E m \in BagToSet(net) :
    /\ m.to \in Endpoints
    /\ net' = Move(m, {})
    /\ got' = [q \in Queries |-> IF IsAnswerTo(m, q) THEN got[q] + 1 ELSE got[q]]
    /\ refused' = refused \cup {q \in Queries : IsRefusalOf(m, q)}
    /\ UNCHANGED <<vars, tries, sentAt, lost>>

Lose ==
  /\ Losses < MAX_LOSS
  /\ \E m \in BagToSet(net) :
       /\ net' = Move(m, {})
       /\ lost' = [lost EXCEPT ![m.packet.question] = @ + 1]
  /\ UNCHANGED <<vars, tries, sentAt, got, refused>>

SysTick == Tick /\ UNCHANGED netVars

Deliver ==
  \/ DaemonReceivesQuery
  \/ ServerAnswers
  \/ DaemonReceivesResponse
  \/ ClientReceives

SysNext ==
  \/ \E q \in Queries : ClientSend(q)
  \/ Deliver
  \/ Lose
  \/ SysTick

(* The network delivers what it does not lose, and a process that has a    *)
(* datagram to read reads it: every handler re-arms the receive operation  *)
(* (receive4, receive6), whatever became of the datagram.                  *)
SysSpec == SysInit /\ [][SysNext]_sysVars /\ WF_sysVars(Deliver)

-----------------------------------------------------------------------------
(* A query is answered at most once for each time its client sent it,      *)
(* although every server the forwarder asks answers every copy.            *)
OneAnswerPerTry ==
  \A q \in Queries :
    got[q] + Copies(AnswerDatagram(q)) <= tries[q]

(* A question that was asked is answered to one of its askers at least, or *)
(* refused to one of them, unless a datagram of that very question is lost *)
(* (or the answer takes TIMEOUT seconds, which the instance leaves out).   *)
(* A second asker, a repeat, both servers' answers, a pool that is full    *)
(* and losses of other questions may not stop it: resolve() frees and      *)
(* takes again the record the first asker waits for.  Not every asker is   *)
(* answered, see EveryAskerIsASource.                                      *)
AnsweredUnlessLost ==
  \A h \in Questions :
    LET Askers == {q \in Queries : q.question = h /\ tries[q] > 0}
    IN Askers # {} ~> (lost[h] > 0 \/ \E q \in Askers : got[q] > 0 \/ q \in refused)
=============================================================================
