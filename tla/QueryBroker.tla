----------------------------- MODULE QueryBroker -----------------------------
(***************************************************************************)
(* What the forwarder promises its clients, without ids, pool or nodes.    *)
(* It keeps a set of open questions, each with the clients to be answered  *)
(* and the time it was opened.  A question is open at most once; an answer *)
(* closes it and goes to those clients, each exactly once; a question is   *)
(* given up only when it has been open for Timeout seconds or the process  *)
(* ends.  Who asks a question that is open gets no promise (Silent).       *)
(***************************************************************************)
EXTENDS Integers

CONSTANTS Queries, Clock, Timeout

VARIABLES
  open,       \* records [question, since, askers]
  delivered,  \* answers handed out in the last step: [endpoint, id, question]
  up,
  now

bvars == <<open, delivered, up, now>>

Asker(q) == [endpoint |-> q.endpoint, originalId |-> q.id]

Expired == {o \in open : now - o.since >= Timeout}

BrokerInit ==
  /\ open = {} /\ delivered = {}
  /\ up = TRUE
  /\ now \in Clock

OpenQuestion(q) ==
  /\ up
  /\ \A o \in open : o.question # q.question
  /\ \E gone \in SUBSET Expired :
       open' = (open \ gone) \cup
               {[question |-> q.question, since |-> now, askers |-> {Asker(q)}]}
  /\ delivered' = {}
  /\ UNCHANGED <<up, now>>

Answer(o) ==
  /\ up
  /\ open' = open \ {o}
  /\ delivered' = {[endpoint |-> a.endpoint, id |-> a.originalId, question |-> o.question] :
                   a \in o.askers}
  /\ UNCHANGED <<up, now>>

(* A step that answers nobody; it may give expired questions up.           *)
Silent ==
  /\ up
  /\ \E gone \in SUBSET Expired : open' = open \ gone
  /\ delivered' = {}
  /\ UNCHANGED <<up, now>>

BrokerTick == now' \in Clock /\ delivered' = {} /\ UNCHANGED <<open, up>>

BrokerStop == up /\ up' = FALSE /\ delivered' = {} /\ UNCHANGED <<open, now>>

BrokerStart == ~up /\ up' = TRUE /\ open' = {} /\ delivered' = {} /\ UNCHANGED now

BrokerNext ==
  \/ \E q \in Queries : OpenQuestion(q)
  \/ \E o \in open : Answer(o)
  \/ Silent
  \/ BrokerTick
  \/ BrokerStop
  \/ BrokerStart

BrokerSpec == BrokerInit /\ [][BrokerNext]_bvars
=============================================================================
