---------------------------- MODULE PeerRequests ----------------------------
(***************************************************************************)
(* The pool of outstanding client queries: class PeerRequests              *)
(* (include/bookkeeping/peer.hpp, src/bookkeeping/peer.cpp).               *)
(*                                                                         *)
(* The pool is a value, and its methods are operators on it; the state     *)
(* that holds it belongs to DnsServer.  `records' is a sequence in order   *)
(* of allocation: the code pushes a new record at the front of a linked    *)
(* list and walks it from the front, that is from the last index down.     *)
(*                                                                         *)
(* A record is                                                             *)
(*   sentTo   the pointer is non-null, i.e. the record is in use           *)
(*            (which server it names is never read),                       *)
(*   newId    the id the query was forwarded with,                         *)
(*   hash     the digest of its question section (SHA-256 is taken to be   *)
(*            injective, so the digest is the question),                   *)
(*   time     the clock when the record was taken,                         *)
(*   source   the client: its endpoint and the id it used.                 *)
(* The code means to link the sources of further clients behind the first  *)
(* one (source.next).  The first attempt is undefined behaviour, see       *)
(* ResolveJoin in DnsServer, so no defined state has such a chain.         *)
(* flags is 0 in every record, so the flag mask of LookupByQuery never     *)
(* rejects one; fromTimedOut is written and never read.                    *)
(***************************************************************************)
EXTENDS Integers, Sequences, FiniteSets

CONSTANTS
  TIMEOUT,          \* seconds, 10 in the code
  MAX_FWD_QUERIES,  \* 150 in the code
  ID_MAX            \* largest 16-bit query id, 0xffff in the code

ASSUME PoolConstants ==
  /\ TIMEOUT \in Nat \ {0}
  /\ MAX_FWD_QUERIES \in Nat \ {0}
  /\ ID_MAX \in Nat
  /\ MAX_FWD_QUERIES <= ID_MAX

Ids == 0 .. ID_MAX

(* A client as a record remembers it (addSource).                          *)
Source(q) == [endpoint |-> q.endpoint, originalId |-> q.id]

(* The clients a record answers: the walk over source and source.next.     *)
SourcesOf(r) == {r.source}

InUse(rs) == {k \in DOMAIN rs : rs[k].sentTo}

Age(r, t) == t - r.time

(* Mutant: the comparison the other way round.                             *)
HasTimedOutReversed(r) == r.time < TIMEOUT

(* HasTimedOut compares the absolute time of the record with TIMEOUT.      *)
HasTimedOut(r) == r.time > TIMEOUT

(* Mutant: sentTo is not reset.                                            *)
FreedInUse(r) == r

(* FreePeerRequestRecord: the source, the id, the hash and the time stay   *)
(* as they were.                                                           *)
Freed(r) == [r EXCEPT !.sentTo = FALSE]

-----------------------------------------------------------------------------
(* GetNewRecord.  First the walk over the list: records of age 4 * TIMEOUT *)
(* are collected, and the ones in use and younger than TIMEOUT counted.    *)
Collectable(rs, t) == {k \in InUse(rs) : Age(rs[k], t) >= 4 * TIMEOUT}

Collect(rs, t) ==
  [k \in DOMAIN rs |-> IF k \in Collectable(rs, t) THEN Freed(rs[k]) ELSE rs[k]]

Young(rs, t) == {k \in InUse(rs) : Age(rs[k], t) < TIMEOUT}

(* The walk ends with no record to give: the query is refused.             *)
MaxedOut(rs, t) == Cardinality(Young(Collect(rs, t), t)) >= MAX_FWD_QUERIES

(* Mutants: free records are not reused; the oldest record is reused       *)
(* whatever its age.                                                       *)
TargetNotFree(rs, t) ==
  {k \in InUse(rs) : /\ Age(rs[k], t) >= TIMEOUT
                     /\ \A j \in InUse(rs) :
                          rs[k].time < rs[j].time \/ (rs[k].time = rs[j].time /\ k <= j)}
TargetOfAnyAge(rs, t) ==
  LET free == DOMAIN rs \ InUse(rs)
  IN IF free # {} THEN {k \in free : \A j \in free : k <= j}
     ELSE {k \in InUse(rs) : \A j \in InUse(rs) :
             rs[k].time < rs[j].time \/ (rs[k].time = rs[j].time /\ k <= j)}

(* The record the walk leaves in `target': the last free one it meets,     *)
(* else the oldest one in use (of equal ones the last) once its age        *)
(* reaches TIMEOUT.  Empty when a new record must be allocated.            *)
Target(rs, t) ==
  LET free   == DOMAIN rs \ InUse(rs)
      oldest == {k \in InUse(rs) : \A j \in InUse(rs) :
                    \/ rs[k].time < rs[j].time
                    \/ rs[k].time = rs[j].time /\ k <= j}
  IN IF free # {} THEN {k \in free : \A j \in free : k <= j}
                  ELSE {k \in oldest : Age(rs[k], t) >= TIMEOUT}

(* The pool when GetNewRecord returns.                                     *)
Evict(rs, t) ==
  LET c == Collect(rs, t)
  IN [k \in DOMAIN c |-> IF k \in Target(c, t) THEN Freed(c[k]) ELSE c[k]]

(* The pool after GetNewRecord gave out a record that now holds r.         *)
PlaceRecord(rs, t, r) ==
  LET c == Collect(rs, t)
  IN IF Target(c, t) = {} THEN Append(c, r)
     ELSE [k \in DOMAIN c |-> IF k \in Target(c, t) THEN r ELSE c[k]]

-----------------------------------------------------------------------------
(* The first record the walk from the front finds, as a set of at most one *)
(* index.                                                                  *)
First(S) == {k \in S : \A j \in S : j <= k}

Lookup(rs, id, hash) ==
  First({k \in InUse(rs) : rs[k].newId = id /\ rs[k].hash = hash})

(* Mutant: the walk stops before the last record of the list.              *)
LookupByQueryShort(rs, hash) == First({k \in InUse(rs) : rs[k].hash = hash /\ k > 1})

LookupByQuery(rs, hash) == First({k \in InUse(rs) : rs[k].hash = hash})

(* Mutants: the range is one too wide; an id in use is accepted; the   *)
(* ids of free records are avoided too.                                    *)
NewIdsTooWide(rs) == (1 .. ID_MAX + 1) \ {rs[k].newId : k \in InUse(rs)}
NewIdsUnchecked(rs) == 1 .. ID_MAX
NewIdsOfAll(rs) == (1 .. ID_MAX) \ {rs[k].newId : k \in DOMAIN rs}

(* GetNewId draws until it has an id in 1 .. 0xffff no record in use has.  *)
NewIds(rs) == (1 .. ID_MAX) \ {rs[k].newId : k \in InUse(rs)}
=============================================================================
