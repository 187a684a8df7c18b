----------------------------- MODULE EthMappings -----------------------------
(***************************************************************************)
(* The table from client addresses to hardware addresses: class            *)
(* EthMappings (src/bookkeeping/ethmappings.cpp).                          *)
(*                                                                         *)
(* The table is a value: a sequence of at most MAX_MAC_IP_MAPPINGS records *)
(* [ethaddress, ipv4, ipaddress, time] in order of the array; the records  *)
(* behind `count' are never read.                                          *)
(***************************************************************************)
EXTENDS Integers, Sequences

CONSTANTS
  MAX_MAC_IP_MAPPINGS,  \* 100 in the code
  MAPPING_TIMEOUT       \* seconds, TIMEOUT 5 in the code

ASSUME MappingConstants ==
  /\ MAX_MAC_IP_MAPPINGS \in Nat \ {0}
  /\ MAPPING_TIMEOUT \in Nat

(* The record the walk leaves in `oldest': the first of those with the     *)
(* latest time (the pointer moves on when oldest->time < r.time).          *)
Oldest(rs) ==
  {i \in DOMAIN rs : \A j \in DOMAIN rs :
     rs[j].time < rs[i].time \/ (rs[j].time = rs[i].time /\ i <= j)}

(* Mutants: the hardware address is not looked for first; the record is    *)
(* replaced whatever its age.                                              *)
SlotWithoutSearch(rs, ethaddress, t) ==
  IF Len(rs) < MAX_MAC_IP_MAPPINGS THEN {Len(rs) + 1}
  ELSE {i \in Oldest(rs) : t - rs[i].time > MAPPING_TIMEOUT}
SlotOfAnyAge(rs, ethaddress, t) ==
  LET same == {i \in DOMAIN rs : rs[i].ethaddress = ethaddress}
  IN IF same # {} THEN same
     ELSE IF Len(rs) < MAX_MAC_IP_MAPPINGS THEN {Len(rs) + 1} ELSE Oldest(rs)

(* The slot Add uses, as a set of at most one index: the record of that    *)
(* hardware address, a new one, or `oldest' once MAPPING_TIMEOUT is past.  *)
Slot(rs, ethaddress, t) ==
  LET same == {i \in DOMAIN rs : rs[i].ethaddress = ethaddress}
  IN IF same # {} THEN {i \in same : \A j \in same : i <= j}
     ELSE IF Len(rs) < MAX_MAC_IP_MAPPINGS THEN {Len(rs) + 1}
     ELSE {i \in Oldest(rs) : t - rs[i].time > MAPPING_TIMEOUT}

(* Mutant: a record that is reused keeps its hardware address.             *)
AddKeepingMac(rs, ethaddress, ipv4, ipaddress, t) ==
  LET slot == Slot(rs, ethaddress, t)
  IN [i \in DOMAIN rs \cup slot |->
       IF i \in slot
       THEN [ethaddress |-> IF i \in DOMAIN rs THEN rs[i].ethaddress ELSE ethaddress,
             ipv4 |-> ipv4, ipaddress |-> ipaddress, time |-> t]
       ELSE rs[i]]

Add(rs, ethaddress, ipv4, ipaddress, t) ==
  LET slot == Slot(rs, ethaddress, t)
      r    == [ethaddress |-> ethaddress, ipv4 |-> ipv4, ipaddress |-> ipaddress, time |-> t]
  IN [i \in DOMAIN rs \cup slot |-> IF i \in slot THEN r ELSE rs[i]]

(* The first record with that address, as a set of at most one index.      *)
LookUp(rs, ipaddress, ipv4) ==
  LET found == {i \in DOMAIN rs : rs[i].ipv4 = ipv4 /\ rs[i].ipaddress = ipaddress}
  IN {i \in found : \A j \in found : i <= j}
=============================================================================
