----------------------------- MODULE MCDnsSystem -----------------------------
(* Small instances of DnsSystem for TLC.                                   *)
EXTENDS DnsSystem

Query(e, i, h) == [endpoint |-> e, id |-> i, question |-> h]

(* Two clients ask one question and one of them another, with ids that     *)
(* meet the ids the forwarder draws.                                       *)
SharedQuestion == {Query("c1", 1, "a"), Query("c2", 0, "a"), Query("c2", 1, "b")}

SysConfigs == {{[endpoint |-> s, protocol |-> "udp"] : s \in Servers}}

(* Past TIMEOUT, as a real clock is.  With TIMEOUT = 2 no query is ever    *)
(* TIMEOUT seconds old.                                                    *)
SysClock == {3, 4}
==============================================================================
