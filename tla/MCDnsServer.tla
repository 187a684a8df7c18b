----------------------------- MODULE MCDnsServer -----------------------------
(* Small instances of DnsServer for TLC.                                   *)
EXTENDS DnsServer

Query(e, i, h) == [endpoint |-> e, id |-> i, question |-> h]
Udp(s) == [endpoint |-> s, protocol |-> "udp"]
Tcp(s) == [endpoint |-> s, protocol |-> "tcp"]

(* Two clients and three questions for a pool of two: two clients ask the  *)
(* same question, one asks two questions.                                  *)
MCQueries == {Query("c1", 1, "a"), Query("c2", 2, "a"), Query("c2", 1, "b"), Query("c1", 2, "c")}

MCConfigs == {{Udp("s1"), Tcp("s2")}, {Tcp("s1")}}

(* Clocks for TIMEOUT = 1.  Ages are negative (the clock was set back),    *)
(* 0 < TIMEOUT, 1 and 3 >= TIMEOUT, 4 >= 4 * TIMEOUT.  1 is the last       *)
(* reading near the epoch; a real clock has only the others.               *)
MCClock == {1, 2, 5}
RealClock == {2, 5}
==============================================================================
