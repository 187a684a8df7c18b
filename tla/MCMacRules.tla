----------------------------- MODULE MCMacRules -----------------------------
(* Machines, one more than the table has room for.                         *)
EXTENDS MacRules

MCIpv4 == [h \in Hosts |-> <<4, h>>]
MCIpv6 == [h \in Hosts |-> <<6, h>>]
MCLayouts == {[tags |-> 0, ihl |-> 5], [tags |-> 2, ihl |-> 6]}

(* Frames of a router, the answer of an upstream server, a query to the    *)
(* port of another service, a query with three tags, an ARP request, a TCP *)
(* segment, IPv4 headers that are too short or not of version 4, and       *)
(* frames that are cut within each header; and a frame of a printer that   *)
(* ends behind the id of a DNS header.                                     *)
Answer == [size |-> 80, tags |-> 0, type |-> "ipv4", version |-> 4, ihl |-> 5, protocol |-> "udp",
           port |-> dnsPort, qr |-> TRUE,
           source |-> [host |-> "router", ipv4 |-> TRUE, address |-> <<4, "server">>]]
MCNoise ==
  {Answer,
   [Answer EXCEPT !.port = 5353, !.qr = FALSE],
   [Answer EXCEPT !.tags = 3, !.qr = FALSE],
   [Answer EXCEPT !.type = "arp"],
   [Answer EXCEPT !.protocol = "tcp", !.qr = FALSE],
   [Answer EXCEPT !.ihl = 4, !.qr = FALSE],
   [Answer EXCEPT !.version = 6, !.qr = FALSE]}
  \cup {[Answer EXCEPT !.size = n, !.qr = FALSE] : n \in {13, 33, 41, 43}}
  \cup {[Answer EXCEPT !.size = 40, !.type = "ipv6", !.qr = FALSE],
        [Answer EXCEPT !.size = 17, !.tags = 1, !.qr = FALSE],
        [Answer EXCEPT !.size = 44, !.source = [host |-> "printer", ipv4 |-> TRUE,
                                                address |-> <<4, "printer">>]]}

SamePrefix == [a \in {<<6, h>> : h \in Hosts} |-> <<4, "fe80">>]

ASSUME Network == OnlyHostsAsk /\ PrefixesApart /\ NoForgery
=============================================================================
