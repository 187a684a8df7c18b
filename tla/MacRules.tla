------------------------------ MODULE MacRules ------------------------------
(***************************************************************************)
(* How a query is matched against rules on hardware addresses              *)
(* (src/dns/server.cpp, receiveRawData and processRequest).                *)
(*                                                                         *)
(* The daemon sees a query twice: as a frame on a raw socket, from which   *)
(* it learns the sender's hardware address, and as a datagram on the UDP   *)
(* socket of its protocol, which it answers.  The two sockets are          *)
(* independent queues of one event loop: their handlers run in any order,  *)
(* and either socket may drop its copy when its buffer is full.  The       *)
(* daemon's own forwarded queries are frames without a datagram; the raw   *)
(* socket also sees everything else on the network.                        *)
(*                                                                         *)
(* A host may take over the IPv4 address of another that left (DHCP).      *)
(***************************************************************************)
EXTENDS EthMappings, Frames

CONSTANTS
  Hosts,      \* machines; a machine stands for its hardware address too
  RuleHosts,  \* the ones a rule on the hardware address exists for
  Ipv4,       \* Ipv4[h]: the IPv4 address of h at the start
  Ipv6,       \* Ipv6[h]: the IPv6 address of h
  FirstFour,  \* FirstFour[a]: the first four bytes of IPv6 address a
  Clock,      \* readings of the wall clock, in seconds
  Layouts,    \* how queries are framed: up to two VLAN tags, length of the IPv4 header
  Noise,      \* other frames on the network, of machines that are no clients
  dnsPort,    \* the port the daemon listens on
  Families,   \* the protocols the hosts use: TRUE for IPv4, FALSE for IPv6
  MayDrop,    \* whether a socket may drop its copy of a query
  MAX_MOVES,  \* bound on how often an address changes hands
  QLEN        \* bound on what waits in a socket

ASSUME HostConstants ==
  /\ RuleHosts \subseteq Hosts
  /\ Ipv4 = [h \in Hosts |-> Ipv4[h]]
  /\ \A g, h \in Hosts : Ipv4[g] = Ipv4[h] \/ Ipv6[g] = Ipv6[h] => g = h
  /\ Clock \subseteq Nat
  /\ \A l \in Layouts : l.tags \in 0 .. VLAN_MAX_DEPTH /\ l.ihl \in 5 .. 15
  /\ Families \subseteq BOOLEAN
  /\ MayDrop \in BOOLEAN
  /\ MAX_MOVES \in Nat
  /\ QLEN \in Nat \ {0}

VARIABLES
  mappings,  \* DnsServer::ethmappings
  raw,       \* frames waiting in the raw socket
  udp,       \* datagrams waiting in the UDP sockets
  addr,      \* addr[h]: the IPv4 address of host h now
  moves,     \* history: how often an address changed hands
  now,       \* the wall clock
  verdict    \* history: the last query evaluated, if a rule exists for its sender:
             \* the sender, whether the table held a record of it, and what decided

vars == <<mappings, raw, udp, addr, moves, now, verdict>>

NoVerdict == [host |-> "none", known |-> FALSE, by |-> "none"]

(* External: the address of a host as the source of a packet, and a query  *)
(* of 17 octets or more in a frame.                                        *)
SourceOf(h, ipv4) == [host |-> h, ipv4 |-> ipv4, address |-> IF ipv4 THEN addr[h] ELSE Ipv6[h]]

QueryFrame(p, layout) ==
  LET f == [size |-> 0, tags |-> layout.tags, type |-> IF p.ipv4 THEN "ipv4" ELSE "ipv6", version |-> 4,
            ihl |-> layout.ihl, protocol |-> "udp", port |-> dnsPort, qr |-> FALSE, source |-> p]
  IN [f EXCEPT !.size = UdpEnd(f) + 17]

Init ==
  /\ mappings = <<>>
  /\ raw = <<>> /\ udp = <<>>
  /\ addr = Ipv4 /\ moves = 0
  /\ now \in Clock
  /\ verdict = NoVerdict

(* A host sends a query; it gets into both sockets, or only one of them.   *)
HostQuery(h, ipv4) ==
  /\ \E copies \in (SUBSET {"raw", "udp"}) \ {{}} :
       /\ copies # {"raw", "udp"} => MayDrop
       /\ "raw" \in copies => Len(raw) < QLEN
       /\ "udp" \in copies => Len(udp) < QLEN
       /\ IF "raw" \in copies
          THEN \E layout \in Layouts : raw' = Append(raw, QueryFrame(SourceOf(h, ipv4), layout))
          ELSE UNCHANGED raw
       /\ udp' = IF "udp" \in copies THEN Append(udp, SourceOf(h, ipv4)) ELSE udp
  /\ UNCHANGED <<mappings, addr, moves, now, verdict>>

(* receiveRawData.  The handler passes ipv4 = true whatever the frame      *)
(* holds, so Add copies the first four bytes of the source address.        *)
IpSource(p) == IF p.ipv4 THEN p.address ELSE FirstFour[p.address]

Received(f) ==
  \E learn \in Teaches(f, dnsPort) :
    mappings' = IF learn THEN Add(mappings, f.source.host, TRUE, IpSource(f.source), now) ELSE mappings

receiveRawData ==
  /\ raw # <<>>
  /\ Received(Head(raw))
  /\ raw' = Tail(raw)
  /\ UNCHANGED <<udp, addr, moves, now, verdict>>

(* A frame of another machine, or of another kind.  How long it waited, in *)
(* front of queries or behind them, makes no difference to its handler.    *)
OtherFrame ==
  /\ \E f \in Noise : Received(f)
  /\ UNCHANGED <<raw, udp, addr, moves, now, verdict>>

(* processRequest: the hardware address of the sender, all zeroes when     *)
(* unknown, and the rule engine's verdict by it.                           *)
EthAddressOf(p) == {mappings[i].ethaddress : i \in LookUp(mappings, p.address, p.ipv4)}

processRequest ==
  /\ udp # <<>>
  /\ verdict' =
       IF Head(udp).host \notin RuleHosts THEN NoVerdict
       ELSE [host  |-> Head(udp).host,
             known |-> \E i \in DOMAIN mappings : mappings[i].ethaddress = Head(udp).host,
             by    |-> IF EthAddressOf(Head(udp)) \cap RuleHosts # {} THEN "rule" ELSE "policy"]
  /\ udp' = Tail(udp)
  /\ UNCHANGED <<mappings, raw, addr, moves, now>>

Tick ==
  /\ now' \in Clock \ {now}
  /\ UNCHANGED <<mappings, raw, udp, addr, moves, verdict>>

(* Host g leaves and h gets its IPv4 address; g is given the one of h when *)
(* it returns.  Nothing sent before is still on the way.                   *)
Move(g, h) ==
  /\ g # h
  /\ moves < MAX_MOVES
  /\ raw = <<>> /\ udp = <<>>
  /\ addr' = [addr EXCEPT ![g] = addr[h], ![h] = addr[g]]
  /\ moves' = moves + 1
  /\ UNCHANGED <<mappings, raw, udp, now, verdict>>

Next ==
  \/ \E h \in Hosts, ipv4 \in Families : HostQuery(h, ipv4)
  \/ OtherFrame
  \/ receiveRawData
  \/ processRequest
  \/ Tick
  \/ \E g, h \in Hosts : Move(g, h)

Spec == Init /\ [][Next]_vars

-----------------------------------------------------------------------------
Addresses == {Ipv4[h] : h \in Hosts} \cup {Ipv6[h] : h \in Hosts}
             \cup {FirstFour[Ipv6[h]] : h \in Hosts}
PacketType == [host : Hosts, ipv4 : BOOLEAN, address : Addresses]

(* Frames that are no queries: responses, what goes to other ports, what   *)
(* is neither IP nor UDP or has more than two tags, bad IPv4 headers, and  *)
(* what is cut before the DNS header.  Of a frame that is cut behind its   *)
(* id the daemon does not know, nor of the machine that sent it.           *)
CutAtFlags(f) == f.size = UdpEnd(f) + 2
Strangers == {f.source : f \in {g \in Noise : CutAtFlags(g)}}

IsFrame(f) == f.tags \in Nat /\ f.size \in Nat /\ f.ihl \in Nat
NoQuery(f) ==
  \/ f.port # dnsPort \/ f.protocol # "udp" \/ f.type \notin {"ipv4", "ipv6"}
  \/ f.tags > VLAN_MAX_DEPTH
  \/ f.type = "ipv4" /\ (f.version # 4 \/ f.ihl < 5)
  \/ f.size < UdpEnd(f) + 2
  \/ f.qr = TRUE /\ ~CutAtFlags(f)

(* What is supposed of the network: nobody but the hosts sends queries and *)
(* nobody else sends from a host's IPv4 address, nor does it equal the     *)
(* first four bytes of an IPv6 address.                                    *)
OnlyHostsAsk == \A f \in Noise : IsFrame(f) /\ (NoQuery(f) \/ CutAtFlags(f))
PrefixesApart == \A g, h \in Hosts : FirstFour[Ipv6[g]] # Ipv4[h]
NoForgery == \A s \in Strangers, h \in Hosts : IpSource(s) = Ipv4[h] => s.host = h

(* The shape of the state: the table never exceeds its array, and only     *)
(* clients are in it, and machines whose frames are cut behind the id,     *)
(* whatever else the raw socket sees (the answers of the upstream servers  *)
(* go to the daemon's port, too).                                          *)
MacTypeOK ==
  /\ mappings \in Seq([ethaddress : Hosts \cup {s.host : s \in Strangers}, ipv4 : BOOLEAN,
                       ipaddress : Addresses \cup {IpSource(s) : s \in Strangers}, time : Clock])
  /\ Len(mappings) <= MAX_MAC_IP_MAPPINGS
  /\ \A i \in DOMAIN raw : raw[i].source \in PacketType
  /\ udp \in Seq(PacketType)
  /\ addr \in [Hosts -> Addresses] /\ moves \in 0 .. MAX_MOVES
  /\ now \in Clock
  /\ verdict \in [host : RuleHosts, known : BOOLEAN, by : {"rule", "policy"}] \cup {NoVerdict}

(* A hardware address has one record, also across replacements in a full   *)
(* table, so a refresh never leaves an old address of the machine behind.  *)
OneRecordPerMac ==
  \A i, j \in DOMAIN mappings : mappings[i].ethaddress = mappings[j].ethaddress => i = j

(* Until an address changes hands a client is never taken for another      *)
(* machine: what LookUp finds for its address is its own hardware address, *)
(* whatever was refused or replaced in the table, by whichever machine it  *)
(* knows or takes for a client, and however the handlers of the two        *)
(* sockets interleave.                                          *)
NeverAnotherMac ==
  moves = 0 => \A h \in Hosts :
    EthAddressOf(SourceOf(h, TRUE)) \cup EthAddressOf(SourceOf(h, FALSE)) \subseteq {h}

(* A mapping confirmed no more than MAPPING_TIMEOUT seconds ago is not     *)
(* given up for another machine, full table or not.                        *)
RecentMappingKept ==
  [][\A i \in DOMAIN mappings : now - mappings[i].time <= MAPPING_TIMEOUT =>
       mappings'[i].ethaddress = mappings[i].ethaddress]_vars

(* The frame of a query over IPv4, with up to two tags and with or without *)
(* options, teaches the sender's addresses, unless the table is full and   *)
(* one of its records is recent.                                           *)
QueriesTeach ==
  [][Len(raw') < Len(raw) /\ Head(raw).source.ipv4 =>
       \/ \E i \in DOMAIN mappings' :
            /\ mappings'[i].ethaddress = Head(raw).source.host
            /\ mappings'[i].ipaddress = Head(raw).source.address
            /\ mappings'[i].time = now
       \/ /\ Len(mappings) = MAX_MAC_IP_MAPPINGS
          /\ \E i \in DOMAIN mappings : now - mappings[i].time <= MAPPING_TIMEOUT]_vars

(* README.md:162, "if DNS query comes from the machine with the above MAC  *)
(* address, it is resolved using configured DNS": every query from a       *)
(* machine that is in the table and still has its address.                 *)
RuleAppliesToKnown ==
  verdict.host \in RuleHosts /\ verdict.known /\ moves = 0 => verdict.by = "rule"
=============================================================================
