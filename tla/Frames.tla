-------------------------------- MODULE Frames --------------------------------
(***************************************************************************)
(* A frame of the raw socket: InPacket::Read (src/net/packet.cpp) and the  *)
(* filter of receiveRawData (src/dns/server.cpp).                          *)
(*                                                                         *)
(* A frame is a record: its size in octets, the number of its VLAN tags,   *)
(* the type behind them, the version and length field of an IPv4 header,   *)
(* the protocol, the destination port, whether the QR bit of the DNS       *)
(* header is set, and the source addresses.  Read goes through the headers *)
(* by their sizes and compares each with what was received.                *)
(***************************************************************************)
EXTENDS Naturals

ETH_HDR_SIZE == 14
VLAN_HDR_SIZE == 4
VLAN_MAX_DEPTH == 2
IPV4_HDR_SIZE == 20
IPV6_HDR_SIZE == 40
UDP_HDR_SIZE == 8

(* Where the headers end.  Tags beyond the second are not read, and what   *)
(* is taken for the type is that of a tag.                                 *)
TagsRead(f) == IF f.tags <= VLAN_MAX_DEPTH THEN f.tags ELSE VLAN_MAX_DEPTH
EthProtocol(f) == IF f.tags <= VLAN_MAX_DEPTH THEN f.type ELSE "vlan"
EthEnd(f) == ETH_HDR_SIZE + TagsRead(f) * VLAN_HDR_SIZE
IpEnd(f) == EthEnd(f) + IF EthProtocol(f) = "ipv4" THEN 4 * f.ihl ELSE IPV6_HDR_SIZE
UdpEnd(f) == IpEnd(f) + UDP_HDR_SIZE

(* An IPv4 header as it should be: at least 20 octets, all received.       *)
Ipv4HeaderOK(f) ==
  /\ f.size >= EthEnd(f) + IPV4_HDR_SIZE
  /\ f.version = 4 /\ 4 * f.ihl >= IPV4_HDR_SIZE
  /\ f.size >= IpEnd(f)

Read(f) ==
  CASE f.size < EthEnd(f)                                  -> "FORMERR"
    [] EthProtocol(f) \notin {"ipv4", "ipv6"}              -> "NOTIMP"
    [] EthProtocol(f) = "ipv4" /\ ~Ipv4HeaderOK(f)         -> "FORMERR"
    [] EthProtocol(f) = "ipv6" /\ f.size < IpEnd(f)        -> "FORMERR"
    [] f.protocol # "udp"                                  -> "NOTIMP"
    [] f.size < UdpEnd(f)                                  -> "FORMERR"
    [] OTHER                                               -> "NOERROR"

(* Is the QR bit clear?  It is in the third octet, and two are checked for *)
(* (pos + 2 > size): the third may be left from an earlier frame.          *)
NotAResponse(f) ==
  CASE f.size < UdpEnd(f) + 2 -> {FALSE}
    [] f.size = UdpEnd(f) + 2 -> BOOLEAN
    [] OTHER                  -> {~f.qr}

(* Mutants: responses are not told from queries; tags are not skipped.     *)
TeachesAnyway(f, dnsPort) ==
  IF Read(f) = "NOERROR" /\ f.port = dnsPort THEN {TRUE} ELSE {FALSE}
TeachesUntagged(f, dnsPort) ==
  IF f.tags = 0 /\ Read(f) = "NOERROR" /\ f.port = dnsPort THEN NotAResponse(f) ELSE {FALSE}

(* Whether a frame is taken as a query to the daemon, from which it learns *)
(* the sender's addresses: one value, or both.                             *)
Teaches(f, dnsPort) ==
  IF Read(f) = "NOERROR" /\ f.port = dnsPort THEN NotAResponse(f) ELSE {FALSE}
===============================================================================
