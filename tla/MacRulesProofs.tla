---------------------------- MODULE MacRulesProofs ----------------------------
(***************************************************************************)
(* Proofs about MacRules, for any number of machines, sizes of the table   *)
(* and queues, frames and clocks.                                          *)
(***************************************************************************)
EXTENDS MacRules, NatFacts, SequenceTheorems, TLAPS

(* Everything that may be filed: what frames of other machines say, too.   *)
Machines == Hosts \cup {f.source.host : f \in Noise}
Filed == Addresses \cup {IpSource(f.source) : f \in Noise}
Records == [ethaddress : Machines, ipv4 : {TRUE}, ipaddress : Filed, time : Clock]

(* Sources of packets, and the frames of queries from such.                *)
Sources == {p \in PacketType : ~p.ipv4 => p.address = Ipv6[p.host]}
FramesOf(S) == {QueryFrame(p, layout) : p \in S, layout \in Layouts}

StateInv ==
  /\ mappings \in Seq(Records)
  /\ Len(mappings) <= MAX_MAC_IP_MAPPINGS
  /\ OneRecordPerMac
  /\ raw \in Seq(FramesOf(Sources))
  /\ udp \in Seq(Sources)
  /\ addr \in [Hosts -> Addresses]
  /\ now \in Clock
  /\ moves \in 0 .. MAX_MOVES
  /\ verdict \in [host : RuleHosts, known : BOOLEAN, by : {"rule", "policy"}] \cup {NoVerdict}

LEMMA SourceOfQuery ==
  ASSUME NEW p, NEW layout
  PROVE  QueryFrame(p, layout).source = p
BY DEF QueryFrame

-----------------------------------------------------------------------------
(* The slot of Add: the machine's own record, a new one while there is     *)
(* room, or one whose time is past; there is one at most.                  *)
LEMMA SlotProperties ==
  ASSUME StateInv, NEW e, NEW i \in Slot(mappings, e, now)
  PROVE  /\ i \in 1 .. Len(mappings) + 1
         /\ i = Len(mappings) + 1 => Len(mappings) < MAX_MAC_IP_MAPPINGS
         /\ \A j \in DOMAIN mappings : mappings[j].ethaddress = e => i = j
         /\ i \in DOMAIN mappings /\ mappings[i].ethaddress # e =>
              now - mappings[i].time > MAPPING_TIMEOUT
         /\ \A j \in Slot(mappings, e, now) : i = j
<1> USE MappingConstants, HostConstants
<1> DEFINE same == {j \in DOMAIN mappings : mappings[j].ethaddress = e}
<1>1. mappings \in Seq(Records) /\ Len(mappings) \in Nat /\ DOMAIN mappings = 1 .. Len(mappings)
  BY DEF StateInv
<1>2. CASE same # {}
  <2>1. i \in same
    BY <1>2 DEF Slot
  <2>2. \A j \in same : i = j
    BY <2>1 DEF StateInv, OneRecordPerMac
  <2>3. \A j \in Slot(mappings, e, now) : j \in same
    BY <1>2 DEF Slot
  <2>4. QED
    BY <1>1, <2>1, <2>2, <2>3
<1>3. CASE same = {} /\ Len(mappings) < MAX_MAC_IP_MAPPINGS
  <2>1. Slot(mappings, e, now) = {Len(mappings) + 1}
    BY <1>3 DEF Slot
  <2>2. QED
    BY <1>1, <1>3, <2>1
<1>4. CASE same = {} /\ ~(Len(mappings) < MAX_MAC_IP_MAPPINGS)
  <2>1. Slot(mappings, e, now) =
          {j \in Oldest(mappings) : now - mappings[j].time > MAPPING_TIMEOUT}
    BY <1>4, Zenon DEF Slot
  <2>2. \A j \in DOMAIN mappings : mappings[j].time \in Nat
    <3>1. \A j \in DOMAIN mappings : mappings[j] \in Records
      BY <1>1, ElementOfSeq
    <3>2. \A x \in Records : x.time \in Clock
      BY DEF Records
    <3>3. QED
      BY <3>1, <3>2
  <2>3. i \in DOMAIN mappings
    BY <2>1 DEF Oldest
  <2>4. \A j \in Oldest(mappings) : i = j
    BY <1>1, <2>1, <2>2 DEF Oldest
  <2>5. QED
    BY <1>1, <1>4, <2>1, <2>3, <2>4
<1>5. QED
  BY <1>2, <1>3, <1>4

(* Add keeps the table a sequence within its array, with one record per    *)
(* hardware address.                                                       *)
LEMMA AddProperties ==
  ASSUME StateInv, NEW e \in Machines, NEW a \in Filed
  PROVE  LET new == Add(mappings, e, TRUE, a, now)
         IN /\ new \in Seq(Records)
            /\ Len(new) <= MAX_MAC_IP_MAPPINGS
            /\ \A i, j \in DOMAIN new : new[i].ethaddress = new[j].ethaddress => i = j
            /\ DOMAIN mappings \subseteq DOMAIN new
            /\ \A i \in DOMAIN new :
                 \/ i \in DOMAIN mappings /\ new[i] = mappings[i]
                 \/ i \in Slot(mappings, e, now) /\ new[i].ethaddress = e /\ new[i].ipaddress = a
<1> USE MappingConstants
<1> DEFINE slot == Slot(mappings, e, now)
           r == [ethaddress |-> e, ipv4 |-> TRUE, ipaddress |-> a, time |-> now]
           new == [i \in DOMAIN mappings \cup slot |-> IF i \in slot THEN r ELSE mappings[i]]
           n == Len(mappings)
<1>1. mappings \in Seq(Records) /\ n \in Nat /\ DOMAIN mappings = 1 .. n /\ n <= MAX_MAC_IP_MAPPINGS
  BY DEF StateInv
<1>2. r \in Records /\ r.ethaddress = e /\ r.ipaddress = a
  BY DEF Records, StateInv
<1>3. Add(mappings, e, TRUE, a, now) = new
  BY DEF Add
<1>4. \A i \in slot :
        /\ i \in 1 .. n + 1
        /\ i = n + 1 => n < MAX_MAC_IP_MAPPINGS
        /\ \A j \in 1 .. n : mappings[j].ethaddress = e => i = j
        /\ \A j \in slot : i = j
  BY <1>1, SlotProperties
<1> HIDE DEF slot, r
<1>5. \E m \in 0 .. MAX_MAC_IP_MAPPINGS : n <= m /\ DOMAIN mappings \cup slot = 1 .. m
  <2>1. CASE n + 1 \in slot
    <3>1. 1 .. n \cup slot = 1 .. n + 1
      BY <1>1, <1>4, <2>1
    <3>2. QED
      BY <1>1, <1>4, <2>1, <3>1
  <2>2. CASE n + 1 \notin slot
    <3>1. 1 .. n \cup slot = 1 .. n
      BY <1>1, <1>4, <2>2
    <3>2. QED
      BY <1>1, <3>1
  <2>3. QED
    BY <2>1, <2>2
<1>6. PICK m \in 0 .. MAX_MAC_IP_MAPPINGS : n <= m /\ DOMAIN mappings \cup slot = 1 .. m
  BY <1>5
<1>7. \A i \in 1 .. m : (i \in slot /\ new[i] = r) \/ (i \in 1 .. n /\ i \notin slot /\ new[i] = mappings[i])
  <2>1. new = [i \in 1 .. m |-> IF i \in slot THEN r ELSE mappings[i]]
    BY <1>6, Zenon
  <2>2. \A i \in 1 .. m : i \in slot \/ i \in 1 .. n
    BY <1>1, <1>6
  <2>3. QED
    BY <2>1, <2>2, Zenon
<1>8. \A i \in 1 .. n : mappings[i] \in Records
  BY <1>1, ElementOfSeq
<1>9. new \in [1 .. m -> Records]
  <2>1. \A i \in 1 .. m : new[i] \in Records
    BY <1>2, <1>7, <1>8, Zenon
  <2>2. new = [i \in 1 .. m |-> new[i]]
    BY <1>6, Zenon
  <2> HIDE DEF new
  <2>3. QED
    BY <2>1, <2>2, Zenon
<1>10. new \in Seq(Records) /\ Len(new) = m /\ DOMAIN new = 1 .. m
  <2> HIDE DEF new
  <2>1. m \in Nat
    BY <1>6
  <2>2. QED
    BY <1>9, <2>1
<1>11. \A i, j \in 1 .. m : new[i].ethaddress = new[j].ethaddress => i = j
  <2> SUFFICES ASSUME NEW i \in 1 .. m, NEW j \in 1 .. m, new[i].ethaddress = new[j].ethaddress
               PROVE  i = j
    OBVIOUS
  <2>1. CASE i \in slot /\ j \in slot
    BY <1>4, <2>1
  <2>2. CASE i \in slot /\ j \notin slot
    BY <1>2, <1>4, <1>7, <2>2
  <2>3. CASE i \notin slot /\ j \in slot
    BY <1>2, <1>4, <1>7, <2>3
  <2>4. CASE i \notin slot /\ j \notin slot
    BY <1>1, <1>7, <2>4 DEF StateInv, OneRecordPerMac
  <2>5. QED
    BY <2>1, <2>2, <2>3, <2>4
<1> HIDE DEF new
<1>12. \A i \in 1 .. m : \/ i \in 1 .. n /\ new[i] = mappings[i]
                         \/ i \in slot /\ new[i].ethaddress = e /\ new[i].ipaddress = a
  BY <1>2, <1>7
<1>13. 1 .. n \subseteq 1 .. m
  BY <1>1, <1>6
<1>14. Len(new) <= MAX_MAC_IP_MAPPINGS
  BY <1>10
<1>15. QED
  BY <1>1, <1>3, <1>10, <1>11, <1>12, <1>13, <1>14, Zenon DEF slot

(* What a handled frame does to the table.                                 *)
LEMMA ReceivedProperties ==
  ASSUME StateInv, NEW f, f.source.host \in Machines, IpSource(f.source) \in Filed, Received(f)
  PROVE  /\ mappings' \in Seq(Records)
         /\ Len(mappings') <= MAX_MAC_IP_MAPPINGS
         /\ \A i, j \in DOMAIN mappings' : mappings'[i].ethaddress = mappings'[j].ethaddress => i = j
         /\ DOMAIN mappings \subseteq DOMAIN mappings'
         /\ \A i \in DOMAIN mappings' :
              \/ i \in DOMAIN mappings /\ mappings'[i] = mappings[i]
              \/ /\ TRUE \in Teaches(f, dnsPort)
                 /\ i \in Slot(mappings, f.source.host, now)
                 /\ mappings'[i].ethaddress = f.source.host
                 /\ mappings'[i].ipaddress = IpSource(f.source)
<1> DEFINE new == Add(mappings, f.source.host, TRUE, IpSource(f.source), now)
<1>1. /\ new \in Seq(Records)
      /\ Len(new) <= MAX_MAC_IP_MAPPINGS
      /\ \A i, j \in DOMAIN new : new[i].ethaddress = new[j].ethaddress => i = j
      /\ DOMAIN mappings \subseteq DOMAIN new
      /\ \A i \in DOMAIN new :
           \/ i \in DOMAIN mappings /\ new[i] = mappings[i]
           \/ /\ i \in Slot(mappings, f.source.host, now)
              /\ new[i].ethaddress = f.source.host /\ new[i].ipaddress = IpSource(f.source)
  BY AddProperties
<1> HIDE DEF new
<1>2. PICK learn \in Teaches(f, dnsPort) : mappings' = IF learn THEN new ELSE mappings
  BY DEF Received, new
<1>3. CASE learn
  <2>1. TRUE \in Teaches(f, dnsPort)
    <3>1. learn \in BOOLEAN
      BY <1>2 DEF Teaches, NotAResponse
    <3>2. QED
      BY <1>2, <1>3, <3>1
  <2>2. mappings' = new
    BY <1>2, <1>3
  <2>3. QED
    BY <1>1, <2>1, <2>2, Zenon
<1>4. CASE ~learn
  <2>1. mappings' = mappings
    BY <1>2, <1>4
  <2>2. QED
    BY <2>1, Zenon DEF StateInv, OneRecordPerMac
<1>5. QED
  BY <1>3, <1>4

(* The frames in the raw socket and the other ones name machines.          *)
LEMMA FrameSources ==
  ASSUME NEW S, S \subseteq Sources, NEW f \in FramesOf(S)
  PROVE  f.source \in S /\ f.source.host \in Hosts /\ IpSource(f.source) \in Addresses
<1>1. f.source \in S
  BY SourceOfQuery DEF FramesOf
<1>2. f.source \in PacketType /\ (~f.source.ipv4 => f.source.address = Ipv6[f.source.host])
  BY <1>1 DEF Sources
<1>3. f.source.host \in Hosts /\ f.source.address \in Addresses
  BY <1>2 DEF PacketType
<1>4. QED
  BY <1>1, <1>2, <1>3 DEF IpSource, Addresses

LEMMA SourceOfType ==
  ASSUME StateInv, NEW h \in Hosts, NEW ipv4 \in BOOLEAN
  PROVE  SourceOf(h, ipv4) \in Sources
<1>1. (IF ipv4 THEN addr[h] ELSE Ipv6[h]) \in Addresses
  BY DEF StateInv, Addresses
<1>2. QED
  BY <1>1 DEF SourceOf, Sources, PacketType

(* Every step keeps the invariant.                                         *)
LEMMA StateStep == StateInv /\ [Next]_vars => StateInv'
<1> SUFFICES ASSUME StateInv, [Next]_vars
             PROVE  StateInv'
  OBVIOUS
<1> USE HostConstants
<1>1. ASSUME NEW h \in Hosts, NEW ipv4 \in Families, HostQuery(h, ipv4)
      PROVE  StateInv'
  <2>1. SourceOf(h, ipv4) \in Sources
    BY SourceOfType
  <2> PICK copies \in (SUBSET {"raw", "udp"}) \ {{}} :
         /\ IF "raw" \in copies
            THEN \E layout \in Layouts : raw' = Append(raw, QueryFrame(SourceOf(h, ipv4), layout))
            ELSE UNCHANGED raw
         /\ udp' = IF "udp" \in copies THEN Append(udp, SourceOf(h, ipv4)) ELSE udp
    BY <1>1, Zenon DEF HostQuery
  <2>2. raw' \in Seq(FramesOf(Sources))
    <3>1. \A layout \in Layouts : QueryFrame(SourceOf(h, ipv4), layout) \in FramesOf(Sources)
      BY <2>1 DEF FramesOf
    <3>2. raw' = raw \/ \E layout \in Layouts : raw' = Append(raw, QueryFrame(SourceOf(h, ipv4), layout))
      OBVIOUS
    <3>3. raw \in Seq(FramesOf(Sources))
      BY DEF StateInv
    <3>4. \A x \in FramesOf(Sources) : Append(raw, x) \in Seq(FramesOf(Sources))
      BY <3>3, AppendProperties
    <3>5. QED
      BY <3>1, <3>2, <3>3, <3>4, Zenon
  <2>3. udp' \in Seq(Sources)
    <3>1. udp' = udp \/ udp' = Append(udp, SourceOf(h, ipv4))
      OBVIOUS
    <3>2. QED
      BY <2>1, <3>1, AppendProperties DEF StateInv
  <2>4. QED
    BY <1>1, <2>2, <2>3 DEF HostQuery, StateInv, OneRecordPerMac
<1>2. CASE receiveRawData
  <2>1. Head(raw) \in FramesOf(Sources) /\ Tail(raw) \in Seq(FramesOf(Sources))
    BY <1>2, HeadTailProperties DEF receiveRawData, StateInv
  <2>2. Head(raw).source.host \in Machines /\ IpSource(Head(raw).source) \in Filed
    BY <2>1, FrameSources DEF Machines, Filed
  <2>3. Received(Head(raw))
    BY <1>2 DEF receiveRawData
  <2>4. mappings' \in Seq(Records) /\ Len(mappings') <= MAX_MAC_IP_MAPPINGS /\ OneRecordPerMac'
    BY <2>2, <2>3, ReceivedProperties DEF OneRecordPerMac
  <2>5. QED
    BY <1>2, <2>1, <2>4 DEF receiveRawData, StateInv
<1>3. CASE OtherFrame
  <2>1. PICK f \in Noise : Received(f)
    BY <1>3 DEF OtherFrame
  <2>2. f.source.host \in Machines /\ IpSource(f.source) \in Filed
    BY <2>1 DEF Machines, Filed
  <2>3. mappings' \in Seq(Records) /\ Len(mappings') <= MAX_MAC_IP_MAPPINGS /\ OneRecordPerMac'
    BY <2>1, <2>2, ReceivedProperties DEF OneRecordPerMac
  <2>4. QED
    BY <1>3, <2>3 DEF OtherFrame, StateInv
<1>4. CASE processRequest
  <2>1. Head(udp) \in Sources /\ Tail(udp) \in Seq(Sources)
    BY <1>4, HeadTailProperties DEF processRequest, StateInv
  <2>2. verdict' \in [host : RuleHosts, known : BOOLEAN, by : {"rule", "policy"}] \cup {NoVerdict}
    BY <1>4 DEF processRequest
  <2>3. QED
    BY <1>4, <2>1, <2>2 DEF processRequest, StateInv, OneRecordPerMac
<1>5. CASE Tick
  BY <1>5 DEF Tick, StateInv, OneRecordPerMac
<1>6. ASSUME NEW g \in Hosts, NEW h \in Hosts, Move(g, h)
      PROVE  StateInv'
  <2>1. addr' \in [Hosts -> Addresses] /\ moves' \in 0 .. MAX_MOVES
    BY <1>6 DEF Move, StateInv
  <2>2. QED
    BY <1>6, <2>1 DEF Move, StateInv, OneRecordPerMac
<1>7. CASE UNCHANGED vars
  BY <1>7 DEF vars, StateInv, OneRecordPerMac
<1>8. QED
  BY <1>1, <1>2, <1>3, <1>4, <1>5, <1>6, <1>7 DEF Next

LEMMA StateInit == Init => StateInv
<1> SUFFICES ASSUME Init
             PROVE  StateInv
  OBVIOUS
<1>1. addr \in [Hosts -> Addresses]
  <2>1. \A h \in Hosts : addr[h] \in Addresses
    BY DEF Init, Addresses
  <2>2. addr = [h \in Hosts |-> addr[h]]
    BY HostConstants DEF Init
  <2>3. QED
    BY <2>1, <2>2
<1>2. QED
  BY <1>1, HostConstants, MappingConstants DEF Init, StateInv, OneRecordPerMac

LEMMA StateInvHolds == Spec => []StateInv
BY StateInit, StateStep, PTL DEF Spec

(* A hardware address never has two records, in tables of any size.        *)
THEOREM OneRecordPerMacHolds == Spec => []OneRecordPerMac
<1>1. StateInv => OneRecordPerMac
  BY DEF StateInv
<1>2. QED
  BY <1>1, StateInvHolds, PTL

(* No frame makes the table give up a mapping that was confirmed no more   *)
(* than MAPPING_TIMEOUT seconds ago, whatever the clock was set to.        *)
THEOREM RecentMappingKeptHolds == Spec => RecentMappingKept
<1> DEFINE Kept == \A i \in DOMAIN mappings : now - mappings[i].time <= MAPPING_TIMEOUT =>
                     mappings'[i].ethaddress = mappings[i].ethaddress
<1>1. StateInv /\ [Next]_vars => [Kept]_vars
  <2> SUFFICES ASSUME StateInv, Next
               PROVE  Kept
    OBVIOUS
  <2>1. ASSUME NEW f, f.source.host \in Machines, IpSource(f.source) \in Filed, Received(f)
        PROVE  Kept
    <3> SUFFICES ASSUME NEW i \in DOMAIN mappings, now - mappings[i].time <= MAPPING_TIMEOUT
                 PROVE  mappings'[i].ethaddress = mappings[i].ethaddress
      OBVIOUS
    <3>1. i \in DOMAIN mappings'
      BY <2>1, ReceivedProperties
    <3>2. CASE mappings'[i] = mappings[i]
      BY <3>2
    <3>3. CASE i \in Slot(mappings, f.source.host, now) /\ mappings'[i].ethaddress = f.source.host
      <4>1. now - mappings[i].time \in Int /\ MAPPING_TIMEOUT \in Int
        <5>1. mappings[i] \in Records
          BY ElementOfSeq DEF StateInv
        <5>2. mappings[i].time \in Nat /\ now \in Nat
          BY <5>1, HostConstants DEF Records, StateInv
        <5>3. QED
          BY <5>2, MappingConstants
      <4>2. ~(now - mappings[i].time > MAPPING_TIMEOUT)
        BY <4>1
      <4>3. QED
        BY <3>3, <4>2, SlotProperties
    <3>4. QED
      BY <2>1, <3>1, <3>2, <3>3, ReceivedProperties
  <2>2. CASE receiveRawData
    <3>1. Head(raw) \in FramesOf(Sources) /\ Received(Head(raw))
      BY <2>2, HeadTailProperties DEF receiveRawData, StateInv
    <3>2. Head(raw).source.host \in Machines /\ IpSource(Head(raw).source) \in Filed
      BY <3>1, FrameSources DEF Machines, Filed
    <3>3. QED
      BY <2>1, <3>1, <3>2
  <2>3. CASE OtherFrame
    BY <2>1, <2>3 DEF OtherFrame, Machines, Filed
  <2>4. CASE UNCHANGED mappings
    BY <2>4
  <2>5. QED
    BY <2>2, <2>3, <2>4 DEF Next, HostQuery, processRequest, Tick, Move
<1>2. QED
  BY <1>1, StateInvHolds, PTL DEF Spec, RecentMappingKept

-----------------------------------------------------------------------------
(* Frames that are no queries teach nothing, whole ones and cut ones.      *)
LEMMA NoQueryTeachesNothing ==
  ASSUME NEW f, IsFrame(f), NoQuery(f)
  PROVE  TRUE \notin Teaches(f, dnsPort)
<1>1. UdpEnd(f) \in Nat
  <2>1. EthEnd(f) \in Nat
    BY DEF IsFrame, EthEnd, TagsRead, ETH_HDR_SIZE, VLAN_HDR_SIZE, VLAN_MAX_DEPTH
  <2>2. IpEnd(f) \in Nat
    BY <2>1 DEF IsFrame, IpEnd, IPV6_HDR_SIZE
  <2>3. QED
    BY <2>2 DEF UdpEnd, UDP_HDR_SIZE
<1>2. CASE f.port # dnsPort
  BY <1>2 DEF Teaches
<1>3. CASE f.protocol # "udp" \/ EthProtocol(f) \notin {"ipv4", "ipv6"}
  <2>1. Read(f) # "NOERROR"
    BY <1>3 DEF Read
  <2>2. QED
    BY <2>1 DEF Teaches
<1>4. CASE f.type \notin {"ipv4", "ipv6"} \/ f.tags > VLAN_MAX_DEPTH
  <2>1. EthProtocol(f) \notin {"ipv4", "ipv6"}
    BY <1>4 DEF EthProtocol, IsFrame, VLAN_MAX_DEPTH
  <2>2. QED
    BY <1>3, <2>1
<1>5. CASE f.size < UdpEnd(f) + 2 \/ (f.qr = TRUE /\ f.size # UdpEnd(f) + 2)
  <2>1. CASE f.size < UdpEnd(f) + 2
    <3>1. f.size # UdpEnd(f) + 2
      BY <1>1, <2>1 DEF IsFrame
    <3>2. NotAResponse(f) = {FALSE}
      BY <2>1, <3>1 DEF NotAResponse
    <3>3. QED
      BY <3>2 DEF Teaches
  <2>2. CASE f.qr = TRUE /\ f.size # UdpEnd(f) + 2 /\ ~(f.size < UdpEnd(f) + 2)
    <3>1. NotAResponse(f) = {~f.qr}
      BY <1>1, <2>2 DEF NotAResponse
    <3>2. QED
      BY <2>2, <3>1 DEF Teaches
  <2>3. QED
    BY <1>5, <2>1, <2>2
<1>6. CASE EthProtocol(f) = "ipv4" /\ (f.version # 4 \/ f.ihl < 5)
  <2>1. ~Ipv4HeaderOK(f)
    BY <1>6 DEF Ipv4HeaderOK, IsFrame, IPV4_HDR_SIZE
  <2>2. Read(f) # "NOERROR"
    BY <1>6, <2>1 DEF Read
  <2>3. QED
    BY <2>2 DEF Teaches
<1>7. QED
  BY <1>2, <1>3, <1>4, <1>5, <1>6 DEF NoQuery, CutAtFlags, EthProtocol

(* The records are of hosts, or of strangers; until an address changes     *)
(* hands those of hosts hold the host's own address or what is kept of its *)
(* IPv6 address.                                                           *)
Own == {p \in Sources : p.ipv4 => p.address = Ipv4[p.host]}
OfHost(r) == r.ethaddress \in Hosts /\ r.ipaddress \in Addresses
OfOwner(r) ==
  /\ r.ethaddress \in Hosts
  /\ r.ipaddress \in {Ipv4[r.ethaddress], FirstFour[Ipv6[r.ethaddress]]}
OfStranger(r) == \E s \in Strangers : r.ethaddress = s.host /\ r.ipaddress = IpSource(s)

OwnInv ==
  /\ \A i \in DOMAIN mappings : OfHost(mappings[i]) \/ OfStranger(mappings[i])
  /\ moves = 0 =>
       /\ addr = Ipv4
       /\ raw \in Seq(FramesOf(Own))
       /\ \A i \in DOMAIN mappings : OfOwner(mappings[i]) \/ OfStranger(mappings[i])

LEMMA OwnStep ==
  ASSUME OnlyHostsAsk, StateInv, OwnInv, [Next]_vars
  PROVE  OwnInv'
<1> USE HostConstants
<1>1. ASSUME NEW h \in Hosts, NEW ipv4 \in Families, HostQuery(h, ipv4)
      PROVE  OwnInv'
  <2>1. UNCHANGED <<mappings, addr, moves>>
    BY <1>1 DEF HostQuery
  <2>2. ASSUME moves = 0
        PROVE  raw' \in Seq(FramesOf(Own))
    <3>1. SourceOf(h, ipv4) \in Own
      <4>1. SourceOf(h, ipv4) \in Sources
        BY SourceOfType
      <4>2. QED
        BY <2>2, <4>1 DEF OwnInv, Own, SourceOf
    <3>2. \A layout \in Layouts : QueryFrame(SourceOf(h, ipv4), layout) \in FramesOf(Own)
      BY <3>1 DEF FramesOf
    <3>3. raw' = raw \/ \E layout \in Layouts : raw' = Append(raw, QueryFrame(SourceOf(h, ipv4), layout))
      BY <1>1, Zenon DEF HostQuery
    <3>4. raw \in Seq(FramesOf(Own))
      BY <2>2 DEF OwnInv
    <3>5. \A x \in FramesOf(Own) : Append(raw, x) \in Seq(FramesOf(Own))
      BY <3>4, AppendProperties
    <3>6. QED
      BY <3>2, <3>3, <3>4, <3>5, Zenon
  <2>3. QED
    BY <2>1, <2>2 DEF OwnInv
<1>2. CASE receiveRawData
  <2> DEFINE f == Head(raw)
  <2>1. f \in FramesOf(Sources) /\ Received(f) /\ UNCHANGED <<addr, moves>> /\ raw' = Tail(raw)
    BY <1>2, HeadTailProperties DEF receiveRawData, StateInv
  <2>2. f.source.host \in Hosts /\ IpSource(f.source) \in Addresses
    BY <2>1, FrameSources
  <2>3. f.source.host \in Machines /\ IpSource(f.source) \in Filed
    BY <2>2 DEF Machines, Filed
  <2>4. \A i \in DOMAIN mappings' :
          \/ i \in DOMAIN mappings /\ mappings'[i] = mappings[i]
          \/ /\ mappings'[i].ethaddress = f.source.host
             /\ mappings'[i].ipaddress = IpSource(f.source)
    BY <2>1, <2>3, ReceivedProperties
  <2>5. ASSUME moves = 0
        PROVE  /\ raw' \in Seq(FramesOf(Own))
               /\ IpSource(f.source) \in {Ipv4[f.source.host], FirstFour[Ipv6[f.source.host]]}
    <3>1. raw \in Seq(FramesOf(Own)) /\ raw # <<>>
      BY <1>2, <2>5 DEF OwnInv, receiveRawData
    <3>2. f \in FramesOf(Own) /\ Tail(raw) \in Seq(FramesOf(Own))
      BY <3>1, HeadTailProperties
    <3>3. Own \subseteq Sources
      BY DEF Own
    <3>4. f.source \in Own
      BY <3>2, <3>3, FrameSources
    <3>5. QED
      BY <2>1, <3>2, <3>4 DEF Own, Sources, IpSource
  <2> HIDE DEF f
  <2>6. \A i \in DOMAIN mappings' : OfHost(mappings'[i]) \/ OfStranger(mappings'[i])
    <3>1. \A i \in DOMAIN mappings : OfHost(mappings[i]) \/ OfStranger(mappings[i])
      BY DEF OwnInv
    <3>2. \A x : x.ethaddress = f.source.host /\ x.ipaddress = IpSource(f.source) => OfHost(x)
      BY <2>2 DEF OfHost
    <3> QED BY <2>4, <3>1, <3>2
  <2>7. moves = 0 => \A i \in DOMAIN mappings' : OfOwner(mappings'[i]) \/ OfStranger(mappings'[i])
    <3> SUFFICES ASSUME moves = 0
                 PROVE  \A i \in DOMAIN mappings' : OfOwner(mappings'[i]) \/ OfStranger(mappings'[i])
      OBVIOUS
    <3>1. \A i \in DOMAIN mappings : OfOwner(mappings[i]) \/ OfStranger(mappings[i])
      BY DEF OwnInv
    <3>2. \A x : x.ethaddress = f.source.host /\ x.ipaddress = IpSource(f.source) => OfOwner(x)
      BY <2>2, <2>5 DEF OfOwner
    <3> QED BY <2>4, <3>1, <3>2
  <2>8. QED
    BY <2>1, <2>5, <2>6, <2>7 DEF OwnInv
<1>3. CASE OtherFrame
  <2>1. PICK f \in Noise : Received(f)
    BY <1>3 DEF OtherFrame
  <2>2. IsFrame(f) /\ (NoQuery(f) \/ CutAtFlags(f))
    BY <2>1 DEF OnlyHostsAsk
  <2>3. CASE NoQuery(f)
    <3>1. TRUE \notin Teaches(f, dnsPort)
      BY <2>2, <2>3, NoQueryTeachesNothing
    <3>2. \A learn \in Teaches(f, dnsPort) : learn = FALSE
      <4>1. Teaches(f, dnsPort) \subseteq BOOLEAN
        BY DEF Teaches, NotAResponse
      <4> QED BY <3>1, <4>1
    <3>3. mappings' = mappings
      BY <2>1, <3>2 DEF Received
    <3> QED BY <1>3, <3>3 DEF OtherFrame, OwnInv
  <2>4. CASE CutAtFlags(f)
    <3>1. f.source \in Strangers
      BY <2>1, <2>4 DEF Strangers
    <3>2. f.source.host \in Machines /\ IpSource(f.source) \in Filed
      BY <2>1 DEF Machines, Filed
    <3>3. \A i \in DOMAIN mappings' :
            \/ i \in DOMAIN mappings /\ mappings'[i] = mappings[i]
            \/ /\ mappings'[i].ethaddress = f.source.host
               /\ mappings'[i].ipaddress = IpSource(f.source)
      BY <2>1, <3>2, ReceivedProperties
    <3>4. \A x : x.ethaddress = f.source.host /\ x.ipaddress = IpSource(f.source) => OfStranger(x)
      BY <3>1 DEF OfStranger
    <3>5. UNCHANGED <<raw, addr, moves>>
      BY <1>3 DEF OtherFrame
    <3> QED BY <3>3, <3>4, <3>5 DEF OwnInv
  <2> QED BY <2>2, <2>3, <2>4
<1>4. CASE processRequest \/ Tick \/ UNCHANGED vars
  BY <1>4 DEF processRequest, Tick, vars, OwnInv
<1>5. ASSUME NEW g \in Hosts, NEW h \in Hosts, Move(g, h)
      PROVE  OwnInv'
  <2>1. moves' # 0 /\ mappings' = mappings
    BY <1>5 DEF Move, StateInv
  <2>2. QED
    BY <2>1 DEF OwnInv
<1>6. QED
  BY <1>1, <1>2, <1>3, <1>4, <1>5 DEF Next

LEMMA OwnInvHolds ==
  ASSUME OnlyHostsAsk
  PROVE  Spec => []OwnInv
<1>1. Init => OwnInv
  BY DEF Init, OwnInv
<1>2. StateInv /\ OwnInv /\ [Next]_vars => OwnInv'
  BY OwnStep
<1>3. QED
  BY <1>1, <1>2, StateInvHolds, PTL DEF Spec

(* Only hosts that ask get into the table, and machines whose frames are   *)
(* cut behind the id, whatever else passes the raw socket: responses,      *)
(* other services, damaged and cut frames.  It stays within its array.     *)
THEOREM MacTypeCorrect ==
  ASSUME OnlyHostsAsk
  PROVE  Spec => []MacTypeOK
<1>1. StateInv /\ OwnInv => MacTypeOK
  <2> SUFFICES ASSUME StateInv, OwnInv
               PROVE  MacTypeOK
    OBVIOUS
  <2>1. mappings \in Seq([ethaddress : Hosts \cup {s.host : s \in Strangers}, ipv4 : BOOLEAN,
                         ipaddress : Addresses \cup {IpSource(s) : s \in Strangers}, time : Clock])
    <3> DEFINE R == [ethaddress : Hosts \cup {s.host : s \in Strangers}, ipv4 : BOOLEAN,
                     ipaddress : Addresses \cup {IpSource(s) : s \in Strangers}, time : Clock]
    <3>1. mappings \in Seq(Records) /\ Len(mappings) \in Nat /\ DOMAIN mappings = 1 .. Len(mappings)
      BY DEF StateInv
    <3>2. \A i \in 1 .. Len(mappings) : mappings[i] \in Records
      BY <3>1, ElementOfSeq
    <3>3. \A i \in 1 .. Len(mappings) : mappings[i] \in R
      <4>1. \A i \in 1 .. Len(mappings) : OfHost(mappings[i]) \/ OfStranger(mappings[i])
        BY <3>1 DEF OwnInv
      <4>2. \A x \in Records : OfHost(x) \/ OfStranger(x) => x \in R
        BY DEF Records, OfHost, OfStranger
      <4> QED BY <3>2, <4>1, <4>2
    <3> HIDE DEF R
    <3>4. mappings = [i \in 1 .. Len(mappings) |-> mappings[i]]
      BY <3>1
    <3>5. mappings \in [1 .. Len(mappings) -> R]
      BY <3>3, <3>4
    <3>6. mappings \in Seq(R)
      BY <3>1, <3>5, SeqDef
    <3>7. QED
      BY <3>6 DEF R
  <2>2. \A i \in DOMAIN raw : raw[i].source \in PacketType
    <3>1. \A i \in DOMAIN raw : raw[i] \in FramesOf(Sources)
      BY ElementOfSeq DEF StateInv
    <3>2. QED
      BY <3>1, FrameSources DEF Sources
  <2>3. udp \in Seq(PacketType)
    <3>1. Sources \subseteq PacketType
      BY DEF Sources
    <3>2. QED
      BY <3>1, SeqMonotonic DEF StateInv
  <2>4. QED
    BY <2>1, <2>2, <2>3 DEF StateInv, MacTypeOK
<1>2. QED
  BY <1>1, StateInvHolds, OwnInvHolds, PTL

(* Until an address changes hands no client is taken for another machine,  *)
(* whichever handler runs first, whatever frames are dropped and however   *)
(* full the table is, of strangers, too.                                   *)
THEOREM NeverAnotherMacHolds ==
  ASSUME OnlyHostsAsk, PrefixesApart, NoForgery
  PROVE  Spec => []NeverAnotherMac
<1>1. StateInv /\ OwnInv => NeverAnotherMac
  <2> SUFFICES ASSUME StateInv, OwnInv, moves = 0, NEW h \in Hosts
               PROVE  EthAddressOf(SourceOf(h, TRUE)) \cup EthAddressOf(SourceOf(h, FALSE)) \subseteq {h}
    BY DEF NeverAnotherMac
  <2>1. \A i \in DOMAIN mappings : mappings[i] \in Records
    BY ElementOfSeq DEF StateInv
  <2>2. \A i \in DOMAIN mappings : mappings[i].ipv4 = TRUE
    BY <2>1 DEF Records
  <2>3. EthAddressOf(SourceOf(h, FALSE)) = {}
    BY <2>2 DEF EthAddressOf, SourceOf, LookUp
  <2>4. ASSUME NEW i \in LookUp(mappings, Ipv4[h], TRUE)
        PROVE  mappings[i].ethaddress = h
    <3>1. i \in DOMAIN mappings /\ mappings[i].ipaddress = Ipv4[h]
      BY <2>4 DEF LookUp
    <3>2. CASE OfOwner(mappings[i])
      <4>1. Ipv4[mappings[i].ethaddress] = Ipv4[h] /\ mappings[i].ethaddress \in Hosts
        BY <3>1, <3>2 DEF OfOwner, PrefixesApart
      <4> QED BY <4>1, HostConstants
    <3>3. CASE OfStranger(mappings[i])
      BY <3>1, <3>3 DEF OfStranger, NoForgery
    <3> QED BY <3>1, <3>2, <3>3 DEF OwnInv
  <2>5. SourceOf(h, TRUE).address = Ipv4[h] /\ SourceOf(h, TRUE).ipv4 = TRUE
    BY DEF SourceOf, OwnInv
  <2>6. EthAddressOf(SourceOf(h, TRUE)) \subseteq {h}
    BY <2>4, <2>5 DEF EthAddressOf
  <2>7. QED
    BY <2>3, <2>6
<1>2. QED
  BY <1>1, StateInvHolds, OwnInvHolds, PTL
-----------------------------------------------------------------------------
(* Queries over IPv4 are learnt from.                                      *)

(* Whatever its tags and options, the frame of a query passes Read and the *)
(* filter behind it.                                                       *)
LEMMA QueryFrameTeaches ==
  ASSUME NEW p \in Sources, p.ipv4, NEW layout \in Layouts
  PROVE  Teaches(QueryFrame(p, layout), dnsPort) = {TRUE}
<1> DEFINE f == QueryFrame(p, layout)
<1>1. layout.tags \in 0 .. VLAN_MAX_DEPTH /\ layout.ihl \in 5 .. 15
  BY HostConstants
<1>2. /\ f.tags = layout.tags /\ f.type = "ipv4" /\ f.version = 4 /\ f.ihl = layout.ihl
      /\ f.protocol = "udp" /\ f.port = dnsPort /\ f.qr = FALSE
      /\ f.size = 14 + 4 * layout.tags + 4 * layout.ihl + 8 + 17
  BY <1>1 DEF QueryFrame, UdpEnd, IpEnd, EthEnd, EthProtocol, TagsRead, ETH_HDR_SIZE, VLAN_HDR_SIZE,
              VLAN_MAX_DEPTH, UDP_HDR_SIZE
<1> HIDE DEF f
<1>3. /\ EthProtocol(f) = "ipv4" /\ EthEnd(f) = 14 + 4 * layout.tags
      /\ IpEnd(f) = EthEnd(f) + 4 * layout.ihl /\ UdpEnd(f) = IpEnd(f) + 8
  BY <1>1, <1>2 DEF UdpEnd, IpEnd, EthEnd, EthProtocol, TagsRead, ETH_HDR_SIZE, VLAN_HDR_SIZE,
                    VLAN_MAX_DEPTH, UDP_HDR_SIZE
<1>4. layout.tags \in Nat /\ layout.ihl \in Nat /\ layout.ihl >= 5
  BY <1>1 DEF VLAN_MAX_DEPTH
<1>5. /\ ~(f.size < EthEnd(f)) /\ Ipv4HeaderOK(f) /\ ~(f.size < UdpEnd(f))
      /\ ~(f.size < UdpEnd(f) + 2) /\ f.size # UdpEnd(f) + 2
  BY <1>2, <1>3, <1>4 DEF Ipv4HeaderOK, IPV4_HDR_SIZE
<1>6. Read(f) = "NOERROR"
  BY <1>2, <1>3, <1>5 DEF Read
<1>7. NotAResponse(f) = {TRUE}
  BY <1>2, <1>5 DEF NotAResponse
<1> QED BY <1>2, <1>6, <1>7 DEF Teaches, f

(* The walk of Add over a table that is not empty leaves a candidate.      *)
LEMMA OldestExists ==
  ASSUME StateInv, mappings # <<>>
  PROVE  \E i \in DOMAIN mappings : i \in Oldest(mappings)
<1> DEFINE n == Len(mappings)
           f == [i \in 1 .. n |-> mappings[i].time]
<1>1. n \in Nat /\ n # 0 /\ DOMAIN mappings = 1 .. n
  <2>1. mappings \in Seq(Records)
    BY DEF StateInv
  <2> QED BY <2>1, EmptySeq
<1>2. \A i \in 1 .. n : mappings[i].time \in Nat
  <2>1. \A i \in 1 .. n : mappings[i] \in Records
    BY <1>1, ElementOfSeq DEF StateInv
  <2> QED BY <2>1, HostConstants DEF Records
<1> HIDE DEF n
<1>3. f \in [1 .. n -> Nat]
  BY <1>2
<1>4. PICK k \in 1 .. n : \A i \in 1 .. n : f[i] <= f[k]
  BY <1>1, <1>3, GreatestOfList
<1>5. \A i \in 1 .. n : mappings[i].time <= mappings[k].time
  BY <1>4
<1> DEFINE M == {i \in 1 .. n : mappings[i].time = mappings[k].time}
<1>6. M \in SUBSET Nat /\ M # {}
  BY <1>4
<1> HIDE DEF f, M
<1>7. PICK m \in M : \A i \in M : m <= i
  BY <1>6, LeastNat
<1>8. m \in 1 .. n /\ mappings[m].time = mappings[k].time
  BY <1>7 DEF M
<1>9. \A j \in 1 .. n :
        mappings[j].time < mappings[m].time \/ (mappings[j].time = mappings[m].time /\ m <= j)
  <2> SUFFICES ASSUME NEW j \in 1 .. n, ~(mappings[j].time < mappings[m].time)
               PROVE  mappings[j].time = mappings[m].time /\ m <= j
    OBVIOUS
  <2>1. mappings[j].time = mappings[m].time
    BY <1>2, <1>5, <1>8
  <2>2. j \in M
    BY <1>8, <2>1 DEF M
  <2> QED BY <1>7, <2>1, <2>2
<1> QED BY <1>1, <1>8, <1>9 DEF Oldest

(* When Add finds no slot the table is full, and its newest record recent. *)
LEMMA NoSlot ==
  ASSUME StateInv, NEW e, Slot(mappings, e, now) = {}
  PROVE  /\ Len(mappings) = MAX_MAC_IP_MAPPINGS
         /\ \E i \in DOMAIN mappings : now - mappings[i].time <= MAPPING_TIMEOUT
<1> DEFINE same == {j \in DOMAIN mappings : mappings[j].ethaddress = e}
<1>1. mappings \in Seq(Records) /\ Len(mappings) \in Nat /\ DOMAIN mappings = 1 .. Len(mappings)
      /\ Len(mappings) <= MAX_MAC_IP_MAPPINGS /\ MAX_MAC_IP_MAPPINGS \in Nat \ {0}
  BY MappingConstants DEF StateInv
<1>2. same = {}
  <2> SUFFICES ASSUME NEW i \in same PROVE FALSE
    OBVIOUS
  <2>1. \A j \in same : j = i
    BY DEF StateInv, OneRecordPerMac
  <2>2. i \in {x \in same : \A j \in same : x <= j}
    BY <1>1, <2>1
  <2> QED BY <2>2 DEF Slot
<1>3. ~(Len(mappings) < MAX_MAC_IP_MAPPINGS)
  BY <1>2 DEF Slot
<1>4. Slot(mappings, e, now) = {j \in Oldest(mappings) : now - mappings[j].time > MAPPING_TIMEOUT}
  BY <1>2, <1>3, Zenon DEF Slot
<1>5. mappings # <<>>
  BY <1>1, <1>3
<1>6. PICK i \in DOMAIN mappings : i \in Oldest(mappings)
  BY <1>5, OldestExists
<1>7. ~(now - mappings[i].time > MAPPING_TIMEOUT)
  BY <1>4, <1>6
<1>8. mappings[i] \in Records
  BY <1>1, <1>6, ElementOfSeq
<1>9. now - mappings[i].time \in Int /\ MAPPING_TIMEOUT \in Int
  BY <1>8, HostConstants, MappingConstants DEF Records, StateInv
<1>10. now - mappings[i].time <= MAPPING_TIMEOUT
  <2> DEFINE age == now - mappings[i].time
  <2>1. age \in Int /\ ~(age > MAPPING_TIMEOUT) /\ MAPPING_TIMEOUT \in Int
    BY <1>7, <1>9
  <2> HIDE DEF age
  <2>2. age <= MAPPING_TIMEOUT
    BY <2>1
  <2> QED BY <2>2 DEF age
<1>11. Len(mappings) = MAX_MAC_IP_MAPPINGS
  <2> DEFINE n == Len(mappings)
  <2>1. n \in Nat /\ n <= MAX_MAC_IP_MAPPINGS /\ ~(n < MAX_MAC_IP_MAPPINGS)
        /\ MAX_MAC_IP_MAPPINGS \in Nat
    BY <1>1, <1>3
  <2> HIDE DEF n
  <2>2. n = MAX_MAC_IP_MAPPINGS
    BY <2>1
  <2> QED BY <2>2 DEF n
<1> QED BY <1>6, <1>10, <1>11, Zenon

(* The frame of a query over IPv4 teaches the sender's addresses, unless   *)
(* the table is full and one of its records is recent: for any tags,       *)
(* options, number of machines and sizes of table and queue.               *)
THEOREM QueriesTeachHolds == Spec => QueriesTeach
<1> DEFINE Taught ==
             Len(raw') < Len(raw) /\ Head(raw).source.ipv4 =>
               \/ \E i \in DOMAIN mappings' :
                    /\ mappings'[i].ethaddress = Head(raw).source.host
                    /\ mappings'[i].ipaddress = Head(raw).source.address
                    /\ mappings'[i].time = now
               \/ /\ Len(mappings) = MAX_MAC_IP_MAPPINGS
                  /\ \E i \in DOMAIN mappings : now - mappings[i].time <= MAPPING_TIMEOUT
<1>1. StateInv /\ [Next]_vars => [Taught]_vars
  <2> SUFFICES ASSUME StateInv, Next, Len(raw') < Len(raw), Head(raw).source.ipv4
               PROVE  Taught
    OBVIOUS
  <2> DEFINE f == Head(raw)
             e == f.source.host
             a == f.source.address
             new == Add(mappings, e, TRUE, a, now)
  <2>1. raw \in Seq(FramesOf(Sources)) /\ Len(raw) \in Nat
    BY DEF StateInv
  <2>2. receiveRawData
    <3>1. \A x : Len(Append(raw, x)) = Len(raw) + 1
      BY <2>1, AppendProperties
    <3>2. raw' # raw /\ \A x : raw' # Append(raw, x)
      BY <2>1, <3>1
    <3>3. ASSUME NEW h \in Hosts, NEW ipv4 \in Families, HostQuery(h, ipv4)
          PROVE  FALSE
      BY <3>2, <3>3, Zenon DEF HostQuery
    <3>4. ~OtherFrame /\ ~processRequest /\ ~Tick
      BY <3>2 DEF OtherFrame, processRequest, Tick
    <3>5. \A g, h \in Hosts : ~Move(g, h)
      BY <3>2 DEF Move
    <3> QED
      BY <3>3, <3>4, <3>5 DEF Next
  <2>3. f \in FramesOf(Sources) /\ Received(f)
    BY <2>1, <2>2, HeadTailProperties DEF receiveRawData
  <2>4. PICK p \in Sources, layout \in Layouts : f = QueryFrame(p, layout)
    BY <2>3 DEF FramesOf
  <2>5. Teaches(f, dnsPort) = {TRUE}
    <3>1. f.source = p
      BY <2>4, SourceOfQuery
    <3>2. p.ipv4 = TRUE
      BY <3>1 DEF Sources, PacketType
    <3> HIDE DEF f
    <3> QED BY <2>4, <3>2, QueryFrameTeaches
  <2>6. mappings' = new
    BY <2>3, <2>5 DEF Received, IpSource
  <2>7. CASE Slot(mappings, e, now) = {}
    BY <2>7, NoSlot
  <2>8. CASE Slot(mappings, e, now) # {}
    <3>1. PICK i \in Slot(mappings, e, now) : TRUE
      BY <2>8
    <3> DEFINE r == [ethaddress |-> e, ipv4 |-> TRUE, ipaddress |-> a, time |-> now]
               slot == Slot(mappings, e, now)
    <3>2. new = [j \in DOMAIN mappings \cup slot |-> IF j \in slot THEN r ELSE mappings[j]]
      BY DEF Add
    <3>3. r.ethaddress = e /\ r.ipaddress = a /\ r.time = now
      OBVIOUS
    <3> HIDE DEF r, new, e, a
    <3>4. i \in DOMAIN new /\ new[i] = r
      BY <3>1, <3>2, Zenon
    <3>5. i \in DOMAIN mappings' /\ mappings'[i].ethaddress = e
          /\ mappings'[i].ipaddress = a /\ mappings'[i].time = now
      BY <2>6, <3>3, <3>4
    <3> QED BY <3>5, Zenon DEF e, a
  <2> QED BY <2>7, <2>8
<1> QED BY <1>1, StateInvHolds, PTL DEF QueriesTeach, Spec
==============================================================================
