--------------------------- MODULE DnsPacketProofs ---------------------------
(***************************************************************************)
(* What holds of the packet code for every buffer and every datagram (how  *)
(* far the reader gets, the ranges of its numbers), and for every message  *)
(* of the kinds DnsPacket!Messages names, whatever its names, the pointers *)
(* in them, its records and their number, whole or cut short.              *)
(*                                                                         *)
(* The second half follows a message on its way.  Part and Off say where   *)
(* the parts of a concatenation are; with them EncodeLayout says where the *)
(* header, the entries, the names and the fields of a message stand among  *)
(* its octets, and NameSpot where ReadLabel may be while it follows a name.*)
(* ParseInv says that the reader is at such a place and that what it has   *)
(* read so far is what was sent; WriteIsEncode says that what Write makes  *)
(* of it is the message, with its names in full.                           *)
(***************************************************************************)
EXTENDS DnsPacket, NatFacts, SequenceTheorems, TLAPS

(* Fields of the records the reader uses.                                  *)
LabelFields ==
  label = [c |-> label.c, jumps |-> label.jumps, resume |-> label.resume,
           name |-> label.name, into |-> label.into]

ItemFields ==
  item = [name |-> item.name, type |-> item.type, class |-> item.class, ttl |-> item.ttl,
          len |-> item.len, data |-> item.data, host |-> item.host]

(* Between two labels the position is inside the datagram, and so is the   *)
(* place to go on at behind a pointer; only the data of an address may     *)
(* take the position past the end.                                         *)
ReaderInv ==
  /\ buf \in [Positions -> Octets]
  /\ size \in 0..BUFFER_SIZE
  /\ pos \in Nat
  /\ LabelFields
  /\ stage = "header" => pos = 0 /\ SIZEOF_HEADER <= size
  /\ stage = "label" => /\ pos <= size
                        /\ label.c \in Octets
                        /\ label.resume \in 0..size
  /\ stage = "data" => item.len \in Nat /\ ItemFields
  /\ ReadsNearDatagram

(* Numbers read from inside the datagram.                                  *)
LEMMA OctetRead ==
  ASSUME buf \in [Positions -> Octets], size \in 0..BUFFER_SIZE,
         NEW p \in Nat, p < size
  PROVE  buf[p] \in Octets
  BY PacketConstants DEF Positions, Octets

LEMMA U16Read ==
  ASSUME buf \in [Positions -> Octets], size \in 0..BUFFER_SIZE,
         NEW p \in Nat, p + 2 <= size
  PROVE  READ_U16(p) \in Nat
<1>1. buf[p] \in Octets /\ buf[p + 1] \in Octets
  BY PacketConstants DEF Positions
<1>2. buf[p] \in Nat /\ buf[p + 1] \in Nat
  BY <1>1 DEF Octets
<1> QED BY <1>2 DEF READ_U16

(* Lengths and pointers are numbers.                                       *)
LEMMA OctetNumbers ==
  ASSUME NEW c \in Octets
  PROVE  c \in Nat /\ (c >= 192 => c \in 192..255)
  BY DEF Octets

LEMMA PointerNumbers ==
  ASSUME NEW c \in 192..255, NEW d \in Nat
  PROVE  256 * (c - 192) + d \in Nat
  OBVIOUS

LEMMA ReaderInvInit == Init => ReaderInv
  BY PacketConstants DEF Init, ReaderInv, ReadsNearDatagram, LabelFields, NoLabel

(* Every step of the reader keeps it.                                      *)
LEMMA ReaderInvNext == ReaderInv /\ [Next]_vars => ReaderInv'
<1> SUFFICES ASSUME ReaderInv, [Next]_vars PROVE ReaderInv'
  OBVIOUS
<1> USE PacketConstants
<1>0. CASE UNCHANGED vars
  BY <1>0 DEF ReaderInv, vars, LabelFields, ItemFields, ReadsNearDatagram
<1>1. ASSUME NEW d \in Datagrams, receive(d) PROVE ReaderInv'
  <2>1. size' \in 0..BUFFER_SIZE /\ size' = Len(d.octets) /\ pos' = 0
    BY <1>1 DEF receive
  <2>2. buf' \in [Positions -> Octets]
    <3>1. \A p \in Positions : p < Len(d.octets) => d.octets[p + 1] \in Octets
      BY DEF Positions
    <3>2. \A p \in Positions : buf[p] \in Octets
      BY DEF ReaderInv
    <3> QED BY <1>1, <3>1, <3>2 DEF receive
  <2>3. stage' \in {"dropped", "header"} /\ (stage' = "header" => SIZEOF_HEADER <= size')
    BY <1>1, <2>1 DEF receive
  <2>4. LabelFields'
    BY <1>1 DEF receive, packetVars, ReaderInv, LabelFields
  <2> QED BY <2>1, <2>2, <2>3, <2>4 DEF ReaderInv, ReadsNearDatagram
<1>2. CASE Again
  BY <1>2 DEF Again, ReaderInv, ReadsNearDatagram, LabelFields, NoLabel
<1>3. CASE ReadHeader
  <2>1. pos' = HEADER_SIZE /\ HEADER_SIZE <= size /\ size' = size /\ buf' = buf /\ label' = label
    BY <1>3 DEF ReadHeader, ReaderInv, HEADER_SIZE
  <2>2. stage' \in {"process", "name"}
    BY <1>3 DEF ReadHeader, NextStage
  <2> QED BY <2>1, <2>2 DEF ReaderInv, ReadsNearDatagram, LabelFields, HEADER_SIZE
<1>4. CASE ReadLabel
  <2>1. pos' = pos + 1 /\ pos' <= size /\ size' = size /\ buf' = buf /\ stage' = "label"
    BY <1>4 DEF ReadLabel, VALIDATE, ReaderInv
  <2>2. buf[pos] \in Octets
    BY <2>1, OctetRead DEF ReaderInv
  <2>3. LabelFields' /\ label'.c = buf[pos] /\ label'.resume = 0
    <3>1. PEEK_BYTE(0) = buf[pos]
      BY DEF PEEK_BYTE, ReaderInv
    <3> QED BY <1>4, <3>1 DEF ReadLabel, ReaderInv, LabelFields
  <2> QED BY <2>1, <2>2, <2>3 DEF ReaderInv, ReadsNearDatagram
<1>5. CASE ReadPointer
  <2>1. stage = "label" /\ stage' = "label" /\ size' = size /\ buf' = buf
    BY <1>5 DEF ReadPointer, InLoop
  <2>2. pos + 1 <= size /\ label.c \in 192..255 /\ buf[pos] \in Nat
    <3>1. pos + 1 <= size
      BY <1>5 DEF ReadPointer, VALIDATE
    <3>2. buf[pos] \in Octets
      BY <3>1, OctetRead DEF ReaderInv
    <3>3. label.c \in Octets /\ label.c >= 192
      BY <1>5, <2>1 DEF ReadPointer, ReaderInv
    <3> QED BY <3>1, <3>2, <3>3, OctetNumbers
  <2>3. Target \in Nat /\ Target < size
    <3>1. PEEK_BYTE(0) = buf[pos]
      BY DEF PEEK_BYTE, ReaderInv
    <3>2. Target = 256 * (label.c - 192) + buf[pos]
      BY <3>1 DEF Target
    <3>3. Target \in Nat
      BY <2>2, <3>2, PointerNumbers
    <3> QED BY <1>5, <3>3 DEF ReadPointer
  <2>4. pos' = Target + 1 /\ pos' \in Nat /\ pos' <= size
    BY <1>5, <2>3 DEF ReadPointer, ReaderInv
  <2>5. buf[Target] \in Octets
    BY <2>3, OctetRead DEF ReaderInv
  <2>6. LabelFields' /\ label'.c = buf[Target] /\ label'.resume = pos + 1
    BY <1>5 DEF ReadPointer, Jump, ReaderInv, LabelFields
  <2> QED BY <2>1, <2>2, <2>4, <2>5, <2>6 DEF ReaderInv, ReadsNearDatagram
<1>6. CASE ReadText
  <2>1. stage = "label" /\ stage' = "label" /\ size' = size /\ buf' = buf
    BY <1>6 DEF ReadText, TextThere, InLoop
  <2>2. label.c \in Nat /\ pos + label.c < size /\ pos' = pos + label.c + 1
    <3>1. label.c \in Octets
      BY <2>1 DEF ReaderInv
    <3> QED BY <1>6, <3>1, OctetNumbers DEF ReadText, TextThere
  <2>3. pos' \in Nat /\ pos' <= size
    BY <2>2 DEF ReaderInv
  <2>4. buf[pos + label.c] \in Octets
    BY <2>2, OctetRead DEF ReaderInv
  <2>5. LabelFields' /\ label'.c = buf[pos + label.c] /\ label'.resume = label.resume
    BY <1>6 DEF ReadText, ReaderInv, LabelFields, PEEK_BYTE
  <2> QED BY <2>1, <2>3, <2>4, <2>5 DEF ReaderInv, ReadsNearDatagram
<1>7. CASE EndLabel
  <2>1. size' = size /\ buf' = buf /\ label' = NoLabel
    BY <1>7 DEF EndLabel
  <2>2. pos' \in 0..size
    BY <1>7 DEF EndLabel, ResumePosition, ReaderInv
  <2>3. stage' \in {"fixed", "process", "name"}
    BY <1>7 DEF EndLabel, NextStage
  <2> QED BY <2>1, <2>2, <2>3 DEF ReaderInv, ReadsNearDatagram, LabelFields, NoLabel
<1>8. CASE ReadQuestion
  <2>1. size' = size /\ buf' = buf /\ label' = label /\ pos' = pos + 4 /\ pos + 4 <= size
    BY <1>8 DEF ReadQuestion, VALIDATE, Fixed
  <2>2. stage' \in {"process", "name"}
    BY <1>8 DEF ReadQuestion, NextStage
  <2> QED BY <2>1, <2>2 DEF ReaderInv, ReadsNearDatagram, LabelFields
<1>9. CASE ReadRecord
  <2>1. /\ size' = size /\ buf' = buf /\ label' = label /\ stage' = "data"
        /\ pos' = pos + 10 /\ pos + 10 <= size
    BY <1>9 DEF ReadRecord, VALIDATE, Fixed
  <2>2. READ_U16(pos + 8) \in Nat
    BY <2>1, U16Read DEF ReaderInv
  <2>3. ItemFields' /\ item'.len = READ_U16(pos + 8)
    BY <1>9 DEF ReadRecord, ItemFields
  <2> QED BY <2>1, <2>2, <2>3 DEF ReaderInv, ReadsNearDatagram, LabelFields
<1>10. CASE ReadData
  <2>1. size' = size /\ buf' = buf /\ stage = "data" /\ item.len \in Nat
    BY <1>10 DEF ReadData, ReaderInv
  <2>2. DataRead(item) \in Nat /\ DataRead(item) <= DataChecked(item) + 2
    BY <2>1 DEF DataRead, DataChecked, QT_A, QT_AAAA, QT_MX, QT_OPT
  <2>3. DataChecked(item) \in Nat
    BY <2>1 DEF DataRead, DataChecked, QT_A, QT_AAAA, QT_MX, QT_OPT
  <2>4. pos' = pos + DataRead(item) /\ pos + DataChecked(item) <= size
    BY <1>10 DEF ReadData, VALIDATE
  <2>5. pos' \in Nat /\ pos' <= size + 2
    BY <2>2, <2>3, <2>4 DEF ReaderInv
  <2>6. LabelFields'
    BY <1>10 DEF ReadData, ReaderInv, LabelFields
  <2>7. stage' \in {"name", "process"}
    BY <1>10 DEF ReadData, NextStage
  <2> QED BY <2>1, <2>5, <2>6, <2>7 DEF ReaderInv, ReadsNearDatagram
<1>11. ASSUME NEW s \in {"dropped", "sent", "overrun"}, stage' = s,
              UNCHANGED <<buf, size, pos, packetVars, sent>>
       PROVE  ReaderInv'
  BY <1>11 DEF ReaderInv, packetVars, LabelFields, ReadsNearDatagram
<1>12. CASE Drop
  BY <1>11, <1>12 DEF Drop
<1>13. CASE Refuse
  BY <1>11, <1>13 DEF Refuse, sendPacket
<1>14. CASE Redirect
  BY <1>11, <1>14 DEF Redirect, sendPacket
<1>15. CASE Relay(NEW_ID)
  BY <1>11, <1>15 DEF Relay, sendPacket
<1>16. ASSUME NEW i \in {NEW_ID, header.id}, Forward(i) PROVE ReaderInv'
  BY <1>11, <1>16 DEF Forward, sendPacket
<1>17. CASE ReadTextOverruns
  BY <1>11, <1>17 DEF ReadTextOverruns
<1> QED
  BY <1>0, <1>1, <1>2, <1>3, <1>4, <1>5, <1>6, <1>7, <1>8, <1>9, <1>10,
     <1>12, <1>13, <1>14, <1>15, <1>16, <1>17 DEF Next, Handle, Rearm, Overrun

(* Whatever the octets of the datagram and the size of the buffer, nothing *)
(* behind the datagram is read but the two octets VREAD_U32 does not check.*)
THEOREM ReadsNearDatagramHolds == Spec => []ReadsNearDatagram
<1>1. ReaderInv => ReadsNearDatagram
  BY DEF ReaderInv
<1> QED
  BY <1>1, ReaderInvInit, ReaderInvNext, PTL DEF Spec

-----------------------------------------------------------------------------
(* The sections are sequences, empty until the header has been read, and   *)
(* while an item is being read there is a section it belongs to.           *)
IsSeq(q) == \E S : q \in Seq(S)

Reading == {"name", "label", "fixed", "data"}

ItemsInv ==
  /\ items = [s \in Sections |-> items[s]]
  /\ \A s \in Sections : IsSeq(items[s])
  /\ stage \in {"idle", "header"} => items = NoItems
  /\ stage \in Reading => Open(header, items) # {}

LEMMA NoSeq == IsSeq(<<>>) /\ Len(<<>>) = 0
<1>1. <<>> \in Seq({})
  OBVIOUS
<1> QED BY <1>1 DEF IsSeq

LEMMA AppendSeq ==
  ASSUME NEW q, NEW e, IsSeq(q)
  PROVE  Len(q) \in Nat /\ IsSeq(Append(q, e)) /\ Len(Append(q, e)) = Len(q) + 1
<1>1. PICK S : q \in Seq(S)
  BY DEF IsSeq
<1>2. q \in Seq(S \cup {e}) /\ e \in S \cup {e}
  BY <1>1
<1>3. Append(q, e) \in Seq(S \cup {e}) /\ Len(Append(q, e)) = Len(q) + 1 /\ Len(q) \in Nat
  BY <1>2
<1> QED BY <1>3 DEF IsSeq

LEMMA NoItemsSeqs ==
  /\ NoItems = [s \in Sections |-> NoItems[s]]
  /\ \A s \in Sections : NoItems[s] = <<>> /\ IsSeq(NoItems[s]) /\ Len(NoItems[s]) = 0
  BY NoSeq DEF NoItems

(* The item goes to the first section that lacks one, which has room.      *)
LEMMA SectionOpen ==
  ASSUME Open(header, items) # {}
  PROVE  Section \in Open(header, items)
<1> DEFINE O == Open(header, items)
<1>1. O \subseteq {1, 2, 3, 4}
  BY DEF Open, Sections
<1> HIDE DEF O
<1>2. \E s \in O : \A t \in O : s <= t
  BY <1>1 DEF O
<1> QED BY <1>2 DEF Section, O

(* Numbers of two octets.                                                  *)
LEMMA U16Numbers ==
  /\ 0 \in U16 /\ U16 \subseteq Nat
  /\ \A x, y \in Octets : 256 * x + y \in U16
<1>1. 0 \in U16
  BY DEF U16
<1>2. U16 \subseteq Nat
  BY DEF U16
<1>3. ASSUME NEW x \in Octets, NEW y \in Octets PROVE 256 * x + y \in U16
  <2>1. x \in 0..255 /\ y \in 0..255
    BY DEF Octets
  <2>2. 256 * x + y \in Nat /\ 256 * x + y <= 256 * 256 - 1 /\ 256 * 256 - 1 \in Nat
    BY <2>1
  <2>3. \A n, m \in Nat : n <= m => n \in 0..m
    OBVIOUS
  <2> QED BY <2>2, <2>3, Zenon DEF U16
<1> QED BY <1>1, <1>2, <1>3, Zenon

LEMMA U16Range ==
  ASSUME buf \in [Positions -> Octets], NEW p \in Nat, p <= BUFFER_SIZE
  PROVE  READ_U16(p) \in U16
<1>1. buf[p] \in Octets /\ buf[p + 1] \in Octets
  BY PacketConstants DEF Positions
<1> QED BY <1>1, U16Numbers, Zenon DEF READ_U16

LEMMA NextNumber == 0 <= 0 /\ \A a, b \in Nat : a < b => a + 1 <= b
  OBVIOUS

LEMMA AddItemKeeps ==
  ASSUME NEW e, items = [s \in Sections |-> items[s]], \A s \in Sections : IsSeq(items[s]),
         \A s \in Sections : header.count[s] \in U16 /\ Len(items[s]) <= header.count[s],
         Open(header, items) # {}
  PROVE  /\ AddItem(e) = [s \in Sections |-> AddItem(e)[s]]
         /\ \A s \in Sections : IsSeq(AddItem(e)[s]) /\ Len(AddItem(e)[s]) <= header.count[s]
<1>0. Section \in Open(header, items)
  BY SectionOpen, Zenon
<1>1. Section \in Sections /\ Len(items[Section]) < header.count[Section]
  BY <1>0, Zenon DEF Open
<1> DEFINE k == Section
           longer == Append(items[k], e)
<1>2. AddItem(e) = [items EXCEPT ![k] = longer]
  BY Zenon DEF AddItem
<1> HIDE DEF k
<1>3. /\ AddItem(e) = [s \in Sections |-> AddItem(e)[s]]
      /\ AddItem(e)[k] = longer
      /\ \A s \in Sections : s # k => AddItem(e)[s] = items[s]
  <2> HIDE DEF longer
  <2> QED BY <1>1, <1>2, Zenon DEF k
<1>4. Len(items[k]) \in Nat /\ IsSeq(longer) /\ Len(longer) = Len(items[k]) + 1
  BY <1>1, AppendSeq, Zenon DEF k
<1>5. header.count[k] \in Nat /\ Len(items[k]) < header.count[k]
  BY <1>1, U16Numbers DEF k
<1> HIDE DEF longer
<1>6. Len(longer) <= header.count[k]
  BY <1>4, <1>5, NextNumber, Zenon
<1> QED BY <1>3, <1>4, <1>6, Zenon

(* The parts of the type invariant ReaderInv does not say.                 *)
HeaderOK == header.id \in U16 /\ header.hb3 \in Octets /\ header.hb4 \in Octets

CountsOK ==
  \A s \in Sections : header.count[s] \in U16 /\ Len(items[s]) <= header.count[s]

LabelOK ==
  /\ label.c \in Octets /\ label.jumps \in 0..MAX_JUMPS /\ label.resume \in Positions
  /\ label.into \in {"Name", "Address"}

StageOK ==
  stage \in {"idle", "header", "name", "label", "fixed", "data", "process",
            "sent", "dropped", "overrun"}

OutOK == out.how \in {"none", "forward", "refuse", "redirect", "relay"}

TypeInv == HeaderOK /\ CountsOK /\ LabelOK /\ StageOK /\ OutOK /\ ItemsInv

LEMMA TypeInvImplies == ReaderInv /\ TypeInv => PacketTypeOK
<1> SUFFICES ASSUME ReaderInv, TypeInv PROVE PacketTypeOK
  OBVIOUS
<1>1. pos \in 0..(BUFFER_SIZE + 2)
  BY PacketConstants DEF ReaderInv, ReadsNearDatagram
<1>2. buf \in [Positions -> Octets] /\ size \in 0..BUFFER_SIZE
  BY DEF ReaderInv
<1> QED BY <1>1, <1>2, Zenon DEF TypeInv, HeaderOK, CountsOK, LabelOK, StageOK, OutOK, PacketTypeOK

(* A packet that is not there yet.                                         *)
LEMMA FreshTypes ==
  header = NoHeader /\ items = NoItems /\ label = NoLabel /\ stage \notin Reading
  => HeaderOK /\ CountsOK /\ LabelOK /\ ItemsInv
<1> SUFFICES ASSUME header = NoHeader, items = NoItems, label = NoLabel, stage \notin Reading
             PROVE  HeaderOK /\ CountsOK /\ LabelOK /\ ItemsInv
  OBVIOUS
<1>1. 0 \in Octets /\ 0 \in Positions /\ 0 \in 0..MAX_JUMPS
  BY PacketConstants DEF Octets, Positions
<1>2. HeaderOK
  BY <1>1, U16Numbers DEF NoHeader, HeaderOK
<1>3. CountsOK
  <2>1. \A s \in Sections : header.count[s] = 0
    BY DEF NoHeader
  <2>2. \A s \in Sections : Len(items[s]) = 0
    BY NoItemsSeqs
  <2> QED BY <2>1, <2>2, U16Numbers, NextNumber, Zenon DEF CountsOK
<1>4. LabelOK
  BY <1>1 DEF NoLabel, LabelOK
<1>5. ItemsInv
  BY NoItemsSeqs, Zenon DEF ItemsInv
<1> QED BY <1>2, <1>3, <1>4, <1>5

LEMMA TypeInvInit == Init => TypeInv
<1> SUFFICES ASSUME Init PROVE TypeInv
  OBVIOUS
<1>1. header = NoHeader /\ items = NoItems /\ label = NoLabel /\ stage = "idle" /\ out = NoOut
  BY DEF Init
<1>2. HeaderOK /\ CountsOK /\ LabelOK /\ ItemsInv
  BY <1>1, FreshTypes DEF Reading
<1> QED BY <1>1, <1>2 DEF TypeInv, StageOK, OutOK, NoOut

(* Where reading goes on.                                                  *)
LEMMA NextStageReads ==
  ASSUME NEW h, NEW is
  PROVE  /\ NextStage(h, is) \in {"process", "name"}
         /\ NextStage(h, is) \in Reading => Open(h, is) # {}
  BY DEF NextStage, Reading

(* An item is added, and reading goes on.                                  *)
LEMMA AddItemStep ==
  ASSUME TypeInv, stage \in Reading, NEW e, items' = AddItem(e), header' = header,
         stage' = NextStage(header, items')
  PROVE  HeaderOK' /\ CountsOK' /\ ItemsInv' /\ StageOK'
<1>1. /\ items = [s \in Sections |-> items[s]] /\ (\A s \in Sections : IsSeq(items[s]))
      /\ Open(header, items) # {}
  BY Zenon DEF TypeInv, ItemsInv
<1>2. \A s \in Sections : header.count[s] \in U16 /\ Len(items[s]) <= header.count[s]
  BY Zenon DEF TypeInv, CountsOK
<1>3. /\ items' = [s \in Sections |-> items'[s]]
      /\ \A s \in Sections : IsSeq(items'[s]) /\ Len(items'[s]) <= header.count[s]
  BY <1>1, <1>2, AddItemKeeps, Zenon
<1>4. HeaderOK'
  BY Zenon DEF TypeInv, HeaderOK
<1>5. CountsOK'
  BY <1>2, <1>3, Zenon DEF CountsOK
<1>6. stage' \in {"process", "name"} /\ (stage' \in Reading => Open(header', items') # {})
  BY NextStageReads
<1>7. StageOK' /\ stage' \notin {"idle", "header"}
  BY <1>6 DEF StageOK
<1>8. ItemsInv'
  BY <1>3, <1>6, <1>7, Zenon DEF ItemsInv
<1> QED BY <1>4, <1>5, <1>7, <1>8

(* The sections stay as they are, while an item is read or when the packet *)
(* is done with.                                                           *)
LEMMA SameItemsStep ==
  ASSUME TypeInv, stage \notin {"idle", "header"}, items' = items, header' = header, StageOK',
         stage' \in Reading => stage \in Reading, stage' \notin {"idle", "header"}
  PROVE  HeaderOK' /\ CountsOK' /\ ItemsInv'
  BY Zenon DEF TypeInv, HeaderOK, CountsOK, ItemsInv

LEMMA TypeInvNext == ReaderInv /\ TypeInv /\ [Next]_vars => TypeInv'
<1> SUFFICES ASSUME ReaderInv, TypeInv, [Next]_vars PROVE TypeInv'
  OBVIOUS
<1> USE PacketConstants
<1>a. label' = label => LabelOK'
  BY DEF TypeInv, LabelOK
<1>b. out' = out => OutOK'
  BY DEF TypeInv, OutOK
<1>c. LabelOK /\ LabelFields /\ buf \in [Positions -> Octets] /\ size \in 0..BUFFER_SIZE /\ pos \in Nat
  BY DEF TypeInv, ReaderInv
<1>d. NoLabel.c \in Octets /\ NoLabel.jumps \in 0..MAX_JUMPS /\ NoLabel.resume \in Positions
      /\ NoLabel.into \in {"Name", "Address"}
  BY DEF NoLabel, Octets, Positions
<1>0. CASE UNCHANGED vars
  BY <1>0, Zenon DEF vars, TypeInv, HeaderOK, CountsOK, LabelOK, StageOK, OutOK, ItemsInv
<1>1. ASSUME NEW d \in Datagrams, receive(d) PROVE TypeInv'
  <2>1. /\ stage = "idle" /\ stage' \in {"dropped", "header"} /\ header' = header /\ items' = items
        /\ label' = label /\ out' = out
    BY <1>1 DEF receive, packetVars
  <2>2. items = NoItems
    BY <2>1 DEF TypeInv, ItemsInv
  <2>3. StageOK' /\ stage' \notin Reading
    BY <2>1 DEF StageOK, Reading
  <2>4. HeaderOK' /\ CountsOK' /\ ItemsInv'
    BY <2>1, <2>2, <2>3, Zenon DEF TypeInv, HeaderOK, CountsOK, ItemsInv
  <2> QED BY <2>1, <2>3, <2>4, <1>a, <1>b, Zenon DEF TypeInv
<1>2. CASE Again
  <2>1. /\ header' = NoHeader /\ items' = NoItems /\ label' = NoLabel /\ stage' = "idle"
        /\ out' = NoOut
    BY <1>2 DEF Again
  <2>2. HeaderOK' /\ CountsOK' /\ LabelOK' /\ ItemsInv'
    <3>1. (header = NoHeader /\ items = NoItems /\ label = NoLabel /\ stage \notin Reading)'
      BY <2>1 DEF Reading, NoHeader, NoItems, NoLabel
    <3> QED BY <3>1, FreshTypes, PTL
  <2> QED BY <2>1, <2>2 DEF TypeInv, StageOK, OutOK, NoOut
<1>3. CASE ReadHeader
  <2>1. /\ stage = "header" /\ items' = items /\ label' = label /\ out' = out
        /\ stage' = NextStage(header', items)
        /\ header' = [id |-> READ_U16(pos), hb3 |-> PEEK_BYTE(2), hb4 |-> PEEK_BYTE(3),
                      count |-> [s \in Sections |-> READ_U16(pos + 2 + 2 * s)]]
    BY <1>3 DEF ReadHeader
  <2>2. pos = 0 /\ HEADER_SIZE <= BUFFER_SIZE
    BY <2>1, <1>c DEF ReaderInv, HEADER_SIZE
  <2>3. PEEK_BYTE(2) \in Octets /\ PEEK_BYTE(3) \in Octets
    <3>1. 2 \in Positions /\ 3 \in Positions /\ 0 + 2 = 2 /\ 0 + 3 = 3
      BY <2>2 DEF Positions, HEADER_SIZE
    <3> QED BY <1>c, <2>2, <3>1 DEF PEEK_BYTE
  <2>4. READ_U16(pos) \in U16
    BY <1>c, <2>2, U16Range
  <2>5. ASSUME NEW s \in Sections PROVE READ_U16(pos + 2 + 2 * s) \in U16
    <3>1. pos + 2 + 2 * s \in Nat /\ pos + 2 + 2 * s <= BUFFER_SIZE
      BY <2>2 DEF Sections, HEADER_SIZE
    <3> QED BY <1>c, <3>1, U16Range
  <2>6. HeaderOK'
    BY <2>1, <2>3, <2>4 DEF HeaderOK
  <2>7. items' = NoItems
    BY <2>1 DEF TypeInv, ItemsInv
  <2>8. CountsOK'
    <3>1. \A s \in Sections : header'.count[s] = READ_U16(pos + 2 + 2 * s)
      BY <2>1
    <3>2. \A s \in Sections : header'.count[s] \in U16
      BY <2>5, <3>1, Zenon
    <3>3. \A s \in Sections : Len(items'[s]) = 0
      BY <2>7, NoItemsSeqs, Zenon
    <3>4. \A n \in U16 : 0 <= n
      BY U16Numbers
    <3> QED BY <3>2, <3>3, <3>4, Zenon DEF CountsOK
  <2>9. stage' \in {"process", "name"} /\ (stage' \in Reading => Open(header', items') # {})
    BY <2>1, NextStageReads
  <2>10. StageOK' /\ stage' \notin {"idle", "header"}
    BY <2>9 DEF StageOK
  <2>11. ItemsInv'
    BY <2>7, <2>9, <2>10, NoItemsSeqs, Zenon DEF ItemsInv
  <2> QED BY <2>1, <2>6, <2>8, <2>10, <2>11, <1>a, <1>b, Zenon DEF TypeInv
<1>4. CASE ReadLabel
  <2>1. /\ stage = "name" /\ stage' = "label" /\ header' = header /\ items' = items /\ out' = out
        /\ label' = [label EXCEPT !.c = PEEK_BYTE(0), !.jumps = 0, !.resume = 0, !.name = <<>>]
    BY <1>4 DEF ReadLabel
  <2>2. PEEK_BYTE(0) \in Octets
    <3>1. pos < size /\ pos + 0 = pos
      BY <1>4, <1>c DEF ReadLabel, VALIDATE
    <3> QED BY <1>c, <3>1, OctetRead DEF PEEK_BYTE
  <2>3. LabelOK'
    BY <1>c, <2>1, <2>2 DEF LabelOK, LabelFields, Positions
  <2>4. StageOK' /\ HeaderOK' /\ CountsOK' /\ ItemsInv'
    BY <2>1, SameItemsStep DEF StageOK, Reading
  <2> QED BY <2>1, <2>3, <2>4, <1>b, Zenon DEF TypeInv
<1>5. CASE ReadPointer
  <2>1. /\ stage = "label" /\ stage' = "label" /\ header' = header /\ items' = items /\ out' = out
        /\ label.jumps < MAX_JUMPS /\ label' = Jump(Target) /\ Target < size
        /\ label.c >= 192 /\ pos + 1 <= size
    BY <1>5 DEF ReadPointer, InLoop, VALIDATE
  <2>2. Target \in Nat
    <3>1. PEEK_BYTE(0) \in Nat
      <4>1. pos < size /\ pos + 0 = pos
        BY <1>c, <2>1
      <4>2. PEEK_BYTE(0) \in Octets
        BY <1>c, <4>1, OctetRead DEF PEEK_BYTE
      <4> QED BY <4>2, OctetNumbers
    <3>2. label.c \in 192..255
      BY <1>c, <2>1, OctetNumbers DEF LabelOK
    <3> QED BY <3>1, <3>2, PointerNumbers, Zenon DEF Target
  <2>3. buf[Target] \in Octets
    BY <1>c, <2>1, <2>2, OctetRead
  <2>4. pos + 1 \in Positions /\ label.jumps + 1 \in 0..MAX_JUMPS
    BY <1>c, <2>1 DEF Positions, LabelOK
  <2>5. LabelOK'
    BY <1>c, <2>1, <2>3, <2>4 DEF Jump, LabelOK, LabelFields
  <2>6. StageOK' /\ HeaderOK' /\ CountsOK' /\ ItemsInv'
    BY <2>1, SameItemsStep DEF StageOK, Reading
  <2> QED BY <2>1, <2>5, <2>6, <1>b, Zenon DEF TypeInv
<1>6. CASE ReadText
  <2>1. /\ stage = "label" /\ stage' = "label" /\ header' = header /\ items' = items /\ out' = out
        /\ pos + label.c < size
        /\ label' = [label EXCEPT !.c = PEEK_BYTE(label.c),
                                  !.name = @ \o READ_BYTES(pos, label.c) \o <<Dot>>]
    BY <1>6 DEF ReadText, TextThere, InLoop
  <2>2. PEEK_BYTE(label.c) \in Octets
    <3>1. label.c \in Nat
      BY <1>c, OctetNumbers DEF LabelOK
    <3> QED BY <1>c, <2>1, <3>1, OctetRead DEF PEEK_BYTE
  <2>3. LabelOK'
    BY <1>c, <2>1, <2>2 DEF LabelOK, LabelFields
  <2>4. StageOK' /\ HeaderOK' /\ CountsOK' /\ ItemsInv'
    BY <2>1, SameItemsStep DEF StageOK, Reading
  <2> QED BY <2>1, <2>3, <2>4, <1>b, Zenon DEF TypeInv
<1>7. CASE EndLabel
  <2>1. stage = "label" /\ header' = header /\ out' = out /\ label' = NoLabel
    BY <1>7 DEF EndLabel
  <2>2. LabelOK'
    BY <1>d, <2>1 DEF LabelOK
  <2>3. stage \in Reading
    BY <2>1 DEF Reading
  <2>4. \/ stage' = "fixed" /\ items' = items
        \/ \E e : items' = AddItem(e) /\ stage' = NextStage(header, items')
    BY <1>7 DEF EndLabel
  <2>5. CASE stage' = "fixed" /\ items' = items
    <3>1. StageOK' /\ HeaderOK' /\ CountsOK' /\ ItemsInv'
      BY <2>1, <2>3, <2>5, SameItemsStep DEF StageOK
    <3> QED BY <2>1, <2>2, <3>1, <1>b, Zenon DEF TypeInv
  <2>6. ASSUME NEW e, items' = AddItem(e), stage' = NextStage(header, items') PROVE TypeInv'
    <3>1. StageOK' /\ HeaderOK' /\ CountsOK' /\ ItemsInv'
      BY <2>1, <2>3, <2>6, AddItemStep, Zenon
    <3> QED BY <2>1, <2>2, <3>1, <1>b, Zenon DEF TypeInv
  <2> QED BY <2>4, <2>5, <2>6, Zenon
<1>8. CASE ReadQuestion
  <2>1. /\ stage = "fixed" /\ header' = header /\ label' = label /\ out' = out
        /\ stage' = NextStage(header, items')
        /\ \E e : items' = AddItem(e)
    BY <1>8 DEF ReadQuestion
  <2>2. stage \in Reading
    BY <2>1 DEF Reading
  <2>3. StageOK' /\ HeaderOK' /\ CountsOK' /\ ItemsInv'
    BY <2>1, <2>2, AddItemStep, Zenon
  <2> QED BY <2>1, <2>3, <1>a, <1>b, Zenon DEF TypeInv
<1>9. CASE ReadRecord
  <2>1. /\ stage = "fixed" /\ stage' = "data" /\ header' = header /\ items' = items
        /\ label' = label /\ out' = out
    BY <1>9 DEF ReadRecord
  <2>2. StageOK' /\ HeaderOK' /\ CountsOK' /\ ItemsInv'
    BY <2>1, SameItemsStep DEF StageOK, Reading
  <2> QED BY <2>1, <2>2, <1>a, <1>b, Zenon DEF TypeInv
<1>10. CASE ReadData
  <2>1. stage = "data" /\ header' = header /\ out' = out
    BY <1>10 DEF ReadData
  <2>2. stage \in Reading
    BY <2>1 DEF Reading
  <2>3. \/ stage' = "name" /\ items' = items /\ label' = [label EXCEPT !.into = "Address"]
        \/ \E e : items' = AddItem(e) /\ stage' = NextStage(header, items') /\ label' = label
    BY <1>10 DEF ReadData
  <2>4. CASE stage' = "name" /\ items' = items /\ label' = [label EXCEPT !.into = "Address"]
    <3>1. StageOK' /\ HeaderOK' /\ CountsOK' /\ ItemsInv'
      BY <2>1, <2>2, <2>4, SameItemsStep DEF StageOK
    <3>2. LabelOK'
      BY <1>c, <2>4 DEF LabelOK, LabelFields
    <3> QED BY <2>1, <3>1, <3>2, <1>b, Zenon DEF TypeInv
  <2>5. ASSUME NEW e, items' = AddItem(e), stage' = NextStage(header, items'), label' = label
        PROVE  TypeInv'
    <3>1. StageOK' /\ HeaderOK' /\ CountsOK' /\ ItemsInv'
      BY <2>1, <2>2, <2>5, AddItemStep, Zenon
    <3> QED BY <2>1, <2>5, <3>1, <1>a, <1>b, Zenon DEF TypeInv
  <2> QED BY <2>3, <2>4, <2>5, Zenon
<1>11. ASSUME stage \in Reading \cup {"process"}, NEW s \in {"dropped", "sent", "overrun"}, stage' = s,
              UNCHANGED packetVars, OutOK'
       PROVE  TypeInv'
  <2>1. header' = header /\ items' = items /\ label' = label
    BY <1>11 DEF packetVars
  <2>2. StageOK' /\ HeaderOK' /\ CountsOK' /\ ItemsInv'
    BY <1>11, <2>1, SameItemsStep DEF StageOK, Reading
  <2> QED BY <1>11, <2>1, <2>2, <1>a, Zenon DEF TypeInv
<1>12. CASE Drop
  <2>1. stage \in Reading \cup {"process"}
    BY <1>12 DEF Drop, ReadFails, Request, Reading
  <2> QED BY <1>11, <1>12, <1>b, <2>1 DEF Drop
<1>13. ASSUME NEW h, NEW is, NEW how \in {"forward", "refuse", "redirect", "relay"},
              stage = "process", sendPacket(h, is, how)
       PROVE  TypeInv'
  <2>1. OutOK'
    BY <1>13 DEF sendPacket, OutOK
  <2> QED BY <1>11, <1>13, <2>1 DEF sendPacket
<1>14. CASE Refuse
  BY <1>13, <1>14 DEF Refuse, Request
<1>15. CASE Redirect
  BY <1>13, <1>15 DEF Redirect, Request
<1>16. CASE Relay(NEW_ID)
  BY <1>13, <1>16 DEF Relay
<1>17. ASSUME NEW i \in {NEW_ID, header.id}, Forward(i) PROVE TypeInv'
  BY <1>13, <1>17 DEF Forward, Request
<1>18. CASE ReadTextOverruns
  <2>1. stage \in Reading \cup {"process"}
    BY <1>18 DEF ReadTextOverruns, TextThere, InLoop, Reading
  <2> QED BY <1>11, <1>18, <1>b, <2>1 DEF ReadTextOverruns
<1> QED
  BY <1>0, <1>1, <1>2, <1>3, <1>4, <1>5, <1>6, <1>7, <1>8, <1>9, <1>10,
     <1>12, <1>14, <1>15, <1>16, <1>17, <1>18 DEF Next, Handle, Rearm, Overrun

(* Whatever the datagrams, their number and the size of the buffer: the    *)
(* reader's position, counts and names stay in their ranges, and a section *)
(* never holds more items than the header's count, which is what ends the  *)
(* loops of DnsPacket::Read.                                               *)
THEOREM PacketTypeCorrect == Spec => []PacketTypeOK
<1>1. Init => ReaderInv /\ TypeInv
  BY ReaderInvInit, TypeInvInit
<1>2. ReaderInv /\ TypeInv /\ [Next]_vars => ReaderInv' /\ TypeInv'
  BY ReaderInvNext, TypeInvNext
<1> QED
  BY <1>1, <1>2, TypeInvImplies, PTL DEF Spec

-----------------------------------------------------------------------------
(* Concatenations.  Part(ss, k) is the concatenation of the first k parts. *)
PartFn(ss) ==
  LET upTo[n \in 0..Len(ss)] == IF n = 0 THEN <<>> ELSE upTo[n - 1] \o ss[n]
  IN upTo

Part(ss, k) == PartFn(ss)[k]

Parts(S) == Seq(Seq(S))

LEMMA ConcatIsPart == \A ss : Concat(ss) = Part(ss, Len(ss))
  BY Zenon DEF Concat, Part, PartFn

(* The first k + 1 parts are the first k and the next one.                 *)
LEMMA PartDef ==
  ASSUME NEW S, NEW ss \in Parts(S)
  PROVE  /\ Part(ss, 0) = <<>>
         /\ \A k \in 1..Len(ss) : Part(ss, k) = Part(ss, k - 1) \o ss[k]
         /\ \A k \in 0..Len(ss) : Part(ss, k) \in Seq(S)
<1> DEFINE n == Len(ss)
           G == [k \in 1..n |-> [x \in Seq(S) |-> x \o ss[k]]]
<1>0. n \in Nat /\ \A k \in 1..n : ss[k] \in Seq(S)
  BY DEF Parts
<1>1. \A k \in 1..n : \A x \in Seq(S) : G[k][x] = x \o ss[k] /\ G[k][x] \in Seq(S)
  BY <1>0
<1>2. StaysIn(Seq(S), G, n) /\ <<>> \in Seq(S)
  BY <1>1 DEF StaysIn
<1> HIDE DEF G, n
<1>3. PICK f : IsRecursive(f, Seq(S), <<>>, G, n)
  BY <1>0, <1>2, RecursionInto
<1>4. f \in [0..n -> Seq(S)] /\ f = [k \in 0..n |-> IF k = 0 THEN <<>> ELSE G[k][f[k - 1]]]
  BY <1>3 DEF IsRecursive
<1>5. \A k \in 1..n : k - 1 \in 0..n
  BY <1>0
<1>6. \A k \in 0..n : (IF k = 0 THEN <<>> ELSE G[k][f[k - 1]]) = IF k = 0 THEN <<>> ELSE f[k - 1] \o ss[k]
  <2> SUFFICES ASSUME NEW k \in 0..n, k # 0 PROVE G[k][f[k - 1]] = f[k - 1] \o ss[k]
    OBVIOUS
  <2>1. k \in 1..n
    BY <1>0
  <2>2. f[k - 1] \in Seq(S)
    BY <1>4, <1>5, <2>1
  <2> QED BY <1>1, <2>1, <2>2
<1>7. f = [k \in 0..n |-> IF k = 0 THEN <<>> ELSE f[k - 1] \o ss[k]]
  BY <1>4, <1>6, Zenon
<1> DEFINE p == PartFn(ss)
<1>8. p = [k \in 0..n |-> IF k = 0 THEN <<>> ELSE p[k - 1] \o ss[k]]
  <2>1. f = [k \in 0..Len(ss) |-> IF k = 0 THEN <<>> ELSE f[k - 1] \o ss[k]]
    BY <1>7, Zenon DEF n
  <2>2. p = [k \in 0..Len(ss) |-> IF k = 0 THEN <<>> ELSE p[k - 1] \o ss[k]]
    BY <2>1, Zenon DEF PartFn
  <2> QED BY <2>2, Zenon DEF n
<1>9. \A k : Part(ss, k) = p[k]
  BY Zenon DEF Part
<1> HIDE DEF p
<1>10. p[0] = <<>> /\ \A k \in 1..n : p[k] = p[k - 1] \o ss[k]
  <2>1. 0 \in 0..n /\ \A k \in 1..n : k \in 0..n /\ k # 0
    BY <1>0
  <2> QED BY <1>8, <2>1, Zenon
<1> DEFINE I == {k \in Nat : k <= n => p[k] \in Seq(S)}
<1>11. 0 \in I
  BY <1>2, <1>10
<1>12. \A k \in Nat : k \in I => k + 1 \in I
  <2> SUFFICES ASSUME NEW k \in Nat, k \in I, k + 1 <= n PROVE p[k + 1] \in Seq(S)
    OBVIOUS
  <2>1. k + 1 \in 1..n /\ (k + 1) - 1 = k /\ p[k] \in Seq(S)
    BY <1>0
  <2>2. p[k + 1] = p[k] \o ss[k + 1]
    BY <1>10, <2>1
  <2> QED BY <1>0, <2>1, <2>2
<1> HIDE DEF I
<1>13. \A k \in Nat : k \in I
  BY <1>11, <1>12, NatSetInduction
<1>14. \A k \in 0..n : p[k] \in Seq(S)
  BY <1>0, <1>13 DEF I
<1> QED BY <1>9, <1>10, <1>14, Zenon DEF n

(* The lengths of the parts add up.                                        *)
Off(ss, k) == Len(Part(ss, k))

(* Offsets grow by the length of each part.                                *)
LEMMA OffDef ==
  ASSUME NEW S, NEW ss \in Parts(S)
  PROVE  /\ Off(ss, 0) = 0
         /\ \A k \in 1..Len(ss) : Off(ss, k) = Off(ss, k - 1) + Len(ss[k])
         /\ \A k \in 0..Len(ss) : Off(ss, k) \in Nat
         /\ Concat(ss) \in Seq(S) /\ Len(Concat(ss)) = Off(ss, Len(ss))
<1>0. Len(ss) \in Nat /\ \A k \in 1..Len(ss) : ss[k] \in Seq(S)
  BY DEF Parts
<1>1. Off(ss, 0) = 0
  <2>1. Part(ss, 0) = <<>>
    BY PartDef
  <2> QED BY <2>1 DEF Off
<1>2. \A k \in 0..Len(ss) : Part(ss, k) \in Seq(S)
  BY PartDef
<1>3. \A k \in 0..Len(ss) : Off(ss, k) \in Nat
  BY <1>2 DEF Off
<1>4. ASSUME NEW k \in 1..Len(ss) PROVE Off(ss, k) = Off(ss, k - 1) + Len(ss[k])
  <2>1. k - 1 \in 0..Len(ss)
    BY <1>0
  <2>2. Part(ss, k - 1) \in Seq(S) /\ ss[k] \in Seq(S) /\ Part(ss, k) = Part(ss, k - 1) \o ss[k]
    BY <1>0, <1>2, <2>1, PartDef
  <2> QED BY <2>2, ConcatProperties DEF Off
<1>5. Len(ss) \in 0..Len(ss)
  BY <1>0
<1> QED BY <1>1, <1>2, <1>3, <1>4, <1>5, ConcatIsPart DEF Off

(* They grow.                                                              *)
LEMMA OffGrows ==
  ASSUME NEW S, NEW ss \in Parts(S), NEW k \in 0..Len(ss), NEW l \in k..Len(ss)
  PROVE  Off(ss, k) <= Off(ss, l)
<1>0. Len(ss) \in Nat /\ \A j \in 1..Len(ss) : ss[j] \in Seq(S) /\ Len(ss[j]) \in Nat
  BY DEF Parts
<1> DEFINE I == {j \in Nat : j \in k..Len(ss) => Off(ss, k) <= Off(ss, j)}
<1>1. ASSUME NEW j \in Nat, j \in I PROVE j + 1 \in I
  <2> SUFFICES ASSUME j + 1 \in k..Len(ss) PROVE Off(ss, k) <= Off(ss, j + 1)
    OBVIOUS
  <2>1. CASE j + 1 = k
    BY <2>1, OffDef
  <2>2. CASE j + 1 # k
    <3>1. j \in k..Len(ss) /\ j + 1 \in 1..Len(ss) /\ (j + 1) - 1 = j /\ j \in 0..Len(ss)
      BY <1>0, <2>2
    <3>2. Off(ss, j + 1) = Off(ss, j) + Len(ss[j + 1]) /\ Off(ss, j) \in Nat /\ Off(ss, k) \in Nat
      BY <3>1, OffDef
    <3> QED BY <1>0, <1>1, <3>1, <3>2
  <2> QED BY <2>1, <2>2
<1>2. 0 \in I
  BY OffDef
<1> HIDE DEF I
<1>3. \A j \in Nat : j \in I
  BY <1>1, <1>2, NatSetInduction
<1> QED BY <1>0, <1>3 DEF I

(* Sequences that agree in their first parts, or in the lengths of them.   *)
LEMMA PartsAgree ==
  ASSUME NEW S, NEW ss \in Parts(S), NEW tt \in Parts(S), NEW n \in Nat,
         n <= Len(ss), n <= Len(tt), \A k \in 1..n : ss[k] = tt[k]
  PROVE  \A k \in 0..n : Part(ss, k) = Part(tt, k)
<1> DEFINE I == {k \in Nat : k <= n => Part(ss, k) = Part(tt, k)}
<1>0. 0 \in I
  BY PartDef
<1>1. ASSUME NEW k \in Nat, k \in I PROVE k + 1 \in I
  <2> SUFFICES ASSUME k + 1 <= n PROVE Part(ss, k + 1) = Part(tt, k + 1)
    OBVIOUS
  <2>1. k + 1 \in 1..Len(ss) /\ k + 1 \in 1..Len(tt) /\ k + 1 \in 1..n /\ (k + 1) - 1 = k
    BY DEF Parts
  <2>2. Part(ss, k + 1) = Part(ss, k) \o ss[k + 1] /\ Part(tt, k + 1) = Part(tt, k) \o tt[k + 1]
    BY <2>1, PartDef
  <2>3. Part(ss, k) = Part(tt, k)
    BY <1>1
  <2> QED BY <2>1, <2>2, <2>3
<1> HIDE DEF I
<1>2. \A k \in Nat : k \in I
  BY <1>0, <1>1, NatSetInduction
<1> QED BY <1>2 DEF I

LEMMA OffsAgree ==
  ASSUME NEW S, NEW T, NEW ss \in Parts(S), NEW tt \in Parts(T), NEW n \in Nat,
         n <= Len(ss), n <= Len(tt), \A k \in 1..n : Len(ss[k]) = Len(tt[k])
  PROVE  \A k \in 0..n : Off(ss, k) = Off(tt, k)
<1> DEFINE I == {k \in Nat : k <= n => Off(ss, k) = Off(tt, k)}
<1>0. 0 \in I
  BY OffDef
<1>1. ASSUME NEW k \in Nat, k \in I PROVE k + 1 \in I
  <2> SUFFICES ASSUME k + 1 <= n PROVE Off(ss, k + 1) = Off(tt, k + 1)
    OBVIOUS
  <2>1. k + 1 \in 1..Len(ss) /\ k + 1 \in 1..Len(tt) /\ k + 1 \in 1..n /\ (k + 1) - 1 = k
    BY DEF Parts
  <2>2. Off(ss, k + 1) = Off(ss, k) + Len(ss[k + 1]) 
    BY <2>1, OffDef
  <2>3. Off(tt, k + 1) = Off(tt, k) + Len(tt[k + 1])
    BY <2>1, OffDef
  <2>4. Off(ss, k) = Off(tt, k) /\ Len(ss[k + 1]) = Len(tt[k + 1])
    BY <1>1, <2>1
  <2> QED BY <2>2, <2>3, <2>4
<1> HIDE DEF I
<1>2. \A k \in Nat : k \in I
  BY <1>0, <1>1, NatSetInduction
<1> QED BY <1>2 DEF I

-----------------------------------------------------------------------------
(* The sequence x stands in w behind the first P elements.                 *)
Holds(w, P, x) == P + Len(x) <= Len(w) /\ \A j \in 1..Len(x) : w[P + j] = x[j]

LEMMA HoldsItself ==
  ASSUME NEW w \in Seq(Nat)
  PROVE  Holds(w, 0, w)
<1>1. Len(w) \in Nat
  OBVIOUS
<1>2. \A j \in 1..Len(w) : 0 + j = j
  OBVIOUS
<1> QED BY <1>1, <1>2 DEF Holds

LEMMA CatElements ==
  ASSUME NEW S, NEW x \in Seq(S), NEW y \in Seq(S)
  PROVE  /\ x \o y \in Seq(S) /\ Len(x \o y) = Len(x) + Len(y)
         /\ \A j \in 1..Len(x) : (x \o y)[j] = x[j]
         /\ \A j \in 1..Len(y) : (x \o y)[Len(x) + j] = y[j]
  OBVIOUS

(* Where a concatenation stands, its two parts stand one behind the other. *)
LEMMA HoldsCat ==
  ASSUME NEW w \in Seq(Nat), NEW P \in Nat, NEW x \in Seq(Nat), NEW y \in Seq(Nat),
         Holds(w, P, x \o y)
  PROVE  Holds(w, P, x) /\ Holds(w, P + Len(x), y)
<1> DEFINE z == x \o y
           a == Len(x)
           b == Len(y)
<1>1. Len(z) = a + b /\ (\A j \in 1..a : z[j] = x[j]) /\ (\A j \in 1..b : z[a + j] = y[j])
  BY CatElements
<1>2. a \in Nat /\ b \in Nat /\ Len(w) \in Nat
  OBVIOUS
<1>3. P + Len(z) <= Len(w) /\ \A j \in 1..Len(z) : w[P + j] = z[j]
  BY DEF Holds
<1> HIDE DEF z, a, b
<1>4. P + a <= Len(w) /\ (P + a) + b <= Len(w)
  BY <1>1, <1>2, <1>3
<1>5. ASSUME NEW j \in 1..a PROVE w[P + j] = x[j]
  <2>1. j \in 1..Len(z)
    BY <1>1, <1>2
  <2> QED BY <1>1, <1>3, <2>1
<1>6. ASSUME NEW j \in 1..b PROVE w[(P + a) + j] = y[j]
  <2>1. a + j \in 1..Len(z) /\ P + (a + j) = (P + a) + j
    BY <1>1, <1>2
  <2>2. w[P + (a + j)] = z[a + j]
    BY <1>3, <2>1
  <2> QED BY <1>1, <2>1, <2>2
<1> QED BY <1>4, <1>5, <1>6 DEF Holds, a, b

(* The parts of a concatenation stand at their offsets.                    *)
LEMMA HoldsParts ==
  ASSUME NEW w \in Seq(Nat), NEW P \in Nat, NEW ss \in Parts(Nat), NEW n \in 0..Len(ss),
         Holds(w, P, Part(ss, n))
  PROVE  /\ \A k \in 1..n : Holds(w, P + Off(ss, k - 1), ss[k])
         /\ \A k \in 0..n : P + Off(ss, k) <= Len(w)
<1>0. /\ Len(ss) \in Nat /\ n \in Nat /\ (\A k \in 1..Len(ss) : ss[k] \in Seq(Nat))
      /\ (\A k \in 0..Len(ss) : Part(ss, k) \in Seq(Nat))
  <2>1. \A k \in 0..Len(ss) : Part(ss, k) \in Seq(Nat)
    BY PartDef
  <2> QED BY <2>1 DEF Parts
<1> DEFINE I == {d \in Nat : d <= n => Holds(w, P, Part(ss, n - d))}
<1>1. 0 \in I
  <2>1. n - 0 = n
    BY <1>0
  <2> QED BY <2>1
<1>2. ASSUME NEW d \in Nat, d \in I PROVE d + 1 \in I
  <2> SUFFICES ASSUME d + 1 <= n PROVE Holds(w, P, Part(ss, n - (d + 1)))
    OBVIOUS
  <2> DEFINE k == n - d
  <2>1. k \in 1..Len(ss) /\ k - 1 \in 0..Len(ss) /\ k - 1 = n - (d + 1)
    BY <1>0
  <2>2. Holds(w, P, Part(ss, k))
    BY <1>0, <1>2
  <2> HIDE DEF k
  <2>3. Part(ss, k) = Part(ss, k - 1) \o ss[k]
    BY <2>1, PartDef
  <2>4. Part(ss, k - 1) \in Seq(Nat) /\ ss[k] \in Seq(Nat)
    BY <1>0, <2>1
  <2>5. Holds(w, P, Part(ss, k - 1))
    BY <2>2, <2>3, <2>4, HoldsCat
  <2> QED BY <2>1, <2>5
<1> HIDE DEF I
<1>3. \A d \in Nat : d \in I
  BY <1>1, <1>2, NatSetInduction
<1>4. ASSUME NEW k \in 0..n PROVE Holds(w, P, Part(ss, k))
  <2>1. n - k \in Nat /\ n - k <= n /\ n - (n - k) = k
    BY <1>0
  <2>2. n - k \in I
    BY <1>3, <2>1
  <2> QED BY <2>1, <2>2 DEF I
<1>5. ASSUME NEW k \in 1..n PROVE Holds(w, P + Off(ss, k - 1), ss[k])
  <2>1. k \in 1..Len(ss) /\ k - 1 \in 0..Len(ss) /\ k \in 0..n
    BY <1>0
  <2>2. Part(ss, k) = Part(ss, k - 1) \o ss[k]
    BY <2>1, PartDef
  <2>3. Part(ss, k - 1) \in Seq(Nat) /\ ss[k] \in Seq(Nat) /\ Holds(w, P, Part(ss, k))
    BY <1>0, <1>4, <2>1
  <2> QED BY <2>2, <2>3, HoldsCat DEF Off
<1>6. \A k \in 0..n : P + Off(ss, k) <= Len(w)
  BY <1>4 DEF Holds, Off
<1> QED BY <1>5, <1>6

(* Every element of a concatenation is one of a part.                      *)
LEMMA Located ==
  ASSUME NEW S, NEW ss \in Parts(S), NEW n \in 0..Len(ss), NEW i \in 1..Off(ss, n)
  PROVE  \E k \in 1..n : \E j \in 1..Len(ss[k]) : i = Off(ss, k - 1) + j
<1>0. /\ Len(ss) \in Nat /\ n \in Nat /\ (\A k \in 1..Len(ss) : Len(ss[k]) \in Nat)
      /\ (\A k \in 0..Len(ss) : Off(ss, k) \in Nat) /\ Off(ss, 0) = 0
  BY OffDef DEF Parts
<1> DEFINE M == {k \in 0..n : i <= Off(ss, k)}
<1>1. M \in SUBSET Nat /\ n \in M
  BY <1>0
<1>2. PICK k \in M : \A l \in M : k <= l
  BY <1>1, LeastNat
<1>3. k \in 0..n /\ i <= Off(ss, k) /\ k # 0
  BY <1>0, <1>2
<1>4. k \in 1..n /\ k \in 1..Len(ss) /\ k - 1 \in 0..n /\ k - 1 \in 0..Len(ss) /\ ~(k <= k - 1)
  BY <1>0, <1>3
<1>5. ~(i <= Off(ss, k - 1))
  BY <1>2, <1>4
<1>6. Off(ss, k) = Off(ss, k - 1) + Len(ss[k])
  BY <1>4, OffDef
<1> DEFINE a == Off(ss, k - 1)
           j == i - a
<1>7. a \in Nat /\ Len(ss[k]) \in Nat /\ i \in Nat /\ a < i /\ i <= a + Len(ss[k])
  BY <1>0, <1>3, <1>4, <1>5, <1>6
<1> HIDE DEF a
<1>8. j \in 1..Len(ss[k]) /\ i = a + j
  BY <1>7
<1> QED BY <1>4, <1>8 DEF a

(* What stands there.                                                      *)
LEMMA PartElement ==
  ASSUME NEW ss \in Parts(Nat), NEW n \in 0..Len(ss), NEW k \in 1..n, NEW j \in 1..Len(ss[k])
  PROVE  Off(ss, k - 1) + j \in 1..Off(ss, n) /\ Part(ss, n)[Off(ss, k - 1) + j] = ss[k][j]
<1> DEFINE w == Part(ss, n)
           a == Off(ss, k - 1)
<1>1. w \in Seq(Nat) /\ Len(w) = Off(ss, n)
  BY PartDef DEF Off
<1>2. Holds(w, 0, w)
  BY <1>1, HoldsItself
<1>3. Holds(w, 0 + a, ss[k])
  BY <1>1, <1>2, HoldsParts
<1>4. a \in Nat /\ Len(ss[k]) \in Nat /\ Len(w) \in Nat
  <2>1. k - 1 \in 0..Len(ss) /\ k \in 1..Len(ss) /\ Len(ss) \in Nat
    BY DEF Parts
  <2>2. a \in Nat
    BY <2>1, OffDef
  <2> QED BY <2>1, <2>2, <1>1 DEF Parts
<1> HIDE DEF w, a
<1>5. 0 + a = a
  BY <1>4
<1>6. a + Len(ss[k]) <= Len(w) /\ w[a + j] = ss[k][j]
  BY <1>3, <1>5 DEF Holds
<1>7. a + j \in 1..Len(w)
  BY <1>4, <1>6
<1> QED BY <1>1, <1>6, <1>7 DEF w, a

-----------------------------------------------------------------------------
(* The labels of a name as they are written (Written, in the datagram)     *)
(* and as they are spelled (with a dot behind each).                       *)
Written(ls) == [i \in DOMAIN ls |-> LabelOctets(ls[i])]
Dots(ls) == [i \in DOMAIN ls |-> ls[i] \o <<Dot>>]

(* How many octets the first k labels take.                                *)
At(ls, k) == Off(Written(ls), k)
Spelled(ls, k) == Part(Dots(ls), k)
Dotted(ls) == SubSeq(Spelled(ls, Len(ls)), 1, At(ls, Len(ls)) - 1)

LabelSeqs == Seq(Labels)

LEMMA LabelFacts ==
  ASSUME NEW l \in Labels
  PROVE  /\ l \in Seq(Nat) /\ Len(l) \in 1..63 /\ \A i \in 1..Len(l) : l[i] # 0 /\ l[i] # Dot
         /\ LabelOctets(l) \in Seq(Nat) /\ Len(LabelOctets(l)) = Len(l) + 1
         /\ LabelOctets(l)[1] = Len(l) /\ \A i \in 1..Len(l) : LabelOctets(l)[i + 1] = l[i]
         /\ l \o <<Dot>> \in Seq(Nat) /\ Len(l \o <<Dot>>) = Len(l) + 1
         /\ (l \o <<Dot>>)[Len(l) + 1] = Dot /\ \A i \in 1..Len(l) : (l \o <<Dot>>)[i] = l[i]
<1>1. l \in Seq(Octets) /\ Len(l) \in 1..63 /\ \A i \in DOMAIN l : l[i] \notin {0, Dot}
  BY DEF Labels
<1>2. l \in Seq(Nat) /\ DOMAIN l = 1..Len(l)
  <2>1. Octets \subseteq Nat
    BY DEF Octets
  <2>2. DOMAIN l = 1..Len(l) /\ Len(l) \in Nat /\ \A i \in 1..Len(l) : l[i] \in Octets
    BY <1>1
  <2>3. \A S, T : S \subseteq T => Seq(S) \subseteq Seq(T)
    OBVIOUS
  <2> QED BY <1>1, <2>1, <2>2, <2>3
<1>3. <<Len(l)>> \in Seq(Nat) /\ <<Dot>> \in Seq(Nat) /\ Len(<<Len(l)>>) = 1 /\ Len(<<Dot>>) = 1
  BY <1>1 DEF Dot
<1>4. /\ LabelOctets(l) \in Seq(Nat) /\ Len(LabelOctets(l)) = 1 + Len(l)
      /\ LabelOctets(l)[1] = Len(l) /\ \A i \in 1..Len(l) : LabelOctets(l)[1 + i] = l[i]
  BY <1>2, <1>3, CatElements DEF LabelOctets
<1>5. /\ l \o <<Dot>> \in Seq(Nat) /\ Len(l \o <<Dot>>) = Len(l) + 1
      /\ (l \o <<Dot>>)[Len(l) + 1] = Dot /\ \A i \in 1..Len(l) : (l \o <<Dot>>)[i] = l[i]
  BY <1>2, <1>3
<1>6. \A i \in 1..Len(l) : i + 1 = 1 + i
  BY <1>2
<1>7. \A i \in 1..Len(l) : l[i] # 0 /\ l[i] # Dot
  BY <1>1, <1>2
<1>8. Len(LabelOctets(l)) = Len(l) + 1
  BY <1>1, <1>4
<1>9. \A i \in 1..Len(l) : LabelOctets(l)[i + 1] = l[i]
  BY <1>4, <1>6
<1> QED BY <1>1, <1>2, <1>4, <1>5, <1>7, <1>8, <1>9, Zenon

LEMMA WrittenParts ==
  ASSUME NEW ls \in LabelSeqs
  PROVE  /\ Written(ls) \in Parts(Nat) /\ Len(Written(ls)) = Len(ls) /\ Len(ls) \in Nat
         /\ \A k \in 1..Len(ls) : Written(ls)[k] = LabelOctets(ls[k])
         /\ Dots(ls) \in Parts(Nat) /\ Len(Dots(ls)) = Len(ls)
         /\ \A k \in 1..Len(ls) : Dots(ls)[k] = ls[k] \o <<Dot>>
         /\ \A k \in 1..Len(ls) : ls[k] \in Labels
<1>1. DOMAIN ls = 1..Len(ls) /\ Len(ls) \in Nat /\ \A k \in 1..Len(ls) : ls[k] \in Labels
  BY DEF LabelSeqs
<1>2. \A k \in 1..Len(ls) : LabelOctets(ls[k]) \in Seq(Nat) /\ ls[k] \o <<Dot>> \in Seq(Nat)
  BY <1>1, LabelFacts
<1>3. Written(ls) = [k \in 1..Len(ls) |-> LabelOctets(ls[k])]
  BY <1>1 DEF Written
<1>4. Dots(ls) = [k \in 1..Len(ls) |-> ls[k] \o <<Dot>>]
  BY <1>1 DEF Dots
<1>5. ASSUME NEW n \in Nat, NEW f, DOMAIN f = 1..n, f = [k \in 1..n |-> f[k]],
             \A k \in 1..n : f[k] \in Seq(Nat)
      PROVE  f \in Seq(Seq(Nat)) /\ Len(f) = n
  BY <1>5
<1>6. Written(ls) \in Seq(Seq(Nat)) /\ Len(Written(ls)) = Len(ls)
  <2> DEFINE f == Written(ls)
  <2>1. DOMAIN f = 1..Len(ls) /\ f = [k \in 1..Len(ls) |-> f[k]] /\ \A k \in 1..Len(ls) : f[k] \in Seq(Nat)
    BY <1>2, <1>3
  <2> HIDE DEF f
  <2>2. f \in Seq(Seq(Nat)) /\ Len(f) = Len(ls)
    BY <1>1, <1>5, <2>1
  <2> QED BY <2>2 DEF f
<1>7. Dots(ls) \in Seq(Seq(Nat)) /\ Len(Dots(ls)) = Len(ls)
  <2> DEFINE f == Dots(ls)
  <2>1. DOMAIN f = 1..Len(ls) /\ f = [k \in 1..Len(ls) |-> f[k]] /\ \A k \in 1..Len(ls) : f[k] \in Seq(Nat)
    BY <1>2, <1>4
  <2> HIDE DEF f
  <2>2. f \in Seq(Seq(Nat)) /\ Len(f) = Len(ls)
    BY <1>1, <1>5, <2>1
  <2> QED BY <2>2 DEF f
<1>8. \A k \in 1..Len(ls) : Written(ls)[k] = LabelOctets(ls[k])
  BY <1>3
<1>9. \A k \in 1..Len(ls) : Dots(ls)[k] = ls[k] \o <<Dot>>
  BY <1>4
<1> QED BY <1>1, <1>6, <1>7, <1>8, <1>9 DEF Parts

LEMMA AtDef ==
  ASSUME NEW ls \in LabelSeqs
  PROVE  /\ At(ls, 0) = 0 /\ \A k \in 0..Len(ls) : At(ls, k) \in Nat
         /\ \A k \in 0..(Len(ls) - 1) : At(ls, k + 1) = At(ls, k) + Len(ls[k + 1]) + 1
         /\ \A k \in 0..Len(ls) : Off(Dots(ls), k) = At(ls, k)
         /\ \A k \in 0..Len(ls) : At(ls, k) <= At(ls, Len(ls))
<1> DEFINE f == Written(ls)
           g == Dots(ls)
           n == Len(ls)
<1>1. /\ f \in Parts(Nat) /\ Len(f) = n /\ n \in Nat /\ g \in Parts(Nat) /\ Len(g) = n
      /\ \A k \in 1..n : ls[k] \in Labels /\ f[k] = LabelOctets(ls[k]) /\ g[k] = ls[k] \o <<Dot>>
  BY WrittenParts
<1>2. \A k \in 1..n : Len(ls[k]) \in Nat /\ Len(f[k]) = Len(ls[k]) + 1 /\ Len(g[k]) = Len(ls[k]) + 1
  BY <1>1, LabelFacts
<1> HIDE DEF f, g, n
<1>3. Off(f, 0) = 0 /\ \A k \in 0..n : Off(f, k) \in Nat
  BY <1>1, OffDef
<1>4. ASSUME NEW k \in 0..(n - 1) PROVE Off(f, k + 1) = Off(f, k) + Len(ls[k + 1]) + 1
  <2>1. k + 1 \in 1..n /\ (k + 1) - 1 = k /\ k \in 0..n
    BY <1>1
  <2>2. Off(f, k + 1) = Off(f, k) + Len(f[k + 1])
    BY <1>1, <2>1, OffDef
  <2>3. Off(f, k) \in Nat /\ Len(ls[k + 1]) \in Nat /\ Len(f[k + 1]) = Len(ls[k + 1]) + 1
    BY <1>2, <1>3, <2>1
  <2> QED BY <2>2, <2>3
<1>5. \A k \in 0..n : Off(g, k) = Off(f, k)
  <2>1. n <= Len(f) /\ n <= Len(g) /\ \A k \in 1..n : Len(g[k]) = Len(f[k])
    BY <1>1, <1>2
  <2>2. f \in Parts(Nat) /\ g \in Parts(Nat) /\ n \in Nat
    BY <1>1
  <2> QED BY <2>1, <2>2, OffsAgree
<1>6. \A k \in 0..n : Off(f, k) <= Off(f, n)
  <2>1. \A k \in 0..n : n \in k..n
    BY <1>1
  <2> QED BY <1>1, <2>1, OffGrows
<1> QED BY <1>3, <1>4, <1>5, <1>6, Zenon DEF At, f, g, n

(* The first k labels of a name.                                           *)
LEMMA FirstLabels ==
  ASSUME NEW ls \in LabelSeqs, NEW k \in 0..Len(ls)
  PROVE  /\ LabelsOctets(SubSeq(ls, 1, k)) = Part(Written(ls), k)
         /\ Len(LabelsOctets(SubSeq(ls, 1, k))) = At(ls, k)
         /\ Part(Written(ls), k) \in Seq(Nat)
<1> DEFINE ks == SubSeq(ls, 1, k)
<1>1. Len(ls) \in Nat /\ ks \in LabelSeqs /\ Len(ks) = k /\ \A i \in 1..k : ks[i] = ls[i]
  BY DEF LabelSeqs
<1> HIDE DEF ks
<1>2. Written(ks) \in Parts(Nat) /\ Len(Written(ks)) = k /\ \A i \in 1..k : Written(ks)[i] = LabelOctets(ks[i])
  BY <1>1, WrittenParts
<1>3. Written(ls) \in Parts(Nat) /\ Len(Written(ls)) = Len(ls) /\ \A i \in 1..Len(ls) : Written(ls)[i] = LabelOctets(ls[i])
  BY WrittenParts
<1>4. k \in Nat /\ k <= Len(ls) /\ k <= k /\ (\A i \in 1..k : i \in 1..Len(ls)) /\ k \in 0..k
  BY <1>1
<1>5. \A i \in 1..k : Written(ks)[i] = Written(ls)[i]
  BY <1>1, <1>2, <1>3, <1>4
<1>6. Part(Written(ks), k) = Part(Written(ls), k)
  BY <1>2, <1>3, <1>4, <1>5, PartsAgree
<1>7. LabelsOctets(ks) = Part(Written(ks), k)
  BY <1>2, ConcatIsPart DEF LabelsOctets, Written
<1>8. Part(Written(ls), k) \in Seq(Nat)
  BY <1>3, PartDef
<1> QED BY <1>6, <1>7, <1>8 DEF ks, At, Off

LEMMA NameFacts ==
  ASSUME NEW ls \in Names
  PROVE  ls \in LabelSeqs /\ Len(ls) \in Nat /\ Len(ls) > 0 /\ At(ls, Len(ls)) <= 254
<1>1. ls \in LabelSeqs /\ ls # <<>> /\ Len(LabelsOctets(ls)) <= 254
  BY DEF Names, LabelSeqs
<1>2. SubSeq(ls, 1, Len(ls)) = ls /\ Len(ls) \in 0..Len(ls) /\ Len(ls) \in Nat /\ Len(ls) > 0
  BY <1>1 DEF LabelSeqs
<1>3. At(ls, Len(ls)) = Len(LabelsOctets(ls))
  BY <1>1, <1>2, FirstLabels
<1> QED BY <1>1, <1>2, <1>3

-----------------------------------------------------------------------------
(* A name in the datagram: labels, and at the end a zero or a pointer.     *)
NameEnd(n, q) == IF n = 0 THEN <<0>> ELSE PointerOctets(HEADER_SIZE + At(q, Len(q) - n))

LEMMA PointerFacts ==
  ASSUME NEW t \in Nat
  PROVE  /\ PointerOctets(t) \in Seq(Nat) /\ Len(PointerOctets(t)) = 2
         /\ PointerOctets(t)[1] = 192 + t \div 256 /\ PointerOctets(t)[2] = t % 256
<1>1. t \div 256 \in Nat /\ t % 256 \in Nat
  OBVIOUS
<1> DEFINE a == t \div 256
           b == t % 256
<1>2. PointerOctets(t) = <<192 + a, b>>
  BY DEF PointerOctets
<1> HIDE DEF a, b
<1>3. a \in Nat /\ b \in Nat
  BY <1>1 DEF a, b
<1> QED BY <1>2, <1>3 DEF a, b

LEMMA NameEndFacts ==
  ASSUME NEW q \in LabelSeqs, NEW n \in 0..Len(q)
  PROVE  /\ NameEnd(n, q) \in Seq(Nat) /\ Len(NameEnd(n, q)) = (IF n = 0 THEN 1 ELSE 2)
         /\ n = 0 => NameEnd(n, q)[1] = 0
         /\ n > 0 => LET t == HEADER_SIZE + At(q, Len(q) - n)
                     IN NameEnd(n, q)[1] = 192 + t \div 256 /\ NameEnd(n, q)[2] = t % 256
<1>1. CASE n = 0
  BY <1>1 DEF NameEnd
<1>2. CASE n # 0
  <2> DEFINE t == HEADER_SIZE + At(q, Len(q) - n)
  <2>1. Len(q) - n \in 0..Len(q)
    BY DEF LabelSeqs
  <2>2. t \in Nat
    <3>1. At(q, Len(q) - n) \in Nat
      BY <2>1, AtDef
    <3> QED BY <3>1 DEF HEADER_SIZE
  <2>3. NameEnd(n, q) = PointerOctets(t)
    BY <1>2 DEF NameEnd
  <2> HIDE DEF t
  <2>4. /\ NameEnd(n, q) \in Seq(Nat) /\ Len(NameEnd(n, q)) = 2
        /\ NameEnd(n, q)[1] = 192 + t \div 256 /\ NameEnd(n, q)[2] = t % 256
    BY <2>2, <2>3, PointerFacts
  <2> QED BY <1>2, <2>4 DEF t
<1> QED BY <1>1, <1>2

(* The octets of a name, and how many there are.                           *)
LEMMA NameOctetsAre ==
  ASSUME NEW ls \in LabelSeqs, NEW q \in LabelSeqs, NEW n \in 0..Len(ls), n <= Len(q)
  PROVE  /\ NameOctets(ls, n, q) = Part(Written(ls), Len(ls) - n) \o NameEnd(n, q)
         /\ NameOctets(ls, n, q) \in Seq(Nat)
         /\ Len(NameOctets(ls, n, q)) = At(ls, Len(ls) - n) + Len(NameEnd(n, q))
<1> DEFINE k == Len(ls) - n
           e == Len(q) - n
<1>0. k \in 0..Len(ls) /\ e \in 0..Len(q) /\ n \in 0..Len(q)
  BY DEF LabelSeqs
<1>1. /\ LabelsOctets(SubSeq(ls, 1, k)) = Part(Written(ls), k)
      /\ Part(Written(ls), k) \in Seq(Nat)
      /\ Len(Part(Written(ls), k)) = At(ls, k)
  BY <1>0, FirstLabels
<1>2. LabelPosition(q, e + 1) = HEADER_SIZE + At(q, e)
  <2>1. (e + 1) - 1 = e
    BY <1>0
  <2>2. Len(LabelsOctets(SubSeq(q, 1, e))) = At(q, e)
    BY <1>0, FirstLabels
  <2> QED BY <2>1, <2>2 DEF LabelPosition
<1>3. NameOctets(ls, n, q) = Part(Written(ls), k) \o NameEnd(n, q)
  <2>1. NameOctets(ls, n, q) = LabelsOctets(SubSeq(ls, 1, k)) \o
           (IF n = 0 THEN <<0>> ELSE PointerOctets(LabelPosition(q, e + 1)))
    BY DEF NameOctets
  <2> HIDE DEF k, e
  <2>2. (IF n = 0 THEN <<0>> ELSE PointerOctets(LabelPosition(q, e + 1))) = NameEnd(n, q)
    BY <1>2 DEF NameEnd, e
  <2> QED BY <1>1, <2>1, <2>2
<1> HIDE DEF k, e
<1>4. NameEnd(n, q) \in Seq(Nat)
  BY <1>0, NameEndFacts
<1>5. NameOctets(ls, n, q) \in Seq(Nat) /\ Len(NameOctets(ls, n, q)) = At(ls, k) + Len(NameEnd(n, q))
  BY <1>1, <1>3, <1>4, CatElements
<1> QED BY <1>3, <1>5 DEF k

(* What is found at the places where ReadLabel looks.                      *)
NameAt(w, P, ls, n, q) == Holds(w, P, NameOctets(ls, n, q))

(* Where the octets of a name stand, its labels and its end stand.         *)
LEMMA NameInPlace ==
  ASSUME NEW w \in Seq(Nat), NEW P \in Nat, NEW ls \in LabelSeqs, NEW q \in LabelSeqs,
         NEW n \in 0..Len(ls), n <= Len(q), NameAt(w, P, ls, n, q)
  PROVE  /\ \A k \in 0..(Len(ls) - n - 1) :
              w[P + At(ls, k) + 1] = Len(ls[k + 1]) /\ Holds(w, P + At(ls, k) + 1, ls[k + 1])
         /\ Holds(w, P + At(ls, Len(ls) - n), NameEnd(n, q))
<1> DEFINE m == Len(ls) - n
<1>0. m \in 0..Len(ls) /\ Len(ls) \in Nat
  BY DEF LabelSeqs
<1>1. /\ NameOctets(ls, n, q) = Part(Written(ls), m) \o NameEnd(n, q)
      /\ Part(Written(ls), m) \in Seq(Nat) /\ Len(Part(Written(ls), m)) = At(ls, m)
      /\ NameEnd(n, q) \in Seq(Nat)
  <2>1. NameOctets(ls, n, q) = Part(Written(ls), m) \o NameEnd(n, q)
    BY NameOctetsAre
  <2>2. Part(Written(ls), m) \in Seq(Nat) /\ Len(Part(Written(ls), m)) = At(ls, m)
    BY <1>0, FirstLabels DEF At, Off
  <2>3. n \in 0..Len(q)
    BY DEF LabelSeqs
  <2> QED BY <2>1, <2>2, <2>3, NameEndFacts
<1> HIDE DEF m
<1>2. Holds(w, P, Part(Written(ls), m)) /\ Holds(w, P + At(ls, m), NameEnd(n, q))
  BY <1>1, HoldsCat DEF NameAt
<1>3. /\ Written(ls) \in Parts(Nat) /\ m \in 0..Len(Written(ls))
      /\ \A k \in 1..Len(ls) : Written(ls)[k] = LabelOctets(ls[k]) /\ ls[k] \in Labels
  BY <1>0, WrittenParts
<1>4. \A k \in 1..m : Holds(w, P + Off(Written(ls), k - 1), Written(ls)[k])
  BY <1>2, <1>3, HoldsParts
<1>5. ASSUME NEW k \in 0..(m - 1)
      PROVE  w[P + At(ls, k) + 1] = Len(ls[k + 1]) /\ Holds(w, P + At(ls, k) + 1, ls[k + 1])
  <2> DEFINE l == ls[k + 1]
  <2>1. k + 1 \in 1..m /\ (k + 1) - 1 = k /\ k + 1 \in 1..Len(ls) /\ k \in 0..Len(ls)
    BY <1>0
  <2>2. l \in Labels /\ Holds(w, P + At(ls, k), LabelOctets(l)) /\ At(ls, k) \in Nat
    BY <1>3, <1>4, <2>1, AtDef DEF At
  <2> HIDE DEF l
  <2>3. l \in Seq(Nat) /\ Len(l) \in Nat /\ LabelOctets(l) = <<Len(l)>> \o l
    BY <2>2, LabelFacts DEF LabelOctets
  <2>4. <<Len(l)>> \in Seq(Nat) /\ Len(<<Len(l)>>) = 1 /\ <<Len(l)>>[1] = Len(l)
    BY <2>3
  <2> DEFINE a == P + At(ls, k)
             x == <<Len(l)>>
  <2>5. a \in Nat /\ Holds(w, a, x \o l)
    BY <2>2, <2>3
  <2> HIDE DEF a, x
  <2>6. Holds(w, a, x) /\ Holds(w, a + Len(x), l)
    BY <2>3, <2>4, <2>5, HoldsCat DEF x
  <2>7. w[a + 1] = Len(l) /\ Holds(w, a + 1, l)
    BY <2>4, <2>6 DEF Holds, x
  <2> QED BY <2>7 DEF a, l
<1> QED BY <1>2, <1>5 DEF m

-----------------------------------------------------------------------------
(* A name as the program keeps it, with dots between the labels.           *)
LEMMA SpelledFacts ==
  ASSUME NEW ls \in LabelSeqs
  PROVE  /\ Spelled(ls, 0) = <<>>
         /\ \A k \in 0..(Len(ls) - 1) : Spelled(ls, k + 1) = Spelled(ls, k) \o (ls[k + 1] \o <<Dot>>)
         /\ \A k \in 0..Len(ls) : Spelled(ls, k) \in Seq(Nat) /\ Len(Spelled(ls, k)) = At(ls, k)
<1>1. Dots(ls) \in Parts(Nat) /\ Len(Dots(ls)) = Len(ls) /\ Len(ls) \in Nat
      /\ \A k \in 1..Len(ls) : Dots(ls)[k] = ls[k] \o <<Dot>>
  BY WrittenParts
<1>2. Part(Dots(ls), 0) = <<>>
  BY <1>1, PartDef
<1>3. ASSUME NEW k \in 0..(Len(ls) - 1)
      PROVE  Spelled(ls, k + 1) = Spelled(ls, k) \o (ls[k + 1] \o <<Dot>>)
  <2>1. k + 1 \in 1..Len(ls) /\ (k + 1) - 1 = k
    BY <1>1
  <2>2. Part(Dots(ls), k + 1) = Part(Dots(ls), k) \o Dots(ls)[k + 1]
    BY <1>1, <2>1, PartDef
  <2> QED BY <1>1, <2>1, <2>2 DEF Spelled
<1>4. \A k \in 0..Len(ls) : Part(Dots(ls), k) \in Seq(Nat)
  BY <1>1, PartDef
<1>5. \A k \in 0..Len(ls) : Len(Part(Dots(ls), k)) = At(ls, k)
  BY AtDef DEF Off
<1> QED BY <1>2, <1>3, <1>4, <1>5 DEF Spelled

(* Octet j of label k, or the dot behind it.                               *)
LEMMA SpelledOctets ==
  ASSUME NEW ls \in LabelSeqs, NEW n \in 0..Len(ls), NEW k \in 0..(n - 1)
  PROVE  /\ \A j \in 1..Len(ls[k + 1]) : /\ At(ls, k) + j \in 1..At(ls, n)
                                         /\ Spelled(ls, n)[At(ls, k) + j] = ls[k + 1][j]
                                         /\ Spelled(ls, n)[At(ls, k) + j] # Dot
                                         /\ Spelled(ls, n)[At(ls, k) + j] # 0
         /\ At(ls, k + 1) \in 1..At(ls, n) /\ Spelled(ls, n)[At(ls, k + 1)] = Dot
<1> DEFINE g == Dots(ls)
           l == ls[k + 1]
<1>1. g \in Parts(Nat) /\ Len(g) = Len(ls) /\ Len(ls) \in Nat
      /\ \A i \in 1..Len(ls) : g[i] = ls[i] \o <<Dot>> /\ ls[i] \in Labels
  BY WrittenParts
<1>2. /\ k + 1 \in 1..Len(ls) /\ (k + 1) - 1 = k /\ k + 1 \in 1..n /\ k \in 0..Len(ls)
      /\ n \in 0..Len(ls) /\ k \in 0..(Len(ls) - 1)
  BY <1>1
<1>3. l \in Labels /\ g[k + 1] = l \o <<Dot>>
  BY <1>1, <1>2
<1>4. Off(g, k) = At(ls, k) /\ Off(g, n) = At(ls, n)
  BY <1>2, AtDef
<1>5. At(ls, k + 1) = At(ls, k) + Len(l) + 1
  BY <1>2, AtDef
<1>6. /\ Len(l) \in Nat /\ Len(l \o <<Dot>>) = Len(l) + 1 /\ (l \o <<Dot>>)[Len(l) + 1] = Dot
      /\ \A i \in 1..Len(l) : (l \o <<Dot>>)[i] = l[i] /\ l[i] # 0 /\ l[i] # Dot
  BY <1>3, LabelFacts
<1>7. At(ls, k) \in Nat
  BY <1>2, AtDef
<1>8. \A j \in 1..Len(g[k + 1]) : /\ Off(g, k) + j \in 1..Off(g, n)
                                  /\ Part(g, n)[Off(g, k) + j] = g[k + 1][j]
  <2>1. n \in 0..Len(g)
    BY <1>1, <1>2
  <2>2. \A j \in 1..Len(g[k + 1]) : /\ Off(g, (k + 1) - 1) + j \in 1..Off(g, n)
                                    /\ Part(g, n)[Off(g, (k + 1) - 1) + j] = g[k + 1][j]
    <3> HIDE DEF g
    <3> QED BY <1>1, <1>2, <2>1, PartElement
  <2> QED BY <1>2, <2>2
<1> HIDE DEF g, l
<1>9. \A j \in 1..(Len(l) + 1) : /\ At(ls, k) + j \in 1..At(ls, n)
                                 /\ Part(g, n)[At(ls, k) + j] = (l \o <<Dot>>)[j]
  BY <1>3, <1>4, <1>6, <1>8
<1>10. Len(l) + 1 \in 1..(Len(l) + 1) /\ \A j \in 1..Len(l) : j \in 1..(Len(l) + 1)
  BY <1>6
<1>11. At(ls, k) + (Len(l) + 1) = At(ls, k + 1)
  BY <1>5, <1>6, <1>7
<1>12. At(ls, k + 1) \in 1..At(ls, n) /\ Part(g, n)[At(ls, k + 1)] = Dot
  BY <1>6, <1>9, <1>10, <1>11
<1>13. \A j \in 1..Len(l) : /\ At(ls, k) + j \in 1..At(ls, n)
                            /\ Part(g, n)[At(ls, k) + j] = l[j]
  BY <1>6, <1>9, <1>10
<1> QED BY <1>6, <1>12, <1>13 DEF Spelled, g, l

(* Every octet is one of a label or the dot behind it.                     *)
LEMMA SpelledLocated ==
  ASSUME NEW ls \in LabelSeqs, NEW n \in 0..Len(ls), NEW i \in 1..At(ls, n)
  PROVE  \E k \in 0..(n - 1) : \/ i = At(ls, k + 1)
                               \/ \E j \in 1..Len(ls[k + 1]) : i = At(ls, k) + j
<1> DEFINE g == Dots(ls)
<1>1. g \in Parts(Nat) /\ Len(g) = Len(ls) /\ Len(ls) \in Nat
      /\ \A k \in 1..Len(ls) : g[k] = ls[k] \o <<Dot>> /\ ls[k] \in Labels
  BY WrittenParts
<1>2. Off(g, n) = At(ls, n)
  BY AtDef
<1>3. PICK k \in 1..n : \E j \in 1..Len(g[k]) : i = Off(g, k - 1) + j
  BY <1>1, <1>2, Located
<1>4. PICK j \in 1..Len(g[k]) : i = Off(g, k - 1) + j
  BY <1>3
<1> DEFINE b == k - 1
<1>5. b \in 0..(n - 1) /\ b + 1 = k /\ b \in 0..Len(ls) /\ k \in 1..Len(ls) /\ b \in 0..(Len(ls) - 1)
  BY <1>1
<1>6. i = At(ls, b) + j
  <2>1. Off(g, b) = At(ls, b)
    BY <1>5, AtDef
  <2> QED BY <1>4, <2>1
<1> HIDE DEF b, g
<1>7. Len(g[k]) = Len(ls[k]) + 1 /\ Len(ls[k]) \in Nat
  <2>1. ls[k] \in Labels /\ g[k] = ls[k] \o <<Dot>>
    BY <1>1, <1>5
  <2>2. Len(ls[k] \o <<Dot>>) = Len(ls[k]) + 1 /\ Len(ls[k]) \in 1..63
    BY <2>1, LabelFacts
  <2> QED BY <2>1, <2>2
<1>8. At(ls, b + 1) = At(ls, b) + Len(ls[b + 1]) + 1 /\ At(ls, b) \in Nat
  BY <1>5, AtDef
<1>9. CASE j = Len(ls[k]) + 1
  <2>1. i = At(ls, b + 1)
    BY <1>5, <1>6, <1>7, <1>8, <1>9
  <2> QED BY <1>5, <2>1
<1>10. CASE j # Len(ls[k]) + 1
  <2>1. j \in 1..Len(ls[b + 1])
    BY <1>5, <1>7, <1>10
  <2> QED BY <1>5, <1>6, <2>1
<1> QED BY <1>9, <1>10

LEMMA DottedFacts ==
  ASSUME NEW ls \in Names
  PROVE  LET d == Dotted(ls)
             e == At(ls, Len(ls)) - 1
         IN /\ d \in Seq(Nat) /\ Len(d) = e /\ e \in Nat /\ e > 0
            /\ \A i \in 1..e : d[i] = Spelled(ls, Len(ls))[i] /\ d[i] # 0
<1> DEFINE n == Len(ls)
           a == At(ls, n)
           s == Spelled(ls, n)
<1>1. ls \in LabelSeqs /\ n \in Nat /\ n > 0
  BY NameFacts
<1>2. n \in 0..n /\ 0 \in 0..(n - 1) /\ 0 + 1 = 1
  BY <1>1
<1>3. s \in Seq(Nat) /\ Len(s) = a /\ a \in Nat
  BY <1>1, <1>2, SpelledFacts, AtDef
<1>4. At(ls, 1) = 0 + Len(ls[1]) + 1 /\ ls[1] \in Labels
  <2>1. At(ls, 0) = 0
    BY <1>1, AtDef
  <2>2. At(ls, 0 + 1) = At(ls, 0) + Len(ls[0 + 1]) + 1
    BY <1>1, <1>2, AtDef
  <2>3. 1 \in 1..n
    BY <1>1
  <2>4. ls[1] \in Labels
    BY <1>1, <2>3, WrittenParts
  <2> QED BY <1>2, <2>1, <2>2, <2>4
<1>5. At(ls, 1) \in Nat /\ At(ls, 1) >= 2
  <2>1. Len(ls[1]) \in 1..63
    BY <1>4, LabelFacts
  <2>2. \A x \in 1..63 : 0 + x + 1 \in Nat /\ 0 + x + 1 >= 2
    OBVIOUS
  <2> QED BY <1>4, <2>1, <2>2
<1>6. At(ls, 1) <= a
  <2>1. 1 \in 0..n
    BY <1>1
  <2> QED BY <1>1, <2>1, AtDef
<1>7. a - 1 \in Nat /\ a - 1 > 0
  BY <1>3, <1>5, <1>6
<1>8. \A i \in 1..a : s[i] # 0
  <2> SUFFICES ASSUME NEW i \in 1..a PROVE s[i] # 0
    OBVIOUS
  <2>1. PICK k \in 0..(n - 1) : i = At(ls, k + 1) \/ \E j \in 1..Len(ls[k + 1]) : i = At(ls, k) + j
    BY <1>1, <1>2, SpelledLocated
  <2>2. CASE i = At(ls, k + 1)
    <3>1. s[i] = Dot
      BY <1>1, <1>2, <2>2, SpelledOctets
    <3> QED BY <3>1 DEF Dot
  <2>3. CASE \E j \in 1..Len(ls[k + 1]) : i = At(ls, k) + j
    BY <1>1, <1>2, <2>3, SpelledOctets
  <2> QED BY <2>1, <2>2, <2>3
<1> HIDE DEF s, a
<1>9. /\ SubSeq(s, 1, a - 1) \in Seq(Nat) /\ Len(SubSeq(s, 1, a - 1)) = a - 1
      /\ \A i \in 1..(a - 1) : SubSeq(s, 1, a - 1)[i] = s[i]
  BY <1>3, <1>7
<1>10. \A i \in 1..(a - 1) : i \in 1..a
  BY <1>3
<1> QED BY <1>7, <1>8, <1>9, <1>10 DEF Dotted, s, a, n

LEMMA CStringWhole ==
  ASSUME NEW s \in Seq(Nat), \A i \in 1..Len(s) : s[i] # 0
  PROVE  CString(s) = s
<1> DEFINE P(n) == (\A i \in 1..n : s[i] # 0) /\ (n < Len(s) => s[n + 1] = 0)
           n == CHOOSE n \in 0..Len(s) : P(n)
<1>0. Len(s) \in Nat
  OBVIOUS
<1>1. Len(s) \in 0..Len(s) /\ P(Len(s))
  BY <1>0
<1>2. n \in 0..Len(s) /\ P(n)
  <2> HIDE DEF P
  <2> QED BY <1>1
<1>3. CString(s) = SubSeq(s, 1, n)
  BY Zenon DEF CString
<1> HIDE DEF n
<1>4. n = Len(s)
  <2> SUFFICES ASSUME n < Len(s) PROVE FALSE
    BY <1>0, <1>2
  <2>1. n + 1 \in 1..Len(s) /\ s[n + 1] = 0
    BY <1>0, <1>2
  <2> QED BY <2>1
<1> QED BY <1>3, <1>4

(* Where the label ends that begins at i: before the next dot.             *)
EndOf(s, i) ==
  CHOOSE j \in i..(Len(s) + 1) : /\ \A k \in i..(j - 1) : s[k] # Dot
                                 /\ j <= Len(s) => s[j] = Dot

LEMMA EndIs ==
  ASSUME NEW s \in Seq(Nat), NEW i \in Nat, NEW e \in i..(Len(s) + 1),
         \A k \in i..(e - 1) : s[k] # Dot, e <= Len(s) => s[e] = Dot
  PROVE  EndOf(s, i) = e
<1> DEFINE P(j) == (\A k \in i..(j - 1) : s[k] # Dot) /\ (j <= Len(s) => s[j] = Dot)
           c == CHOOSE j \in i..(Len(s) + 1) : P(j)
<1>0. Len(s) \in Nat /\ e \in Nat
  OBVIOUS
<1>1. P(e)
  OBVIOUS
<1>2. c \in i..(Len(s) + 1) /\ P(c)
  <2> HIDE DEF P
  <2> QED BY <1>1
<1>3. EndOf(s, i) = c
  BY Zenon DEF EndOf
<1> HIDE DEF c
<1>4. c = e
  <2>1. CASE c < e
    <3>1. c <= Len(s) /\ c \in i..(e - 1)
      BY <1>0, <1>2, <2>1
    <3> QED BY <1>2, <3>1
  <2>2. CASE e < c
    <3>1. e <= Len(s) /\ e \in i..(c - 1)
      BY <1>0, <1>2, <2>2
    <3> QED BY <1>2, <3>1
  <2> QED BY <1>0, <1>2, <2>1, <2>2
<1> QED BY <1>3, <1>4

(* WriteLabel makes of a name with dots the labels it was made of.         *)
LEMMA WriteLabelIs ==
  ASSUME NEW s
  PROVE  WriteLabel(s) = [i \in 1..(Len(s) + 2) |->
            CASE i = Len(s) + 2 -> 0
              [] i = 1 -> EndOf(s, 1) - 1
              [] i \in 2..(Len(s) + 1) /\ s[i - 1] = Dot -> EndOf(s, i) - i
              [] OTHER -> s[i - 1]]
  BY Zenon DEF WriteLabel, EndOf

(* Its elements, in a form that does not depend on the order of the cases. *)
LEMMA WriteLabelElements ==
  ASSUME NEW s \in Seq(Nat), Len(s) > 0
  PROVE  /\ DOMAIN WriteLabel(s) = 1..(Len(s) + 2)
         /\ WriteLabel(s) = [i \in 1..(Len(s) + 2) |-> WriteLabel(s)[i]]
         /\ WriteLabel(s)[Len(s) + 2] = 0
         /\ WriteLabel(s)[1] = EndOf(s, 1) - 1
         /\ \A i \in 2..(Len(s) + 1) :
              /\ s[i - 1] = Dot => WriteLabel(s)[i] = EndOf(s, i) - i
              /\ s[i - 1] # Dot => WriteLabel(s)[i] = s[i - 1]
<1> DEFINE n == Len(s)
           F(i) == CASE i = n + 2 -> 0
                     [] i = 1 -> EndOf(s, 1) - 1
                     [] i \in 2..(n + 1) /\ s[i - 1] = Dot -> EndOf(s, i) - i
                     [] OTHER -> s[i - 1]
           f == WriteLabel(s)
<1>0. n \in Nat /\ n > 0
  OBVIOUS
<1>1. f = [i \in 1..(n + 2) |-> F(i)]
  BY WriteLabelIs
<1> HIDE DEF f, n
<1>2. F(n + 2) = 0
  BY <1>0
<1>3. F(1) = EndOf(s, 1) - 1
  BY <1>0
<1>4. \A i \in 2..(n + 1) : /\ s[i - 1] = Dot => F(i) = EndOf(s, i) - i
                            /\ s[i - 1] # Dot => F(i) = s[i - 1]
  BY <1>0
<1>5. n + 2 \in 1..(n + 2) /\ 1 \in 1..(n + 2) /\ \A i \in 2..(n + 1) : i \in 1..(n + 2)
  BY <1>0
<1> HIDE DEF F
<1>6. DOMAIN f = 1..(n + 2) /\ f = [i \in 1..(n + 2) |-> f[i]] /\ \A i \in 1..(n + 2) : f[i] = F(i)
  BY <1>1
<1> QED BY <1>2, <1>3, <1>4, <1>5, <1>6 DEF f, n

(* The octet that begins label k + 1, and those of the label.              *)
LEMMA WrittenOctets ==
  ASSUME NEW ls \in LabelSeqs, NEW k \in 0..(Len(ls) - 1)
  PROVE  LET w == Part(Written(ls), Len(ls))
         IN /\ w[At(ls, k) + 1] = Len(ls[k + 1])
            /\ \A j \in 1..Len(ls[k + 1]) : w[At(ls, k) + 1 + j] = ls[k + 1][j]
<1> DEFINE w == Part(Written(ls), Len(ls))
           f == Written(ls)
           l == ls[k + 1]
<1>1. /\ f \in Parts(Nat) /\ Len(f) = Len(ls) /\ Len(ls) \in Nat
      /\ \A i \in 1..Len(ls) : f[i] = LabelOctets(ls[i]) /\ ls[i] \in Labels
  BY WrittenParts
<1>2. k + 1 \in 1..Len(ls) /\ (k + 1) - 1 = k /\ Len(ls) \in 0..Len(f) /\ k \in 0..Len(ls)
  BY <1>1
<1>3. l \in Labels /\ f[k + 1] = LabelOctets(l)
  BY <1>1, <1>2
<1>4. \A j \in 1..Len(f[k + 1]) : w[Off(f, (k + 1) - 1) + j] = f[k + 1][j]
  <2> HIDE DEF f
  <2> QED BY <1>1, <1>2, PartElement DEF f
<1>5. /\ Len(l) \in 1..63 /\ Len(LabelOctets(l)) = Len(l) + 1
      /\ LabelOctets(l)[1] = Len(l) /\ \A i \in 1..Len(l) : LabelOctets(l)[i + 1] = l[i]
  BY <1>3, LabelFacts
<1>6. At(ls, k) \in Nat
  BY <1>2, AtDef
<1> HIDE DEF w, l
<1>7. \A j \in 1..(Len(l) + 1) : w[At(ls, k) + j] = LabelOctets(l)[j]
  BY <1>2, <1>3, <1>4, <1>5 DEF At
<1>8. w[At(ls, k) + 1] = Len(l)
  BY <1>5, <1>7
<1>9. ASSUME NEW j \in 1..Len(l) PROVE w[At(ls, k) + 1 + j] = l[j]
  <2>1. j + 1 \in 1..(Len(l) + 1) /\ At(ls, k) + (j + 1) = At(ls, k) + 1 + j
    BY <1>5, <1>6
  <2> QED BY <1>5, <1>7, <2>1
<1> QED BY <1>8, <1>9 DEF w, l

(* WriteLabel writes a name as it stands in a message, in full.            *)
LEMMA WriteLabelWrites ==
  ASSUME NEW ls \in Names
  PROVE  WriteLabel(Dotted(ls)) = Part(Written(ls), Len(ls)) \o <<0>>
<1> DEFINE n == Len(ls)
           a == At(ls, n)
           d == Dotted(ls)
           s == Spelled(ls, n)
           f == WriteLabel(d)
           w == Part(Written(ls), n)
<1>1. ls \in LabelSeqs /\ n \in Nat /\ n > 0 /\ n \in 0..n
  BY NameFacts
<1>2. /\ d \in Seq(Nat) /\ Len(d) = a - 1 /\ a - 1 \in Nat /\ a - 1 > 0 /\ a \in Nat
      /\ \A i \in 1..(a - 1) : d[i] = s[i]
  <2>1. /\ d \in Seq(Nat) /\ Len(d) = a - 1 /\ a - 1 \in Nat /\ a - 1 > 0
        /\ \A i \in 1..(a - 1) : d[i] = s[i]
    BY DottedFacts
  <2>2. a \in Nat
    BY <1>1, AtDef
  <2> QED BY <2>1, <2>2
<1>3. (a - 1) + 2 = a + 1 /\ (a - 1) + 1 = a
  BY <1>2
<1>4. w \in Seq(Nat) /\ Len(w) = a
  BY <1>1, FirstLabels DEF At, Off
<1>5. /\ \A k \in 0..(n - 1) : \A j \in 1..Len(ls[k + 1]) :
           s[At(ls, k) + j] = ls[k + 1][j] /\ s[At(ls, k) + j] # Dot
      /\ \A k \in 0..(n - 1) : s[At(ls, k + 1)] = Dot
  BY <1>1, SpelledOctets
<1>6. \A k \in 0..(n - 1) : /\ At(ls, k) \in Nat /\ At(ls, k + 1) \in Nat /\ At(ls, k + 1) <= a
                            /\ At(ls, k + 1) = At(ls, k) + Len(ls[k + 1]) + 1
                            /\ Len(ls[k + 1]) \in Nat /\ Len(ls[k + 1]) >= 1
  <2> SUFFICES ASSUME NEW k \in 0..(n - 1)
               PROVE  /\ At(ls, k) \in Nat /\ At(ls, k + 1) \in Nat /\ At(ls, k + 1) <= a
                      /\ At(ls, k + 1) = At(ls, k) + Len(ls[k + 1]) + 1
                      /\ Len(ls[k + 1]) \in Nat /\ Len(ls[k + 1]) >= 1
    OBVIOUS
  <2>1. k \in 0..n /\ k + 1 \in 0..n /\ k + 1 \in 1..n
    BY <1>1
  <2>2. ls[k + 1] \in Labels
    BY <1>1, <2>1, WrittenParts
  <2>3. Len(ls[k + 1]) \in Nat /\ Len(ls[k + 1]) >= 1
    <3>1. Len(ls[k + 1]) \in 1..63
      BY <2>2, LabelFacts
    <3>2. \A x \in 1..63 : x \in Nat /\ x >= 1
      OBVIOUS
    <3> QED BY <3>1, <3>2, Zenon
  <2>4. At(ls, k) \in Nat /\ At(ls, k + 1) \in Nat /\ At(ls, k + 1) <= a
    BY <1>1, <2>1, AtDef
  <2>5. At(ls, k + 1) = At(ls, k) + Len(ls[k + 1]) + 1
    BY <1>1, AtDef
  <2> QED BY <2>3, <2>4, <2>5
<1>7. /\ DOMAIN f = 1..(a + 1) /\ f = [i \in 1..(a + 1) |-> f[i]] /\ f[a + 1] = 0
      /\ f[1] = EndOf(d, 1) - 1
      /\ \A i \in 2..a : /\ d[i - 1] = Dot => f[i] = EndOf(d, i) - i
                         /\ d[i - 1] # Dot => f[i] = d[i - 1]
  <2> HIDE DEF d, a
  <2>1. Len(d) > 0
    BY <1>2
  <2> QED BY <1>2, <1>3, <2>1, WriteLabelElements, ZenonT(30)
<1>8. \A k \in 0..(n - 1) : \A j \in 1..Len(ls[k + 1]) :
        w[At(ls, k) + 1] = Len(ls[k + 1]) /\ w[At(ls, k) + 1 + j] = ls[k + 1][j]
  BY <1>1, WrittenOctets
<1> HIDE DEF a, d, s, f, w, n
(* The label that begins behind At(ls, k) ends at the next dot.            *)
<1>9. ASSUME NEW k \in 0..(n - 1)
      PROVE  EndOf(d, At(ls, k) + 1) = At(ls, k + 1)
  <2> DEFINE b == At(ls, k)
             c == At(ls, k + 1)
             l == ls[k + 1]
  <2>1. b \in Nat /\ c \in Nat /\ c <= a /\ c = b + Len(l) + 1 /\ Len(l) \in Nat /\ Len(l) >= 1
    BY <1>6
  <2>2. (\A j \in 1..Len(l) : s[b + j] # Dot) /\ s[c] = Dot
    BY <1>5
  <2> HIDE DEF b, c, l
  <2>3. b + 1 \in Nat /\ c \in (b + 1)..(Len(d) + 1)
    BY <1>2, <2>1
  <2>4. ASSUME NEW i \in (b + 1)..(c - 1) PROVE d[i] # Dot
    <3>1. i - b \in 1..Len(l) /\ b + (i - b) = i /\ i \in 1..(a - 1)
      BY <1>2, <2>1
    <3>2. s[b + (i - b)] # Dot
      BY <2>2, <3>1
    <3> QED BY <1>2, <3>1, <3>2
  <2>5. c <= Len(d) => d[c] = Dot
    <3> SUFFICES ASSUME c <= Len(d) PROVE d[c] = Dot
      OBVIOUS
    <3>1. c \in 1..(a - 1)
      BY <1>2, <2>1
    <3> QED BY <1>2, <2>2, <3>1
  <2>6. EndOf(d, b + 1) = c
    BY <1>2, <2>3, <2>4, <2>5, EndIs
  <2> QED BY <2>6 DEF b, c
<1>10. ASSUME NEW k \in 0..(n - 1) PROVE f[At(ls, k) + 1] = w[At(ls, k) + 1]
  <2> DEFINE b == At(ls, k)
             c == At(ls, k + 1)
             l == ls[k + 1]
  <2>1. b \in Nat /\ c \in Nat /\ c <= a /\ c = b + Len(l) + 1 /\ Len(l) \in Nat /\ Len(l) >= 1
    BY <1>6
  <2>2. EndOf(d, b + 1) = c
    BY <1>9
  <2>3. w[b + 1] = Len(l)
    <3>1. 1 \in 1..Len(l)
      BY <2>1
    <3> QED BY <1>8, <3>1
  <2>4. b = 0 \/ d[b] = Dot
    <3>1. CASE k = 0
      <4>1. b = 0
        BY <1>1, <3>1, AtDef
      <4> QED BY <4>1
    <3>2. CASE k # 0
      <4>1. k - 1 \in 0..(n - 1) /\ (k - 1) + 1 = k
        BY <1>1, <3>2
      <4>2. s[At(ls, (k - 1) + 1)] = Dot /\ At(ls, (k - 1) + 1) = At(ls, k - 1) + Len(ls[(k - 1) + 1]) + 1
            /\ At(ls, k - 1) \in Nat /\ Len(ls[(k - 1) + 1]) \in Nat
        BY <1>5, <1>6, <4>1
      <4>3. s[b] = Dot /\ b >= 1
        BY <4>1, <4>2
      <4>4. b \in 1..(a - 1)
        BY <1>2, <2>1, <4>3
      <4> QED BY <1>2, <4>3, <4>4
    <3> QED BY <3>1, <3>2
  <2> HIDE DEF b, c, l
  <2>5. CASE b = 0
    <3>1. f[1] = c - 1 /\ b + 1 = 1
      BY <1>7, <2>2, <2>5
    <3> QED BY <2>1, <2>3, <2>5, <3>1 DEF b
  <2>6. CASE b # 0
    <3>1. b + 1 \in 2..a /\ (b + 1) - 1 = b
      <4>1. b >= 1 /\ a \in Nat /\ b + Len(l) + 1 <= a
        BY <1>2, <2>1, <2>6
      <4> DEFINE len == Len(l)
      <4>2. len \in Nat /\ b + len + 1 <= a
        BY <2>1, <4>1
      <4> HIDE DEF len
      <4> QED BY <2>1, <4>1, <4>2
    <3>2. f[b + 1] = EndOf(d, b + 1) - (b + 1)
      BY <1>7, <2>4, <2>6, <3>1
    <3> QED BY <2>1, <2>2, <2>3, <3>2 DEF b
  <2> QED BY <2>5, <2>6
<1>11. ASSUME NEW k \in 0..(n - 1), NEW j \in 1..Len(ls[k + 1])
       PROVE  f[At(ls, k) + 1 + j] = w[At(ls, k) + 1 + j]
  <2> DEFINE b == At(ls, k)
             c == At(ls, k + 1)
             l == ls[k + 1]
  <2>1. b \in Nat /\ c \in Nat /\ c <= a /\ c = b + Len(l) + 1 /\ Len(l) \in Nat /\ Len(l) >= 1
    BY <1>6
  <2>2. s[b + j] = l[j] /\ s[b + j] # Dot /\ w[b + 1 + j] = l[j]
    BY <1>5, <1>8
  <2> HIDE DEF b, c, l
  <2>3. j \in 1..Len(l)
    BY DEF l
  <2>4. b + 1 + j \in 2..a /\ (b + 1 + j) - 1 = b + j /\ b + j \in 1..(a - 1)
    BY <1>2, <2>1, <2>3
  <2>5. d[b + j] = s[b + j]
    BY <1>2, <2>4
  <2>6. f[b + 1 + j] = d[b + j]
    BY <1>7, <2>2, <2>4, <2>5
  <2> QED BY <2>2, <2>5, <2>6 DEF b
<1>12. ASSUME NEW i \in 1..a PROVE f[i] = w[i]
  <2>1. PICK k \in 0..(n - 1) : i = At(ls, k + 1) \/ \E j \in 1..Len(ls[k + 1]) : i = At(ls, k) + j
    BY <1>1, SpelledLocated DEF a, n
  <2>2. /\ At(ls, k) \in Nat /\ At(ls, k + 1) = At(ls, k) + Len(ls[k + 1]) + 1
        /\ Len(ls[k + 1]) \in Nat
    BY <1>6
  <2>3. CASE i = At(ls, k) + 1
    BY <1>10, <2>3
  <2>4. CASE i # At(ls, k) + 1
    <3> DEFINE b == At(ls, k)
               len == Len(ls[k + 1])
               j == i - b - 1
    <3>0. b \in Nat /\ len \in Nat /\ i # b + 1 /\ (i = b + len + 1 \/ \E m \in 1..len : i = b + m)
      BY <2>1, <2>2, <2>4
    <3> HIDE DEF b, len
    <3>1. j \in 1..len /\ i = b + 1 + j
      BY <3>0
    <3> HIDE DEF j
    <3> QED BY <1>11, <3>1 DEF b, len
  <2> QED BY <2>3, <2>4
<1>13. <<0>> \in Seq(Nat) /\ Len(<<0>>) = 1 /\ <<0>>[1] = 0
  OBVIOUS
<1> DEFINE g == w \o <<0>>
<1>14. /\ g \in Seq(Nat) /\ Len(g) = a + 1 /\ (\A i \in 1..a : g[i] = w[i]) /\ g[a + 1] = 0
  BY <1>2, <1>4, <1>13, CatElements
<1> HIDE DEF g
<1>15. g = [i \in 1..(a + 1) |-> g[i]]
  BY <1>14
<1>16. \A i \in 1..(a + 1) : f[i] = g[i]
  <2>1. \A i \in 1..(a + 1) : i \in 1..a \/ i = a + 1
    BY <1>2
  <2> QED BY <1>7, <1>12, <1>14, <2>1, Zenon
<1>17. f = g
  BY <1>7, <1>15, <1>16, Zenon
<1> QED BY <1>17 DEF f, g, d, w, n

-----------------------------------------------------------------------------
(* The items DnsPacket::Read makes of a question or a record.              *)
ParsedQuestion(e) == [name |-> Dotted(e.labels), type |-> e.type, class |-> e.class]

HostName(e) == IF e.host = NoHost THEN <<>> ELSE Dotted(e.host)

ParsedRecord(e) ==
  [name |-> Dotted(e.labels), type |-> e.type, class |-> e.class, ttl |-> e.ttl,
   len |-> Len(DataOctets(e)), data |-> e.data, host |-> HostName(e)]

Parsed(s, e) == IF s = Question THEN ParsedQuestion(e) ELSE ParsedRecord(e)
ParsedItems(m) == [s \in Sections |-> [i \in DOMAIN m.sections[s] |-> Parsed(s, m.sections[s][i])]]

Full(e) == [e EXCEPT !.shared = 0]

LEMMA OctetsAssociative == \A x, y, z \in Seq(Nat) : (x \o y) \o z = x \o (y \o z)
  BY ConcatAssociative, SMTT(30)

LEMMA FunctionSeq ==
  ASSUME NEW S, NEW n \in Nat, NEW f, f = [k \in 1..n |-> f[k]], \A k \in 1..n : f[k] \in S
  PROVE  f \in Seq(S) /\ Len(f) = n /\ DOMAIN f = 1..n
  OBVIOUS

LEMMA U16OctetsFacts ==
  ASSUME NEW x \in U16
  PROVE  /\ U16Octets(x) \in Seq(Nat) /\ Len(U16Octets(x)) = 2
         /\ 256 * U16Octets(x)[1] + U16Octets(x)[2] = x
<1>1. x \in Nat
  BY U16Numbers
<1>2. x \div 256 \in Nat /\ x % 256 \in Nat /\ 256 * (x \div 256) + (x % 256) = x
  BY <1>1
<1> DEFINE a == x \div 256
           b == x % 256
<1>3. U16Octets(x) = <<a, b>>
  BY DEF U16Octets
<1>4. a \in Nat /\ b \in Nat /\ 256 * a + b = x
  BY <1>2
<1> HIDE DEF a, b
<1>5. <<a, b>> \in Seq(Nat) /\ Len(<<a, b>>) = 2 /\ <<a, b>>[1] = a /\ <<a, b>>[2] = b
  BY <1>4
<1> QED BY <1>3, <1>4, <1>5

(* A name in full is written the same whatever the first question is.      *)
LEMMA NameInFull ==
  ASSUME NEW ls \in Names, NEW q
  PROVE  /\ NameOctets(ls, 0, q) = WriteLabel(Dotted(ls))
         /\ NameOctets(ls, 0, q) \in Seq(Nat)
         /\ Len(NameOctets(ls, 0, q)) = At(ls, Len(ls)) + 1
<1>1. ls \in LabelSeqs /\ Len(ls) \in Nat
  BY NameFacts
<1>2. Len(ls) - 0 = Len(ls) /\ Len(ls) \in 0..Len(ls)
  BY <1>1
<1> DEFINE w == Part(Written(ls), Len(ls))
<1>3. LabelsOctets(SubSeq(ls, 1, Len(ls))) = w /\ w \in Seq(Nat) /\ Len(w) = At(ls, Len(ls))
  BY <1>1, <1>2, FirstLabels
<1> HIDE DEF w
<1>4. NameOctets(ls, 0, q) = w \o <<0>>
  <2>1. NameOctets(ls, 0, q) = LabelsOctets(SubSeq(ls, 1, Len(ls) - 0)) \o <<0>>
    BY DEF NameOctets
  <2> QED BY <1>2, <1>3, <2>1
<1>5. <<0>> \in Seq(Nat) /\ Len(<<0>>) = 1
  OBVIOUS
<1>6. w \o <<0>> \in Seq(Nat) /\ Len(w \o <<0>>) = Len(w) + 1
  BY <1>3, <1>5, CatElements
<1>7. WriteLabel(Dotted(ls)) = w \o <<0>>
  BY WriteLabelWrites DEF w
<1> QED BY <1>3, <1>4, <1>6, <1>7

LEMMA QuestionWritten ==
  ASSUME NEW e, NEW p, NEW q, e.labels \in Names, e.shared = 0, e.type \in U16, e.class \in U16,
         p.name = Dotted(e.labels), p.type = e.type, p.class = e.class
  PROVE  QuestionWrite(p) = QuestionOctets(e, q) /\ QuestionOctets(e, q) \in Seq(Nat)
<1> DEFINE a == NameOctets(e.labels, 0, q)
           b == U16Octets(e.type)
           c == U16Octets(e.class)
<1>1. a \in Seq(Nat) /\ b \in Seq(Nat) /\ c \in Seq(Nat) /\ WriteLabel(p.name) = a
  BY NameInFull, U16OctetsFacts
<1>2. QuestionWrite(p) = (a \o b) \o c
  BY <1>1 DEF QuestionWrite
<1>3. QuestionOctets(e, q) = a \o (b \o c)
  BY DEF QuestionOctets, FixedOctets
<1> HIDE DEF a, b, c
<1>4. (a \o b) \o c = a \o (b \o c) /\ a \o (b \o c) \in Seq(Nat)
  <2>1. (a \o b) \o c = a \o (b \o c)
    BY <1>1, ConcatAssociative
  <2>2. b \o c \in Seq(Nat)
    BY <1>1, CatElements
  <2>3. a \o (b \o c) \in Seq(Nat)
    BY <1>1, <2>2, CatElements
  <2> QED BY <2>1, <2>3
<1> QED BY <1>2, <1>3, <1>4

(* What the types of a record say of its data.                             *)
LEMMA RecordFacts ==
  ASSUME NEW e \in Records
  PROVE  /\ e.labels \in Names /\ e.shared \in Nat /\ e.type \in U16 /\ e.class \in U16
         /\ e.ttl \in Seq(Nat) /\ Len(e.ttl) = 4 /\ e.data \in Seq(Nat)
         /\ e.type \in Named <=> e.host # NoHost
         /\ e.type \in Named => e.host \in Names
         /\ e.type # QT_OPT /\ e.type \in Named \cup {QT_A, QT_AAAA}
         /\ e.type = QT_A => Len(e.data) = 4
         /\ e.type = QT_AAAA => Len(e.data) = 16
         /\ e.type = QT_MX => Len(e.data) = 2
         /\ e.type \in {QT_NS, QT_CNAME} => Len(e.data) = 0
<1>1. /\ e.labels \in Names /\ e.shared \in Nat /\ e.type \in U16 /\ e.class \in U16
      /\ e.ttl \in [1..4 -> Octets] /\ e.data \in Seq(Octets) /\ e.host \in Names \cup {NoHost}
  BY DEF Records
<1>2. \/ e.type = QT_A /\ Len(e.data) = 4 /\ e.host = NoHost
      \/ e.type = QT_AAAA /\ Len(e.data) = 16 /\ e.host = NoHost
      \/ e.type = QT_MX /\ Len(e.data) = 2 /\ e.host # NoHost
      \/ e.type \in {QT_NS, QT_CNAME} /\ Len(e.data) = 0 /\ e.host # NoHost
  BY DEF Records
<1>3. Octets \subseteq Nat
  BY DEF Octets
<1>4. \A S, T : S \subseteq T => Seq(S) \subseteq Seq(T)
  OBVIOUS
<1>5. e.data \in Seq(Nat)
  BY <1>1, <1>3, <1>4
<1>6. e.ttl \in Seq(Nat) /\ Len(e.ttl) = 4
  <2> DEFINE t == e.ttl
  <2>1. t \in [1..4 -> Nat]
    BY <1>1, <1>3
  <2> HIDE DEF t
  <2>2. t = [i \in 1..4 |-> t[i]] /\ (\A i \in 1..4 : t[i] \in Nat) /\ 4 \in Nat
    BY <2>1
  <2>3. t \in Seq(Nat) /\ Len(t) = 4
    BY <2>2, FunctionSeq
  <2> QED BY <2>3 DEF t
<1>7. e.type \in Named <=> e.host # NoHost
  BY <1>2 DEF Named, QT_A, QT_AAAA, QT_MX, QT_NS, QT_CNAME
<1>8. e.type # QT_OPT /\ e.type \in Named \cup {QT_A, QT_AAAA}
  BY <1>2 DEF Named, QT_A, QT_AAAA, QT_MX, QT_NS, QT_CNAME, QT_OPT
<1>9. /\ e.type = QT_A => Len(e.data) = 4
      /\ e.type = QT_AAAA => Len(e.data) = 16
      /\ e.type = QT_MX => Len(e.data) = 2
      /\ e.type \in {QT_NS, QT_CNAME} => Len(e.data) = 0
  BY <1>2 DEF QT_A, QT_AAAA, QT_MX, QT_NS, QT_CNAME
<1> QED BY <1>1, <1>5, <1>6, <1>7, <1>8, <1>9

LEMMA DataFacts ==
  ASSUME NEW e \in Records
  PROVE  /\ DataOctets(e) \in Seq(Nat)
         /\ e.type \notin Named => DataOctets(e) = e.data
         /\ e.type \in Named => DataOctets(e) = e.data \o NameOctets(e.host, 0, <<>>)
<1>1. e.data \in Seq(Nat) /\ (e.type \in Named <=> e.host # NoHost) /\ (e.type \in Named => e.host \in Names)
  BY RecordFacts
<1>2. CASE e.type \notin Named
  <2>1. DataOctets(e) = e.data \o <<>>
    BY <1>1, <1>2 DEF DataOctets
  <2>2. e.data \o <<>> = e.data
    BY <1>1, ConcatEmptySeq
  <2> QED BY <1>1, <1>2, <2>1, <2>2
<1>3. CASE e.type \in Named
  <2>1. DataOctets(e) = e.data \o NameOctets(e.host, 0, <<>>)
    BY <1>1, <1>3 DEF DataOctets
  <2>2. NameOctets(e.host, 0, <<>>) \in Seq(Nat)
    BY <1>1, <1>3, NameInFull
  <2> QED BY <1>1, <1>3, <2>1, <2>2, CatElements
<1> QED BY <1>2, <1>3

(* Writing the item made of a record gives the record with its name in full.*)
LEMMA RecordWritten ==
  ASSUME NEW e \in Records, NEW q, e.shared = 0, Len(DataOctets(e)) \in U16
  PROVE  RecordWrite(ParsedRecord(e)) = RecordOctets(e, q)
<1> DEFINE p == ParsedRecord(e)
           a == QuestionOctets(e, q)
           t == e.ttl
           u == U16Octets(Len(DataOctets(e)))
           d == e.data
           h == IF e.type \in Named THEN NameOctets(e.host, 0, <<>>) ELSE <<>>
<1>1. /\ p.name = Dotted(e.labels) /\ p.type = e.type /\ p.class = e.class /\ p.ttl = t
      /\ p.len = Len(DataOctets(e)) /\ p.data = d /\ p.host = HostName(e)
  BY DEF ParsedRecord
<1>2. /\ e.labels \in Names /\ e.type \in U16 /\ e.class \in U16 /\ t \in Seq(Nat) /\ d \in Seq(Nat)
      /\ (e.type \in Named <=> e.host # NoHost) /\ (e.type \in Named => e.host \in Names)
      /\ e.type # QT_OPT
  BY RecordFacts
<1> HIDE DEF p
<1>3. QuestionWrite(p) = a /\ a \in Seq(Nat)
  BY <1>1, <1>2, QuestionWritten
<1>4. u \in Seq(Nat)
  BY U16OctetsFacts
<1>5. (IF p.type \in Named THEN WriteLabel(p.host) ELSE <<>>) = h /\ h \in Seq(Nat)
  <2>1. CASE e.type \in Named
    <3>1. p.host = Dotted(e.host) /\ e.host \in Names
      BY <1>1, <1>2, <2>1 DEF HostName
    <3>2. h = WriteLabel(Dotted(e.host)) /\ h \in Seq(Nat)
      BY <2>1, <3>1, NameInFull
    <3> QED BY <1>1, <2>1, <3>1, <3>2
  <2>2. CASE e.type \notin Named
    BY <1>1, <2>2
  <2> QED BY <2>1, <2>2
<1>6. DataOctets(e) = d \o h
  <2>1. CASE e.type \in Named
    BY <2>1, DataFacts
  <2>2. CASE e.type \notin Named
    BY <1>2, <2>2, DataFacts, ConcatEmptySeq
  <2> QED BY <2>1, <2>2
<1>7. RecordWrite(p) = (((a \o t) \o u) \o d) \o h
  <2>1. (IF p.type = QT_OPT THEN <<>> ELSE p.data) = d
    BY <1>1, <1>2
  <2>2. U16Octets(p.len) = u /\ p.ttl = t
    BY <1>1
  <2>3. RecordWrite(p) = QuestionWrite(p) \o p.ttl \o U16Octets(p.len)
                           \o (IF p.type = QT_OPT THEN <<>> ELSE p.data)
                           \o (IF p.type \in Named THEN WriteLabel(p.host) ELSE <<>>)
    BY DEF RecordWrite
  <2> HIDE DEF a, t, u, d, h
  <2> QED BY <1>3, <1>5, <2>1, <2>2, <2>3
<1>8. RecordOctets(e, q) = ((a \o t) \o u) \o (d \o h)
  <2>1. RecordOctets(e, q) = ((a \o t) \o u) \o DataOctets(e)
    BY DEF RecordOctets
  <2> HIDE DEF a, t, u, d, h
  <2> QED BY <1>6, <2>1
<1> HIDE DEF a, t, u, d, h
<1>9. (a \o t) \o u \in Seq(Nat)
  <2>1. a \o t \in Seq(Nat)
    BY <1>2, <1>3, CatElements
  <2> QED BY <1>4, <2>1, CatElements
<1>10. (((a \o t) \o u) \o d) \o h = ((a \o t) \o u) \o (d \o h)
  <2> DEFINE x == (a \o t) \o u
  <2>1. x \in Seq(Nat) /\ d \in Seq(Nat) /\ h \in Seq(Nat)
    BY <1>2, <1>5, <1>9
  <2> HIDE DEF x
  <2>2. (x \o d) \o h = x \o (d \o h)
    BY <2>1, OctetsAssociative, Zenon
  <2> QED BY <2>2 DEF x
<1> QED BY <1>7, <1>8, <1>10 DEF p

LEMMA ThreeHundred == \A n \in Nat : n <= 300 => n \in U16
<1> SUFFICES ASSUME NEW n \in Nat, n <= 300 PROVE n \in U16
  OBVIOUS
<1>1. n <= 256 * 256 - 1 /\ 256 * 256 - 1 \in Nat
  OBVIOUS
<1>2. \A k, l \in Nat : k <= l => k \in 0..l
  OBVIOUS
<1> QED BY <1>1, <1>2, Zenon DEF U16

LEMMA DataLength ==
  ASSUME NEW e \in Records
  PROVE  Len(DataOctets(e)) \in Nat /\ Len(DataOctets(e)) <= 300 /\ Len(DataOctets(e)) \in U16
<1>1. /\ e.data \in Seq(Nat) /\ e.type \in Named \cup {QT_A, QT_AAAA}
      /\ e.type = QT_A => Len(e.data) = 4
      /\ e.type = QT_AAAA => Len(e.data) = 16
      /\ e.type = QT_MX => Len(e.data) = 2
      /\ e.type \in {QT_NS, QT_CNAME} => Len(e.data) = 0
      /\ e.type \in Named => e.host \in Names
  BY RecordFacts
<1>2. Len(e.data) \in Nat /\ Len(e.data) <= 16
  <2>1. \/ Len(e.data) = 4 \/ Len(e.data) = 16 \/ Len(e.data) = 2 \/ Len(e.data) = 0
    BY <1>1, Zenon DEF Named
  <2>2. \A n : n \in {0, 2, 4, 16} => n \in Nat /\ n <= 16
    OBVIOUS
  <2> QED BY <2>1, <2>2
<1>3. Len(DataOctets(e)) \in Nat /\ Len(DataOctets(e)) <= 300
  <2>1. CASE e.type \notin Named
    <3>1. DataOctets(e) = e.data
      BY <2>1, DataFacts
    <3> QED BY <1>2, <3>1
  <2>2. CASE e.type \in Named
    <3> DEFINE h == NameOctets(e.host, 0, <<>>)
    <3>1. DataOctets(e) = e.data \o h
      BY <2>2, DataFacts
    <3>2. h \in Seq(Nat) /\ Len(h) = At(e.host, Len(e.host)) + 1
      BY <1>1, <2>2, NameInFull
    <3>3. At(e.host, Len(e.host)) <= 254
      BY <1>1, <2>2, NameFacts
    <3>4. Len(h) \in Nat
      BY <3>2
    <3>5. At(e.host, Len(e.host)) \in Nat
      <4>1. e.host \in LabelSeqs /\ Len(e.host) \in Nat
        BY <1>1, <2>2, NameFacts
      <4>2. Len(e.host) \in 0..Len(e.host)
        BY <4>1
      <4> QED BY <4>1, <4>2, AtDef
    <3> HIDE DEF h
    <3>6. Len(e.data \o h) = Len(e.data) + Len(h)
      BY <1>1, <3>2, CatElements
    <3>7. Len(h) <= 255
      BY <3>2, <3>3, <3>5
    <3> QED BY <1>2, <3>1, <3>4, <3>6, <3>7
  <2> QED BY <2>1, <2>2
<1> QED BY <1>3, ThreeHundred

LEMMA FullRecord ==
  ASSUME NEW e \in Records
  PROVE  /\ Full(e) \in Records /\ Full(e).shared = 0
         /\ DataOctets(Full(e)) = DataOctets(e) /\ ParsedRecord(Full(e)) = ParsedRecord(e)
<1>1. e \in [labels : Names, shared : Nat, type : U16, class : U16,
             ttl : [1..4 -> Octets], data : Seq(Octets), host : Names \cup {NoHost}]
  BY DEF Records
<1> DEFINE f == Full(e)
<1>2. /\ f \in [labels : Names, shared : Nat, type : U16, class : U16,
                ttl : [1..4 -> Octets], data : Seq(Octets), host : Names \cup {NoHost}]
      /\ f.shared = 0
  BY <1>1 DEF Full
<1>3. /\ f.labels = e.labels /\ f.type = e.type /\ f.class = e.class /\ f.ttl = e.ttl
      /\ f.data = e.data /\ f.host = e.host
  BY <1>1 DEF Full
<1> HIDE DEF f
<1>4. f \in Records
  BY <1>2, <1>3 DEF Records
<1>5. DataOctets(f) = DataOctets(e)
  BY <1>3 DEF DataOctets
<1>6. ParsedRecord(f) = ParsedRecord(e)
  BY <1>3, <1>5 DEF ParsedRecord, HostName
<1> QED BY <1>2, <1>4, <1>5, <1>6 DEF f

LEMMA FullQuestion ==
  ASSUME NEW e \in Questions
  PROVE  /\ Full(e).labels = e.labels /\ Full(e).shared = 0 /\ Full(e).type = e.type
         /\ Full(e).class = e.class
         /\ e.labels \in Names /\ e.type \in U16 /\ e.class \in U16
  BY DEF Questions, Full

Writable(m) ==
  /\ m = [id |-> m.id, hb3 |-> m.hb3, hb4 |-> m.hb4, sections |-> m.sections]
  /\ m.sections[Question] \in Seq(Questions)
  /\ \A s \in Sections : s # Question => m.sections[s] \in Seq(Records)

(* An item is written as the octets of what it was made of, names in full. *)
ItemOctets(s, e, q) == IF s = Question THEN QuestionOctets(e, q) ELSE RecordOctets(e, q)
ItemWrite(s, p) == IF s = Question THEN QuestionWrite(p) ELSE RecordWrite(p)

(* QuestionWrite and RecordWrite, of an item Read has made.                *)
LEMMA ItemWritten ==
  ASSUME NEW m, Writable(m), NEW s \in Sections, NEW i \in DOMAIN m.sections[s], NEW q
  PROVE  ItemWrite(s, Parsed(s, m.sections[s][i])) = ItemOctets(s, Full(m.sections[s][i]), q)
<1> DEFINE e == m.sections[s][i]
<1>1. CASE s = Question
  <2>1. e \in Questions
    BY <1>1 DEF Writable
  <2> HIDE DEF e
  <2>2. ParsedQuestion(e).name = Dotted(e.labels) /\ ParsedQuestion(e).type = e.type
        /\ ParsedQuestion(e).class = e.class
    BY DEF ParsedQuestion
  <2>3. QuestionWrite(ParsedQuestion(e)) = QuestionOctets(Full(e), q)
    BY <2>1, <2>2, FullQuestion, QuestionWritten
  <2> QED BY <1>1, <2>3 DEF e, ItemWrite, ItemOctets, Parsed
<1>2. CASE s # Question
  <2>1. e \in Records
    BY <1>2 DEF Writable
  <2> HIDE DEF e
  <2>2. Full(e) \in Records /\ Full(e).shared = 0 /\ ParsedRecord(Full(e)) = ParsedRecord(e)
    BY <2>1, FullRecord
  <2>3. Len(DataOctets(Full(e))) \in U16
    BY <2>2, DataLength
  <2>4. RecordWrite(ParsedRecord(e)) = RecordOctets(Full(e), q)
    BY <2>2, <2>3, RecordWritten
  <2> QED BY <1>2, <2>4 DEF e, ItemWrite, ItemOctets, Parsed
<1> QED BY <1>1, <1>2

(* Encode and Write, with their parts named.                               *)
FirstName(m) == IF m.sections[Question] = <<>> THEN <<>> ELSE m.sections[Question][1].labels
HeaderOctets(m) == U16Octets(m.id) \o <<m.hb3, m.hb4>>
CountParts(m) == [s \in Sections |-> U16Octets(Len(m.sections[s]))]
Entries(m, s) == [i \in DOMAIN m.sections[s] |-> ItemOctets(s, m.sections[s][i], FirstName(m))]
Bodies(m) == [s \in Sections |-> Concat(Entries(m, s))]

LEMMA EncodeIs ==
  \A m : Encode(m) = HeaderOctets(m) \o Concat(CountParts(m)) \o Concat(Bodies(m))
  BY Zenon DEF Encode, HeaderOctets, CountParts, Bodies, Entries, ItemOctets, FirstName

LEMMA WriteIs ==
  \A h, is : Write(h, is) =
    U16Octets(h.id) \o <<h.hb3, h.hb4>> \o Concat([s \in Sections |-> U16Octets(h.count[s])])
      \o Concat([s \in Sections |-> Concat([i \in DOMAIN is[s] |-> ItemWrite(s, is[s][i])])])
  BY Zenon DEF Write, ItemWrite

LEMMA SectionSeq ==
  ASSUME NEW m, Writable(m), NEW s \in Sections
  PROVE  Len(m.sections[s]) \in Nat /\ DOMAIN m.sections[s] = 1..Len(m.sections[s])
<1>1. \E S : m.sections[s] \in Seq(S)
  BY DEF Writable
<1> QED BY <1>1

(* The items of a message and the entries of the same message in full.     *)
LEMMA EntriesWritten ==
  ASSUME NEW m, Writable(m)
  PROVE  LET M == InFull(m)
             is == ParsedItems(m)
         IN /\ M.id = m.id /\ M.hb3 = m.hb3 /\ M.hb4 = m.hb4
            /\ \A s \in Sections : Len(M.sections[s]) = Len(m.sections[s])
            /\ Bodies(M) = [s \in Sections |-> Concat([i \in DOMAIN is[s] |-> ItemWrite(s, is[s][i])])]
<1> DEFINE M == InFull(m)
           is == ParsedItems(m)
           q == FirstName(M)
           F(s) == [i \in DOMAIN m.sections[s] |-> Full(m.sections[s][i])]
<1>1. M.id = m.id /\ M.hb3 = m.hb3 /\ M.hb4 = m.hb4 /\ M.sections = [s \in Sections |-> F(s)]
  <2> DEFINE new == [s \in Sections |-> [i \in DOMAIN m.sections[s] |-> [m.sections[s][i] EXCEPT !.shared = 0]]]
  <2>1. M = [m EXCEPT !.sections = new]
    BY Zenon DEF InFull
  <2>2. new = [s \in Sections |-> F(s)]
    BY Zenon DEF Full
  <2>3. m = [id |-> m.id, hb3 |-> m.hb3, hb4 |-> m.hb4, sections |-> m.sections]
    BY DEF Writable
  <2> HIDE DEF new, M, F
  <2>4. M.id = m.id /\ M.hb3 = m.hb3 /\ M.hb4 = m.hb4 /\ M.sections = new
    BY <2>1, <2>3
  <2> QED BY <2>2, <2>4
<1>2. ASSUME NEW s \in Sections
      PROVE  /\ DOMAIN M.sections[s] = DOMAIN m.sections[s]
             /\ Len(M.sections[s]) = Len(m.sections[s])
             /\ \A i \in DOMAIN m.sections[s] : M.sections[s][i] = Full(m.sections[s][i])
  <2> HIDE DEF M
  <2>1. M.sections[s] = F(s)
    BY <1>1
  <2>2. DOMAIN F(s) = DOMAIN m.sections[s] /\ \A i \in DOMAIN m.sections[s] : F(s)[i] = Full(m.sections[s][i])
    OBVIOUS
  <2>3. Len(m.sections[s]) \in Nat /\ DOMAIN m.sections[s] = 1..Len(m.sections[s])
    BY SectionSeq
  <2> HIDE DEF F
  <2>4. Len(F(s)) = Len(m.sections[s])
    BY <2>2, <2>3
  <2> QED BY <2>1, <2>2, <2>4
<1>3. ASSUME NEW s \in Sections
      PROVE  /\ DOMAIN is[s] = DOMAIN m.sections[s]
             /\ \A i \in DOMAIN m.sections[s] : is[s][i] = Parsed(s, m.sections[s][i])
  BY DEF ParsedItems
<1> HIDE DEF M, is, q, F
<1>4. ASSUME NEW s \in Sections
      PROVE  Entries(M, s) = [i \in DOMAIN is[s] |-> ItemWrite(s, is[s][i])]
  <2>1. Entries(M, s) = [i \in DOMAIN M.sections[s] |-> ItemOctets(s, M.sections[s][i], q)]
    BY DEF Entries, q
  <2>2. ASSUME NEW i \in DOMAIN m.sections[s]
        PROVE  ItemOctets(s, M.sections[s][i], q) = ItemWrite(s, is[s][i])
    <3>1. ItemWrite(s, Parsed(s, m.sections[s][i])) = ItemOctets(s, Full(m.sections[s][i]), q)
      BY ItemWritten, Zenon
    <3> QED BY <1>2, <1>3, <3>1
  <2> QED BY <1>2, <1>3, <2>1, <2>2, Zenon
<1>5. Bodies(M) = [s \in Sections |-> Concat([i \in DOMAIN is[s] |-> ItemWrite(s, is[s][i])])]
  BY <1>4, Zenon DEF Bodies
<1>6. \A s \in Sections : Len(M.sections[s]) = Len(m.sections[s])
  BY <1>2, Zenon
<1> QED BY <1>1, <1>5, <1>6 DEF M, is

(* The packet Write makes of the items of a message is the message, with   *)
(* the names in full.                                                      *)
LEMMA WriteIsEncode ==
  ASSUME NEW m, Writable(m), NEW h, h.id = m.id, h.hb3 = m.hb3, h.hb4 = m.hb4,
         \A s \in Sections : h.count[s] = Len(m.sections[s])
  PROVE  Write(h, ParsedItems(m)) = Encode(InFull(m))
<1> DEFINE M == InFull(m)
           is == ParsedItems(m)
<1>1. /\ M.id = m.id /\ M.hb3 = m.hb3 /\ M.hb4 = m.hb4
      /\ \A s \in Sections : Len(M.sections[s]) = Len(m.sections[s])
      /\ Bodies(M) = [s \in Sections |-> Concat([i \in DOMAIN is[s] |-> ItemWrite(s, is[s][i])])]
  BY EntriesWritten, Zenon
<1> HIDE DEF M, is
<1>2. HeaderOctets(M) = U16Octets(h.id) \o <<h.hb3, h.hb4>>
  BY <1>1 DEF HeaderOctets
<1>3. CountParts(M) = [s \in Sections |-> U16Octets(h.count[s])]
  BY <1>1, Zenon DEF CountParts
<1>4. Encode(M) = HeaderOctets(M) \o Concat(CountParts(M)) \o Concat(Bodies(M))
  BY EncodeIs, Zenon
<1>5. Write(h, is) = Encode(M)
  BY <1>1, <1>2, <1>3, <1>4, WriteIs, Zenon
<1> QED BY <1>5 DEF M, is

-----------------------------------------------------------------------------
(* The entries of a message.                                               *)
Entry(m, s, i) == m.sections[s][i]

EntryOK(e, q) ==
  /\ e.labels \in Names /\ e.shared \in Nat /\ Shares(e, q)
  /\ e.type \in U16 /\ e.class \in U16

(* What the proofs use of a message.                                       *)
LEMMA MessageFacts ==
  ASSUME NEW m \in Messages
  PROVE  /\ Writable(m)
         /\ m.id \in U16 /\ m.hb3 \in Octets /\ m.hb4 \in Octets
         /\ m.sections[Question] # <<>> /\ Len(m.sections[Question]) > 0
         /\ FirstName(m) \in Names /\ FirstName(m) = Entry(m, Question, 1).labels
         /\ Entry(m, Question, 1).shared = 0
         /\ GetQueryResponse(m) \/ PlainQuery(m)
         /\ \A s \in Sections : /\ Len(m.sections[s]) \in U16 /\ Len(m.sections[s]) \in Nat
                                /\ DOMAIN m.sections[s] = 1..Len(m.sections[s])
         /\ \A s \in Sections : \A i \in 1..Len(m.sections[s]) :
              /\ EntryOK(Entry(m, s, i), FirstName(m))
              /\ s = Question => Entry(m, s, i) \in Questions
              /\ s # Question => Entry(m, s, i) \in Records
<1> DEFINE q == m.sections[Question][1].labels
<1>1. /\ m \in [id : U16, hb3 : Octets, hb4 : Octets, sections : [Sections -> Seq(Questions \cup Records)]]
      /\ m.sections[Question] \in Seq(Questions) /\ m.sections[Question] # <<>>
      /\ \A s \in Sections \ {Question} : m.sections[s] \in Seq(Records)
      /\ m.sections[Question][1].shared = 0
      /\ \A s \in Sections : /\ Len(m.sections[s]) \in U16
                             /\ \A i \in DOMAIN m.sections[s] : Shares(m.sections[s][i], q)
      /\ GetQueryResponse(m) \/ PlainQuery(m)
  BY DEF Messages
<1>2. m = [id |-> m.id, hb3 |-> m.hb3, hb4 |-> m.hb4, sections |-> m.sections]
      /\ m.id \in U16 /\ m.hb3 \in Octets /\ m.hb4 \in Octets
  BY <1>1
<1>3. Writable(m)
  BY <1>1, <1>2, Zenon DEF Writable
<1>4. \A s \in Sections : Len(m.sections[s]) \in Nat /\ DOMAIN m.sections[s] = 1..Len(m.sections[s])
  BY <1>3, SectionSeq
<1>5. Len(m.sections[Question]) > 0
  BY <1>1
<1>6. \A i \in 1..Len(m.sections[Question]) : Entry(m, Question, i) \in Questions
  BY <1>1 DEF Entry
<1>7. \A s \in Sections : s # Question => \A i \in 1..Len(m.sections[s]) : Entry(m, s, i) \in Records
  BY <1>1 DEF Entry
<1>8. FirstName(m) = q /\ q \in Names
  <2>1. 1 \in 1..Len(m.sections[Question])
    BY <1>1
  <2>2. Entry(m, Question, 1) \in Questions
    BY <1>6, <2>1
  <2> QED BY <1>1, <2>2 DEF FirstName, Entry, Questions
<1> HIDE DEF q
<1>9. ASSUME NEW s \in Sections, NEW i \in 1..Len(m.sections[s])
      PROVE  EntryOK(Entry(m, s, i), q)
  <2> DEFINE e == Entry(m, s, i)
  <2>1. Shares(e, q)
    BY <1>1, <1>4 DEF Entry
  <2>2. e \in Questions \/ e \in Records
    BY <1>6, <1>7
  <2> HIDE DEF e
  <2>3. e.labels \in Names /\ e.shared \in Nat /\ e.type \in U16 /\ e.class \in U16
    <3>1. CASE e \in Questions
      BY <3>1 DEF Questions
    <3>2. CASE e \in Records
      BY <3>2, RecordFacts
    <3> QED BY <2>2, <3>1, <3>2
  <2> QED BY <2>1, <2>3 DEF EntryOK, e
<1>10. Entry(m, Question, 1).shared = 0 /\ q = Entry(m, Question, 1).labels
  BY <1>1 DEF Entry, q
<1>11. \A s \in Sections : Len(m.sections[s]) \in U16
  BY <1>1, Zenon
<1>12. GetQueryResponse(m) \/ PlainQuery(m)
  BY <1>1, Zenon
<1>13. m.sections[Question] # <<>>
  BY <1>1, Zenon
<1>14. FirstName(m) = q /\ q \in Names
  BY <1>8
<1>15. \A s \in Sections : \A i \in 1..Len(m.sections[s]) :
              /\ EntryOK(Entry(m, s, i), q)
              /\ s = Question => Entry(m, s, i) \in Questions
              /\ s # Question => Entry(m, s, i) \in Records
  BY <1>6, <1>7, <1>9, Zenon
<1> QED BY <1>2, <1>3, <1>4, <1>5, <1>10, <1>11, <1>12, <1>13, <1>14, <1>15, Zenon

(* The octets of an entry and where its parts stand.                       *)
NameLength(e, q) == Len(NameOctets(e.labels, e.shared, q))

LEMMA EntryName ==
  ASSUME NEW e, NEW q \in Names, EntryOK(e, q)
  PROVE  /\ NameOctets(e.labels, e.shared, q) \in Seq(Nat) /\ NameLength(e, q) \in Nat
         /\ e.labels \in LabelSeqs /\ q \in LabelSeqs
         /\ e.shared \in 0..Len(e.labels) /\ e.shared <= Len(q) /\ Len(e.labels) \in Nat /\ Len(q) \in Nat
         /\ NameLength(e, q) = At(e.labels, Len(e.labels) - e.shared) + (IF e.shared = 0 THEN 1 ELSE 2)
<1>1. e.labels \in Names /\ e.shared \in Nat /\ e.shared <= Len(e.labels) /\ e.shared <= Len(q)
  BY DEF EntryOK, Shares
<1>2. e.labels \in LabelSeqs /\ Len(e.labels) \in Nat /\ q \in LabelSeqs /\ Len(q) \in Nat
  BY <1>1, NameFacts
<1>3. e.shared \in 0..Len(e.labels) /\ e.shared \in 0..Len(q)
  BY <1>1, <1>2
<1>4. /\ NameOctets(e.labels, e.shared, q) \in Seq(Nat)
      /\ NameLength(e, q) = At(e.labels, Len(e.labels) - e.shared) + Len(NameEnd(e.shared, q))
  BY <1>1, <1>2, <1>3, NameOctetsAre DEF NameLength
<1>5. Len(NameEnd(e.shared, q)) = (IF e.shared = 0 THEN 1 ELSE 2)
  BY <1>2, <1>3, NameEndFacts, ZenonT(30)
<1>6. NameLength(e, q) \in Nat
  BY <1>4 DEF NameLength
<1> QED BY <1>1, <1>2, <1>3, <1>4, <1>5, <1>6

LEMMA QuestionLength ==
  ASSUME NEW e, NEW q \in Names, EntryOK(e, q)
  PROVE  QuestionOctets(e, q) \in Seq(Nat) /\ Len(QuestionOctets(e, q)) = NameLength(e, q) + 4
<1> DEFINE a == NameOctets(e.labels, e.shared, q)
           b == U16Octets(e.type)
           c == U16Octets(e.class)
<1>1. a \in Seq(Nat) /\ Len(a) = NameLength(e, q) /\ NameLength(e, q) \in Nat
  BY EntryName DEF NameLength
<1>2. b \in Seq(Nat) /\ Len(b) = 2 /\ c \in Seq(Nat) /\ Len(c) = 2
  BY U16OctetsFacts DEF EntryOK
<1>3. QuestionOctets(e, q) = a \o (b \o c)
  BY DEF QuestionOctets, FixedOctets
<1> HIDE DEF a, b, c
<1>4. b \o c \in Seq(Nat) /\ Len(b \o c) = Len(b) + Len(c)
  BY <1>2, CatElements
<1>5. a \o (b \o c) \in Seq(Nat) /\ Len(a \o (b \o c)) = Len(a) + Len(b \o c)
  BY <1>1, <1>4, CatElements
<1> QED BY <1>1, <1>2, <1>3, <1>4, <1>5

QuestionAt(w, P, e, q) ==
  /\ NameAt(w, P, e.labels, e.shared, q)
  /\ Holds(w, P + NameLength(e, q), U16Octets(e.type))
  /\ Holds(w, P + NameLength(e, q) + 2, U16Octets(e.class))

(* Where a question stands, its fields are found.                          *)
LEMMA QuestionFound ==
  ASSUME NEW w \in Seq(Nat), NEW P \in Nat, NEW e, NEW q \in Names, EntryOK(e, q),
         Holds(w, P, QuestionOctets(e, q))
  PROVE  QuestionAt(w, P, e, q)
<1> DEFINE a == NameOctets(e.labels, e.shared, q)
           b == U16Octets(e.type)
           c == U16Octets(e.class)
           Q == P + Len(a)
<1>1. a \in Seq(Nat) /\ Len(a) = NameLength(e, q) /\ NameLength(e, q) \in Nat
  BY EntryName DEF NameLength
<1>2. b \in Seq(Nat) /\ Len(b) = 2 /\ c \in Seq(Nat) /\ Len(c) = 2
  BY U16OctetsFacts DEF EntryOK
<1>3. QuestionOctets(e, q) = a \o (b \o c)
  BY DEF QuestionOctets, FixedOctets
<1>4. Q \in Nat /\ Q = P + NameLength(e, q)
  BY <1>1
<1> HIDE DEF a, b, c, Q
<1>5. b \o c \in Seq(Nat)
  BY <1>2, CatElements
<1>6. Holds(w, P, a) /\ Holds(w, P + Len(a), b \o c)
  BY <1>1, <1>3, <1>5, HoldsCat
<1>7. Holds(w, Q, b \o c)
  BY <1>6 DEF Q
<1>8. Holds(w, Q, b) /\ Holds(w, Q + Len(b), c)
  BY <1>2, <1>4, <1>7, HoldsCat
<1> QED BY <1>2, <1>4, <1>6, <1>8 DEF QuestionAt, NameAt, a, b, c

RecordAt(w, P, e, q) ==
  /\ QuestionAt(w, P, e, q)
  /\ Holds(w, P + NameLength(e, q) + 4, e.ttl)
  /\ Holds(w, P + NameLength(e, q) + 8, U16Octets(Len(DataOctets(e))))
  /\ Holds(w, P + NameLength(e, q) + 10, e.data)
  /\ e.type \in Named => NameAt(w, P + NameLength(e, q) + 10 + Len(e.data), e.host, 0, <<>>)

LEMMA RecordParts ==
  ASSUME NEW e \in Records, NEW q \in Names, EntryOK(e, q)
  PROVE  LET a == QuestionOctets(e, q)
             u == U16Octets(Len(DataOctets(e)))
             d == DataOctets(e)
         IN /\ RecordOctets(e, q) = (((a \o e.ttl) \o u) \o d)
            /\ a \in Seq(Nat) /\ Len(a) = NameLength(e, q) + 4 /\ NameLength(e, q) \in Nat
            /\ e.ttl \in Seq(Nat) /\ Len(e.ttl) = 4
            /\ u \in Seq(Nat) /\ Len(u) = 2
            /\ d \in Seq(Nat) /\ Len(d) \in Nat
<1>1. QuestionOctets(e, q) \in Seq(Nat) /\ Len(QuestionOctets(e, q)) = NameLength(e, q) + 4
  BY QuestionLength
<1>2. NameLength(e, q) \in Nat
  BY EntryName
<1>3. e.ttl \in Seq(Nat) /\ Len(e.ttl) = 4
  BY RecordFacts
<1>4. DataOctets(e) \in Seq(Nat)
  BY DataFacts
<1>5. Len(DataOctets(e)) \in Nat /\ Len(DataOctets(e)) \in U16
  BY DataLength
<1>6. U16Octets(Len(DataOctets(e))) \in Seq(Nat) /\ Len(U16Octets(Len(DataOctets(e)))) = 2
  BY <1>5, U16OctetsFacts
<1>7. RecordOctets(e, q) = (((QuestionOctets(e, q) \o e.ttl) \o U16Octets(Len(DataOctets(e)))) \o DataOctets(e))
  BY Zenon DEF RecordOctets
<1> QED BY <1>1, <1>2, <1>3, <1>4, <1>5, <1>6, <1>7, Zenon

LEMMA RecordLength ==
  ASSUME NEW e \in Records, NEW q \in Names, EntryOK(e, q)
  PROVE  /\ RecordOctets(e, q) \in Seq(Nat)
         /\ Len(RecordOctets(e, q)) = NameLength(e, q) + 10 + Len(DataOctets(e))
<1> DEFINE a == QuestionOctets(e, q)
           t == e.ttl
           u == U16Octets(Len(DataOctets(e)))
           d == DataOctets(e)
           N == NameLength(e, q)
<1>1. /\ RecordOctets(e, q) = (((a \o t) \o u) \o d)
      /\ a \in Seq(Nat) /\ Len(a) = N + 4 /\ N \in Nat
      /\ t \in Seq(Nat) /\ Len(t) = 4
      /\ u \in Seq(Nat) /\ Len(u) = 2
      /\ d \in Seq(Nat) /\ Len(d) \in Nat
  BY RecordParts
<1> HIDE DEF a, t, u, d, N
<1>2. a \o t \in Seq(Nat) /\ Len(a \o t) = Len(a) + Len(t)
  BY <1>1, CatElements
<1> DEFINE x == a \o t
<1> HIDE DEF x
<1>3. x \o u \in Seq(Nat) /\ Len(x \o u) = Len(x) + Len(u)
  BY <1>1, <1>2, CatElements DEF x
<1> DEFINE y == x \o u
<1> HIDE DEF y
<1>4. y \o d \in Seq(Nat) /\ Len(y \o d) = Len(y) + Len(d)
  BY <1>1, <1>3, CatElements, Zenon DEF y
<1>5. RecordOctets(e, q) = y \o d
  BY <1>1 DEF y, x
<1>6. Len(x) = N + 8
  BY <1>1, <1>2 DEF x
<1>7. Len(y) = N + 10
  BY <1>1, <1>3, <1>6 DEF y
<1>8. Len(y \o d) = N + 10 + Len(d)
  BY <1>1, <1>4, <1>7
<1> QED BY <1>4, <1>5, <1>8 DEF N, d

(* Where a record stands, its fields and its data are found.               *)
LEMMA RecordFound ==
  ASSUME NEW w \in Seq(Nat), NEW P \in Nat, NEW e \in Records, NEW q \in Names, EntryOK(e, q),
         Holds(w, P, RecordOctets(e, q))
  PROVE  RecordAt(w, P, e, q)
<1> DEFINE a == QuestionOctets(e, q)
           t == e.ttl
           u == U16Octets(Len(DataOctets(e)))
           d == DataOctets(e)
           N == NameLength(e, q)
           x == a \o t
           y == x \o u
<1>1. /\ RecordOctets(e, q) = y \o d
      /\ a \in Seq(Nat) /\ Len(a) = N + 4 /\ N \in Nat
      /\ t \in Seq(Nat) /\ Len(t) = 4
      /\ u \in Seq(Nat) /\ Len(u) = 2
      /\ d \in Seq(Nat) /\ Len(d) \in Nat
  BY RecordParts
<1>0. Holds(w, P, a) => QuestionAt(w, P, e, q)
  BY QuestionFound
<1> HIDE DEF a, t, u, d, N
<1>2. x \in Seq(Nat) /\ Len(x) = Len(a) + Len(t)
  BY <1>1, CatElements
<1> HIDE DEF x
<1>3. y \in Seq(Nat) /\ Len(y) = Len(x) + Len(u)
  BY <1>1, <1>2, CatElements
<1> HIDE DEF y
<1>4. Holds(w, P, y) /\ Holds(w, P + Len(y), d)
  BY <1>1, <1>3, HoldsCat
<1>5. Holds(w, P, x) /\ Holds(w, P + Len(x), u)
  BY <1>1, <1>2, <1>4, HoldsCat DEF y
<1>6. Holds(w, P, a) /\ Holds(w, P + Len(a), t)
  BY <1>1, <1>5, HoldsCat DEF x
<1>7. P + Len(a) = P + N + 4 /\ P + Len(x) = P + N + 8 /\ P + Len(y) = P + N + 10
  BY <1>1, <1>2, <1>3
<1>8. Holds(w, P + N + 4, t) /\ Holds(w, P + N + 8, u) /\ Holds(w, P + N + 10, d)
  BY <1>4, <1>5, <1>6, <1>7
<1>9. QuestionAt(w, P, e, q)
  BY <1>0, <1>6
<1>10. e.data \in Seq(Nat)
  BY RecordFacts
<1> DEFINE Q == P + N + 10
<1>11. Q \in Nat /\ Holds(w, Q, d)
  BY <1>1, <1>8
<1> HIDE DEF Q
<1>12. Holds(w, Q, e.data) /\ (e.type \in Named => NameAt(w, Q + Len(e.data), e.host, 0, <<>>))
  <2>1. CASE e.type \notin Named
    <3>1. d = e.data
      BY <2>1, DataFacts DEF d
    <3> QED BY <1>11, <2>1, <3>1
  <2>2. CASE e.type \in Named
    <3> DEFINE h == NameOctets(e.host, 0, <<>>)
    <3>1. d = e.data \o h
      BY <2>2, DataFacts DEF d
    <3>2. h \in Seq(Nat)
      BY <2>2, RecordFacts, NameInFull
    <3> HIDE DEF h
    <3>3. Holds(w, Q, e.data) /\ Holds(w, Q + Len(e.data), h)
      BY <1>10, <1>11, <3>1, <3>2, HoldsCat
    <3> QED BY <3>3 DEF h, NameAt
  <2> QED BY <2>1, <2>2
<1> QED BY <1>8, <1>9, <1>12, Zenon DEF RecordAt, Q, N, t, u

-----------------------------------------------------------------------------
(* The layout of a message: the header's twelve octets, then the entries.  *)
ItemAt(w, P, s, e, q) == IF s = Question THEN QuestionAt(w, P, e, q) ELSE RecordAt(w, P, e, q)

ItemLength(s, e, q) ==
  IF s = Question THEN NameLength(e, q) + 4 ELSE NameLength(e, q) + 10 + Len(DataOctets(e))

LEMMA EntriesAre ==
  ASSUME NEW m \in Messages, NEW s \in Sections
  PROVE  /\ Entries(m, s) \in Parts(Nat) /\ Len(Entries(m, s)) = Len(m.sections[s])
         /\ \A i \in 1..Len(m.sections[s]) :
              /\ Entries(m, s)[i] = ItemOctets(s, Entry(m, s, i), FirstName(m))
              /\ Len(Entries(m, s)[i]) = ItemLength(s, Entry(m, s, i), FirstName(m))
<1> DEFINE q == FirstName(m)
           n == Len(m.sections[s])
           f == Entries(m, s)
<1>1. /\ q \in Names /\ n \in Nat /\ DOMAIN m.sections[s] = 1..n
      /\ \A i \in 1..n : /\ EntryOK(Entry(m, s, i), q)
                         /\ s # Question => Entry(m, s, i) \in Records
  BY MessageFacts
<1>2. f = [i \in 1..n |-> ItemOctets(s, Entry(m, s, i), q)]
  BY <1>1 DEF Entries, Entry
<1> HIDE DEF q, n, f
<1>3. ASSUME NEW i \in 1..n
      PROVE  /\ ItemOctets(s, Entry(m, s, i), q) \in Seq(Nat)
             /\ Len(ItemOctets(s, Entry(m, s, i), q)) = ItemLength(s, Entry(m, s, i), q)
  <2> DEFINE e == Entry(m, s, i)
  <2>0. EntryOK(e, q) /\ (s # Question => e \in Records)
    BY <1>1
  <2> HIDE DEF e
  <2>1. CASE s = Question
    BY <1>1, <2>0, <2>1, QuestionLength DEF ItemOctets, ItemLength, e
  <2>2. CASE s # Question
    BY <1>1, <2>0, <2>2, RecordLength DEF ItemOctets, ItemLength, e
  <2> QED BY <2>1, <2>2
<1>4. f = [i \in 1..n |-> f[i]] /\ \A i \in 1..n : f[i] = ItemOctets(s, Entry(m, s, i), q)
  BY <1>2
<1>5. \A i \in 1..n : f[i] \in Seq(Nat)
  BY <1>3, <1>4
<1>6. f \in Seq(Seq(Nat)) /\ Len(f) = n
  BY <1>1, <1>4, <1>5, FunctionSeq
<1> QED BY <1>3, <1>4, <1>6, Zenon DEF f, n, q, Parts

LEMMA SectionNumbers ==
  /\ Sections = {1, 2, 3, 4} /\ Question = 1 /\ Sections = 1..4
  BY DEF Sections, Question

LEMMA FourParts ==
  ASSUME NEW f, f = [s \in Sections |-> f[s]], \A s \in Sections : f[s] \in Seq(Nat)
  PROVE  /\ f \in Parts(Nat) /\ Len(f) = 4
         /\ Off(f, 0) = 0
         /\ Off(f, 1) = Len(f[1])
         /\ Off(f, 2) = Len(f[1]) + Len(f[2])
         /\ Off(f, 3) = Len(f[1]) + Len(f[2]) + Len(f[3])
         /\ Off(f, 4) = Len(f[1]) + Len(f[2]) + Len(f[3]) + Len(f[4])
<1>1. f = [s \in 1..4 |-> f[s]] /\ (\A s \in 1..4 : f[s] \in Seq(Nat)) /\ 4 \in Nat
  BY SectionNumbers
<1>2. f \in Parts(Nat) /\ Len(f) = 4
  BY <1>1, FunctionSeq DEF Parts
<1>3. \A s \in 1..4 : Len(f[s]) \in Nat
  <2>1. \A x \in Seq(Nat) : Len(x) \in Nat
    OBVIOUS
  <2> QED BY <1>1, <2>1, Zenon
<1>4. Off(f, 0) = 0 /\ \A k \in 1..4 : Off(f, k) = Off(f, k - 1) + Len(f[k])
  BY <1>2, OffDef
<1>5. /\ Off(f, 1) = Off(f, 1 - 1) + Len(f[1]) /\ Off(f, 2) = Off(f, 2 - 1) + Len(f[2])
      /\ Off(f, 3) = Off(f, 3 - 1) + Len(f[3]) /\ Off(f, 4) = Off(f, 4 - 1) + Len(f[4])
  <2>1. 1 \in 1..4 /\ 2 \in 1..4 /\ 3 \in 1..4 /\ 4 \in 1..4
    OBVIOUS
  <2> QED BY <1>4, <2>1, Zenon
<1>6. 1 - 1 = 0 /\ 2 - 1 = 1 /\ 3 - 1 = 2 /\ 4 - 1 = 3
  OBVIOUS
<1>7. Len(f[1]) \in Nat /\ Len(f[2]) \in Nat /\ Len(f[3]) \in Nat /\ Len(f[4]) \in Nat
  BY <1>3
<1>8. Off(f, 1) = Len(f[1])
  BY <1>4, <1>5, <1>6, <1>7
<1>9. Off(f, 2) = Len(f[1]) + Len(f[2])
  BY <1>5, <1>6, <1>7, <1>8
<1>10. Off(f, 3) = Len(f[1]) + Len(f[2]) + Len(f[3])
  BY <1>5, <1>6, <1>7, <1>9
<1>11. Off(f, 4) = Len(f[1]) + Len(f[2]) + Len(f[3]) + Len(f[4])
  BY <1>5, <1>6, <1>7, <1>10
<1> QED BY <1>2, <1>4, <1>8, <1>9, <1>10, <1>11

LEMMA EncodeParts ==
  ASSUME NEW m \in Messages
  PROVE  /\ HeaderOctets(m) \in Seq(Nat) /\ Len(HeaderOctets(m)) = 4
         /\ HeaderOctets(m) = U16Octets(m.id) \o <<m.hb3, m.hb4>>
         /\ CountParts(m) \in Parts(Nat) /\ Len(CountParts(m)) = 4
         /\ \A s \in Sections : Off(CountParts(m), s - 1) = 2 * (s - 1)
         /\ Concat(CountParts(m)) \in Seq(Nat) /\ Len(Concat(CountParts(m))) = 8
         /\ Bodies(m) \in Parts(Nat) /\ Len(Bodies(m)) = 4
         /\ Bodies(m) = [s \in Sections |-> Bodies(m)[s]] /\ (\A s \in Sections : Bodies(m)[s] \in Seq(Nat))
         /\ Concat(Bodies(m)) \in Seq(Nat)
<1>1. /\ m.id \in U16 /\ m.hb3 \in Octets /\ m.hb4 \in Octets
      /\ \A s \in Sections : Len(m.sections[s]) \in U16
  BY MessageFacts
<1>2. HeaderOctets(m) \in Seq(Nat) /\ Len(HeaderOctets(m)) = 4
  <2> DEFINE a == U16Octets(m.id)
             b == <<m.hb3, m.hb4>>
  <2>1. a \in Seq(Nat) /\ Len(a) = 2
    BY <1>1, U16OctetsFacts
  <2>2. m.hb3 \in Nat /\ m.hb4 \in Nat
    BY <1>1, OctetNumbers
  <2>3. b \in Seq(Nat) /\ Len(b) = 2
    BY <2>2
  <2> HIDE DEF a, b
  <2>4. a \o b \in Seq(Nat) /\ Len(a \o b) = Len(a) + Len(b)
    BY <2>1, <2>3, CatElements
  <2> QED BY <2>1, <2>3, <2>4 DEF HeaderOctets, a, b
<1> DEFINE c == CountParts(m)
<1>3. c = [s \in Sections |-> c[s]] /\ \A s \in Sections : c[s] = U16Octets(Len(m.sections[s]))
  BY Zenon DEF CountParts
<1> HIDE DEF c
<1>4. ASSUME NEW s \in Sections PROVE c[s] \in Seq(Nat) /\ Len(c[s]) = 2
  <2>1. Len(m.sections[s]) \in U16
    BY <1>1
  <2>2. U16Octets(Len(m.sections[s])) \in Seq(Nat) /\ Len(U16Octets(Len(m.sections[s]))) = 2
    BY <2>1, U16OctetsFacts
  <2> QED BY <1>3, <2>2
<1>5. /\ c \in Parts(Nat) /\ Len(c) = 4
      /\ Off(c, 0) = 0 /\ Off(c, 1) = Len(c[1]) /\ Off(c, 2) = Len(c[1]) + Len(c[2])
      /\ Off(c, 3) = Len(c[1]) + Len(c[2]) + Len(c[3])
      /\ Off(c, 4) = Len(c[1]) + Len(c[2]) + Len(c[3]) + Len(c[4])
  BY <1>3, <1>4, FourParts
<1>6. Len(c[1]) = 2 /\ Len(c[2]) = 2 /\ Len(c[3]) = 2 /\ Len(c[4]) = 2
  BY <1>4, SectionNumbers
<1>7. Off(c, 0) = 0 /\ Off(c, 1) = 2 /\ Off(c, 2) = 4 /\ Off(c, 3) = 6 /\ Off(c, 4) = 8
  BY <1>5, <1>6
<1>8. ASSUME NEW s \in Sections PROVE Off(c, s - 1) = 2 * (s - 1)
  <2>1. s = 1 \/ s = 2 \/ s = 3 \/ s = 4
    BY SectionNumbers
  <2>2. 1 - 1 = 0 /\ 2 - 1 = 1 /\ 3 - 1 = 2 /\ 4 - 1 = 3 /\ 2 * 0 = 0 /\ 2 * 1 = 2 /\ 2 * 2 = 4 /\ 2 * 3 = 6
    OBVIOUS
  <2> QED BY <1>7, <2>1, <2>2
<1>9. Concat(c) \in Seq(Nat) /\ Len(Concat(c)) = 8
  BY <1>5, <1>7, OffDef
<1> DEFINE b == Bodies(m)
<1>10. b = [s \in Sections |-> b[s]] /\ \A s \in Sections : b[s] = Concat(Entries(m, s))
  BY DEF Bodies
<1>11. \A s \in Sections : b[s] \in Seq(Nat)
  BY <1>10, EntriesAre, OffDef
<1> HIDE DEF b
<1>12. b \in Parts(Nat) /\ Len(b) = 4
  BY <1>10, <1>11, FourParts
<1>13. Concat(b) \in Seq(Nat)
  BY <1>12, OffDef
<1>14. HeaderOctets(m) = U16Octets(m.id) \o <<m.hb3, m.hb4>>
  BY DEF HeaderOctets
<1> QED BY <1>2, <1>5, <1>8, <1>9, <1>10, <1>11, <1>12, <1>13, <1>14 DEF b, c

(* The octets of a message: the header's fields and the entries.           *)
LEMMA EncodeLayout ==
  ASSUME NEW m \in Messages
  PROVE  LET w == Encode(m)
         IN /\ w \in Seq(Nat) /\ Len(w) = 12 + Off(Bodies(m), 4)
            /\ Holds(w, 0, U16Octets(m.id)) /\ w[3] = m.hb3 /\ w[4] = m.hb4
            /\ \A s \in Sections : Holds(w, 2 + 2 * s, U16Octets(Len(m.sections[s])))
            /\ \A s \in Sections : Holds(w, 12 + Off(Bodies(m), s - 1), Bodies(m)[s])
<1> DEFINE w == Encode(m)
           h == HeaderOctets(m)
           c == CountParts(m)
           b == Bodies(m)
           C == Concat(c)
           B == Concat(b)
           x == h \o C
<1>1. /\ h \in Seq(Nat) /\ Len(h) = 4 /\ h = U16Octets(m.id) \o <<m.hb3, m.hb4>>
      /\ c \in Parts(Nat) /\ Len(c) = 4
      /\ \A s \in Sections : Off(c, s - 1) = 2 * (s - 1)
      /\ C \in Seq(Nat) /\ Len(C) = 8
      /\ b \in Parts(Nat) /\ Len(b) = 4 /\ B \in Seq(Nat)
  BY EncodeParts
<1>2. w = x \o B
  BY EncodeIs
<1>2a. /\ m.id \in U16 /\ m.hb3 \in Octets /\ m.hb4 \in Octets
  BY MessageFacts
<1>2b. \A s \in Sections : c[s] = U16Octets(Len(m.sections[s]))
  BY Zenon DEF CountParts
<1>2c. C = Part(c, 4) /\ B = Part(b, 4) /\ Len(B) = Off(b, 4)
  BY <1>1, ConcatIsPart, OffDef
<1> HIDE DEF w, h, c, b, C, B
<1>3. x \in Seq(Nat) /\ Len(x) = 12
  <2>1. h \in Seq(Nat) /\ C \in Seq(Nat)
    BY <1>1
  <2>2. x \in Seq(Nat) /\ Len(x) = Len(h) + Len(C)
    BY <2>1, CatElements
  <2>3. Len(h) = 4 /\ Len(C) = 8
    BY <1>1
  <2> QED BY <2>2, <2>3
<1> HIDE DEF x
<1>4. w \in Seq(Nat) /\ Len(w) = 12 + Off(b, 4)
  <2>1. B \in Seq(Nat)
    BY <1>1
  <2>2. x \o B \in Seq(Nat) /\ Len(x \o B) = Len(x) + Len(B)
    BY <1>3, <2>1, CatElements, Zenon
  <2> QED BY <1>2, <1>2c, <1>3, <2>2
<1>5. Holds(w, 0, w)
  BY <1>4, HoldsItself
<1>6. Holds(w, 0, x) /\ Holds(w, 0 + Len(x), B)
  BY <1>1, <1>2, <1>3, <1>4, <1>5, HoldsCat
<1>7. Holds(w, 0, h) /\ Holds(w, 0 + Len(h), C)
  <2>1. h \in Seq(Nat) /\ C \in Seq(Nat)
    BY <1>1
  <2>2. Holds(w, 0, h \o C)
    BY <1>6 DEF x
  <2> QED BY <1>4, <2>1, <2>2, HoldsCat
<1>8. Holds(w, 12, B) /\ Holds(w, 4, C)
  <2>1. 0 + Len(x) = 12 /\ 0 + Len(h) = 4
    BY <1>1, <1>3
  <2> QED BY <1>6, <1>7, <2>1
<1>9. Holds(w, 0, U16Octets(m.id)) /\ w[3] = m.hb3 /\ w[4] = m.hb4
  <2> DEFINE y == U16Octets(m.id)
             z == <<m.hb3, m.hb4>>
  <2>1. m.hb3 \in Nat /\ m.hb4 \in Nat
    BY <1>2a, OctetNumbers
  <2>2. y \in Seq(Nat) /\ Len(y) = 2
    BY <1>2a, U16OctetsFacts
  <2>3. z \in Seq(Nat) /\ Len(z) = 2 /\ z[1] = m.hb3 /\ z[2] = m.hb4
    BY <2>1
  <2> HIDE DEF y, z
  <2>4. Holds(w, 0, y) /\ Holds(w, 0 + Len(y), z)
    BY <1>1, <1>4, <1>7, <2>2, <2>3, HoldsCat DEF y, z
  <2>5. 0 + Len(y) = 2 /\ 2 + 1 = 3 /\ 2 + 2 = 4 /\ 1 \in 1..2 /\ 2 \in 1..2
    BY <2>2
  <2>6. \A j \in 1..2 : w[2 + j] = z[j]
    BY <2>3, <2>4, <2>5 DEF Holds
  <2>7. w[2 + 1] = z[1] /\ w[2 + 2] = z[2]
    BY <2>5, <2>6
  <2> QED BY <2>3, <2>4, <2>5, <2>7 DEF y
<1>10. ASSUME NEW s \in Sections PROVE Holds(w, 2 + 2 * s, U16Octets(Len(m.sections[s])))
  <2>1. s \in 1..4 /\ 4 + 2 * (s - 1) = 2 + 2 * s /\ 4 \in 0..4
    BY SectionNumbers
  <2>2. Holds(w, 4 + Off(c, s - 1), c[s])
    BY <1>1, <1>2c, <1>4, <1>8, <2>1, HoldsParts
  <2>3. Off(c, s - 1) = 2 * (s - 1) /\ c[s] = U16Octets(Len(m.sections[s]))
    BY <1>1, <1>2b
  <2> QED BY <2>1, <2>2, <2>3
<1>11. ASSUME NEW s \in Sections PROVE Holds(w, 12 + Off(b, s - 1), b[s])
  <2>1. s \in 1..4 /\ 4 \in 0..4
    BY SectionNumbers
  <2> QED BY <1>1, <1>2c, <1>4, <1>8, <2>1, HoldsParts
<1> QED BY <1>4, <1>9, <1>10, <1>11 DEF w, b

(* The place behind the first n[s] entries of each section, when they are  *)
(* read one section after the other.                                       *)
Place(m, n) ==
  12 + Off(Entries(m, 1), n[1]) + Off(Entries(m, 2), n[2])
     + Off(Entries(m, 3), n[3]) + Off(Entries(m, 4), n[4])

(* Section s is the one that is being read.                                *)
AtSection(m, n, s) ==
  /\ s \in Sections /\ n[s] < Len(m.sections[s])
  /\ \A t \in Sections : /\ t < s => n[t] = Len(m.sections[t])
                         /\ t > s => n[t] = 0
                         /\ n[t] \in 0..Len(m.sections[t])

LEMMA BodiesOff ==
  ASSUME NEW m \in Messages
  PROVE  LET L(s) == Off(Entries(m, s), Len(m.sections[s]))
             b == Bodies(m)
         IN /\ \A s \in Sections : L(s) \in Nat /\ Off(Entries(m, s), 0) = 0
            /\ Off(b, 0) = 0 /\ Off(b, 1) = L(1) /\ Off(b, 2) = L(1) + L(2)
            /\ Off(b, 3) = L(1) + L(2) + L(3) /\ Off(b, 4) = L(1) + L(2) + L(3) + L(4)
<1> DEFINE L(s) == Off(Entries(m, s), Len(m.sections[s]))
           b == Bodies(m)
<1>1. b = [s \in Sections |-> b[s]] /\ (\A s \in Sections : b[s] \in Seq(Nat))
  BY EncodeParts
<1>2. ASSUME NEW s \in Sections
      PROVE  Len(b[s]) = L(s) /\ L(s) \in Nat /\ Off(Entries(m, s), 0) = 0
  <2>1. b[s] = Concat(Entries(m, s))
    BY DEF Bodies
  <2>2. Entries(m, s) \in Parts(Nat) /\ Len(Entries(m, s)) = Len(m.sections[s])
    BY EntriesAre
  <2>3. Len(Concat(Entries(m, s))) = L(s) /\ Off(Entries(m, s), 0) = 0
    BY <2>2, OffDef
  <2>4. Len(b[s]) \in Nat
    BY <1>1
  <2> HIDE DEF b, L
  <2> QED BY <2>1, <2>3, <2>4
<1> HIDE DEF b, L
<1>3. /\ Off(b, 0) = 0 /\ Off(b, 1) = Len(b[1]) /\ Off(b, 2) = Len(b[1]) + Len(b[2])
      /\ Off(b, 3) = Len(b[1]) + Len(b[2]) + Len(b[3])
      /\ Off(b, 4) = Len(b[1]) + Len(b[2]) + Len(b[3]) + Len(b[4])
  BY <1>1, FourParts
<1>4. Len(b[1]) = L(1) /\ Len(b[2]) = L(2) /\ Len(b[3]) = L(3) /\ Len(b[4]) = L(4)
  BY <1>2, SectionNumbers
<1>5. /\ Off(b, 0) = 0 /\ Off(b, 1) = L(1) /\ Off(b, 2) = L(1) + L(2)
      /\ Off(b, 3) = L(1) + L(2) + L(3) /\ Off(b, 4) = L(1) + L(2) + L(3) + L(4)
  BY <1>3, <1>4
<1> QED BY <1>2, <1>5 DEF b, L

LEMMA PlaceAtSection ==
  ASSUME NEW m \in Messages, NEW n, NEW s, AtSection(m, n, s)
  PROVE  /\ Place(m, n) = 12 + Off(Bodies(m), s - 1) + Off(Entries(m, s), n[s])
         /\ Off(Bodies(m), s - 1) \in Nat /\ Off(Entries(m, s), n[s]) \in Nat
<1> DEFINE L(t) == Off(Entries(m, t), Len(m.sections[t]))
           O(t) == Off(Entries(m, t), n[t])
           b == Bodies(m)
<1>1. /\ \A t \in Sections : L(t) \in Nat /\ Off(Entries(m, t), 0) = 0
      /\ Off(b, 0) = 0 /\ Off(b, 1) = L(1) /\ Off(b, 2) = L(1) + L(2) /\ Off(b, 3) = L(1) + L(2) + L(3)
  BY BodiesOff
<1>2. \A t \in Sections : O(t) \in Nat
  <2> SUFFICES ASSUME NEW t \in Sections PROVE O(t) \in Nat
    OBVIOUS
  <2>1. Entries(m, t) \in Parts(Nat) /\ Len(Entries(m, t)) = Len(m.sections[t])
    BY EntriesAre
  <2>2. n[t] \in 0..Len(Entries(m, t))
    BY <2>1 DEF AtSection
  <2> QED BY <2>1, <2>2, OffDef
<1>3. \A t \in Sections : (t < s => O(t) = L(t)) /\ (t > s => O(t) = 0)
  BY <1>1 DEF AtSection
<1>4. Place(m, n) = 12 + O(1) + O(2) + O(3) + O(4)
  BY DEF Place
<1>5. s = 1 \/ s = 2 \/ s = 3 \/ s = 4
  BY SectionNumbers DEF AtSection
<1>6. 1 \in Sections /\ 2 \in Sections /\ 3 \in Sections /\ 4 \in Sections
  BY SectionNumbers
<1> HIDE DEF L, O, b
<1>6a. O(1) \in Nat /\ O(2) \in Nat /\ O(3) \in Nat /\ O(4) \in Nat
       /\ L(1) \in Nat /\ L(2) \in Nat /\ L(3) \in Nat
  BY <1>1, <1>2, <1>6
<1>6b. 1 - 1 = 0 /\ 2 - 1 = 1 /\ 3 - 1 = 2 /\ 4 - 1 = 3
  OBVIOUS
<1>7. CASE s = 1
  <2>1. O(2) = 0 /\ O(3) = 0 /\ O(4) = 0 /\ Off(b, s - 1) = 0
    BY <1>1, <1>3, <1>6, <1>6b, <1>7
  <2> QED BY <1>4, <1>6a, <1>7, <2>1 DEF O, b
<1>8. CASE s = 2
  <2>1. O(1) = L(1) /\ O(3) = 0 /\ O(4) = 0 /\ Off(b, s - 1) = L(1)
    BY <1>1, <1>3, <1>6, <1>6b, <1>8
  <2> QED BY <1>4, <1>6a, <1>8, <2>1 DEF O, b
<1>9. CASE s = 3
  <2>1. O(1) = L(1) /\ O(2) = L(2) /\ O(4) = 0 /\ Off(b, s - 1) = L(1) + L(2)
    BY <1>1, <1>3, <1>6, <1>6b, <1>9
  <2> QED BY <1>4, <1>6a, <1>9, <2>1 DEF O, b
<1>10. CASE s = 4
  <2>1. O(1) = L(1) /\ O(2) = L(2) /\ O(3) = L(3) /\ Off(b, s - 1) = L(1) + L(2) + L(3)
    BY <1>1, <1>3, <1>6, <1>6b, <1>10
  <2> QED BY <1>4, <1>6a, <1>10, <2>1 DEF O, b
<1> QED BY <1>5, <1>7, <1>8, <1>9, <1>10

LEMMA EntryHeld ==
  ASSUME NEW m \in Messages, NEW s \in Sections, NEW k \in 0..(Len(m.sections[s]) - 1)
  PROVE  LET P == 12 + Off(Bodies(m), s - 1) + Off(Entries(m, s), k)
             e == Entry(m, s, k + 1)
             q == FirstName(m)
         IN Off(Bodies(m), s - 1) \in Nat /\ Off(Entries(m, s), k) \in Nat =>
              /\ ItemAt(Encode(m), P, s, e, q)
              /\ P + ItemLength(s, e, q) <= Len(Encode(m))
<1> DEFINE w == Encode(m)
           A == 12 + Off(Bodies(m), s - 1)
           f == Entries(m, s)
           P == A + Off(f, k)
           e == Entry(m, s, k + 1)
           q == FirstName(m)
<1> SUFFICES ASSUME Off(Bodies(m), s - 1) \in Nat, Off(f, k) \in Nat
             PROVE  ItemAt(w, P, s, e, q) /\ P + ItemLength(s, e, q) <= Len(w)
  OBVIOUS
<1>1. A \in Nat /\ P \in Nat
  OBVIOUS
<1>2. w \in Seq(Nat) /\ Holds(w, A, Bodies(m)[s])
  BY EncodeLayout
<1>3. /\ f \in Parts(Nat) /\ Len(f) = Len(m.sections[s])
      /\ \A i \in 1..Len(m.sections[s]) : /\ f[i] = ItemOctets(s, Entry(m, s, i), q)
                                          /\ Len(f[i]) = ItemLength(s, Entry(m, s, i), q)
  BY EntriesAre
<1>4. Len(m.sections[s]) \in Nat
  BY MessageFacts
<1>5. k + 1 \in 1..Len(m.sections[s]) /\ (k + 1) - 1 = k /\ Len(f) \in 0..Len(f)
  BY <1>3, <1>4
<1>6. /\ EntryOK(e, q) /\ q \in Names /\ (s # Question => e \in Records)
  BY <1>5, MessageFacts
<1>7. Bodies(m)[s] = Part(f, Len(f))
  <2>1. Bodies(m)[s] = Concat(f)
    BY DEF Bodies
  <2> QED BY <2>1, ConcatIsPart
<1>8. f[k + 1] = ItemOctets(s, e, q) /\ Len(f[k + 1]) = ItemLength(s, e, q)
  BY <1>3, <1>5
<1> HIDE DEF w, A, f, e, q
<1>9. Holds(w, A, Part(f, Len(f)))
  BY <1>2, <1>7
<1>10. Holds(w, A + Off(f, (k + 1) - 1), f[k + 1])
  <2>1. \A j \in 1..Len(f) : Holds(w, A + Off(f, j - 1), f[j])
    BY <1>1, <1>2, <1>3, <1>5, <1>9, HoldsParts
  <2> QED BY <1>3, <1>5, <2>1
<1>11. Holds(w, P, ItemOctets(s, e, q))
  BY <1>5, <1>8, <1>10
<1>12. P + ItemLength(s, e, q) <= Len(w)
  BY <1>8, <1>11 DEF Holds
<1> HIDE DEF P
<1>13. ItemAt(w, P, s, e, q)
  <2>1. CASE s = Question
    <3>1. Holds(w, P, QuestionOctets(e, q))
      BY <1>11, <2>1 DEF ItemOctets
    <3>2. QuestionAt(w, P, e, q)
      BY <1>1, <1>2, <1>6, <3>1, QuestionFound
    <3> QED BY <2>1, <3>2 DEF ItemAt
  <2>2. CASE s # Question
    <3>1. Holds(w, P, RecordOctets(e, q)) /\ e \in Records
      BY <1>6, <1>11, <2>2 DEF ItemOctets
    <3>2. RecordAt(w, P, e, q)
      BY <1>1, <1>2, <1>6, <3>1, RecordFound
    <3> QED BY <2>2, <3>2 DEF ItemAt
  <2> QED BY <2>1, <2>2
<1> QED BY <1>12, <1>13

(* The entry that is next stands at the place behind those before it.      *)
LEMMA EntryFound ==
  ASSUME NEW m \in Messages, NEW n, NEW s, AtSection(m, n, s)
  PROVE  /\ Place(m, n) \in Nat /\ Encode(m) \in Seq(Nat)
         /\ ItemAt(Encode(m), Place(m, n), s, Entry(m, s, n[s] + 1), FirstName(m))
         /\ Place(m, n) + ItemLength(s, Entry(m, s, n[s] + 1), FirstName(m)) <= Len(Encode(m))
<1>1. s \in Sections /\ n[s] \in 0..Len(m.sections[s]) /\ n[s] < Len(m.sections[s])
  BY DEF AtSection
<1>2. Len(m.sections[s]) \in Nat
  BY <1>1, MessageFacts
<1>3. n[s] \in 0..(Len(m.sections[s]) - 1)
  BY <1>1, <1>2
<1>4. /\ Place(m, n) = 12 + Off(Bodies(m), s - 1) + Off(Entries(m, s), n[s])
      /\ Off(Bodies(m), s - 1) \in Nat /\ Off(Entries(m, s), n[s]) \in Nat
  BY PlaceAtSection
<1>5. Place(m, n) \in Nat
  BY <1>4
<1>6. Encode(m) \in Seq(Nat)
  BY EncodeLayout
<1>7. /\ ItemAt(Encode(m), Place(m, n), s, Entry(m, s, n[s] + 1), FirstName(m))
      /\ Place(m, n) + ItemLength(s, Entry(m, s, n[s] + 1), FirstName(m)) <= Len(Encode(m))
  BY <1>1, <1>3, <1>4, EntryHeld
<1> QED BY <1>5, <1>6, <1>7

(* Nothing is read yet, everything is read, and one entry more is.         *)
LEMMA PlaceStart ==
  ASSUME NEW m \in Messages, NEW n, \A t \in Sections : n[t] = 0
  PROVE  Place(m, n) = 12
<1>1. \A t \in Sections : Off(Entries(m, t), 0) = 0
  BY BodiesOff
<1>2. 1 \in Sections /\ 2 \in Sections /\ 3 \in Sections /\ 4 \in Sections
  BY SectionNumbers
<1> QED BY <1>1, <1>2 DEF Place

(* Behind the last entry the message ends.                                 *)
LEMMA PlaceEnd ==
  ASSUME NEW m \in Messages, NEW n, \A t \in Sections : n[t] = Len(m.sections[t])
  PROVE  Place(m, n) = Len(Encode(m))
<1> DEFINE L(t) == Off(Entries(m, t), Len(m.sections[t]))
<1>1. Off(Bodies(m), 4) = L(1) + L(2) + L(3) + L(4) /\ \A t \in Sections : L(t) \in Nat
  BY BodiesOff
<1>2. Len(Encode(m)) = 12 + Off(Bodies(m), 4)
  BY EncodeLayout
<1>3. 1 \in Sections /\ 2 \in Sections /\ 3 \in Sections /\ 4 \in Sections
  BY SectionNumbers
<1>4. Place(m, n) = 12 + L(1) + L(2) + L(3) + L(4)
  BY <1>3 DEF Place
<1>5. L(1) \in Nat /\ L(2) \in Nat /\ L(3) \in Nat /\ L(4) \in Nat
  BY <1>1, <1>3
<1> HIDE DEF L
<1> QED BY <1>1, <1>2, <1>4, <1>5

(* The place behind an entry.                                              *)
LEMMA PlaceNext ==
  ASSUME NEW m \in Messages, NEW n, NEW o, NEW s, AtSection(m, n, s),
         \A t \in Sections : o[t] = IF t = s THEN n[t] + 1 ELSE n[t]
  PROVE  /\ Place(m, o) = Place(m, n) + ItemLength(s, Entry(m, s, n[s] + 1), FirstName(m))
         /\ ItemLength(s, Entry(m, s, n[s] + 1), FirstName(m)) \in Nat
<1> DEFINE N(t) == Off(Entries(m, t), n[t])
           O(t) == Off(Entries(m, t), o[t])
           l == ItemLength(s, Entry(m, s, n[s] + 1), FirstName(m))
           f == Entries(m, s)
           k == n[s] + 1
<1>1. /\ s \in Sections /\ n[s] \in 0..Len(m.sections[s]) /\ n[s] < Len(m.sections[s])
      /\ \A t \in Sections : n[t] \in 0..Len(m.sections[t])
  BY DEF AtSection
<1>2. /\ f \in Parts(Nat) /\ Len(f) = Len(m.sections[s]) /\ Len(m.sections[s]) \in Nat
      /\ \A i \in 1..Len(m.sections[s]) : Len(f[i]) = ItemLength(s, Entry(m, s, i), FirstName(m))
  BY <1>1, EntriesAre, MessageFacts
<1>3. k \in 1..Len(f) /\ k - 1 = n[s] /\ k \in 1..Len(m.sections[s])
  BY <1>1, <1>2
<1>4. Off(f, k) = Off(f, k - 1) + Len(f[k])
  BY <1>2, <1>3, OffDef
<1>5. Len(f[k]) = l
  BY <1>2, <1>3
<1>6. l \in Nat
  <2>1. f[k] \in Seq(Nat)
    BY <1>2, <1>3 DEF Parts
  <2> HIDE DEF f, k, l
  <2> QED BY <1>5, <2>1
<1>7. \A t \in Sections : N(t) \in Nat
  <2> SUFFICES ASSUME NEW t \in Sections PROVE N(t) \in Nat
    OBVIOUS
  <2>1. Entries(m, t) \in Parts(Nat) /\ Len(Entries(m, t)) = Len(m.sections[t])
    BY EntriesAre
  <2>2. n[t] \in 0..Len(Entries(m, t))
    BY <1>1, <2>1
  <2> QED BY <2>1, <2>2, OffDef
<1>8. o[s] = k /\ \A t \in Sections : t # s => o[t] = n[t]
  BY <1>1
<1>9. O(s) = N(s) + l /\ \A t \in Sections : t # s => O(t) = N(t)
  <2> HIDE DEF l, k
  <2> QED BY <1>3, <1>4, <1>5, <1>8
<1>10. Place(m, n) = 12 + N(1) + N(2) + N(3) + N(4) /\ Place(m, o) = 12 + O(1) + O(2) + O(3) + O(4)
  BY DEF Place
<1>11. 1 \in Sections /\ 2 \in Sections /\ 3 \in Sections /\ 4 \in Sections /\ (s = 1 \/ s = 2 \/ s = 3 \/ s = 4)
  BY <1>1, SectionNumbers
<1> HIDE DEF N, O, l
<1>12. N(1) \in Nat /\ N(2) \in Nat /\ N(3) \in Nat /\ N(4) \in Nat
  BY <1>7, <1>11
<1>13. Place(m, o) = Place(m, n) + l
  BY <1>6, <1>9, <1>10, <1>11, <1>12
<1> QED BY <1>6, <1>13 DEF l

(* The name pointers lead into stands behind the header.                   *)
LEMMA FirstNameFound ==
  ASSUME NEW m \in Messages
  PROVE  NameAt(Encode(m), 12, FirstName(m), 0, FirstName(m))
<1> DEFINE n == [t \in Sections |-> 0]
           q == FirstName(m)
           e == Entry(m, Question, n[Question] + 1)
<1>1. /\ Len(m.sections[Question]) > 0 /\ \A s \in Sections : Len(m.sections[s]) \in Nat
  BY MessageFacts
<1>2. Question \in Sections /\ Question = 1 /\ \A t \in Sections : ~(t < Question)
  BY SectionNumbers
<1>3. AtSection(m, n, Question)
  BY <1>1, <1>2 DEF AtSection
<1>4. Place(m, n) = 12
  BY PlaceStart
<1>5. ItemAt(Encode(m), 12, Question, e, q)
  BY <1>3, <1>4, EntryFound
<1>6. e = Entry(m, Question, 1)
  BY <1>2
<1>7. e.labels = q /\ e.shared = 0
  BY <1>6, MessageFacts
<1> HIDE DEF e, q
<1>8. NameAt(Encode(m), 12, e.labels, e.shared, q)
  BY <1>5 DEF ItemAt, QuestionAt
<1> QED BY <1>7, <1>8 DEF q

-----------------------------------------------------------------------------
(* A name stands in w behind P, with its last n labels in the name q,      *)
(* which is that of the first question when n > 0.                         *)
NameHyp(w, P, ls, n, q) ==
  /\ w \in Seq(Nat) /\ P \in Nat /\ ls \in Names /\ q \in LabelSeqs
  /\ n \in 0..Len(ls) /\ n <= Len(q)
  /\ NameAt(w, P, ls, n, q)
  /\ n > 0 => /\ NameAt(w, 12, q, 0, q) /\ q \in Names
              /\ \A j \in 0..(n - 1) : ls[Len(ls) - j] = q[Len(q) - j]

(* ReadLabel has read k labels: it is at position p and has made j jumps.  *)
NameSpot(P, ls, n, q, k, p, j, r) ==
  /\ k \in 0..Len(ls)
  /\ \/ j = 0 /\ r = 0 /\ k <= Len(ls) - n /\ p = P + At(ls, k) + 1
     \/ /\ j = 1 /\ n > 0 /\ k >= Len(ls) - n /\ r = P + At(ls, Len(ls) - n) + 2
        /\ p = 12 + At(q, Len(q) - Len(ls) + k) + 1

LEMMA HypNumbers ==
  ASSUME NEW w, NEW P, NEW ls, NEW n, NEW q, NameHyp(w, P, ls, n, q)
  PROVE  /\ w \in Seq(Nat) /\ P \in Nat /\ ls \in LabelSeqs /\ q \in LabelSeqs
         /\ Len(ls) \in Nat /\ Len(q) \in Nat /\ n \in Nat /\ n <= Len(ls) /\ n <= Len(q)
         /\ n \in 0..Len(ls) /\ n \in 0..Len(q) /\ Len(w) \in Nat
         /\ \A k \in 0..Len(ls) : At(ls, k) \in Nat
         /\ \A k \in 0..Len(q) : At(q, k) \in Nat /\ At(q, k) <= At(q, Len(q))
<1>1. /\ w \in Seq(Nat) /\ P \in Nat /\ ls \in LabelSeqs /\ q \in LabelSeqs /\ Len(ls) \in Nat
      /\ n \in 0..Len(ls) /\ n <= Len(q)
  BY NameFacts DEF NameHyp
<1>2. Len(q) \in Nat /\ Len(w) \in Nat
  BY <1>1 DEF LabelSeqs
<1>3. n \in Nat /\ n \in 0..Len(q) /\ n <= Len(ls)
  BY <1>1, <1>2
<1>4. (\A k \in 0..Len(ls) : At(ls, k) \in Nat) /\ \A k \in 0..Len(q) : At(q, k) \in Nat /\ At(q, k) <= At(q, Len(q))
  BY <1>1, AtDef
<1> QED BY <1>1, <1>2, <1>3, <1>4

LEMMA AtGrows ==
  ASSUME NEW ls \in LabelSeqs, NEW k \in 0..Len(ls), NEW l \in 0..Len(ls), k <= l
  PROVE  At(ls, k) <= At(ls, l)
<1>1. Written(ls) \in Parts(Nat) /\ Len(Written(ls)) = Len(ls) /\ Len(ls) \in Nat
  BY WrittenParts
<1>2. k \in 0..Len(Written(ls)) /\ l \in k..Len(Written(ls))
  BY <1>1
<1> QED BY <1>1, <1>2, OffGrows DEF At

(* It is always in front of an octet of the message.                       *)
LEMMA SpotInside ==
  ASSUME NEW w, NEW P, NEW ls, NEW n, NEW q, NameHyp(w, P, ls, n, q),
         NEW k, NEW p, NEW j, NEW r, NameSpot(P, ls, n, q, k, p, j, r)
  PROVE  p \in 1..Len(w) /\ p \in Nat /\ k \in Nat
<1>1. /\ w \in Seq(Nat) /\ P \in Nat /\ ls \in LabelSeqs /\ q \in LabelSeqs
      /\ Len(ls) \in Nat /\ Len(q) \in Nat /\ n \in Nat /\ n <= Len(ls) /\ n <= Len(q)
      /\ n \in 0..Len(ls) /\ n \in 0..Len(q) /\ Len(w) \in Nat
      /\ \A i \in 0..Len(ls) : At(ls, i) \in Nat
      /\ \A i \in 0..Len(q) : At(q, i) \in Nat /\ At(q, i) <= At(q, Len(q))
  BY HypNumbers
<1>2. k \in 0..Len(ls) /\ k \in Nat
  BY <1>1 DEF NameSpot
<1>3. CASE j = 0 /\ r = 0 /\ k <= Len(ls) - n /\ p = P + At(ls, k) + 1
  <2> DEFINE m == Len(ls) - n
             len == Len(NameEnd(n, q))
  <2>1. m \in 0..Len(ls) /\ k <= m
    BY <1>1, <1>3
  <2>2. At(ls, k) <= At(ls, m)
    BY <1>1, <1>2, <2>1, AtGrows
  <2>3. len = (IF n = 0 THEN 1 ELSE 2)
    BY <1>1, NameEndFacts
  <2>4. Holds(w, P + At(ls, m), NameEnd(n, q))
    BY <1>1, NameInPlace DEF NameHyp
  <2>5. P + At(ls, m) + len <= Len(w)
    BY <2>4 DEF Holds
  <2>6. At(ls, k) \in Nat /\ At(ls, m) \in Nat
    BY <1>1, <1>2, <2>1
  <2>7. len \in Nat /\ len >= 1
    BY <2>3
  <2> DEFINE lw == Len(w)
             x == At(ls, k)
             y == At(ls, m)
  <2>8. /\ lw \in Nat /\ x \in Nat /\ y \in Nat /\ x <= y /\ P + y + len <= lw /\ P \in Nat
        /\ p = P + x + 1
    BY <1>1, <1>3, <2>2, <2>5, <2>6
  <2> HIDE DEF m, len, lw, x, y
  <2>9. p \in Nat /\ p \in 1..lw
    BY <2>7, <2>8
  <2> QED BY <1>2, <2>9 DEF lw
<1>4. CASE /\ j = 1 /\ n > 0 /\ k >= Len(ls) - n /\ p = 12 + At(q, Len(q) - Len(ls) + k) + 1
  <2> DEFINE i == Len(q) - Len(ls) + k
             a == At(q, Len(q))
  <2>1. i \in 0..Len(q)
    BY <1>1, <1>2, <1>4
  <2>2. At(q, i) \in Nat /\ At(q, i) <= a /\ a \in Nat
    <3>1. Len(q) \in 0..Len(q)
      BY <1>1
    <3> QED BY <1>1, <2>1, <3>1
  <2>3. Holds(w, 12, NameOctets(q, 0, q))
    BY <1>4 DEF NameHyp, NameAt
  <2>4. Len(NameOctets(q, 0, q)) = a + 1
    BY <1>4, NameInFull DEF NameHyp
  <2>5. 12 + (a + 1) <= Len(w)
    BY <2>3, <2>4 DEF Holds
  <2> DEFINE lw == Len(w)
             x == At(q, i)
  <2>6. p = 12 + x + 1 /\ x \in Nat /\ x <= a /\ a \in Nat /\ 12 + (a + 1) <= lw /\ lw \in Nat
    BY <1>1, <1>4, <2>2, <2>5
  <2> HIDE DEF i, a, x, lw
  <2>7. p \in Nat /\ p \in 1..lw
    BY <2>6
  <2> QED BY <1>2, <2>7 DEF lw
<1> QED BY <1>3, <1>4 DEF NameSpot

(* What ReadLabel sees there: the end, a label or a pointer.               *)
SpotEnds(ls, n, k, j, c) == c = 0 /\ k = Len(ls) /\ (j = 0 => n = 0)

SpotText(w, P, ls, n, q, k, p, j, r, c) ==
  /\ c \in Nat /\ c >= 1 /\ c <= 63 /\ k < Len(ls) /\ c = Len(ls[k + 1]) /\ ls[k + 1] \in Labels
  /\ Holds(w, p, ls[k + 1]) /\ NameSpot(P, ls, n, q, k + 1, p + c + 1, j, r)

SpotPointer(w, P, ls, n, q, k, p, j, c) ==
  /\ c \in 192..255 /\ j = 0 /\ n > 0 /\ p + 1 <= Len(w)
  /\ \E t \in Nat : /\ 256 * (c - 192) + w[p + 1] = t
                    /\ NameSpot(P, ls, n, q, k, t + 1, 1, p + 1)

LEMMA LabelLength ==
  ASSUME NEW ls \in LabelSeqs, NEW k \in 0..(Len(ls) - 1)
  PROVE  /\ ls[k + 1] \in Labels /\ Len(ls[k + 1]) \in Nat
         /\ Len(ls[k + 1]) >= 1 /\ Len(ls[k + 1]) <= 63
         /\ At(ls, k + 1) = At(ls, k) + Len(ls[k + 1]) + 1
<1>1. Len(ls) \in Nat
  BY DEF LabelSeqs
<1>2. k + 1 \in 1..Len(ls)
  BY <1>1
<1>3. ls[k + 1] \in Labels
  BY <1>2, WrittenParts
<1>4. Len(ls[k + 1]) \in 1..63
  BY <1>3, LabelFacts
<1>5. \A x \in 1..63 : x \in Nat /\ x >= 1 /\ x <= 63
  OBVIOUS
<1>6. At(ls, k + 1) = At(ls, k) + Len(ls[k + 1]) + 1
  BY AtDef
<1> QED BY <1>3, <1>4, <1>5, <1>6, Zenon

LEMMA PointerValue ==
  ASSUME NEW t \in Nat, t <= 266
  PROVE  192 + (t \div 256) \in 192..255 /\ 256 * ((192 + (t \div 256)) - 192) + (t % 256) = t
<1> DEFINE a == t \div 256
           b == t % 256
<1>1. a \in Nat /\ b \in Nat /\ b = t - 256 * a /\ b \in 0..255
  OBVIOUS
<1> HIDE DEF a, b
<1>2. a <= 1
  BY <1>1
<1> QED BY <1>1, <1>2 DEF a, b

(* What a reader in the name itself sees: a label, a zero or a pointer.    *)
LEMMA SpotInPlace ==
  ASSUME NEW w, NEW P, NEW ls, NEW n, NEW q, NameHyp(w, P, ls, n, q),
         NEW k, NEW p, NEW j, NEW r, NameSpot(P, ls, n, q, k, p, j, r), j = 0
  PROVE  \/ SpotEnds(ls, n, k, j, w[p])
         \/ SpotText(w, P, ls, n, q, k, p, j, r, w[p])
         \/ SpotPointer(w, P, ls, n, q, k, p, j, w[p])
<1>1. /\ w \in Seq(Nat) /\ P \in Nat /\ ls \in LabelSeqs /\ q \in LabelSeqs
      /\ Len(ls) \in Nat /\ Len(q) \in Nat /\ n \in Nat /\ n <= Len(ls) /\ n <= Len(q)
      /\ n \in 0..Len(ls) /\ n \in 0..Len(q) /\ Len(w) \in Nat
      /\ \A i \in 0..Len(ls) : At(ls, i) \in Nat
      /\ \A i \in 0..Len(q) : At(q, i) \in Nat /\ At(q, i) <= At(q, Len(q))
  BY HypNumbers
<1>2. k \in 0..Len(ls) /\ r = 0 /\ k <= Len(ls) - n /\ p = P + At(ls, k) + 1
  BY DEF NameSpot
<1>3. /\ \A i \in 0..(Len(ls) - n - 1) :
           w[P + At(ls, i) + 1] = Len(ls[i + 1]) /\ Holds(w, P + At(ls, i) + 1, ls[i + 1])
      /\ Holds(w, P + At(ls, Len(ls) - n), NameEnd(n, q))
  BY <1>1, NameInPlace DEF NameHyp
<1>4. At(ls, k) \in Nat /\ k \in Nat
  BY <1>1, <1>2
<1>5. CASE k < Len(ls) - n
  <2>1. k \in 0..(Len(ls) - n - 1) /\ k \in 0..(Len(ls) - 1) /\ k < Len(ls)
        /\ k + 1 \in 0..Len(ls) /\ k + 1 <= Len(ls) - n
    BY <1>1, <1>2, <1>5
  <2>2. w[p] = Len(ls[k + 1]) /\ Holds(w, p, ls[k + 1])
    BY <1>2, <1>3, <2>1
  <2> DEFINE c == Len(ls[k + 1])
  <2>3. /\ ls[k + 1] \in Labels /\ c \in Nat /\ c >= 1 /\ c <= 63
        /\ At(ls, k + 1) = At(ls, k) + c + 1
    BY <1>1, <2>1, LabelLength
  <2> HIDE DEF c
  <2>4. p + c + 1 = P + At(ls, k + 1) + 1
    <3> DEFINE a == At(ls, k)
    <3>1. a \in Nat /\ P \in Nat /\ c \in Nat /\ p = P + a + 1 /\ At(ls, k + 1) = a + c + 1
      BY <1>1, <1>2, <1>4, <2>3
    <3> HIDE DEF a
    <3>2. p + c + 1 = P + (a + c + 1) + 1
      BY <3>1
    <3> QED BY <3>1, <3>2
  <2>5. NameSpot(P, ls, n, q, k + 1, p + c + 1, j, r)
    BY <1>2, <2>1, <2>4 DEF NameSpot
  <2> QED BY <2>1, <2>2, <2>3, <2>5 DEF SpotText, c
<1>6. CASE k = Len(ls) - n /\ n = 0
  <2>1. k = Len(ls)
    BY <1>1, <1>6
  <2>2. Holds(w, P + At(ls, k), NameEnd(0, q))
    BY <1>3, <1>6
  <2>3. NameEnd(0, q) = <<0>>
    BY DEF NameEnd
  <2>4. w[p] = 0
    <3>1. Len(<<0>>) = 1 /\ <<0>>[1] = 0 /\ 1 \in 1..1
      OBVIOUS
    <3> QED BY <1>2, <2>2, <2>3, <3>1 DEF Holds
  <2> QED BY <1>6, <2>1, <2>4 DEF SpotEnds
<1>7. CASE k = Len(ls) - n /\ n # 0
  <2> DEFINE t == 12 + At(q, Len(q) - n)
             E == NameEnd(n, q)
  <2>1. n > 0 /\ Len(q) - n \in 0..Len(q) /\ Len(q) \in 0..Len(q)
    BY <1>1, <1>7
  <2>2. At(q, Len(q) - n) \in Nat /\ At(q, Len(q) - n) <= At(q, Len(q)) /\ At(q, Len(q)) \in Nat
    BY <1>1, <2>1
  <2>3. At(q, Len(q)) <= 254
    BY <2>1, NameFacts DEF NameHyp
  <2>4. t \in Nat /\ t <= 266
    BY <2>2, <2>3
  <2>5. Len(E) = 2 /\ E[1] = 192 + (t \div 256) /\ E[2] = t % 256
    <3>1. Len(E) = (IF n = 0 THEN 1 ELSE 2)
      BY <1>1, NameEndFacts
    <3>2. LET u == HEADER_SIZE + At(q, Len(q) - n)
          IN E[1] = 192 + u \div 256 /\ E[2] = u % 256
      BY <1>1, <2>1, NameEndFacts
    <3> QED BY <1>7, <3>1, <3>2 DEF HEADER_SIZE
  <2> DEFINE A == P + At(ls, k)
  <2>6. A \in Nat /\ p = A + 1 /\ Holds(w, A, E)
    BY <1>1, <1>2, <1>3, <1>4, <1>7, SMTT(30)
  <2> HIDE DEF t, E, A
  <2>7. A + 2 <= Len(w) /\ w[A + 1] = E[1] /\ w[A + 2] = E[2]
    BY <2>5, <2>6 DEF Holds
  <2>8. p + 1 = A + 2 /\ p + 1 <= Len(w)
    BY <2>6, <2>7
  <2> DEFINE c == w[p]
  <2>9. c = 192 + (t \div 256) /\ w[p + 1] = t % 256
    BY <2>5, <2>6, <2>7, <2>8
  <2>10. c \in 192..255 /\ 256 * (c - 192) + w[p + 1] = t
    <3> HIDE DEF c
    <3>1. 192 + (t \div 256) \in 192..255 /\ 256 * ((192 + (t \div 256)) - 192) + (t % 256) = t
      BY <2>4, PointerValue
    <3> QED BY <2>9, <3>1, Zenon
  <2>11. NameSpot(P, ls, n, q, k, t + 1, 1, p + 1)
    <3>1. k >= Len(ls) - n /\ Len(q) - Len(ls) + k = Len(q) - n
      BY <1>1, <1>7
    <3>2. p + 1 = P + At(ls, Len(ls) - n) + 2
      BY <1>1, <1>2, <1>4, <1>7, SMTT(30)
    <3>3. t + 1 = 12 + At(q, Len(q) - Len(ls) + k) + 1
      BY <3>1 DEF t
    <3> QED BY <1>2, <2>1, <3>1, <3>2, <3>3 DEF NameSpot
  <2> HIDE DEF c
  <2>12. SpotPointer(w, P, ls, n, q, k, p, j, c)
    BY <2>1, <2>4, <2>8, <2>10, <2>11, Zenon DEF SpotPointer
  <2> QED BY <2>12 DEF c
<1> QED BY <1>1, <1>2, <1>4, <1>5, <1>6, <1>7, SMTT(30)

(* The same behind the pointer, in the first question's name.              *)
LEMMA SpotBehindPointer ==
  ASSUME NEW w, NEW P, NEW ls, NEW n, NEW q, NameHyp(w, P, ls, n, q),
         NEW k, NEW p, NEW j, NEW r, NameSpot(P, ls, n, q, k, p, j, r), j = 1
  PROVE  \/ SpotEnds(ls, n, k, j, w[p])
         \/ SpotText(w, P, ls, n, q, k, p, j, r, w[p])
<1>1. /\ w \in Seq(Nat) /\ P \in Nat /\ ls \in LabelSeqs /\ q \in LabelSeqs
      /\ Len(ls) \in Nat /\ Len(q) \in Nat /\ n \in Nat /\ n <= Len(ls) /\ n <= Len(q)
      /\ n \in 0..Len(ls) /\ n \in 0..Len(q) /\ Len(w) \in Nat
      /\ \A i \in 0..Len(ls) : At(ls, i) \in Nat
      /\ \A i \in 0..Len(q) : At(q, i) \in Nat /\ At(q, i) <= At(q, Len(q))
  BY HypNumbers
<1> DEFINE i == Len(q) - Len(ls) + k
<1>2. /\ k \in 0..Len(ls) /\ n > 0 /\ k >= Len(ls) - n /\ r = P + At(ls, Len(ls) - n) + 2
      /\ p = 12 + At(q, i) + 1
  BY DEF NameSpot
<1>3. NameAt(w, 12, q, 0, q) /\ \A l \in 0..(n - 1) : ls[Len(ls) - l] = q[Len(q) - l]
  BY <1>2 DEF NameHyp
<1>4. /\ \A l \in 0..(Len(q) - 0 - 1) :
           w[12 + At(q, l) + 1] = Len(q[l + 1]) /\ Holds(w, 12 + At(q, l) + 1, q[l + 1])
      /\ Holds(w, 12 + At(q, Len(q) - 0), NameEnd(0, q))
  <2>1. 12 \in Nat /\ 0 \in 0..Len(q) /\ 0 <= Len(q)
    BY <1>1
  <2> QED BY <1>1, <1>3, <2>1, NameInPlace
<1>5. k \in Nat /\ i \in 0..Len(q) /\ At(q, i) \in Nat
  BY <1>1, <1>2, SMTT(30)
<1>6. CASE k < Len(ls)
  <2>1. i \in 0..(Len(q) - 0 - 1) /\ i \in 0..(Len(q) - 1) /\ k + 1 \in 0..Len(ls)
    <3> DEFINE x == Len(q)
               y == Len(ls)
    <3>1. x \in Nat /\ y \in Nat /\ k \in Nat /\ k < y /\ i = x - y + k /\ i \in 0..x
      BY <1>1, <1>5, <1>6
    <3> HIDE DEF x, y, i
    <3>2. i \in 0..(x - 0 - 1) /\ i \in 0..(x - 1) /\ k + 1 \in 0..y
      BY <3>1
    <3> QED BY <3>2 DEF x, y
  <2> DEFINE l == Len(ls) - (k + 1)
  <2>2. l \in 0..(n - 1) /\ Len(ls) - l = k + 1 /\ Len(q) - l = i + 1
    BY <1>1, <1>2, <1>5, <1>6
  <2>3. ls[k + 1] = q[i + 1]
    BY <1>3, <2>2
  <2> HIDE DEF i, l
  <2>4. w[p] = Len(ls[k + 1]) /\ Holds(w, p, ls[k + 1])
    BY <1>2, <1>4, <2>1, <2>3
  <2> DEFINE c == Len(ls[k + 1])
  <2>5. /\ ls[k + 1] \in Labels /\ c \in Nat /\ c >= 1 /\ c <= 63
        /\ At(q, i + 1) = At(q, i) + c + 1
    BY <1>1, <2>1, <2>3, LabelLength
  <2> HIDE DEF c
  <2>6. p + c + 1 = 12 + At(q, i + 1) + 1
    BY <1>2, <1>5, <2>5
  <2>7. Len(q) - Len(ls) + (k + 1) = i + 1 /\ k + 1 >= Len(ls) - n
    BY <1>1, <1>2, <1>5 DEF i
  <2>8. NameSpot(P, ls, n, q, k + 1, p + c + 1, j, r)
    BY <1>2, <2>1, <2>6, <2>7 DEF NameSpot
  <2> QED BY <1>6, <2>4, <2>5, <2>8 DEF SpotText, c
<1>7. CASE k = Len(ls)
  <2>1. i = Len(q) /\ Len(q) - 0 = Len(q)
    BY <1>1, <1>7
  <2>2. Holds(w, 12 + At(q, i), NameEnd(0, q))
    BY <1>4, <2>1
  <2>3. NameEnd(0, q) = <<0>>
    BY DEF NameEnd
  <2>4. w[p] = 0
    <3>1. Len(<<0>>) = 1 /\ <<0>>[1] = 0 /\ 1 \in 1..1
      OBVIOUS
    <3> QED BY <1>2, <2>2, <2>3, <3>1 DEF Holds
  <2> QED BY <1>7, <2>4 DEF SpotEnds
<1> QED BY <1>1, <1>2, <1>5, <1>6, <1>7

LEMMA SpotCases ==
  ASSUME NEW w, NEW P, NEW ls, NEW n, NEW q, NameHyp(w, P, ls, n, q),
         NEW k, NEW p, NEW j, NEW r, NameSpot(P, ls, n, q, k, p, j, r)
  PROVE  \/ SpotEnds(ls, n, k, j, w[p])
         \/ SpotText(w, P, ls, n, q, k, p, j, r, w[p])
         \/ SpotPointer(w, P, ls, n, q, k, p, j, w[p])
<1>1. j = 0 \/ j = 1
  BY DEF NameSpot
<1> QED BY <1>1, SpotInPlace, SpotBehindPointer

-----------------------------------------------------------------------------
(* The entry e of section s stands in w behind P; q is the name of the     *)
(* first question, which pointers lead into.                               *)
EntryAt(w, s, e, P, q) ==
  /\ w \in Seq(Nat) /\ P \in Nat /\ q \in Names /\ EntryOK(e, q)
  /\ s # Question => e \in Records
  /\ ItemAt(w, P, s, e, q) /\ P + ItemLength(s, e, q) <= Len(w)
  /\ NameAt(w, 12, q, 0, q)

LEMMA EntryThere ==
  ASSUME NEW m \in Messages, NEW n, NEW s, AtSection(m, n, s)
  PROVE  EntryAt(Encode(m), s, Entry(m, s, n[s] + 1), Place(m, n), FirstName(m))
<1>1. s \in Sections /\ n[s] \in 0..Len(m.sections[s]) /\ n[s] < Len(m.sections[s])
  BY DEF AtSection
<1>2. Len(m.sections[s]) \in Nat
  BY <1>1, MessageFacts
<1>3. n[s] + 1 \in 1..Len(m.sections[s])
  BY <1>1, <1>2
<1>4. /\ FirstName(m) \in Names /\ EntryOK(Entry(m, s, n[s] + 1), FirstName(m))
      /\ s # Question => Entry(m, s, n[s] + 1) \in Records
  BY <1>1, <1>3, MessageFacts, Zenon
<1>5. /\ Place(m, n) \in Nat /\ Encode(m) \in Seq(Nat)
      /\ ItemAt(Encode(m), Place(m, n), s, Entry(m, s, n[s] + 1), FirstName(m))
      /\ Place(m, n) + ItemLength(s, Entry(m, s, n[s] + 1), FirstName(m)) <= Len(Encode(m))
  BY EntryFound, Zenon
<1>6. NameAt(Encode(m), 12, FirstName(m), 0, FirstName(m))
  BY FirstNameFound, Zenon
<1> QED BY <1>4, <1>5, <1>6, Zenon DEF EntryAt

(* The owner's name, and the one in the data of some records.              *)
HostPlace(e, P, q) == P + NameLength(e, q) + 10 + Len(e.data)

LEMMA OwnerThere ==
  ASSUME NEW w, NEW s, NEW e, NEW P, NEW q, EntryAt(w, s, e, P, q)
  PROVE  NameHyp(w, P, e.labels, e.shared, q)
<1>1. /\ w \in Seq(Nat) /\ P \in Nat /\ q \in Names /\ EntryOK(e, q) /\ NameAt(w, 12, q, 0, q)
      /\ NameAt(w, P, e.labels, e.shared, q)
  BY Zenon DEF EntryAt, ItemAt, QuestionAt, RecordAt
<1>2. /\ q \in LabelSeqs /\ e.shared \in 0..Len(e.labels) /\ e.shared <= Len(q)
      /\ e.labels \in LabelSeqs
  BY <1>1, EntryName, Zenon
<1>3. /\ e.labels \in Names /\ Shares(e, q)
  BY <1>1 DEF EntryOK
<1>4. \A j \in 0..(e.shared - 1) : e.labels[Len(e.labels) - j] = q[Len(q) - j]
  BY <1>3, Zenon DEF Shares
<1> QED BY <1>1, <1>2, <1>3, <1>4, Zenon DEF NameHyp

LEMMA HostThere ==
  ASSUME NEW w, NEW s, NEW e, NEW P, NEW q, EntryAt(w, s, e, P, q),
         s # Question, e.type \in Named
  PROVE  NameHyp(w, HostPlace(e, P, q), e.host, 0, q) /\ e.host # NoHost
<1>1. /\ w \in Seq(Nat) /\ P \in Nat /\ q \in Names /\ EntryOK(e, q) /\ e \in Records
      /\ NameAt(w, HostPlace(e, P, q), e.host, 0, <<>>)
  BY Zenon DEF EntryAt, ItemAt, RecordAt, HostPlace
<1>2. NameOctets(e.host, 0, <<>>) = NameOctets(e.host, 0, q)
  BY DEF NameOctets
<1>3. NameAt(w, HostPlace(e, P, q), e.host, 0, q)
  BY <1>1, <1>2, Zenon DEF NameAt
<1>4. e.host \in Names /\ e.data \in Seq(Nat) /\ e.host # NoHost
  BY <1>1, RecordFacts
<1>5. Len(e.data) \in Nat /\ NameLength(e, q) \in Nat /\ q \in LabelSeqs /\ Len(q) \in Nat
  BY <1>1, <1>4, EntryName
<1>6. HostPlace(e, P, q) \in Nat
  <2> DEFINE a == NameLength(e, q)
             b == Len(e.data)
  <2>1. a \in Nat /\ b \in Nat /\ HostPlace(e, P, q) = P + a + 10 + b
    BY <1>5 DEF HostPlace
  <2> HIDE DEF a, b
  <2> QED BY <1>1, <2>1
<1>7. 0 \in 0..Len(e.host) /\ 0 <= Len(q)
  <2>1. Len(e.host) \in Nat
    BY <1>4, NameFacts
  <2> QED BY <1>5, <2>1
<1>8. ~(0 > 0)
  OBVIOUS
<1> QED BY <1>1, <1>3, <1>4, <1>5, <1>6, <1>7, <1>8, Zenon DEF NameHyp

-----------------------------------------------------------------------------
(* What the reader has of the entry it reads.                              *)
NameOf(e) == IF label.into = "Name" THEN e.labels ELSE e.host
SharedOf(e) == IF label.into = "Name" THEN e.shared ELSE 0
NamePlace(e, P, q) == IF label.into = "Name" THEN P ELSE HostPlace(e, P, q)

RecordSoFar(e, d) ==
  [name |-> Dotted(e.labels), type |-> e.type, class |-> e.class, ttl |-> e.ttl,
   len |-> Len(DataOctets(e)), data |-> d, host |-> <<>>]

AddressRead(s, e) ==
  label.into = "Address" => s # Question /\ e.type \in Named /\ item = RecordSoFar(e, e.data)

LabelRead(w, e, P, q) ==
  /\ label.c = w[pos]
  /\ \E k \in 0..Len(NameOf(e)) :
       /\ label.name = Spelled(NameOf(e), k)
       /\ NameSpot(NamePlace(e, P, q), NameOf(e), SharedOf(e), q, k, pos, label.jumps, label.resume)

ReadingAt(w, s, e, P, q) ==
  /\ stage \in {"name", "label"} => AddressRead(s, e)
  /\ stage = "name" => pos = NamePlace(e, P, q)
  /\ stage = "label" => LabelRead(w, e, P, q)
  /\ stage = "fixed" => pos = P + NameLength(e, q) /\ item = [name |-> Dotted(e.labels)]
  /\ stage = "data" => /\ pos = P + NameLength(e, q) + 10
                       /\ s # Question /\ item = RecordSoFar(e, <<>>)

(* The buffer holds the octets of w, or the first of them.                 *)
Received(w) == size <= Len(w) /\ \A p \in Nat : p < size => buf[p] = w[p + 1]

(* The name that is being read is there.                                   *)
LEMMA NameThere ==
  ASSUME NEW w, NEW s, NEW e, NEW P, NEW q, EntryAt(w, s, e, P, q), AddressRead(s, e),
         label.into \in {"Name", "Address"}
  PROVE  NameHyp(w, NamePlace(e, P, q), NameOf(e), SharedOf(e), q)
<1>1. CASE label.into = "Name"
  BY <1>1, OwnerThere, Zenon DEF NameOf, SharedOf, NamePlace
<1>2. CASE label.into = "Address"
  <2>1. s # Question /\ e.type \in Named
    BY <1>2, Zenon DEF AddressRead
  <2>2. NameHyp(w, HostPlace(e, P, q), e.host, 0, q)
    BY <2>1, HostThere, Zenon
  <2>3. label.into # "Name"
    BY <1>2
  <2> QED BY <2>2, <2>3, Zenon DEF NameOf, SharedOf, NamePlace
<1> QED BY <1>1, <1>2

(* The steps of ReadLabel follow the name that stands in the message.      *)
LEMMA SameName ==
  ASSUME NEW e, NEW P, NEW q, label'.into = label.into
  PROVE  NameOf(e)' = NameOf(e) /\ SharedOf(e)' = SharedOf(e) /\ NamePlace(e, P, q)' = NamePlace(e, P, q)
  BY Zenon DEF NameOf, SharedOf, NamePlace

LEMMA InLabel ==
  ASSUME NEW w, NEW s, NEW e, NEW P, NEW q, stage' = "label", label'.into = label.into, item' = item,
         AddressRead(s, e), label'.c = w[pos'],
         \E k \in 0..Len(NameOf(e)) :
           /\ label'.name = Spelled(NameOf(e), k)
           /\ NameSpot(NamePlace(e, P, q), NameOf(e), SharedOf(e), q, k, pos', label'.jumps, label'.resume)
  PROVE  ReadingAt(w, s, e, P, q)'
<1>1. AddressRead(s, e)'
  BY Zenon DEF AddressRead
<1>2. NameOf(e)' = NameOf(e) /\ SharedOf(e)' = SharedOf(e) /\ NamePlace(e, P, q)' = NamePlace(e, P, q)
  BY SameName, Zenon
<1>3. LabelRead(w, e, P, q)'
  BY <1>2, Zenon DEF LabelRead
<1>4. stage' # "name" /\ stage' # "fixed" /\ stage' # "data"
  OBVIOUS
<1> QED BY <1>1, <1>3, <1>4, Zenon DEF ReadingAt

LEMMA ReadLabelReads ==
  ASSUME ReaderInv, TypeInv, NEW w, NEW s, NEW e, NEW P, NEW q, EntryAt(w, s, e, P, q),
         ReadingAt(w, s, e, P, q), Received(w), ReadLabel
  PROVE  ReadingAt(w, s, e, P, q)' /\ pos' <= size
<1>1. /\ stage = "name" /\ pos + 1 <= size /\ pos' = pos + 1 /\ stage' = "label" /\ item' = item
      /\ label' = [label EXCEPT !.c = buf[pos + 0], !.jumps = 0, !.resume = 0, !.name = <<>>]
  BY DEF ReadLabel, VALIDATE, PEEK_BYTE
<1>2. pos \in Nat /\ size \in Nat /\ LabelFields /\ label.into \in {"Name", "Address"}
  BY PacketConstants DEF ReaderInv, TypeInv, LabelOK
<1>3. /\ label'.c = buf[pos] /\ label'.jumps = 0 /\ label'.resume = 0 /\ label'.name = <<>>
      /\ label'.into = label.into
  <2>1. pos + 0 = pos
    BY <1>2
  <2> QED BY <1>1, <1>2, <2>1 DEF LabelFields
<1>4. AddressRead(s, e) /\ pos = NamePlace(e, P, q)
  BY <1>1 DEF ReadingAt
<1> DEFINE ls == NameOf(e)
           n == SharedOf(e)
           Q == NamePlace(e, P, q)
<1>5. NameHyp(w, Q, ls, n, q)
  BY <1>2, <1>4, NameThere, Zenon
<1> HIDE DEF ls, n, Q
<1>6. ls \in LabelSeqs /\ Len(ls) \in Nat /\ n \in Nat /\ n <= Len(ls) /\ Q \in Nat
  BY <1>5, HypNumbers, Zenon
<1>7. At(ls, 0) = 0 /\ Spelled(ls, 0) = <<>>
  BY <1>6, AtDef, SpelledFacts, Zenon
<1>8. 0 \in 0..Len(ls) /\ 0 <= Len(ls) - n /\ pos' = Q + 0 + 1
  BY <1>1, <1>4, <1>6 DEF Q
<1>9. NameSpot(Q, ls, n, q, 0, pos', 0, 0)
  BY <1>7, <1>8, Zenon DEF NameSpot
<1>10. label'.c = w[pos']
  <2>1. pos < size
    BY <1>1, <1>2
  <2> QED BY <1>1, <1>2, <1>3, <2>1, Zenon DEF Received
<1>11. \E k \in 0..Len(ls) : label'.name = Spelled(ls, k) /\ NameSpot(Q, ls, n, q, k, pos', label'.jumps, label'.resume)
  BY <1>3, <1>7, <1>8, <1>9, Zenon
<1>12. ReadingAt(w, s, e, P, q)'
  BY <1>1, <1>3, <1>4, <1>10, <1>11, InLabel, Zenon DEF ls, n, Q
<1> QED BY <1>1, <1>12

(* The place in the name, as ReadLabel's variables say it.                 *)
LEMMA InName ==
  ASSUME ReaderInv, TypeInv, NEW w, NEW s, NEW e, NEW P, NEW q, EntryAt(w, s, e, P, q),
         ReadingAt(w, s, e, P, q), stage = "label"
  PROVE  /\ pos \in Nat /\ size \in Nat /\ pos <= size /\ LabelFields /\ AddressRead(s, e)
         /\ label.into \in {"Name", "Address"} /\ label.c \in Octets /\ label.c = w[pos]
         /\ NameHyp(w, NamePlace(e, P, q), NameOf(e), SharedOf(e), q)
         /\ \E k \in 0..Len(NameOf(e)) :
              /\ label.name = Spelled(NameOf(e), k)
              /\ NameSpot(NamePlace(e, P, q), NameOf(e), SharedOf(e), q, k, pos, label.jumps, label.resume)
              /\ \/ SpotEnds(NameOf(e), SharedOf(e), k, label.jumps, label.c)
                 \/ SpotText(w, NamePlace(e, P, q), NameOf(e), SharedOf(e), q, k, pos, label.jumps,
                             label.resume, label.c)
                 \/ SpotPointer(w, NamePlace(e, P, q), NameOf(e), SharedOf(e), q, k, pos, label.jumps, label.c)
<1>1. /\ pos \in Nat /\ size \in Nat /\ pos <= size /\ LabelFields /\ label.into \in {"Name", "Address"}
      /\ label.c \in Octets
  BY PacketConstants DEF ReaderInv, TypeInv, LabelOK
<1>2. AddressRead(s, e) /\ LabelRead(w, e, P, q)
  BY DEF ReadingAt
<1>3. NameHyp(w, NamePlace(e, P, q), NameOf(e), SharedOf(e), q)
  BY <1>1, <1>2, NameThere, Zenon
<1>4. PICK k \in 0..Len(NameOf(e)) :
       /\ label.name = Spelled(NameOf(e), k)
       /\ NameSpot(NamePlace(e, P, q), NameOf(e), SharedOf(e), q, k, pos, label.jumps, label.resume)
  BY <1>2, Zenon DEF LabelRead
<1>5. label.c = w[pos]
  BY <1>2, Zenon DEF LabelRead
<1>6. \/ SpotEnds(NameOf(e), SharedOf(e), k, label.jumps, w[pos])
      \/ SpotText(w, NamePlace(e, P, q), NameOf(e), SharedOf(e), q, k, pos, label.jumps,
                  label.resume, w[pos])
      \/ SpotPointer(w, NamePlace(e, P, q), NameOf(e), SharedOf(e), q, k, pos, label.jumps, w[pos])
  BY <1>3, <1>4, SpotCases, Zenon
<1> QED BY <1>1, <1>2, <1>3, <1>4, <1>5, <1>6, Zenon

LEMMA ReadPointerReads ==
  ASSUME ReaderInv, TypeInv, NEW w, NEW s, NEW e, NEW P, NEW q, EntryAt(w, s, e, P, q),
         ReadingAt(w, s, e, P, q), Received(w), ReadPointer
  PROVE  ReadingAt(w, s, e, P, q)' /\ pos' <= size
<1>1. /\ stage = "label" /\ stage' = "label" /\ item' = item /\ label.c >= 192 /\ pos + 1 <= size
      /\ Target < size /\ pos' = Target + 1
      /\ label' = [label EXCEPT !.c = buf[Target], !.resume = pos + 1, !.jumps = @ + 1]
  BY DEF ReadPointer, InLoop, VALIDATE, Jump
<1> DEFINE ls == NameOf(e)
           n == SharedOf(e)
           Q == NamePlace(e, P, q)
<1>2. /\ pos \in Nat /\ size \in Nat /\ pos <= size /\ LabelFields /\ AddressRead(s, e)
      /\ label.c \in Octets /\ label.c = w[pos] /\ NameHyp(w, Q, ls, n, q)
  BY <1>1, InName, Zenon
<1>3. PICK k \in 0..Len(ls) :
              /\ label.name = Spelled(ls, k)
              /\ NameSpot(Q, ls, n, q, k, pos, label.jumps, label.resume)
              /\ \/ SpotEnds(ls, n, k, label.jumps, label.c)
                 \/ SpotText(w, Q, ls, n, q, k, pos, label.jumps, label.resume, label.c)
                 \/ SpotPointer(w, Q, ls, n, q, k, pos, label.jumps, label.c)
  BY <1>1, InName, Zenon
<1> HIDE DEF ls, n, Q
<1>4. SpotPointer(w, Q, ls, n, q, k, pos, label.jumps, label.c)
  <2>1. ~SpotEnds(ls, n, k, label.jumps, label.c)
    BY <1>1 DEF SpotEnds
  <2>2. ~SpotText(w, Q, ls, n, q, k, pos, label.jumps, label.resume, label.c)
    BY <1>1 DEF SpotText
  <2> QED BY <1>3, <2>1, <2>2
<1>5. PICK t \in Nat : 256 * (label.c - 192) + w[pos + 1] = t /\ NameSpot(Q, ls, n, q, k, t + 1, 1, pos + 1)
  BY <1>4, Zenon DEF SpotPointer
<1>6. label.jumps = 0
  BY <1>4 DEF SpotPointer
<1>7. Target = t
  <2>1. buf[pos + 0] = w[pos + 1]
    <3>1. pos < size /\ pos + 0 = pos
      BY <1>1, <1>2
    <3> QED BY <1>2, <3>1, Zenon DEF Received
  <2> QED BY <1>5, <2>1 DEF Target, PEEK_BYTE
<1>8. /\ label'.c = buf[t] /\ label'.resume = pos + 1 /\ label'.jumps = 1 /\ label'.name = label.name
      /\ label'.into = label.into /\ pos' = t + 1 /\ t < size
  BY <1>1, <1>2, <1>6, <1>7 DEF LabelFields
<1>9. buf[t] = w[t + 1]
  BY <1>8, Zenon DEF Received
<1>10. ReadingAt(w, s, e, P, q)'
  <2>1. label'.c = w[pos']
    BY <1>8, <1>9
  <2>2. \E i \in 0..Len(ls) : /\ label'.name = Spelled(ls, i)
                              /\ NameSpot(Q, ls, n, q, i, pos', label'.jumps, label'.resume)
    BY <1>3, <1>5, <1>8
  <2> QED BY <1>1, <1>2, <1>8, <2>1, <2>2, InLabel, Zenon DEF ls, n, Q
<1>11. pos' <= size
  BY <1>2, <1>8
<1> QED BY <1>10, <1>11

LEMMA BytesRead ==
  ASSUME NEW w \in Seq(Nat), NEW p \in Nat, NEW l \in Seq(Nat), Holds(w, p, l), Received(w),
         p + Len(l) <= size, size \in Nat
  PROVE  READ_BYTES(p, Len(l)) = l
<1>1. l \in Seq(Nat) /\ Len(l) \in Nat
  OBVIOUS
<1>2. ASSUME NEW i \in 1..Len(l) PROVE buf[p + i - 1] = l[i]
  <2>1. p + i - 1 \in Nat /\ p + i - 1 < size /\ (p + i - 1) + 1 = p + i
    BY <1>1
  <2>2. buf[p + i - 1] = w[(p + i - 1) + 1]
    BY <2>1, Zenon DEF Received
  <2>3. w[p + i] = l[i]
    BY <1>2, Zenon DEF Holds
  <2> QED BY <2>1, <2>2, <2>3
<1>3. l = [i \in 1..Len(l) |-> l[i]]
  BY <1>1
<1>4. READ_BYTES(p, Len(l)) = [i \in 1..Len(l) |-> buf[p + i - 1]]
  BY DEF READ_BYTES
<1>5. [i \in 1..Len(l) |-> buf[p + i - 1]] = [i \in 1..Len(l) |-> l[i]]
  BY <1>2, Zenon
<1> QED BY <1>3, <1>4, <1>5

LEMMA ReadTextReads ==
  ASSUME ReaderInv, TypeInv, NEW w, NEW s, NEW e, NEW P, NEW q, EntryAt(w, s, e, P, q),
         ReadingAt(w, s, e, P, q), Received(w), ReadText
  PROVE  ReadingAt(w, s, e, P, q)' /\ pos' <= size
<1> DEFINE c == label.c
           ls == NameOf(e)
           n == SharedOf(e)
           Q == NamePlace(e, P, q)
<1>1. /\ stage = "label" /\ stage' = "label" /\ item' = item /\ c # 0 /\ c < 64 /\ pos + c < size
      /\ pos' = pos + c + 1
      /\ label' = [label EXCEPT !.c = buf[pos + c],
                                !.name = label.name \o READ_BYTES(pos, c) \o <<Dot>>]
  BY DEF ReadText, TextThere, InLoop, PEEK_BYTE
<1>2. /\ pos \in Nat /\ size \in Nat /\ pos <= size /\ LabelFields /\ AddressRead(s, e)
      /\ c \in Octets /\ c = w[pos] /\ NameHyp(w, Q, ls, n, q)
  BY <1>1, InName, Zenon
<1>3. PICK k \in 0..Len(ls) :
              /\ label.name = Spelled(ls, k)
              /\ NameSpot(Q, ls, n, q, k, pos, label.jumps, label.resume)
              /\ \/ SpotEnds(ls, n, k, label.jumps, c)
                 \/ SpotText(w, Q, ls, n, q, k, pos, label.jumps, label.resume, c)
                 \/ SpotPointer(w, Q, ls, n, q, k, pos, label.jumps, c)
  BY <1>1, InName, Zenon
<1> HIDE DEF ls, n, Q, c
<1>4. SpotText(w, Q, ls, n, q, k, pos, label.jumps, label.resume, c)
  <2>1. ~SpotEnds(ls, n, k, label.jumps, c)
    BY <1>1 DEF SpotEnds
  <2>2. ~SpotPointer(w, Q, ls, n, q, k, pos, label.jumps, c)
    <3>0. \A x \in 192..255 : ~(x < 64)
      OBVIOUS
    <3>1. c \notin 192..255
      BY <1>1, <3>0, Zenon
    <3> QED BY <3>1, Zenon DEF SpotPointer
  <2> QED BY <1>3, <2>1, <2>2
<1> DEFINE l == ls[k + 1]
<1>5. /\ c \in Nat /\ k < Len(ls) /\ c = Len(l) /\ l \in Labels /\ Holds(w, pos, l)
      /\ NameSpot(Q, ls, n, q, k + 1, pos + c + 1, label.jumps, label.resume)
  BY <1>4, Zenon DEF SpotText
<1>6. w \in Seq(Nat) /\ ls \in LabelSeqs /\ Len(ls) \in Nat
  BY <1>2, HypNumbers, Zenon
<1>7. k \in Nat /\ k \in 0..(Len(ls) - 1) /\ k + 1 \in 0..Len(ls)
  BY <1>5, <1>6
<1>8. Spelled(ls, k + 1) = Spelled(ls, k) \o (l \o <<Dot>>) /\ Spelled(ls, k) \in Seq(Nat)
  BY <1>6, <1>7, <1>3, SpelledFacts, Zenon
<1> HIDE DEF l
<1>9. l \in Seq(Nat) /\ <<Dot>> \in Seq(Nat)
  <2>1. l \in Seq(Nat)
    BY <1>5, LabelFacts, Zenon
  <2> QED BY <2>1 DEF Dot
<1>10. READ_BYTES(pos, c) = l
  <2>1. pos + Len(l) <= size
    BY <1>1, <1>2, <1>5
  <2> QED BY <1>2, <1>5, <1>6, <1>9, <2>1, BytesRead, Zenon
<1>11. label.name \o READ_BYTES(pos, c) \o <<Dot>> = Spelled(ls, k + 1)
  <2>1. (Spelled(ls, k) \o l) \o <<Dot>> = Spelled(ls, k) \o (l \o <<Dot>>)
    BY <1>8, <1>9, OctetsAssociative, Zenon
  <2> QED BY <1>3, <1>8, <1>10, <2>1, Zenon
<1>12. /\ label'.c = buf[pos + c] /\ label'.name = Spelled(ls, k + 1) /\ label'.jumps = label.jumps
       /\ label'.resume = label.resume /\ label'.into = label.into
  BY <1>1, <1>2, <1>11 DEF LabelFields
<1>13. label'.c = w[pos']
  <2>1. pos + c \in Nat
    BY <1>2, <1>5
  <2> QED BY <1>1, <1>12, <2>1, Zenon DEF Received
<1>14. ReadingAt(w, s, e, P, q)'
  <2>1. \E i \in 0..Len(ls) : /\ label'.name = Spelled(ls, i)
                              /\ NameSpot(Q, ls, n, q, i, pos', label'.jumps, label'.resume)
    BY <1>1, <1>5, <1>7, <1>12, Zenon
  <2> QED BY <1>1, <1>2, <1>12, <1>13, <2>1, InLabel, Zenon DEF ls, n, Q
<1>15. pos' <= size
  BY <1>1, <1>2, <1>5
<1> QED BY <1>14, <1>15

(* At its end the name has been read, and reading goes on behind it.       *)
LEMMA NameDone ==
  ASSUME ReaderInv, TypeInv, NEW w, NEW s, NEW e, NEW P, NEW q, EntryAt(w, s, e, P, q),
         ReadingAt(w, s, e, P, q), stage = "label", label.c = 0
  PROVE  /\ Storage = {Dotted(NameOf(e))} /\ label.name # <<>> /\ SharedOf(e) \in Nat /\ NameOf(e) \in Names
         /\ ResumePosition = NamePlace(e, P, q) + At(NameOf(e), Len(NameOf(e)) - SharedOf(e))
                               + (IF SharedOf(e) = 0 THEN 1 ELSE 2)
         /\ ResumePosition <= size
<1> DEFINE ls == NameOf(e)
           n == SharedOf(e)
           Q == NamePlace(e, P, q)
<1>2. pos \in Nat /\ size \in Nat /\ pos <= size /\ NameHyp(w, Q, ls, n, q)
  BY InName, Zenon
<1>3. PICK k \in 0..Len(ls) :
              /\ label.name = Spelled(ls, k)
              /\ NameSpot(Q, ls, n, q, k, pos, label.jumps, label.resume)
              /\ \/ SpotEnds(ls, n, k, label.jumps, label.c)
                 \/ SpotText(w, Q, ls, n, q, k, pos, label.jumps, label.resume, label.c)
                 \/ SpotPointer(w, Q, ls, n, q, k, pos, label.jumps, label.c)
  BY InName, Zenon
<1> HIDE DEF ls, n, Q
<1>4. k = Len(ls) /\ (label.jumps = 0 => n = 0)
  <2>1. ~SpotText(w, Q, ls, n, q, k, pos, label.jumps, label.resume, label.c)
    BY DEF SpotText
  <2>2. ~SpotPointer(w, Q, ls, n, q, k, pos, label.jumps, label.c)
    BY DEF SpotPointer
  <2> QED BY <1>3, <2>1, <2>2 DEF SpotEnds
<1>5. /\ ls \in LabelSeqs /\ Len(ls) \in Nat /\ n \in Nat /\ n <= Len(ls) /\ Q \in Nat /\ ls \in Names
      /\ \A i \in 0..Len(ls) : At(ls, i) \in Nat
  BY <1>2, HypNumbers, Zenon DEF NameHyp
<1> DEFINE d == Dotted(ls)
           x == Spelled(ls, Len(ls))
           a == At(ls, Len(ls))
           b == At(ls, Len(ls) - n)
<1>6. d \in Seq(Nat) /\ Len(d) = a - 1 /\ a - 1 \in Nat /\ a - 1 > 0 /\ \A i \in 1..(a - 1) : d[i] # 0
  BY <1>5, DottedFacts, Zenon
<1>7. x \in Seq(Nat) /\ Len(x) = a /\ d = SubSeq(x, 1, a - 1)
  <2>1. Len(ls) \in 0..Len(ls)
    BY <1>5
  <2> QED BY <1>5, <2>1, SpelledFacts, Zenon DEF Dotted
<1>8. CString(d) = d
  BY <1>6, CStringWhole, Zenon
<1>8a. Len(ls) - n \in 0..Len(ls)
  BY <1>5
<1>8b. b \in Nat
  BY <1>5, <1>8a, Zenon
<1>8c. n = 0 => b = a
  BY <1>5
<1>9. Storage = {d} /\ label.name # <<>>
  <2> HIDE DEF d, x, a, b
  <2>1. label.name = x
    BY <1>3, <1>4 DEF x
  <2>2. x # <<>>
    <3>1. Len(<<>>) = 0
      OBVIOUS
    <3>2. a # 0
      BY <1>6
    <3> QED BY <1>7, <3>1, <3>2
  <2>3. CString(SubSeq(label.name, 1, Len(label.name) - 1)) = d
    BY <1>7, <1>8, <2>1, Zenon
  <2> DEFINE y == CString(SubSeq(label.name, 1, Len(label.name) - 1))
  <2>4. label.name # <<>> => Storage = {y}
    BY Zenon DEF Storage
  <2> QED BY <2>1, <2>2, <2>3, <2>4
<1>10. ResumePosition = Q + b + (IF n = 0 THEN 1 ELSE 2)
  <2> HIDE DEF a, b
  <2>1. CASE label.jumps = 0
    <3>1. n = 0 /\ label.resume = 0 /\ pos = Q + a + 1
      BY <1>3, <1>4, <2>1 DEF NameSpot, a
    <3>2. ~(label.resume > 0)
      BY <3>1
    <3> QED BY <3>1, <3>2, <1>8c DEF ResumePosition
  <2>2. CASE label.jumps # 0
    <3>1. label.resume = Q + b + 2 /\ n > 0
      BY <1>3, <2>2 DEF NameSpot, b
    <3>2. n # 0
      BY <1>5, <3>1
    <3>3. label.resume > 0
      BY <1>5, <1>8b, <3>1
    <3>4. ResumePosition = label.resume
      BY <3>3, Zenon DEF ResumePosition
    <3> QED BY <3>1, <3>2, <3>4
  <2> QED BY <2>1, <2>2
<1>11. ResumePosition <= size
  <2>1. label.resume \in 0..size
    BY DEF ReaderInv
  <2> QED BY <1>2, <2>1 DEF ResumePosition
<1> QED BY <1>5, <1>9, <1>10, <1>11 DEF ls, n, Q, b, d

(* An entry has been read: what is added to the packet, and where reading  *)
(* goes on.                                                                *)
Added(s, e, P, q, x) ==
  /\ items' = AddItem(x) /\ stage' = NextStage(header, items')
  /\ label'.into = "Name"
  /\ pos' = P + ItemLength(s, e, q)

LEMMA EndLabelReads ==
  ASSUME ReaderInv, TypeInv, NEW w, NEW s, NEW e, NEW P, NEW q, EntryAt(w, s, e, P, q),
         ReadingAt(w, s, e, P, q), EndLabel
  PROVE  /\ pos' <= size /\ label'.into = "Name"
         /\ \/ ReadingAt(w, s, e, P, q)' /\ stage' = "fixed" /\ items' = items
            \/ Added(s, e, P, q, Parsed(s, e))
<1>1. stage = "label" /\ label.c = 0 /\ pos' = ResumePosition /\ label' = NoLabel
  BY DEF EndLabel
<1>2. /\ Storage = {Dotted(NameOf(e))} /\ label.name # <<>> /\ SharedOf(e) \in Nat /\ NameOf(e) \in Names
      /\ ResumePosition = NamePlace(e, P, q) + At(NameOf(e), Len(NameOf(e)) - SharedOf(e))
                            + (IF SharedOf(e) = 0 THEN 1 ELSE 2)
      /\ ResumePosition <= size
  BY <1>1, NameDone, Zenon
<1>3. pos' <= size /\ label'.into = "Name"
  BY <1>1, <1>2 DEF NoLabel
<1>4. /\ w \in Seq(Nat) /\ P \in Nat /\ q \in Names /\ EntryOK(e, q)
  BY Zenon DEF EntryAt
<1>5. AddressRead(s, e) /\ label.into \in {"Name", "Address"}
  BY <1>1 DEF ReadingAt, TypeInv, LabelOK
<1>6. CASE label.into = "Name"
  <2>1. item' = [name |-> Dotted(e.labels)] /\ stage' = "fixed" /\ items' = items
    BY <1>2, <1>6 DEF EndLabel, NameOf
  <2>2. ResumePosition = P + At(e.labels, Len(e.labels) - e.shared) + (IF e.shared = 0 THEN 1 ELSE 2)
    BY <1>2, <1>6, Zenon DEF NameOf, SharedOf, NamePlace
  <2>3. /\ e.shared \in 0..Len(e.labels) /\ Len(e.labels) \in Nat /\ e.labels \in LabelSeqs
        /\ NameLength(e, q) = At(e.labels, Len(e.labels) - e.shared) + (IF e.shared = 0 THEN 1 ELSE 2)
    BY <1>4, EntryName, Zenon
  <2>4. pos' = P + NameLength(e, q)
    <3> DEFINE b == At(e.labels, Len(e.labels) - e.shared)
               f == IF e.shared = 0 THEN 1 ELSE 2
    <3>1. Len(e.labels) - e.shared \in 0..Len(e.labels)
      BY <2>3
    <3>2. b \in Nat /\ f \in Nat
      <4>1. b \in Nat
        BY <2>3, <3>1, AtDef, Zenon
      <4> QED BY <4>1
    <3>3. ResumePosition = P + b + f /\ NameLength(e, q) = b + f
      BY <2>2, <2>3, Zenon
    <3> HIDE DEF b, f
    <3> QED BY <1>1, <1>4, <3>2, <3>3
  <2>5. ReadingAt(w, s, e, P, q)'
    <3>1. stage' # "name" /\ stage' # "label" /\ stage' # "data" /\ stage' \notin {"name", "label"}
      BY <2>1
    <3> QED BY <2>1, <2>4, <3>1, Zenon DEF ReadingAt
  <2> QED BY <1>3, <2>1, <2>5
<1>7. CASE label.into = "Address"
  <2>0. label.into # "Name"
    BY <1>7
  <2>1. s # Question /\ e.type \in Named /\ item = RecordSoFar(e, e.data)
    BY <1>5, <1>7, Zenon DEF AddressRead
  <2>2. e \in Records
    BY <2>1 DEF EntryAt
  <2>3. e.host \in Names /\ e.host # NoHost /\ e.data \in Seq(Nat)
    BY <2>1, <2>2, RecordFacts
  <2>4. \E name \in Storage : /\ items' = AddItem([item EXCEPT !.host = name, !.data = DataBefore(item)])
                              /\ stage' = NextStage(header, items')
    BY <2>0, Zenon DEF EndLabel
  <2>5. Storage = {Dotted(e.host)}
    BY <1>2, <2>0, Zenon DEF NameOf
  <2>5a. DataBefore(item) = e.data
    <3>1. item.data = e.data
      BY <2>1 DEF RecordSoFar
    <3> QED BY <1>2, <3>1 DEF DataBefore
  <2>6. /\ items' = AddItem([item EXCEPT !.host = Dotted(e.host), !.data = e.data])
        /\ stage' = NextStage(header, items')
    BY <2>4, <2>5, <2>5a
  <2>7. [item EXCEPT !.host = Dotted(e.host), !.data = e.data] = Parsed(s, e)
    <3> DEFINE x == [item EXCEPT !.host = Dotted(e.host)]
    <3>1. x = Parsed(s, e)
      BY <2>1, <2>3 DEF RecordSoFar, Parsed, ParsedRecord, HostName
    <3>2. Parsed(s, e).data = e.data /\ Parsed(s, e) = ParsedRecord(e)
      BY <2>1 DEF Parsed, ParsedRecord
    <3>3. [ParsedRecord(e) EXCEPT !.data = e.data] = ParsedRecord(e)
      BY DEF ParsedRecord
    <3>4. [item EXCEPT !.host = Dotted(e.host), !.data = e.data] = [x EXCEPT !.data = e.data]
      BY <2>1 DEF RecordSoFar
    <3> QED BY <3>1, <3>2, <3>3, <3>4, Zenon
  <2>8. ResumePosition = HostPlace(e, P, q) + At(e.host, Len(e.host) - 0) + 1
    BY <1>2, <2>0, Zenon DEF NameOf, SharedOf, NamePlace
  <2>9. pos' = P + ItemLength(s, e, q)
    <3> DEFINE a == NameLength(e, q)
               b == Len(e.data)
               c == At(e.host, Len(e.host))
               h == NameOctets(e.host, 0, <<>>)
    <3>1. h \in Seq(Nat) /\ Len(h) = c + 1
      BY <2>3, NameInFull
    <3>2. DataOctets(e) = e.data \o h
      BY <2>1, <2>2, DataFacts
    <3> HIDE DEF h
    <3>3. Len(DataOctets(e)) = b + (c + 1)
      <4>1. \A x, y \in Seq(Nat) : Len(x \o y) = Len(x) + Len(y)
        OBVIOUS
      <4>2. Len(e.data \o h) = Len(e.data) + Len(h)
        BY <2>3, <3>1, <4>1, Zenon
      <4> QED BY <3>1, <3>2, <4>2, Zenon
    <3>4. Len(e.host) - 0 = Len(e.host) /\ e.host \in LabelSeqs /\ Len(e.host) \in 0..Len(e.host)
      <4>1. e.host \in LabelSeqs /\ Len(e.host) \in Nat
        BY <2>3, NameFacts, Zenon
      <4> QED BY <4>1
    <3>5. a \in Nat /\ b \in Nat /\ c \in Nat
      <4>1. c \in Nat
        BY <3>4, AtDef, Zenon
      <4>2. a \in Nat
        BY <1>4, EntryName, Zenon
      <4> QED BY <2>3, <4>1, <4>2
    <3>6. ItemLength(s, e, q) = a + 10 + (b + (c + 1))
      BY <2>1, <3>3 DEF ItemLength
    <3>7. ResumePosition = P + a + 10 + b + c + 1
      BY <2>8, <3>4 DEF HostPlace
    <3> HIDE DEF a, b, c
    <3> QED BY <1>1, <1>4, <3>5, <3>6, <3>7
  <2> QED BY <1>3, <2>6, <2>7, <2>9, Zenon DEF Added
<1> QED BY <1>5, <1>6, <1>7

(* The fixed fields and the data of an entry are read where they stand.    *)
LEMMA NumberRead ==
  ASSUME NEW w \in Seq(Nat), NEW p \in Nat, NEW x \in U16, Holds(w, p, U16Octets(x)), Received(w),
         p + 2 <= size, size \in Nat
  PROVE  READ_U16(p) = x
<1> DEFINE o == U16Octets(x)
<1>1. o \in Seq(Nat) /\ Len(o) = 2 /\ 256 * o[1] + o[2] = x
  BY U16OctetsFacts, Zenon
<1>2. \A j \in 1..Len(o) : w[p + j] = o[j]
  BY Zenon DEF Holds
<1> HIDE DEF o
<1>3. w[p + 1] = o[1] /\ w[p + 2] = o[2]
  <2>1. 1 \in 1..Len(o) /\ 2 \in 1..Len(o)
    BY <1>1
  <2> QED BY <1>2, <2>1, Zenon
<1>4. p < size /\ p + 1 \in Nat /\ p + 1 < size /\ (p + 1) + 1 = p + 2
  OBVIOUS
<1>5. buf[p] = w[p + 1]
  BY <1>4, Zenon DEF Received
<1>6. buf[p + 1] = w[(p + 1) + 1]
  BY <1>4, Zenon DEF Received
<1>7. buf[p] = o[1] /\ buf[p + 1] = o[2]
  BY <1>3, <1>4, <1>5, <1>6
<1>8. READ_U16(p) = 256 * o[1] + o[2]
  BY <1>7, Zenon DEF READ_U16
<1> QED BY <1>1, <1>8, Zenon

LEMMA FixedThere ==
  ASSUME NEW w, NEW s, NEW e, NEW P, NEW q, EntryAt(w, s, e, P, q)
  PROVE  LET p == P + NameLength(e, q)
         IN /\ w \in Seq(Nat) /\ P \in Nat /\ p \in Nat /\ NameLength(e, q) \in Nat
            /\ e.type \in U16 /\ e.class \in U16
            /\ Holds(w, p, U16Octets(e.type)) /\ Holds(w, p + 2, U16Octets(e.class))
<1>1. w \in Seq(Nat) /\ P \in Nat /\ q \in Names /\ EntryOK(e, q)
  BY Zenon DEF EntryAt
<1>2. NameLength(e, q) \in Nat
  BY <1>1, EntryName, Zenon
<1>3. QuestionAt(w, P, e, q)
  BY Zenon DEF EntryAt, ItemAt, RecordAt
<1>4. e.type \in U16 /\ e.class \in U16
  BY <1>1, Zenon DEF EntryOK
<1>5. P + NameLength(e, q) \in Nat
  BY <1>1, <1>2
<1> QED BY <1>1, <1>2, <1>3, <1>4, <1>5, Zenon DEF QuestionAt

LEMMA ReadQuestionReads ==
  ASSUME ReaderInv, NEW w, NEW s, NEW e, NEW P, NEW q, EntryAt(w, s, e, P, q),
         ReadingAt(w, s, e, P, q), Received(w), Section = s, label.into = "Name", ReadQuestion
  PROVE  pos' <= size /\ Added(s, e, P, q, Parsed(s, e))
<1>1. /\ stage = "fixed" /\ s = Question /\ pos + 4 <= size /\ pos' = pos + 4 /\ label' = label
      /\ items' = AddItem([name |-> item.name, type |-> READ_U16(pos), class |-> READ_U16(pos + 2)])
      /\ stage' = NextStage(header, items')
  BY DEF ReadQuestion, VALIDATE, Fixed
<1>2. pos = P + NameLength(e, q) /\ item = [name |-> Dotted(e.labels)]
  BY <1>1 DEF ReadingAt
<1>3. /\ w \in Seq(Nat) /\ P \in Nat /\ pos \in Nat /\ NameLength(e, q) \in Nat
      /\ e.type \in U16 /\ e.class \in U16
      /\ Holds(w, pos, U16Octets(e.type)) /\ Holds(w, pos + 2, U16Octets(e.class))
  BY <1>2, FixedThere, Zenon
<1>4. size \in Nat /\ pos + 2 <= size /\ pos + 2 \in Nat /\ (pos + 2) + 2 <= size
  BY <1>1, <1>3, PacketConstants DEF ReaderInv
<1>5. READ_U16(pos) = e.type
  BY <1>3, <1>4, NumberRead, Zenon
<1>6. READ_U16(pos + 2) = e.class
  BY <1>3, <1>4, NumberRead, Zenon
<1>7. items' = AddItem(Parsed(s, e))
  <2>1. item.name = Dotted(e.labels)
    BY <1>2
  <2>2. Parsed(s, e) = [name |-> Dotted(e.labels), type |-> e.type, class |-> e.class]
    BY <1>1, Zenon DEF Parsed, ParsedQuestion
  <2> QED BY <1>1, <1>5, <1>6, <2>1, <2>2, Zenon
<1>8. pos' = P + ItemLength(s, e, q)
  BY <1>1, <1>2, <1>3 DEF ItemLength
<1>9. pos' <= size
  BY <1>1
<1> QED BY <1>1, <1>7, <1>8, <1>9, Zenon DEF Added

LEMMA ReadRecordReads ==
  ASSUME ReaderInv, NEW w, NEW s, NEW e, NEW P, NEW q, EntryAt(w, s, e, P, q),
         ReadingAt(w, s, e, P, q), Received(w), Section = s, ReadRecord
  PROVE  pos' <= size /\ ReadingAt(w, s, e, P, q)' /\ items' = items /\ label' = label
<1>1. /\ stage = "fixed" /\ s # Question /\ pos + 10 <= size /\ pos' = pos + 10 /\ label' = label
      /\ item' = [name |-> item.name, type |-> READ_U16(pos), class |-> READ_U16(pos + 2),
                  ttl |-> READ_BYTES(pos + 4, 4), len |-> READ_U16(pos + 8),
                  data |-> <<>>, host |-> <<>>]
      /\ stage' = "data" /\ items' = items
  BY DEF ReadRecord, VALIDATE, Fixed
<1>2. pos = P + NameLength(e, q) /\ item = [name |-> Dotted(e.labels)]
  BY <1>1 DEF ReadingAt
<1>3. /\ w \in Seq(Nat) /\ P \in Nat /\ pos \in Nat /\ NameLength(e, q) \in Nat
      /\ e.type \in U16 /\ e.class \in U16
      /\ Holds(w, pos, U16Octets(e.type)) /\ Holds(w, pos + 2, U16Octets(e.class))
  BY <1>2, FixedThere, Zenon
<1>4. /\ size \in Nat /\ pos + 2 <= size /\ pos + 2 \in Nat /\ (pos + 2) + 2 <= size
      /\ pos + 4 \in Nat /\ (pos + 4) + 4 <= size /\ pos + 8 \in Nat /\ (pos + 8) + 2 <= size
  BY <1>1, <1>3, PacketConstants DEF ReaderInv
<1>5. READ_U16(pos) = e.type
  BY <1>3, <1>4, NumberRead, Zenon
<1>6. READ_U16(pos + 2) = e.class
  BY <1>3, <1>4, NumberRead, Zenon
<1>7. e \in Records /\ RecordAt(w, P, e, q)
  BY <1>1, Zenon DEF EntryAt, ItemAt
<1>8. Holds(w, pos + 4, e.ttl) /\ Holds(w, pos + 8, U16Octets(Len(DataOctets(e))))
  BY <1>2, <1>7, Zenon DEF RecordAt
<1>9. e.ttl \in Seq(Nat) /\ Len(e.ttl) = 4
  BY <1>7, RecordFacts
<1>10. READ_BYTES(pos + 4, 4) = e.ttl
  BY <1>3, <1>4, <1>8, <1>9, BytesRead, Zenon
<1>11. READ_U16(pos + 8) = Len(DataOctets(e))
  <2>1. Len(DataOctets(e)) \in U16
    BY <1>7, DataLength, Zenon
  <2> QED BY <1>3, <1>4, <1>8, <2>1, NumberRead, Zenon
<1>12. item' = RecordSoFar(e, <<>>)
  <2>1. item.name = Dotted(e.labels)
    BY <1>2
  <2> QED BY <1>1, <1>5, <1>6, <1>10, <1>11, <2>1, Zenon DEF RecordSoFar
<1>13. ReadingAt(w, s, e, P, q)'
  <2>1. stage' # "name" /\ stage' # "label" /\ stage' # "fixed" /\ stage' \notin {"name", "label"}
    BY <1>1
  <2>2. pos' = P + NameLength(e, q) + 10
    BY <1>1, <1>2
  <2> QED BY <1>1, <1>12, <2>1, <2>2, Zenon DEF ReadingAt
<1>14. pos' <= size
  BY <1>1
<1> QED BY <1>1, <1>13, <1>14

(* How many octets of data are read and checked of a record of a type the  *)
(* code knows.                                                             *)
LEMMA DataReadIs ==
  ASSUME NEW e \in Records, NEW x, x.type = e.type
  PROVE  /\ DataRead(x) = Len(e.data) /\ Len(e.data) \in Nat
         /\ e.type \in Named => DataChecked(x) = Len(e.data)
         /\ e.type \notin Named => /\ e.type \in {QT_A, QT_AAAA} /\ DataChecked(x) = Len(e.data) - 2
<1>1. /\ e.type \in Named \cup {QT_A, QT_AAAA}
      /\ e.type = QT_A => Len(e.data) = 4
      /\ e.type = QT_AAAA => Len(e.data) = 16
      /\ e.type = QT_MX => Len(e.data) = 2
      /\ e.type \in {QT_NS, QT_CNAME} => Len(e.data) = 0
  BY RecordFacts
<1> DEFINE n == Len(e.data)
           t == e.type
<1>2. x.type = t
  OBVIOUS
<1>3. /\ t \in {QT_NS, QT_CNAME, QT_MX, QT_A, QT_AAAA}
      /\ t = QT_A => n = 4
      /\ t = QT_AAAA => n = 16
      /\ t = QT_MX => n = 2
      /\ t \in {QT_NS, QT_CNAME} => n = 0
  BY <1>1 DEF Named
<1> HIDE DEF n, t
<1>4. DataRead(x) = n /\ n \in Nat
  BY <1>2, <1>3 DEF DataRead, QT_A, QT_AAAA, QT_MX, QT_NS, QT_CNAME, QT_OPT
<1>5. DataChecked(x) = IF t \in {QT_A, QT_AAAA} THEN n - 2 ELSE n
  BY <1>2, <1>4, Zenon DEF DataChecked
<1>6. t \in Named <=> t \notin {QT_A, QT_AAAA}
  BY <1>3 DEF Named, QT_A, QT_AAAA, QT_MX, QT_NS, QT_CNAME
<1> QED BY <1>4, <1>5, <1>6 DEF n, t

LEMMA ReadDataReads ==
  ASSUME ReaderInv, NEW w, NEW s, NEW e, NEW P, NEW q, EntryAt(w, s, e, P, q),
         ReadingAt(w, s, e, P, q), Received(w), label.into = "Name", LabelFields, ReadData
  PROVE  \/ /\ ReadingAt(w, s, e, P, q)' /\ pos' <= size /\ items' = items /\ stage' = "name"
            /\ label'.into = "Address"
         \/ \E x : /\ Added(s, e, P, q, x)
                   /\ pos' <= size => x = Parsed(s, e)
                   /\ pos' > size => e.type \in {QT_A, QT_AAAA}
<1>1. stage = "data" /\ pos + DataChecked(item) <= size /\ pos' = pos + DataRead(item)
  BY DEF ReadData, VALIDATE
<1>2. pos = P + NameLength(e, q) + 10 /\ s # Question /\ item = RecordSoFar(e, <<>>)
  BY <1>1 DEF ReadingAt
<1>3. e \in Records /\ RecordAt(w, P, e, q)
  BY <1>2, Zenon DEF EntryAt, ItemAt
<1>4. item.type = e.type
  BY <1>2 DEF RecordSoFar
<1> DEFINE n == Len(e.data)
           a == NameLength(e, q)
<1>5. /\ DataRead(item) = n /\ n \in Nat
      /\ e.type \in Named => DataChecked(item) = n
      /\ e.type \notin Named => e.type \in {QT_A, QT_AAAA}
  BY <1>3, <1>4, DataReadIs, Zenon
<1>6. w \in Seq(Nat) /\ P \in Nat /\ a \in Nat
  BY FixedThere, Zenon
<1>7. pos = P + a + 10 /\ pos \in Nat /\ size \in Nat /\ pos' = pos + n
  <2>1. pos = P + a + 10 /\ pos' = pos + n
    BY <1>1, <1>2, <1>5
  <2> HIDE DEF a, n
  <2> QED BY <1>6, <2>1, PacketConstants DEF ReaderInv
<1>8. e.data \in Seq(Nat)
  BY <1>3, RecordFacts
<1>9. Holds(w, pos, e.data)
  BY <1>2, <1>3, Zenon DEF RecordAt
<1>10. pos' <= size => READ_BYTES(pos, n) = e.data
  BY <1>6, <1>7, <1>8, <1>9, BytesRead, Zenon
<1> DEFINE x == [item EXCEPT !.data = READ_BYTES(pos, DataRead(item))]
<1>11. x.type = e.type
  BY <1>2 DEF RecordSoFar
<1>12. x = RecordSoFar(e, READ_BYTES(pos, n))
  BY <1>2, <1>5 DEF RecordSoFar
<1>13. CASE e.type \in Named
  <2>1. item' = x /\ label' = [label EXCEPT !.into = "Address"] /\ stage' = "name" /\ items' = items
    BY <1>11, <1>13, Zenon DEF ReadData
  <2>2. label'.into = "Address"
    BY <2>1 DEF LabelFields
  <2>3. pos' <= size
    BY <1>1, <1>5, <1>13
  <2>4. item' = RecordSoFar(e, e.data)
    BY <1>10, <1>12, <2>1, <2>3, Zenon
  <2>5. pos' = HostPlace(e, P, q)
    BY <1>7 DEF HostPlace
  <2>6. ReadingAt(w, s, e, P, q)'
    <3>1. stage' # "label" /\ stage' # "fixed" /\ stage' # "data" /\ label'.into # "Name"
      BY <2>1, <2>2
    <3>2. pos' = NamePlace(e, P, q)'
      BY <2>5, <3>1, Zenon DEF NamePlace
    <3>3. AddressRead(s, e)'
      BY <1>2, <1>13, <2>4, Zenon DEF AddressRead
    <3> QED BY <3>1, <3>2, <3>3, Zenon DEF ReadingAt
  <2> QED BY <2>1, <2>2, <2>3, <2>6
<1>14. CASE e.type \notin Named
  <2>1. items' = AddItem(x) /\ label' = label /\ stage' = NextStage(header, items')
    BY <1>11, <1>14, Zenon DEF ReadData
  <2>2. DataOctets(e) = e.data
    BY <1>3, <1>14, DataFacts, Zenon
  <2>3. pos' = P + ItemLength(s, e, q)
    <3>1. ItemLength(s, e, q) = a + 10 + n
      BY <1>2, <2>2, Zenon DEF ItemLength
    <3> HIDE DEF a, n
    <3> QED BY <1>5, <1>6, <1>7, <3>1
  <2>4. pos' <= size => x = Parsed(s, e)
    <3>1. e.host = NoHost
      BY <1>3, <1>14, RecordFacts, Zenon
    <3>2. Parsed(s, e) = RecordSoFar(e, e.data)
      BY <1>2, <3>1, Zenon DEF Parsed, ParsedRecord, RecordSoFar, HostName
    <3> QED BY <1>10, <1>12, <3>2, Zenon
  <2>5. Added(s, e, P, q, x)
    BY <2>1, <2>3, Zenon DEF Added
  <2> HIDE DEF x
  <2> QED BY <1>5, <1>14, <2>4, <2>5, Zenon
<1> QED BY <1>13, <1>14, Zenon

-----------------------------------------------------------------------------
(* What the packet code has of a message that was sent.  The datagram holds*)
(* the message's octets, but for the last `lacks'.                         *)
Known == sent.message # NoMessage

SentOK ==
  LET w == Encode(sent.message)
  IN /\ sent.message \in Messages
     /\ sent.lacks \in 0..Len(w) /\ size = Len(w) - sent.lacks
     /\ Received(w)

HeaderRead ==
  /\ header.id = sent.message.id /\ header.hb3 = sent.message.hb3 /\ header.hb4 = sent.message.hb4
  /\ \A s \in Sections : header.count[s] = Len(sent.message.sections[s])

ItemsRead ==
  \A s \in Sections : \A i \in 1..Len(items[s]) : items[s][i] = Parsed(s, Entry(sent.message, s, i))

(* The last item read is an address whose end is missing.                  *)
TailLost ==
  \E s \in Sections : /\ Len(items[s]) > 0 /\ \A t \in Sections : t > s => Len(items[t]) = 0
                      /\ Entry(sent.message, s, Len(items[s])).type \in {QT_A, QT_AAAA}

(* The numbers of items read, the entry that is next and its place.        *)
Lens == [s \in Sections |-> Len(items[s])]

ReadUpTo(m, n, s) ==
  /\ AtSection(m, n, s)
  /\ ReadingAt(Encode(m), s, Entry(m, s, n[s] + 1), Place(m, n), FirstName(m))

ReadSoFar ==
  /\ HeaderRead
  /\ stage \in Reading => \E s \in Sections : ReadUpTo(sent.message, Lens, s)
  /\ stage = "process" => /\ pos = Place(sent.message, Lens)
                          /\ \A s \in Sections : Lens[s] = Len(sent.message.sections[s])
  /\ pos <= size => ItemsRead
  /\ pos > size => TailLost
  /\ stage \in {"label", "fixed", "data"} \/ label.into = "Address" => pos <= size

ParseInv ==
  /\ stage \in {"idle", "header", "fixed", "data", "process"} => label.into = "Name"
  /\ Known => SentOK
  /\ Known /\ stage \in Reading \cup {"process"} => ReadSoFar

-----------------------------------------------------------------------------
(* The loops of Read go through the sections in their order.               *)
LEMMA LeastSection ==
  ASSUME NEW O, O \subseteq {1, 2, 3, 4}, O # {}
  PROVE  \E u \in O : \A t \in O : u <= t
<1>1. CASE 1 \in O
  <2>1. \A t \in O : 1 <= t
    OBVIOUS
  <2> QED BY <1>1, <2>1
<1>2. CASE 1 \notin O /\ 2 \in O
  <2>1. \A t \in O : 2 <= t
    BY <1>2
  <2> QED BY <1>2, <2>1
<1>3. CASE 1 \notin O /\ 2 \notin O /\ 3 \in O
  <2>1. \A t \in O : 3 <= t
    BY <1>3
  <2> QED BY <1>3, <2>1
<1>4. CASE 1 \notin O /\ 2 \notin O /\ 3 \notin O
  <2>1. \A t \in O : t = 4
    BY <1>4
  <2>2. PICK u : u \in O
    BY Zenon
  <2>3. \A t \in O : u <= t
    BY <2>1, <2>2
  <2> QED BY <2>2, <2>3
<1> QED BY <1>1, <1>2, <1>3, <1>4

Through(m, h, is, n, s) ==
  /\ m \in Messages /\ s \in Sections
  /\ \A t \in Sections : /\ h.count[t] = Len(m.sections[t])
                         /\ n[t] = Len(is[t]) /\ n[t] \in 0..Len(m.sections[t])
                         /\ t < s => n[t] = Len(m.sections[t])
                         /\ t > s => n[t] = 0

(* Where the loops go on after an item.                                    *)
LEMMA NextSection ==
  ASSUME NEW m, NEW h, NEW is, NEW n, NEW s, Through(m, h, is, n, s)
  PROVE  \/ NextStage(h, is) = "name" /\ \E t \in Sections : AtSection(m, n, t)
         \/ NextStage(h, is) = "process" /\ \A t \in Sections : n[t] = Len(m.sections[t])
<1> DEFINE c(t) == Len(m.sections[t])
           O == Open(h, is)
<1>0. /\ m \in Messages /\ s \in Sections
      /\ \A t \in Sections : /\ h.count[t] = c(t) /\ n[t] = Len(is[t]) /\ n[t] \in 0..c(t)
                             /\ (t < s => n[t] = c(t)) /\ (t > s => n[t] = 0)
  BY Zenon DEF Through
<1>1. O = {t \in Sections : n[t] < c(t)}
  BY <1>0, Zenon DEF Open
<1>2. \A t \in Sections : c(t) \in Nat
  BY <1>0, MessageFacts, Zenon
<1>3. \A t \in Sections : n[t] \in 0..c(t) /\ (t < s => n[t] = c(t)) /\ (t > s => n[t] = 0)
  BY <1>0, Zenon
<1> HIDE DEF c, O
<1>4. CASE O = {}
  <2>1. \A t \in Sections : n[t] = c(t)
    <3> SUFFICES ASSUME NEW t \in Sections PROVE n[t] = c(t)
      OBVIOUS
    <3>1. ~(n[t] < c(t))
      BY <1>1, <1>4
    <3>2. c(t) \in Nat /\ n[t] \in 0..c(t)
      BY <1>2, <1>3
    <3> QED BY <3>1, <3>2
  <2>2. NextStage(h, is) = "process"
    BY <1>4, Zenon DEF NextStage, O
  <2> QED BY <2>1, <2>2 DEF c
<1>5. CASE O # {}
  <2>0. O \subseteq {1, 2, 3, 4}
    BY <1>1 DEF Sections
  <2>1. PICK u \in O : \A t \in O : u <= t
    BY <1>5, <2>0, LeastSection, Zenon
  <2>2. u \in Sections /\ n[u] < c(u)
    BY <1>1, <2>1
  <2>3. ASSUME NEW t \in Sections PROVE (t < u => n[t] = c(t)) /\ (t > u => n[t] = 0)
    <3>0. t \in Nat /\ u \in Nat /\ s \in Nat
      BY <1>0, <2>2 DEF Sections
    <3>1. CASE t < u
      <4>1. t \notin O
        BY <2>1, <3>0, <3>1
      <4>2. ~(n[t] < c(t))
        BY <1>1, <4>1
      <4>3. n[t] = c(t)
        BY <1>2, <1>3, <4>2
      <4> QED BY <3>0, <3>1, <4>3
    <3>2. CASE t > u
      <4>1. ~(u < s)
        <5>1. u < s => n[u] = c(u)
          BY <1>3, <2>2
        <5>2. c(u) \in Nat
          BY <1>2, <2>2
        <5> QED BY <2>2, <5>1, <5>2
      <4>2. t > s
        BY <3>0, <3>2, <4>1
      <4> QED BY <1>3, <3>0, <3>2, <4>2
    <3> QED BY <3>1, <3>2
  <2>4. AtSection(m, n, u)
    BY <1>3, <2>2, <2>3, Zenon DEF AtSection, c
  <2>5. NextStage(h, is) = "name"
    BY <1>5, Zenon DEF NextStage, O
  <2> QED BY <2>2, <2>4, <2>5
<1> QED BY <1>4, <1>5

(* The section of the next item, as the loops have it.                     *)
LEMMA SectionIs ==
  ASSUME NEW m \in Messages, \A t \in Sections : header.count[t] = Len(m.sections[t]),
         NEW s, AtSection(m, Lens, s)
  PROVE  Section = s /\ s \in Sections
<1> DEFINE c(t) == Len(m.sections[t])
           O == Open(header, items)
<1>1. O = {t \in Sections : Lens[t] < c(t)}
  BY DEF Open, Lens
<1>2. /\ s \in Sections /\ Lens[s] < c(s)
      /\ \A t \in Sections : t < s => Lens[t] = c(t)
  BY Zenon DEF AtSection
<1>3. \A t \in Sections : c(t) \in Nat
  BY MessageFacts, Zenon
<1> HIDE DEF c, O
<1>4. s \in O
  BY <1>1, <1>2
<1>5. \A t \in O : s <= t
  <2> SUFFICES ASSUME NEW t \in O PROVE s <= t
    OBVIOUS
  <2>1. t \in Sections /\ Lens[t] < c(t) /\ c(t) \in Nat
    BY <1>1, <1>3
  <2>2. ~(t < s)
    BY <1>2, <2>1
  <2> QED BY <1>2, <2>1, <2>2 DEF Sections
<1>6. Section = CHOOSE u \in O : \A t \in O : u <= t
  BY Zenon DEF Section, O
<1>7. \E u \in O : \A t \in O : u <= t
  BY <1>4, <1>5, Zenon
<1>8. Section \in O /\ \A t \in O : Section <= t
  BY <1>6, <1>7, Zenon
<1>9. Section \in Nat /\ s \in Nat /\ Section <= s /\ s <= Section
  BY <1>1, <1>4, <1>5, <1>8 DEF Sections
<1> QED BY <1>2, <1>9

(* The new item stands behind the others of its section.                   *)
LEMMA AppendItems ==
  ASSUME NEW q, NEW x, IsSeq(q)
  PROVE  /\ Len(q) \in Nat /\ Len(Append(q, x)) = Len(q) + 1 /\ Append(q, x)[Len(q) + 1] = x
         /\ \A i \in 1..Len(q) : Append(q, x)[i] = q[i]
<1>1. PICK S : q \in Seq(S)
  BY DEF IsSeq
<1>2. q \in Seq(S \cup {x}) /\ x \in S \cup {x}
  BY <1>1
<1>3. Len(q) \in Nat
  BY <1>2
<1> QED BY <1>2, <1>3

Longer(is, s, x) ==
  /\ \A t \in Sections : Len(items[t]) \in Nat
  /\ \A t \in Sections : t # s => is[t] = items[t]
  /\ Len(is[s]) = Len(items[s]) + 1 /\ is[s][Len(items[s]) + 1] = x
  /\ \A i \in 1..Len(items[s]) : is[s][i] = items[s][i]

LEMMA AddItemIs ==
  ASSUME TypeInv, NEW s \in Sections, Section = s, NEW x
  PROVE  Longer(AddItem(x), s, x)
<1>1. items = [t \in Sections |-> items[t]] /\ \A t \in Sections : IsSeq(items[t])
  BY Zenon DEF TypeInv, ItemsInv
<1> DEFINE longer == Append(items[s], x)
<1>2. AddItem(x) = [items EXCEPT ![s] = longer]
  BY Zenon DEF AddItem
<1>3. /\ Len(items[s]) \in Nat /\ Len(longer) = Len(items[s]) + 1 /\ longer[Len(items[s]) + 1] = x
      /\ \A i \in 1..Len(items[s]) : longer[i] = items[s][i]
  BY <1>1, AppendItems
<1>4. \A t \in Sections : Len(items[t]) \in Nat
  BY <1>1, AppendItems, Zenon
<1> HIDE DEF longer
<1>5. AddItem(x)[s] = longer /\ \A t \in Sections : t # s => AddItem(x)[t] = items[t]
  BY <1>1, <1>2, Zenon
<1> QED BY <1>3, <1>4, <1>5, Zenon DEF Longer

(* An entry has been read, and the next one is looked for behind it.       *)
LEMMA AddItemReads ==
  ASSUME TypeInv, SentOK, HeaderRead, ItemsRead, NEW m, m = sent.message, NEW n, n = Lens,
         NEW s, AtSection(m, n, s), NEW x,
         Added(s, Entry(m, s, n[s] + 1), Place(m, n), FirstName(m), x),
         header' = header, sent' = sent, size' = size, TypeInv',
         pos' <= size \/ pos' > size,
         pos' <= size => x = Parsed(s, Entry(m, s, n[s] + 1)),
         pos' > size => Entry(m, s, n[s] + 1).type \in {QT_A, QT_AAAA}
  PROVE  ReadSoFar'
<1> DEFINE e == Entry(m, s, n[s] + 1)
<1>0. PICK o : o = [t \in Sections |-> Len(items'[t])]
  OBVIOUS
<1>1. m \in Messages /\ \A t \in Sections : header.count[t] = Len(m.sections[t])
  BY Zenon DEF SentOK, HeaderRead
<1>2. Section = s /\ s \in Sections
  BY <1>1, SectionIs, Zenon
<1>3. /\ items' = AddItem(x) /\ stage' = NextStage(header, items') /\ label'.into = "Name"
      /\ pos' = Place(m, n) + ItemLength(s, e, FirstName(m))
  BY Zenon DEF Added
<1>4. /\ \A t \in Sections : Len(items[t]) \in Nat
      /\ \A t \in Sections : t # s => items'[t] = items[t]
      /\ Len(items'[s]) = Len(items[s]) + 1 /\ items'[s][Len(items[s]) + 1] = x
      /\ \A i \in 1..Len(items[s]) : items'[s][i] = items[s][i]
  <2>1. Longer(AddItem(x), s, x)
    BY <1>2, AddItemIs, Zenon
  <2>2. Longer(items', s, x)
    BY <1>3, <2>1
  <2> QED BY <2>2, Zenon DEF Longer
<1>5. \A t \in Sections : n[t] = Len(items[t])
  BY DEF Lens
<1>6. \A t \in Sections : o[t] = IF t = s THEN n[t] + 1 ELSE n[t]
  BY <1>0, <1>2, <1>4, <1>5
<1>7. Lens' = o
  BY <1>0, Zenon DEF Lens
<1> DEFINE c(t) == Len(m.sections[t])
<1>8. /\ \A t \in Sections : (t < s => n[t] = c(t)) /\ (t > s => n[t] = 0)
      /\ \A t \in Sections : n[t] \in 0..c(t)
      /\ n[s] < c(s)
  BY Zenon DEF AtSection
<1>9. \A t \in Sections : c(t) \in Nat
  BY <1>1, MessageFacts, Zenon
<1> HIDE DEF c
<1>10. \A t \in Sections : o[t] \in 0..c(t)
  <2> SUFFICES ASSUME NEW t \in Sections PROVE o[t] \in 0..c(t)
    OBVIOUS
  <2>1. CASE t = s
    BY <1>2, <1>6, <1>8, <1>9, <2>1
  <2>2. CASE t # s
    BY <1>6, <1>8, <2>2
  <2> QED BY <2>1, <2>2
<1>11. \A t \in Sections : (t < s => o[t] = c(t)) /\ (t > s => o[t] = 0)
  <2>1. \A t \in Sections : (t < s => t # s) /\ (t > s => t # s)
    BY <1>2 DEF Sections
  <2> QED BY <1>6, <1>8, <2>1, Zenon
<1>12. \/ NextStage(header, items') = "name" /\ \E t \in Sections : AtSection(m, o, t)
       \/ NextStage(header, items') = "process" /\ \A t \in Sections : o[t] = c(t)
  <2>1. \A t \in Sections : o[t] = Len(items'[t])
    BY <1>0
  <2>2. \A t \in Sections : o[t] = Len(items'[t]) /\ o[t] \in 0..Len(m.sections[t])
    BY <1>10, <2>1 DEF c
  <2>3. \A t \in Sections : (t < s => o[t] = Len(m.sections[t])) /\ (t > s => o[t] = 0)
    BY <1>11 DEF c
  <2>4. \/ NextStage(header, items') = "name" /\ \E t \in Sections : AtSection(m, o, t)
        \/ NextStage(header, items') = "process" /\ \A t \in Sections : o[t] = Len(m.sections[t])
    <3>1. Through(m, header, items', o, s)
      BY <1>1, <1>2, <2>2, <2>3, Zenon DEF Through
    <3> QED BY <3>1, NextSection
  <2> QED BY <2>4 DEF c
<1>13. Place(m, o) = pos'
  <2>1. Place(m, o) = Place(m, n) + ItemLength(s, Entry(m, s, n[s] + 1), FirstName(m))
    BY <1>1, <1>6, PlaceNext
  <2> QED BY <1>3, <2>1
<1>14. HeaderRead'
  BY Zenon DEF HeaderRead
<1>15. pos' <= size => ItemsRead'
  <2> SUFFICES ASSUME pos' <= size, NEW t \in Sections, NEW i \in 1..Len(items'[t])
               PROVE  items'[t][i] = Parsed(t, Entry(m, t, i))
    BY Zenon DEF ItemsRead
  <2>1. CASE t # s
    BY <1>4, <2>1, Zenon DEF ItemsRead
  <2>2. CASE t = s /\ i \in 1..Len(items[s])
    BY <1>2, <1>4, <2>2, Zenon DEF ItemsRead
  <2>3. CASE t = s /\ i = Len(items[s]) + 1
    BY <1>2, <1>4, <1>5, <2>3, Zenon
  <2>4. t = s => i \in 1..Len(items[s]) \/ i = Len(items[s]) + 1
    <3>1. \A k \in Nat : \A j \in 1..(k + 1) : j \in 1..k \/ j = k + 1
      OBVIOUS
    <3> QED BY <1>4, <3>1, Zenon
  <2> QED BY <2>1, <2>2, <2>3, <2>4, Zenon
<1>16. pos' > size => TailLost'
  <2> SUFFICES ASSUME pos' > size PROVE TailLost'
    OBVIOUS
  <2>1. Len(items'[s]) > 0
    BY <1>2, <1>4
  <2>2. \A t \in Sections : t > s => Len(items'[t]) = 0
    BY <1>0, <1>11
  <2>3. Entry(m, s, Len(items'[s])).type \in {QT_A, QT_AAAA}
    BY <1>2, <1>4, <1>5, Zenon
  <2> QED BY <1>2, <2>1, <2>2, <2>3, Zenon DEF TailLost
<1>17. stage' = "name" => \E t \in Sections : ReadUpTo(m, o, t)'
  <2> SUFFICES ASSUME stage' = "name" PROVE \E t \in Sections : ReadUpTo(m, o, t)'
    OBVIOUS
  <2>0. "name" # "process" /\ "name" # "label" /\ "name" # "fixed" /\ "name" # "data" /\ "Name" # "Address"
    OBVIOUS
  <2>1. PICK t \in Sections : AtSection(m, o, t)
    BY <1>3, <1>12, <2>0, Zenon
  <2>2. \A w, d, q : ReadingAt(w, t, d, Place(m, o), q)'
    <3>1. \A d : AddressRead(t, d)'
      BY <1>3, <2>0, Zenon DEF AddressRead
    <3>2. \A d, q : NamePlace(d, Place(m, o), q)' = Place(m, o)
      BY <1>3, Zenon DEF NamePlace
    <3> QED BY <1>13, <2>0, <3>1, <3>2, Zenon DEF ReadingAt
  <2> QED BY <2>1, <2>2, Zenon DEF ReadUpTo
<1>18. stage' \in {"name", "process"}
  BY <1>3, NextStageReads, Zenon
<1>19. /\ stage' \in Reading => stage' = "name"
       /\ ~(stage' \in {"label", "fixed", "data"}) /\ label'.into # "Address"
  BY <1>3, <1>18 DEF Reading
<1>20. stage' = "process" => \A t \in Sections : o[t] = c(t)
  BY <1>3, <1>12
<1> QED BY <1>7, <1>13, <1>14, <1>15, <1>16, <1>17, <1>19, <1>20, Zenon DEF ReadSoFar, c

LEMMA CurrentEntry ==
  ASSUME ParseInv, Known, stage \in Reading
  PROVE  /\ SentOK /\ HeaderRead /\ ReadSoFar /\ sent.message \in Messages /\ Received(Encode(sent.message))
         /\ stage \in {"label", "fixed", "data"} => pos <= size /\ ItemsRead
         /\ stage \in {"fixed", "data"} => label.into = "Name"
         /\ \E s \in Sections :
              /\ AtSection(sent.message, Lens, s) /\ Section = s
              /\ ReadingAt(Encode(sent.message), s, Entry(sent.message, s, Lens[s] + 1),
                           Place(sent.message, Lens), FirstName(sent.message))
              /\ EntryAt(Encode(sent.message), s, Entry(sent.message, s, Lens[s] + 1),
                         Place(sent.message, Lens), FirstName(sent.message))
<1>1. SentOK /\ ReadSoFar
  BY Zenon DEF ParseInv
<1>2. HeaderRead /\ \E s \in Sections : ReadUpTo(sent.message, Lens, s)
  BY <1>1, Zenon DEF ReadSoFar
<1>3. sent.message \in Messages /\ Received(Encode(sent.message))
  BY <1>1, Zenon DEF SentOK
<1>4. stage \in {"label", "fixed", "data"} => pos <= size /\ ItemsRead
  BY <1>1, Zenon DEF ReadSoFar
<1>5. stage \in {"fixed", "data"} => label.into = "Name"
  BY Zenon DEF ParseInv
<1>6. PICK s \in Sections : ReadUpTo(sent.message, Lens, s)
  BY <1>2
<1>7. /\ AtSection(sent.message, Lens, s)
      /\ ReadingAt(Encode(sent.message), s, Entry(sent.message, s, Lens[s] + 1),
                   Place(sent.message, Lens), FirstName(sent.message))
  BY <1>6, Zenon DEF ReadUpTo
<1>8. Section = s
  BY <1>2, <1>3, <1>7, SectionIs, Zenon DEF HeaderRead
<1>9. EntryAt(Encode(sent.message), s, Entry(sent.message, s, Lens[s] + 1),
              Place(sent.message, Lens), FirstName(sent.message))
  BY <1>3, <1>7, EntryThere, Zenon
<1> QED BY <1>1, <1>2, <1>3, <1>4, <1>5, <1>7, <1>8, <1>9, Zenon

LEMMA SentStays ==
  ASSUME ParseInv, sent' = sent, size' = size, buf' = buf
  PROVE  Known' => Known /\ SentOK /\ SentOK'
<1> SUFFICES ASSUME Known' PROVE Known /\ SentOK /\ SentOK'
  OBVIOUS
<1>1. Known /\ SentOK
  BY Zenon DEF Known, ParseInv
<1>2. \A w : Received(w) => Received(w)'
  BY Zenon DEF Received
<1> QED BY <1>1, <1>2, Zenon DEF SentOK

(* The entry is still being read.                                          *)
LEMMA SameEntryReads ==
  ASSUME HeaderRead, ItemsRead, NEW m, m = sent.message, NEW n, n = Lens, NEW s, AtSection(m, n, s),
         ReadingAt(Encode(m), s, Entry(m, s, n[s] + 1), Place(m, n), FirstName(m))',
         header' = header, items' = items, sent' = sent, size' = size,
         stage' \in Reading, pos' <= size, ~(pos' > size)
  PROVE  ReadSoFar'
<1>1. s \in Sections
  BY DEF AtSection
<1>2. Lens' = n
  BY Zenon DEF Lens
<1>3. ReadUpTo(m, n, s)'
  BY Zenon DEF ReadUpTo
<1>4. \E t \in Sections : ReadUpTo(m, n, t)'
  BY <1>1, <1>3
<1>5. HeaderRead' /\ ItemsRead'
  BY Zenon DEF HeaderRead, ItemsRead
<1>6. stage' # "process"
  BY DEF Reading
<1> QED BY <1>2, <1>4, <1>5, <1>6, Zenon DEF ReadSoFar

(* A step of the reader that goes on with the entry or adds it.            *)
LEMMA EntryStep ==
  ASSUME ParseInv, Known, stage \in Reading, TypeInv, TypeInv', pos' \in Nat, size \in Nat, ItemsRead,
         header' = header, sent' = sent, size' = size,
         NEW m, m = sent.message, NEW n, n = Lens, NEW s, AtSection(m, n, s),
         NEW e, e = Entry(m, s, n[s] + 1), NEW P, P = Place(m, n), NEW q, q = FirstName(m),
         \/ ReadingAt(Encode(m), s, e, P, q)' /\ items' = items /\ stage' \in Reading /\ pos' <= size
         \/ \E x : /\ Added(s, e, P, q, x)
                   /\ pos' <= size => x = Parsed(s, e)
                   /\ pos' > size => e.type \in {QT_A, QT_AAAA}
  PROVE  ReadSoFar'
<1>1. SentOK /\ HeaderRead
  BY CurrentEntry, Zenon
<1>2. (pos' <= size \/ pos' > size) /\ (pos' <= size => ~(pos' > size))
  OBVIOUS
<1>3. CASE ReadingAt(Encode(m), s, e, P, q)' /\ items' = items /\ stage' \in Reading /\ pos' <= size
  BY <1>1, <1>2, <1>3, SameEntryReads, Zenon
<1>4. ASSUME NEW x, Added(s, e, P, q, x), pos' <= size => x = Parsed(s, e),
             pos' > size => e.type \in {QT_A, QT_AAAA}
      PROVE  ReadSoFar'
  BY <1>1, <1>2, <1>4, AddItemReads, Zenon
<1> QED BY <1>3, <1>4, Zenon

ReadStep ==
  ReadLabel \/ ReadPointer \/ ReadText \/ EndLabel \/ ReadQuestion \/ ReadRecord \/ ReadData

LEMMA ReadStepFrame ==
  ASSUME ReaderInv, TypeInv, ReadStep
  PROVE  /\ header' = header /\ sent' = sent /\ size' = size /\ buf' = buf /\ stage \in Reading
         /\ size \in Nat /\ pos \in Nat
         /\ ReadLabel => pos <= size
         /\ ReadLabel \/ stage \in {"label", "fixed", "data"}
         /\ ReadLabel \/ ReadPointer \/ ReadText => stage' = "label" /\ items' = items
<1>1. size \in Nat /\ pos \in Nat
  BY PacketConstants DEF ReaderInv
<1>2. CASE ReadLabel
  BY <1>1, <1>2 DEF ReadLabel, VALIDATE, Reading
<1>3. CASE ReadPointer
  BY <1>1, <1>3 DEF ReadPointer, ReadLabel, InLoop, Reading
<1>4. CASE ReadText
  BY <1>1, <1>4 DEF ReadText, TextThere, ReadLabel, InLoop, Reading
<1>5. CASE EndLabel
  BY <1>1, <1>5 DEF EndLabel, ReadLabel, ReadPointer, ReadText, TextThere, InLoop, Reading
<1>6. CASE ReadQuestion
  BY <1>1, <1>6 DEF ReadQuestion, ReadLabel, ReadPointer, ReadText, TextThere, InLoop, Reading
<1>7. CASE ReadRecord
  BY <1>1, <1>7 DEF ReadRecord, ReadLabel, ReadPointer, ReadText, TextThere, InLoop, Reading
<1>8. CASE ReadData
  BY <1>1, <1>8 DEF ReadData, ReadLabel, ReadPointer, ReadText, TextThere, InLoop, Reading
<1> QED BY <1>2, <1>3, <1>4, <1>5, <1>6, <1>7, <1>8 DEF ReadStep

LEMMA ReadStepInto ==
  ASSUME ReaderInv, TypeInv, ReadStep, ParseInv
  PROVE  stage' \in {"idle", "header", "fixed", "data", "process"} => label'.into = "Name"
<1>1. ReadLabel \/ ReadPointer \/ ReadText => stage' \notin {"idle", "header", "fixed", "data", "process"}
  <2>1. ReadLabel \/ ReadPointer \/ ReadText => stage' = "label"
    BY ReadStepFrame, Zenon
  <2> QED BY <2>1
<1>2. EndLabel => label'.into = "Name"
  BY DEF EndLabel, NoLabel
<1>3. ReadQuestion \/ ReadRecord => label'.into = "Name"
  BY DEF ReadQuestion, ReadRecord, ParseInv
<1>4. ReadData => stage' = "name" \/ label'.into = "Name"
  <2>1. ReadData => stage = "data" /\ (stage' = "name" \/ label' = label)
    BY Zenon DEF ReadData
  <2> QED BY <2>1 DEF ParseInv
<1>5. "name" \notin {"idle", "header", "fixed", "data", "process"}
  OBVIOUS
<1> QED BY <1>1, <1>2, <1>3, <1>4, <1>5, Zenon DEF ReadStep

(* Every step of Read keeps the reader where the message says.             *)
LEMMA ReadStepReads ==
  ASSUME ReaderInv, TypeInv, ReaderInv', TypeInv', ParseInv, Known, ReadStep
  PROVE  ReadSoFar'
<1>1. /\ header' = header /\ sent' = sent /\ size' = size /\ stage \in Reading
      /\ size \in Nat /\ pos \in Nat
      /\ ReadLabel => pos <= size
      /\ ReadLabel \/ stage \in {"label", "fixed", "data"}
      /\ ReadLabel \/ ReadPointer \/ ReadText => stage' = "label" /\ items' = items
  BY ReadStepFrame, Zenon
<1>2. PICK m : m = sent.message
  OBVIOUS
<1>3. PICK n : n = Lens
  OBVIOUS
<1>4. /\ SentOK /\ HeaderRead /\ ReadSoFar /\ m \in Messages /\ Received(Encode(m))
      /\ stage \in {"label", "fixed", "data"} => pos <= size /\ ItemsRead
      /\ stage \in {"fixed", "data"} => label.into = "Name"
      /\ \E s \in Sections :
              /\ AtSection(m, n, s) /\ Section = s
              /\ ReadingAt(Encode(m), s, Entry(m, s, n[s] + 1), Place(m, n), FirstName(m))
              /\ EntryAt(Encode(m), s, Entry(m, s, n[s] + 1), Place(m, n), FirstName(m))
  BY <1>1, <1>2, <1>3, CurrentEntry
<1>5. PICK s \in Sections :
              /\ AtSection(m, n, s) /\ Section = s
              /\ ReadingAt(Encode(m), s, Entry(m, s, n[s] + 1), Place(m, n), FirstName(m))
              /\ EntryAt(Encode(m), s, Entry(m, s, n[s] + 1), Place(m, n), FirstName(m))
  BY <1>4, Zenon
<1>6. PICK e : e = Entry(m, s, n[s] + 1)
  OBVIOUS
<1>7. PICK P : P = Place(m, n)
  OBVIOUS
<1>8. PICK q : q = FirstName(m)
  OBVIOUS
<1>9. PICK w : w = Encode(m)
  OBVIOUS
<1>10. /\ AtSection(m, n, s) /\ Section = s /\ Received(w)
       /\ ReadingAt(w, s, e, P, q) /\ EntryAt(w, s, e, P, q)
  BY <1>4, <1>5, <1>6, <1>7, <1>8, <1>9, Zenon
<1>11. ItemsRead
  BY <1>1, <1>4, Zenon DEF ReadSoFar
<1>12. pos' \in Nat /\ "label" \in Reading /\ "fixed" \in Reading /\ "data" \in Reading /\ "name" \in Reading
  BY DEF ReaderInv, Reading
<1>13. LabelFields
  BY DEF ReaderInv
<1>14. pos' <= size => ~(pos' > size)
  BY <1>1, <1>12
<1> DEFINE Goes == ReadingAt(w, s, e, P, q)' /\ items' = items /\ stage' \in Reading /\ pos' <= size
           Adds == \E x : /\ Added(s, e, P, q, x)
                          /\ pos' <= size => x = Parsed(s, e)
                          /\ pos' > size => e.type \in {QT_A, QT_AAAA}
<1>15. Goes \/ Adds => ReadSoFar'
  BY <1>1, <1>2, <1>3, <1>6, <1>7, <1>8, <1>9, <1>10, <1>11, <1>12, EntryStep, Zenon
<1>16. CASE ReadLabel
  <2>1. Goes
    BY <1>1, <1>10, <1>12, <1>16, ReadLabelReads, Zenon
  <2> QED BY <1>15, <2>1
<1>17. CASE ReadPointer
  <2>1. Goes
    BY <1>1, <1>10, <1>12, <1>17, ReadPointerReads, Zenon
  <2> QED BY <1>15, <2>1
<1>18. CASE ReadText
  <2>1. Goes
    BY <1>1, <1>10, <1>12, <1>18, ReadTextReads, Zenon
  <2> QED BY <1>15, <2>1
<1>19. CASE EndLabel
  <2>1. /\ pos' <= size
        /\ \/ ReadingAt(w, s, e, P, q)' /\ stage' = "fixed" /\ items' = items
           \/ Added(s, e, P, q, Parsed(s, e))
    BY <1>10, <1>19, EndLabelReads, Zenon
  <2>2. Goes \/ Adds
    BY <1>12, <1>14, <2>1, Zenon
  <2> QED BY <1>15, <2>2
<1>20. CASE ReadQuestion
  <2>0. label.into = "Name"
    BY <1>4, <1>20 DEF ReadQuestion
  <2>1. pos' <= size /\ Added(s, e, P, q, Parsed(s, e))
    BY <1>10, <1>20, <2>0, ReadQuestionReads, Zenon
  <2>2. Adds
    BY <1>14, <2>1, Zenon
  <2> QED BY <1>15, <2>2
<1>21. CASE ReadRecord
  <2>0. stage' = "data"
    BY <1>21 DEF ReadRecord
  <2>1. Goes
    BY <1>10, <1>12, <1>21, <2>0, ReadRecordReads, Zenon
  <2> QED BY <1>15, <2>1
<1>22. CASE ReadData
  <2>0. label.into = "Name"
    BY <1>4, <1>22 DEF ReadData
  <2>1. \/ /\ ReadingAt(w, s, e, P, q)' /\ pos' <= size /\ items' = items /\ stage' = "name"
        \/ Adds
    BY <1>10, <1>13, <1>22, <2>0, ReadDataReads, Zenon
  <2>2. Goes \/ Adds
    BY <1>12, <2>1, Zenon
  <2> QED BY <1>15, <2>2
<1> QED BY <1>16, <1>17, <1>18, <1>19, <1>20, <1>21, <1>22 DEF ReadStep

LEMMA ReceiveKeeps ==
  ASSUME KnownDatagrams, ReaderInv, ParseInv, NEW d \in Datagrams, receive(d)
  PROVE  ParseInv'
<1>1. /\ stage = "idle" /\ size' = Len(d.octets) /\ sent' = d /\ label' = label
      /\ buf' = [p \in Positions |-> IF p < Len(d.octets) THEN d.octets[p + 1] ELSE buf[p]]
      /\ stage' \in {"dropped", "header"}
  BY DEF receive, packetVars
<1>2. label'.into = "Name"
  BY <1>1 DEF ParseInv
<1>3. stage' \notin Reading \cup {"process"}
  BY <1>1 DEF Reading
<1>4. ASSUME Known' PROVE SentOK'
  <2> DEFINE w == Encode(d.message)
             l == d.lacks
  <2>1. d.message \in Messages /\ l \in 0..Len(w) /\ d.octets = SubSeq(w, 1, Len(w) - l)
    BY <1>1, <1>4, Zenon DEF Known, KnownDatagrams
  <2>2. w \in Seq(Nat)
    BY <2>1, EncodeLayout, Zenon
  <2>3. d.octets \in Seq(Octets) /\ Len(d.octets) <= BUFFER_SIZE /\ BUFFER_SIZE \in Nat
    BY PacketConstants
  <2> DEFINE o == d.octets
  <2>4. o \in Seq(Octets) /\ Len(o) <= BUFFER_SIZE /\ o = SubSeq(w, 1, Len(w) - l)
    BY <2>1, <2>3
  <2> HIDE DEF w, o, l
  <2>5. Len(o) = Len(w) - l /\ Len(o) \in Nat /\ \A i \in 1..Len(o) : o[i] = w[i]
    <3>1. Len(w) \in Nat /\ Len(w) - l \in Nat /\ Len(w) - l <= Len(w)
      BY <2>1, <2>2
    <3>2. Len(o) = Len(w) - l
      BY <2>2, <2>4, <3>1
    <3>3. \A i \in 1..(Len(w) - l) : SubSeq(w, 1, Len(w) - l)[i] = w[i]
      BY <2>2, <3>1
    <3> QED BY <2>4, <3>1, <3>2, <3>3
  <2>6. size' <= Len(w) /\ size' = Len(w) - l
    BY <1>1, <2>1, <2>2, <2>5 DEF o
  <2>7. ASSUME NEW p \in Nat, p < size' PROVE buf'[p] = w[p + 1]
    <3>1. p < Len(o) /\ p + 1 \in 1..Len(o) /\ p \in Positions
      BY <1>1, <2>3, <2>4, <2>5, <2>7 DEF o, Positions
    <3>2. buf'[p] = o[p + 1]
      BY <1>1, <3>1 DEF o
    <3> QED BY <2>5, <3>1, <3>2
  <2>8. Received(w)'
    <3>1. \A p \in Nat : p < size' => buf'[p] = w[p + 1]
      BY <2>7
    <3> QED BY <2>6, <3>1, Zenon DEF Received
  <2>9. sent'.message = d.message /\ sent'.lacks = l
    BY <1>1 DEF l
  <2> QED BY <2>1, <2>6, <2>8, <2>9, Zenon DEF SentOK, w, l
<1> QED BY <1>2, <1>3, <1>4, Zenon DEF ParseInv

LEMMA HeaderNumbers ==
  ASSUME ReaderInv, NEW m \in Messages, Received(Encode(m)), stage = "header"
  PROVE  /\ READ_U16(0) = m.id /\ buf[2] = m.hb3 /\ buf[3] = m.hb4
         /\ \A s \in Sections : READ_U16(2 + 2 * s) = Len(m.sections[s])
         /\ pos = 0 /\ size \in Nat /\ 12 <= size
<1>1. pos = 0 /\ size \in Nat /\ 12 <= size
  BY PacketConstants DEF ReaderInv, HEADER_SIZE
<1> DEFINE w == Encode(m)
<1>2. /\ w \in Seq(Nat) /\ Holds(w, 0, U16Octets(m.id)) /\ w[3] = m.hb3 /\ w[4] = m.hb4
      /\ \A s \in Sections : Holds(w, 2 + 2 * s, U16Octets(Len(m.sections[s])))
  BY EncodeLayout, Zenon
<1>3. m.id \in U16 /\ \A s \in Sections : Len(m.sections[s]) \in U16
  BY MessageFacts, Zenon
<1> HIDE DEF w
<1>4. Received(w)
  BY DEF w
<1>5. READ_U16(0) = m.id
  <2>1. 0 \in Nat /\ 0 + 2 <= size
    BY <1>1
  <2> QED BY <1>1, <1>2, <1>3, <1>4, <2>1, NumberRead, Zenon
<1>6. buf[2] = m.hb3 /\ buf[3] = m.hb4
  <2>1. 2 \in Nat /\ 2 < size /\ 2 + 1 = 3 /\ 3 \in Nat /\ 3 < size /\ 3 + 1 = 4
    BY <1>1
  <2>2. buf[2] = w[2 + 1] /\ buf[3] = w[3 + 1]
    BY <1>4, <2>1, Zenon DEF Received
  <2> QED BY <1>2, <2>1, <2>2
<1>7. ASSUME NEW s \in Sections PROVE READ_U16(2 + 2 * s) = Len(m.sections[s])
  <2>1. 2 + 2 * s \in Nat /\ (2 + 2 * s) + 2 <= size
    BY <1>1 DEF Sections
  <2> QED BY <1>1, <1>2, <1>3, <1>4, <2>1, NumberRead, Zenon
<1> QED BY <1>1, <1>5, <1>6, <1>7

(* DnsHeader::Read, and the first entry.                                   *)
LEMMA ReadHeaderReads ==
  ASSUME ReaderInv, TypeInv, ParseInv, Known, ReadHeader
  PROVE  ReadSoFar'
<1>1. /\ stage = "header" /\ pos' = pos + 12 /\ stage' = NextStage(header', items)
      /\ header' = [id |-> READ_U16(pos), hb3 |-> buf[pos + 2], hb4 |-> buf[pos + 3],
                    count |-> [s \in Sections |-> READ_U16(pos + 2 + 2 * s)]]
      /\ size' = size /\ items' = items /\ label' = label /\ sent' = sent
  BY DEF ReadHeader, PEEK_BYTE, HEADER_SIZE
<1>2. PICK m : m = sent.message
  OBVIOUS
<1>3. m \in Messages /\ Received(Encode(m))
  BY <1>2, Zenon DEF ParseInv, SentOK
<1>4. /\ READ_U16(0) = m.id /\ buf[2] = m.hb3 /\ buf[3] = m.hb4
      /\ \A s \in Sections : READ_U16(2 + 2 * s) = Len(m.sections[s])
      /\ pos = 0 /\ size \in Nat /\ 12 <= size
  BY <1>1, <1>3, HeaderNumbers
<1>5. pos + 2 = 2 /\ pos + 3 = 3 /\ pos' = 12 /\ \A s \in Sections : pos + 2 + 2 * s = 2 + 2 * s
  BY <1>1, <1>4 DEF Sections
<1>6. /\ header'.id = m.id /\ header'.hb3 = m.hb3 /\ header'.hb4 = m.hb4
      /\ \A s \in Sections : header'.count[s] = Len(m.sections[s])
  <2>1. header'.id = READ_U16(0) /\ header'.hb3 = buf[2] /\ header'.hb4 = buf[3]
    BY <1>1, <1>4, <1>5
  <2>2. \A s \in Sections : header'.count[s] = READ_U16(pos + 2 + 2 * s)
    BY <1>1
  <2> QED BY <1>4, <1>5, <2>1, <2>2, Zenon
<1>7. items = NoItems
  BY <1>1 DEF TypeInv, ItemsInv
<1>8. PICK n : n = Lens
  OBVIOUS
<1>9. \A t \in Sections : Len(items[t]) = 0 /\ n[t] = 0 /\ Len(items'[t]) = 0
  BY <1>1, <1>7, <1>8, NoItemsSeqs DEF Lens
<1>10. Lens' = n
  BY <1>1, <1>8, Zenon DEF Lens
<1>11. Place(m, n) = 12
  BY <1>3, <1>9, PlaceStart, Zenon
<1>12. Through(m, header', items', n, 1)
  <2>1. \A t \in Sections : Len(m.sections[t]) \in Nat
    BY <1>3, MessageFacts, Zenon
  <2>2. \A t \in Sections : 0 \in 0..Len(m.sections[t])
    <3>1. \A k \in Nat : 0 \in 0..k
      OBVIOUS
    <3> QED BY <2>1, <3>1, Zenon
  <2>3. 1 \in Sections /\ \A t \in Sections : ~(t < 1)
    BY DEF Sections
  <2> QED BY <1>3, <1>6, <1>9, <2>2, <2>3, Zenon DEF Through
<1>13. \/ stage' = "name" /\ \E t \in Sections : AtSection(m, n, t)
       \/ stage' = "process" /\ \A t \in Sections : n[t] = Len(m.sections[t])
  BY <1>1, <1>12, NextSection
<1>14. label'.into = "Name"
  BY <1>1 DEF ParseInv
<1>15. HeaderRead'
  BY <1>1, <1>2, <1>6, Zenon DEF HeaderRead
<1>16. ItemsRead'
  <2>1. \A i : i \notin 1..0
    OBVIOUS
  <2> QED BY <1>9, <2>1, Zenon DEF ItemsRead
<1>17. pos' <= size /\ ~(pos' > size)
  BY <1>4, <1>5
<1>18. stage' = "name" => \E t \in Sections : ReadUpTo(m, n, t)'
  <2> SUFFICES ASSUME stage' = "name" PROVE \E t \in Sections : ReadUpTo(m, n, t)'
    OBVIOUS
  <2>0. "name" # "process" /\ "name" # "label" /\ "name" # "fixed" /\ "name" # "data" /\ "Name" # "Address"
    OBVIOUS
  <2>1. PICK t \in Sections : AtSection(m, n, t)
    BY <1>13, <2>0, Zenon
  <2>2. \A w, d, q : ReadingAt(w, t, d, Place(m, n), q)'
    <3>1. \A d : AddressRead(t, d)'
      BY <1>14, <2>0, Zenon DEF AddressRead
    <3>2. \A d, q : NamePlace(d, Place(m, n), q)' = Place(m, n)
      BY <1>14, Zenon DEF NamePlace
    <3>3. pos' = Place(m, n)
      BY <1>5, <1>11
    <3> QED BY <2>0, <3>1, <3>2, <3>3, Zenon DEF ReadingAt
  <2> QED BY <2>1, <2>2, Zenon DEF ReadUpTo
<1>19. stage' \in Reading => stage' = "name"
  BY <1>13 DEF Reading
<1>20. stage' = "process" => \A t \in Sections : n[t] = Len(m.sections[t])
  BY <1>13
<1> QED BY <1>1, <1>2, <1>5, <1>10, <1>11, <1>15, <1>16, <1>17, <1>18, <1>19, <1>20, Zenon DEF ReadSoFar

LEMMA ParseInvInit == Init => ParseInv
<1> SUFFICES ASSUME Init PROVE ParseInv
  OBVIOUS
<1>1. stage = "idle" /\ label = NoLabel /\ sent = NoDatagram
  BY DEF Init
<1>2. label.into = "Name" /\ ~Known
  BY <1>1 DEF NoLabel, NoDatagram, Known
<1> QED BY <1>2, Zenon DEF ParseInv

(* A packet that is sent or dropped is read no more.                       *)
LEMMA HandledKeeps ==
  ASSUME ParseInv, sent' = sent, size' = size, buf' = buf,
         stage' \in {"sent", "dropped", "overrun"}
  PROVE  ParseInv'
<1>1. Known' => SentOK'
  BY SentStays, Zenon
<1>2. stage' \notin {"idle", "header", "fixed", "data", "process"} /\ stage' \notin Reading \cup {"process"}
  BY DEF Reading
<1> QED BY <1>1, <1>2, Zenon DEF ParseInv

Sending == Refuse \/ Redirect \/ Relay(NEW_ID) \/ \E i \in {NEW_ID, header.id} : Forward(i)

LEMMA SendingFrame ==
  ASSUME Sending
  PROVE  /\ stage = "process" /\ stage' \in {"sent", "overrun"} /\ sent' = sent /\ size' = size /\ buf' = buf /\ pos' = pos
         /\ items' = items /\ header' = header
<1>1. CASE Refuse
  BY <1>1 DEF Refuse, Request, sendPacket, packetVars
<1>2. CASE Redirect
  BY <1>2 DEF Redirect, Request, sendPacket, packetVars
<1>3. CASE Relay(NEW_ID)
  BY <1>3 DEF Relay, sendPacket, packetVars
<1>4. ASSUME NEW i, Forward(i)
      PROVE  /\ stage = "process" /\ stage' \in {"sent", "overrun"} /\ sent' = sent /\ size' = size /\ buf' = buf
             /\ pos' = pos /\ items' = items /\ header' = header
  BY <1>4 DEF Forward, Request, sendPacket, packetVars
<1> QED BY <1>1, <1>2, <1>3, <1>4 DEF Sending

LEMMA NextCases ==
  ASSUME [Next]_vars
  PROVE  \/ UNCHANGED vars \/ (\E d \in Datagrams : receive(d)) \/ Again \/ ReadHeader \/ ReadStep
         \/ Drop \/ ReadTextOverruns \/ Sending
  BY Zenon DEF Next, Handle, Rearm, Overrun, ReadStep, Sending

(* Every step keeps what is known of the message.                          *)
LEMMA ParseInvNext ==
  KnownDatagrams /\ ReaderInv /\ ReaderInv' /\ TypeInv /\ TypeInv' /\ ParseInv /\ [Next]_vars => ParseInv'
<1> SUFFICES ASSUME KnownDatagrams, ReaderInv, ReaderInv', TypeInv, TypeInv', ParseInv, [Next]_vars
             PROVE  ParseInv'
  OBVIOUS
<1>1. CASE UNCHANGED vars
  <2>1. /\ buf' = buf /\ size' = size /\ pos' = pos /\ stage' = stage /\ header' = header /\ items' = items
        /\ item' = item /\ label' = label /\ out' = out /\ sent' = sent
    BY <1>1 DEF vars
  <2>2. Known' => Known /\ SentOK'
    BY <2>1, SentStays, Zenon
  <2>3. /\ HeaderRead => HeaderRead'
        /\ ItemsRead => ItemsRead'
        /\ TailLost => TailLost'
        /\ Lens' = Lens
    BY <2>1, Zenon DEF HeaderRead, ItemsRead, TailLost, Lens
  <2>4. \A w, s, e, P, q : ReadingAt(w, s, e, P, q) => ReadingAt(w, s, e, P, q)'
    <3> SUFFICES ASSUME NEW w, NEW s, NEW e, NEW P, NEW q, ReadingAt(w, s, e, P, q)
                 PROVE  ReadingAt(w, s, e, P, q)'
      OBVIOUS
    <3>1. AddressRead(s, e) => AddressRead(s, e)'
      BY <2>1, Zenon DEF AddressRead
    <3>2. NameOf(e)' = NameOf(e) /\ SharedOf(e)' = SharedOf(e) /\ NamePlace(e, P, q)' = NamePlace(e, P, q)
      BY <2>1, SameName
    <3>3. LabelRead(w, e, P, q) => LabelRead(w, e, P, q)'
      BY <2>1, <3>2, Zenon DEF LabelRead
    <3> QED BY <2>1, <3>1, <3>2, <3>3, Zenon DEF ReadingAt
  <2>5. \A m, n, s : ReadUpTo(m, n, s) => ReadUpTo(m, n, s)'
    BY <2>4, Zenon DEF ReadUpTo
  <2>6. ReadSoFar => ReadSoFar'
    BY <2>1, <2>3, <2>5, Zenon DEF ReadSoFar
  <2> QED BY <2>1, <2>2, <2>6, Zenon DEF ParseInv
<1>2. CASE \E d \in Datagrams : receive(d)
  BY <1>2, ReceiveKeeps, Zenon
<1>3. CASE Again
  <2>1. stage' = "idle" /\ label' = NoLabel /\ sent' = NoDatagram
    BY <1>3 DEF Again
  <2>2. label'.into = "Name" /\ ~Known'
    BY <2>1 DEF NoLabel, NoDatagram, Known
  <2> QED BY <2>2, Zenon DEF ParseInv
<1>4. CASE ReadHeader
  <2>1. stage = "header" /\ sent' = sent /\ size' = size /\ buf' = buf /\ label' = label
    BY <1>4 DEF ReadHeader
  <2>2. Known' => Known /\ SentOK'
    BY <2>1, SentStays, Zenon
  <2>3. label'.into = "Name"
    BY <2>1 DEF ParseInv
  <2>4. Known => ReadSoFar'
    BY <1>4, ReadHeaderReads, Zenon
  <2> QED BY <2>2, <2>3, <2>4, Zenon DEF ParseInv
<1>5. CASE ReadStep
  <2>1. sent' = sent /\ size' = size /\ buf' = buf
    BY <1>5, ReadStepFrame, Zenon
  <2>2. Known' => Known /\ SentOK'
    BY <2>1, SentStays, Zenon
  <2>3. stage' \in {"idle", "header", "fixed", "data", "process"} => label'.into = "Name"
    BY <1>5, ReadStepInto, Zenon
  <2>4. Known => ReadSoFar'
    BY <1>5, ReadStepReads, Zenon
  <2> QED BY <2>2, <2>3, <2>4, Zenon DEF ParseInv
<1>6. CASE Drop
  <2>1. sent' = sent /\ size' = size /\ buf' = buf /\ stage' \in {"sent", "dropped", "overrun"}
    BY <1>6 DEF Drop
  <2> QED BY <2>1, HandledKeeps, Zenon
<1>7. CASE Sending
  <2>1. sent' = sent /\ size' = size /\ buf' = buf /\ stage' \in {"sent", "dropped", "overrun"}
    BY <1>7, SendingFrame
  <2> QED BY <2>1, HandledKeeps, Zenon
<1>8. CASE ReadTextOverruns
  <2>1. sent' = sent /\ size' = size /\ buf' = buf /\ stage' \in {"sent", "dropped", "overrun"}
    BY <1>8 DEF ReadTextOverruns
  <2> QED BY <2>1, HandledKeeps, Zenon
<1> QED BY <1>1, <1>2, <1>3, <1>4, <1>5, <1>6, <1>7, <1>8, NextCases, Zenon

(* The header has its four fields, and a count for every section.          *)
HeaderShape ==
  /\ header = [id |-> header.id, hb3 |-> header.hb3, hb4 |-> header.hb4, count |-> header.count]
  /\ header.count = [s \in Sections |-> header.count[s]]

LEMMA HeaderShapeInit == Init => HeaderShape
<1> SUFFICES ASSUME Init PROVE HeaderShape
  OBVIOUS
<1>1. header = NoHeader
  BY DEF Init
<1> QED BY <1>1 DEF HeaderShape, NoHeader

LEMMA HeaderShapeNext == HeaderShape /\ [Next]_vars => HeaderShape'
<1> SUFFICES ASSUME HeaderShape, [Next]_vars PROVE HeaderShape'
  OBVIOUS
<1>1. header' = header => HeaderShape'
  BY Zenon DEF HeaderShape
<1>2. ASSUME NEW i, NEW a, NEW b, NEW f, header' = [id |-> i, hb3 |-> a, hb4 |-> b, count |-> [s \in Sections |-> f[s]]]
      PROVE  HeaderShape'
  <2>1. header'.id = i /\ header'.hb3 = a /\ header'.hb4 = b /\ header'.count = [s \in Sections |-> f[s]]
    BY <1>2
  <2>2. header'.count = [s \in Sections |-> header'.count[s]]
    BY <2>1
  <2> QED BY <1>2, <2>1, <2>2, Zenon DEF HeaderShape
<1>3. CASE UNCHANGED vars
  BY <1>1, <1>3 DEF vars
<1>4. ASSUME NEW d, receive(d) PROVE HeaderShape'
  BY <1>1, <1>4 DEF receive, packetVars
<1>5. CASE Again
  <2>1. header' = NoHeader
    BY <1>5 DEF Again
  <2> QED BY <2>1 DEF HeaderShape, NoHeader
<1>6. CASE ReadHeader
  <2> DEFINE f == [s \in Sections |-> READ_U16(pos + 2 + 2 * s)]
  <2>1. header' = [id |-> READ_U16(pos), hb3 |-> PEEK_BYTE(2), hb4 |-> PEEK_BYTE(3), count |-> f]
    BY <1>6, Zenon DEF ReadHeader
  <2>2. f = [s \in Sections |-> f[s]]
    OBVIOUS
  <2> HIDE DEF f
  <2>3. header' = [id |-> READ_U16(pos), hb3 |-> PEEK_BYTE(2), hb4 |-> PEEK_BYTE(3), count |-> [s \in Sections |-> f[s]]]
    BY <2>1, <2>2
  <2> QED BY <1>2, <2>3, Zenon
<1>7. CASE ReadStep
  <2>1. header' = header
    BY <1>7, Zenon DEF ReadStep, ReadLabel, ReadPointer, ReadText, EndLabel, ReadQuestion, ReadRecord, ReadData
  <2> QED BY <1>1, <2>1
<1>8. CASE Drop
  BY <1>1, <1>8 DEF Drop, packetVars
<1>9. CASE Sending
  BY <1>1, <1>9, SendingFrame
<1>10. CASE ReadTextOverruns
  BY <1>1, <1>10 DEF ReadTextOverruns, packetVars
<1> QED BY <1>3, <1>4, <1>5, <1>6, <1>7, <1>8, <1>9, <1>10, NextCases, Zenon

(* What is known of every reachable state.                                 *)
PacketInv == ReaderInv /\ TypeInv /\ HeaderShape /\ ParseInv

LEMMA PacketInvHolds ==
  ASSUME KnownDatagrams
  PROVE  Spec => []PacketInv
<1>1. Init => PacketInv
  BY ReaderInvInit, TypeInvInit, HeaderShapeInit, ParseInvInit DEF PacketInv
<1>2. PacketInv /\ [Next]_vars => PacketInv'
  <2> SUFFICES ASSUME PacketInv, [Next]_vars PROVE PacketInv'
    OBVIOUS
  <2>1. ReaderInv'
    BY ReaderInvNext DEF PacketInv
  <2>2. TypeInv'
    BY TypeInvNext DEF PacketInv
  <2>3. HeaderShape'
    BY HeaderShapeNext DEF PacketInv
  <2>4. ParseInv'
    BY <2>1, <2>2, ParseInvNext DEF PacketInv
  <2> QED BY <2>1, <2>2, <2>3, <2>4 DEF PacketInv
<1> QED BY <1>1, <1>2, PTL DEF Spec

-----------------------------------------------------------------------------
(* A packet that has been read.                                            *)
LEMMA ReadToTheEnd ==
  ASSUME PacketInv, Known, stage = "process"
  PROVE  /\ sent.message \in Messages /\ HeaderRead /\ HeaderShape
         /\ size = Len(Encode(sent.message)) - sent.lacks /\ sent.lacks \in 0..Len(Encode(sent.message))
         /\ Len(Encode(sent.message)) \in Nat
         /\ pos = Len(Encode(sent.message))
         /\ \A s \in Sections : Len(items[s]) = Len(sent.message.sections[s])
         /\ pos <= size => items = ParsedItems(sent.message)
         /\ pos > size => TailLost
<1>1. SentOK /\ ReadSoFar /\ HeaderShape /\ items = [s \in Sections |-> items[s]]
      /\ \A s \in Sections : IsSeq(items[s])
  BY Zenon DEF PacketInv, ParseInv, TypeInv, ItemsInv
<1>2. PICK m : m = sent.message
  OBVIOUS
<1>3. m \in Messages /\ size = Len(Encode(m)) - sent.lacks /\ sent.lacks \in 0..Len(Encode(m))
  BY <1>1, <1>2, Zenon DEF SentOK
<1>4. Len(Encode(m)) \in Nat
  <2>1. Encode(m) \in Seq(Nat)
    BY <1>3, EncodeLayout, Zenon
  <2> QED BY <2>1
<1>5. /\ HeaderRead /\ pos = Place(m, Lens) /\ \A s \in Sections : Lens[s] = Len(m.sections[s])
      /\ pos <= size => ItemsRead
      /\ pos > size => TailLost
  BY <1>1, <1>2, Zenon DEF ReadSoFar
<1>6. pos = Len(Encode(m))
  BY <1>3, <1>5, PlaceEnd, Zenon
<1>7. \A s \in Sections : Len(items[s]) = Len(m.sections[s])
  BY <1>5 DEF Lens
<1>8. ASSUME ItemsRead PROVE items = ParsedItems(m)
  <2>1. ASSUME NEW s \in Sections PROVE items[s] = ParsedItems(m)[s]
    <3>1. \A i \in 1..Len(items[s]) : items[s][i] = Parsed(s, m.sections[s][i])
      BY <1>2, <1>8, Zenon DEF ItemsRead, Entry
    <3>2. PICK S : items[s] \in Seq(S)
      BY <1>1 DEF IsSeq
    <3>3. items[s] = [i \in 1..Len(items[s]) |-> items[s][i]]
      BY <3>2
    <3>4. DOMAIN m.sections[s] = 1..Len(items[s])
      BY <1>3, <1>7, MessageFacts
    <3>5. ParsedItems(m)[s] = [i \in 1..Len(items[s]) |-> Parsed(s, m.sections[s][i])]
      BY <3>4 DEF ParsedItems
    <3>6. [i \in 1..Len(items[s]) |-> items[s][i]] = [i \in 1..Len(items[s]) |-> Parsed(s, m.sections[s][i])]
      BY <3>1, Zenon
    <3> QED BY <3>3, <3>5, <3>6
  <2>2. ParsedItems(m) = [s \in Sections |-> ParsedItems(m)[s]]
    BY DEF ParsedItems
  <2>3. [s \in Sections |-> items[s]] = [s \in Sections |-> ParsedItems(m)[s]]
    BY <2>1, Zenon
  <2> QED BY <1>1, <2>2, <2>3
<1> QED BY <1>1, <1>2, <1>3, <1>4, <1>5, <1>6, <1>7, <1>8, Zenon

With(m, i, b) == [m EXCEPT !.id = i, !.hb4 = b]

LEMMA WithFields ==
  ASSUME NEW m, NEW i, NEW b,
         m = [id |-> m.id, hb3 |-> m.hb3, hb4 |-> m.hb4, sections |-> m.sections]
  PROVE  With(m, i, b) = [id |-> i, hb3 |-> m.hb3, hb4 |-> b, sections |-> m.sections]
<1> DEFINE a == m.id
           c == m.hb3
           d == m.hb4
           f == m.sections
<1>1. m = [id |-> a, hb3 |-> c, hb4 |-> d, sections |-> f]
  OBVIOUS
<1> HIDE DEF a, c, d, f
<1> DEFINE x == [m EXCEPT !.id = i]
<1>2. With(m, i, b) = [x EXCEPT !.hb4 = b]
  BY <1>1 DEF With
<1>3. x = [id |-> i, hb3 |-> c, hb4 |-> d, sections |-> f]
  BY <1>1
<1> HIDE DEF x
<1>4. [x EXCEPT !.hb4 = b] = [id |-> i, hb3 |-> c, hb4 |-> b, sections |-> f]
  BY <1>3
<1> QED BY <1>2, <1>4 DEF c, f

(* What is written of a packet that differs from the message in its id and *)
(* its flags only.                                                         *)
LEMMA WrittenWith ==
  ASSUME NEW m \in Messages, NEW i, NEW b, NEW h, h.id = i, h.hb3 = m.hb3, h.hb4 = b,
         \A s \in Sections : h.count[s] = Len(m.sections[s])
  PROVE  Write(h, ParsedItems(m)) = Encode(InFull(With(m, i, b)))
<1> DEFINE r == With(m, i, b)
<1>1. Writable(m)
  BY MessageFacts, Zenon
<1>2. m = [id |-> m.id, hb3 |-> m.hb3, hb4 |-> m.hb4, sections |-> m.sections]
  BY <1>1, Zenon DEF Writable
<1>3. r = [id |-> i, hb3 |-> m.hb3, hb4 |-> b, sections |-> m.sections]
  BY <1>2, WithFields, Zenon
<1>4. r.id = i /\ r.hb3 = m.hb3 /\ r.hb4 = b /\ r.sections = m.sections
  BY <1>3
<1> HIDE DEF r
<1>5. Writable(r)
  BY <1>1, <1>3, <1>4, Zenon DEF Writable
<1>6. ParsedItems(r) = ParsedItems(m)
  BY <1>4, Zenon DEF ParsedItems
<1>7. Write(h, ParsedItems(r)) = Encode(InFull(r))
  <2>1. \A s \in Sections : h.count[s] = Len(r.sections[s])
    BY <1>4
  <2> QED BY <1>4, <1>5, <2>1, WriteIsEncode, Zenon
<1> QED BY <1>6, <1>7 DEF r

(* A packet that was whole when it arrived.                                *)
LEMMA WholeRead ==
  ASSUME PacketInv, Whole, stage = "process"
  PROVE  /\ sent.message \in Messages /\ items = ParsedItems(sent.message) /\ HeaderRead /\ HeaderShape
<1>1. Known /\ sent.lacks = 0
  BY DEF Whole, Known
<1> DEFINE l == Len(Encode(sent.message))
<1>2. /\ sent.message \in Messages /\ HeaderRead /\ HeaderShape
      /\ size = l - sent.lacks /\ l \in Nat /\ pos = l
      /\ pos <= size => items = ParsedItems(sent.message)
  BY <1>1, ReadToTheEnd, Zenon
<1> HIDE DEF l
<1>3. pos <= size
  BY <1>1, <1>2
<1> QED BY <1>2, <1>3

Relayed(m, o) ==
  \E i \in {NEW_ID, m.id} :
    o.octets = Encode(InFull([m EXCEPT
      !.id = i,
      !.hb4 = CASE o.how = "relay" -> SetBit(@, 7)
                [] o.how = "refuse" -> SetBit(SetBit(@, 0), 2)
                [] OTHER -> @]))

LEMMA RelayedIs ==
  ASSUME NEW m \in Messages, NEW o, NEW i \in {NEW_ID, m.id}, NEW b,
         b = CASE o.how = "relay" -> SetBit(m.hb4, 7)
               [] o.how = "refuse" -> SetBit(SetBit(m.hb4, 0), 2)
               [] OTHER -> m.hb4,
         o.octets = Encode(InFull(With(m, i, b)))
  PROVE  Relayed(m, o)
<1>1. m = [id |-> m.id, hb3 |-> m.hb3, hb4 |-> m.hb4, sections |-> m.sections]
  BY MessageFacts, Zenon DEF Writable
<1>2. [m EXCEPT !.id = i, !.hb4 = CASE o.how = "relay" -> SetBit(@, 7)
                                    [] o.how = "refuse" -> SetBit(SetBit(@, 0), 2)
                                    [] OTHER -> @]
        = With(m, i, b)
  BY <1>1 DEF With
<1> QED BY <1>2, Zenon DEF Relayed

(* Nothing is sent while a packet is read.                                 *)
LEMMA SentBySending ==
  ASSUME [Next]_vars, stage' \in {"sent", "overrun"}
  PROVE  UNCHANGED vars \/ Sending \/ (ReadTextOverruns /\ stage' = "overrun")
<1> DEFINE Ends == {"sent", "overrun"}
<1>0. /\ {"idle", "header", "dropped", "label", "fixed", "name", "data"} \cap Ends = {}
      /\ \A h, is : NextStage(h, is) \notin Ends
  BY NextStageReads
<1>1. ~(\E d \in Datagrams : receive(d)) /\ ~Again /\ ~ReadHeader /\ ~ReadStep /\ ~Drop
  <2>1. \A d : ~receive(d)
    BY DEF receive
  <2>2. ~Again /\ ~Drop
    BY DEF Again, Drop
  <2>3. ~ReadHeader
    BY <1>0, Zenon DEF ReadHeader
  <2>4. ~ReadLabel
    BY DEF ReadLabel
  <2>5. ~ReadPointer /\ ~ReadText
    BY DEF ReadPointer, ReadText, TextThere, InLoop
  <2>5a. "fixed" \notin Ends /\ "name" \notin Ends /\ "data" \notin Ends
    OBVIOUS
  <2>6. ~EndLabel
    BY <1>0, <2>5a, Zenon DEF EndLabel
  <2>7. ~ReadQuestion /\ ~ReadRecord
    BY <1>0, <2>5a, Zenon DEF ReadQuestion, ReadRecord
  <2>8. ~ReadData
    BY <1>0, <2>5a, Zenon DEF ReadData
  <2> QED BY <2>1, <2>2, <2>3, <2>4, <2>5, <2>6, <2>7, <2>8, Zenon DEF ReadStep
<1>2. ReadTextOverruns => stage' = "overrun"
  BY DEF ReadTextOverruns
<1> QED BY <1>1, <1>2, NextCases, Zenon

(* Every packet written is the message that was read.                      *)
LEMMA SendingRelays ==
  ASSUME PacketInv, Whole, Sending, out'.how # "redirect"
  PROVE  Relayed(sent'.message, out')
<1>1. stage = "process" /\ sent' = sent /\ items' = items /\ header' = header
  BY SendingFrame
<1>3. PICK m : m = sent.message
  OBVIOUS
<1>4. m \in Messages /\ items = ParsedItems(m) /\ HeaderRead /\ HeaderShape
  BY <1>1, <1>3, WholeRead
<1>5. /\ header.id = m.id /\ header.hb3 = m.hb3 /\ header.hb4 = m.hb4
      /\ \A s \in Sections : header.count[s] = Len(m.sections[s])
  BY <1>3, <1>4, Zenon DEF HeaderRead
<1>6. header = [id |-> header.id, hb3 |-> header.hb3, hb4 |-> header.hb4, count |-> header.count]
  BY <1>4 DEF HeaderShape
<1>7. ASSUME NEW i \in {NEW_ID, m.id}, NEW b, NEW h, h.id = i, h.hb3 = m.hb3, h.hb4 = b,
             h.count = header.count, NEW how, out' = [octets |-> Write(h, items), how |-> how],
             b = CASE how = "relay" -> SetBit(m.hb4, 7)
                   [] how = "refuse" -> SetBit(SetBit(m.hb4, 0), 2)
                   [] OTHER -> m.hb4
      PROVE  Relayed(sent'.message, out')
  <2>1. out'.octets = Write(h, items) /\ out'.how = how
    BY <1>7
  <2>2. Write(h, ParsedItems(m)) = Encode(InFull(With(m, i, b)))
    <3>1. \A s \in Sections : h.count[s] = Len(m.sections[s])
      BY <1>5, <1>7
    <3> QED BY <1>4, <1>7, <3>1, WrittenWith, Zenon
  <2>3. out'.octets = Encode(InFull(With(m, i, b)))
    BY <1>4, <2>1, <2>2
  <2>4. Relayed(m, out')
    BY <1>4, <1>7, <2>1, <2>3, RelayedIs, Zenon
  <2> QED BY <1>1, <1>3, <2>4
<1>8. CASE Refuse
  <2> DEFINE h == SetRefused(header)
  <2>1. out' = [octets |-> Write(h, items), how |-> "refuse"]
    BY <1>8 DEF Refuse, sendPacket
  <2>2. h.id = m.id /\ h.hb3 = m.hb3 /\ h.hb4 = SetBit(SetBit(m.hb4, 0), 2) /\ h.count = header.count
    BY <1>5, <1>6 DEF SetRefused
  <2> HIDE DEF h
  <2>3. SetBit(SetBit(m.hb4, 0), 2) = CASE "refuse" = "relay" -> SetBit(m.hb4, 7)
                                        [] "refuse" = "refuse" -> SetBit(SetBit(m.hb4, 0), 2)
                                        [] OTHER -> m.hb4
    OBVIOUS
  <2> QED BY <1>7, <2>1, <2>2, <2>3
<1>9. CASE Relay(NEW_ID)
  <2> DEFINE h == SetId(SetRecursionAvailable(header), NEW_ID)
  <2>1. out' = [octets |-> Write(h, items), how |-> "relay"]
    BY <1>9 DEF Relay, sendPacket
  <2>2. h.id = NEW_ID /\ h.hb3 = m.hb3 /\ h.hb4 = SetBit(m.hb4, 7) /\ h.count = header.count
    BY <1>5, <1>6 DEF SetId, SetRecursionAvailable
  <2> HIDE DEF h
  <2>3. SetBit(m.hb4, 7) = CASE "relay" = "relay" -> SetBit(m.hb4, 7)
                             [] "relay" = "refuse" -> SetBit(SetBit(m.hb4, 0), 2)
                             [] OTHER -> m.hb4
    OBVIOUS
  <2> QED BY <1>7, <2>1, <2>2, <2>3
<1>10. ASSUME NEW i \in {NEW_ID, header.id}, Forward(i) PROVE Relayed(sent'.message, out')
  <2> DEFINE h == SetId(header, i)
  <2>1. out' = [octets |-> Write(h, items), how |-> "forward"]
    BY <1>10 DEF Forward, sendPacket
  <2>2. h.id = i /\ h.hb3 = m.hb3 /\ h.hb4 = m.hb4 /\ h.count = header.count
    BY <1>5, <1>6 DEF SetId
  <2> HIDE DEF h
  <2>3. m.hb4 = CASE "forward" = "relay" -> SetBit(m.hb4, 7)
                  [] "forward" = "refuse" -> SetBit(SetBit(m.hb4, 0), 2)
                  [] OTHER -> m.hb4
    OBVIOUS
  <2>4. i \in {NEW_ID, m.id}
    BY <1>5
  <2> QED BY <1>7, <2>1, <2>2, <2>3, <2>4
<1>11. ~Redirect
  <2>1. Redirect => out'.how = "redirect"
    BY DEF Redirect, sendPacket
  <2> QED BY <2>1
<1> QED BY <1>8, <1>9, <1>10, <1>11, Zenon DEF Sending

LEMMA RelaysNext ==
  PacketInv /\ RelaysWhatWasSent /\ [Next]_vars => RelaysWhatWasSent'
<1> SUFFICES ASSUME PacketInv, RelaysWhatWasSent, [Next]_vars, stage' = "sent", Whole', out'.how # "redirect"
             PROVE  Relayed(sent'.message, out')
  BY Zenon DEF RelaysWhatWasSent, Relayed
<1>1. CASE UNCHANGED vars
  <2>1. sent' = sent /\ out' = out /\ stage' = stage
    BY <1>1 DEF vars
  <2>2. Whole
    BY <2>1, Zenon DEF Whole
  <2> QED BY <2>1, <2>2, Zenon DEF RelaysWhatWasSent, Relayed
<1>3. CASE Sending
  <2>1. sent' = sent
    BY <1>3, SendingFrame
  <2>2. Whole
    BY <2>1, Zenon DEF Whole
  <2> QED BY <1>3, <2>2, SendingRelays, Zenon
<1>4. stage' # "overrun" /\ stage' \in {"sent", "overrun"}
  OBVIOUS
<1> QED BY <1>1, <1>3, <1>4, SentBySending, Zenon

(* Whatever the messages of the kinds the code knows, their names, the     *)
(* pointers in them and the number of their entries: what DnsPacket::Write *)
(* makes of the packet DnsPacket::Read made of a message is that message,  *)
(* with every name in full and the forwarder's id and flags.               *)
THEOREM RelaysWhatWasSentHolds ==
  ASSUME KnownDatagrams
  PROVE  Spec => []RelaysWhatWasSent
<1>1. Init => RelaysWhatWasSent
  BY DEF Init, RelaysWhatWasSent
<1> QED BY <1>1, RelaysNext, PacketInvHolds, PTL DEF Spec

(* Every name of a message has room in the array it is read into.          *)
LEMMA NameHasRoom ==
  ASSUME NEW ls \in Names, NEW k \in 0..(Len(ls) - 1)
  PROVE  Len(Spelled(ls, k)) + Len(ls[k + 1]) + 1 <= MAXDNAME
<1>1. ls \in LabelSeqs /\ Len(ls) \in Nat /\ Len(LabelsOctets(ls)) <= MAXDNAME
  <2>1. ls \in LabelSeqs /\ Len(ls) \in Nat
    BY NameFacts, Zenon
  <2> QED BY <2>1 DEF Names
<1>2. k \in 0..Len(ls) /\ k + 1 \in 0..Len(ls) /\ Len(ls) \in 0..Len(ls)
  BY <1>1
<1>3. Len(Spelled(ls, k)) = At(ls, k)
  BY <1>1, <1>2, SpelledFacts, Zenon
<1>4. At(ls, k + 1) = At(ls, k) + Len(ls[k + 1]) + 1 /\ At(ls, k + 1) <= At(ls, Len(ls))
  BY <1>1, <1>2, AtDef, Zenon
<1>5. At(ls, Len(ls)) = Len(LabelsOctets(ls))
  <2>1. SubSeq(ls, 1, Len(ls)) = ls
    BY <1>1 DEF LabelSeqs
  <2>2. Len(LabelsOctets(SubSeq(ls, 1, Len(ls)))) = At(ls, Len(ls))
    BY <1>1, <1>2, FirstLabels, Zenon
  <2> QED BY <2>1, <2>2
<1>6. At(ls, k + 1) \in Nat /\ At(ls, Len(ls)) \in Nat
  BY <1>1, <1>2, AtDef, Zenon
<1> QED BY <1>1, <1>3, <1>4, <1>5, <1>6, PacketConstants

LEMMA NameFitsIn ==
  ASSUME ReaderInv, TypeInv, NEW w, NEW s, NEW e, NEW P, NEW q, EntryAt(w, s, e, P, q),
         ReadingAt(w, s, e, P, q), TextThere
  PROVE  NameFits
<1> DEFINE c == label.c
           ls == NameOf(e)
           n == SharedOf(e)
           Q == NamePlace(e, P, q)
<1>1. stage = "label" /\ c # 0 /\ c < 64
  BY DEF TextThere, InLoop
<1>2. NameHyp(w, Q, ls, n, q) /\ c \in Octets
  BY <1>1, InName, Zenon
<1>3. PICK k \in 0..Len(ls) :
              /\ label.name = Spelled(ls, k)
              /\ \/ SpotEnds(ls, n, k, label.jumps, c)
                 \/ SpotText(w, Q, ls, n, q, k, pos, label.jumps, label.resume, c)
                 \/ SpotPointer(w, Q, ls, n, q, k, pos, label.jumps, c)
  BY <1>1, InName, Zenon
<1> HIDE DEF ls, n, Q, c
<1>4. SpotText(w, Q, ls, n, q, k, pos, label.jumps, label.resume, c)
  <2>1. ~SpotEnds(ls, n, k, label.jumps, c)
    BY <1>1 DEF SpotEnds
  <2>2. ~SpotPointer(w, Q, ls, n, q, k, pos, label.jumps, c)
    <3>0. \A x \in 192..255 : ~(x < 64)
      OBVIOUS
    <3>1. c \notin 192..255
      BY <1>1, <3>0, Zenon
    <3> QED BY <3>1, Zenon DEF SpotPointer
  <2> QED BY <1>3, <2>1, <2>2
<1>5. k < Len(ls) /\ c = Len(ls[k + 1])
  BY <1>4, Zenon DEF SpotText
<1>6. ls \in Names /\ Len(ls) \in Nat
  <2>1. Len(ls) \in Nat
    BY <1>2, HypNumbers, Zenon
  <2> QED BY <1>2, <2>1, Zenon DEF NameHyp
<1>7. k \in 0..(Len(ls) - 1)
  BY <1>5, <1>6
<1>8. Len(Spelled(ls, k)) + Len(ls[k + 1]) + 1 <= MAXDNAME
  BY <1>6, <1>7, NameHasRoom, Zenon
<1>9. Len(label.name) + label.c + 1 = Len(Spelled(ls, k)) + Len(ls[k + 1]) + 1
  BY <1>3, <1>5, Zenon DEF c
<1> QED BY <1>8, <1>9, Zenon DEF NameFits

LEMMA WholeNamesFit ==
  ASSUME PacketInv, Whole
  PROVE  ~ReadTextOverruns
<1> SUFFICES ASSUME TextThere PROVE NameFits
  BY DEF ReadTextOverruns
<1>1. stage \in Reading
  BY DEF TextThere, InLoop, Reading
<1>2. ReaderInv /\ TypeInv /\ ParseInv /\ Known
  BY DEF PacketInv, Whole, Known
<1>3. \E s, e, P, q, w : ReadingAt(w, s, e, P, q) /\ EntryAt(w, s, e, P, q)
  BY <1>1, <1>2, CurrentEntry, Zenon
<1> QED BY <1>2, <1>3, NameFitsIn, Zenon

LEMMA CatLength == \A S : \A x, y \in Seq(S) : x \o y \in Seq(S) /\ Len(x \o y) = Len(x) + Len(y)
  OBVIOUS

(* The number of a message's octets does not depend on its id and flags.   *)
LEMMA EncodeLength ==
  ASSUME NEW m \in Messages, NEW M, M.sections = m.sections
  PROVE  Len(Encode(M)) = Len(Encode(m))
<1> DEFINE C == Concat(CountParts(m))
           B == Concat(Bodies(m))
<1>1. C \in Seq(Nat) /\ B \in Seq(Nat)
  BY EncodeParts, Zenon
<1>2. CountParts(M) = CountParts(m)
  BY Zenon DEF CountParts
<1>3. Bodies(M) = Bodies(m)
  <2>1. FirstName(M) = FirstName(m)
    BY Zenon DEF FirstName
  <2>2. \A s : Entries(M, s) = Entries(m, s)
    BY <2>1, Zenon DEF Entries
  <2> QED BY <2>2, Zenon DEF Bodies
<1>4. Encode(M) = HeaderOctets(M) \o C \o B /\ Encode(m) = HeaderOctets(m) \o C \o B
  BY <1>2, <1>3, EncodeIs, Zenon
<1> HIDE DEF C, B
<1>5. ASSUME NEW k PROVE Len(HeaderOctets(k) \o C \o B) = 4 + Len(C) + Len(B)
  <2> DEFINE T == Nat \cup {k.id \div 256, k.id % 256, k.hb3, k.hb4}
             h == U16Octets(k.id)
             f == <<k.hb3, k.hb4>>
  <2>1. h \in Seq(T) /\ Len(h) = 2 /\ f \in Seq(T) /\ Len(f) = 2
    BY DEF U16Octets
  <2>2. C \in Seq(T) /\ B \in Seq(T)
    <3>1. \A x \in Seq(Nat) : x \in Seq(T)
      <4> SUFFICES ASSUME NEW x \in Seq(Nat) PROVE x \in Seq(T)
        OBVIOUS
      <4>1. Nat \subseteq T
        OBVIOUS
      <4> HIDE DEF T
      <4> QED BY <4>1
    <3> QED BY <1>1, <3>1, Zenon
  <2> HIDE DEF T, h, f
  <2>3. h \o f \in Seq(T) /\ Len(h \o f) = 4
    <3>1. h \o f \in Seq(T) /\ Len(h \o f) = Len(h) + Len(f)
      BY <2>1, CatLength, Zenon
    <3> QED BY <2>1, <3>1
  <2>4. (h \o f) \o C \in Seq(T) /\ Len((h \o f) \o C) = Len(h \o f) + Len(C)
    BY <2>2, <2>3, CatLength, Zenon
  <2>5. Len(((h \o f) \o C) \o B) = Len((h \o f) \o C) + Len(B)
    BY <2>2, <2>4, CatLength, Zenon
  <2>6. Len(((h \o f) \o C) \o B) = 4 + Len(C) + Len(B)
    BY <2>3, <2>4, <2>5, Zenon
  <2> QED BY <2>6 DEF h, f, HeaderOctets
<1> QED BY <1>4, <1>5, Zenon

(* A message whose names are in full is its own full form.                 *)
LEMMA NoneShared ==
  ASSUME NEW m \in Messages, ~Compressed(m), NEW r,
         r = [id |-> r.id, hb3 |-> r.hb3, hb4 |-> r.hb4, sections |-> r.sections],
         r.sections = m.sections
  PROVE  InFull(r).sections = m.sections
<1> DEFINE F(s) == [i \in DOMAIN r.sections[s] |-> [r.sections[s][i] EXCEPT !.shared = 0]]
           new == [s \in Sections |-> F(s)]
<1>1. InFull(r).sections = new
  <2>1. InFull(r) = [r EXCEPT !.sections = new]
    BY Zenon DEF InFull
  <2> HIDE DEF new
  <2> QED BY <2>1
<1>2. ASSUME NEW s \in Sections PROVE F(s) = m.sections[s]
  <2>1. DOMAIN m.sections[s] = 1..Len(m.sections[s])
    BY MessageFacts, Zenon
  <2>2. ASSUME NEW i \in DOMAIN m.sections[s] PROVE [m.sections[s][i] EXCEPT !.shared = 0] = m.sections[s][i]
    <3> DEFINE e == m.sections[s][i]
    <3>1. e \in Questions \/ e \in Records
      BY <2>1, MessageFacts, Zenon DEF Entry
    <3>2. ~(e.shared > 0)
      BY Zenon DEF Compressed
    <3> HIDE DEF e
    <3>3. e.shared = 0
      BY <3>1, <3>2 DEF Questions, Records
    <3>4. [e EXCEPT !.shared = 0] = e
      BY <3>1, <3>3 DEF Questions, Records
    <3> QED BY <3>4 DEF e
  <2>3. m.sections[s] = [i \in DOMAIN m.sections[s] |-> m.sections[s][i]]
    <3>1. \E S : m.sections[s] \in Seq(S)
      BY MessageFacts, Zenon DEF Writable
    <3> QED BY <3>1
  <2>4. [i \in DOMAIN m.sections[s] |-> [m.sections[s][i] EXCEPT !.shared = 0]]
          = [i \in DOMAIN m.sections[s] |-> m.sections[s][i]]
    BY <2>2, Zenon
  <2> QED BY <2>3, <2>4, Zenon
<1>3. m.sections = [s \in Sections |-> m.sections[s]]
  BY DEF Messages
<1> HIDE DEF F
<1>4. new = [s \in Sections |-> m.sections[s]]
  BY <1>2, Zenon
<1> QED BY <1>1, <1>3, <1>4, Zenon

(* What is written of such a message has as many octets as it had.         *)
LEMMA RelayedLength ==
  ASSUME NEW m \in Messages, ~Compressed(m), NEW o, Relayed(m, o)
  PROVE  Len(o.octets) = Len(Encode(m))
<1> DEFINE b == CASE o.how = "relay" -> SetBit(m.hb4, 7)
                  [] o.how = "refuse" -> SetBit(SetBit(m.hb4, 0), 2)
                  [] OTHER -> m.hb4
<1>1. m = [id |-> m.id, hb3 |-> m.hb3, hb4 |-> m.hb4, sections |-> m.sections]
  BY MessageFacts, Zenon DEF Writable
<1>2. PICK i : o.octets = Encode(InFull([m EXCEPT
                  !.id = i,
                  !.hb4 = CASE o.how = "relay" -> SetBit(@, 7)
                            [] o.how = "refuse" -> SetBit(SetBit(@, 0), 2)
                            [] OTHER -> @]))
  BY Zenon DEF Relayed
<1>3. [m EXCEPT !.id = i, !.hb4 = CASE o.how = "relay" -> SetBit(@, 7)
                                    [] o.how = "refuse" -> SetBit(SetBit(@, 0), 2)
                                    [] OTHER -> @]
        = With(m, i, b)
  BY <1>1 DEF With
<1> HIDE DEF b
<1>4. With(m, i, b) = [id |-> i, hb3 |-> m.hb3, hb4 |-> b, sections |-> m.sections]
  BY <1>1, WithFields, Zenon
<1> DEFINE r == With(m, i, b)
<1>5. r = [id |-> r.id, hb3 |-> r.hb3, hb4 |-> r.hb4, sections |-> r.sections] /\ r.sections = m.sections
  BY <1>4
<1>6. o.octets = Encode(InFull(r))
  BY <1>2, <1>3, Zenon
<1> HIDE DEF r
<1>7. InFull(r).sections = m.sections
  BY <1>5, NoneShared, Zenon
<1>8. Len(Encode(InFull(r))) = Len(Encode(m))
  BY <1>7, EncodeLength, Zenon
<1> QED BY <1>6, <1>8, Zenon

(* The items of a message end in a name when the message does.             *)
LEMMA EndsAsMessage ==
  ASSUME NEW m \in Messages, EndsInName(ParsedItems(m))
  PROVE  EndsInName(m.sections)
<1> DEFINE is == ParsedItems(m)
<1>1. PICK s \in Sections \ {Question} :
         /\ is[s] # <<>> /\ is[s][Len(is[s])].type \in Named
         /\ \A t \in Sections : t > s => is[t] = <<>>
  BY Zenon DEF EndsInName
<1>2. ASSUME NEW t \in Sections
      PROVE  /\ is[t] = [i \in DOMAIN m.sections[t] |-> Parsed(t, m.sections[t][i])]
             /\ DOMAIN m.sections[t] = 1..Len(m.sections[t]) /\ Len(m.sections[t]) \in Nat
             /\ \E S : m.sections[t] \in Seq(S)
  <2>1. is[t] = [i \in DOMAIN m.sections[t] |-> Parsed(t, m.sections[t][i])]
    BY DEF ParsedItems
  <2>2. \E S : m.sections[t] \in Seq(S)
    BY MessageFacts, Zenon DEF Writable
  <2> QED BY <2>1, <2>2, MessageFacts, Zenon
<1> HIDE DEF is
<1>3. ASSUME NEW t \in Sections PROVE /\ Len(is[t]) = Len(m.sections[t])
                                      /\ is[t] = <<>> <=> m.sections[t] = <<>>
  <2> DEFINE k == Len(m.sections[t])
  <2>1. is[t] = [i \in 1..k |-> Parsed(t, m.sections[t][i])] /\ k \in Nat
    BY <1>2
  <2>2. PICK S : m.sections[t] \in Seq(S)
    BY <1>2
  <2>3. m.sections[t] = <<>> <=> k = 0
    BY <2>2
  <2> HIDE DEF k
  <2>4. Len(is[t]) = k /\ (is[t] = <<>> <=> k = 0)
    BY <2>1
  <2> QED BY <2>3, <2>4 DEF k
<1>4. m.sections[s] # <<>> /\ \A t \in Sections : t > s => m.sections[t] = <<>>
  BY <1>1, <1>3
<1>5. m.sections[s][Len(m.sections[s])].type \in Named
  <2> DEFINE k == Len(m.sections[s])
  <2>1. k \in Nat /\ k # 0
    <3>1. PICK S : m.sections[s] \in Seq(S)
      BY <1>2
    <3> QED BY <1>4, <3>1
  <2>2. is[s][k] = Parsed(s, m.sections[s][k])
    <3>1. k \in 1..k
      BY <2>1
    <3> QED BY <1>2, <3>1
  <2>3. Len(is[s]) = k
    BY <1>3
  <2>4. Parsed(s, m.sections[s][k]).type = m.sections[s][k].type
    BY DEF Parsed, ParsedQuestion, ParsedRecord
  <2> QED BY <1>1, <2>2, <2>3, <2>4
<1> QED BY <1>4, <1>5, Zenon DEF EndsInName

LEMMA SendingOverruns ==
  ASSUME Sending, stage' = "overrun"
  PROVE  /\ out'.how # "none"
         /\ out'.how = "redirect" \/ (IF EndsInName(items) THEN ~(Len(out'.octets) < BUFFER_SIZE)
                                                          ELSE ~(Len(out'.octets) <= BUFFER_SIZE))
<1> DEFINE Long == IF EndsInName(items) THEN ~(Len(out'.octets) < BUFFER_SIZE)
                                        ELSE ~(Len(out'.octets) <= BUFFER_SIZE)
<1>1. ASSUME NEW h, NEW how, sendPacket(h, items, how) PROVE out'.how = how /\ Long
  <2>1. out' = [octets |-> Write(h, items), how |-> how] /\ ~Fits(h, items)
    BY <1>1 DEF sendPacket
  <2>2. out'.how = how /\ out'.octets = Write(h, items)
    BY <2>1
  <2> QED BY <2>1, <2>2, Zenon DEF Fits
<1> HIDE DEF Long
<1>2. CASE Refuse
  <2>1. out'.how = "refuse" /\ Long
    BY <1>1, <1>2, Zenon DEF Refuse
  <2> QED BY <2>1 DEF Long
<1>3. CASE Relay(NEW_ID)
  <2>1. out'.how = "relay" /\ Long
    BY <1>1, <1>3, Zenon DEF Relay
  <2> QED BY <2>1 DEF Long
<1>4. ASSUME NEW i, Forward(i) PROVE out'.how = "forward" /\ Long
  BY <1>1, <1>4, Zenon DEF Forward
<1>5. CASE Redirect
  <2>1. out'.how = "redirect"
    BY <1>5 DEF Redirect, sendPacket
  <2> QED BY <2>1
<1>6. CASE \E i \in {NEW_ID, header.id} : Forward(i)
  <2>1. out'.how = "forward" /\ Long
    BY <1>4, <1>6, Zenon
  <2> QED BY <2>1 DEF Long
<1> QED BY <1>2, <1>3, <1>5, <1>6, Zenon DEF Sending

LEMMA OverrunsNext ==
  PacketInv /\ OverrunsOnlyExpanded /\ [Next]_vars => OverrunsOnlyExpanded'
<1> DEFINE Ok(m, k) == Compressed(m) \/ (k = BUFFER_SIZE /\ EndsInName(m.sections))
<1> SUFFICES ASSUME PacketInv, OverrunsOnlyExpanded, [Next]_vars, stage' = "overrun", Whole',
                    out'.how # "redirect"
             PROVE  out'.how # "none" /\ Ok(sent'.message, size')
  BY Zenon DEF OverrunsOnlyExpanded
<1>1. CASE UNCHANGED vars
  <2>1. sent' = sent /\ out' = out /\ stage' = stage /\ size' = size
    BY <1>1 DEF vars
  <2>2. Whole
    BY <2>1, Zenon DEF Whole
  <2> QED BY <2>1, <2>2, Zenon DEF OverrunsOnlyExpanded
<1>2. CASE ReadTextOverruns
  <2>1. sent' = sent
    BY <1>2 DEF ReadTextOverruns
  <2>2. Whole
    BY <2>1, Zenon DEF Whole
  <2> QED BY <1>2, <2>2, WholeNamesFit, Zenon
<1>3. CASE Sending
  <2>1. stage = "process" /\ sent' = sent /\ size' = size
    BY <1>3, SendingFrame
  <2>2. Whole /\ Known /\ sent.lacks = 0
    BY <2>1, Zenon DEF Whole, Known
  <2>3. PICK m : m = sent.message
    OBVIOUS
  <2>4. m \in Messages /\ items = ParsedItems(m)
    BY <2>1, <2>2, <2>3, WholeRead, Zenon
  <2>5. out'.how # "none" /\ (IF EndsInName(items) THEN ~(Len(out'.octets) < BUFFER_SIZE)
                                                  ELSE ~(Len(out'.octets) <= BUFFER_SIZE))
    BY <1>3, SendingOverruns, Zenon
  <2>6. Relayed(m, out')
    BY <1>3, <2>1, <2>2, <2>3, SendingRelays, Zenon
  <2>7. ASSUME ~Compressed(m) PROVE size = BUFFER_SIZE /\ EndsInName(m.sections)
    <3> DEFINE l == Len(out'.octets)
    <3>1. l = Len(Encode(m))
      BY <2>4, <2>6, <2>7, RelayedLength, Zenon
    <3>2. size = Len(Encode(m)) - sent.lacks
      BY <2>1, <2>2, <2>3, ReadToTheEnd, Zenon
    <3>3. size \in 0..BUFFER_SIZE /\ Len(Encode(m)) \in Nat
      <4>1. Encode(m) \in Seq(Nat)
        BY <2>4, EncodeLayout, Zenon
      <4> QED BY <4>1 DEF PacketInv, ReaderInv
    <3>4. size = l /\ l \in Nat /\ l <= BUFFER_SIZE
      BY <2>2, <3>1, <3>2, <3>3, PacketConstants
    <3> HIDE DEF l
    <3>5. EndsInName(items) /\ ~(l < BUFFER_SIZE)
      BY <2>5, <3>4, Zenon DEF l
    <3>6. size = BUFFER_SIZE
      BY <3>4, <3>5, PacketConstants
    <3>7. EndsInName(m.sections)
      BY <2>4, <3>5, EndsAsMessage, Zenon
    <3> QED BY <3>6, <3>7
  <2> QED BY <2>1, <2>3, <2>5, <2>7, Zenon
<1>4. stage' \in {"sent", "overrun"}
  OBVIOUS
<1> QED BY <1>1, <1>2, <1>3, <1>4, SentBySending, Zenon

(* Whatever the messages of the kinds the code knows and the sizes of the  *)
(* arrays: reading one never overruns a name, and writing it overruns the  *)
(* response buffer only when it was compressed, when it fills the buffer   *)
(* and ends in a name, or when answers are added to it.                    *)
THEOREM OverrunsOnlyExpandedHolds ==
  ASSUME KnownDatagrams
  PROVE  Spec => []OverrunsOnlyExpanded
<1>1. Init => OverrunsOnlyExpanded
  BY DEF Init, OverrunsOnlyExpanded
<1> QED BY <1>1, OverrunsNext, PacketInvHolds, PTL DEF Spec

(* The last record of a message is that of its last section that has any.  *)
LEMMA LastRecordIs ==
  ASSUME NEW m \in Messages, NEW s \in Sections, Len(m.sections[s]) > 0,
         \A t \in Sections : t > s => Len(m.sections[t]) = 0
  PROVE  LastRecord(m) = Entry(m, s, Len(m.sections[s]))
<1>1. \A t \in Sections : m.sections[t] = <<>> <=> Len(m.sections[t]) = 0
  <2> SUFFICES ASSUME NEW t \in Sections PROVE m.sections[t] = <<>> <=> Len(m.sections[t]) = 0
    OBVIOUS
  <2>1. m.sections[t] \in Seq(Questions) \/ m.sections[t] \in Seq(Records)
    BY MessageFacts, Zenon DEF Writable
  <2>2. \A S : \A x \in Seq(S) : x = <<>> <=> Len(x) = 0
    OBVIOUS
  <2> QED BY <2>1, <2>2, Zenon
<1> DEFINE L(t) == /\ m.sections[t] # <<>>
                   /\ \A u \in Sections : u > t => m.sections[u] = <<>>
<1>2. L(s)
  <2>1. ~(Len(m.sections[s]) = 0)
    OBVIOUS
  <2> QED BY <1>1, <2>1, Zenon
<1>3. ASSUME NEW t \in Sections, L(t) PROVE t = s
  <2>1. ~(t > s) /\ ~(s > t)
    BY <1>1, <1>2, <1>3, Zenon
  <2> QED BY <2>1 DEF Sections
<1> DEFINE c == CHOOSE t \in Sections : L(t)
<1>4. c = s
  BY <1>2, <1>3, Zenon
<1>5. LastRecord(m) = m.sections[c][Len(m.sections[c])]
  BY Zenon DEF LastRecord
<1> QED BY <1>4, <1>5, Zenon DEF Entry

LEMMA CutNext ==
  PacketInv /\ CutMessagesDropped /\ [Next]_vars => CutMessagesDropped'
<1> SUFFICES ASSUME PacketInv, CutMessagesDropped, [Next]_vars, stage' = "sent",
                    sent'.message # NoMessage, sent'.lacks > 0
             PROVE  sent'.lacks <= 2 /\ LastRecord(sent'.message).type \in {QT_A, QT_AAAA}
  BY Zenon DEF CutMessagesDropped
<1>1. CASE UNCHANGED vars
  <2>1. sent' = sent /\ stage' = stage
    BY <1>1 DEF vars
  <2> QED BY <2>1, Zenon DEF CutMessagesDropped
<1>2. CASE Sending
  <2>1. stage = "process" /\ sent' = sent
    BY <1>2, SendingFrame
  <2>2. PICK m : m = sent.message
    OBVIOUS
  <2>3. Known
    BY <2>1 DEF Known
  <2>4. /\ m \in Messages /\ size = Len(Encode(m)) - sent.lacks /\ sent.lacks \in 0..Len(Encode(m))
        /\ Len(Encode(m)) \in Nat /\ pos = Len(Encode(m))
        /\ \A s \in Sections : Len(items[s]) = Len(m.sections[s])
        /\ pos > size => TailLost
    BY <2>1, <2>2, <2>3, ReadToTheEnd
  <2> DEFINE l == Len(Encode(m))
             k == sent.lacks
  <2>5. k > 0 /\ size = l - k /\ k \in 0..l /\ l \in Nat /\ pos = l /\ pos <= size + 2
    BY <2>1, <2>4 DEF PacketInv, ReaderInv, ReadsNearDatagram
  <2> HIDE DEF l, k
  <2>6. pos > size /\ k <= 2
    BY <2>5
  <2>7. PICK s \in Sections : /\ Len(items[s]) > 0 /\ \A t \in Sections : t > s => Len(items[t]) = 0
                              /\ Entry(m, s, Len(items[s])).type \in {QT_A, QT_AAAA}
    BY <2>2, <2>4, <2>6, Zenon DEF TailLost
  <2>8. Len(m.sections[s]) > 0 /\ \A t \in Sections : t > s => Len(m.sections[t]) = 0
    BY <2>4, <2>7
  <2>9. LastRecord(m) = Entry(m, s, Len(m.sections[s]))
    BY <2>4, <2>8, LastRecordIs, Zenon
  <2>10. LastRecord(m).type \in {QT_A, QT_AAAA}
    BY <2>4, <2>7, <2>9, Zenon
  <2> QED BY <2>1, <2>2, <2>6, <2>10 DEF k
<1>3. stage' # "overrun" /\ stage' \in {"sent", "overrun"}
  OBVIOUS
<1> QED BY <1>1, <1>2, <1>3, SentBySending, Zenon

(* Whatever the messages of the kinds the code knows and wherever they are *)
(* cut: a message without its end is sent on only when it ends in an       *)
(* address and no more than two octets of that are missing, those VREAD_U32*)
(* does not look for.                                                      *)
THEOREM CutMessagesDroppedHolds ==
  ASSUME KnownDatagrams
  PROVE  Spec => []CutMessagesDropped
<1>1. Init => CutMessagesDropped
  BY DEF Init, CutMessagesDropped
<1> QED BY <1>1, CutNext, PacketInvHolds, PTL DEF Spec

(* In a message that is whole nothing that Read rejects is met.            *)
LEMMA NameAccepted ==
  ASSUME ReaderInv, TypeInv, NEW w, NEW s, NEW e, NEW P, NEW q, EntryAt(w, s, e, P, q),
         ReadingAt(w, s, e, P, q), size = Len(w), stage = "name"
  PROVE  VALIDATE(1)
<1>1. AddressRead(s, e) /\ pos = NamePlace(e, P, q) /\ label.into \in {"Name", "Address"} /\ pos \in Nat
  BY DEF ReadingAt, TypeInv, LabelOK, ReaderInv
<1> DEFINE ls == NameOf(e)
           n == SharedOf(e)
           Q == NamePlace(e, P, q)
<1>2. NameHyp(w, Q, ls, n, q)
  BY <1>1, NameThere, Zenon
<1>3. pos = Q
  BY <1>1
<1> HIDE DEF ls, n, Q
<1>4. ls \in LabelSeqs /\ Len(ls) \in Nat /\ n \in Nat /\ n <= Len(ls) /\ Q \in Nat
  BY <1>2, HypNumbers, Zenon
<1>5. At(ls, 0) = 0
  BY <1>4, AtDef, Zenon
<1>6. 0 \in 0..Len(ls) /\ 0 <= Len(ls) - n /\ pos + 1 = Q + 0 + 1
  BY <1>3, <1>4
<1>7. NameSpot(Q, ls, n, q, 0, pos + 1, 0, 0)
  BY <1>5, <1>6, Zenon DEF NameSpot
<1>8. pos + 1 \in 1..Len(w)
  BY <1>2, <1>7, SpotInside, Zenon
<1> QED BY <1>1, <1>8 DEF VALIDATE

LEMMA LabelAccepted ==
  ASSUME ReaderInv, TypeInv, MAX_JUMPS > 1, NEW w, NEW s, NEW e, NEW P, NEW q, EntryAt(w, s, e, P, q),
         ReadingAt(w, s, e, P, q), Received(w), size = Len(w), stage = "label"
  PROVE  ~LabelFails
<1> DEFINE ls == NameOf(e)
           n == SharedOf(e)
           Q == NamePlace(e, P, q)
           c == label.c
<1>1. pos \in Nat /\ size \in Nat /\ pos <= size /\ c \in Octets /\ NameHyp(w, Q, ls, n, q)
  BY InName, Zenon
<1>2. PICK k \in 0..Len(ls) :
              /\ NameSpot(Q, ls, n, q, k, pos, label.jumps, label.resume)
              /\ \/ SpotEnds(ls, n, k, label.jumps, c)
                 \/ SpotText(w, Q, ls, n, q, k, pos, label.jumps, label.resume, c)
                 \/ SpotPointer(w, Q, ls, n, q, k, pos, label.jumps, c)
  BY InName, Zenon
<1> HIDE DEF ls, n, Q, c
<1>3. label.jumps # MAX_JUMPS
  <2>1. label.jumps = 0 \/ label.jumps = 1
    BY <1>2 DEF NameSpot
  <2> QED BY <2>1, PacketConstants
<1>4. CASE SpotEnds(ls, n, k, label.jumps, c)
  BY <1>3, <1>4 DEF SpotEnds, LabelFails, InLoop, c
<1>5. CASE SpotText(w, Q, ls, n, q, k, pos, label.jumps, label.resume, c)
  <2>1. c \in Nat /\ c >= 1 /\ c <= 63 /\ NameSpot(Q, ls, n, q, k + 1, pos + c + 1, label.jumps, label.resume)
    BY <1>5, Zenon DEF SpotText
  <2>2. pos + c + 1 \in 1..Len(w)
    BY <1>1, <2>1, SpotInside, Zenon
  <2>3. ~(c >= 192) /\ c \notin 64..191 /\ ~(pos + c >= size)
    BY <1>1, <2>1, <2>2
  <2> QED BY <1>3, <2>3, Zenon DEF LabelFails, c
<1>6. CASE SpotPointer(w, Q, ls, n, q, k, pos, label.jumps, c)
  <2>1. c \in 192..255 /\ pos + 1 <= Len(w)
    BY <1>6, Zenon DEF SpotPointer
  <2>2. PICK t \in Nat : 256 * (c - 192) + w[pos + 1] = t /\ NameSpot(Q, ls, n, q, k, t + 1, 1, pos + 1)
    BY <1>6, Zenon DEF SpotPointer
  <2>3. t + 1 \in 1..Len(w)
    BY <1>1, <2>2, SpotInside
  <2>4. buf[pos + 0] = w[pos + 1]
    <3>1. pos < size /\ pos + 0 = pos
      BY <1>1, <2>1
    <3> QED BY <1>1, <3>1, Zenon DEF Received
  <2>5. Target = t
    BY <2>2, <2>4 DEF Target, PEEK_BYTE, c
  <2>6. VALIDATE(1) /\ ~(Target >= size)
    BY <1>1, <2>1, <2>2, <2>3, <2>5 DEF VALIDATE
  <2>7. c \in Int /\ 192 <= c
    BY <2>1
  <2>8. c \notin 64..191 /\ ~(c < 64)
    BY <2>7
  <2>9. label.c \notin 64..191 /\ ~(label.c < 64)
    BY <2>8 DEF c
  <2> QED BY <1>3, <2>6, <2>9, Zenon DEF LabelFails
<1> QED BY <1>2, <1>4, <1>5, <1>6

LEMMA FieldsAccepted ==
  ASSUME ReaderInv, NEW w, NEW s, NEW e, NEW P, NEW q, EntryAt(w, s, e, P, q),
         ReadingAt(w, s, e, P, q), size = Len(w)
  PROVE  /\ stage = "fixed" => VALIDATE(Fixed(s))
         /\ stage = "data" => DataAllowed(item) /\ VALIDATE(DataChecked(item))
<1> DEFINE a == NameLength(e, q)
           l == Len(w)
<1>1. w \in Seq(Nat) /\ P \in Nat /\ a \in Nat
  BY FixedThere, Zenon
<1>2. l \in Nat /\ size = l
  BY <1>1
<1>3. P + ItemLength(s, e, q) <= l
  BY DEF EntryAt
<1>4. ASSUME stage = "fixed" PROVE VALIDATE(Fixed(s))
  <2>1. pos = P + a
    BY <1>4, Zenon DEF ReadingAt
  <2>2. CASE s = Question
    <3>1. ItemLength(s, e, q) = a + 4 /\ Fixed(s) = 4
      BY <2>2, Zenon DEF ItemLength, Fixed
    <3> HIDE DEF a, l
    <3> QED BY <1>1, <1>2, <1>3, <2>1, <3>1 DEF VALIDATE
  <2>3. CASE s # Question
    <3> DEFINE d == Len(DataOctets(e))
    <3>1. ItemLength(s, e, q) = a + 10 + d /\ Fixed(s) = 10
      BY <2>3, Zenon DEF ItemLength, Fixed
    <3>2. d \in Nat
      BY <2>3, DataLength, Zenon DEF EntryAt
    <3> HIDE DEF a, l, d
    <3> QED BY <1>1, <1>2, <1>3, <2>1, <3>1, <3>2 DEF VALIDATE
  <2> QED BY <2>2, <2>3
<1>5. ASSUME stage = "data" PROVE DataAllowed(item) /\ VALIDATE(DataChecked(item))
  <2>1. pos = P + a + 10 /\ s # Question /\ item = RecordSoFar(e, <<>>)
    BY <1>5, Zenon DEF ReadingAt
  <2>2. e \in Records /\ RecordAt(w, P, e, q)
    BY <2>1, Zenon DEF EntryAt, ItemAt
  <2>3. item.type = e.type
    BY <2>1 DEF RecordSoFar
  <2> DEFINE n == Len(e.data)
  <2>4. /\ n \in Nat
        /\ e.type \in Named => DataChecked(item) = n
        /\ e.type \notin Named => e.type \in {QT_A, QT_AAAA} /\ DataChecked(item) = n - 2
    BY <2>2, <2>3, DataReadIs, Zenon
  <2>5. DataAllowed(item)
    BY <2>3, <2>4 DEF DataAllowed
  <2>6. pos + n <= l
    BY <2>1, <2>2, Zenon DEF RecordAt, Holds
  <2>7. VALIDATE(DataChecked(item))
    <3>1. pos \in Nat
      BY DEF ReaderInv
    <3> HIDE DEF n, l
    <3> QED BY <1>2, <2>4, <2>6, <3>1 DEF VALIDATE
  <2> QED BY <2>5, <2>7
<1> QED BY <1>4, <1>5

(* Nothing of ReadFails holds while a whole message is read.               *)
LEMMA ReadAccepts ==
  ASSUME PacketInv, Whole, MAX_JUMPS > 1
  PROVE  ~ReadFails
<1>1. CASE stage \notin Reading
  BY <1>1 DEF ReadFails, Reading
<1>2. CASE stage \in Reading
  <2>1. ReaderInv /\ TypeInv /\ ParseInv /\ Known
    BY DEF PacketInv, Whole, Known
  <2>2. PICK m : m = sent.message
    OBVIOUS
  <2>3. PICK n : n = Lens
    OBVIOUS
  <2>4. /\ SentOK /\ m \in Messages /\ Received(Encode(m))
        /\ \E s \in Sections :
             /\ AtSection(m, n, s) /\ Section = s
             /\ ReadingAt(Encode(m), s, Entry(m, s, n[s] + 1), Place(m, n), FirstName(m))
             /\ EntryAt(Encode(m), s, Entry(m, s, n[s] + 1), Place(m, n), FirstName(m))
    BY <1>2, <2>1, <2>2, <2>3, CurrentEntry
  <2>5. PICK s \in Sections :
             /\ Section = s
             /\ ReadingAt(Encode(m), s, Entry(m, s, n[s] + 1), Place(m, n), FirstName(m))
             /\ EntryAt(Encode(m), s, Entry(m, s, n[s] + 1), Place(m, n), FirstName(m))
    BY <2>4, Zenon
  <2>6. PICK w, e, P, q : w = Encode(m) /\ e = Entry(m, s, n[s] + 1) /\ P = Place(m, n) /\ q = FirstName(m)
    BY Zenon
  <2>7. ReadingAt(w, s, e, P, q) /\ EntryAt(w, s, e, P, q) /\ Received(w) /\ Section = s
    BY <2>4, <2>5, <2>6, Zenon
  <2>8. size = Len(w)
    <3>1. size = Len(w) - sent.lacks /\ sent.lacks = 0
      BY <2>2, <2>4, <2>6, Zenon DEF SentOK, Whole
    <3>2. w \in Seq(Nat)
      BY <2>7 DEF EntryAt
    <3> QED BY <3>1, <3>2
  <2>9. stage = "name" => VALIDATE(1)
    BY <2>1, <2>7, <2>8, NameAccepted, Zenon
  <2>10. stage = "label" => ~LabelFails
    BY <2>1, <2>7, <2>8, LabelAccepted, Zenon
  <2>11. /\ stage = "fixed" => VALIDATE(Fixed(Section))
         /\ stage = "data" => DataAllowed(item) /\ VALIDATE(DataChecked(item))
    BY <2>1, <2>7, <2>8, FieldsAccepted, Zenon
  <2> QED BY <2>9, <2>10, <2>11, Zenon DEF ReadFails
<1> QED BY <1>1, <1>2

(* Validate accepts a plain query.                                         *)
LEMMA RequestAccepted ==
  ASSUME PacketInv, Whole, Request
  PROVE  Validate(header, items)
<1>1. stage = "process" /\ ~GetQueryResponse(header)
  BY DEF Request
<1>2. PICK m : m = sent.message
  OBVIOUS
<1>3. m \in Messages /\ HeaderRead
  BY <1>1, <1>2, WholeRead, Zenon
<1>4. /\ header.hb3 = m.hb3 /\ header.hb4 = m.hb4
      /\ \A s \in Sections : header.count[s] = Len(m.sections[s])
  BY <1>2, <1>3, Zenon DEF HeaderRead
<1>5. ~GetQueryResponse(m)
  BY <1>1, <1>4, Zenon DEF GetQueryResponse
<1>6. PlainQuery(m) /\ Len(m.sections[Question]) > 0
  BY <1>3, <1>5, MessageFacts, Zenon
<1>7. /\ GetOpCode(m) = 0 /\ ~GetTruncatedMessage(m) /\ GetResponseCode(m) = E_NOERROR
      /\ m.sections[Answer] = <<>> /\ m.sections[Authority] = <<>>
  BY <1>6, Zenon DEF PlainQuery
<1>8. /\ GetOpCode(header) = 0 /\ ~GetTruncatedMessage(header) /\ GetResponseCode(header) = E_NOERROR
  BY <1>4, <1>7, Zenon DEF GetOpCode, GetTruncatedMessage, GetResponseCode
<1>9. /\ header.count[Question] # 0 /\ ~(header.count[Answer] > 0) /\ ~(header.count[Authority] > 0)
  <2>1. Question \in Sections /\ Answer \in Sections /\ Authority \in Sections
    BY DEF Sections, Question, Answer, Authority
  <2>2. Len(<<>>) = 0 /\ ~(0 > 0)
    OBVIOUS
  <2>3. header.count[Answer] = 0 /\ header.count[Authority] = 0
    BY <1>4, <1>7, <2>1, <2>2
  <2>4. header.count[Question] > 0
    BY <1>4, <1>6, <2>1
  <2> QED BY <2>2, <2>3, <2>4
<1>10. HeaderValidate(header) = E_NOERROR
  BY <1>8, <1>9, Zenon DEF HeaderValidate
<1> QED BY <1>10, Zenon DEF Validate

LEMMA AcceptsNext ==
  PacketInv /\ MAX_JUMPS > 1 /\ AcceptsWellFormed /\ [Next]_vars => AcceptsWellFormed'
<1> SUFFICES ASSUME PacketInv, MAX_JUMPS > 1, AcceptsWellFormed, [Next]_vars, stage' = "dropped", Whole'
             PROVE  size' < SIZEOF_HEADER
  BY Zenon DEF AcceptsWellFormed
<1>1. CASE UNCHANGED vars
  <2>1. sent' = sent /\ stage' = stage /\ size' = size
    BY <1>1 DEF vars
  <2>2. Whole
    BY <2>1, Zenon DEF Whole
  <2> QED BY <2>1, <2>2, Zenon DEF AcceptsWellFormed
<1>2. ASSUME NEW d \in Datagrams, receive(d) PROVE size' < SIZEOF_HEADER
  BY <1>2 DEF receive
<1>3. ~Again /\ ~ReadHeader /\ ~Sending
  <2>1. ~Again
    BY DEF Again
  <2>2. ~ReadHeader
    BY NextStageReads DEF ReadHeader
  <2>3. ~Sending
    BY SendingFrame
  <2> QED BY <2>1, <2>2, <2>3
<1>4. ~ReadStep
  <2>1. ~ReadLabel /\ ~ReadPointer /\ ~ReadText
    BY DEF ReadLabel, ReadPointer, ReadText, TextThere, InLoop
  <2>2. "dropped" # "fixed" /\ "dropped" # "name" /\ "dropped" # "data" /\ \A h, is : NextStage(h, is) # "dropped"
    BY NextStageReads
  <2>3. ~EndLabel /\ ~ReadData
    BY <2>2, Zenon DEF EndLabel, ReadData
  <2>4. ~ReadQuestion /\ ~ReadRecord
    BY <2>2, Zenon DEF ReadQuestion, ReadRecord
  <2> QED BY <2>1, <2>3, <2>4 DEF ReadStep
<1>5. ~Drop
  <2> SUFFICES ASSUME Drop PROVE FALSE
    OBVIOUS
  <2>1. sent' = sent /\ (ReadFails \/ (Request /\ ~Validate(header, items)))
    BY DEF Drop
  <2>2. Whole
    BY <2>1, Zenon DEF Whole
  <2> QED BY <2>1, <2>2, ReadAccepts, RequestAccepted, Zenon
<1>6. ~ReadTextOverruns
  BY DEF ReadTextOverruns
<1> QED BY <1>1, <1>2, <1>3, <1>4, <1>5, <1>6, NextCases, Zenon

(* Whatever the messages of the kinds the code knows: none that arrives    *)
(* whole and has the size of a DnsHeader object is dropped, when the limit *)
(* on pointers leaves room for one.                                        *)
THEOREM AcceptsWellFormedHolds ==
  ASSUME KnownDatagrams, MAX_JUMPS > 1
  PROVE  Spec => []AcceptsWellFormed
<1>1. Init => AcceptsWellFormed
  BY DEF Init, AcceptsWellFormed
<1>2. PacketInv /\ AcceptsWellFormed /\ [Next]_vars => AcceptsWellFormed'
  BY AcceptsNext
<1> QED BY <1>1, <1>2, PacketInvHolds, PTL DEF Spec

(* The answer to a question for an IPv4 address.                           *)
AnswerTo(q, a) ==
  [labels |-> q.labels, shared |-> 0, type |-> q.type, class |-> q.class,
   ttl |-> ONE_HOUR, data |-> a, host |-> NoHost]

LEMMA TargetOctets ==
  LET a == HostU32(TARGET, 0) IN a \in Seq(Octets) /\ Len(a) = 4
<1>1. /\ HostU32(TARGET, 0) = <<TARGET[4 * 0 + 4], TARGET[4 * 0 + 3], TARGET[4 * 0 + 2], TARGET[4 * 0 + 1]>>
      /\ 4 * 0 + 4 \in 1..16 /\ 4 * 0 + 3 \in 1..16 /\ 4 * 0 + 2 \in 1..16 /\ 4 * 0 + 1 \in 1..16
  BY DEF HostU32
<1>2. \A i \in 1..16 : TARGET[i] \in Octets
  BY TargetConstants
<1> DEFINE w == TARGET[4 * 0 + 4]
           x == TARGET[4 * 0 + 3]
           y == TARGET[4 * 0 + 2]
           z == TARGET[4 * 0 + 1]
<1>3. w \in Octets /\ x \in Octets /\ y \in Octets /\ z \in Octets
  BY <1>1, <1>2, Zenon
<1> HIDE DEF w, x, y, z
<1>4. <<w, x, y, z>> \in Seq(Octets) /\ Len(<<w, x, y, z>>) = 4
  BY <1>3
<1> QED BY <1>1, <1>4 DEF w, x, y, z

LEMMA AnswerRecord ==
  ASSUME NEW q \in Questions, q.type = QT_A, NEW a \in Seq(Octets), Len(a) = 4
  PROVE  AnswerTo(q, a) \in Records
<1>1. q.labels \in Names /\ q.type \in U16 /\ q.class \in U16
  BY DEF Questions
<1>2. ONE_HOUR \in [1..4 -> Octets]
  BY DEF ONE_HOUR, Octets
<1>3. AnswerTo(q, a) \in [labels : Names, shared : Nat, type : U16, class : U16,
          ttl : [1..4 -> Octets], data : Seq(Octets), host : Names \cup {NoHost}]
  BY <1>1, <1>2 DEF AnswerTo
<1>4. AnswerTo(q, a).type = QT_A /\ AnswerTo(q, a).data = a /\ AnswerTo(q, a).host = NoHost
  BY DEF AnswerTo
<1> QED BY <1>3, <1>4, Zenon DEF Records

LEMMA RedirectAnswerIs ==
  ASSUME NEW x, x.type = QT_A
  PROVE  RedirectAnswer(x) =
           [name |-> x.name, type |-> x.type, class |-> x.class, ttl |-> ONE_HOUR, len |-> 4,
            data |-> HostU32(TARGET, 0), host |-> <<>>]
<1> DEFINE a == HostU32(TARGET, 0)
           u == UpdateFromQuestion(x)
           n == x.name
           t == x.type
           c == x.class
           l == CASE x.type = QT_A -> 4 [] x.type = QT_AAAA -> 16 [] OTHER -> u.len
           d == CASE x.type = QT_A -> HostU32(TARGET, 0)
                  [] x.type = QT_AAAA -> Concat([k \in 1..4 |-> HostU32(TARGET, k - 1)])
                  [] OTHER -> u.data
<1>1. l = 4
  BY DEF QT_A, QT_AAAA
<1>2. d = a
  <2>1. QT_A # QT_AAAA
    BY DEF QT_A, QT_AAAA
  <2> HIDE DEF a
  <2> QED BY <2>1, Zenon DEF a
<1>3. \E y, z : u = [name |-> n, type |-> t, class |-> c, ttl |-> y, len |-> 0, data |-> z, host |-> <<>>]
  BY Zenon DEF UpdateFromQuestion
<1>4. PICK y, z : u = [name |-> n, type |-> t, class |-> c, ttl |-> y, len |-> 0, data |-> z, host |-> <<>>]
  BY <1>3
<1>5. RedirectAnswer(x) = [u EXCEPT !.ttl = ONE_HOUR, !.len = l, !.data = d]
  BY <1>4 DEF RedirectAnswer
<1> HIDE DEF a, u, l, d, n, t, c
<1> DEFINE v == [u EXCEPT !.ttl = ONE_HOUR]
           w == [v EXCEPT !.len = l]
<1>6. [u EXCEPT !.ttl = ONE_HOUR, !.len = l, !.data = d] = [w EXCEPT !.data = d]
  BY <1>4
<1>7. v = [name |-> n, type |-> t, class |-> c, ttl |-> ONE_HOUR, len |-> 0, data |-> z, host |-> <<>>]
  BY <1>4
<1> HIDE DEF v
<1>8. w = [name |-> n, type |-> t, class |-> c, ttl |-> ONE_HOUR, len |-> l, data |-> z, host |-> <<>>]
  BY <1>7
<1> HIDE DEF w
<1>9. [w EXCEPT !.data = d] = [name |-> n, type |-> t, class |-> c, ttl |-> ONE_HOUR, len |-> l, data |-> d, host |-> <<>>]
  BY <1>8
<1> QED BY <1>1, <1>2, <1>5, <1>6, <1>9 DEF n, t, c, a

(* RedirectAnswer makes the item that Read would make of the answer.       *)
LEMMA AnswerParsed ==
  ASSUME NEW q \in Questions, q.type = QT_A
  PROVE  Parsed(Answer, AnswerTo(q, HostU32(TARGET, 0))) = RedirectAnswer(ParsedQuestion(q))
<1> DEFINE a == HostU32(TARGET, 0)
           e == AnswerTo(q, a)
<1>1. a \in Seq(Octets) /\ Len(a) = 4
  BY TargetOctets, Zenon
<1>2. e \in Records
  BY <1>1, AnswerRecord, Zenon
<1> HIDE DEF a
<1>3. /\ e.labels = q.labels /\ e.type = q.type /\ e.class = q.class /\ e.ttl = ONE_HOUR /\ e.data = a
      /\ e.host = NoHost
  BY DEF AnswerTo
<1>4. ParsedQuestion(q).name = Dotted(q.labels) /\ ParsedQuestion(q).type = q.type
      /\ ParsedQuestion(q).class = q.class
  BY DEF ParsedQuestion
<1> HIDE DEF e
<1>5. e.type \notin Named
  BY <1>3 DEF Named, QT_A, QT_NS, QT_CNAME, QT_MX
<1>6. DataOctets(e) = a
  BY <1>2, <1>3, <1>5, DataFacts, Zenon
<1>7. Parsed(Answer, e) = ParsedRecord(e)
  BY DEF Parsed, Answer, Question
<1>8. ParsedRecord(e) = [name |-> Dotted(q.labels), type |-> q.type, class |-> q.class, ttl |-> ONE_HOUR,
                         len |-> 4, data |-> a, host |-> <<>>]
  BY <1>1, <1>3, <1>6, Zenon DEF ParsedRecord, HostName
<1>9. RedirectAnswer(ParsedQuestion(q)) = [name |-> Dotted(q.labels), type |-> q.type, class |-> q.class,
                         ttl |-> ONE_HOUR, len |-> 4, data |-> a, host |-> <<>>]
  BY <1>4, RedirectAnswerIs, Zenon DEF a
<1> QED BY <1>7, <1>8, <1>9 DEF a, e

-----------------------------------------------------------------------------
(* The packet after updateRedirectResponse, and the message it stands for. *)
Redirected(m, a) ==
  [m.sections EXCEPT ![Answer] = [i \in DOMAIN m.sections[Question] |-> AnswerTo(m.sections[Question][i], a)]]

LEMMA RedirectToIs ==
  ASSUME NEW m \in Messages, NEW a
  PROVE  RedirectTo(m, a) = [id |-> m.id, hb3 |-> SetBit(SetBit(m.hb3, 7), 2), hb4 |-> SetBit(m.hb4, 7),
                             sections |-> Redirected(m, a)]
<1> DEFINE i == m.id
           b == m.hb3
           c == m.hb4
           f == m.sections
           x == [k \in DOMAIN m.sections[Question] |-> AnswerTo(m.sections[Question][k], a)]
           u == SetBit(SetBit(m.hb3, 7), 2)
           v == SetBit(m.hb4, 7)
<1>1. m = [id |-> i, hb3 |-> b, hb4 |-> c, sections |-> f]
  BY MessageFacts, Zenon DEF Writable
<1>2. RedirectTo(m, a) = [m EXCEPT !.hb3 = u, !.hb4 = v, !.sections[Answer] = x]
  BY <1>1 DEF RedirectTo, AnswerTo
<1>3. Redirected(m, a) = [f EXCEPT ![Answer] = x]
  BY Zenon DEF Redirected
<1> HIDE DEF i, b, c, f, x, u, v
<1> DEFINE r == [m EXCEPT !.hb3 = u]
           s == [r EXCEPT !.hb4 = v]
<1>4. [m EXCEPT !.hb3 = u, !.hb4 = v, !.sections[Answer] = x] = [s EXCEPT !.sections[Answer] = x]
  BY <1>1
<1>5. r = [id |-> i, hb3 |-> u, hb4 |-> c, sections |-> f]
  BY <1>1
<1> HIDE DEF r
<1>6. s = [id |-> i, hb3 |-> u, hb4 |-> v, sections |-> f]
  BY <1>5
<1> HIDE DEF s
<1>7. [s EXCEPT !.sections[Answer] = x] = [id |-> i, hb3 |-> u, hb4 |-> v, sections |-> [f EXCEPT ![Answer] = x]]
  BY <1>6
<1> QED BY <1>2, <1>3, <1>4, <1>7 DEF i, u, v

(* A query for IPv4 addresses, whose every question gets an answer.        *)
AddressQuery(m) ==
  m \in Messages /\ \A i \in DOMAIN m.sections[Question] : m.sections[Question][i].type = QT_A

LEMMA QuestionsAsked ==
  ASSUME NEW m, AddressQuery(m)
  PROVE  LET n == Len(m.sections[Question])
         IN /\ n \in Nat /\ n > 0 /\ DOMAIN m.sections[Question] = 1..n
            /\ \A i \in 1..n : m.sections[Question][i] \in Questions /\ m.sections[Question][i].type = QT_A
<1>1. m \in Messages
  BY DEF AddressQuery
<1>2. Question \in Sections
  BY DEF Question, Sections
<1>3. /\ Len(m.sections[Question]) \in Nat /\ Len(m.sections[Question]) > 0
      /\ DOMAIN m.sections[Question] = 1..Len(m.sections[Question])
      /\ \A i \in 1..Len(m.sections[Question]) : Entry(m, Question, i) \in Questions
  BY <1>1, <1>2, MessageFacts, Zenon
<1> QED BY <1>3, Zenon DEF AddressQuery, Entry

LEMMA RedirectedSections ==
  ASSUME NEW m \in Messages, NEW a
  PROVE  /\ Redirected(m, a) = [s \in Sections |-> Redirected(m, a)[s]]
         /\ Redirected(m, a)[Answer] =
              [i \in DOMAIN m.sections[Question] |-> AnswerTo(m.sections[Question][i], a)]
         /\ \A s \in Sections : s # Answer => Redirected(m, a)[s] = m.sections[s]
<1> DEFINE f == m.sections
           x == [i \in DOMAIN m.sections[Question] |-> AnswerTo(m.sections[Question][i], a)]
<1>1. f \in [Sections -> Seq(Questions \cup Records)]
  BY DEF Messages
<1>2. Redirected(m, a) = [f EXCEPT ![Answer] = x]
  BY Zenon DEF Redirected
<1>3. Answer \in Sections
  BY DEF Answer, Sections
<1>4. f = [s \in Sections |-> f[s]]
  BY <1>1
<1> HIDE DEF f, x
<1>5. [f EXCEPT ![Answer] = x] = [s \in Sections |-> IF s = Answer THEN x ELSE f[s]]
  BY <1>4, Zenon
<1>6. /\ Redirected(m, a)[Answer] = x /\ \A s \in Sections : s # Answer => Redirected(m, a)[s] = f[s]
      /\ Redirected(m, a) = [s \in Sections |-> Redirected(m, a)[s]]
  BY <1>2, <1>3, <1>5
<1> QED BY <1>6 DEF f, x

(* The answer is a message Write can write.                                *)
LEMMA RedirectWritable ==
  ASSUME NEW m, AddressQuery(m), NEW a \in Seq(Octets), Len(a) = 4
  PROVE  LET r == RedirectTo(m, a)
         IN /\ Writable(r) /\ r.id = m.id /\ r.hb3 = SetBit(SetBit(m.hb3, 7), 2) /\ r.hb4 = SetBit(m.hb4, 7)
            /\ r.sections = Redirected(m, a)
            /\ Len(Redirected(m, a)[Answer]) = Len(m.sections[Question])
<1> DEFINE r == RedirectTo(m, a)
           b == SetBit(SetBit(m.hb3, 7), 2)
           c == SetBit(m.hb4, 7)
           f == Redirected(m, a)
           n == Len(m.sections[Question])
<1>0. m \in Messages
  BY DEF AddressQuery
<1>1. r = [id |-> m.id, hb3 |-> b, hb4 |-> c, sections |-> f]
  BY <1>0, RedirectToIs, Zenon
<1>2. /\ f[Answer] = [i \in DOMAIN m.sections[Question] |-> AnswerTo(m.sections[Question][i], a)]
      /\ \A s \in Sections : s # Answer => f[s] = m.sections[s]
  BY <1>0, RedirectedSections
<1>3. /\ n \in Nat /\ DOMAIN m.sections[Question] = 1..n
      /\ \A i \in 1..n : m.sections[Question][i] \in Questions /\ m.sections[Question][i].type = QT_A
  BY QuestionsAsked, Zenon
<1>4. Writable(m)
  BY <1>0, MessageFacts, Zenon
<1> HIDE DEF r, b, c, f, n
<1>5. r.id = m.id /\ r.hb3 = b /\ r.hb4 = c /\ r.sections = f
  BY <1>1
<1>6. f[Answer] \in Seq(Records) /\ Len(f[Answer]) = n
  <2>1. \A i \in 1..n : AnswerTo(m.sections[Question][i], a) \in Records
    BY <1>3, AnswerRecord, Zenon
  <2>2. f[Answer] = [i \in 1..n |-> AnswerTo(m.sections[Question][i], a)]
    BY <1>2, <1>3
  <2>3. f[Answer] = [i \in 1..n |-> f[Answer][i]] /\ \A i \in 1..n : f[Answer][i] \in Records
    BY <2>1, <2>2, Zenon
  <2> QED BY <1>3, <2>3, FunctionSeq, Zenon
<1>7. Writable(r)
  <2>1. Question \in Sections /\ Question # Answer
    BY DEF Question, Answer, Sections
  <2>2. r.sections[Question] \in Seq(Questions)
    BY <1>2, <1>4, <1>5, <2>1, Zenon DEF Writable
  <2>3. ASSUME NEW s \in Sections, s # Question PROVE r.sections[s] \in Seq(Records)
    <3>1. CASE s = Answer
      BY <1>5, <1>6, <3>1
    <3>2. CASE s # Answer
      BY <1>2, <1>4, <1>5, <2>3, <3>2, Zenon DEF Writable
    <3> QED BY <3>1, <3>2
  <2>4. r = [id |-> r.id, hb3 |-> r.hb3, hb4 |-> r.hb4, sections |-> r.sections]
    BY <1>1, <1>5
  <2> QED BY <2>2, <2>3, <2>4, Zenon DEF Writable
<1> QED BY <1>5, <1>6, <1>7 DEF r, b, c, f, n

(* SetAnswers makes of the items of a query those of its answer.           *)
LEMMA RedirectItems ==
  ASSUME NEW m, AddressQuery(m)
  PROVE  ParsedItems(RedirectTo(m, HostU32(TARGET, 0))) = SetAnswers(ParsedItems(m))
<1> DEFINE a == HostU32(TARGET, 0)
           r == RedirectTo(m, a)
           f == r.sections
           g == m.sections
           p == ParsedItems(m)
           n == Len(m.sections[Question])
<1>0. m \in Messages /\ Question \in Sections /\ Answer \in Sections /\ Question # Answer
  BY DEF AddressQuery, Question, Answer, Sections
<1>1. a \in Seq(Octets) /\ Len(a) = 4
  BY TargetOctets, Zenon
<1>2. f = Redirected(m, a)
  BY <1>1, RedirectWritable, Zenon
<1>3. /\ n \in Nat /\ n > 0 /\ DOMAIN g[Question] = 1..n
      /\ \A i \in 1..n : g[Question][i] \in Questions /\ g[Question][i].type = QT_A
  BY QuestionsAsked, Zenon
<1>4. /\ f[Answer] = [i \in 1..n |-> AnswerTo(g[Question][i], a)]
      /\ \A s \in Sections : s # Answer => f[s] = g[s]
  <2>1. /\ Redirected(m, a)[Answer] = [i \in DOMAIN g[Question] |-> AnswerTo(g[Question][i], a)]
        /\ \A s \in Sections : s # Answer => Redirected(m, a)[s] = g[s]
    BY <1>0, RedirectedSections, Zenon
  <2> HIDE DEF a, f, g, n
  <2> QED BY <1>2, <1>3, <2>1
<1>5. \A i \in 1..n : Parsed(Answer, AnswerTo(g[Question][i], a)) = RedirectAnswer(ParsedQuestion(g[Question][i]))
  BY <1>3, AnswerParsed, Zenon
<1>6. /\ p = [s \in Sections |-> [i \in DOMAIN g[s] |-> Parsed(s, g[s][i])]]
      /\ ParsedItems(r) = [s \in Sections |-> [i \in DOMAIN f[s] |-> Parsed(s, f[s][i])]]
  BY Zenon DEF ParsedItems
<1>7. \A e : Parsed(Question, e) = ParsedQuestion(e)
  BY DEF Parsed
<1> HIDE DEF a, r, f, g, p, n
<1>8. p[Question] = [i \in 1..n |-> ParsedQuestion(g[Question][i])]
  <2>1. p[Question] = [i \in DOMAIN g[Question] |-> Parsed(Question, g[Question][i])]
    BY <1>0, <1>6
  <2> QED BY <1>3, <1>7, <2>1, Zenon
<1>9. p[Question] # <<>> /\ DOMAIN p[Question] = 1..n
  <2>1. DOMAIN p[Question] = 1..n
    BY <1>8
  <2>2. 1 \in 1..n
    BY <1>3
  <2>3. DOMAIN <<>> = 1..0 /\ 1 \notin 1..0
    OBVIOUS
  <2> QED BY <2>1, <2>2, <2>3
<1> DEFINE x == [i \in 1..n |-> RedirectAnswer(p[Question][i])]
<1>10. SetAnswers(p) = [p EXCEPT ![Answer] = x]
  <2>1. SetAnswers(p) = [p EXCEPT ![Answer] = [i \in DOMAIN p[Question] |-> RedirectAnswer(p[Question][i])]]
    BY <1>9, Zenon DEF SetAnswers
  <2>2. [i \in DOMAIN p[Question] |-> RedirectAnswer(p[Question][i])] = x
    BY <1>9, Zenon
  <2> QED BY <2>1, <2>2, Zenon
<1>11. [i \in DOMAIN f[Answer] |-> Parsed(Answer, f[Answer][i])] = x
  <2>1. DOMAIN f[Answer] = 1..n /\ \A i \in 1..n : f[Answer][i] = AnswerTo(g[Question][i], a)
    BY <1>4
  <2>2. \A i \in 1..n : p[Question][i] = ParsedQuestion(g[Question][i])
    BY <1>8
  <2>3. \A i \in 1..n : Parsed(Answer, f[Answer][i]) = RedirectAnswer(p[Question][i])
    BY <1>5, <2>1, <2>2, Zenon
  <2>4. [i \in 1..n |-> Parsed(Answer, f[Answer][i])] = [i \in 1..n |-> RedirectAnswer(p[Question][i])]
    BY <2>3, Zenon
  <2> QED BY <2>1, <2>4, Zenon
<1> HIDE DEF x
<1>12. [p EXCEPT ![Answer] = x] = [s \in Sections |-> IF s = Answer THEN x ELSE p[s]]
  <2>1. p = [s \in Sections |-> p[s]]
    BY <1>6
  <2> QED BY <2>1, Zenon
<1>13. \A s \in Sections : [i \in DOMAIN f[s] |-> Parsed(s, f[s][i])] = IF s = Answer THEN x ELSE p[s]
  <2> SUFFICES ASSUME NEW s \in Sections
               PROVE  [i \in DOMAIN f[s] |-> Parsed(s, f[s][i])] = IF s = Answer THEN x ELSE p[s]
    OBVIOUS
  <2>1. CASE s = Answer
    BY <1>11, <2>1, Zenon
  <2>2. CASE s # Answer
    <3>1. f[s] = g[s]
      BY <1>4, <2>2
    <3>2. p[s] = [i \in DOMAIN g[s] |-> Parsed(s, g[s][i])]
      BY <1>6
    <3> QED BY <2>2, <3>1, <3>2, Zenon
  <2> QED BY <2>1, <2>2
<1>14. ParsedItems(r) = [s \in Sections |-> IF s = Answer THEN x ELSE p[s]]
  BY <1>6, <1>13, Zenon
<1> QED BY <1>10, <1>12, <1>14 DEF a, r, p

-----------------------------------------------------------------------------
(* HeaderShape, of any header.                                             *)
Shaped(h) ==
  /\ h = [id |-> h.id, hb3 |-> h.hb3, hb4 |-> h.hb4, count |-> h.count]
  /\ h.count = [s \in Sections |-> h.count[s]]

(* The header of the answer: its flags and its counts.                     *)
LEMMA RedirectHeaderIs ==
  ASSUME NEW h, Shaped(h), h.count[Question] # 0
  PROVE  LET k == RedirectHeader(h)
         IN /\ k.id = h.id /\ k.hb3 = SetBit(SetBit(h.hb3, 7), 2) /\ k.hb4 = SetBit(h.hb4, 7)
            /\ k.count[Answer] = h.count[Question]
            /\ \A s \in Sections : s # Answer => k.count[s] = h.count[s]
<1> DEFINE i == h.id
           b == h.hb3
           c == h.hb4
           f == h.count
           q == h.count[Question]
           u == SetBit(b, 7)
           v == SetBit(u, 2)
           w == SetBit(c, 7)
           h1 == SetAsQueryResponse(h)
           h2 == SetAsAuthoritativeAnswer(h1)
           h3 == SetRecursionAvailable(h2)
           k == RedirectHeader(h)
<1>1. h = [id |-> i, hb3 |-> b, hb4 |-> c, count |-> f]
  BY DEF Shaped
<1>2. k = [h3 EXCEPT !.count[Answer] = IF q = 0 THEN @ ELSE q]
  BY DEF RedirectHeader
<1>3. q # 0 /\ f = [s \in Sections |-> f[s]] /\ Answer \in Sections
  BY DEF Answer, Sections, Shaped
<1>4. h1 = [id |-> i, hb3 |-> u, hb4 |-> c, count |-> f]
  <2> HIDE DEF i, b, c, f
  <2> QED BY <1>1 DEF SetAsQueryResponse
<1> HIDE DEF i, b, c, f, q, u, h1, k
<1>5. h2 = [id |-> i, hb3 |-> v, hb4 |-> c, count |-> f]
  BY <1>4 DEF SetAsAuthoritativeAnswer
<1> HIDE DEF v, h2
<1>6. h3 = [id |-> i, hb3 |-> v, hb4 |-> w, count |-> f]
  BY <1>5 DEF SetRecursionAvailable
<1> HIDE DEF w, h3
<1>7. k = [h3 EXCEPT !.count[Answer] = q]
  BY <1>2, <1>3, <1>6
<1>8. k = [id |-> i, hb3 |-> v, hb4 |-> w, count |-> [f EXCEPT ![Answer] = q]]
  BY <1>6, <1>7
<1>9. k.id = i /\ k.hb3 = v /\ k.hb4 = w /\ k.count = [f EXCEPT ![Answer] = q]
  BY <1>8
<1>10. k.count[Answer] = q /\ \A s \in Sections : s # Answer => k.count[s] = f[s]
  BY <1>3, <1>9
<1> QED BY <1>9, <1>10 DEF i, b, c, f, q, u, v, w, k

(* What is written of a redirected query.                                  *)
LEMMA RedirectWritten ==
  ASSUME NEW m, AddressQuery(m), NEW h, Shaped(h),
         h.id = m.id, h.hb3 = m.hb3, h.hb4 = m.hb4,
         \A s \in Sections : h.count[s] = Len(m.sections[s])
  PROVE  Write(RedirectHeader(h), SetAnswers(ParsedItems(m))) =
           Encode(InFull(RedirectTo(m, HostU32(TARGET, 0))))
<1> DEFINE a == HostU32(TARGET, 0)
           r == RedirectTo(m, a)
           k == RedirectHeader(h)
<1>0. m \in Messages /\ Question \in Sections /\ Answer \in Sections
  BY DEF AddressQuery, Question, Answer, Sections
<1>1. a \in Seq(Octets) /\ Len(a) = 4
  BY TargetOctets, Zenon
<1>2. /\ Writable(r) /\ r.id = m.id /\ r.hb3 = SetBit(SetBit(m.hb3, 7), 2) /\ r.hb4 = SetBit(m.hb4, 7)
      /\ r.sections = Redirected(m, a)
      /\ Len(Redirected(m, a)[Answer]) = Len(m.sections[Question])
  BY <1>1, RedirectWritable, Zenon
<1>3. h.count[Question] = Len(m.sections[Question]) /\ h.count[Question] # 0
  <2>1. Len(m.sections[Question]) \in Nat /\ Len(m.sections[Question]) > 0
    BY QuestionsAsked, Zenon
  <2>2. h.count[Question] = Len(m.sections[Question])
    BY <1>0, Zenon
  <2> QED BY <2>1, <2>2
<1>4. /\ k.id = h.id /\ k.hb3 = SetBit(SetBit(h.hb3, 7), 2) /\ k.hb4 = SetBit(h.hb4, 7)
      /\ k.count[Answer] = h.count[Question]
      /\ \A s \in Sections : s # Answer => k.count[s] = h.count[s]
  BY <1>3, RedirectHeaderIs, Zenon
<1>5. \A s \in Sections : s # Answer => Redirected(m, a)[s] = m.sections[s]
  BY <1>0, RedirectedSections, Zenon
<1>6. ParsedItems(r) = SetAnswers(ParsedItems(m))
  BY RedirectItems, Zenon
<1> HIDE DEF a, r, k
<1>7. ASSUME NEW s \in Sections PROVE k.count[s] = Len(r.sections[s])
  <2>1. CASE s = Answer
    BY <1>2, <1>3, <1>4, <2>1, Zenon
  <2>2. CASE s # Answer
    BY <1>2, <1>4, <1>5, <2>2, Zenon
  <2> QED BY <2>1, <2>2
<1>8. k.id = r.id /\ k.hb3 = r.hb3 /\ k.hb4 = r.hb4
  BY <1>2, <1>4, Zenon
<1>9. Write(k, ParsedItems(r)) = Encode(InFull(r))
  BY <1>2, <1>7, <1>8, WriteIsEncode, Zenon
<1> QED BY <1>6, <1>9 DEF a, r, k

-----------------------------------------------------------------------------
(* Every packet sent as a redirect is the answer.                          *)
LEMMA RedirectsNext ==
  PacketInv /\ RedirectsInHostOrder /\ [Next]_vars => RedirectsInHostOrder'
<1> SUFFICES ASSUME PacketInv, RedirectsInHostOrder, [Next]_vars,
                    stage' = "sent", Whole', out'.how = "redirect",
                    \A i \in DOMAIN sent'.message.sections[Question] :
                      sent'.message.sections[Question][i].type = QT_A
             PROVE  out'.octets = Encode(InFull(RedirectTo(sent'.message, HostU32(TARGET, 0))))
  BY Zenon DEF RedirectsInHostOrder, RedirectsAs
<1>1. CASE UNCHANGED vars
  <2>1. sent' = sent /\ out' = out /\ stage' = stage
    BY <1>1 DEF vars
  <2>2. Whole
    BY <2>1, Zenon DEF Whole
  <2> QED BY <2>1, <2>2, Zenon DEF RedirectsInHostOrder, RedirectsAs
<1>2. CASE Sending
  <2>1. stage = "process" /\ sent' = sent /\ items' = items /\ header' = header
    BY <1>2, SendingFrame
  <2>2. Whole
    BY <2>1, Zenon DEF Whole
  <2>3. PICK m : m = sent.message
    OBVIOUS
  <2>4. m \in Messages /\ items = ParsedItems(m) /\ HeaderRead /\ HeaderShape
    BY <2>1, <2>2, <2>3, WholeRead
  <2>5. /\ header.id = m.id /\ header.hb3 = m.hb3 /\ header.hb4 = m.hb4
        /\ \A s \in Sections : header.count[s] = Len(m.sections[s])
    BY <2>3, <2>4, Zenon DEF HeaderRead
  <2>6. Shaped(header)
    BY <2>4 DEF HeaderShape, Shaped
  <2>7. AddressQuery(m)
    BY <2>1, <2>3, <2>4, Zenon DEF AddressQuery
  <2>8. Redirect
    <3>1. ~Refuse
      BY DEF Refuse, sendPacket
    <3>2. \A i : ~Relay(i)
      BY DEF Relay, sendPacket
    <3>3. \A i : ~Forward(i)
      BY DEF Forward, sendPacket
    <3> QED BY <1>2, <3>1, <3>2, <3>3, Zenon DEF Sending
  <2>9. out'.octets = Write(RedirectHeader(header), SetAnswers(items))
    BY <2>8 DEF Redirect, sendPacket
  <2>10. Write(RedirectHeader(header), SetAnswers(ParsedItems(m))) =
           Encode(InFull(RedirectTo(m, HostU32(TARGET, 0))))
    BY <2>5, <2>6, <2>7, RedirectWritten, Zenon
  <2> QED BY <2>1, <2>3, <2>4, <2>9, <2>10, Zenon
<1>3. stage' # "overrun" /\ stage' \in {"sent", "overrun"}
  OBVIOUS
<1> QED BY <1>1, <1>2, <1>3, SentBySending, Zenon

(* Whatever the target: the answer to a redirected query for addresses is  *)
(* a response with one answer per question, its counts and flags right,    *)
(* that gives as address the target's octets in the order updateRedirect-  *)
(* Response takes them in, which is the reverse of the one on the wire.    *)
THEOREM RedirectsInHostOrderHolds ==
  ASSUME KnownDatagrams
  PROVE  Spec => []RedirectsInHostOrder
<1>1. Init => RedirectsInHostOrder
  BY DEF Init, RedirectsInHostOrder, RedirectsAs
<1> QED BY <1>1, RedirectsNext, PacketInvHolds, PTL DEF Spec
==============================================================================
