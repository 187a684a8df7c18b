------------------------------ MODULE DnsPacket ------------------------------
(***************************************************************************)
(* A datagram's way through the packet code: DnsServer::receive reads it   *)
(* (DnsPacket::Read), validates it, changes it and writes it for the       *)
(* datagrams it sends (src/dns/dns*.cpp, src/dns/server.cpp).              *)
(*                                                                         *)
(* The buffer is modelled octet by octet, since what can go wrong here is  *)
(* a matter of positions.  A step reads what the code reads between two    *)
(* decisions: the header, the first octet of a name, one label or pointer, *)
(* the fixed fields of a question or record, the data of a record.  A U32  *)
(* is the tuple of its octets, most significant first.                     *)
(*                                                                         *)
(* Which handler a packet goes to, and whether a query is forwarded, given *)
(* back or redirected, is decided in DnsServer and RuleTable; here every   *)
(* outcome that sends a packet is possible.                                *)
(***************************************************************************)
EXTENDS DnsMessage

CONSTANTS
  Datagrams,      \* what may arrive: records [octets, message, lacks]
  Leftovers,      \* what earlier datagrams left in the buffer
  BUFFER_SIZE,    \* MAX_PACKET_SZ; the model's receive buffer has two octets more
  MAXDNAME,       \* the room for a name
  SIZEOF_HEADER,  \* sizeof(DnsHeader): 24, with the virtual table's pointer
  MAX_JUMPS,      \* pointers ReadLabel gives up at, 5 in the code
  NEW_ID,         \* the id the forwarder puts into a packet
  TARGET,         \* octets of the redirect's target, as inet_pton stores them
  Unset           \* names an uninitialised array may hold

NoItems == [s \in Sections |-> <<>>]
NoMessage == [sections |-> NoItems]

E_NOERROR == 0
E_FORMERR == 1
E_NOTIMP == 4
QTC_IN == 1
ONE_HOUR == <<0, 0, 14, 16>>
Dot == 46

Octets == 0..255
U16 == 0..(256 * 256 - 1)
Positions == 0..(BUFFER_SIZE + 1)

ASSUME PacketConstants ==
  /\ BUFFER_SIZE \in Nat /\ MAXDNAME \in Nat /\ SIZEOF_HEADER \in Nat /\ MAX_JUMPS \in Nat
  /\ HEADER_SIZE <= SIZEOF_HEADER
  /\ \A d \in Datagrams : d.octets \in Seq(Octets) /\ Len(d.octets) <= BUFFER_SIZE
  /\ Leftovers \subseteq [Positions -> Octets]
  /\ Unset \subseteq Seq(Octets)

ASSUME TargetConstants == TARGET \in [1..16 -> Octets]

VARIABLES
  buf, size, pos,  \* the receive buffer
  stage,           \* what the handler does next
  header,          \* packet.header: [id, hb3, hb4, count]
  items,           \* packet.questions, answers, authorities, additionals
  item,            \* the question or record that is being read
  label,           \* the variables of ReadLabel
  out,             \* the packet written last: [octets, how]
  sent             \* history: the element of Datagrams that arrived

packetVars == <<header, items, item, label>>
vars == <<buf, size, pos, stage, header, items, item, label, out, sent>>

-----------------------------------------------------------------------------
(* The buffer: PEEK_BYTE, READ_U16, READ_U32, _VALIDATE.                   *)
PEEK_BYTE(k) == buf[pos + k]
READ_U16(p) == 256 * buf[p] + buf[p + 1]
READ_BYTES(p, n) == [i \in 1..n |-> buf[p + i - 1]]

(* Mutant: the end of the datagram is one octet too far.                   *)
VALIDATELate(n) == pos + n <= size + 1

VALIDATE(n) == pos + n <= size

(* Bits of the header's octets.  The setters only ever set bits.           *)
Bit(x, k) == (x \div 2^k) % 2
SetBit(x, k) == IF Bit(x, k) = 1 THEN x ELSE x + 2^k

GetQueryResponse(h) == Bit(h.hb3, 7) = 1
GetOpCode(h) == (h.hb3 \div 16) % 8
GetTruncatedMessage(h) == Bit(h.hb3, 1) = 1
GetResponseCode(h) == h.hb4 % 16

SetId(h, i) == [h EXCEPT !.id = i]
SetAsQueryResponse(h) == [h EXCEPT !.hb3 = SetBit(@, 7)]
SetAsAuthoritativeAnswer(h) == [h EXCEPT !.hb3 = SetBit(@, 2)]
SetRecursionAvailable(h) == [h EXCEPT !.hb4 = SetBit(@, 7)]

(* SetResponseCode(E_REFUSED): bits 0 and 2.                               *)
SetRefused(h) == [h EXCEPT !.hb4 = SetBit(SetBit(@, 0), 2)]

-----------------------------------------------------------------------------
NoItem == [name |-> <<>>]
NoHeader == [id |-> 0, hb3 |-> 0, hb4 |-> 0, count |-> [s \in Sections |-> 0]]
NoLabel == [c |-> 0, jumps |-> 0, resume |-> 0, name |-> <<>>, into |-> "Name"]
NoOut == [octets |-> <<>>, how |-> "none"]
NoDatagram == [octets |-> <<>>, message |-> NoMessage, lacks |-> 0]

(* Mutant: the loops run once too often.                                   *)
OpenOnceMore(h, is) == {s \in Sections : Len(is[s]) <= h.count[s]}

(* The loops of DnsPacket::Read: the section the next item belongs to.     *)
Open(h, is) == {s \in Sections : Len(is[s]) < h.count[s]}

Section == CHOOSE s \in Open(header, items) : \A t \in Open(header, items) : s <= t

NextStage(h, is) == IF Open(h, is) = {} THEN "process" ELSE "name"

-----------------------------------------------------------------------------
Init ==
  /\ buf \in Leftovers /\ size = 0 /\ pos = 0
  /\ stage = "idle"
  /\ header = NoHeader /\ items = NoItems /\ item = NoItem /\ label = NoLabel
  /\ out = NoOut /\ sent = NoDatagram

(* A datagram overwrites the first octets of the buffer.  receive drops it *)
(* when it is shorter than the C++ object DnsHeader.                       *)
receive(d) ==
  /\ stage = "idle"
  /\ buf' = [p \in Positions |-> IF p < Len(d.octets) THEN d.octets[p + 1] ELSE buf[p]]
  /\ size' = Len(d.octets)
  /\ pos' = 0
  /\ sent' = d
  /\ stage' = IF Len(d.octets) < SIZEOF_HEADER THEN "dropped" ELSE "header"
  /\ UNCHANGED <<packetVars, out>>

(* receive4 and receive6 arm the socket again, whatever became of the      *)
(* packet, which is gone with its handler.  The octets in the buffer stay; *)
(* the next datagram may find any of Leftovers behind its own.             *)
Again ==
  /\ buf' \in Leftovers /\ size' = 0 /\ pos' = 0
  /\ stage' = "idle"
  /\ header' = NoHeader /\ items' = NoItems /\ item' = NoItem /\ label' = NoLabel
  /\ out' = NoOut /\ sent' = NoDatagram

Rearm == stage \in {"dropped", "sent"} /\ Again

(* A write behind an array has no defined outcome: the service may go on,  *)
(* or end and be started again.                                            *)
Overrun == stage = "overrun" /\ Again

(* DnsHeader::Read.  Its own check cannot fail after the one in receive.   *)
ReadHeader ==
  /\ stage = "header"
  /\ header' = [id |-> READ_U16(pos), hb3 |-> PEEK_BYTE(2), hb4 |-> PEEK_BYTE(3),
                count |-> [s \in Sections |-> READ_U16(pos + 2 + 2 * s)]]
  /\ pos' = pos + HEADER_SIZE
  /\ stage' = NextStage(header', items)
  /\ UNCHANGED <<buf, size, items, item, label, out, sent>>

-----------------------------------------------------------------------------
(* DnsQuestion::ReadLabel: one step for the first octet of a name, one for *)
(* each pass of the loop (with the octet read at its end), one for the end.*)
ReadLabel ==
  /\ stage = "name"
  /\ VALIDATE(1)
  /\ label' = [label EXCEPT !.c = PEEK_BYTE(0), !.jumps = 0, !.resume = 0, !.name = <<>>]
  /\ pos' = pos + 1
  /\ stage' = "label"
  /\ UNCHANGED <<buf, size, header, items, item, out, sent>>

InLoop == stage = "label" /\ label.c # 0 /\ label.jumps < MAX_JUMPS

Target == 256 * (label.c - 192) + PEEK_BYTE(0)

(* Mutant: pointers are not counted.                                       *)
JumpUncounted(t) == [label EXCEPT !.c = buf[t], !.resume = pos + 1]

(* The position to resume at is the one behind the last pointer.           *)
Jump(t) == [label EXCEPT !.c = buf[t], !.resume = pos + 1, !.jumps = @ + 1]

ReadPointer ==
  /\ InLoop
  /\ label.c >= 192
  /\ VALIDATE(1)
  /\ Target < size
  /\ label' = Jump(Target)
  /\ pos' = Target + 1
  /\ UNCHANGED <<buf, size, stage, header, items, item, out, sent>>

(* The characters of a label and a dot go to `storage', an array of        *)
(* MAXDNAME characters.  Nothing compares the two.                         *)
TextThere == InLoop /\ label.c < 64 /\ pos + label.c < size

NameFits == Len(label.name) + label.c + 1 <= MAXDNAME

ReadText ==
  /\ TextThere
  /\ NameFits
  /\ label' = [label EXCEPT !.c = PEEK_BYTE(label.c),
                            !.name = @ \o READ_BYTES(pos, label.c) \o <<Dot>>]
  /\ pos' = pos + label.c + 1
  /\ UNCHANGED <<buf, size, stage, header, items, item, out, sent>>

ReadTextOverruns ==
  /\ TextThere
  /\ ~NameFits
  /\ stage' = "overrun"
  /\ UNCHANGED <<buf, size, pos, packetVars, out, sent>>

(* The characters of a C string: up to the first NUL.                      *)
CString(s) == SubSeq(s, 1, (CHOOSE n \in 0..Len(s) : /\ \A i \in 1..n : s[i] # 0
                                                     /\ n < Len(s) => s[n + 1] = 0))

(* What `storage' holds at the end.  The last dot is overwritten; a name   *)
(* that is but a pointer to an empty one leaves it as it was, which is     *)
(* uninitialised in a question and zero in a record.                       *)
Storage ==
  CASE label.name # <<>> -> {CString(SubSeq(label.name, 1, Len(label.name) - 1))}
    [] label.name = <<>> /\ label.jumps > 0 /\ Section = Question -> Unset
    [] OTHER -> {<<>>}

(* The NUL of such a name goes in front of `storage'.  In front of an MX   *)
(* record's host is the octet its priority is written first from; before   *)
(* the other names are zeros.                                              *)
DataBefore(e) ==
  IF e.type = QT_MX /\ label.name = <<>> /\ label.jumps > 0
  THEN [e.data EXCEPT ![1] = 0] ELSE e.data

AddItem(e) == [items EXCEPT ![Section] = Append(@, e)]

(* Mutant: reading goes on where the pointer led to.                       *)
ResumeAtTarget == pos

ResumePosition == IF label.resume > 0 THEN label.resume ELSE pos

EndLabel ==
  /\ stage = "label"
  /\ label.c = 0
  /\ label.jumps < MAX_JUMPS
  /\ pos' = ResumePosition
  /\ \E name \in Storage :
       IF label.into = "Name"
       THEN /\ item' = [name |-> name]
            /\ stage' = "fixed"
            /\ items' = items
       ELSE /\ items' = AddItem([item EXCEPT !.host = name, !.data = DataBefore(item)])
            /\ item' = NoItem
            /\ stage' = NextStage(header, items')
  /\ label' = NoLabel
  /\ UNCHANGED <<buf, size, header, out, sent>>

-----------------------------------------------------------------------------
(* DnsQuestion::Read behind the name; DnsRecord::Read up to Len.  The TTL  *)
(* is checked for two octets only, but Len behind it is checked as well.   *)
Fixed(s) == IF s = Question THEN 4 ELSE 10

ReadQuestion ==
  /\ stage = "fixed"
  /\ Section = Question
  /\ VALIDATE(Fixed(Question))
  /\ items' = AddItem([name |-> item.name, type |-> READ_U16(pos), class |-> READ_U16(pos + 2)])
  /\ item' = NoItem
  /\ pos' = pos + Fixed(Question)
  /\ stage' = NextStage(header, items')
  /\ UNCHANGED <<buf, size, header, label, out, sent>>

ReadRecord ==
  /\ stage = "fixed"
  /\ Section # Question
  /\ VALIDATE(Fixed(Section))
  /\ item' = [name |-> item.name, type |-> READ_U16(pos), class |-> READ_U16(pos + 2),
              ttl |-> READ_BYTES(pos + 4, 4), len |-> READ_U16(pos + 8),
              data |-> <<>>, host |-> <<>>]
  /\ pos' = pos + Fixed(Section)
  /\ stage' = "data"
  /\ UNCHANGED <<buf, size, header, items, label, out, sent>>

(* The octets of a record's data: how many are read, and up to where the   *)
(* datagram must reach.  VREAD_U32 validates two octets and reads four.    *)
Named == {QT_NS, QT_CNAME, QT_MX}

DataRead(e) ==
  CASE e.type = QT_A -> 4
    [] e.type = QT_AAAA -> 16
    [] e.type = QT_MX -> 2
    [] e.type = QT_OPT -> e.len
    [] OTHER -> 0

(* Mutant: the four numbers of an IPv6 address are checked once.           *)
DataCheckedOnce(e) == IF e.type \in {QT_A, QT_AAAA} THEN 2 ELSE DataRead(e)

DataChecked(e) == IF e.type \in {QT_A, QT_AAAA} THEN DataRead(e) - 2 ELSE DataRead(e)

DataAllowed(e) ==
  \/ e.type \in Named \cup {QT_A, QT_AAAA}
  \/ e.type = QT_OPT /\ Section = Additional

ReadData ==
  /\ stage = "data"
  /\ DataAllowed(item)
  /\ VALIDATE(DataChecked(item))
  /\ pos' = pos + DataRead(item)
  /\ LET e == [item EXCEPT !.data = READ_BYTES(pos, DataRead(item))]
     IN IF e.type \in Named
        THEN /\ item' = e
             /\ label' = [label EXCEPT !.into = "Address"]
             /\ stage' = "name"
             /\ items' = items
        ELSE /\ items' = AddItem(e)
             /\ item' = NoItem
             /\ stage' = NextStage(header, items')
             /\ label' = label
  /\ UNCHANGED <<buf, size, header, out, sent>>

(* Everything that makes Read return an error.                             *)
LabelFails ==
  \/ label.jumps = MAX_JUMPS
  \/ InLoop /\ label.c >= 192 /\ (~VALIDATE(1) \/ Target >= size)
  \/ InLoop /\ label.c \in 64..191
  \/ InLoop /\ label.c < 64 /\ pos + label.c >= size

ReadFails ==
  \/ stage = "name" /\ ~VALIDATE(1)
  \/ stage = "label" /\ LabelFails
  \/ stage = "fixed" /\ ~VALIDATE(Fixed(Section))
  \/ stage = "data" /\ (~DataAllowed(item) \/ ~VALIDATE(DataChecked(item)))

-----------------------------------------------------------------------------
(* Validation of an incoming request.  (A packet is validated as a response*)
(* only when it is one, and then nothing can fail.)                        *)
HeaderValidate(h) ==
  CASE GetOpCode(h) # 0 -> E_NOTIMP
    [] \/ GetTruncatedMessage(h)
       \/ GetResponseCode(h) # E_NOERROR
       \/ h.count[Question] = 0
       \/ h.count[Answer] > 0 \/ h.count[Authority] > 0 -> E_FORMERR
    [] OTHER -> E_NOERROR

QuestionValidate(e) ==
  CASE e.type \notin Named \cup {QT_A, QT_AAAA, QT_OPT} -> E_NOTIMP
    [] e.type # QT_OPT /\ e.class # QTC_IN -> E_NOTIMP
    [] OTHER -> E_NOERROR

RecordValidate(e) ==
  CASE QuestionValidate(e) # E_NOERROR -> QuestionValidate(e)
    [] e.type = QT_A /\ e.len # 4 -> E_FORMERR
    [] e.type = QT_AAAA /\ e.len # 16 -> E_FORMERR
    [] OTHER -> E_NOERROR

AllValid(is) ==
  /\ \A i \in DOMAIN is[Question] : QuestionValidate(is[Question][i]) = E_NOERROR
  /\ \A s \in {Answer, Authority, Additional} : \A i \in DOMAIN is[s] :
       RecordValidate(is[s][i]) = E_NOERROR

OptRecords(is) == {i \in DOMAIN is[Additional] : is[Additional][i].type = QT_OPT}

(* Mutant: only questions for IPv4 addresses pass.                         *)
ValidateStrict(h, is) ==
  HeaderValidate(h) = E_NOERROR /\ \A i \in DOMAIN is[Question] : is[Question][i].type = QT_A

(* DnsPacket::Validate succeeds at once when the header is valid.  When it *)
(* is not, the sections decide, and their code replaces the header's.      *)
Validate(h, is) ==
  \/ HeaderValidate(h) = E_NOERROR
  \/ /\ AllValid(is)
     /\ \A i, j \in OptRecords(is) : i = j
     /\ is # NoItems

-----------------------------------------------------------------------------
(* DnsQuestion::WriteLabel, octet by octet: the first octet and every dot  *)
(* give way to the number of characters up to the next dot or the end.     *)
(* (The octet behind is a zero of the fresh buffer.)                       *)
WriteLabel(s) ==
  LET End(i) == CHOOSE j \in i..(Len(s) + 1) :
                  /\ \A k \in i..(j - 1) : s[k] # Dot
                  /\ j <= Len(s) => s[j] = Dot
  IN [i \in 1..(Len(s) + 2) |->
        CASE i = Len(s) + 2 -> 0
          [] i = 1 -> End(1) - 1
          [] i \in 2..(Len(s) + 1) /\ s[i - 1] = Dot -> End(i) - i
          [] OTHER -> s[i - 1]]

(* Mutant: the zero stored behind a name is one octet more.                *)
QuestionWriteZero(e) == WriteLabel(e.name) \o <<0>> \o U16Octets(e.type) \o U16Octets(e.class)

QuestionWrite(e) == WriteLabel(e.name) \o U16Octets(e.type) \o U16Octets(e.class)

(* The octets of an OPT record are not written, its length is.             *)
RecordWrite(e) ==
  QuestionWrite(e) \o e.ttl \o U16Octets(e.len)
    \o (IF e.type = QT_OPT THEN <<>> ELSE e.data)
    \o (IF e.type \in Named THEN WriteLabel(e.host) ELSE <<>>)

(* DnsPacket::Write: the header and the sections in their order.           *)
Write(h, is) ==
  U16Octets(h.id) \o <<h.hb3, h.hb4>> \o Concat([s \in Sections |-> U16Octets(h.count[s])])
    \o Concat([s \in Sections |->
                 Concat([i \in DOMAIN is[s] |->
                           IF s = Question THEN QuestionWrite(is[s][i])
                           ELSE RecordWrite(is[s][i])])])

-----------------------------------------------------------------------------
(* updateRedirectResponse and SetAnswers: one answer per question.  The    *)
(* target's octets are in network order, and are taken for the host's      *)
(* numbers of four octets, on a little-endian machine.                     *)
HostU32(t, k) == <<t[4 * k + 4], t[4 * k + 3], t[4 * k + 2], t[4 * k + 1]>>

(* A fresh record is zero: what is written of MX data are two zeros.       *)
UpdateFromQuestion(q) ==
  [name |-> q.name, type |-> q.type, class |-> q.class, ttl |-> <<0, 0, 0, 0>>, len |-> 0,
   data |-> IF q.type = QT_MX THEN <<0, 0>> ELSE <<>>, host |-> <<>>]

RedirectAnswer(q) ==
  [UpdateFromQuestion(q) EXCEPT
     !.ttl = ONE_HOUR,
     !.len = CASE q.type = QT_A -> 4 [] q.type = QT_AAAA -> 16 [] OTHER -> @,
     !.data = CASE q.type = QT_A -> HostU32(TARGET, 0)
                [] q.type = QT_AAAA -> Concat([k \in 1..4 |-> HostU32(TARGET, k - 1)])
                [] OTHER -> @]

SetAnswers(is) ==
  IF is[Question] = <<>> THEN is
  ELSE [is EXCEPT ![Answer] = [i \in DOMAIN is[Question] |-> RedirectAnswer(is[Question][i])]]

(* Mutant: the count of answers in the header is forgotten.                *)
RedirectHeaderUncounted(h) ==
  SetRecursionAvailable(SetAsAuthoritativeAnswer(SetAsQueryResponse(h)))

RedirectHeader(h) ==
  [SetRecursionAvailable(SetAsAuthoritativeAnswer(SetAsQueryResponse(h)))
     EXCEPT !.count[Answer] = IF h.count[Question] = 0 THEN @ ELSE h.count[Question]]

(* A packet's response buffer has BUFFER_SIZE octets, and the writers do   *)
(* not look at its end.  WriteLabel stores a zero behind the name, which   *)
(* is behind the packet when its last record ends in one.                  *)
EndsInName(is) ==
  \E s \in Sections \ {Question} :
    /\ is[s] # <<>> /\ is[s][Len(is[s])].type \in Named
    /\ \A t \in Sections : t > s => is[t] = <<>>

Fits(h, is) ==
  IF EndsInName(is) THEN Len(Write(h, is)) < BUFFER_SIZE ELSE Len(Write(h, is)) <= BUFFER_SIZE

sendPacket(h, is, how) ==
  /\ out' = [octets |-> Write(h, is), how |-> how]
  /\ stage' = IF Fits(h, is) THEN "sent" ELSE "overrun"
  /\ UNCHANGED <<buf, size, pos, packetVars, sent>>

Request == stage = "process" /\ ~GetQueryResponse(header)

(* A packet that is not read or not valid is dropped: an error response is *)
(* prepared and not sent.                                                  *)
Drop ==
  /\ ReadFails \/ (Request /\ ~Validate(header, items))
  /\ stage' = "dropped"
  /\ UNCHANGED <<buf, size, pos, packetVars, out, sent>>

(* resolve: forwarded with a new id, with the client's when a timed out    *)
(* record is used again, or given back to the client as refused.           *)
Forward(i) ==
  /\ Request /\ Validate(header, items)
  /\ sendPacket(SetId(header, i), items, "forward")

Refuse ==
  /\ Request /\ Validate(header, items)
  /\ sendPacket(SetRefused(header), items, "refuse")

Redirect ==
  /\ Request /\ Validate(header, items)
  /\ sendPacket(RedirectHeader(header), SetAnswers(items), "redirect")

(* processUpstreamResponse, for one of the clients that wait.              *)
Relay(i) ==
  /\ stage = "process" /\ GetQueryResponse(header)
  /\ sendPacket(SetId(SetRecursionAvailable(header), i), items, "relay")

Handle ==
  \/ Rearm \/ ReadHeader
  \/ ReadLabel \/ ReadPointer \/ ReadText \/ ReadTextOverruns \/ EndLabel
  \/ ReadQuestion \/ ReadRecord \/ ReadData
  \/ Drop \/ Refuse \/ Redirect \/ Relay(NEW_ID)
  \/ \E i \in {NEW_ID, header.id} : Forward(i)

Next == Handle \/ Overrun \/ \E d \in Datagrams : receive(d)

Spec == Init /\ [][Next]_vars /\ WF_vars(Handle)

-----------------------------------------------------------------------------
(* The buffer, the reader's position (which may be the one behind the last *)
(* octet) and the counts stay in their ranges, and no section holds more   *)
(* items than its count says.                                              *)
PacketTypeOK ==
  /\ buf \in [Positions -> Octets]
  /\ size \in 0..BUFFER_SIZE /\ pos \in 0..(BUFFER_SIZE + 2)
  /\ stage \in {"idle", "header", "name", "label", "fixed", "data", "process",
               "sent", "dropped", "overrun"}
  /\ header.id \in U16 /\ header.hb3 \in Octets /\ header.hb4 \in Octets
  /\ \A s \in Sections : header.count[s] \in U16 /\ Len(items[s]) <= header.count[s]
  /\ label.c \in Octets /\ label.jumps \in 0..MAX_JUMPS /\ label.resume \in Positions
  /\ label.into \in {"Name", "Address"}
  /\ out.how \in {"none", "forward", "refuse", "redirect", "relay"}

(* The messages the properties of what is sent are about: those the code   *)
(* writes back as they were.  Names have no dots or NULs in their labels   *)
(* and no more than 255 octets, which the code has room for; a pointer leads into the first question's  *)
(* name, the data are those of the type, and a request is a plain query.   *)
Labels == {l \in Seq(Octets) : Len(l) \in 1..63 /\ \A i \in DOMAIN l : l[i] \notin {0, Dot}}
Names ==
  {ls \in Seq(Labels) : /\ ls # <<>>
                        /\ Len(LabelsOctets(ls)) <= 254 /\ Len(LabelsOctets(ls)) <= MAXDNAME}

Shares(e, q) ==
  /\ e.shared <= Len(e.labels) /\ e.shared <= Len(q)
  /\ \A j \in 0..(e.shared - 1) : e.labels[Len(e.labels) - j] = q[Len(q) - j]

Questions == [labels : Names, shared : Nat, type : U16, class : U16]

Records ==
  {e \in [labels : Names, shared : Nat, type : U16, class : U16,
          ttl : [1..4 -> Octets], data : Seq(Octets), host : Names \cup {NoHost}] :
     \/ e.type = QT_A /\ Len(e.data) = 4 /\ e.host = NoHost
     \/ e.type = QT_AAAA /\ Len(e.data) = 16 /\ e.host = NoHost
     \/ e.type = QT_MX /\ Len(e.data) = 2 /\ e.host # NoHost
     \/ e.type \in {QT_NS, QT_CNAME} /\ Len(e.data) = 0 /\ e.host # NoHost}

PlainQuery(m) ==
  /\ GetOpCode(m) = 0 /\ ~GetTruncatedMessage(m) /\ GetResponseCode(m) = E_NOERROR
  /\ m.sections[Answer] = <<>> /\ m.sections[Authority] = <<>>

Messages ==
  {m \in [id : U16, hb3 : Octets, hb4 : Octets, sections : [Sections -> Seq(Questions \cup Records)]] :
     /\ m.sections[Question] \in Seq(Questions) /\ m.sections[Question] # <<>>
     /\ \A s \in Sections \ {Question} : m.sections[s] \in Seq(Records)
     /\ m.sections[Question][1].shared = 0
     /\ \A s \in Sections : /\ Len(m.sections[s]) \in U16
                            /\ \A i \in DOMAIN m.sections[s] :
                                 Shares(m.sections[s][i], m.sections[Question][1].labels)
     /\ GetQueryResponse(m) \/ PlainQuery(m)}

KnownDatagrams ==
  \A d \in Datagrams : d.message # NoMessage =>
    /\ d.message \in Messages
    /\ d.lacks \in 0..Len(Encode(d.message))
    /\ d.octets = SubSeq(Encode(d.message), 1, Len(Encode(d.message)) - d.lacks)

(* A message of a client or a server that arrived as it was sent.          *)
Whole == sent.message # NoMessage /\ sent.lacks = 0

(* What is forwarded, relayed or given back is the message that came, with *)
(* the forwarder's id and flag bits and with every name in full: ReadLabel *)
(* found the names behind the pointers and the place to go on behind them, *)
(* WriteLabel wrote them as they were.                                     *)
RelaysWhatWasSent ==
  stage = "sent" /\ Whole /\ out.how # "redirect" =>
    \E i \in {NEW_ID, sent.message.id} :
      out.octets = Encode(InFull([sent.message EXCEPT
        !.id = i,
        !.hb4 = CASE out.how = "relay" -> SetBit(@, 7)
                  [] out.how = "refuse" -> SetBit(SetBit(@, 0), 2)
                  [] OTHER -> @]))

(* Expanding names is the only thing that makes a packet too long for the  *)
(* response buffer: a message that arrives with its names in full is sent  *)
(* on in full, unless it fills the buffer and ends in a name, or is turned *)
(* into an answer.  And no name of a message overruns the array it is read *)
(* into, however it is compressed.                                         *)
Compressed(m) ==
  \E s \in Sections : \E i \in DOMAIN m.sections[s] : m.sections[s][i].shared > 0

OverrunsOnlyExpanded ==
  stage = "overrun" /\ Whole =>
    \/ out.how = "redirect"
    \/ out.how # "none" /\ Compressed(sent.message)
    \/ out.how # "none" /\ size = BUFFER_SIZE /\ EndsInName(sent.message.sections)

(* The answer to a redirected query for addresses is a response that says  *)
(* of every name it asks for that its address is the given one.            *)
RedirectTo(m, address) ==
  [m EXCEPT !.hb3 = SetBit(SetBit(@, 7), 2), !.hb4 = SetBit(@, 7),
            !.sections[Answer] = [i \in DOMAIN m.sections[Question] |->
               LET q == m.sections[Question][i]
               IN [labels |-> q.labels, shared |-> 0, type |-> q.type, class |-> q.class,
                   ttl |-> ONE_HOUR, data |-> address, host |-> NoHost]]]

RedirectsAs(address) ==
  stage = "sent" /\ Whole /\ out.how = "redirect"
    /\ (\A i \in DOMAIN sent.message.sections[Question] :
          sent.message.sections[Question][i].type = QT_A)
  => out.octets = Encode(InFull(RedirectTo(sent.message, address)))

(* Every name gets the target's octets in the order the host reads them as *)
(* a number: SetAnswers takes what inet_pton stored for a number of the    *)
(* host, and WRITE_U32 writes its most significant octet first.            *)
RedirectsInHostOrder == RedirectsAs(HostU32(TARGET, 0))

(* Every name gets the target itself, which "can very well be any other IP *)
(* address" than 0.0.0.0 (README.md).                                      *)
RedirectsToTarget == RedirectsAs(SubSeq(TARGET, 1, 4))

(* No message of the kinds the code knows is dropped once it has the size  *)
(* of a DnsHeader object: nothing Read and Validate reject is in it.       *)
AcceptsWellFormed == stage = "dropped" /\ Whole => size < SIZEOF_HEADER

(* A message whose end is missing is never sent on, except for one that    *)
(* ends in an address and lacks two octets of it at most: VREAD_U32 does   *)
(* not look for them, and what the buffer held before is sent instead.     *)
LastRecord(m) ==
  LET s == CHOOSE t \in Sections : /\ m.sections[t] # <<>>
                                  /\ \A u \in Sections : u > t => m.sections[u] = <<>>
  IN m.sections[s][Len(m.sections[s])]

CutMessagesDropped ==
  stage = "sent" /\ sent.message # NoMessage /\ sent.lacks > 0 =>
    /\ sent.lacks <= 2
    /\ LastRecord(sent.message).type \in {QT_A, QT_AAAA}

(* Whatever the octets of a datagram, nothing behind it is read but the    *)
(* two octets VREAD_U32 does not check.                                    *)
ReadsNearDatagram == pos <= size + 2

(* Whatever the octets of a datagram, with pointers that lead in circles   *)
(* too, its handler ends and the socket is armed again, unless it writes   *)
(* behind an array.                                                        *)
ReadingEnds == []<>(stage \in {"idle", "overrun"})
==============================================================================
