----------------------------- MODULE DnsMessage -----------------------------
(***************************************************************************)
(* What clients and DNS servers put into a datagram: a message and its     *)
(* octets (RFC 1035, section 4).  External: it is the reference the packet *)
(* code of dns-wrapper is compared with.                                   *)
(*                                                                         *)
(* A name is a sequence of labels, a label a sequence of octets.  A message*)
(* is [id, hb3, hb4, sections] with the four sections question, answer,    *)
(* authority and additional.  A question is [labels, shared, type, class]; *)
(* a record has in addition [ttl, data, host]: the octets of its data, and *)
(* the name that follows them (`NoHost' if none does).  The last `shared'  *)
(* labels of the owner's name are written as a pointer into the name of    *)
(* the first question.                                                     *)
(***************************************************************************)
EXTENDS Naturals, Sequences

Sections == 1..4
Question == 1
Answer == 2
Authority == 3
Additional == 4

HEADER_SIZE == 12

QT_A == 1
QT_NS == 2
QT_CNAME == 5
QT_MX == 15
QT_AAAA == 28
QT_OPT == 41

NoHost == <<<<>>>>

-----------------------------------------------------------------------------
(* The concatenation of a sequence of sequences.                           *)
Concat(ss) ==
  LET upTo[n \in 0..Len(ss)] == IF n = 0 THEN <<>> ELSE upTo[n - 1] \o ss[n]
  IN upTo[Len(ss)]

U16Octets(n) == <<n \div 256, n % 256>>

LabelOctets(l) == <<Len(l)>> \o l
LabelsOctets(ls) == Concat([i \in DOMAIN ls |-> LabelOctets(ls[i])])

(* The position of label k of the first question's name.                   *)
LabelPosition(ls, k) == HEADER_SIZE + Len(LabelsOctets(SubSeq(ls, 1, k - 1)))

PointerOctets(t) == <<192 + t \div 256, t % 256>>

(* A name that shares its last n labels with the name q.                   *)
NameOctets(ls, n, q) ==
  LabelsOctets(SubSeq(ls, 1, Len(ls) - n)) \o
    (IF n = 0 THEN <<0>> ELSE PointerOctets(LabelPosition(q, Len(q) - n + 1)))

DataOctets(r) == r.data \o (IF r.host = NoHost THEN <<>> ELSE NameOctets(r.host, 0, <<>>))

FixedOctets(e) == U16Octets(e.type) \o U16Octets(e.class)

QuestionOctets(e, q) == NameOctets(e.labels, e.shared, q) \o FixedOctets(e)
RecordOctets(e, q) ==
  QuestionOctets(e, q) \o e.ttl \o U16Octets(Len(DataOctets(e))) \o DataOctets(e)

Encode(m) ==
  LET qs == m.sections[Question]
      q == IF qs = <<>> THEN <<>> ELSE qs[1].labels
      Section(s) == Concat([i \in DOMAIN m.sections[s] |->
                              IF s = Question THEN QuestionOctets(m.sections[s][i], q)
                              ELSE RecordOctets(m.sections[s][i], q)])
  IN U16Octets(m.id) \o <<m.hb3, m.hb4>>
       \o Concat([s \in Sections |-> U16Octets(Len(m.sections[s]))])
       \o Concat([s \in Sections |-> Section(s)])

(* The same message with every name written in full.                       *)
InFull(m) ==
  [m EXCEPT !.sections = [s \in Sections |->
     [i \in DOMAIN m.sections[s] |-> [m.sections[s][i] EXCEPT !.shared = 0]]]]
==============================================================================
