----------------------------- MODULE MCDnsPacket -----------------------------
(* Datagrams for DnsPacket: whole messages, messages cut short, messages   *)
(* with a damaged octet.  The characters of names are small numbers, so    *)
(* that a damaged length makes a pointer to somewhere in the datagram.     *)
EXTENDS DnsPacket, SequencesExt

Name == <<<<12, 14>>, <<20, 24, 31>>>>
OtherName == <<<<33>>, <<20, 24, 31>>>>
ShortName == <<<<12>>, <<20>>>>

Ask(ls, t) == [labels |-> ls, shared |-> 0, type |-> t, class |-> QTC_IN]

Record(ls, n, t, d, h) ==
  [labels |-> ls, shared |-> n, type |-> t, class |-> QTC_IN,
   ttl |-> <<0, 0, 1, 44>>, data |-> d, host |-> h]

A(ls, n) == Record(ls, n, QT_A, <<10, 0, 0, 1>>, NoHost)
AAAA == Record(Name, 2, QT_AAAA, [i \in 1..16 |-> i], NoHost)
CNAME == Record(Name, 2, QT_CNAME, <<>>, OtherName)
NS == Record(Name, 2, QT_NS, <<>>, ShortName)
MX == Record(OtherName, 1, QT_MX, <<0, 10>>, Name)

(* A question and these records, in either order, fill a buffer of 100.    *)
TinyName == <<<<12>>>>
InFullAAAA == [AAAA EXCEPT !.shared = 0]
InFullCNAME == [CNAME EXCEPT !.shared = 0]
Filling == {<<InFullAAAA, A(TinyName, 0), InFullCNAME>>, <<InFullAAAA, InFullCNAME, A(TinyName, 0)>>}

Answers == {A(Name, 0), A(Name, 2), A(OtherName, 1), AAAA, CNAME, NS, MX}

Message(qr, qs, an, ns, ar) ==
  [id |-> 258, hb3 |-> 128 * qr + 1, hb4 |-> 0, sections |-> <<qs, an, ns, ar>>]

Requests ==
  {Message(0, <<Ask(n, t)>>, <<>>, <<>>, <<>>) :
     n \in {Name, ShortName}, t \in {QT_A, QT_AAAA, QT_MX}}
  \cup {Message(0, <<Ask(Name, QT_A), Ask(OtherName, QT_A)>>, <<>>, <<>>, <<>>)}

Responses ==
  {Message(1, <<Ask(Name, QT_A)>>, an, <<>>, <<>>) : an \in SeqOf(Answers, 2) \cup Filling}
  \cup {Message(1, <<Ask(Name, QT_MX)>>, <<>>, <<NS, r>>, <<r>>) : r \in Answers}

Arrived(m) == [octets |-> Encode(m), message |-> m, lacks |-> 0]

Cut(m) == {[octets |-> SubSeq(Encode(m), 1, Len(Encode(m)) - n), message |-> m, lacks |-> n] :
             n \in 1..Len(Encode(m))}

(* A host that is nothing but a pointer to an empty name: to the first     *)
(* octet of the count of authorities, a zero.                              *)
NoNames ==
  {[octets |-> SubSeq(Encode(m), 1, Len(Encode(m)) - 8) \o <<192, 8>>,
    message |-> NoMessage, lacks |-> 0] :
     m \in {Message(1, <<Ask(Name, QT_A)>>, <<[MX EXCEPT !.data = <<1, 10>>]>>, <<>>, <<>>)}}

(* One octet is replaced: flags, counts, lengths, types and so on.         *)
Damaged(m) ==
  {[octets |-> ReplaceAt(Encode(m), i, v), message |-> NoMessage, lacks |-> 0] :
     i \in 3..Len(Encode(m)), v \in {0, 2, 41, 64, 192}}

OneQuestion == <<Ask(Name, QT_A)>>
ToCut == {Message(1, OneQuestion, <<r>>, <<>>, <<>>) : r \in {A(Name, 2), AAAA, CNAME, MX}}
ToDamage ==
  {Message(0, OneQuestion, <<>>, <<>>, <<A(Name, 2)>>),
   Message(0, <<Ask(<<<<12, 14>>, <<12, 24, 31>>>>, QT_A)>>, <<>>, <<>>, <<>>),
   Message(0, <<Ask(<<<<4, 14>>, <<20, 24, 31>>>>, QT_A)>>, <<>>, <<>>, <<>>),
   Message(1, OneQuestion, <<A(OtherName, 1), CNAME>>, <<>>, <<>>)}

MCDatagrams ==
  {Arrived(m) : m \in Requests \cup Responses}
    \cup NoNames
    \cup UNION {Cut(m) : m \in ToCut}
    \cup UNION {Damaged(m) : m \in ToDamage}

MCLeftovers == {[p \in Positions |-> v] : v \in {0, 12}}

MCTarget == <<192, 168, 1, 10, 0, 0, 0, 0, 0, 0, 0, 0, 0, 0, 0, 0>>
MCUnset == {<<>>, <<77>>}

ASSUME ArrivingDatagrams == KnownDatagrams
==============================================================================
