------------------------------ MODULE RuleTable ------------------------------
(***************************************************************************)
(* The rule engine: class ShmRuleEngine (src/rule/shm.cpp), a list of      *)
(* variable-sized rules packed into the byte array of a shared memory      *)
(* segment, with the policy for queries no rule matches.                   *)
(*                                                                         *)
(* Every operation holds the interprocess mutex from its first access to   *)
(* its last, so each is one step; daemon and command line processes all    *)
(* work on this one state.  (operator<<, which takes no lock, is not part  *)
(* of this module.)                                                        *)
(*                                                                         *)
(* A cell stands for a run of bytes that is copied and compared whole: a   *)
(* header is two cells (ruleType, actionType), an IpAddressData two (ipv4, *)
(* ipaddr), an EthAddress one.  All cells hold numbers.  A rule's optional *)
(* parts are sequences of cells, empty when its type or action has none.   *)
(* The cell with index DATA_SIZE is the memory right behind the array.     *)
(***************************************************************************)
EXTENDS Integers, Sequences, FiniteSetsExt, SequencesExt

CONSTANTS
  DATA_SIZE,  \* cells of the array (8192 bytes in the code)
  Rules,      \* rules the administrators add
  Policies,   \* policies the administrators set
  Indexes,    \* values of --index
  Inputs      \* queries as Evaluate sees them: [ipv4, ipaddr, ethaddr]

IpAddress == 0
EthAddress == 1
IpAndEthAddress == 2
Dns == 0
Redirect == 1

HEADER == 2  \* sizeof(RuleHeader)

HasIp(t) == t \in {IpAddress, IpAndEthAddress}
HasEth(t) == t \in {EthAddress, IpAndEthAddress}

IpBytes(t) == IF HasIp(t) THEN 2 ELSE 0
EthBytes(t) == IF HasEth(t) THEN 1 ELSE 0
TargetBytes(a) == IF a = Redirect THEN 2 ELSE 0

ASSUME TableConstants ==
  /\ DATA_SIZE \in Nat
  /\ Indexes \subseteq Nat
  /\ Rules \subseteq [ruleType : {IpAddress, EthAddress, IpAndEthAddress},
                     actionType : {Dns, Redirect},
                     ipd : Seq(Nat), eth : Seq(Nat), target : Seq(Nat)]
  /\ \A p \in Policies : p.action \in {Dns, Redirect}
  /\ \A r \in Rules :
       /\ Len(r.ipd) = IpBytes(r.ruleType)
       /\ Len(r.eth) = EthBytes(r.ruleType)
       /\ Len(r.target) = TargetBytes(r.actionType)

VARIABLES
  data,    \* RuleData::data, and the cell behind it
  size,    \* RuleData::size, the number of rules
  policy,  \* RuleData::policy
  reply,   \* the last command and what it told the administrator
  spoilt,  \* history: an insertion left a type behind, there were rules since
  past     \* history: the last command wrote behind the array

vars == <<data, size, policy, reply, spoilt, past>>

-----------------------------------------------------------------------------
(* Reading.  A corrupted table may lead a walk out of the array, into the  *)
(* zeroes of the mapped page.                                              *)
Byte(d, p) == IF p \in DOMAIN d THEN d[p] ELSE 0

Slice(d, p, n) == [i \in 1 .. n |-> Byte(d, p + i - 1)]

(* The size of a rule by its header, and the rule at a location.           *)
Bytes(t, a) == HEADER + IpBytes(t) + EthBytes(t) + TargetBytes(a)

nextRule(d) == [p \in Nat |->
  LET t == Byte(d, p)
      a == Byte(d, p + 1)
  IN [ruleType   |-> t,
      actionType |-> a,
      ipd        |-> Slice(d, p + HEADER, IpBytes(t)),
      eth        |-> Slice(d, p + HEADER + IpBytes(t), EthBytes(t)),
      target     |-> Slice(d, p + HEADER + IpBytes(t) + EthBytes(t), TargetBytes(a))]]

SizeOfRule(r) == Bytes(r.ruleType, r.actionType)

(* Where a call of nextRule moves the location it is given, and where i    *)
(* calls lead from the start of the array.                                 *)
Skip(d) == [p \in Nat |-> p + Bytes(Byte(d, p), Byte(d, p + 1))]

Locations(d, n) ==
  LET loc[i \in 0 .. n] == IF i = 0 THEN 0 ELSE Skip(d)[loc[i - 1]]
  IN loc

RuleAt(i) == nextRule(data)[Locations(data, size)[i]]

Listed == [i \in 1 .. size |-> RuleAt(i - 1)]

-----------------------------------------------------------------------------
(* Writing.                                                                *)
Encode(r) == <<r.ruleType, r.actionType>> \o r.ipd \o r.eth \o r.target

Write(d, at, cells) ==
  [p \in DOMAIN d |-> IF p - at \in 0 .. Len(cells) - 1 THEN cells[p - at + 1] ELSE d[p]]

(* Mutants: nothing is moved; the last cell is not moved.                  *)
MakeNoRoom(d, at, end, bytes) == d
CloseGapShort(d, at, end, bytes) ==
  [p \in DOMAIN d |-> IF at <= p /\ p + bytes + 1 < end THEN Byte(d, p + bytes) ELSE d[p]]

(* The loop that makes room: t runs from end + bytes down to, but not      *)
(* including, the insertion point + bytes.                                 *)
MakeRoom(d, at, end, bytes) ==
  [p \in DOMAIN d |-> IF at + bytes < p /\ p <= end + bytes THEN Byte(d, p - bytes) ELSE d[p]]

(* The loop that closes the gap of a deleted rule.                         *)
CloseGap(d, at, end, bytes) ==
  [p \in DOMAIN d |-> IF at <= p /\ p + bytes < end THEN Byte(d, p + bytes) ELSE d[p]]

(* The segment is created with zeroes, and the placement new does not      *)
(* touch them.                                                             *)
Init ==
  /\ data = [p \in 0 .. DATA_SIZE |-> 0]
  /\ size = 0
  /\ policy = [action |-> Dns, targetIpv4 |-> 0, targetIpv6 |-> 0]
  /\ reply = [cmd |-> "none", ok |-> TRUE]
  /\ spoilt = FALSE
  /\ past = FALSE

(* The loop of MakeRoom is off by one at both ends.  At the lower one the  *)
(* first cell of the rule behind, its type, stays behind, unless the cell  *)
(* that should take it holds the same.  At the upper one the cell at the   *)
(* end moves too, behind the array when the table becomes full.            *)
TypeLeftBehind(at, bytes) == Byte(data, at + bytes) # Byte(data, at)

(* insertRules, given the room for rules.                                  *)
insertRulesWithin(r, index, room) ==
  LET loc   == Locations(data, size)
      bytes == SizeOfRule(r)
      end   == loc[size]
      ok    == index <= size /\ end + bytes <= room
  IN /\ data' = IF ok THEN Write(MakeRoom(data, loc[index], end, bytes), loc[index], Encode(r))
                      ELSE data
     /\ size' = IF ok THEN size + 1 ELSE size
     /\ reply' = [cmd |-> "add", index |-> index, ok |-> ok]
     /\ spoilt' = (spoilt \/ (ok /\ index < size /\ TypeLeftBehind(loc[index], bytes)))
     /\ past' = (ok /\ index < size /\ end + bytes >= DATA_SIZE)
     /\ UNCHANGED policy

(* Mutant: the room is not checked.                                        *)
insertRulesUnchecked(r, index) == insertRulesWithin(r, index, 2 * DATA_SIZE)

insertRules(r, index) == insertRulesWithin(r, index, DATA_SIZE)

AppendRule(r) == insertRules(r, size)

InsertRule(r, index) == insertRules(r, index)

DeleteRule(index) ==
  LET loc == Locations(data, size)
  IN /\ data' = IF index < size - 1
                THEN CloseGap(data, loc[index], loc[size], loc[index + 1] - loc[index])
                ELSE data
     /\ size' = IF index < size THEN size - 1 ELSE size
     /\ reply' = [cmd |-> "delete", index |-> index, ok |-> index < size]
     /\ spoilt' = (spoilt /\ size' # 0)
     /\ past' = (index < size - 1 /\ loc[size] - (loc[index + 1] - loc[index]) > DATA_SIZE)
     /\ UNCHANGED policy

ClearRules ==
  /\ size' = 0
  /\ reply' = [cmd |-> "clear", ok |-> TRUE]
  /\ spoilt' = FALSE
  /\ past' = FALSE
  /\ UNCHANGED <<data, policy>>

SetPolicy(p) ==
  /\ policy' = p
  /\ reply' = [cmd |-> "policy", ok |-> TRUE]
  /\ past' = FALSE
  /\ UNCHANGED <<data, size, spoilt>>

Next ==
  \/ \E r \in Rules : AppendRule(r) \/ \E i \in Indexes : InsertRule(r, i)
  \/ \E i \in Indexes : DeleteRule(i)
  \/ ClearRules
  \/ \E p \in Policies : SetPolicy(p)

Spec == Init /\ [][Next]_vars

-----------------------------------------------------------------------------
(* Evaluate.  A rule matches the query's addresses as far as its type      *)
(* names them; a redirecting one also needs a target of the query's        *)
(* transport.                                                              *)
Matches(r, in) ==
  /\ HasIp(r.ruleType) => r.ipd = <<in.ipv4, in.ipaddr>>
  /\ HasEth(r.ruleType) => r.eth = <<in.ethaddr>>
  /\ r.actionType = Redirect => r.target[1] = in.ipv4

(* Mutant: the last matching rule decides.                                 *)
DeciderLast(in) ==
  LET matching == {i \in 1 .. size : Matches(RuleAt(i - 1), in)}
  IN IF matching = {} THEN 0 ELSE Max(matching)

(* The first matching rule decides, counted from 1, or the policy (0).     *)
Decider(in) ==
  LET matching == {i \in 1 .. size : Matches(RuleAt(i - 1), in)}
  IN IF matching = {} THEN 0 ELSE Min(matching)

Evaluate(in) ==
  LET d == Decider(in)
  IN IF d # 0
     THEN [action |-> RuleAt(d - 1).actionType, target |-> RuleAt(d - 1).target]
     ELSE [action |-> policy.action,
           target |-> IF policy.action = Dns THEN <<>>
                      ELSE IF in.ipv4 = 1 THEN <<1, policy.targetIpv4>>
                                          ELSE <<0, policy.targetIpv6>>]

-----------------------------------------------------------------------------
(* The shape of the state: the table never holds more than its cells, as   *)
(* long as its rules can be told apart.                                    *)
TypeOK ==
  /\ DOMAIN data = 0 .. DATA_SIZE
  /\ \A p \in DOMAIN data : data[p] \in Nat
  /\ size \in Nat
  /\ spoilt \in BOOLEAN
  /\ past \in BOOLEAN
  /\ IF spoilt THEN size # 0 ELSE Locations(data, size)[size] <= DATA_SIZE
  /\ policy.action \in {Dns, Redirect}

(* The packed table behaves as the list of rules the administrators think  *)
(* of: every command does to the decoded table what it does to a list, the *)
(* bytes of deleted rules never come back, and a rule is rejected exactly  *)
(* when the index is too large or its bytes do not fit.  Only an insertion *)
(* before the end may spoil it; deleting or clearing all rules repairs it. *)
Lost == [lost |-> TRUE]

Decoded == IF spoilt THEN [i \in 1 .. size |-> Lost] ELSE Listed

List == INSTANCE RuleList WITH
  rules <- Decoded, CAPACITY <- DATA_SIZE, SizeOf <- SizeOfRule,
  NoPolicy <- [action |-> Dns, targetIpv4 |-> 0, targetIpv6 |-> 0]

ImplementsRuleList == List!ListSpec

(* A command changes the verdict on a query only where it should: a new    *)
(* rule the queries no earlier rule decides, a deletion the ones the       *)
(* deleted rule decided, clearing the ones rules decided, a new policy the *)
(* ones no rule decides; as long as no insertion spoils the list.          *)
OnlyOwnVerdicts ==
  [][\A in \in Inputs : ~spoilt /\ ~spoilt' /\ Evaluate(in)' # Evaluate(in) =>
       CASE reply'.cmd = "add"    -> Decider(in) = 0 \/ Decider(in) > reply'.index
         [] reply'.cmd = "delete" -> Decider(in) = reply'.index + 1
         [] reply'.cmd = "clear"  -> Decider(in) # 0
         [] reply'.cmd = "policy" -> Decider(in) = 0]_vars

(* "Copy existing data to new location" (shm.cpp:254): the rules from the  *)
(* insertion point on are the same ones after an insertion, one place on.  *)
(* "Do not write past available data" (shm.cpp:248): the memory behind the *)
(* array is not written.                                                   *)
InsertsAsCommented ==
  [][reply'.cmd = "add" /\ size' = size + 1 =>
       /\ \A i \in reply'.index .. size - 1 : Listed'[i + 2] = Listed[i + 1]
       /\ ~past']_vars
=============================================================================
