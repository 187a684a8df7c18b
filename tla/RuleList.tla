------------------------------ MODULE RuleList ------------------------------
(***************************************************************************)
(* What the rule table promises its administrators: an ordered list of     *)
(* rules with a policy behind it, edited by position, within a capacity.   *)
(*                                                                         *)
(* Every command is decided by the list alone: whether it succeeds, and    *)
(* what the list is afterwards.  One is not: an insertion before the end   *)
(* may spoil the list.  What its rules are is lost then, not how many they *)
(* are, until all of them are deleted or cleared.  RuleTable, which keeps  *)
(* the list packed in an array of bytes, implements it; RuleCommands       *)
(* builds on it.                                                           *)
(***************************************************************************)
EXTENDS Naturals, Sequences, SequencesExt

CONSTANTS
  Rules,      \* the rules an administrator adds
  Policies,   \* the policies an administrator sets
  Indexes,    \* the positions an administrator names, from 0
  CAPACITY,   \* room for rules
  SizeOf(_),  \* room a rule takes
  Lost,       \* stands for a rule of a spoilt list
  NoPolicy    \* the policy before the first one is set

VARIABLES rules, policy, reply

RoomOf(list) ==
  LET upTo[n \in 0 .. Len(list)] == IF n = 0 THEN 0 ELSE upTo[n - 1] + SizeOf(list[n])
  IN upTo[Len(list)]

Used == RoomOf(rules)

ListInit == rules = <<>> /\ policy = NoPolicy /\ reply = [cmd |-> "none", ok |-> TRUE]

Intact(list) == \A k \in DOMAIN list : list[k] # Lost

LostList(n) == [k \in 1 .. n |-> Lost]

(* Whether an add succeeds: the room a spoilt list takes is not known.     *)
AddVerdicts(r, i) ==
  IF i > Len(rules) THEN {FALSE}
  ELSE IF Intact(rules) THEN {Used + SizeOf(r) <= CAPACITY} ELSE BOOLEAN

(* The lists a successful add may lead to.                                 *)
Inserted(r, i) ==
  IF ~Intact(rules) THEN {LostList(Len(rules) + 1)}
  ELSE {InsertAt(rules, i + 1, r)}
       \cup (IF i < Len(rules) THEN {LostList(Len(rules) + 1)} ELSE {})

AddAs(r, i, ok) ==
  /\ rules' \in IF ok THEN Inserted(r, i) ELSE {rules}
  /\ reply' = [cmd |-> "add", index |-> i, ok |-> ok]
  /\ UNCHANGED policy

Add(r, i) == \E ok \in AddVerdicts(r, i) : AddAs(r, i, ok)

DeleteAs(i, ok) ==
  /\ rules' = IF ok THEN RemoveAt(rules, i + 1) ELSE rules
  /\ reply' = [cmd |-> "delete", index |-> i, ok |-> ok]
  /\ UNCHANGED policy

Delete(i) == DeleteAs(i, i < Len(rules))

Clear ==
  /\ rules' = <<>>
  /\ reply' = [cmd |-> "clear", ok |-> TRUE]
  /\ UNCHANGED policy

SetPolicyTo(p) ==
  /\ policy' = p
  /\ reply' = [cmd |-> "policy", ok |-> TRUE]
  /\ UNCHANGED rules

ListNext ==
  \/ \E r \in Rules : Add(r, Len(rules)) \/ \E i \in Indexes : Add(r, i)
  \/ \E i \in Indexes : Delete(i)
  \/ Clear
  \/ \E p \in Policies : SetPolicyTo(p)

ListSpec == ListInit /\ [][ListNext]_<<rules, policy, reply>>
=============================================================================
