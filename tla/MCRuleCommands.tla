--------------------------- MODULE MCRuleCommands ---------------------------
(* An instance of RuleCommands for TLC.                                    *)
EXTENDS RuleCommands

(* Every rule takes one unit of room.                                      *)
One(r) == 1

IpRule == [ipaddr |-> "a", action |-> "dns"]
MacRule == [macaddr |-> "f", action |-> "redirect", target |-> "a"]
DnsPolicy == [action |-> "dns", target4 |-> "zero", target6 |-> "zero"]
RedirectPolicy == [action |-> "redirect", target4 |-> "a", target6 |-> "zero"]

(* A redirect without target, before the end of the list, and the commands *)
(* as they are meant.  The policy is set by loading the first rule file.   *)
MCCommands ==
  {ShowRule(IpRule),
   [cmd |-> "add", index |-> 0, macaddr |-> "f", action |-> "redirect"],
   [cmd |-> "delete", index |-> 0],
   [cmd |-> "clear"],
   [cmd |-> "list"],
   [cmd |-> "save", file |-> "rules.txt"],
   [cmd |-> "load", file |-> "rules.txt"]}

(* Rule files: a complete one, which finds no room the third time, and one *)
(* that names a hardware address without a digit f.                        *)
MCFiles ==
  {<<ShowRule(MacRule), ShowPolicy(RedirectPolicy)>>,
   <<ShowRule(IpRule), [cmd |-> "add", macaddr |-> "0", action |-> "dns"], ShowRule(IpRule)>>}

MCRules == UNION {ParsedRules(l) : l \in {c \in MCCommands : c.cmd = "add"}} \cup {IpRule, MacRule}

(* A header caught in motion may say that there is no address at all.      *)
MCRawRules == {[action |-> "dns"]}
MCPolicies == {DnsPolicy, RedirectPolicy}

ASSUME RuleFiles == PlainFiles /\ ParsedTables
=============================================================================
