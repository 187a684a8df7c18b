----------------------------- MODULE MCRuleTable -----------------------------
(* Instances of RuleTable for TLC: addresses are 1 and 2, families 0 (v6)  *)
(* and 1 (v4), hardware addresses 1 and 2.                                 *)
EXTENDS RuleTable

IpRule(f, a) ==
  [ruleType |-> IpAddress, actionType |-> Dns, ipd |-> <<f, a>>, eth |-> <<>>, target |-> <<>>]
EthRule(m) ==
  [ruleType |-> EthAddress, actionType |-> Dns, ipd |-> <<>>, eth |-> <<m>>, target |-> <<>>]
RedirectRule(f, a) ==
  [ruleType |-> IpAddress, actionType |-> Redirect, ipd |-> <<f, a>>, eth |-> <<>>,
   target |-> <<1, 2>>]
BothRule(f, a, m) ==
  [ruleType |-> IpAndEthAddress, actionType |-> Redirect, ipd |-> <<f, a>>, eth |-> <<m>>,
   target |-> <<0, 1>>]

(* All types and both actions, of four different sizes.                    *)
MixedRules == {EthRule(1), IpRule(1, 1), RedirectRule(1, 1), BothRule(0, 2, 1)}

(* A table two of these fill.                                              *)
OneRule == {EthRule(1)}

OnePolicy == {[action |-> Redirect, targetIpv4 |-> 1, targetIpv6 |-> 2]}

MCInputs == {[ipv4 |-> 1, ipaddr |-> 1, ethaddr |-> 0], [ipv4 |-> 1, ipaddr |-> 1, ethaddr |-> 1],
             [ipv4 |-> 0, ipaddr |-> 2, ethaddr |-> 1], [ipv4 |-> 0, ipaddr |-> 1, ethaddr |-> 0]}
=============================================================================
