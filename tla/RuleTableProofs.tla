--------------------------- MODULE RuleTableProofs ---------------------------
(***************************************************************************)
(* Proofs about RuleTable, for arrays, rules, policies and positions of    *)
(* any number and size.                                                    *)
(***************************************************************************)
EXTENDS RuleTable, NatFacts, SequenceTheorems, TLAPS

-----------------------------------------------------------------------------
(* Walking through the cells of an array.                                  *)

(* A rule takes at least the two cells of its header.                      *)
LEMMA BytesType ==
  ASSUME NEW t, NEW a
  PROVE  /\ Bytes(t, a) \in Nat /\ Bytes(t, a) >= 2
         /\ IpBytes(t) \in Nat /\ EthBytes(t) \in Nat /\ TargetBytes(a) \in Nat
         /\ Bytes(t, a) = 2 + IpBytes(t) + EthBytes(t) + TargetBytes(a)
BY DEF Bytes, HEADER, IpBytes, EthBytes, TargetBytes

LEMMA SkipType ==
  ASSUME NEW d
  PROVE  /\ Skip(d) \in [Nat -> Nat]
         /\ \A p \in Nat : Skip(d)[p] = p + Bytes(Byte(d, p), Byte(d, p + 1)) /\ p + 2 <= Skip(d)[p]
<1>1. \A p \in Nat : /\ Bytes(Byte(d, p), Byte(d, p + 1)) \in Nat
                     /\ Bytes(Byte(d, p), Byte(d, p + 1)) >= 2
  BY BytesType
<1>2. \A p \in Nat : Skip(d)[p] = p + Bytes(Byte(d, p), Byte(d, p + 1))
  BY DEF Skip
<1>3. Skip(d) \in [Nat -> Nat]
  BY <1>1 DEF Skip
<1> QED BY <1>1, <1>2, <1>3

(* The equations that define the locations.                                *)
LEMMA LocationsDef ==
  ASSUME NEW d, NEW n \in Nat
  PROVE  /\ Locations(d, n) \in [0 .. n -> Nat]
         /\ Locations(d, n)[0] = 0
         /\ \A i \in 1 .. n : Locations(d, n)[i] = Skip(d)[Locations(d, n)[i - 1]]
<1> DEFINE G == [i \in 1 .. n |-> Skip(d)]
<1>1. \A i \in 1 .. n : \A x \in Nat : G[i][x] \in Nat
  BY SkipType
<1>2. \A i \in 1 .. n : G[i] = Skip(d)
  OBVIOUS
<1> HIDE DEF G
<1>3. PICK f \in [0 .. n -> Nat] : f = [i \in 0 .. n |-> IF i = 0 THEN 0 ELSE G[i][f[i - 1]]]
  BY <1>1, RecursionExists
<1>4. f = [i \in 0 .. n |-> IF i = 0 THEN 0 ELSE Skip(d)[f[i - 1]]]
  <2>1. \A i \in 0 .. n : f[i] = IF i = 0 THEN 0 ELSE Skip(d)[f[i - 1]]
    BY <1>2, <1>3
  <2> QED BY <2>1, Zenon
<1> DEFINE l == Locations(d, n)
<1>5. l = [i \in 0 .. n |-> IF i = 0 THEN 0 ELSE Skip(d)[l[i - 1]]]
  BY <1>4, Zenon DEF Locations
<1> HIDE DEF l
<1>6. DOMAIN l = 0 .. n /\ l[0] = 0 /\ \A i \in 1 .. n : l[i] = Skip(d)[l[i - 1]]
  BY <1>5
<1> DEFINE S == {i \in Nat : i <= n => l[i] \in Nat}
<1>7. 0 \in S
  BY <1>6
<1>8. \A i \in Nat : i \in S => i + 1 \in S
  <2> SUFFICES ASSUME NEW i \in Nat, i \in S, i + 1 <= n PROVE l[i + 1] \in Nat
    OBVIOUS
  <2>1. i + 1 \in 1 .. n /\ l[i] \in Nat /\ (i + 1) - 1 = i
    OBVIOUS
  <2>2. l[i + 1] = Skip(d)[l[i]]
    BY <1>6, <2>1
  <2> QED BY <2>1, <2>2, SkipType
<1> HIDE DEF S
<1>9. \A i \in 0 .. n : l[i] \in Nat
  <2>1. \A i \in Nat : i \in S
    BY <1>7, <1>8, NatSetInduction, Zenon
  <2> QED BY <2>1 DEF S
<1>10. l \in [0 .. n -> Nat]
  BY <1>5, <1>6, <1>9
<1> QED BY <1>6, <1>10 DEF l

LEMMA LocationsStep ==
  ASSUME NEW d, NEW n \in Nat, NEW i \in Nat, i < n
  PROVE  /\ Locations(d, n)[i] \in Nat /\ Locations(d, n)[i + 1] \in Nat
         /\ Locations(d, n)[i + 1] = Skip(d)[Locations(d, n)[i]]
         /\ Locations(d, n)[i + 1] =
              Locations(d, n)[i] + Bytes(Byte(d, Locations(d, n)[i]), Byte(d, Locations(d, n)[i] + 1))
         /\ Locations(d, n)[i] + 2 <= Locations(d, n)[i + 1]
<1>1. i \in 0 .. n /\ i + 1 \in 1 .. n /\ i + 1 \in 0 .. n /\ (i + 1) - 1 = i
  OBVIOUS
<1> DEFINE l == Locations(d, n)
<1>2. l \in [0 .. n -> Nat] /\ l[i + 1] = Skip(d)[l[i]]
  BY <1>1, LocationsDef
<1> HIDE DEF l
<1>3. l[i] \in Nat /\ l[i + 1] \in Nat
  BY <1>1, <1>2
<1> QED BY <1>2, <1>3, SkipType DEF l

(* Later rules are at later locations.                                     *)
LEMMA LocationsIncrease ==
  ASSUME NEW d, NEW n \in Nat, NEW i \in 0 .. n, NEW j \in 0 .. n, i <= j
  PROVE  Locations(d, n)[i] <= Locations(d, n)[j]
<1> DEFINE l == Locations(d, n)
           S == {k \in Nat : i + k <= n => l[i] <= l[i + k]}
<1>1. \A k \in 0 .. n : l[k] \in Nat
  BY LocationsDef
<1>2. \A k \in Nat : k < n => l[k] + 2 <= l[k + 1]
  BY LocationsStep
<1> HIDE DEF l
<1>3. 0 \in S
  BY <1>1
<1>4. \A k \in Nat : k \in S => k + 1 \in S
  <2> SUFFICES ASSUME NEW k \in Nat, k \in S, i + (k + 1) <= n PROVE l[i] <= l[i + (k + 1)]
    OBVIOUS
  <2>1. i + k \in Nat /\ i + k < n /\ i + (k + 1) = (i + k) + 1 /\ i + k \in 0 .. n /\ (i + k) + 1 \in 0 .. n
    OBVIOUS
  <2>2. l[i] <= l[i + k] /\ l[i + k] + 2 <= l[(i + k) + 1]
    BY <1>2, <2>1
  <2>3. l[i] \in Nat /\ l[i + k] \in Nat /\ l[(i + k) + 1] \in Nat
    BY <1>1, <2>1
  <2> QED BY <2>1, <2>2, <2>3
<1> HIDE DEF S
<1>5. \A k \in Nat : k \in S
  BY <1>3, <1>4, NatSetInduction, Zenon
<1>6. j - i \in S
  BY <1>5
<1> QED BY <1>6 DEF S, l

(* The cells lo .. hi - 1 of d are in e, off cells further on.             *)
Moved(d, lo, hi, e, off) == \A p \in Nat : lo <= p /\ p < hi => Byte(e, p + off) = Byte(d, p)

(* Arrays d and e, with n and m rules, hold the same cells, off cells      *)
(* apart, where d has the k rules from a on and e the ones from b on.      *)
SameWalk(d, n, a, e, m, b, k, off) ==
  /\ n \in Nat /\ a \in Nat /\ m \in Nat /\ b \in Nat /\ k \in Nat /\ off \in Int
  /\ a + k <= n /\ b + k <= m
  /\ Locations(e, m)[b] = Locations(d, n)[a] + off
  /\ Moved(d, Locations(d, n)[a], Locations(d, n)[a + k], e, off)

(* Walks through the same cells stay the same number of cells apart.       *)
LEMMA LocationsShift ==
  ASSUME NEW d, NEW n, NEW a, NEW e, NEW m, NEW b, NEW k, NEW off,
         SameWalk(d, n, a, e, m, b, k, off)
  PROVE  \A j \in 0 .. k : Locations(e, m)[b + j] = Locations(d, n)[a + j] + off
<1> USE DEF SameWalk
<1> DEFINE ld == Locations(d, n)
           le == Locations(e, m)
           S == {j \in Nat : j <= k => le[b + j] = ld[a + j] + off}
<1>1. \A i \in 0 .. n : ld[i] \in Nat
  BY LocationsDef
<1>2. \A i \in 0 .. m : le[i] \in Nat
  BY LocationsDef
<1>3. 0 \in S
  OBVIOUS
<1>4. ASSUME NEW j \in Nat, j + 1 <= k, le[b + j] = ld[a + j] + off
      PROVE  le[b + (j + 1)] = ld[a + (j + 1)] + off
  <2>1. /\ a + j \in Nat /\ a + j < n /\ a + (j + 1) = (a + j) + 1
        /\ b + j \in Nat /\ b + j < m /\ b + (j + 1) = (b + j) + 1
    BY <1>4
  <2> DEFINE x == ld[a + j]
             y == le[b + j]
             w == Bytes(Byte(d, x), Byte(d, x + 1))
             v == Bytes(Byte(e, y), Byte(e, y + 1))
  <2>2. x \in Nat /\ ld[(a + j) + 1] = x + w /\ x + 2 <= ld[(a + j) + 1] /\ ld[(a + j) + 1] \in Nat
    BY <2>1, LocationsStep
  <2>3. y \in Nat /\ le[(b + j) + 1] = y + v
    BY <2>1, LocationsStep
  <2>4. ld[a] <= x
    BY <2>1, LocationsIncrease
  <2>5. ld[(a + j) + 1] <= ld[a + k]
    <3>1. (a + j) + 1 \in 0 .. n /\ a + k \in 0 .. n /\ (a + j) + 1 <= a + k
      BY <1>4
    <3> QED BY <3>1, LocationsIncrease
  <2>6. ld[a] \in Nat /\ ld[a + k] \in Nat
    BY <1>1
  <2>7. y = x + off /\ y + 1 = (x + 1) + off
    BY <1>4, <2>2, <2>3
  <2> HIDE DEF x, y
  <2>8. x + 1 \in Nat /\ ld[a] <= x /\ x < ld[a + k] /\ ld[a] <= x + 1 /\ x + 1 < ld[a + k]
    BY <2>2, <2>4, <2>5, <2>6
  <2>9. Byte(e, x + off) = Byte(d, x) /\ Byte(e, (x + 1) + off) = Byte(d, x + 1)
    BY <2>2, <2>8 DEF Moved
  <2>10. Byte(e, y) = Byte(d, x) /\ Byte(e, y + 1) = Byte(d, x + 1)
    BY <2>7, <2>9
  <2>11. v = w
    BY <2>10
  <2>12. w \in Nat
    BY BytesType
  <2> HIDE DEF v, w
  <2> QED BY <2>1, <2>2, <2>3, <2>7, <2>11, <2>12
<1> HIDE DEF ld, le
<1>5. \A j \in Nat : j \in S => j + 1 \in S
  BY <1>4
<1> HIDE DEF S
<1>6. \A j \in Nat : j \in S
  BY <1>3, <1>5, NatSetInduction, Zenon
<1> QED BY <1>6 DEF S, ld, le

(* A shorter walk is the start of a longer one.                            *)
LEMMA LocationsPrefix ==
  ASSUME NEW d, NEW n \in Nat, NEW m \in Nat, m <= n
  PROVE  \A j \in 0 .. m : Locations(d, m)[j] = Locations(d, n)[j]
<1> DEFINE z == 0
<1>0. z \in Nat /\ z \in Int /\ z + m <= n /\ z + m <= m /\ \A p \in Nat : p + z = p /\ z + p = p
  OBVIOUS
<1>1. Locations(d, m)[z] = 0 /\ Locations(d, n)[z] = 0
  BY LocationsDef
<1>2. Locations(d, m)[z] = Locations(d, n)[z] + z
  BY <1>1
<1> HIDE DEF z
<1>3. Moved(d, Locations(d, n)[z], Locations(d, n)[z + m], d, z)
  BY <1>0 DEF Moved
<1>4. \A j \in 0 .. m : Locations(d, m)[z + j] = Locations(d, n)[z + j] + z
  <2>1. SameWalk(d, n, z, d, m, z, m, z)
    BY <1>0, <1>2, <1>3 DEF SameWalk
  <2> QED BY <2>1, LocationsShift
<1>5. \A j \in 0 .. m : Locations(d, n)[j] \in Nat
  BY LocationsDef
<1>6. \A j \in 0 .. m : j \in Nat
  OBVIOUS
<1> QED BY <1>0, <1>4, <1>5, <1>6

-----------------------------------------------------------------------------
(* Reading rules.                                                          *)

(* The w cells of e from q on are the ones of d from p on.                 *)
SameCells(d, p, e, q, w) == \A c \in Nat : c < w => Byte(e, q + c) = Byte(d, p + c)

LEMMA SliceSame ==
  ASSUME NEW d, NEW p \in Nat, NEW e, NEW q \in Nat, NEW n \in Nat,
         SameCells(d, p, e, q, n)
  PROVE  Slice(e, q, n) = Slice(d, p, n)
<1>1. \A i \in 1 .. n : i - 1 \in Nat /\ i - 1 < n /\ q + i - 1 = q + (i - 1) /\ p + i - 1 = p + (i - 1)
  OBVIOUS
<1>2. \A i \in 1 .. n : Byte(e, q + i - 1) = Byte(d, p + i - 1)
  BY <1>1 DEF SameCells
<1> QED BY <1>2, Zenon DEF Slice

LEMMA SliceWithin ==
  ASSUME NEW d, NEW p \in Nat, NEW e, NEW q \in Nat, NEW w \in Nat,
         SameCells(d, p, e, q, w),
         NEW s \in Nat, NEW n \in Nat, s + n <= w
  PROVE  Slice(e, q + s, n) = Slice(d, p + s, n)
<1>1. ASSUME NEW c \in Nat, c < n PROVE Byte(e, (q + s) + c) = Byte(d, (p + s) + c)
  <2>1. s + c \in Nat /\ s + c < w /\ (q + s) + c = q + (s + c) /\ (p + s) + c = p + (s + c)
    BY <1>1
  <2> QED BY <2>1 DEF SameCells
<1>2. q + s \in Nat /\ p + s \in Nat
  OBVIOUS
<1>3. SameCells(d, p + s, e, q + s, n)
  BY <1>1 DEF SameCells
<1> QED BY <1>2, <1>3, SliceSame

(* The parts of the rule at a location.                                    *)
LEMMA RuleParts ==
  ASSUME NEW d, NEW p \in Nat
  PROVE  LET t == Byte(d, p)
             a == Byte(d, p + 1)
         IN nextRule(d)[p] =
              [ruleType   |-> t,
               actionType |-> a,
               ipd        |-> Slice(d, p + 2, IpBytes(t)),
               eth        |-> Slice(d, p + 2 + IpBytes(t), EthBytes(t)),
               target     |-> Slice(d, p + 2 + IpBytes(t) + EthBytes(t), TargetBytes(a))]
BY DEF nextRule, HEADER

(* The same cells read as the same rule, of the same size.                 *)
LEMMA SameRule ==
  ASSUME NEW d, NEW p \in Nat, NEW e, NEW q \in Nat,
         SameCells(d, p, e, q, Skip(d)[p] - p)
  PROVE  nextRule(e)[q] = nextRule(d)[p]
<1> DEFINE t == Byte(d, p)
           a == Byte(d, p + 1)
           i == IpBytes(t)
           h == EthBytes(t)
           g == TargetBytes(a)
           w == Bytes(t, a)
<1>1. i \in Nat /\ h \in Nat /\ g \in Nat /\ w = 2 + i + h + g
  BY BytesType
<1>2. Skip(d)[p] = p + w
  BY SkipType
<1> HIDE DEF w
<1>3. SameCells(d, p, e, q, w)
  <2>1. Skip(d)[p] - p = w
    BY <1>1, <1>2
  <2> QED BY <2>1
<1>4. Byte(e, q) = t /\ Byte(e, q + 1) = a
  <2>0. 0 \in Nat /\ 0 < w /\ 1 \in Nat /\ 1 < w
    BY <1>1
  <2>1. Byte(e, q + 0) = Byte(d, p + 0) /\ Byte(e, q + 1) = Byte(d, p + 1)
    BY <1>3, <2>0, Zenon DEF SameCells
  <2>2. q + 0 = q /\ p + 0 = p
    OBVIOUS
  <2> QED BY <2>1, <2>2
<1>5. nextRule(d)[p] =
        [ruleType |-> t, actionType |-> a, ipd |-> Slice(d, p + 2, i), eth |-> Slice(d, p + 2 + i, h),
         target |-> Slice(d, p + 2 + i + h, g)]
  BY RuleParts
<1>6. nextRule(e)[q] =
        [ruleType |-> t, actionType |-> a, ipd |-> Slice(e, q + 2, i), eth |-> Slice(e, q + 2 + i, h),
         target |-> Slice(e, q + 2 + i + h, g)]
  BY <1>4, RuleParts
<1> HIDE DEF t, a, i, h, g
<1> DEFINE s1 == 2
           s2 == 2 + i
           s3 == 2 + i + h
<1>7. /\ s1 \in Nat /\ s2 \in Nat /\ s3 \in Nat /\ w \in Nat
      /\ s1 + i <= w /\ s2 + h <= w /\ s3 + g <= w
      /\ q + 2 = q + s1 /\ q + 2 + i = q + s2 /\ q + 2 + i + h = q + s3
      /\ p + 2 = p + s1 /\ p + 2 + i = p + s2 /\ p + 2 + i + h = p + s3
  BY <1>1
<1> HIDE DEF s1, s2, s3
<1>8. Slice(e, q + s1, i) = Slice(d, p + s1, i)
  BY <1>1, <1>3, <1>7, SliceWithin
<1>9. Slice(e, q + s2, h) = Slice(d, p + s2, h)
  BY <1>1, <1>3, <1>7, SliceWithin
<1>10. Slice(e, q + s3, g) = Slice(d, p + s3, g)
  BY <1>1, <1>3, <1>7, SliceWithin
<1> QED BY <1>5, <1>6, <1>7, <1>8, <1>9, <1>10

(* Through cells that are the same, walks pass the same rules.             *)
LEMMA RulesShift ==
  ASSUME NEW d, NEW n, NEW a, NEW e, NEW m, NEW b, NEW k, NEW off,
         SameWalk(d, n, a, e, m, b, k, off),
         NEW j \in 0 .. k - 1
  PROVE  nextRule(e)[Locations(e, m)[b + j]] = nextRule(d)[Locations(d, n)[a + j]]
<1>0. /\ n \in Nat /\ a \in Nat /\ m \in Nat /\ b \in Nat /\ k \in Nat /\ off \in Int
      /\ a + k <= n /\ b + k <= m
  BY DEF SameWalk
<1> DEFINE x == Locations(d, n)[a + j]
           y == Locations(e, m)[b + j]
           z == Locations(d, n)[(a + j) + 1]
           lo == Locations(d, n)[a]
           hi == Locations(d, n)[a + k]
<1>1. a + j \in Nat /\ a + j < n /\ a + j \in 0 .. n /\ b + j \in 0 .. m /\ j \in 0 .. k
  BY <1>0
<1>2. y = x + off
  BY <1>1, LocationsShift
<1>3. x \in Nat /\ y \in Nat /\ lo \in Nat /\ hi \in Nat
  <2>1. \A i \in 0 .. n : Locations(d, n)[i] \in Nat
    BY <1>0, LocationsDef
  <2>2. \A i \in 0 .. m : Locations(e, m)[i] \in Nat
    BY <1>0, LocationsDef
  <2>3. a \in 0 .. n /\ a + k \in 0 .. n
    BY <1>0
  <2> QED BY <1>1, <2>1, <2>2, <2>3
<1>4. z = Skip(d)[x] /\ z \in Nat
  BY <1>0, <1>1, LocationsStep
<1>5. lo <= x
  BY <1>0, <1>1, LocationsIncrease
<1>6. z <= hi
  <2>1. (a + j) + 1 \in 0 .. n /\ a + k \in 0 .. n /\ (a + j) + 1 <= a + k
    BY <1>0
  <2> QED BY <1>0, <2>1, LocationsIncrease
<1>7. Moved(d, lo, hi, e, off)
  BY DEF SameWalk
<1> HIDE DEF x, y, z, lo, hi
<1>8. ASSUME NEW c \in Nat, c < z - x PROVE Byte(e, y + c) = Byte(d, x + c)
  <2>1. x + c \in Nat /\ lo <= x + c /\ x + c < hi /\ y + c = (x + c) + off
    BY <1>0, <1>2, <1>3, <1>4, <1>5, <1>6, <1>8
  <2> QED BY <1>7, <2>1 DEF Moved
<1>9. SameCells(d, x, e, y, Skip(d)[x] - x)
  BY <1>4, <1>8 DEF SameCells
<1>10. nextRule(e)[y] = nextRule(d)[x]
  BY <1>3, <1>9, SameRule
<1> QED BY <1>10 DEF x, y

-----------------------------------------------------------------------------
(* Writing rules.                                                          *)

LEMMA RuleType ==
  ASSUME NEW r \in Rules
  PROVE  /\ r = [ruleType |-> r.ruleType, actionType |-> r.actionType, ipd |-> r.ipd, eth |-> r.eth,
                 target |-> r.target]
         /\ r.ruleType \in Nat /\ r.actionType \in Nat
         /\ r.ipd \in Seq(Nat) /\ Len(r.ipd) = IpBytes(r.ruleType)
         /\ r.eth \in Seq(Nat) /\ Len(r.eth) = EthBytes(r.ruleType)
         /\ r.target \in Seq(Nat) /\ Len(r.target) = TargetBytes(r.actionType)
BY TableConstants DEF IpAddress, EthAddress, IpAndEthAddress, Dns, Redirect

(* The cells of a rule, part by part.                                      *)
LEMMA EncodeCells ==
  ASSUME NEW r \in Rules
  PROVE  LET i == IpBytes(r.ruleType)
             h == EthBytes(r.ruleType)
             g == TargetBytes(r.actionType)
         IN /\ Encode(r) \in Seq(Nat) /\ Len(Encode(r)) = SizeOfRule(r)
            /\ Encode(r)[1] = r.ruleType /\ Encode(r)[2] = r.actionType
            /\ \A c \in 1 .. i : Encode(r)[2 + c] = r.ipd[c]
            /\ \A c \in 1 .. h : Encode(r)[2 + i + c] = r.eth[c]
            /\ \A c \in 1 .. g : Encode(r)[2 + i + h + c] = r.target[c]
<1> DEFINE i == IpBytes(r.ruleType)
           h == EthBytes(r.ruleType)
           g == TargetBytes(r.actionType)
           s0 == <<r.ruleType, r.actionType>>
           s1 == s0 \o r.ipd
           s2 == s1 \o r.eth
           s3 == s2 \o r.target
<1>1. /\ r.ruleType \in Nat /\ r.actionType \in Nat
      /\ r.ipd \in Seq(Nat) /\ Len(r.ipd) = i
      /\ r.eth \in Seq(Nat) /\ Len(r.eth) = h
      /\ r.target \in Seq(Nat) /\ Len(r.target) = g
  BY RuleType
<1>2. i \in Nat /\ h \in Nat /\ g \in Nat /\ SizeOfRule(r) = 2 + i + h + g
  BY BytesType DEF SizeOfRule
<1> HIDE DEF i, h, g
<1>3. s0 \in Seq(Nat) /\ Len(s0) = 2 /\ s0[1] = r.ruleType /\ s0[2] = r.actionType
  BY <1>1
<1> HIDE DEF s0
<1>4. /\ s1 \in Seq(Nat) /\ Len(s1) = 2 + i
      /\ \A c \in 1 .. 2 + i : s1[c] = IF c <= 2 THEN s0[c] ELSE r.ipd[c - 2]
  <2>1. /\ s0 \o r.ipd \in Seq(Nat) /\ Len(s0 \o r.ipd) = Len(s0) + Len(r.ipd)
        /\ \A c \in 1 .. Len(s0) + Len(r.ipd) :
             (s0 \o r.ipd)[c] = IF c <= Len(s0) THEN s0[c] ELSE r.ipd[c - Len(s0)]
    BY <1>1, <1>3, ConcatProperties
  <2> QED BY <1>1, <1>2, <1>3, <2>1
<1> HIDE DEF s1
<1>5. /\ s2 \in Seq(Nat) /\ Len(s2) = 2 + i + h
      /\ \A c \in 1 .. 2 + i + h : s2[c] = IF c <= 2 + i THEN s1[c] ELSE r.eth[c - (2 + i)]
  <2>1. /\ s1 \o r.eth \in Seq(Nat) /\ Len(s1 \o r.eth) = Len(s1) + Len(r.eth)
        /\ \A c \in 1 .. Len(s1) + Len(r.eth) :
             (s1 \o r.eth)[c] = IF c <= Len(s1) THEN s1[c] ELSE r.eth[c - Len(s1)]
    BY <1>1, <1>4, ConcatProperties
  <2> QED BY <1>1, <1>2, <1>4, <2>1
<1> HIDE DEF s2
<1>6. /\ s3 \in Seq(Nat) /\ Len(s3) = 2 + i + h + g
      /\ \A c \in 1 .. 2 + i + h + g : s3[c] = IF c <= 2 + i + h THEN s2[c] ELSE r.target[c - (2 + i + h)]
  <2>0. s2 \in Seq(Nat) /\ r.target \in Seq(Nat)
    BY <1>1, <1>5
  <2>1. /\ s2 \o r.target \in Seq(Nat) /\ Len(s2 \o r.target) = Len(s2) + Len(r.target)
        /\ \A c \in 1 .. Len(s2) + Len(r.target) :
             (s2 \o r.target)[c] = IF c <= Len(s2) THEN s2[c] ELSE r.target[c - Len(s2)]
    BY <2>0, ConcatProperties
  <2> QED BY <1>1, <1>2, <1>5, <2>1
<1>7. Encode(r) = s3
  BY DEF Encode, s0, s1, s2
<1> HIDE DEF s3
<1>8. s3[1] = r.ruleType /\ s3[2] = r.actionType
  BY <1>2, <1>3, <1>4, <1>5, <1>6
<1>9. ASSUME NEW c \in 1 .. i PROVE s3[2 + c] = r.ipd[c]
  <2>1. 2 + c \in 1 .. 2 + i /\ 2 + c \in 1 .. 2 + i + h /\ 2 + c \in 1 .. 2 + i + h + g
        /\ 2 + c <= 2 + i + h /\ 2 + c <= 2 + i /\ ~(2 + c <= 2) /\ (2 + c) - 2 = c
    BY <1>2
  <2> QED BY <1>4, <1>5, <1>6, <2>1
<1>10. ASSUME NEW c \in 1 .. h PROVE s3[2 + i + c] = r.eth[c]
  <2>1. 2 + i + c \in 1 .. 2 + i + h /\ 2 + i + c \in 1 .. 2 + i + h + g
        /\ 2 + i + c <= 2 + i + h /\ ~(2 + i + c <= 2 + i) /\ (2 + i + c) - (2 + i) = c
    BY <1>2
  <2> QED BY <1>5, <1>6, <2>1
<1>11. ASSUME NEW c \in 1 .. g PROVE s3[2 + i + h + c] = r.target[c]
  <2>1. 2 + i + h + c \in 1 .. 2 + i + h + g
        /\ ~(2 + i + h + c <= 2 + i + h) /\ (2 + i + h + c) - (2 + i + h) = c
    BY <1>2
  <2> QED BY <1>6, <2>1
<1> QED BY <1>2, <1>6, <1>7, <1>8, <1>9, <1>10, <1>11 DEF i, h, g

(* Array e holds rule r at cell p.                                         *)
Holds(e, p, r) == \A c \in 1 .. SizeOfRule(r) : Byte(e, p + c - 1) = Encode(r)[c]

(* A rule reads back as it was written.                                    *)
LEMMA ReadBack ==
  ASSUME NEW e, NEW p \in Nat, NEW r \in Rules, Holds(e, p, r)
  PROVE  nextRule(e)[p] = r /\ Skip(e)[p] = p + SizeOfRule(r)
<1> DEFINE t == r.ruleType
           a == r.actionType
           i == IpBytes(t)
           h == EthBytes(t)
           g == TargetBytes(a)
           w == SizeOfRule(r)
           cells == Encode(r)
<1>1. i \in Nat /\ h \in Nat /\ g \in Nat /\ w = 2 + i + h + g
  BY BytesType DEF SizeOfRule
<1>2. /\ cells[1] = t /\ cells[2] = a
      /\ \A c \in 1 .. i : cells[2 + c] = r.ipd[c]
      /\ \A c \in 1 .. h : cells[2 + i + c] = r.eth[c]
      /\ \A c \in 1 .. g : cells[2 + i + h + c] = r.target[c]
  BY EncodeCells
<1>3. \A c \in 1 .. w : Byte(e, p + c - 1) = cells[c]
  BY DEF Holds
<1>4. /\ r.ipd \in Seq(Nat) /\ Len(r.ipd) = i
      /\ r.eth \in Seq(Nat) /\ Len(r.eth) = h
      /\ r.target \in Seq(Nat) /\ Len(r.target) = g
  BY RuleType
<1>5. r = [ruleType |-> t, actionType |-> a, ipd |-> r.ipd, eth |-> r.eth, target |-> r.target]
  BY RuleType
<1>6. Skip(e)[p] = p + Bytes(Byte(e, p), Byte(e, p + 1)) /\ w = Bytes(t, a)
  BY SkipType DEF SizeOfRule
<1> HIDE DEF cells, w
<1>7. Byte(e, p) = t /\ Byte(e, p + 1) = a
  <2>1. 1 \in 1 .. w /\ 2 \in 1 .. w /\ p + 1 - 1 = p /\ p + 2 - 1 = p + 1
    BY <1>1
  <2> QED BY <1>2, <1>3, <2>1
<1>8. nextRule(e)[p] =
        [ruleType |-> t, actionType |-> a, ipd |-> Slice(e, p + 2, i), eth |-> Slice(e, p + 2 + i, h),
         target |-> Slice(e, p + 2 + i + h, g)]
  BY <1>7, RuleParts
<1>9. Skip(e)[p] = p + w
  BY <1>6, <1>7
<1> HIDE DEF t, a, i, h, g
<1>10. Slice(e, p + 2, i) = r.ipd
  <2>1. ASSUME NEW c \in 1 .. i PROVE Byte(e, p + 2 + c - 1) = r.ipd[c]
    <3>1. 2 + c \in 1 .. w /\ p + (2 + c) - 1 = p + 2 + c - 1
      BY <1>1
    <3> QED BY <1>2, <1>3, <3>1
  <2>2. r.ipd = [c \in 1 .. i |-> r.ipd[c]]
    BY <1>1, <1>4
  <2> QED BY <2>1, <2>2, Zenon DEF Slice
<1>11. Slice(e, p + 2 + i, h) = r.eth
  <2>1. ASSUME NEW c \in 1 .. h PROVE Byte(e, p + 2 + i + c - 1) = r.eth[c]
    <3>1. 2 + i + c \in 1 .. w /\ p + (2 + i + c) - 1 = p + 2 + i + c - 1
      BY <1>1
    <3> QED BY <1>2, <1>3, <3>1
  <2>2. r.eth = [c \in 1 .. h |-> r.eth[c]]
    BY <1>1, <1>4
  <2> QED BY <2>1, <2>2, Zenon DEF Slice
<1>12. Slice(e, p + 2 + i + h, g) = r.target
  <2>1. ASSUME NEW c \in 1 .. g PROVE Byte(e, p + 2 + i + h + c - 1) = r.target[c]
    <3>1. 2 + i + h + c \in 1 .. w /\ p + (2 + i + h + c) - 1 = p + 2 + i + h + c - 1
      BY <1>1
    <3> QED BY <1>2, <1>3, <3>1
  <2>2. r.target = [c \in 1 .. g |-> r.target[c]]
    BY <1>1, <1>4
  <2> QED BY <2>1, <2>2, Zenon DEF Slice
<1>13. nextRule(e)[p] = r
  BY <1>5, <1>8, <1>10, <1>11, <1>12
<1> QED BY <1>9, <1>13 DEF w

-----------------------------------------------------------------------------
(* What the two loops do to the cells.                                     *)

IsArray(d) == DOMAIN d = 0 .. DATA_SIZE /\ \A p \in 0 .. DATA_SIZE : d[p] \in Nat

LEMMA ByteInside ==
  ASSUME NEW d, IsArray(d), NEW p \in 0 .. DATA_SIZE
  PROVE  Byte(d, p) = d[p] /\ d[p] \in Nat
BY DEF Byte, IsArray

(* Array e is d with rule r written at cell at, before the cell end, and   *)
(* no type left behind.                                                    *)
Inserted(d, r, at, end, e) ==
  /\ IsArray(d) /\ at \in Nat /\ end \in Nat /\ at <= end
  /\ end + SizeOfRule(r) <= DATA_SIZE
  /\ at < end => Byte(d, at + SizeOfRule(r)) = Byte(d, at)
  /\ e = Write(MakeRoom(d, at, end, SizeOfRule(r)), at, Encode(r))

(* Inserting leaves the cells before the new rule alone, and moves the     *)
(* ones behind it by its size.                                             *)
LEMMA InsertCells ==
  ASSUME NEW d, NEW r \in Rules, NEW at, NEW end, NEW e, Inserted(d, r, at, end, e)
  PROVE  /\ IsArray(e)
         /\ Moved(d, 0, at, e, 0)
         /\ Holds(e, at, r)
         /\ Moved(d, at, end, e, SizeOfRule(r))
<1> DEFINE w == SizeOfRule(r)
           cells == Encode(r)
           mid == MakeRoom(d, at, end, w)
<1>1. /\ IsArray(d) /\ at \in Nat /\ end \in Nat /\ at <= end /\ end + w <= DATA_SIZE
      /\ at < end => Byte(d, at + w) = Byte(d, at)
      /\ e = Write(mid, at, cells)
  BY DEF Inserted
<1>2. w \in Nat /\ 2 <= w
  BY BytesType DEF SizeOfRule
<1>3. cells \in Seq(Nat) /\ Len(cells) = w
  BY EncodeCells
<1>4. DATA_SIZE \in Nat
  BY TableConstants
<1>5. DOMAIN d = 0 .. DATA_SIZE /\ \A p \in 0 .. DATA_SIZE : d[p] \in Nat /\ Byte(d, p) = d[p]
  BY <1>1, ByteInside DEF IsArray
<1>6. mid = [p \in 0 .. DATA_SIZE |-> IF at + w < p /\ p <= end + w THEN Byte(d, p - w) ELSE d[p]]
  BY <1>5 DEF MakeRoom
<1> HIDE DEF w, cells, mid
<1>7. e = [p \in 0 .. DATA_SIZE |-> IF p - at \in 0 .. w - 1 THEN cells[p - at + 1] ELSE mid[p]]
  BY <1>1, <1>3, <1>6 DEF Write
<1>8. \A p \in 0 .. DATA_SIZE : at + w < p /\ p <= end + w => mid[p] = d[p - w] /\ mid[p] \in Nat
  BY <1>1, <1>2, <1>4, <1>5, <1>6
<1>9. \A p \in 0 .. DATA_SIZE : ~(at + w < p /\ p <= end + w) => mid[p] = d[p] /\ mid[p] \in Nat
  BY <1>5, <1>6
<1>10. \A p \in 0 .. DATA_SIZE : at <= p /\ p < at + w => e[p] = cells[p - at + 1] /\ e[p] \in Nat
  <2> SUFFICES ASSUME NEW p \in 0 .. DATA_SIZE, at <= p, p < at + w
               PROVE  e[p] = cells[p - at + 1] /\ e[p] \in Nat
    OBVIOUS
  <2>1. p - at \in 0 .. w - 1 /\ p - at + 1 \in 1 .. w
    BY <1>1, <1>2
  <2>2. cells[p - at + 1] \in Nat
    BY <1>3, <2>1
  <2> QED BY <1>7, <2>1, <2>2
<1>11. \A p \in 0 .. DATA_SIZE : p < at \/ at + w <= p => e[p] = mid[p]
  BY <1>1, <1>2, <1>7
<1>12. IsArray(e)
  <2>1. \A p \in 0 .. DATA_SIZE : e[p] \in Nat
    BY <1>1, <1>2, <1>8, <1>9, <1>10, <1>11
  <2> QED BY <1>7, <2>1 DEF IsArray
<1>13. \A p \in 0 .. DATA_SIZE : Byte(e, p) = e[p]
  BY <1>12, ByteInside
<1>15. Moved(d, 0, at, e, 0)
  <2> SUFFICES ASSUME NEW p \in Nat, 0 <= p, p < at PROVE Byte(e, p + 0) = Byte(d, p)
    BY DEF Moved
  <2>1. p \in 0 .. DATA_SIZE /\ p + 0 = p
    BY <1>1, <1>2, <1>4
  <2>2. e[p] = d[p]
    BY <1>1, <1>2, <1>9, <1>11, <2>1
  <2> QED BY <1>5, <1>13, <2>1, <2>2
<1>16. Holds(e, at, r)
  <2> SUFFICES ASSUME NEW c \in 1 .. w PROVE Byte(e, at + c - 1) = cells[c]
    BY DEF Holds, w, cells
  <2>1. /\ at + c - 1 \in 0 .. DATA_SIZE /\ at <= at + c - 1 /\ at + c - 1 < at + w
        /\ (at + c - 1) - at + 1 = c
    BY <1>1, <1>2, <1>4
  <2> QED BY <1>10, <1>13, <2>1
<1>17. Moved(d, at, end, e, w)
  <2> SUFFICES ASSUME NEW p \in Nat, at <= p, p < end PROVE Byte(e, p + w) = Byte(d, p)
    BY DEF Moved
  <2>1. p \in 0 .. DATA_SIZE /\ p + w \in 0 .. DATA_SIZE /\ at + w <= p + w /\ (p + w) - w = p
    BY <1>1, <1>2, <1>4
  <2>2. e[p + w] = mid[p + w]
    BY <1>11, <2>1
  <2>3. CASE p = at
    <3>1. mid[at + w] = d[at + w]
      BY <1>1, <1>2, <1>9, <2>1, <2>3
    <3>2. d[at + w] = d[at]
      BY <1>1, <1>5, <2>1, <2>3
    <3> QED BY <1>5, <1>13, <2>1, <2>2, <2>3, <3>1, <3>2
  <2>4. CASE p # at
    <3>1. at + w < p + w /\ p + w <= end + w
      BY <1>1, <1>2, <2>4
    <3>2. mid[p + w] = d[p]
      BY <1>8, <2>1, <3>1
    <3> QED BY <1>5, <1>13, <2>1, <2>2, <3>2
  <2> QED BY <2>3, <2>4
<1> QED BY <1>12, <1>15, <1>16, <1>17 DEF w

(* Array e is d without the cells at .. at + gap - 1, before the cell end. *)
Closed(d, at, gap, end, e) ==
  /\ IsArray(d) /\ at \in Nat /\ gap \in Nat /\ end \in Nat /\ at + gap <= end /\ end <= DATA_SIZE
  /\ e = CloseGap(d, at, end, gap)

LEMMA CloseCells ==
  ASSUME NEW d, NEW at, NEW gap, NEW end, NEW e, Closed(d, at, gap, end, e)
  PROVE  /\ IsArray(e)
         /\ Moved(d, 0, at, e, 0)
         /\ Moved(d, at + gap, end, e, -gap)
<1>1. /\ IsArray(d) /\ at \in Nat /\ gap \in Nat /\ end \in Nat /\ at + gap <= end /\ end <= DATA_SIZE
      /\ e = CloseGap(d, at, end, gap)
  BY DEF Closed
<1>2. DATA_SIZE \in Nat
  BY TableConstants
<1>3. DOMAIN d = 0 .. DATA_SIZE /\ \A p \in 0 .. DATA_SIZE : d[p] \in Nat /\ Byte(d, p) = d[p]
  BY <1>1, ByteInside DEF IsArray
<1>4. e = [p \in 0 .. DATA_SIZE |-> IF at <= p /\ p + gap < end THEN Byte(d, p + gap) ELSE d[p]]
  BY <1>1, <1>3 DEF CloseGap
<1>5. \A p \in 0 .. DATA_SIZE : at <= p /\ p + gap < end => e[p] = d[p + gap] /\ e[p] \in Nat
  BY <1>1, <1>2, <1>3, <1>4
<1>6. \A p \in 0 .. DATA_SIZE : ~(at <= p /\ p + gap < end) => e[p] = d[p] /\ e[p] \in Nat
  BY <1>3, <1>4
<1>7. IsArray(e)
  BY <1>4, <1>5, <1>6 DEF IsArray
<1>8. \A p \in 0 .. DATA_SIZE : Byte(e, p) = e[p]
  BY <1>7, ByteInside
<1>10. Moved(d, 0, at, e, 0)
  <2> SUFFICES ASSUME NEW p \in Nat, 0 <= p, p < at PROVE Byte(e, p + 0) = Byte(d, p)
    BY DEF Moved
  <2>1. p \in 0 .. DATA_SIZE /\ p + 0 = p /\ ~(at <= p)
    BY <1>1, <1>2
  <2> QED BY <1>3, <1>6, <1>8, <2>1
<1>11. Moved(d, at + gap, end, e, -gap)
  <2> SUFFICES ASSUME NEW p \in Nat, at + gap <= p, p < end PROVE Byte(e, p + (-gap)) = Byte(d, p)
    BY DEF Moved
  <2> DEFINE q == p + (-gap)
  <2>1. p \in 0 .. DATA_SIZE /\ q \in 0 .. DATA_SIZE /\ at <= q /\ q + gap = p /\ q + gap < end
    BY <1>1, <1>2
  <2> HIDE DEF q
  <2>2. Byte(e, q) = Byte(d, p)
    BY <1>3, <1>5, <1>8, <2>1
  <2> QED BY <2>2 DEF q
<1> QED BY <1>7, <1>10, <1>11

-----------------------------------------------------------------------------
(* What the operations do to the rules.                                    *)

(* Arrays that start with the same cells start with the same rules.        *)
LEMMA SameStart ==
  ASSUME NEW d, NEW n \in Nat, NEW e, NEW m \in Nat, NEW k \in Nat, k <= n, k <= m,
         Moved(d, 0, Locations(d, n)[k], e, 0)
  PROVE  /\ \A j \in 0 .. k : Locations(e, m)[j] = Locations(d, n)[j]
         /\ \A j \in 0 .. k - 1 :
              nextRule(e)[Locations(e, m)[j]] = nextRule(d)[Locations(d, n)[j]]
<1> DEFINE z == 0
<1>1. z \in Nat /\ z \in Int /\ z + k = k /\ z + k <= n /\ z + k <= m /\ \A p \in Nat : p + z = p /\ z + p = p
  OBVIOUS
<1>2. Locations(e, m)[z] = z /\ Locations(d, n)[z] = z
  BY LocationsDef
<1>3. Moved(d, z, Locations(d, n)[k], e, z)
  OBVIOUS
<1> HIDE DEF z
<1>4. SameWalk(d, n, z, e, m, z, k, z)
  <2>1. Moved(d, Locations(d, n)[z], Locations(d, n)[z + k], e, z)
    BY <1>1, <1>2, <1>3
  <2> QED BY <1>1, <1>2, <2>1 DEF SameWalk
<1>5. \A j \in 0 .. k : Locations(e, m)[z + j] = Locations(d, n)[z + j] + z
  BY <1>4, LocationsShift
<1>6. \A j \in 0 .. k - 1 :
        nextRule(e)[Locations(e, m)[z + j]] = nextRule(d)[Locations(d, n)[z + j]]
  BY <1>4, RulesShift
<1>7. \A j \in 0 .. k : j \in Nat /\ Locations(d, n)[j] \in Nat
  BY LocationsDef
<1>8. \A j \in 0 .. k - 1 : j \in Nat
  OBVIOUS
<1> QED BY <1>1, <1>5, <1>6, <1>7, <1>8

LEMMA InsertRules ==
  ASSUME NEW d, NEW n \in Nat, NEW i \in 0 .. n, NEW r \in Rules, NEW e,
         Inserted(d, r, Locations(d, n)[i], Locations(d, n)[n], e)
  PROVE  /\ Locations(e, n + 1)[n + 1] = Locations(d, n)[n] + SizeOfRule(r)
         /\ \A j \in 0 .. i - 1 :
              nextRule(e)[Locations(e, n + 1)[j]] = nextRule(d)[Locations(d, n)[j]]
         /\ nextRule(e)[Locations(e, n + 1)[i]] = r
         /\ \A j \in i .. n - 1 :
              nextRule(e)[Locations(e, n + 1)[j + 1]] = nextRule(d)[Locations(d, n)[j]]
<1> DEFINE ld == Locations(d, n)
           le == Locations(e, n + 1)
           w == SizeOfRule(r)
           b == i + 1
           k == n - i
           m == n + 1
<1>0. /\ m \in Nat /\ i \in Nat /\ b \in Nat /\ k \in Nat /\ i + k = n /\ b + k = m /\ i <= n /\ i <= m
      /\ i < m /\ w \in Nat /\ w \in Int
  BY BytesType DEF SizeOfRule
<1>1. /\ Moved(d, 0, ld[i], e, 0)
      /\ Holds(e, ld[i], r)
      /\ Moved(d, ld[i], ld[n], e, w)
  BY InsertCells
<1>2. /\ \A j \in 0 .. i : le[j] = ld[j]
      /\ \A j \in 0 .. i - 1 : nextRule(e)[le[j]] = nextRule(d)[ld[j]]
  BY <1>0, <1>1, SameStart
<1>3. ld[i] \in Nat /\ le[i] = ld[i]
  BY <1>2, LocationsDef
<1>4. nextRule(e)[ld[i]] = r /\ Skip(e)[ld[i]] = ld[i] + w
  BY <1>1, <1>3, ReadBack
<1>5. le[b] = Skip(e)[le[i]]
  BY <1>0, LocationsStep
<1>6. le[b] = ld[i] + w
  BY <1>3, <1>4, <1>5
<1>7. SameWalk(d, n, i, e, m, b, k, w)
  <2>1. Moved(d, ld[i], ld[i + k], e, w)
    BY <1>0, <1>1
  <2> HIDE DEF b, k, w
  <2> QED BY <1>0, <1>6, <2>1 DEF SameWalk
<1>8. \A j \in 0 .. k : le[b + j] = ld[i + j] + w
  BY <1>7, LocationsShift
<1>9. \A j \in 0 .. k - 1 : nextRule(e)[le[b + j]] = nextRule(d)[ld[i + j]]
  BY <1>7, RulesShift
<1> HIDE DEF ld, le, w
<1>10. le[n + 1] = ld[n] + w
  <2>1. k \in 0 .. k /\ b + k = n + 1 /\ i + k = n
    BY <1>0
  <2> QED BY <1>8, <2>1
<1>11. \A j \in i .. n - 1 : nextRule(e)[le[j + 1]] = nextRule(d)[ld[j]]
  <2> SUFFICES ASSUME NEW j \in i .. n - 1 PROVE nextRule(e)[le[j + 1]] = nextRule(d)[ld[j]]
    OBVIOUS
  <2>1. j - i \in 0 .. k - 1 /\ b + (j - i) = j + 1 /\ i + (j - i) = j
    OBVIOUS
  <2> QED BY <1>9, <2>1
<1> QED BY <1>2, <1>3, <1>4, <1>10, <1>11 DEF ld, le, w

LEMMA DeleteRules ==
  ASSUME NEW d, NEW n \in Nat, NEW i \in 0 .. n - 1, NEW e,
         \/ i = n - 1 /\ e = d
         \/ Closed(d, Locations(d, n)[i], Locations(d, n)[i + 1] - Locations(d, n)[i],
                   Locations(d, n)[n], e)
  PROVE  /\ Locations(e, n - 1)[n - 1] <= Locations(d, n)[n]
         /\ \A j \in 0 .. i - 1 :
              nextRule(e)[Locations(e, n - 1)[j]] = nextRule(d)[Locations(d, n)[j]]
         /\ \A j \in i + 1 .. n - 1 :
              nextRule(e)[Locations(e, n - 1)[j - 1]] = nextRule(d)[Locations(d, n)[j]]
<1> DEFINE ld == Locations(d, n)
           le == Locations(e, n - 1)
           a == i + 1
           k == n - (i + 1)
           m == n - 1
           gap == ld[i + 1] - ld[i]
<1>0. /\ m \in Nat /\ i \in Nat /\ a \in Nat /\ k \in Nat /\ a + k = n /\ i + k = m /\ i <= n /\ i <= m
      /\ i < n /\ i \in 0 .. n /\ a \in 0 .. n /\ n \in 0 .. n /\ m \in 0 .. n /\ m <= n
  OBVIOUS
<1>1. ld[i] \in Nat /\ ld[a] \in Nat /\ ld[n] \in Nat /\ ld[i] + 2 <= ld[a]
  BY <1>0, LocationsDef, LocationsStep
<1>2. CASE i = n - 1 /\ e = d
  <2>1. \A j \in 0 .. m : le[j] = ld[j]
    BY <1>0, <1>2, LocationsPrefix
  <2>2. ld[m] <= ld[n]
    BY <1>0, LocationsIncrease
  <2>3. le[m] = ld[m]
    BY <1>0, <2>1
  <2>4. \A j \in 0 .. i - 1 : nextRule(e)[le[j]] = nextRule(d)[ld[j]]
    BY <1>2, <2>1
  <2> HIDE DEF ld, le
  <2> QED BY <1>2, <2>2, <2>3, <2>4 DEF ld, le
<1>3. CASE Closed(d, ld[i], gap, ld[n], e)
  <2>1. gap \in Nat /\ ld[i] + gap = ld[a] /\ -gap \in Int /\ ld[i] = ld[a] + (-gap)
    BY <1>1
  <2>2. Moved(d, 0, ld[i], e, 0) /\ Moved(d, ld[i] + gap, ld[n], e, -gap)
    BY <1>3, CloseCells
  <2>3. /\ \A j \in 0 .. i : le[j] = ld[j]
        /\ \A j \in 0 .. i - 1 : nextRule(e)[le[j]] = nextRule(d)[ld[j]]
    BY <1>0, <2>2, SameStart
  <2>4. le[i] = ld[i]
    BY <1>0, <2>3
  <2>5. SameWalk(d, n, a, e, m, i, k, -gap)
    <3>1. Moved(d, ld[a], ld[a + k], e, -gap)
      BY <1>0, <2>1, <2>2
    <3>2. le[i] = ld[a] + (-gap)
      BY <2>1, <2>4
    <3>3. a + k <= n /\ i + k <= m
      BY <1>0
    <3> HIDE DEF a, k, gap
    <3> QED BY <1>0, <2>1, <3>1, <3>2, <3>3 DEF SameWalk
  <2>6. /\ \A j \in 0 .. k : le[i + j] = ld[a + j] + (-gap)
        /\ \A j \in 0 .. k - 1 : nextRule(e)[le[i + j]] = nextRule(d)[ld[a + j]]
    <3> DEFINE off == -gap
    <3> HIDE DEF a, k, m, off
    <3>1. SameWalk(d, n, a, e, m, i, k, off)
      BY <2>5 DEF off
    <3>2. \A j \in 0 .. k : Locations(e, m)[i + j] = Locations(d, n)[a + j] + off
      BY <3>1, LocationsShift
    <3>3. \A j \in 0 .. k - 1 :
            nextRule(e)[Locations(e, m)[i + j]] = nextRule(d)[Locations(d, n)[a + j]]
      BY <3>1, RulesShift
    <3> QED BY <3>2, <3>3 DEF off, m
  <2> HIDE DEF ld, le, gap
  <2>7. le[n - 1] <= ld[n]
    <3>1. k \in 0 .. k /\ i + k = n - 1 /\ a + k = n
      BY <1>0
    <3>2. le[n - 1] = ld[n] + (-gap)
      BY <2>6, <3>1
    <3> QED BY <1>1, <2>1, <3>2
  <2>8. \A j \in i + 1 .. n - 1 : nextRule(e)[le[j - 1]] = nextRule(d)[ld[j]]
    <3> SUFFICES ASSUME NEW j \in i + 1 .. n - 1 PROVE nextRule(e)[le[j - 1]] = nextRule(d)[ld[j]]
      OBVIOUS
    <3>1. j - a \in 0 .. k - 1 /\ i + (j - a) = j - 1 /\ a + (j - a) = j
      OBVIOUS
    <3> QED BY <2>6, <3>1
  <2> QED BY <2>3, <2>7, <2>8 DEF ld, le
<1> QED BY <1>2, <1>3

-----------------------------------------------------------------------------
(* The table as a list.                                                    *)

RulesIn(d, n) == [i \in 1 .. n |-> nextRule(d)[Locations(d, n)[i - 1]]]

LEMMA ListedIs == Listed = RulesIn(data, size)
BY DEF Listed, RuleAt, RulesIn

LEMMA FunctionIsSeq ==
  ASSUME NEW n \in Nat, NEW f, f = [i \in 1 .. n |-> f[i]]
  PROVE  f \in Seq({f[i] : i \in 1 .. n}) /\ Len(f) = n /\ DOMAIN f = 1 .. n
OBVIOUS

LEMMA InsertAtIs ==
  ASSUME NEW S, NEW s \in Seq(S), NEW n \in Nat, Len(s) = n
  PROVE  \A i \in 0 .. n : \A r :
           InsertAt(s, i + 1, r) =
             [k \in 1 .. n + 1 |-> IF k <= i THEN s[k] ELSE IF k = i + 1 THEN r ELSE s[k - 1]]
<1> SUFFICES ASSUME NEW i \in 0 .. n, NEW r
             PROVE  InsertAt(s, i + 1, r) =
                      [k \in 1 .. n + 1 |->
                         IF k <= i THEN s[k] ELSE IF k = i + 1 THEN r ELSE s[k - 1]]
  OBVIOUS
<1> DEFINE T == S \cup {r}
           x == SubSeq(s, 1, i)
           y == SubSeq(s, i + 1, n)
           m == x \o <<r>>
<1>1. \A k \in 1 .. n : s[k] \in T
  OBVIOUS
<1>2. x \in Seq(T) /\ Len(x) = i /\ \A k \in 1 .. i : x[k] = s[k]
  <2>1. \A k \in 1 .. i : s[k] \in T
    BY <1>1
  <2> HIDE DEF T
  <2>2. /\ x \in Seq(T) /\ Len(x) = IF 1 <= i THEN i - 1 + 1 ELSE 0
        /\ \A k \in 1 .. i - 1 + 1 : x[k] = s[1 + k - 1]
    BY <2>1, SubSeqProperties
  <2> HIDE DEF x
  <2> QED BY <2>2
<1>3. y \in Seq(T) /\ Len(y) = n - i /\ \A k \in 1 .. n - i : y[k] = s[i + k]
  <2>1. \A k \in i + 1 .. n : s[k] \in T
    BY <1>1
  <2> HIDE DEF T
  <2>2. /\ y \in Seq(T) /\ Len(y) = IF i + 1 <= n THEN n - (i + 1) + 1 ELSE 0
        /\ \A k \in 1 .. n - (i + 1) + 1 : y[k] = s[(i + 1) + k - 1]
    BY <2>1, SubSeqProperties
  <2> HIDE DEF y
  <2>3. n - (i + 1) + 1 = n - i /\ \A k \in 1 .. n - i : (i + 1) + k - 1 = i + k
    OBVIOUS
  <2> QED BY <2>2, <2>3
<1>4. r \in T
  OBVIOUS
<1> HIDE DEF T, x, y
<1>5. m \in Seq(T) /\ Len(m) = i + 1 /\ \A k \in 1 .. i + 1 : m[k] = IF k <= i THEN x[k] ELSE r
  BY <1>2, <1>4
<1>6. InsertAt(s, i + 1, r) = m \o y
  <2>1. (i + 1) - 1 = i
    OBVIOUS
  <2> QED BY <2>1 DEF InsertAt, x, y
<1> HIDE DEF m
<1>7. /\ m \o y \in Seq(T) /\ Len(m \o y) = Len(m) + Len(y)
      /\ \A k \in 1 .. Len(m) + Len(y) : (m \o y)[k] = IF k <= Len(m) THEN m[k] ELSE y[k - Len(m)]
  BY <1>3, <1>5, ConcatProperties
<1> DEFINE o == m \o y
<1> HIDE DEF o
<1>8. /\ o \in Seq(T) /\ Len(o) = n + 1
      /\ \A k \in 1 .. n + 1 : o[k] = IF k <= i + 1 THEN m[k] ELSE y[k - (i + 1)]
  <2>1. Len(m) = i + 1 /\ Len(m) + Len(y) = n + 1
    BY <1>3, <1>5
  <2> QED BY <1>7, <2>1 DEF o
<1>9. o = [k \in 1 .. n + 1 |-> o[k]]
  BY <1>8
<1>10. \A k \in 1 .. n + 1 : o[k] = IF k <= i THEN s[k] ELSE IF k = i + 1 THEN r ELSE s[k - 1]
  <2> SUFFICES ASSUME NEW k \in 1 .. n + 1
               PROVE  o[k] = IF k <= i THEN s[k] ELSE IF k = i + 1 THEN r ELSE s[k - 1]
    OBVIOUS
  <2>1. CASE k <= i
    BY <1>2, <1>5, <1>8, <2>1
  <2>2. CASE k = i + 1
    BY <1>5, <1>8, <2>2
  <2>3. CASE k > i + 1
    <3>1. k - (i + 1) \in 1 .. n - i /\ i + (k - (i + 1)) = k - 1
      BY <2>3
    <3> QED BY <1>3, <1>8, <2>3, <3>1
  <2> QED BY <2>1, <2>2, <2>3
<1> QED BY <1>6, <1>9, <1>10 DEF o

LEMMA RemoveAtIs ==
  ASSUME NEW S, NEW s \in Seq(S), NEW n \in Nat, Len(s) = n, NEW i \in 0 .. n - 1
  PROVE  RemoveAt(s, i + 1) = [k \in 1 .. n - 1 |-> IF k <= i THEN s[k] ELSE s[k + 1]]
<1> DEFINE x == SubSeq(s, 1, i)
           y == SubSeq(s, i + 2, n)
           o == x \o y
<1>1. \A k \in 1 .. n : s[k] \in S
  OBVIOUS
<1>2. x \in Seq(S) /\ Len(x) = i /\ \A k \in 1 .. i : x[k] = s[k]
  <2>1. \A k \in 1 .. i : s[k] \in S
    BY <1>1
  <2>2. /\ x \in Seq(S) /\ Len(x) = IF 1 <= i THEN i - 1 + 1 ELSE 0
        /\ \A k \in 1 .. i - 1 + 1 : x[k] = s[1 + k - 1]
    BY <2>1, SubSeqProperties
  <2> HIDE DEF x
  <2> QED BY <2>2
<1>3. y \in Seq(S) /\ Len(y) = n - i - 1 /\ \A k \in 1 .. n - i - 1 : y[k] = s[i + 1 + k]
  <2>1. \A k \in i + 2 .. n : s[k] \in S
    BY <1>1
  <2>2. /\ y \in Seq(S) /\ Len(y) = IF i + 2 <= n THEN n - (i + 2) + 1 ELSE 0
        /\ \A k \in 1 .. n - (i + 2) + 1 : y[k] = s[(i + 2) + k - 1]
    BY <2>1, SubSeqProperties
  <2> HIDE DEF y
  <2>3. n - (i + 2) + 1 = n - i - 1 /\ \A k \in 1 .. n - i - 1 : (i + 2) + k - 1 = i + 1 + k
    OBVIOUS
  <2> QED BY <2>2, <2>3
<1>4. RemoveAt(s, i + 1) = o
  <2>1. (i + 1) - 1 = i /\ (i + 1) + 1 = i + 2
    OBVIOUS
  <2> QED BY <2>1 DEF RemoveAt
<1> HIDE DEF x, y
<1>5. /\ o \in Seq(S) /\ Len(o) = Len(x) + Len(y)
      /\ \A k \in 1 .. Len(x) + Len(y) : o[k] = IF k <= Len(x) THEN x[k] ELSE y[k - Len(x)]
  BY <1>2, <1>3, ConcatProperties
<1> HIDE DEF o
<1>6. /\ Len(o) = n - 1
      /\ \A k \in 1 .. n - 1 : o[k] = IF k <= i THEN x[k] ELSE y[k - i]
  <2>1. Len(x) = i /\ Len(x) + Len(y) = n - 1
    BY <1>2, <1>3
  <2> QED BY <1>5, <2>1
<1>7. o = [k \in 1 .. n - 1 |-> o[k]]
  BY <1>5, <1>6
<1>8. \A k \in 1 .. n - 1 : o[k] = IF k <= i THEN s[k] ELSE s[k + 1]
  <2> SUFFICES ASSUME NEW k \in 1 .. n - 1 PROVE o[k] = IF k <= i THEN s[k] ELSE s[k + 1]
    OBVIOUS
  <2>1. CASE k <= i
    BY <1>2, <1>6, <2>1
  <2>2. CASE k > i
    <3>1. k - i \in 1 .. n - i - 1 /\ i + 1 + (k - i) = k + 1
      BY <2>2
    <3> QED BY <1>3, <1>6, <2>2, <3>1
  <2> QED BY <2>1, <2>2
<1> QED BY <1>4, <1>7, <1>8

LEMMA RulesInType ==
  ASSUME NEW d, NEW n \in Nat
  PROVE  /\ RulesIn(d, n) \in Seq({RulesIn(d, n)[i] : i \in 1 .. n}) /\ Len(RulesIn(d, n)) = n
         /\ \A i \in 1 .. n : RulesIn(d, n)[i] = nextRule(d)[Locations(d, n)[i - 1]]
<1> DEFINE f == RulesIn(d, n)
<1>1. f = [i \in 1 .. n |-> f[i]] /\ \A i \in 1 .. n : f[i] = nextRule(d)[Locations(d, n)[i - 1]]
  BY DEF RulesIn
<1> HIDE DEF f
<1>2. f \in Seq({f[i] : i \in 1 .. n}) /\ Len(f) = n
  BY <1>1, FunctionIsSeq
<1> QED BY <1>1, <1>2 DEF f

LEMMA InsertList ==
  ASSUME NEW d, NEW n \in Nat, NEW i \in 0 .. n, NEW r \in Rules, NEW e,
         Inserted(d, r, Locations(d, n)[i], Locations(d, n)[n], e)
  PROVE  RulesIn(e, n + 1) = InsertAt(RulesIn(d, n), i + 1, r)
<1> DEFINE s == RulesIn(d, n)
           t == RulesIn(e, n + 1)
           ld == Locations(d, n)
           le == Locations(e, n + 1)
<1> DEFINE T == {s[k] : k \in 1 .. n}
<1>1. /\ s \in Seq(T) /\ Len(s) = n
      /\ \A k \in 1 .. n : s[k] = nextRule(d)[ld[k - 1]]
  BY RulesInType
<1>2. \A k \in 1 .. n + 1 : t[k] = nextRule(e)[le[k - 1]]
  <2>1. n + 1 \in Nat
    OBVIOUS
  <2> QED BY <2>1, RulesInType
<1>3. s = [k \in 1 .. n |-> s[k]] /\ t = [k \in 1 .. n + 1 |-> t[k]]
  BY DEF RulesIn
<1>4. /\ \A j \in 0 .. i - 1 : nextRule(e)[le[j]] = nextRule(d)[ld[j]]
      /\ nextRule(e)[le[i]] = r
      /\ \A j \in i .. n - 1 : nextRule(e)[le[j + 1]] = nextRule(d)[ld[j]]
  BY InsertRules
<1> HIDE DEF s, t, ld, le, T
<1>5. InsertAt(s, i + 1, r) =
        [k \in 1 .. n + 1 |-> IF k <= i THEN s[k] ELSE IF k = i + 1 THEN r ELSE s[k - 1]]
  <2>1. \A m \in 0 .. n : \A x :
          InsertAt(s, m + 1, x) =
            [k \in 1 .. n + 1 |-> IF k <= m THEN s[k] ELSE IF k = m + 1 THEN x ELSE s[k - 1]]
    BY <1>1, InsertAtIs
  <2> QED BY <2>1, Zenon
<1>6. ASSUME NEW k \in 1 .. n + 1
      PROVE  t[k] = IF k <= i THEN s[k] ELSE IF k = i + 1 THEN r ELSE s[k - 1]
  <2>1. CASE k <= i
    <3>1. k - 1 \in 0 .. i - 1 /\ k \in 1 .. n
      BY <2>1
    <3> QED BY <1>1, <1>2, <1>4, <2>1, <3>1
  <2>2. CASE k = i + 1
    <3>1. k - 1 = i /\ ~(k <= i)
      BY <2>2
    <3> QED BY <1>2, <1>4, <2>2, <3>1
  <2>3. CASE k > i + 1
    <3>1. k - 2 \in i .. n - 1 /\ (k - 2) + 1 = k - 1 /\ k - 1 \in 1 .. n /\ (k - 1) - 1 = k - 2
          /\ ~(k <= i) /\ k # i + 1
      BY <2>3
    <3>2. t[k] = nextRule(e)[le[k - 1]] /\ s[k - 1] = nextRule(d)[ld[(k - 1) - 1]]
      BY <1>1, <1>2, <3>1
    <3>3. nextRule(e)[le[(k - 2) + 1]] = nextRule(d)[ld[k - 2]]
      BY <1>4, <3>1
    <3>4. t[k] = s[k - 1]
      BY <3>1, <3>2, <3>3
    <3> QED BY <3>1, <3>4
  <2> QED BY <2>1, <2>2, <2>3
<1>7. t = InsertAt(s, i + 1, r)
  BY <1>3, <1>5, <1>6, Zenon
<1> QED BY <1>7 DEF s, t

LEMMA DeleteList ==
  ASSUME NEW d, NEW n \in Nat, NEW i \in 0 .. n - 1, NEW e,
         \/ i = n - 1 /\ e = d
         \/ Closed(d, Locations(d, n)[i], Locations(d, n)[i + 1] - Locations(d, n)[i],
                   Locations(d, n)[n], e)
  PROVE  RulesIn(e, n - 1) = RemoveAt(RulesIn(d, n), i + 1)
<1> DEFINE s == RulesIn(d, n)
           t == RulesIn(e, n - 1)
           ld == Locations(d, n)
           le == Locations(e, n - 1)
<1>0. n - 1 \in Nat
  OBVIOUS
<1> DEFINE T == {s[k] : k \in 1 .. n}
<1>1. /\ s \in Seq(T) /\ Len(s) = n
      /\ \A k \in 1 .. n : s[k] = nextRule(d)[ld[k - 1]]
  BY RulesInType
<1>2. \A k \in 1 .. n - 1 : t[k] = nextRule(e)[le[k - 1]]
  BY <1>0, RulesInType
<1>3. t = [k \in 1 .. n - 1 |-> t[k]]
  BY DEF RulesIn
<1>4. /\ \A j \in 0 .. i - 1 : nextRule(e)[le[j]] = nextRule(d)[ld[j]]
      /\ \A j \in i + 1 .. n - 1 : nextRule(e)[le[j - 1]] = nextRule(d)[ld[j]]
  BY DeleteRules
<1> HIDE DEF s, t, ld, le, T
<1>5. RemoveAt(s, i + 1) = [k \in 1 .. n - 1 |-> IF k <= i THEN s[k] ELSE s[k + 1]]
  BY <1>1, RemoveAtIs
<1>6. ASSUME NEW k \in 1 .. n - 1
      PROVE  t[k] = IF k <= i THEN s[k] ELSE s[k + 1]
  <2>1. CASE k <= i
    <3>1. k - 1 \in 0 .. i - 1 /\ k \in 1 .. n
      BY <2>1
    <3> QED BY <1>1, <1>2, <1>4, <2>1, <3>1
  <2>2. CASE k > i
    <3>1. k \in i + 1 .. n - 1 /\ k + 1 \in 1 .. n /\ (k + 1) - 1 = k /\ ~(k <= i)
      BY <2>2
    <3>2. t[k] = nextRule(e)[le[k - 1]] /\ s[k + 1] = nextRule(d)[ld[(k + 1) - 1]]
      BY <1>1, <1>2, <3>1
    <3>3. nextRule(e)[le[k - 1]] = nextRule(d)[ld[k]]
      BY <1>4, <3>1
    <3>4. t[k] = s[k + 1]
      BY <3>1, <3>2, <3>3
    <3> QED BY <3>1, <3>4
  <2> QED BY <2>1, <2>2
<1>7. t = RemoveAt(s, i + 1)
  BY <1>3, <1>5, <1>6, Zenon
<1> QED BY <1>7 DEF s, t

(* The rules of the list take the cells up to the end of the walk.         *)
LEMMA RoomOfRules ==
  ASSUME NEW d, NEW n \in Nat
  PROVE  List!RoomOf(RulesIn(d, n)) = Locations(d, n)[n]
<1> DEFINE s == RulesIn(d, n)
           l == Locations(d, n)
<1>1. Len(s) = n /\ \A k \in 1 .. n : s[k] = nextRule(d)[l[k - 1]]
  BY RulesInType
<1>2. l \in [0 .. n -> Nat] /\ l[0] = 0 /\ \A k \in 1 .. n : l[k] = Skip(d)[l[k - 1]]
  BY LocationsDef
<1> HIDE DEF s, l
<1>3. ASSUME NEW k \in 1 .. n PROVE l[k] = l[k - 1] + SizeOfRule(s[k])
  <2>1. l[k - 1] \in Nat
    BY <1>2
  <2>2. SizeOfRule(s[k]) = Bytes(Byte(d, l[k - 1]), Byte(d, l[k - 1] + 1))
    <3>1. \A p \in Nat : /\ nextRule(d)[p].ruleType = Byte(d, p)
                         /\ nextRule(d)[p].actionType = Byte(d, p + 1)
      BY DEF nextRule
    <3>2. s[k] = nextRule(d)[l[k - 1]]
      BY <1>1
    <3> QED BY <2>1, <3>1, <3>2 DEF SizeOfRule
  <2> QED BY <1>2, <2>1, <2>2, SkipType
<1>4. l = [k \in 0 .. Len(s) |-> IF k = 0 THEN 0 ELSE l[k - 1] + SizeOfRule(s[k])]
  <2>1. \A k \in 0 .. n : l[k] = IF k = 0 THEN 0 ELSE l[k - 1] + SizeOfRule(s[k])
    BY <1>2, <1>3
  <2>2. l = [k \in 0 .. n |-> l[k]]
    BY <1>2
  <2> QED BY <1>1, <2>1, <2>2, Zenon
<1>5. \E u : /\ u = [k \in 0 .. Len(s) |-> IF k = 0 THEN 0 ELSE u[k - 1] + SizeOfRule(s[k])]
             /\ List!RoomOf(s) = u[Len(s)]
  BY <1>4, Zenon DEF List!RoomOf
<1>6. PICK u : /\ u = [k \in 0 .. Len(s) |-> IF k = 0 THEN 0 ELSE u[k - 1] + SizeOfRule(s[k])]
               /\ List!RoomOf(s) = u[Len(s)]
  BY <1>5
<1>7. u[0] = 0 /\ \A k \in 1 .. n : u[k] = u[k - 1] + SizeOfRule(s[k])
  BY <1>1, <1>6
<1> DEFINE S == {k \in Nat : k <= n => u[k] = l[k]}
<1>8. 0 \in S
  BY <1>2, <1>7
<1>9. \A k \in Nat : k \in S => k + 1 \in S
  <2> SUFFICES ASSUME NEW k \in Nat, k + 1 <= n, u[k] = l[k] PROVE u[k + 1] = l[k + 1]
    OBVIOUS
  <2>1. k + 1 \in 1 .. n /\ (k + 1) - 1 = k
    OBVIOUS
  <2> QED BY <1>3, <1>7, <2>1
<1> HIDE DEF S
<1>10. n \in S
  BY <1>8, <1>9, NatSetInduction
<1> QED BY <1>1, <1>6, <1>10 DEF S, s, l

-----------------------------------------------------------------------------
(* The steps.  TypeOK is inductive as it stands.                           *)

LEMMA TypeArray == TypeOK <=> /\ IsArray(data) /\ size \in Nat
                              /\ spoilt \in BOOLEAN /\ past \in BOOLEAN
                              /\ spoilt => size # 0
                              /\ ~spoilt => Locations(data, size)[size] <= DATA_SIZE
                              /\ policy.action \in {Dns, Redirect}
BY DEF TypeOK, IsArray

LEMMA TypeArrayPrime == TypeOK' <=> /\ IsArray(data') /\ size' \in Nat
                                    /\ spoilt' \in BOOLEAN /\ past' \in BOOLEAN
                                    /\ spoilt' => size' # 0
                                    /\ ~spoilt' => Locations(data', size')[size'] <= DATA_SIZE
                                    /\ policy'.action \in {Dns, Redirect}
BY DEF TypeOK, IsArray

(* Whatever the walk through a spoilt table comes to, what is written are  *)
(* numbers.                                                                *)
LEMMA ByteType ==
  ASSUME NEW d, IsArray(d), NEW p
  PROVE  Byte(d, p) \in Nat
BY DEF Byte, IsArray

LEMMA InsertKeepsArray ==
  ASSUME NEW d, IsArray(d), NEW r \in Rules, NEW at \in Nat, NEW end \in Nat
  PROVE  IsArray(Write(MakeRoom(d, at, end, SizeOfRule(r)), at, Encode(r)))
<1> DEFINE w == SizeOfRule(r)
           cells == Encode(r)
           mid == MakeRoom(d, at, end, w)
           e == Write(mid, at, cells)
<1>1. w \in Nat
  BY BytesType DEF SizeOfRule
<1>2. cells \in Seq(Nat) /\ Len(cells) = w
  BY EncodeCells
<1>3. DOMAIN d = 0 .. DATA_SIZE /\ \A p \in 0 .. DATA_SIZE : d[p] \in Nat
  BY DEF IsArray
<1>4. mid = [p \in 0 .. DATA_SIZE |-> IF at + w < p /\ p <= end + w THEN Byte(d, p - w) ELSE d[p]]
  BY <1>3 DEF MakeRoom
<1>5. \A p \in 0 .. DATA_SIZE : mid[p] \in Nat
  BY <1>3, <1>4, ByteType
<1> HIDE DEF mid, cells, w
<1>6. e = [p \in 0 .. DATA_SIZE |-> IF p - at \in 0 .. w - 1 THEN cells[p - at + 1] ELSE mid[p]]
  BY <1>2, <1>4 DEF Write
<1>7. ASSUME NEW p \in 0 .. DATA_SIZE PROVE e[p] \in Nat
  <2>1. CASE p - at \in 0 .. w - 1
    <3>1. p - at + 1 \in 1 .. w
      BY <1>1, <2>1
    <3>2. cells[p - at + 1] \in Nat
      BY <1>2, <3>1
    <3> QED BY <1>6, <2>1, <3>2
  <2>2. CASE p - at \notin 0 .. w - 1
    BY <1>5, <1>6, <2>2
  <2> QED BY <2>1, <2>2
<1> HIDE DEF e
<1>8. IsArray(e)
  BY <1>6, <1>7 DEF IsArray
<1> QED BY <1>8 DEF e, mid, cells, w

LEMMA CloseKeepsArray ==
  ASSUME NEW d, IsArray(d), NEW at, NEW end, NEW gap
  PROVE  IsArray(CloseGap(d, at, end, gap))
BY ByteType DEF CloseGap, IsArray

LEMMA ListedPrime == Listed' = RulesIn(data', size')
BY DEF Listed, RuleAt, RulesIn

LEMMA Unmoved ==
  ASSUME UNCHANGED <<data, size>>
  PROVE  Listed' = Listed
BY ListedIs, ListedPrime

(* The list the table stands for.                                          *)
LEMMA DecodedIs ==
  /\ Decoded = IF spoilt THEN [k \in 1 .. size |-> Lost] ELSE Listed
  /\ Decoded' = IF spoilt' THEN [k \in 1 .. size' |-> Lost] ELSE Listed'
BY DEF Decoded, Lost

LEMMA LostLen ==
  ASSUME NEW n \in Nat
  PROVE  Len([k \in 1 .. n |-> Lost]) = n
OBVIOUS

LEMMA RuleNotLost ==
  ASSUME NEW dd, NEW p \in Nat
  PROVE  nextRule(dd)[p] # Lost
<1>1. "ruleType" \in DOMAIN nextRule(dd)[p]
  BY DEF nextRule
<1>2. "ruleType" \notin DOMAIN Lost
  BY DEF Lost
<1> QED BY <1>1, <1>2

LEMMA DecodedIntact ==
  ASSUME size \in Nat, spoilt \in BOOLEAN, spoilt => size # 0
  PROVE  Len(Decoded) = size /\ (List!Intact(Decoded) <=> ~spoilt)
<1>1. CASE spoilt
  <2>1. Decoded = [k \in 1 .. size |-> Lost] /\ 1 \in 1 .. size
    BY <1>1, DecodedIs
  <2>2. Len(Decoded) = size
    BY <2>1, LostLen
  <2>3. 1 \in DOMAIN Decoded /\ Decoded[1] = Lost
    BY <2>1
  <2>4. ~List!Intact(Decoded)
    BY <2>3 DEF List!Intact
  <2> QED BY <1>1, <2>2, <2>4
<1>2. CASE ~spoilt
  <2>1. Decoded = Listed /\ Listed = RulesIn(data, size)
    BY <1>2, DecodedIs, ListedIs
  <2>2. /\ Len(Listed) = size
        /\ \A k \in 1 .. size : Listed[k] = nextRule(data)[Locations(data, size)[k - 1]]
    BY <2>1, RulesInType
  <2>3. DOMAIN Listed = 1 .. size
    BY DEF Listed
  <2>4. \A k \in 1 .. size : Locations(data, size)[k - 1] \in Nat
    BY LocationsDef
  <2>5. \A k \in 1 .. size : Listed[k] # Lost
    BY <2>2, <2>4, RuleNotLost
  <2> QED BY <1>2, <2>1, <2>2, <2>3, <2>5 DEF List!Intact
<1> QED BY <1>1, <1>2

LEMMA ListedLen ==
  ASSUME size \in Nat
  PROVE  Len(Listed) = size /\ (~spoilt => List!Used = Locations(data, size)[size])
<1>1. Len(Listed) = size
  BY ListedIs, RulesInType
<1>2. List!RoomOf(Listed) = Locations(data, size)[size]
  BY ListedIs, RoomOfRules
<1>3. ~spoilt => Decoded = Listed
  BY DecodedIs
<1> QED BY <1>1, <1>2, <1>3 DEF List!Used

LEMMA AddVerdictsIs ==
  ASSUME NEW r, NEW i
  PROVE  /\ i > Len(Decoded) => List!AddVerdicts(r, i) = {FALSE}
         /\ ~(i > Len(Decoded)) /\ ~List!Intact(Decoded) => List!AddVerdicts(r, i) = BOOLEAN
         /\ ~(i > Len(Decoded)) /\ List!Intact(Decoded) =>
              List!AddVerdicts(r, i) = {List!Used + SizeOfRule(r) <= DATA_SIZE}
BY Zenon DEF List!AddVerdicts

LEMMA InsertStep ==
  ASSUME TypeOK, NEW r \in Rules, NEW index \in Nat, insertRules(r, index)
  PROVE  TypeOK' /\ List!Add(r, index)
<1> DEFINE loc == Locations(data, size)
           w == SizeOfRule(r)
           ok == index <= size /\ loc[size] + w <= DATA_SIZE
           left == ok /\ index < size /\ TypeLeftBehind(loc[index], w)
<1>1. /\ data' = IF ok THEN Write(MakeRoom(data, loc[index], loc[size], w), loc[index], Encode(r))
                       ELSE data
      /\ size' = IF ok THEN size + 1 ELSE size
      /\ reply' = [cmd |-> "add", index |-> index, ok |-> ok]
      /\ spoilt' = (spoilt \/ left)
      /\ past' \in BOOLEAN
      /\ policy' = policy
  BY DEF insertRules, insertRulesWithin
<1>2. /\ IsArray(data) /\ size \in Nat /\ policy.action \in {Dns, Redirect}
      /\ spoilt \in BOOLEAN /\ (spoilt => size # 0) /\ (~spoilt => loc[size] <= DATA_SIZE)
  BY TypeArray
<1>3. Len(Decoded) = size /\ (List!Intact(Decoded) <=> ~spoilt)
  BY <1>2, DecodedIntact
<1>4. Len(Listed) = size /\ (~spoilt => List!Used = loc[size])
  BY <1>2, ListedLen
<1>5. Listed = RulesIn(data, size) /\ Listed' = RulesIn(data', size')
  BY ListedIs, ListedPrime
<1>6. CASE ~ok
  <2>1. data' = data /\ size' = size /\ spoilt' = spoilt
    BY <1>1, <1>2, <1>6
  <2>2. Decoded' = Decoded
    BY <1>5, <2>1, DecodedIs
  <2>3. TypeOK'
    BY <1>1, <1>2, <2>1, TypeArrayPrime
  <2>4. reply' = [cmd |-> "add", index |-> index, ok |-> FALSE]
    BY <1>1, <1>6
  <2>5. FALSE \in List!AddVerdicts(r, index)
    <3>1. CASE index > Len(Decoded)
      BY <3>1, AddVerdictsIs, Zenon
    <3>2. CASE ~(index > Len(Decoded)) /\ spoilt
      BY <1>3, <3>2, AddVerdictsIs, Zenon
    <3>3. CASE ~(index > Len(Decoded)) /\ ~spoilt
      <4>1. ~(List!Used + w <= DATA_SIZE)
        BY <1>2, <1>3, <1>4, <1>6, <3>3
      <4>2. (List!Used + w <= DATA_SIZE) = FALSE
        BY <4>1
      <4>3. List!AddVerdicts(r, index) = {List!Used + w <= DATA_SIZE}
        BY <1>3, <3>3, AddVerdictsIs, Zenon
      <4> QED BY <4>2, <4>3, Zenon
    <3> QED BY <3>1, <3>2, <3>3, Zenon
  <2>6. List!AddAs(r, index, FALSE)
    BY <1>1, <2>2, <2>4 DEF List!AddAs
  <2> QED BY <2>3, <2>5, <2>6 DEF List!Add
<1>7. CASE ok
  <2>1. index \in 0 .. size /\ size + 1 \in Nat /\ size' = size + 1
    BY <1>1, <1>2, <1>7
  <2>2. loc[index] \in Nat /\ loc[size] \in Nat /\ loc[index] <= loc[size]
    BY <1>2, <2>1, LocationsDef, LocationsIncrease
  <2>3. loc[index] < loc[size] => index < size
    BY <1>2, <2>1, <2>2
  <2>4. data' = Write(MakeRoom(data, loc[index], loc[size], w), loc[index], Encode(r))
    BY <1>1, <1>7
  <2>5. IsArray(data')
    BY <1>2, <2>2, <2>4, InsertKeepsArray
  <2>6. reply' = [cmd |-> "add", index |-> index, ok |-> TRUE]
    BY <1>1, <1>7
  <2>7. TRUE \in List!AddVerdicts(r, index)
    <3>1. ~(index > Len(Decoded))
      BY <1>2, <1>3, <1>7
    <3>2. CASE spoilt
      BY <1>3, <3>1, <3>2, AddVerdictsIs, Zenon
    <3>3. CASE ~spoilt
      <4>1. List!Used + w <= DATA_SIZE
        BY <1>4, <1>7, <3>3
      <4> QED BY <1>3, <3>1, <3>3, <4>1, AddVerdictsIs, Zenon
    <3> QED BY <3>2, <3>3, Zenon
  <2>8. CASE spoilt \/ left
    <3>1. spoilt' = TRUE
      BY <1>1, <1>2, <2>8
    <3>2. TypeOK'
      BY <1>1, <1>2, <2>1, <2>5, <3>1, TypeArrayPrime
    <3>3. Decoded' = [k \in 1 .. size + 1 |-> Lost]
      BY <2>1, <3>1, DecodedIs
    <3>4. Decoded' = List!LostList(Len(Decoded) + 1)
      BY <1>3, <3>3 DEF List!LostList
    <3>5. spoilt \/ index < size
      BY <2>8
    <3>6. Decoded' \in List!Inserted(r, index)
      BY <1>3, <3>4, <3>5 DEF List!Inserted
    <3>7. List!AddAs(r, index, TRUE)
      BY <1>1, <2>6, <3>6 DEF List!AddAs
    <3> QED BY <2>7, <3>2, <3>7 DEF List!Add
  <2>9. CASE ~spoilt /\ ~left
    <3>1. spoilt' = FALSE
      BY <1>1, <1>2, <2>9
    <3>2. index < size => Byte(data, loc[index] + w) = Byte(data, loc[index])
      BY <1>7, <2>9 DEF TypeLeftBehind
    <3>3. Inserted(data, r, loc[index], loc[size], data')
      BY <1>2, <1>7, <2>2, <2>3, <2>4, <3>2 DEF Inserted
    <3> HIDE DEF loc
    <3>4. Locations(data', size + 1)[size + 1] = loc[size] + w
      BY <1>2, <2>1, <3>3, InsertRules DEF loc
    <3>5. RulesIn(data', size + 1) = InsertAt(RulesIn(data, size), index + 1, r)
      BY <1>2, <2>1, <3>3, InsertList DEF loc
    <3>6. TypeOK'
      BY <1>1, <1>2, <1>7, <2>1, <2>5, <3>1, <3>4, TypeArrayPrime
    <3>7. Listed' = InsertAt(Listed, index + 1, r)
      BY <1>5, <2>1, <3>5
    <3>8. Decoded = Listed /\ Decoded' = Listed'
      BY <2>9, <3>1, DecodedIs
    <3>9. Decoded' = List!InsertAt(Decoded, index + 1, r)
      BY <3>7, <3>8 DEF List!InsertAt, InsertAt
    <3>10. Decoded' \in List!Inserted(r, index)
      BY <1>3, <2>9, <3>9 DEF List!Inserted
    <3>11. List!AddAs(r, index, TRUE)
      BY <1>1, <2>6, <3>10 DEF List!AddAs
    <3> QED BY <2>7, <3>6, <3>11 DEF List!Add
  <2> QED BY <2>8, <2>9
<1> QED BY <1>6, <1>7

(* A rule less of a spoilt list.                                           *)
LEMMA RemoveLost ==
  ASSUME NEW n \in Nat, NEW i \in 0 .. n - 1
  PROVE  List!RemoveAt([k \in 1 .. n |-> Lost], i + 1) = [k \in 1 .. n - 1 |-> Lost]
<1> DEFINE s == [k \in 1 .. n |-> Lost]
           T == {s[k] : k \in 1 .. n}
<1>1. s \in Seq(T) /\ Len(s) = n
  <2>1. s = [k \in 1 .. n |-> s[k]]
    OBVIOUS
  <2> HIDE DEF s
  <2> QED BY <2>1, FunctionIsSeq
<1>2. \A k \in 1 .. n : s[k] = Lost
  OBVIOUS
<1> HIDE DEF s, T
<1>3. RemoveAt(s, i + 1) = [k \in 1 .. n - 1 |-> IF k <= i THEN s[k] ELSE s[k + 1]]
  BY <1>1, RemoveAtIs
<1>4. \A k \in 1 .. n - 1 : (IF k <= i THEN s[k] ELSE s[k + 1]) = Lost
  BY <1>2
<1>5. RemoveAt(s, i + 1) = [k \in 1 .. n - 1 |-> Lost]
  BY <1>3, <1>4
<1> QED BY <1>5 DEF s, List!RemoveAt, RemoveAt

LEMMA DeleteStep ==
  ASSUME TypeOK, NEW index \in Nat, DeleteRule(index)
  PROVE  TypeOK' /\ List!Delete(index)
<1> DEFINE loc == Locations(data, size)
<1>1. /\ data' = IF index < size - 1
                 THEN CloseGap(data, loc[index], loc[size], loc[index + 1] - loc[index])
                 ELSE data
      /\ size' = IF index < size THEN size - 1 ELSE size
      /\ reply' = [cmd |-> "delete", index |-> index, ok |-> index < size]
      /\ spoilt' = (spoilt /\ size' # 0)
      /\ past' \in BOOLEAN
      /\ policy' = policy
  BY DEF DeleteRule
<1>2. /\ IsArray(data) /\ size \in Nat /\ policy.action \in {Dns, Redirect}
      /\ spoilt \in BOOLEAN /\ (spoilt => size # 0) /\ (~spoilt => loc[size] <= DATA_SIZE)
  BY TypeArray
<1>3. Len(Decoded) = size /\ Len(Listed) = size
  BY <1>2, DecodedIntact, ListedLen
<1>4. Listed = RulesIn(data, size) /\ Listed' = RulesIn(data', size')
  BY ListedIs, ListedPrime
<1>5. CASE ~(index < size)
  <2>1. data' = data /\ size' = size /\ spoilt' = spoilt
    BY <1>1, <1>2, <1>5
  <2>2. Decoded' = Decoded
    BY <1>4, <2>1, DecodedIs
  <2>3. TypeOK'
    BY <1>1, <1>2, <2>1, TypeArrayPrime
  <2>4. List!Delete(index)
    BY <1>1, <1>3, <1>5, <2>2 DEF List!Delete, List!DeleteAs
  <2> QED BY <2>3, <2>4
<1>6. CASE index < size
  <2>1. /\ index \in 0 .. size - 1 /\ size - 1 \in Nat /\ size' = size - 1
        /\ index + 1 \in 0 .. size /\ size \in 0 .. size /\ index + 1 <= size
    BY <1>1, <1>2, <1>6
  <2>2. IsArray(data')
    BY <1>1, <1>2, CloseKeepsArray
  <2>3. Locations(data', size - 1) \in [0 .. size - 1 -> Nat] /\ Locations(data', size - 1)[0] = 0
    BY <2>1, LocationsDef
  <2>4. CASE spoilt
    <3>1. Decoded = [k \in 1 .. size |-> Lost]
      BY <2>4, DecodedIs
    <3>2. TypeOK'
      <4>1. size - 1 = 0 => Locations(data', size')[size'] <= DATA_SIZE
        BY <2>1, <2>3, TableConstants
      <4> QED BY <1>1, <1>2, <2>1, <2>2, <2>4, <4>1, TypeArrayPrime
    <3>3. Decoded' = [k \in 1 .. size - 1 |-> Lost]
      <4>1. CASE size - 1 # 0
        BY <1>1, <2>1, <2>4, <4>1, DecodedIs
      <4>2. CASE size - 1 = 0
        <5>1. Decoded' = Listed'
          BY <1>1, <2>1, <4>2, DecodedIs
        <5>2. Listed' = <<>> /\ [k \in 1 .. size - 1 |-> Lost] = <<>>
          BY <1>4, <2>1, <4>2 DEF RulesIn
        <5> QED BY <5>1, <5>2
      <4> QED BY <4>1, <4>2
    <3>4. Decoded' = List!RemoveAt(Decoded, index + 1)
      BY <1>2, <2>1, <3>1, <3>3, RemoveLost
    <3>5. List!Delete(index)
      BY <1>1, <1>3, <1>6, <3>4 DEF List!Delete, List!DeleteAs
    <3> QED BY <3>2, <3>5
  <2>5. CASE ~spoilt
    <3>1. /\ loc[index] \in Nat /\ loc[index + 1] \in Nat /\ loc[size] \in Nat
          /\ loc[index] + 2 <= loc[index + 1]
      BY <1>2, <1>6, LocationsDef, LocationsStep
    <3>2. loc[index + 1] <= loc[size]
      BY <1>2, <2>1, LocationsIncrease
    <3> DEFINE gap == loc[index + 1] - loc[index]
    <3>3. gap \in Nat /\ loc[index] + gap <= loc[size]
      BY <3>1, <3>2
    <3>4. \/ index = size - 1 /\ data' = data
          \/ Closed(data, loc[index], gap, loc[size], data')
      <4>1. CASE index < size - 1
        <5>1. data' = CloseGap(data, loc[index], loc[size], gap)
          BY <1>1, <4>1
        <5> HIDE DEF gap, loc
        <5> QED BY <1>2, <2>5, <3>1, <3>3, <5>1 DEF Closed
      <4>2. CASE ~(index < size - 1)
        BY <1>1, <1>2, <1>6, <4>2
      <4> QED BY <4>1, <4>2
    <3>5. Locations(data', size - 1)[size - 1] <= loc[size]
      BY <1>2, <2>1, <3>4, DeleteRules
    <3>6. RulesIn(data', size - 1) = RemoveAt(RulesIn(data, size), index + 1)
      BY <1>2, <2>1, <3>4, DeleteList
    <3>7. spoilt' = FALSE
      BY <1>1, <2>5
    <3>8. TypeOK'
      <4>1. Locations(data', size - 1)[size - 1] \in Nat
        BY <2>1, LocationsDef
      <4>2. Locations(data', size - 1)[size - 1] <= DATA_SIZE
        BY <1>2, <2>5, <3>1, <3>5, <4>1, TableConstants
      <4> QED BY <1>1, <1>2, <2>1, <2>2, <3>7, <4>2, TypeArrayPrime
    <3>9. Decoded = Listed /\ Decoded' = Listed'
      BY <2>5, <3>7, DecodedIs
    <3>10. Listed' = RemoveAt(Listed, index + 1)
      BY <1>4, <2>1, <3>6
    <3>11. Decoded' = List!RemoveAt(Decoded, index + 1)
      BY <3>9, <3>10 DEF List!RemoveAt, RemoveAt
    <3>12. List!Delete(index)
      BY <1>1, <1>3, <1>6, <3>11 DEF List!Delete, List!DeleteAs
    <3> QED BY <3>8, <3>12
  <2> QED BY <1>2, <2>4, <2>5
<1> QED BY <1>5, <1>6

LEMMA ClearStep ==
  ASSUME TypeOK, ClearRules
  PROVE  TypeOK' /\ List!Clear
<1>1. /\ data' = data /\ size' = 0 /\ policy' = policy /\ reply' = [cmd |-> "clear", ok |-> TRUE]
      /\ spoilt' = FALSE /\ past' = FALSE
  BY DEF ClearRules
<1>2. IsArray(data) /\ policy.action \in {Dns, Redirect}
  BY TypeArray
<1>3. Locations(data', 0)[0] = 0
  BY LocationsDef
<1>4. TypeOK'
  <2>1. IsArray(data') /\ size' \in Nat /\ Locations(data', size')[size'] <= DATA_SIZE
    BY <1>1, <1>2, <1>3, TableConstants
  <2>2. spoilt' \in BOOLEAN /\ past' \in BOOLEAN /\ ~spoilt' /\ policy'.action \in {Dns, Redirect}
    BY <1>1, <1>2, Zenon
  <2> QED BY <2>1, <2>2, TypeArrayPrime, Zenon
<1>5. Listed' = <<>>
  BY <1>1, ListedPrime DEF RulesIn
<1>6. Decoded' = <<>>
  BY <1>1, <1>5, DecodedIs
<1> QED BY <1>1, <1>4, <1>6 DEF List!Clear

LEMMA PolicyStep ==
  ASSUME TypeOK, NEW p \in Policies, SetPolicy(p)
  PROVE  TypeOK' /\ List!SetPolicyTo(p)
<1>1. /\ data' = data /\ size' = size /\ policy' = p /\ reply' = [cmd |-> "policy", ok |-> TRUE]
      /\ spoilt' = spoilt /\ past' = FALSE
  BY DEF SetPolicy
<1>2. TypeOK'
  BY <1>1, TypeArray, TypeArrayPrime, TableConstants
<1>3. Listed' = Listed
  BY <1>1, Unmoved
<1>4. Decoded' = Decoded
  BY <1>1, <1>3, DecodedIs
<1> QED BY <1>1, <1>2, <1>4 DEF List!SetPolicyTo

(* Whatever the command, it is one of the list's.                          *)
LEMMA TableStep ==
  ASSUME TypeOK, [Next]_vars
  PROVE  TypeOK' /\ [List!ListNext]_<<Decoded, policy, reply>>
<1>1. ASSUME NEW r \in Rules, AppendRule(r)
      PROVE  TypeOK' /\ List!Add(r, Len(Decoded))
  <2>1. size \in Nat /\ Len(Decoded) = size
    BY TypeArray, DecodedIntact
  <2> QED BY <1>1, <2>1, InsertStep DEF AppendRule
<1>2. ASSUME NEW r \in Rules, NEW i \in Indexes, InsertRule(r, i)
      PROVE  TypeOK' /\ List!Add(r, i)
  BY <1>2, InsertStep, TableConstants DEF InsertRule
<1>3. ASSUME NEW i \in Indexes, DeleteRule(i)
      PROVE  TypeOK' /\ List!Delete(i)
  BY <1>3, DeleteStep, TableConstants
<1>4. ASSUME UNCHANGED vars
      PROVE  TypeOK' /\ UNCHANGED <<Decoded, policy, reply>>
  <2>1. /\ data' = data /\ size' = size /\ policy' = policy /\ reply' = reply
        /\ spoilt' = spoilt /\ past' = past
    BY <1>4 DEF vars
  <2>2. Listed' = Listed
    BY <2>1, Unmoved
  <2>3. Decoded' = Decoded
    BY <2>1, <2>2, DecodedIs
  <2>4. TypeOK'
    BY <2>1, TypeArray, TypeArrayPrime
  <2> QED BY <2>1, <2>3, <2>4
<1> QED BY <1>1, <1>2, <1>3, <1>4, ClearStep, PolicyStep DEF Next, List!ListNext

LEMMA TableInit == Init => TypeOK /\ List!ListInit
<1> SUFFICES ASSUME Init PROVE TypeOK /\ List!ListInit
  OBVIOUS
<1>1. /\ data = [p \in 0 .. DATA_SIZE |-> 0] /\ size = 0
      /\ policy = [action |-> Dns, targetIpv4 |-> 0, targetIpv6 |-> 0]
      /\ reply = [cmd |-> "none", ok |-> TRUE]
      /\ spoilt = FALSE /\ past = FALSE
  BY DEF Init
<1>2. IsArray(data)
  BY <1>1 DEF IsArray
<1>3. Locations(data, 0)[0] = 0
  BY LocationsDef
<1>4. TypeOK
  BY <1>1, <1>2, <1>3, TypeArray, TableConstants
<1>5. Listed = <<>>
  BY <1>1, ListedIs DEF RulesIn
<1>6. Decoded = <<>>
  BY <1>1, <1>5, DecodedIs
<1> QED BY <1>1, <1>4, <1>6 DEF List!ListInit

(* The table keeps its shape whatever the sequence of commands: unless an  *)
(* insertion has left a type behind, the walk through its rules ends       *)
(* within the array.                                                       *)
THEOREM TableTypeCorrect == Spec => []TypeOK
<1>1. Init => TypeOK
  BY TableInit
<1>2. TypeOK /\ [Next]_vars => TypeOK'
  BY TableStep
<1> QED BY <1>1, <1>2, PTL DEF Spec

(* The packed table implements the list of rules: insertions before the    *)
(* end may spoil it, nothing else does.                                    *)
THEOREM ImplementsRuleListHolds == Spec => ImplementsRuleList
<1>1. Init => List!ListInit
  BY TableInit
<1>2. TypeOK /\ [Next]_vars => [List!ListNext]_<<Decoded, policy, reply>>
  BY TableStep
<1>3. Spec => []TypeOK
  BY TableTypeCorrect
<1> QED BY <1>1, <1>2, <1>3, PTL DEF Spec, ImplementsRuleList, List!ListSpec

-----------------------------------------------------------------------------
(* Verdicts, as functions of the list of rules.                            *)

FirstIn(list, n, in) ==
  LET matching == {i \in 1 .. n : Matches(list[i], in)}
  IN IF matching = {} THEN 0 ELSE Min(matching)

Verdict(list, n, pol, in) ==
  LET d == FirstIn(list, n, in)
  IN IF d # 0
     THEN [action |-> list[d].actionType, target |-> list[d].target]
     ELSE [action |-> pol.action,
           target |-> IF pol.action = Dns THEN <<>>
                      ELSE IF in.ipv4 = 1 THEN <<1, pol.targetIpv4>>
                                          ELSE <<0, pol.targetIpv6>>]

(* Rule k is the first one that matches.                                   *)
IsFirst(list, n, in, k) ==
  k \in 1 .. n /\ Matches(list[k], in) /\ \A j \in 1 .. k - 1 : ~Matches(list[j], in)

NoneMatches(list, n, in) == \A k \in 1 .. n : ~Matches(list[k], in)

LEMMA FirstInIs ==
  ASSUME NEW list, NEW n \in Nat, NEW in
  PROVE  /\ NoneMatches(list, n, in) => FirstIn(list, n, in) = 0
         /\ \A k : IsFirst(list, n, in, k) => FirstIn(list, n, in) = k
         /\ \/ NoneMatches(list, n, in)
            \/ IsFirst(list, n, in, FirstIn(list, n, in))
<1> DEFINE M == {i \in 1 .. n : Matches(list[i], in)}
<1>1. FirstIn(list, n, in) = IF M = {} THEN 0 ELSE Min(M)
  BY DEF FirstIn
<1>2. NoneMatches(list, n, in) <=> M = {}
  BY DEF NoneMatches
<1>3. \A k : IsFirst(list, n, in, k) <=> k \in M /\ \A x \in M : k <= x
  <2> SUFFICES ASSUME NEW k
               PROVE  IsFirst(list, n, in, k) <=> k \in M /\ \A x \in M : k <= x
    OBVIOUS
  <2>1. ASSUME IsFirst(list, n, in, k) PROVE k \in M /\ \A x \in M : k <= x
    <3>1. k \in 1 .. n /\ Matches(list[k], in) /\ \A j \in 1 .. k - 1 : ~Matches(list[j], in)
      BY <2>1 DEF IsFirst
    <3>2. ASSUME NEW x \in M PROVE k <= x
      <4>1. x \in 1 .. n /\ Matches(list[x], in)
        OBVIOUS
      <4>2. x \notin 1 .. k - 1
        BY <3>1, <4>1
      <4> QED BY <3>1, <4>1, <4>2
    <3> QED BY <3>1, <3>2
  <2>2. ASSUME k \in M, \A x \in M : k <= x PROVE IsFirst(list, n, in, k)
    <3>1. k \in 1 .. n /\ Matches(list[k], in)
      BY <2>2
    <3>2. ASSUME NEW j \in 1 .. k - 1 PROVE ~Matches(list[j], in)
      <4>1. j \in 1 .. n /\ ~(k <= j)
        BY <3>1
      <4>2. j \notin M
        BY <2>2, <4>1
      <4> QED BY <4>1, <4>2
    <3> QED BY <3>1, <3>2 DEF IsFirst
  <2> QED BY <2>1, <2>2
<1>4. M \in SUBSET Nat
  OBVIOUS
<1> HIDE DEF M
<1>5. M # {} => Min(M) \in M /\ \A x \in M : Min(M) <= x
  <2> SUFFICES ASSUME M # {} PROVE Min(M) \in M /\ \A x \in M : Min(M) <= x
    OBVIOUS
  <2>1. \E m \in M : \A x \in M : m <= x
    BY <1>4, LeastNat
  <2> QED BY <2>1 DEF Min
<1>6. ASSUME NEW k, IsFirst(list, n, in, k) PROVE FirstIn(list, n, in) = k
  <2>1. k \in M /\ \A x \in M : k <= x
    BY <1>3, <1>6
  <2>2. Min(M) \in M /\ Min(M) <= k /\ k <= Min(M) /\ M # {}
    BY <1>5, <2>1
  <2>3. Min(M) = k
    <3>1. Min(M) \in Nat /\ k \in Nat
      BY <1>4, <2>1, <2>2, Zenon
    <3> QED BY <2>2, <3>1
  <2> QED BY <1>1, <2>2, <2>3
<1>7. M # {} => IsFirst(list, n, in, FirstIn(list, n, in))
  BY <1>1, <1>3, <1>5
<1> QED BY <1>1, <1>2, <1>6, <1>7

LEMMA EvaluateIs ==
  ASSUME NEW in, size \in Nat
  PROVE  Decider(in) = FirstIn(Listed, size, in) /\ Evaluate(in) = Verdict(Listed, size, policy, in)
<1>1. \A i \in 1 .. size : Listed[i] = RuleAt(i - 1)
  BY DEF Listed
<1>2. {i \in 1 .. size : Matches(RuleAt(i - 1), in)} = {i \in 1 .. size : Matches(Listed[i], in)}
  BY <1>1
<1>3. Decider(in) = FirstIn(Listed, size, in)
  BY <1>2 DEF Decider, FirstIn
<1>4. Decider(in) # 0 => Decider(in) \in 1 .. size
  BY <1>3, FirstInIs DEF IsFirst
<1> QED BY <1>1, <1>3, <1>4 DEF Evaluate, Verdict

LEMMA EvaluateIsPrime ==
  ASSUME NEW in, size' \in Nat
  PROVE  Evaluate(in)' = Verdict(Listed', size', policy', in)
<1>1. \A i \in 1 .. size' : Listed'[i] = RuleAt(i - 1)'
  BY DEF Listed
<1>2. {i \in 1 .. size' : Matches(RuleAt(i - 1)', in)} = {i \in 1 .. size' : Matches(Listed'[i], in)}
  BY <1>1
<1>3. Decider(in)' = FirstIn(Listed', size', in)
  BY <1>2 DEF Decider, FirstIn
<1>4. Decider(in)' # 0 => Decider(in)' \in 1 .. size'
  BY <1>3, FirstInIs DEF IsFirst
<1> QED BY <1>1, <1>3, <1>4 DEF Evaluate, Verdict

(* Rule k of list is rule k2 of list2, behind rules that were before it.   *)
Again(list, k, list2, k2) ==
  list2[k2] = list[k] /\ \A j \in 1 .. k2 - 1 : \E i \in 1 .. k - 1 : list2[j] = list[i]

(* The rule that decided decides again.                                    *)
LEMMA SameFirst ==
  ASSUME NEW list, NEW n \in Nat, NEW list2, NEW n2 \in Nat, NEW pol, NEW in,
         NEW k, IsFirst(list, n, in, k), NEW k2 \in 1 .. n2, Again(list, k, list2, k2)
  PROVE  Verdict(list2, n2, pol, in) = Verdict(list, n, pol, in)
<1>1. k \in 1 .. n /\ Matches(list[k], in) /\ \A i \in 1 .. k - 1 : ~Matches(list[i], in)
  BY DEF IsFirst
<1>2. \A j \in 1 .. k2 - 1 : ~Matches(list2[j], in)
  BY <1>1 DEF Again
<1>3. IsFirst(list2, n2, in, k2) /\ list2[k2] = list[k]
  BY <1>1, <1>2 DEF IsFirst, Again
<1>4. FirstIn(list, n, in) = k /\ FirstIn(list2, n2, in) = k2
  BY <1>3, FirstInIs
<1> QED BY <1>1, <1>3, <1>4 DEF Verdict

LEMMA SameNone ==
  ASSUME NEW list, NEW n \in Nat, NEW list2, NEW n2 \in Nat, NEW pol, NEW in,
         NoneMatches(list, n, in), NoneMatches(list2, n2, in)
  PROVE  Verdict(list2, n2, pol, in) = Verdict(list, n, pol, in)
<1>1. FirstIn(list, n, in) = 0 /\ FirstIn(list2, n2, in) = 0
  BY FirstInIs
<1> QED BY <1>1 DEF Verdict

LEMMA InsertVerdict ==
  ASSUME NEW list, NEW n \in Nat, NEW i \in 0 .. n, NEW list2, NEW pol, NEW in,
         \A k \in 1 .. i : list2[k] = list[k],
         Verdict(list2, n + 1, pol, in) # Verdict(list, n, pol, in)
  PROVE  FirstIn(list, n, in) = 0 \/ FirstIn(list, n, in) > i
<1> DEFINE k == FirstIn(list, n, in)
<1> SUFFICES ASSUME k # 0, ~(k > i) PROVE FALSE
  OBVIOUS
<1>1. IsFirst(list, n, in, k)
  BY FirstInIs
<1>2. k \in 1 .. n /\ k <= i
  BY <1>1 DEF IsFirst
<1> HIDE DEF k
<1>3. \A j \in 1 .. k : list2[j] = list[j]
  BY <1>2
<1>4. k \in 1 .. n + 1 /\ n + 1 \in Nat /\ \A j \in 1 .. k - 1 : j \in 1 .. k
  BY <1>2
<1>5. Again(list, k, list2, k)
  <2>1. k \in 1 .. k
    BY <1>2
  <2> QED BY <1>3, <1>4, <2>1, Zenon DEF Again
<1> QED BY <1>1, <1>4, <1>5, SameFirst

LEMMA DeleteVerdict ==
  ASSUME NEW list, NEW n \in Nat, NEW i \in 0 .. n - 1, NEW list2, NEW pol, NEW in,
         list2 = [k \in 1 .. n - 1 |-> IF k <= i THEN list[k] ELSE list[k + 1]],
         Verdict(list2, n - 1, pol, in) # Verdict(list, n, pol, in)
  PROVE  FirstIn(list, n, in) = i + 1
<1> DEFINE k == FirstIn(list, n, in)
<1> SUFFICES ASSUME k # i + 1 PROVE FALSE
  OBVIOUS
<1>0. n - 1 \in Nat
  OBVIOUS
<1>1. CASE NoneMatches(list, n, in)
  <2>1. ASSUME NEW j \in 1 .. n - 1 PROVE ~Matches(list2[j], in)
    <3>1. j \in 1 .. n /\ j + 1 \in 1 .. n /\ list2[j] \in {list[j], list[j + 1]}
      OBVIOUS
    <3> QED BY <1>1, <3>1 DEF NoneMatches
  <2>2. NoneMatches(list2, n - 1, in)
    BY <2>1 DEF NoneMatches
  <2> QED BY <1>0, <1>1, <2>2, SameNone
<1>2. CASE IsFirst(list, n, in, k)
  <2>1. k \in 1 .. n
    BY <1>2 DEF IsFirst
  <2> HIDE DEF k
  <2>2. CASE k <= i
    <3>1. \A j \in 1 .. k : list2[j] = list[j]
      BY <2>1, <2>2
    <3>2. k \in 1 .. n - 1 /\ \A j \in 1 .. k - 1 : j \in 1 .. k
      BY <2>1, <2>2
    <3>3. Again(list, k, list2, k)
      <4>1. k \in 1 .. k
        BY <2>1
      <4> QED BY <3>1, <3>2, <4>1, Zenon DEF Again
    <3> QED BY <1>0, <1>2, <3>2, <3>3, SameFirst
  <2>3. CASE k > i + 1
    <3> DEFINE k2 == k - 1
    <3>1. k2 \in 1 .. n - 1 /\ ~(k2 <= i) /\ k2 + 1 = k
      BY <2>1, <2>3
    <3>2. list2[k2] = list[k]
      BY <3>1
    <3>3. ASSUME NEW j \in 1 .. k2 - 1 PROVE \E m \in 1 .. k - 1 : list2[j] = list[m]
      <4>1. j \in 1 .. n - 1 /\ j \in 1 .. k - 1 /\ j + 1 \in 1 .. k - 1
        BY <2>1, <3>1
      <4>2. list2[j] = list[j] \/ list2[j] = list[j + 1]
        BY <4>1
      <4> QED BY <4>1, <4>2
    <3>4. Again(list, k, list2, k2)
      BY <3>2, <3>3 DEF Again
    <3> HIDE DEF k2
    <3> QED BY <1>0, <1>2, <3>1, <3>4, SameFirst
  <2> QED BY <2>1, <2>2, <2>3
<1> QED BY <1>1, <1>2, FirstInIs

LEMMA ListedLenPrime == size' \in Nat => Len(Listed') = size'
BY ListedPrime, RulesInType

(* Two states with a list that is not spoilt.                              *)
Sound == TypeOK /\ TypeOK' /\ ~spoilt /\ ~spoilt'

LEMMA SoundLists ==
  ASSUME Sound
  PROVE  /\ Decoded = Listed /\ Decoded' = Listed' /\ List!Intact(Decoded)
         /\ size \in Nat /\ size' \in Nat /\ Len(Listed) = size /\ Len(Listed') = size'
         /\ \A k \in 1 .. size' : Listed'[k] # Lost
<1>1. /\ size \in Nat /\ size' \in Nat /\ ~spoilt /\ ~spoilt' /\ spoilt \in BOOLEAN
  BY TypeArray, TypeArrayPrime DEF Sound
<1>2. Decoded = Listed /\ Decoded' = Listed'
  BY <1>1, DecodedIs
<1>3. Len(Listed) = size /\ Len(Listed') = size'
  BY <1>1, ListedLen, ListedLenPrime
<1>4. List!Intact(Decoded)
  BY <1>1, DecodedIntact
<1>5. ASSUME NEW k \in 1 .. size' PROVE Listed'[k] # Lost
  <2>1. Listed'[k] = nextRule(data')[Locations(data', size')[k - 1]]
    BY <1>1, ListedPrime, RulesInType
  <2>2. Locations(data', size')[k - 1] \in Nat
    BY <1>1, LocationsDef
  <2> QED BY <2>1, <2>2, RuleNotLost
<1> QED BY <1>1, <1>2, <1>3, <1>4, <1>5

LEMMA AddVerdicts ==
  ASSUME Sound, NEW r, NEW i \in Nat, List!Add(r, i), NEW in, Evaluate(in)' # Evaluate(in)
  PROVE  reply'.cmd = "add" /\ reply'.index = i /\ (Decider(in) = 0 \/ Decider(in) > i)
<1>0. /\ Decoded = Listed /\ Decoded' = Listed' /\ List!Intact(Decoded)
      /\ \A k \in 1 .. size' : Listed'[k] # Lost
  BY SoundLists
<1>2. size \in Nat /\ size' \in Nat /\ Len(Listed) = size /\ Len(Listed') = size'
  BY SoundLists
<1>11. PICK ok \in List!AddVerdicts(r, i) : List!AddAs(r, i, ok)
  BY DEF List!Add
<1>12. ok \in BOOLEAN /\ (ok => i <= size)
  <2>0. ok \in List!AddVerdicts(r, i)
    BY <1>11
  <2>1. i > Len(Decoded) => ok = FALSE
    <3> SUFFICES ASSUME i > Len(Decoded) PROVE ok = FALSE
      OBVIOUS
    <3>1. List!AddVerdicts(r, i) = {FALSE}
      BY AddVerdictsIs, Zenon
    <3> QED BY <2>0, <3>1
  <2>2. ok \in BOOLEAN
    <3>1. CASE i > Len(Decoded)
      BY <2>1, <3>1
    <3>2. CASE ~(i > Len(Decoded))
      <4>1. List!AddVerdicts(r, i) = {List!Used + SizeOfRule(r) <= DATA_SIZE}
        BY <1>0, <3>2, AddVerdictsIs, Zenon
      <4>2. ok = (List!Used + SizeOfRule(r) <= DATA_SIZE)
        BY <2>0, <4>1, Zenon
      <4> QED BY <4>2
    <3> QED BY <3>1, <3>2
  <2>3. ok => ~(i > Len(Decoded))
    BY <2>1, Zenon
  <2>4. Len(Decoded) = size
    BY <1>0, <1>2
  <2>5. ~(i > size) => i <= size
    BY <1>2
  <2> QED BY <2>2, <2>3, <2>4, <2>5, Zenon
<1>13. /\ Listed' \in IF ok THEN List!Inserted(r, i) ELSE {Listed}
      /\ reply' = [cmd |-> "add", index |-> i, ok |-> ok]
      /\ policy' = policy
  BY <1>0, <1>11 DEF List!AddAs
<1>14. ok => Listed' = InsertAt(Listed, i + 1, r)
  <2> SUFFICES ASSUME ok PROVE Listed' = InsertAt(Listed, i + 1, r)
    OBVIOUS
  <2>1. \/ Listed' = List!InsertAt(Decoded, i + 1, r)
        \/ Listed' = List!LostList(Len(Decoded) + 1)
    BY <1>0, <1>13 DEF List!Inserted
  <2>2. Listed' # List!LostList(Len(Decoded) + 1)
    <3> SUFFICES ASSUME Listed' = List!LostList(Len(Decoded) + 1) PROVE FALSE
      OBVIOUS
    <3>1. Listed' = [k \in 1 .. size + 1 |-> Lost]
      BY <1>0, <1>2 DEF List!LostList
    <3>2. 1 \in 1 .. size + 1 /\ size + 1 \in Nat
      BY <1>2
    <3>3. Listed'[1] = Lost
      BY <3>1, <3>2
    <3>4. size' = size + 1
      BY <1>2, <3>1, <3>2, LostLen
    <3> QED BY <1>0, <3>2, <3>3, <3>4
  <2> QED BY <1>0, <2>1, <2>2 DEF List!InsertAt, InsertAt
<1>1. /\ Listed' = IF ok THEN InsertAt(Listed, i + 1, r) ELSE Listed
      /\ reply' = [cmd |-> "add", index |-> i, ok |-> ok]
      /\ policy' = policy
  BY <1>12, <1>13, <1>14
<1>3. /\ Decider(in) = FirstIn(Listed, size, in) /\ Evaluate(in) = Verdict(Listed, size, policy, in)
      /\ Evaluate(in)' = Verdict(Listed', size', policy, in)
  BY <1>1, <1>2, EvaluateIs, EvaluateIsPrime
<1>4. ok
  <2> SUFFICES ASSUME ~ok PROVE FALSE
    OBVIOUS
  <2>1. Listed' = Listed
    BY <1>1
  <2>2. size' = size
    BY <1>2, <2>1
  <2> QED BY <1>3, <2>1, <2>2
<1>5. i \in 0 .. size
  BY <1>2, <1>4, <1>12
<1> DEFINE T == {RulesIn(data, size)[k] : k \in 1 .. size}
<1>6. Listed \in Seq(T)
  BY <1>2, ListedIs, RulesInType
<1> HIDE DEF T
<1>7. Listed' = [k \in 1 .. size + 1 |->
                   IF k <= i THEN Listed[k] ELSE IF k = i + 1 THEN r ELSE Listed[k - 1]]
  <2>1. \A m \in 0 .. size : \A x :
          InsertAt(Listed, m + 1, x) =
            [k \in 1 .. size + 1 |->
               IF k <= m THEN Listed[k] ELSE IF k = m + 1 THEN x ELSE Listed[k - 1]]
    BY <1>2, <1>6, InsertAtIs
  <2>2. Listed' = InsertAt(Listed, i + 1, r)
    BY <1>1, <1>4
  <2> QED BY <1>5, <2>1, <2>2, Zenon
<1>8. size' = size + 1
  <2>1. DOMAIN Listed' = 1 .. size + 1 /\ DOMAIN Listed' = 1 .. size'
    BY <1>7, ListedPrime DEF RulesIn
  <2> QED BY <1>2, <2>1
<1>9. Verdict(Listed', size + 1, policy, in) # Verdict(Listed, size, policy, in)
  BY <1>3, <1>8
<1>10. FirstIn(Listed, size, in) = 0 \/ FirstIn(Listed, size, in) > i
  <2>1. \A k \in 1 .. i : Listed'[k] = Listed[k]
    BY <1>2, <1>5, <1>7
  <2> QED BY <1>2, <1>5, <1>9, <2>1, InsertVerdict
<1> QED BY <1>1, <1>3, <1>10

LEMMA DeleteVerdicts ==
  ASSUME Sound, NEW i \in Nat, List!Delete(i), NEW in, Evaluate(in)' # Evaluate(in)
  PROVE  reply'.cmd = "delete" /\ Decider(in) = reply'.index + 1
<1> DEFINE ok == i < Len(Listed)
<1>1. /\ Listed' = IF ok THEN RemoveAt(Listed, i + 1) ELSE Listed
      /\ reply' = [cmd |-> "delete", index |-> i, ok |-> ok]
      /\ policy' = policy
  BY SoundLists DEF List!Delete, List!DeleteAs, List!RemoveAt, RemoveAt
<1>2. size \in Nat /\ size' \in Nat /\ Len(Listed) = size /\ Len(Listed') = size'
  BY SoundLists
<1>3. /\ Decider(in) = FirstIn(Listed, size, in) /\ Evaluate(in) = Verdict(Listed, size, policy, in)
      /\ Evaluate(in)' = Verdict(Listed', size', policy, in)
  BY <1>1, <1>2, EvaluateIs, EvaluateIsPrime
<1>4. ok
  <2> SUFFICES ASSUME ~ok PROVE FALSE
    OBVIOUS
  <2>1. Listed' = Listed
    BY <1>1
  <2>2. size' = size
    BY <1>2, <2>1
  <2> QED BY <1>3, <2>1, <2>2
<1>5. i \in 0 .. size - 1 /\ size - 1 \in Nat
  BY <1>2, <1>4
<1> DEFINE T == {RulesIn(data, size)[k] : k \in 1 .. size}
<1>6. Listed \in Seq(T)
  BY <1>2, ListedIs, RulesInType
<1> HIDE DEF T
<1>7. Listed' = [k \in 1 .. size - 1 |-> IF k <= i THEN Listed[k] ELSE Listed[k + 1]]
  <2>1. RemoveAt(Listed, i + 1) =
          [k \in 1 .. size - 1 |-> IF k <= i THEN Listed[k] ELSE Listed[k + 1]]
    BY <1>2, <1>5, <1>6, RemoveAtIs
  <2> QED BY <1>1, <1>4, <2>1
<1>8. size' = size - 1
  <2>1. DOMAIN Listed' = 1 .. size - 1 /\ DOMAIN Listed' = 1 .. size'
    BY <1>7, ListedPrime DEF RulesIn
  <2> QED BY <1>2, <1>5, <2>1
<1>9. Verdict(Listed', size - 1, policy, in) # Verdict(Listed, size, policy, in)
  BY <1>3, <1>8
<1>10. FirstIn(Listed, size, in) = i + 1
  BY <1>2, <1>5, <1>7, <1>9, DeleteVerdict
<1> QED BY <1>1, <1>3, <1>10

LEMMA ClearVerdicts ==
  ASSUME Sound, List!Clear, NEW in, Evaluate(in)' # Evaluate(in)
  PROVE  reply'.cmd = "clear" /\ Decider(in) # 0
<1>1. Listed' = <<>> /\ reply' = [cmd |-> "clear", ok |-> TRUE] /\ policy' = policy
  BY SoundLists DEF List!Clear
<1>2. size \in Nat /\ size' \in Nat /\ Len(Listed') = size'
  BY SoundLists
<1>3. /\ Decider(in) = FirstIn(Listed, size, in) /\ Evaluate(in) = Verdict(Listed, size, policy, in)
      /\ Evaluate(in)' = Verdict(Listed', size', policy, in)
  BY <1>1, <1>2, EvaluateIs, EvaluateIsPrime
<1>4. size' = 0
  BY <1>1, <1>2
<1>5. NoneMatches(Listed', size', in)
  BY <1>4 DEF NoneMatches
<1>6. ~NoneMatches(Listed, size, in)
  BY <1>2, <1>3, <1>5, SameNone
<1>7. IsFirst(Listed, size, in, FirstIn(Listed, size, in))
  BY <1>2, <1>6, FirstInIs
<1>8. FirstIn(Listed, size, in) # 0
  BY <1>7 DEF IsFirst
<1> QED BY <1>1, <1>3, <1>8

LEMMA PolicyVerdicts ==
  ASSUME Sound, NEW p, List!SetPolicyTo(p), NEW in, Evaluate(in)' # Evaluate(in)
  PROVE  reply'.cmd = "policy" /\ Decider(in) = 0
<1>1. Listed' = Listed /\ reply' = [cmd |-> "policy", ok |-> TRUE]
  BY SoundLists DEF List!SetPolicyTo
<1>2. size \in Nat /\ size' \in Nat /\ Len(Listed) = size /\ Len(Listed') = size'
  BY SoundLists
<1>3. size' = size
  BY <1>1, <1>2
<1>4. /\ Decider(in) = FirstIn(Listed, size, in) /\ Evaluate(in) = Verdict(Listed, size, policy, in)
      /\ Evaluate(in)' = Verdict(Listed, size, policy', in)
  BY <1>1, <1>2, <1>3, EvaluateIs, EvaluateIsPrime
<1>5. FirstIn(Listed, size, in) = 0
  BY <1>4 DEF Verdict
<1> QED BY <1>1, <1>4, <1>5

(* A command that does not spoil the list changes the verdict on a query   *)
(* only where it should.                                                   *)
THEOREM OnlyOwnVerdictsHolds == Spec => OnlyOwnVerdicts
<1> DEFINE Own == \A in \in Inputs : ~spoilt /\ ~spoilt' /\ Evaluate(in)' # Evaluate(in) =>
                    CASE reply'.cmd = "add"    -> Decider(in) = 0 \/ Decider(in) > reply'.index
                      [] reply'.cmd = "delete" -> Decider(in) = reply'.index + 1
                      [] reply'.cmd = "clear"  -> Decider(in) # 0
                      [] reply'.cmd = "policy" -> Decider(in) = 0
<1>1. TypeOK /\ [Next]_vars => [Own]_vars
  <2> SUFFICES ASSUME TypeOK, Next, NEW in \in Inputs, ~spoilt, ~spoilt', Evaluate(in)' # Evaluate(in)
               PROVE  CASE reply'.cmd = "add"    -> Decider(in) = 0 \/ Decider(in) > reply'.index
                        [] reply'.cmd = "delete" -> Decider(in) = reply'.index + 1
                        [] reply'.cmd = "clear"  -> Decider(in) # 0
                        [] reply'.cmd = "policy" -> Decider(in) = 0
    OBVIOUS
  <2>1. Sound /\ [List!ListNext]_<<Decoded, policy, reply>>
    BY TableStep DEF Sound
  <2>2. /\ size \in Nat /\ size' \in Nat /\ Len(Listed) \in Nat /\ Len(Listed) = size /\ Len(Listed') = size'
        /\ Decoded = Listed /\ Decoded' = Listed'
    BY <2>1, SoundLists
  <2>3. CASE UNCHANGED <<Listed, policy, reply>>
    <3>1. size' = size
      BY <2>2, <2>3
    <3>2. Evaluate(in) = Verdict(Listed, size, policy, in) /\ Evaluate(in)' = Verdict(Listed', size', policy', in)
      BY <2>2, EvaluateIs, EvaluateIsPrime
    <3> QED BY <2>3, <3>1, <3>2
  <2>4. ASSUME NEW r \in Rules, NEW i \in Nat, List!Add(r, i)
        PROVE  reply'.cmd = "add" /\ (Decider(in) = 0 \/ Decider(in) > reply'.index)
    BY <2>1, <2>4, AddVerdicts
  <2>5. ASSUME NEW i \in Nat, List!Delete(i)
        PROVE  reply'.cmd = "delete" /\ Decider(in) = reply'.index + 1
    BY <2>1, <2>5, DeleteVerdicts
  <2>6. ASSUME List!Clear PROVE reply'.cmd = "clear" /\ Decider(in) # 0
    BY <2>1, <2>6, ClearVerdicts
  <2>7. ASSUME NEW p \in Policies, List!SetPolicyTo(p) PROVE reply'.cmd = "policy" /\ Decider(in) = 0
    BY <2>1, <2>7, PolicyVerdicts
  <2>8. \/ reply'.cmd = "add" /\ (Decider(in) = 0 \/ Decider(in) > reply'.index)
        \/ reply'.cmd = "delete" /\ Decider(in) = reply'.index + 1
        \/ reply'.cmd = "clear" /\ Decider(in) # 0
        \/ reply'.cmd = "policy" /\ Decider(in) = 0
        \/ UNCHANGED <<Listed, policy, reply>>
    BY <2>1, <2>2, <2>4, <2>5, <2>6, <2>7, TableConstants DEF List!ListNext
  <2> QED BY <2>3, <2>8
<1>2. Spec => []TypeOK
  BY TableTypeCorrect
<1> HIDE DEF Own
<1>3. Spec => [][Own]_vars
  BY <1>1, <1>2, PTL DEF Spec
<1> QED BY <1>3 DEF OnlyOwnVerdicts, Own
=============================================================================
