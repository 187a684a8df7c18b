-------------------------- MODULE RuleCommandsProofs --------------------------
(***************************************************************************)
(* Proofs about RuleCommands, for any number of processes, any rules, rule *)
(* files and sizes of the table.                                           *)
(***************************************************************************)
EXTENDS RuleCommands, NatFacts, SequenceTheorems, TLAPS

-----------------------------------------------------------------------------
(* The list operations keep lists of rules.                                *)
LEMMA InsertAtType ==
  ASSUME NEW S, NEW list \in Seq(S), NEW r \in S, NEW i \in Nat, i <= Len(list)
  PROVE  InsertAt(list, i + 1, r) \in Seq(S)
<1>1. SubSeq(list, 1, i) \in Seq(S) /\ SubSeq(list, i + 1, Len(list)) \in Seq(S)
  BY SubSeqProperties
<1>2. <<r>> \in Seq(S)
  OBVIOUS
<1>3. (i + 1) - 1 = i
  OBVIOUS
<1>4. QED
  BY <1>1, <1>2, <1>3, ConcatProperties DEF InsertAt

LEMMA RemoveAtType ==
  ASSUME NEW S, NEW list \in Seq(S), NEW i \in Nat, i < Len(list)
  PROVE  RemoveAt(list, i + 1) \in Seq(S)
<1>1. SubSeq(list, 1, i) \in Seq(S) /\ SubSeq(list, i + 2, Len(list)) \in Seq(S)
  BY SubSeqProperties
<1>2. (i + 1) - 1 = i /\ (i + 1) + 1 = i + 2
  OBVIOUS
<1>3. QED
  BY <1>1, <1>2, ConcatProperties DEF RemoveAt

LEMMA LostListType ==
  ASSUME NEW n \in Nat
  PROVE  LostList(n) \in Seq(Rules \cup {Lost}) /\ Len(LostList(n)) = n
BY DEF LostList

(* A list of rules that is intact is a list of rules.                      *)
LEMMA IntactIs ==
  ASSUME NEW list \in Seq(Rules \cup {Lost})
  PROVE  Intact(list) <=> list \in Seq(Rules)
<1>1. ASSUME Intact(list) PROVE list \in Seq(Rules)
  <2>1. list \in [1 .. Len(list) -> Rules \cup {Lost}] /\ Len(list) \in Nat /\ DOMAIN list = 1 .. Len(list)
    OBVIOUS
  <2>2. \A k \in 1 .. Len(list) : list[k] \in Rules
    BY <1>1, <2>1 DEF Intact
  <2>3. list \in [1 .. Len(list) -> Rules]
    BY <2>1, <2>2
  <2> QED BY <2>1, <2>3, SeqDef
<1>2. ASSUME list \in Seq(Rules) PROVE Intact(list)
  BY <1>2, CommandConstants DEF Intact
<1> QED BY <1>1, <1>2

(* A process that ends, or goes on to its next line, keeps its shape.      *)
LEMMA NoProcessType == NoProcess \in ProcType
<1>1. <<>> \in Seq(Lines)
  OBVIOUS
<1>2. QED
  BY <1>1 DEF NoProcess, ProcType

LEMMA ExitedType ==
  ASSUME NEW s \in ProcType, NEW ok \in BOOLEAN
  PROVE  /\ Exited(s, ok) \in ProcType
         /\ Exited(s, ok).pc \in {"none", "done"}
<1>1. <<>> \in Seq(Lines)
  OBVIOUS
<1>2. CASE Alone(s) /\ (s.loading \/ s.out # <<>>)
  BY <1>1, <1>2 DEF Exited, ProcType
<1>3. CASE ~(Alone(s) /\ (s.loading \/ s.out # <<>>))
  BY <1>3, NoProcessType DEF Exited, NoProcess
<1>4. QED
  BY <1>2, <1>3

LEMMA EndedType ==
  ASSUME NEW s \in ProcType, NEW ok \in BOOLEAN
  PROVE  /\ Ended(s, ok) \in ProcType
         /\ Ended(s, ok).pc \in {"none", "done", "next"}
         /\ Ended(s, ok).pc = "next" => Ended(s, ok).loading
<1>1. CASE s.loading /\ ok
  BY <1>1 DEF Ended, ProcType
<1>2. CASE ~(s.loading /\ ok)
  <2>1. (s.loading \/ ok) \in BOOLEAN
    BY DEF ProcType
  <2>2. Ended(s, ok) = Exited(s, s.loading \/ ok)
    BY <1>2 DEF Ended
  <2>3. QED
    BY <2>1, <2>2, ExitedType
<1>3. QED
  BY <1>1, <1>2

(* The operations the parser makes are operations.                         *)
LEMMA OperationsGrow ==
  ASSUME NEW ends, ends \subseteq Nat
  PROVE  Operations(ends) \subseteq Operations(Nat)
BY DEF Operations

-----------------------------------------------------------------------------
(* What an operation that is done decided by a list, and by which of them  *)
(* it may be.                                                              *)
MayAccept(list, op) ==
  /\ op.cmd = "add" => /\ op.index <= Len(list)
                       /\ Intact(list) => RoomOf(list) + SizeOf(op.rule) <= CAPACITY
  /\ op.cmd = "delete" => op.index < Len(list)

MayReject(list, op) ==
  /\ op.cmd \in {"add", "delete"}
  /\ op.cmd = "add" /\ op.index <= Len(list) /\ Intact(list) =>
       ~(RoomOf(list) + SizeOf(op.rule) <= CAPACITY)
  /\ op.cmd = "delete" => ~(op.index < Len(list))

LEMMA AddVerdictsAre ==
  ASSUME NEW r, NEW i \in Nat, Len(rules) \in Nat
  PROVE  /\ TRUE \in AddVerdicts(r, i) <=>
              i <= Len(rules) /\ (Intact(rules) => RoomOf(rules) + SizeOf(r) <= CAPACITY)
         /\ FALSE \in AddVerdicts(r, i) <=>
              (i <= Len(rules) /\ Intact(rules) => ~(RoomOf(rules) + SizeOf(r) <= CAPACITY))
<1> DEFINE fits == RoomOf(rules) + SizeOf(r) <= CAPACITY
           far == i > Len(rules)
<1>1. far <=> ~(i <= Len(rules))
  OBVIOUS
<1>2. AddVerdicts(r, i) = IF far THEN {FALSE} ELSE IF Intact(rules) THEN {fits} ELSE BOOLEAN
  BY Zenon DEF AddVerdicts, Used
<1>3. (fits = TRUE <=> fits) /\ (fits = FALSE <=> ~fits)
  OBVIOUS
<1> HIDE DEF fits, far
<1>4. /\ TRUE \in AddVerdicts(r, i) <=> ~far /\ (Intact(rules) => fits)
      /\ FALSE \in AddVerdicts(r, i) <=> (~far /\ Intact(rules) => ~fits)
  <2>1. CASE far
    BY <1>2, <2>1, Zenon
  <2>2. CASE ~far /\ Intact(rules)
    <3>1. AddVerdicts(r, i) = {fits}
      BY <1>2, <2>2, Zenon
    <3> QED BY <1>3, <2>2, <3>1, Zenon
  <2>3. CASE ~far /\ ~Intact(rules)
    BY <1>2, <2>3, Zenon
  <2> QED BY <2>1, <2>2, <2>3
<1> QED BY <1>1, <1>4 DEF fits

LEMMA VerdictsAre ==
  ASSUME rules \in Seq(Rules \cup {Lost}), NEW op \in Operations({Len(rules)})
  PROVE  /\ TRUE \in Verdicts(op) <=> MayAccept(rules, op)
         /\ FALSE \in Verdicts(op) <=> MayReject(rules, op)
<1>1. Len(rules) \in Nat
  OBVIOUS
<1>2. CASE op.cmd = "add"
  <2>1. op.index \in Nat
    <3>1. Indexes \subseteq Nat
      BY CommandConstants, Zenon
    <3>2. op.index \in Indexes \cup {Len(rules)}
      BY <1>2 DEF Operations
    <3> QED BY <1>1, <3>1, <3>2
  <2>2. Verdicts(op) = AddVerdicts(op.rule, op.index)
    BY <1>2 DEF Verdicts
  <2>3. /\ TRUE \in AddVerdicts(op.rule, op.index) <=>
             op.index <= Len(rules) /\ (Intact(rules) => RoomOf(rules) + SizeOf(op.rule) <= CAPACITY)
        /\ FALSE \in AddVerdicts(op.rule, op.index) <=>
             (op.index <= Len(rules) /\ Intact(rules) =>
                ~(RoomOf(rules) + SizeOf(op.rule) <= CAPACITY))
    BY <1>1, <2>1, AddVerdictsAre
  <2>4. op.cmd # "delete"
    BY <1>2
  <2> QED BY <1>2, <2>2, <2>3, <2>4, Zenon DEF MayAccept, MayReject
<1>3. CASE op.cmd = "delete"
  <2> DEFINE in == op.index < Len(rules)
  <2>1. Verdicts(op) = {in}
    BY <1>3 DEF Verdicts
  <2>2. (in = TRUE <=> in) /\ (in = FALSE <=> ~in)
    OBVIOUS
  <2>3. op.cmd # "add"
    BY <1>3
  <2>4. (MayAccept(rules, op) <=> in) /\ (MayReject(rules, op) <=> ~in)
    BY <1>3, <2>3 DEF MayAccept, MayReject
  <2> HIDE DEF in
  <2> QED BY <2>1, <2>2, <2>4, Zenon
<1>4. CASE op.cmd \in {"clear", "policy"}
  <2>1. Verdicts(op) = {TRUE}
    BY <1>4 DEF Verdicts
  <2>2. MayAccept(rules, op) /\ ~MayReject(rules, op)
    BY <1>4 DEF MayAccept, MayReject
  <2> QED BY <2>1, <2>2, Zenon
<1>5. op.cmd = "add" \/ op.cmd = "delete" \/ op.cmd \in {"clear", "policy"}
  BY DEF Operations
<1> QED BY <1>2, <1>3, <1>4, <1>5, Zenon

(* The type invariant in two parts: the variables, and the place of each   *)
(* process in relation to the mutex and the list.                          *)
Shape ==
  /\ Table \in TableType
  /\ holder \in Procs \cup {None, Daemon, Killed}
  /\ proc \in [Procs -> ProcType]
  /\ file \in FileType
  /\ daemon \in {"idle", "lock", "inside"}
  /\ daemon = "inside" <=> holder = Daemon
  /\ issued \in 0 .. MAX_COMMANDS
  /\ queries \in 0 .. MAX_QUERIES

PlaceOK(list, h, p, s) ==
  /\ s.pc \in Inside <=> h = p
  /\ s.pc \in {"lock", "inside"} => s.op \in Operations({SIZE_MAX})
  /\ s.pc \in {"accept", "reject"} => s.op \in Operations({Len(list)})
  /\ s.pc = "accept" => MayAccept(list, s.op)
  /\ s.pc = "reject" => MayReject(list, s.op)
  /\ s.pc = "next" => s.loading

Places == \A p \in Procs : PlaceOK(rules, holder, p, proc[p])

LEMMA TypeParts == CommandsTypeOK <=> Shape /\ Places
<1>1. ASSUME Shape, NEW p \in Procs,
             proc[p].pc \in {"accept", "reject"} => proc[p].op \in Operations({Len(rules)})
      PROVE  (proc[p].pc \in {"accept", "reject"} => (proc[p].pc = "accept") \in Verdicts(proc[p].op))
             <=> (/\ proc[p].pc = "accept" => MayAccept(rules, proc[p].op)
                  /\ proc[p].pc = "reject" => MayReject(rules, proc[p].op))
  <2>1. rules \in Seq(Rules \cup {Lost})
    BY <1>1 DEF Shape, Table, TableType
  <2> DEFINE op == proc[p].op
             ok == proc[p].pc = "accept"
  <2>2. proc[p].pc \in {"accept", "reject"} =>
          /\ TRUE \in Verdicts(op) <=> MayAccept(rules, op)
          /\ FALSE \in Verdicts(op) <=> MayReject(rules, op)
    BY <1>1, <2>1, VerdictsAre
  <2>3. CASE proc[p].pc = "accept"
    <3>1. ok = TRUE /\ proc[p].pc # "reject"
      BY <2>3
    <3> HIDE DEF ok
    <3>2. ok \in Verdicts(op) <=> TRUE \in Verdicts(op)
      BY <3>1, Zenon
    <3> HIDE DEF op
    <3>3. ok \in Verdicts(op) <=> MayAccept(rules, op)
      BY <2>2, <2>3, <3>2
    <3> QED BY <2>3, <3>1, <3>3 DEF op, ok
  <2>4. CASE proc[p].pc = "reject"
    <3>1. ok = FALSE /\ proc[p].pc # "accept"
      BY <2>4
    <3> HIDE DEF ok
    <3>2. ok \in Verdicts(op) <=> FALSE \in Verdicts(op)
      BY <3>1, Zenon
    <3> HIDE DEF op
    <3>3. ok \in Verdicts(op) <=> MayReject(rules, op)
      BY <2>2, <2>4, <3>2
    <3> QED BY <2>4, <3>1, <3>3 DEF op, ok
  <2> QED BY <2>3, <2>4
<1>2. ASSUME CommandsTypeOK PROVE Shape /\ Places
  <2>1. Shape
    BY <1>2 DEF CommandsTypeOK, Shape
  <2>2. ASSUME NEW p \in Procs PROVE PlaceOK(rules, holder, p, proc[p])
    <3>1. /\ proc[p].pc \in Inside <=> holder = p
          /\ proc[p].pc \in {"lock", "inside"} => proc[p].op \in Operations({SIZE_MAX})
          /\ proc[p].pc \in {"accept", "reject"} => proc[p].op \in Operations({Len(rules)})
          /\ proc[p].pc \in {"accept", "reject"} => (proc[p].pc = "accept") \in Verdicts(proc[p].op)
          /\ proc[p].pc = "next" => proc[p].loading
      BY <1>2, Zenon DEF CommandsTypeOK
    <3>2. /\ proc[p].pc = "accept" => MayAccept(rules, proc[p].op)
          /\ proc[p].pc = "reject" => MayReject(rules, proc[p].op)
      BY <1>1, <2>1, <3>1, Zenon
    <3> QED BY <3>1, <3>2, Zenon DEF PlaceOK
  <2> QED BY <2>1, <2>2, Zenon DEF Places
<1>3. ASSUME Shape, Places PROVE CommandsTypeOK
  <2>1. ASSUME NEW p \in Procs
        PROVE  /\ proc[p].pc \in Inside <=> holder = p
               /\ proc[p].pc \in {"lock", "inside"} => proc[p].op \in Operations({SIZE_MAX})
               /\ proc[p].pc \in {"accept", "reject"} =>
                    /\ proc[p].op \in Operations({Len(rules)})
                    /\ (proc[p].pc = "accept") \in Verdicts(proc[p].op)
               /\ proc[p].pc = "next" => proc[p].loading
    <3>1. PlaceOK(rules, holder, p, proc[p])
      BY <1>3, Zenon DEF Places
    <3>2. proc[p].pc \in {"accept", "reject"} => (proc[p].pc = "accept") \in Verdicts(proc[p].op)
      BY <1>1, <1>3, <3>1, Zenon DEF PlaceOK
    <3> QED BY <3>1, <3>2, Zenon DEF PlaceOK
  <2> QED BY <1>3, <2>1, Zenon DEF CommandsTypeOK, Shape
<1> QED BY <1>2, <1>3

LEMMA TypePartsNext == CommandsTypeOK' <=> Shape' /\ Places'
BY TypeParts, PTL

LEMMA FreshType == Shape => Fresh \in ProcType /\ Fresh.pc = "none" /\ ~Fresh.loading
<1> SUFFICES ASSUME Shape
             PROVE  Fresh \in ProcType /\ Fresh.pc = "none" /\ ~Fresh.loading
  OBVIOUS
<1>1. [table |-> Table, file |-> file] \in [table : TableType, file : FileType]
  BY DEF Shape
<1>2. PICK b \in SUBSET [table : TableType, file : FileType] : Fresh = [NoProcess EXCEPT !.began = b]
  BY <1>1 DEF Fresh
<1>3. QED
  BY <1>2, NoProcessType DEF NoProcess, ProcType

-----------------------------------------------------------------------------
(* Process p goes on as t, and of the others at most some that load a file *)
(* are no longer alone.                                                    *)
Passes(p, t) ==
  /\ proc' = [q \in Procs |-> proc'[q]]
  /\ proc'[p] = t
  /\ \A q \in Procs : q # p =>
       \/ proc'[q] = proc[q]
       \/ Busy(q) /\ proc[q].loading /\ proc'[q] = [proc[q] EXCEPT !.began = {}]

(* The same process, but perhaps no longer alone.                          *)
Kept(s, t) ==
  /\ t \in ProcType
  /\ t.pc = s.pc /\ t.op = s.op /\ t.loading = s.loading /\ t.taken = s.taken /\ t.rest = s.rest
  /\ t.saving = s.saving /\ t.out = s.out /\ t.ok = s.ok
  /\ \/ t.began = s.began
     \/ t.began = {} /\ s.loading /\ s.pc \notin {"none", "done"}

LEMMA AlonePasses ==
  ASSUME Shape, NEW p \in Procs, NEW t, proc' = [proc EXCEPT ![p] = t]
  PROVE  Passes(p, t)
BY DEF Passes, Shape

LEMMA GoesPasses ==
  ASSUME NEW p \in Procs, NEW t, NEW wrote, Goes(p, t, wrote)
  PROVE  Passes(p, t)
<1>1. \A q \in Procs : proc'[q] =
        IF q = p THEN t
        ELSE IF wrote /\ Busy(q) /\ proc[q].loading THEN [proc[q] EXCEPT !.began = {}] ELSE proc[q]
  BY DEF Goes
<1>2. proc' = [q \in Procs |-> proc'[q]]
  BY DEF Goes
<1> QED BY <1>1, <1>2, Zenon DEF Passes

LEMMA OthersKept ==
  ASSUME Shape, NEW p \in Procs, NEW t, Passes(p, t), NEW q \in Procs, q # p
  PROVE  Kept(proc[q], proc'[q])
<1>1. proc[q] \in ProcType
  BY DEF Shape
<1>2. CASE proc'[q] = proc[q]
  BY <1>1, <1>2 DEF Kept
<1>3. CASE Busy(q) /\ proc[q].loading /\ proc'[q] = [proc[q] EXCEPT !.began = {}]
  <2>1. proc[q].pc \notin {"none", "done"}
    BY <1>3 DEF Busy, Inside
  <2> QED BY <1>1, <1>3, <2>1 DEF Kept, ProcType
<1> QED BY <1>2, <1>3 DEF Passes

(* A process that is not inside, as the type invariant has it.             *)
Outside(s) ==
  /\ s \in ProcType
  /\ s.pc \notin Inside
  /\ s.pc = "lock" => s.op \in Operations({SIZE_MAX})
  /\ s.pc = "next" => s.loading

LEMMA OutsideInPlace ==
  ASSUME NEW s, Outside(s), NEW list, NEW h, NEW p, h # p
  PROVE  PlaceOK(list, h, p, s)
BY DEF Outside, PlaceOK, Inside

LEMMA KeptInPlace ==
  ASSUME NEW s, NEW t, Kept(s, t), NEW list, NEW h, NEW p, PlaceOK(list, h, p, s)
  PROVE  PlaceOK(list, h, p, t)
BY DEF Kept, PlaceOK

(* What has no business behind the mutex does not depend on the list.      *)
LEMMA OutsideElsewhere ==
  ASSUME NEW s, NEW list, NEW h, NEW p, PlaceOK(list, h, p, s), h # p, NEW list2, NEW h2, h2 # p
  PROVE  PlaceOK(list2, h2, p, s)
BY DEF PlaceOK, Inside

LEMMA ExitedOutside ==
  ASSUME NEW s \in ProcType, NEW ok \in BOOLEAN
  PROVE  Outside(Exited(s, ok)) /\ Outside(Ended(s, ok))
<1>1. Outside(Exited(s, ok))
  BY ExitedType DEF Outside, Inside
<1>2. Outside(Ended(s, ok))
  BY EndedType DEF Outside, Inside
<1>3. QED
  BY <1>1, <1>2

(* Parsing a line leaves its process outside, and the rule file a file.    *)
LEMMA ParseOutside ==
  ASSUME Shape, NEW p \in Procs, NEW l \in Lines, NEW s \in ProcType, Parse(p, l, s)
  PROVE  /\ \E t : Outside(t) /\ Passes(p, t)
         /\ file' \in FileType
<1>0. file \in FileType
  BY DEF Shape
<1>1. CASE ParseFails(p, l, s)
  <2> DEFINE ok == s.loading /\ ~Throws(l)
  <2>1. ok \in BOOLEAN
    OBVIOUS
  <2>2. proc' = [proc EXCEPT ![p] = Exited(s, ok)] /\ file' = file
    BY <1>1 DEF ParseFails
  <2> HIDE DEF ok
  <2>3. Outside(Exited(s, ok)) /\ Passes(p, Exited(s, ok))
    BY <2>1, <2>2, ExitedOutside, AlonePasses
  <2>4. QED
    BY <1>0, <2>2, <2>3
<1>2. CASE ParseEdit(p, l, s)
  <2>1. PICK op \in Ops(l) : proc' = [proc EXCEPT ![p] = [s EXCEPT !.pc = "lock", !.op = op]]
    BY <1>2 DEF ParseEdit
  <2>2. op \in Operations({SIZE_MAX})
    BY <1>2, <2>1, LineConstants DEF ParseEdit
  <2>3. op \in Operations(Nat)
    BY <2>2, OperationsGrow, CommandConstants
  <2> DEFINE t == [s EXCEPT !.pc = "lock", !.op = op]
  <2>4. Outside(t)
    BY <2>2, <2>3 DEF Outside, ProcType, Inside
  <2>5. proc' = [proc EXCEPT ![p] = t]
    BY <2>1
  <2> HIDE DEF t
  <2>6. Passes(p, t)
    BY <2>5, AlonePasses
  <2>7. QED
    BY <1>0, <1>2, <2>4, <2>6 DEF ParseEdit
<1>3. CASE ParseList(p, l, s)
  <2> DEFINE saving == l.cmd = "save"
             t == [s EXCEPT !.pc = "listing", !.out = <<>>, !.saving = saving]
  <2>1. saving \in BOOLEAN /\ <<>> \in Seq(Lines)
    OBVIOUS
  <2>2. Outside(t)
    <3> HIDE DEF saving
    <3>1. QED
      BY <2>1 DEF Outside, ProcType, Inside
  <2>3. [exists |-> TRUE, lines |-> <<>>, saved |-> {}] \in FileType
    BY <2>1 DEF FileType
  <2>4. Goes(p, t, saving)
    BY <1>3 DEF ParseList
  <2>5. file' \in FileType
    BY <1>0, <1>3, <2>3 DEF ParseList
  <2> HIDE DEF t, saving
  <2>6. Passes(p, t)
    BY <2>4, GoesPasses
  <2>7. QED
    BY <2>2, <2>5, <2>6
<1>4. CASE ParseLoad(p, l, s)
  <2> DEFINE t == [s EXCEPT !.pc = "next", !.loading = TRUE, !.taken = 0, !.rest = <<>>]
  <2>1. <<>> \in Seq(Lines)
    OBVIOUS
  <2>2. Outside(t)
    BY <2>1 DEF Outside, ProcType, Inside
  <2>3. proc' = [proc EXCEPT ![p] = t] /\ file' = file
    BY <1>4 DEF ParseLoad
  <2> HIDE DEF t
  <2>4. Passes(p, t)
    BY <2>3, AlonePasses
  <2>5. QED
    BY <1>0, <2>2, <2>3, <2>4
<1>5. QED
  BY <1>1, <1>2, <1>3, <1>4 DEF Parse

(* A step of a process outside the mutex that leaves it outside.           *)
LEMMA OutsideStep ==
  ASSUME Shape, Places, NEW p \in Procs, NEW t, Outside(t), holder # p,
         Passes(p, t), file' \in FileType,
         UNCHANGED <<listVars, holder, daemon, queries>>, issued' \in 0 .. MAX_COMMANDS
  PROVE  Shape' /\ Places'
<1>1. ASSUME NEW q \in Procs PROVE proc'[q] \in ProcType /\ PlaceOK(rules, holder, q, proc'[q])
  <2>1. CASE q = p
    BY <2>1, OutsideInPlace DEF Passes, Outside
  <2>2. CASE q # p
    <3>1. Kept(proc[q], proc'[q])
      BY <2>2, OthersKept
    <3>2. PlaceOK(rules, holder, q, proc[q])
      BY DEF Places
    <3>3. PlaceOK(rules, holder, q, proc'[q])
      BY <3>1, <3>2, KeptInPlace
    <3> QED BY <3>1, <3>3 DEF Kept
  <2> QED BY <2>1, <2>2
<1>2. proc' \in [Procs -> ProcType]
  BY <1>1 DEF Passes
<1>3. Table' = Table /\ rules' = rules /\ holder' = holder
  BY DEF Table, listVars
<1>4. Places'
  BY <1>1, <1>3 DEF Places
<1>5. Shape'
  BY <1>2, <1>3 DEF Shape
<1> QED BY <1>4, <1>5

(* What an operation does to the table, and that RuleList has it.          *)
LEMMA InsertedType ==
  ASSUME rules \in Seq(Rules \cup {Lost}), NEW r \in Rules, NEW i \in Nat, i <= Len(rules),
         NEW list \in Inserted(r, i)
  PROVE  list \in Seq(Rules \cup {Lost})
<1>1. Len(rules) \in Nat /\ r \in Rules \cup {Lost}
  OBVIOUS
<1>2. InsertAt(rules, i + 1, r) \in Seq(Rules \cup {Lost})
  BY <1>1, InsertAtType
<1>3. LostList(Len(rules) + 1) \in Seq(Rules \cup {Lost})
  BY <1>1, LostListType
<1> QED BY <1>2, <1>3 DEF Inserted

LEMMA ApplyType ==
  ASSUME Shape, NEW op \in Operations({Len(rules)}), NEW ok \in BOOLEAN, Apply(op, ok),
         ok => MayAccept(rules, op), ~ok => MayReject(rules, op)
  PROVE  /\ Table' \in TableType
         /\ reply'.ok = ok
         /\ ListNext
<1> USE CommandConstants
<1>1. rules \in Seq(Rules \cup {Lost}) /\ policy \in TablePolicies
  BY DEF Shape, TableType, Table
<1>2. Len(rules) \in Nat
  BY <1>1
<1>3. CASE op.cmd = "add"
  <2>1. op.rule \in Rules /\ op.index \in Indexes \cup {Len(rules)} /\ AddAs(op.rule, op.index, ok)
    BY <1>3 DEF Operations, Apply
  <2>2. op.index \in Nat
    BY <1>2, <2>1
  <2>3. ok \in AddVerdicts(op.rule, op.index)
    <3>1. ok \in Verdicts(op)
      <4>1. CASE ok = TRUE
        BY <1>1, <4>1, VerdictsAre, Zenon
      <4>2. CASE ok = FALSE
        BY <1>1, <4>2, VerdictsAre, Zenon
      <4> QED BY <4>1, <4>2
    <3> QED BY <1>3, <3>1 DEF Verdicts
  <2>4. rules' \in Seq(Rules \cup {Lost})
    <3>1. CASE ok
      <4>1. rules' \in Inserted(op.rule, op.index) /\ op.index <= Len(rules)
        BY <1>3, <2>1, <3>1 DEF AddAs, MayAccept
      <4> QED BY <1>1, <2>1, <2>2, <4>1, InsertedType
    <3>2. CASE ~ok
      BY <1>1, <2>1, <3>2 DEF AddAs
    <3> QED BY <3>1, <3>2
  <2>5. policy' = policy /\ reply'.ok = ok
    BY <2>1 DEF AddAs
  <2>6. Add(op.rule, op.index)
    BY <2>1, <2>3, Zenon DEF Add
  <2>7. ListNext
    BY <2>1, <2>6 DEF ListNext
  <2> QED BY <1>1, <2>4, <2>5, <2>7 DEF Table, TableType
<1>4. CASE op.cmd = "delete"
  <2> DEFINE in == op.index < Len(rules)
  <2>1. op.index \in Indexes /\ DeleteAs(op.index, ok)
    BY <1>4 DEF Operations, Apply
  <2>2. op.index \in Nat
    BY <2>1
  <2>3. ok = in
    BY <1>4 DEF MayAccept, MayReject
  <2>4. rules' \in Seq(Rules \cup {Lost})
    <3>1. CASE ok
      <4>1. rules' = RemoveAt(rules, op.index + 1) /\ op.index < Len(rules)
        BY <2>1, <2>3, <3>1 DEF DeleteAs
      <4> QED BY <1>1, <2>2, <4>1, RemoveAtType
    <3>2. CASE ~ok
      BY <1>1, <2>1, <3>2 DEF DeleteAs
    <3> QED BY <3>1, <3>2
  <2>5. policy' = policy /\ reply'.ok = ok
    BY <2>1 DEF DeleteAs
  <2>6. Delete(op.index)
    <3>1. DeleteAs(op.index, in)
      <4> HIDE DEF in
      <4> QED BY <2>1, <2>3, Zenon
    <3> QED BY <3>1, Zenon DEF Delete
  <2>7. ListNext
    BY <2>1, <2>6 DEF ListNext
  <2> QED BY <1>1, <2>4, <2>5, <2>7 DEF Table, TableType
<1>5. CASE op.cmd = "clear"
  <2>1. Clear
    BY <1>5 DEF Apply
  <2>2. ok
    BY <1>5 DEF MayReject
  <2>3. QED
    BY <1>1, <2>1, <2>2 DEF Clear, ListNext, Table, TableType
<1>6. CASE op.cmd = "policy"
  <2>1. op.policy \in Policies /\ SetPolicyTo(op.policy)
    BY <1>6 DEF Operations, Apply
  <2>2. ok
    BY <1>6 DEF MayReject
  <2>3. QED
    BY <1>1, <2>1, <2>2 DEF SetPolicyTo, ListNext, Table, TableType, TablePolicies
<1>7. QED
  BY <1>3, <1>4, <1>5, <1>6 DEF Operations

(* The process that operates: what it decided is so.                       *)
LEMMA Operates ==
  ASSUME Shape, Places, NEW p \in Procs, Operate(p)
  PROVE  \E ok \in BOOLEAN :
           /\ Apply(proc[p].op, ok)
           /\ proc[p].op \in Operations({Len(rules)})
           /\ ok <=> proc[p].pc = "accept"
           /\ ok => MayAccept(rules, proc[p].op)
           /\ ~ok => MayReject(rules, proc[p].op)
           /\ Table' \in TableType /\ ListNext
           /\ reply'.ok = ok
           /\ proc' = [proc EXCEPT ![p] = Ended(proc[p], ok)]
<1>1. PICK ok : ok = (proc[p].pc = "accept")
  OBVIOUS
<1>2. ok \in BOOLEAN /\ (ok <=> proc[p].pc = "accept")
  BY <1>1
<1>3. Apply(proc[p].op, ok)
  <2>1. Apply(proc[p].op, proc[p].pc = "accept")
    BY DEF Operate
  <2> QED BY <1>1, <2>1, Zenon
<1>4. proc[p].pc \in {"accept", "reject"} /\ PlaceOK(rules, holder, p, proc[p])
  BY DEF Operate, Places
<1>5. /\ proc[p].op \in Operations({Len(rules)})
      /\ ok => MayAccept(rules, proc[p].op)
      /\ ~ok => MayReject(rules, proc[p].op)
  BY <1>2, <1>4 DEF PlaceOK
<1>6. Table' \in TableType /\ reply'.ok = ok /\ ListNext
  BY <1>2, <1>3, <1>5, ApplyType
<1>7. proc' = [proc EXCEPT ![p] = Ended(proc[p], reply'.ok)]
  BY DEF Operate
<1>8. proc' = [proc EXCEPT ![p] = Ended(proc[p], ok)]
  BY <1>6, <1>7, Zenon
<1> QED BY <1>2, <1>3, <1>5, <1>6, <1>8

(* Only the holder of the mutex operates, so nobody else is inside.        *)
LEMMA OperateType ==
  ASSUME Shape, Places, NEW p \in Procs, Operate(p)
  PROVE  Shape' /\ Places' /\ ListNext
<1> USE CommandConstants
<1>1. proc[p] \in ProcType /\ holder = p
  BY DEF Shape, Places, PlaceOK, Operate, Inside
<1>2. PICK ok \in BOOLEAN : /\ Table' \in TableType /\ ListNext
                            /\ proc' = [proc EXCEPT ![p] = Ended(proc[p], ok)]
  BY Operates
<1>3. Outside(Ended(proc[p], ok))
  BY <1>1, ExitedOutside
<1>4. proc'[p] = Ended(proc[p], ok) /\ \A q \in Procs : q # p => proc'[q] = proc[q]
  BY <1>2 DEF Shape
<1>5. holder' = None /\ UNCHANGED <<file, daemon, issued, queries>>
  BY DEF Operate
<1>6. proc' \in [Procs -> ProcType]
  BY <1>2, <1>3 DEF Shape, Outside
<1>7. ASSUME NEW q \in Procs PROVE PlaceOK(rules', holder', q, proc'[q])
  <2>1. None # q
    OBVIOUS
  <2>2. CASE q = p
    BY <1>3, <1>4, <1>5, <2>1, <2>2, OutsideInPlace
  <2>3. CASE q # p
    <3>1. PlaceOK(rules, holder, q, proc[q]) /\ holder # q
      BY <1>1, <2>3 DEF Places
    <3>2. PlaceOK(rules', None, q, proc[q])
      BY <2>1, <3>1, OutsideElsewhere
    <3> QED BY <1>4, <1>5, <2>3, <3>2
  <2> QED BY <2>2, <2>3
<1>8. Places'
  BY <1>7 DEF Places
<1>9. Shape'
  BY <1>1, <1>2, <1>5, <1>6 DEF Shape
<1> QED BY <1>2, <1>8, <1>9

(* The decision: the append learns its place.                              *)
LEMMA AtIndexType ==
  ASSUME Len(rules) \in Nat, NEW op \in Operations({SIZE_MAX})
  PROVE  AtIndex(op) \in Operations({Len(rules)}) /\ AtIndex(op) \in Operations(Nat)
<1> USE CommandConstants
<1>1. AtIndex(op) \in Operations({Len(rules)})
  <2>1. CASE op.cmd = "add" /\ op.index = SIZE_MAX
    BY <2>1 DEF AtIndex, Operations
  <2>2. CASE ~(op.cmd = "add" /\ op.index = SIZE_MAX)
    BY <2>2 DEF AtIndex, Operations
  <2> QED BY <2>1, <2>2
<1> QED BY <1>1, OperationsGrow

LEMMA Decides ==
  ASSUME Shape, Places, NEW p \in Procs, Decide(p)
  PROVE  \E t : /\ proc' = [proc EXCEPT ![p] = t] /\ t \in ProcType
                /\ t.pc \in {"accept", "reject"} /\ t.op = AtIndex(proc[p].op)
                /\ t.loading = proc[p].loading /\ t.taken = proc[p].taken /\ t.rest = proc[p].rest
                /\ t.saving = proc[p].saving /\ t.out = proc[p].out /\ t.ok = proc[p].ok
                /\ t.began = proc[p].began
                /\ t.op \in Operations({Len(rules)})
                /\ t.pc = "accept" => MayAccept(rules, t.op)
                /\ t.pc = "reject" => MayReject(rules, t.op)
<1> DEFINE op == AtIndex(proc[p].op)
<1>1. proc[p] \in ProcType /\ proc[p].pc = "inside" /\ proc[p].op \in Operations({SIZE_MAX})
  BY DEF Shape, Places, PlaceOK, Decide
<1>2. rules \in Seq(Rules \cup {Lost}) /\ Len(rules) \in Nat
  BY DEF Shape, Table, TableType
<1>3. op \in Operations({Len(rules)}) /\ op \in Operations(Nat)
  BY <1>1, <1>2, AtIndexType
<1> HIDE DEF op
<1>4. PICK ok \in Verdicts(op) :
        proc' = [proc EXCEPT ![p].op = op, ![p].pc = IF ok THEN "accept" ELSE "reject"]
  BY DEF Decide, op
<1>5. PICK c : c = IF ok THEN "accept" ELSE "reject"
  OBVIOUS
<1> DEFINE t == [[proc[p] EXCEPT !.op = op] EXCEPT !.pc = c]
<1>6. proc' = [[proc EXCEPT ![p].op = op] EXCEPT ![p].pc = c]
  BY <1>4, <1>5
<1>7. proc' = [proc EXCEPT ![p] = t]
  BY <1>6 DEF Shape
<1>8. c \in {"accept", "reject"} /\ (c = "accept" <=> ok)
  BY <1>5
<1>9. (c = "accept" => MayAccept(rules, op)) /\ (c = "reject" => MayReject(rules, op))
  <2>1. ok \in BOOLEAN
    <3>1. Verdicts(op) \subseteq BOOLEAN
      <4>1. AddVerdicts(op.rule, op.index) \subseteq BOOLEAN
        <5> DEFINE fits == Used + SizeOf(op.rule) <= CAPACITY
        <5>1. {fits} \subseteq BOOLEAN /\ {FALSE} \subseteq BOOLEAN
          OBVIOUS
        <5> HIDE DEF fits
        <5> QED BY <5>1, Zenon DEF AddVerdicts, fits
      <4>2. {op.index < Len(rules)} \subseteq BOOLEAN
        OBVIOUS
      <4>3. {TRUE} \subseteq BOOLEAN
        OBVIOUS
      <4> QED BY <4>1, <4>2, <4>3, Zenon DEF Verdicts
    <3> QED BY <3>1
  <2>2. CASE ok = TRUE
    <3>1. TRUE \in Verdicts(op)
      BY <2>2, Zenon
    <3>2. MayAccept(rules, op)
      BY <1>2, <1>3, <3>1, VerdictsAre
    <3> QED BY <1>8, <2>2, <3>2
  <2>3. CASE ok = FALSE
    <3>1. FALSE \in Verdicts(op)
      BY <2>3, Zenon
    <3>2. MayReject(rules, op)
      BY <1>2, <1>3, <3>1, VerdictsAre
    <3> QED BY <1>8, <2>3, <3>2
  <2> QED BY <2>1, <2>2, <2>3
<1>10. /\ t \in ProcType /\ t.pc = c /\ t.op = op
       /\ t.loading = proc[p].loading /\ t.taken = proc[p].taken /\ t.rest = proc[p].rest
       /\ t.saving = proc[p].saving /\ t.out = proc[p].out /\ t.ok = proc[p].ok
       /\ t.began = proc[p].began
  BY <1>1, <1>3, <1>8 DEF ProcType, Inside
<1> HIDE DEF t
<1> QED BY <1>3, <1>7, <1>8, <1>9, <1>10 DEF op

LEMMA DecideType ==
  ASSUME Shape, Places, NEW p \in Procs, Decide(p)
  PROVE  Shape' /\ Places'
<1>1. PICK t : /\ proc' = [proc EXCEPT ![p] = t] /\ t \in ProcType
               /\ t.pc \in {"accept", "reject"}
               /\ t.op \in Operations({Len(rules)})
               /\ t.pc = "accept" => MayAccept(rules, t.op)
               /\ t.pc = "reject" => MayReject(rules, t.op)
  BY Decides
<1>2. proc'[p] = t /\ \A q \in Procs : q # p => proc'[q] = proc[q]
  BY <1>1 DEF Shape
<1>3. holder = p
  BY DEF Decide, Places, PlaceOK, Inside
<1>4. PlaceOK(rules, holder, p, t)
  BY <1>1, <1>3 DEF PlaceOK, Inside
<1>5. UNCHANGED <<rules, holder, file, daemon, issued, queries>> /\ Table' = Table
  BY DEF Decide, listVars, Table
<1>6. Places'
  BY <1>2, <1>4, <1>5 DEF Places
<1>7. Shape'
  BY <1>1, <1>5 DEF Shape
<1> QED BY <1>6, <1>7

(* The lock.                                                               *)
LEMMA LockType ==
  ASSUME Shape, Places, NEW p \in Procs, Lock(p)
  PROVE  Shape' /\ Places'
<1> USE CommandConstants
<1>1. /\ proc[p] \in ProcType /\ proc[p].op \in Operations({SIZE_MAX})
      /\ holder = None /\ holder' = p
  BY DEF Shape, Places, PlaceOK, Lock
<1> DEFINE in == [proc[p] EXCEPT !.pc = "inside"]
           other(q) == IF Busy(q) THEN [proc[q] EXCEPT !.began = {}] ELSE NoProcess
<1>2. in \in ProcType /\ in.pc = "inside" /\ in.op = proc[p].op
  BY <1>1 DEF ProcType, Inside
<1>3. ASSUME NEW q \in Procs, q # p
      PROVE  Outside(other(q))
  <2>1. Outside(proc[q])
    BY <1>1 DEF Shape, Places, PlaceOK, Outside
  <2>2. CASE Busy(q)
    BY <2>1, <2>2 DEF Outside, ProcType
  <2>3. CASE ~Busy(q)
    BY <2>3, NoProcessType DEF Outside, NoProcess, Inside
  <2>4. QED
    BY <2>2, <2>3
<1>4. proc' = [q \in Procs |-> IF q = p THEN in ELSE other(q)]
  BY DEF Lock
<1> HIDE DEF in, other
<1>5. proc'[p] = in /\ \A q \in Procs : q # p => proc'[q] = other(q)
  BY <1>4
<1>6. proc' \in [Procs -> ProcType]
  BY <1>2, <1>3, <1>4 DEF Outside
<1>7. Table' = Table /\ rules' = rules /\ UNCHANGED <<file, daemon, issued, queries>>
  BY DEF Lock, Table, listVars
<1>8. PlaceOK(rules, p, p, in)
  BY <1>1, <1>2 DEF PlaceOK, Inside
<1>9. \A q \in Procs : q # p => PlaceOK(rules, p, q, other(q))
  BY <1>3, OutsideInPlace
<1>10. Places'
  BY <1>1, <1>5, <1>7, <1>8, <1>9 DEF Places
<1>11. Shape'
  BY <1>1, <1>6, <1>7 DEF Shape
<1> QED BY <1>10, <1>11

(* A line of a listing.                                                    *)
LEMMA WroteType ==
  ASSUME Shape, Places, NEW p \in Procs, proc[p].pc = "listing", NEW line \in Lines,
         NEW last \in BOOLEAN, Wrote(p, line, last),
         UNCHANGED <<listVars, holder, daemon, issued, queries>>
  PROVE  Shape' /\ Places'
<1> DEFINE s == [proc[p] EXCEPT !.out = Append(@, line)]
           t == IF last THEN Ended(s, TRUE) ELSE s
<1>1. proc[p] \in ProcType /\ holder # p /\ file \in FileType
  BY DEF Shape, Places, PlaceOK, Inside
<1>2. Append(proc[p].out, line) \in Seq(Lines)
  BY <1>1, AppendProperties DEF ProcType
<1>3. s \in ProcType /\ s.pc = "listing"
  BY <1>1, <1>2 DEF ProcType
<1>4. Outside(t)
  <2> HIDE DEF s
  <2>1. CASE last
    BY <1>3, <2>1, ExitedOutside
  <2>2. CASE ~last
    BY <1>3, <2>2 DEF Outside, Inside
  <2>3. QED
    BY <2>1, <2>2
<1>5. Goes(p, t, s.saving)
  BY DEF Wrote
<1>6. file' \in FileType
  <2>1. Append(file.lines, line) \in Seq(Lines)
    BY <1>1, AppendProperties DEF FileType
  <2>2. PICK saved \in SUBSET TableType :
          file' = IF proc[p].saving THEN [file EXCEPT !.lines = Append(@, line), !.saved = saved] ELSE file
    BY DEF Wrote, Shape
  <2>3. QED
    BY <1>1, <2>1, <2>2 DEF FileType
<1>7. issued' \in 0 .. MAX_COMMANDS
  BY DEF Shape
<1> HIDE DEF s, t
<1>8. Passes(p, t)
  BY <1>5, GoesPasses
<1>9. QED
  BY <1>1, <1>4, <1>6, <1>7, <1>8, OutsideStep

(* The lines a listing may show.                                           *)
LEMMA LineShown ==
  ASSUME Shape, NEW p \in Procs, ShowLine(p)
  PROVE  \E line \in FileLines, last \in BOOLEAN : Wrote(p, line, last)
<1>1. rules \in Seq(Rules \cup {Lost}) /\ policy \in TablePolicies
  BY DEF Shape, TableType, Table
<1>2. CASE Reads(p)
  <2> DEFINE n == Len(proc[p].out)
  <2>1. n \in Nat
    BY DEF Shape, ProcType
  <2>2. CASE n < Len(rules)
    <3>1. rules[n + 1] \in Rules
      BY <1>1, <1>2, <2>1, <2>2 DEF Reads, Intact
    <3>2. ShowRule(rules[n + 1]) \in FileLines
      BY <3>1 DEF FileLines
    <3>3. QED
      BY <1>2, <2>2, <3>2 DEF ShowLine, ShowAlone
  <2>3. CASE ~(n < Len(rules))
    <3>1. ShowPolicy(policy) \in FileLines
      BY <1>1 DEF FileLines
    <3>2. QED
      BY <1>2, <2>3, <3>1 DEF ShowLine, ShowAlone
  <2>4. QED
    BY <2>2, <2>3
<1>3. CASE ~Reads(p)
  BY <1>3 DEF ShowLine, ShowRacing, FileLines
<1> QED BY <1>2, <1>3

LEMMA ShowLineType ==
  ASSUME Shape, Places, NEW p \in Procs, ShowLine(p)
  PROVE  Shape' /\ Places'
<1>1. PICK line \in Lines, last \in BOOLEAN : Wrote(p, line, last)
  BY LineShown DEF Lines
<1>2. QED
  BY <1>1, WroteType DEF ShowLine

(* The lines in the buffer of a load: those of the file when it reads on.  *)
LEMMA BufferedType ==
  ASSUME Shape, NEW s \in ProcType
  PROVE  Buffered(s) \in Seq(Lines)
<1>1. /\ s.taken \in Nat /\ s.rest \in Seq(Lines) /\ file.lines \in Seq(Lines)
      /\ Len(file.lines) \in Nat /\ BUFFER \in Nat
  BY CommandConstants DEF Shape, ProcType, FileType
<1> DEFINE end == IF s.taken + BUFFER < Len(file.lines) THEN s.taken + BUFFER ELSE Len(file.lines)
<1>2. SubSeq(file.lines, s.taken + 1, end) \in Seq(Lines)
  <2>1. \A i \in s.taken + 1 .. end : file.lines[i] \in Lines
    BY <1>1
  <2>2. s.taken + 1 \in Int /\ end \in Int
    BY <1>1
  <2> HIDE DEF end
  <2> QED BY <1>1, <2>1, <2>2, SubSeqProperties
<1> QED BY <1>1, <1>2 DEF Buffered

LEMMA Taking ==
  ASSUME Shape, NEW p \in Procs, Buffered(proc[p]) # <<>>
  PROVE  LET lines == Buffered(proc[p])
             s == [proc[p] EXCEPT !.taken = @ + 1, !.rest = Tail(lines)]
         IN /\ Head(lines) \in Lines /\ Tail(lines) \in Seq(Lines)
            /\ s \in ProcType /\ s.pc = proc[p].pc /\ s.loading = proc[p].loading
            /\ s.taken = proc[p].taken + 1 /\ s.rest = Tail(lines)
            /\ s.saving = proc[p].saving /\ s.out = proc[p].out /\ s.began = proc[p].began
<1>1. proc[p] \in ProcType
  BY DEF Shape
<1> DEFINE lines == Buffered(proc[p])
<1>2. lines \in Seq(Lines)
  BY <1>1, BufferedType
<1> HIDE DEF lines
<1>3. Head(lines) \in Lines /\ Tail(lines) \in Seq(Lines)
  BY <1>2, HeadTailProperties DEF lines
<1>4. PICK n, rest : n = proc[p].taken + 1 /\ rest = Tail(lines)
  OBVIOUS
<1>5. n \in Nat /\ rest \in Seq(Lines)
  BY <1>1, <1>3, <1>4 DEF ProcType
<1> DEFINE s == [proc[p] EXCEPT !.taken = n, !.rest = rest]
<1>6. /\ s \in ProcType /\ s.pc = proc[p].pc /\ s.loading = proc[p].loading
      /\ s.taken = n /\ s.rest = rest
      /\ s.saving = proc[p].saving /\ s.out = proc[p].out /\ s.began = proc[p].began
  BY <1>1, <1>5 DEF ProcType
<1> QED BY <1>3, <1>4, <1>6 DEF lines

LEMMA NextLineType ==
  ASSUME Shape, Places, NEW p \in Procs, NextLine(p)
  PROVE  Shape' /\ Places'
<1>1. proc[p] \in ProcType /\ holder # p /\ issued \in 0 .. MAX_COMMANDS /\ file \in FileType
  BY DEF Shape, Places, PlaceOK, Inside, NextLine
<1>2. UNCHANGED <<listVars, holder, daemon, queries>> /\ issued' \in 0 .. MAX_COMMANDS
  BY <1>1 DEF NextLine
<1>3. CASE Buffered(proc[p]) = <<>>
  <2>1. Outside(Exited(proc[p], TRUE))
    BY <1>1, ExitedOutside
  <2>2. proc' = [proc EXCEPT ![p] = Exited(proc[p], TRUE)] /\ file' = file
    BY <1>3 DEF NextLine
  <2>3. Passes(p, Exited(proc[p], TRUE))
    BY <2>2, AlonePasses
  <2>4. QED
    BY <1>1, <1>2, <2>1, <2>2, <2>3, OutsideStep
<1>4. CASE Buffered(proc[p]) # <<>>
  <2> DEFINE l == Head(Buffered(proc[p]))
             s == [proc[p] EXCEPT !.taken = @ + 1, !.rest = Tail(Buffered(proc[p]))]
  <2>1. l \in Lines /\ s \in ProcType
    BY <1>4, Taking
  <2>2. Parse(p, l, s)
    BY <1>4 DEF NextLine
  <2> HIDE DEF l, s
  <2>3. PICK t : Outside(t) /\ Passes(p, t)
    BY <2>1, <2>2, ParseOutside
  <2>4. file' \in FileType
    BY <2>1, <2>2, ParseOutside
  <2>5. QED
    BY <1>1, <1>2, <2>3, <2>4, OutsideStep
<1>5. QED
  BY <1>3, <1>4

LEMMA IssueType ==
  ASSUME Shape, Places, NEW p \in Procs, NEW l \in Commands, Issue(p, l)
  PROVE  Shape' /\ Places'
<1>1. l \in Lines /\ holder # p
  BY DEF Lines, Places, PlaceOK, Issue, Busy
<1>2. Fresh \in ProcType /\ Parse(p, l, Fresh)
  BY FreshType DEF Issue
<1>3. PICK t : Outside(t) /\ Passes(p, t)
  BY <1>1, <1>2, ParseOutside
<1>4. file' \in FileType
  BY <1>1, <1>2, ParseOutside
<1>5. issued' \in 0 .. MAX_COMMANDS /\ UNCHANGED <<listVars, holder, daemon, queries>>
  BY CommandConstants DEF Shape, Issue
<1>6. QED
  BY <1>1, <1>3, <1>4, <1>5, OutsideStep

LEMMA KillType ==
  ASSUME Shape, Places, NEW p \in Procs, Kill(p)
  PROVE  Shape' /\ Places'
<1> USE CommandConstants
<1>1. Outside(NoProcess)
  BY NoProcessType DEF Outside, NoProcess, Inside
<1>2. proc' = [proc EXCEPT ![p] = NoProcess] /\ Table' = Table /\ rules' = rules
      /\ UNCHANGED <<file, daemon, issued, queries>> /\ holder' = IF holder = p THEN Killed ELSE holder
  BY DEF Kill, Table, listVars
<1>3. proc' \in [Procs -> ProcType] /\ proc'[p] = NoProcess
  BY <1>1, <1>2 DEF Shape, Outside
<1>4. \A q \in Procs : q # p => proc'[q] = proc[q]
  BY <1>2 DEF Shape
<1>5. holder' # p
  BY <1>2
<1>6. ASSUME NEW q \in Procs PROVE PlaceOK(rules, holder', q, proc'[q])
  <2>1. CASE q = p
    BY <1>1, <1>3, <1>5, <2>1, OutsideInPlace
  <2>2. CASE q # p /\ holder = p
    <3>1. PlaceOK(rules, holder, q, proc[q]) /\ holder # q /\ holder' # q
      BY <1>2, <2>2 DEF Places
    <3>2. PlaceOK(rules, holder', q, proc[q])
      BY <3>1, OutsideElsewhere
    <3> QED BY <1>4, <2>2, <3>2
  <2>3. CASE q # p /\ holder # p
    BY <1>2, <1>4, <2>3 DEF Places
  <2> QED BY <2>1, <2>2, <2>3
<1>7. Places'
  BY <1>2, <1>6 DEF Places
<1>8. Shape'
  BY <1>2, <1>3 DEF Shape
<1> QED BY <1>7, <1>8

LEMMA DaemonType ==
  ASSUME Shape, Places, DaemonReceives \/ DaemonStep
  PROVE  Shape' /\ Places'
<1> USE CommandConstants
<1>1. Table' = Table /\ rules' = rules /\ proc' = proc /\ UNCHANGED <<file, issued>>
  BY DEF DaemonReceives, DaemonStep, DaemonLocks, DaemonDecides, Table, listVars
<1>2. queries' \in 0 .. MAX_QUERIES
  BY DEF Shape, DaemonReceives, DaemonStep, DaemonLocks, DaemonDecides
<1>3. Shape'
  BY <1>1, <1>2 DEF Shape, DaemonReceives, DaemonStep, DaemonLocks, DaemonDecides
<1>4. \/ holder' = holder
      \/ holder \in {None, Daemon} /\ holder' \in {None, Daemon}
  BY DEF Shape, DaemonReceives, DaemonStep, DaemonLocks, DaemonDecides
<1>5. ASSUME NEW q \in Procs PROVE PlaceOK(rules, holder', q, proc[q])
  <2>1. PlaceOK(rules, holder, q, proc[q])
    BY DEF Places
  <2>2. CASE holder' = holder
    BY <2>1, <2>2
  <2>3. CASE holder # q /\ holder' # q
    BY <2>1, <2>3, OutsideElsewhere
  <2> QED BY <1>4, <2>2, <2>3
<1>6. Places'
  BY <1>1, <1>5 DEF Places
<1> QED BY <1>3, <1>6

(* Every step keeps the invariant, and is a step of the list or none.      *)
LEMMA CommandsStep ==
  CommandsTypeOK /\ [Next]_vars => CommandsTypeOK' /\ [ListNext]_listVars
<1> SUFFICES ASSUME CommandsTypeOK, [Next]_vars
             PROVE  Shape' /\ Places' /\ [ListNext]_listVars
  BY TypePartsNext
<1>0. Shape /\ Places
  BY TypeParts
<1>1. ASSUME NEW p \in Procs, Operate(p)
      PROVE  Shape' /\ Places' /\ ListNext
  BY <1>0, <1>1, OperateType
<1>2. ASSUME NEW p \in Procs, Lock(p)
      PROVE  Shape' /\ Places' /\ UNCHANGED listVars
  BY <1>0, <1>2, LockType DEF Lock
<1>3. ASSUME NEW p \in Procs, Decide(p)
      PROVE  Shape' /\ Places' /\ UNCHANGED listVars
  BY <1>0, <1>3, DecideType DEF Decide
<1>4. ASSUME NEW p \in Procs, NextLine(p)
      PROVE  Shape' /\ Places' /\ UNCHANGED listVars
  BY <1>0, <1>4, NextLineType DEF NextLine
<1>5. ASSUME NEW p \in Procs, ShowLine(p)
      PROVE  Shape' /\ Places' /\ UNCHANGED listVars
  BY <1>0, <1>5, ShowLineType DEF ShowLine
<1>6. ASSUME NEW p \in Procs, Kill(p)
      PROVE  Shape' /\ Places' /\ UNCHANGED listVars
  BY <1>0, <1>6, KillType DEF Kill
<1>7. ASSUME NEW p \in Procs, NEW l \in Commands, Issue(p, l)
      PROVE  Shape' /\ Places' /\ UNCHANGED listVars
  BY <1>0, <1>7, IssueType DEF Issue
<1>8. ASSUME DaemonReceives \/ DaemonStep
      PROVE  Shape' /\ Places' /\ UNCHANGED listVars
  BY <1>0, <1>8, DaemonType DEF DaemonReceives, DaemonStep, DaemonLocks, DaemonDecides
<1>9. CASE UNCHANGED vars
  BY <1>0, <1>9 DEF vars, listVars, Shape, Places, Table
<1>10. QED
  BY <1>1, <1>2, <1>3, <1>4, <1>5, <1>6, <1>7, <1>8, <1>9 DEF Next, Step

LEMMA CommandsInit == Init => CommandsTypeOK
<1> SUFFICES ASSUME Init
             PROVE  CommandsTypeOK
  OBVIOUS
<1> USE CommandConstants
<1>1. <<>> \in Seq(Rules \cup {Lost}) /\ <<>> \in Seq(Lines)
  OBVIOUS
<1>2. Table \in TableType
  BY <1>1 DEF Init, ListInit, Table, TableType, TablePolicies
<1>3. file \in FileType
  <2>1. ASSUME NEW b \in BOOLEAN, NEW f \in Seq(Lines)
        PROVE  [exists |-> b, lines |-> f, saved |-> {}] \in FileType
    BY DEF FileType
  <2>2. \A f \in Files : f \in Seq(Lines)
    BY LineConstants
  <2>3. QED
    BY <1>1, <2>1, <2>2 DEF Init
<1>4. proc \in [Procs -> ProcType] /\ \A p \in Procs : proc[p].pc = "none"
  BY NoProcessType DEF Init, NoProcess
<1>5. Shape
  BY <1>2, <1>3, <1>4 DEF Init, Shape
<1>6. Places
  BY <1>4 DEF Init, Places, PlaceOK, Inside
<1>7. QED
  BY <1>5, <1>6, TypeParts

(* Every process and the daemon keep to the mutex; what a process decided  *)
(* behind it still holds when it writes, and an append is still at the end *)
(* of the list.                                                            *)
THEOREM CommandsTypeCorrect == Spec => []CommandsTypeOK
BY CommandsInit, CommandsStep, PTL DEF Spec

(* The processes together implement the list, although an operation reads, *)
(* decides and writes in steps of its own: whatever the others parse,      *)
(* load, show or evaluate meanwhile and whoever is killed, every command   *)
(* is decided by the list it is done to.                                   *)
THEOREM Atomicity == Spec => CommandsAreAtomic
<1>1. Init => ListInit
  BY DEF Init
<1>2. CommandsTypeOK /\ [Next]_vars => [ListNext]_<<rules, policy, reply>>
  BY CommandsStep DEF listVars
<1>3. QED
  BY <1>1, <1>2, CommandsTypeCorrect, PTL DEF Spec, CommandsAreAtomic, ListSpec

-----------------------------------------------------------------------------
(* What has been listed by a process that is alone with the table: so far  *)
(* the first rules, in the end all of them and the policy, if the list is  *)
(* intact.  A process is no longer alone when another one is inside.  list *)
(* and q stand for the table's rules and policy.                           *)
Begun(out, list) == Len(out) <= Len(list) /\ \A k \in 1 .. Len(out) : out[k] = ShowRule(list[k])

Faithful(s, list, q) ==
  /\ s.pc = "done" => Alone(s)
  /\ ~s.loading /\ s.pc \in {"lock"} \cup Inside => s.out = <<>>
  /\ ~s.loading /\ s.pc = "listing" /\ Alone(s) /\ Intact(list) => Begun(s.out, list)
  /\ ~s.loading /\ s.pc = "done" /\ Intact(list) => s.out = Shown(list, q)

ListingInv ==
  \A p \in Procs :
    Faithful(proc[p], rules, policy) /\ (Alone(proc[p]) => holder \notin Procs \ {p})

LEMMA NoProcessFaithful == ~Alone(NoProcess) /\ \A list, q : Faithful(NoProcess, list, q)
BY DEF Faithful, NoProcess, Alone, Inside

LEMMA KeptFaithful ==
  ASSUME NEW s, NEW t, Kept(s, t), NEW list, NEW q, Faithful(s, list, q)
  PROVE  Faithful(t, list, q) /\ (Alone(t) => Alone(s))
BY DEF Kept, Faithful, Alone

(* A load, wherever it is.                                                 *)
LEMMA LoadFaithful ==
  ASSUME NEW s \in ProcType, s.loading, NEW ok \in BOOLEAN, NEW list, NEW q
  PROVE  /\ Faithful(Exited(s, ok), list, q) /\ (Alone(Exited(s, ok)) => Alone(s))
         /\ Faithful(Ended(s, ok), list, q) /\ (Alone(Ended(s, ok)) => Alone(s))
<1>1. ASSUME NEW b \in BOOLEAN
      PROVE  Faithful(Exited(s, b), list, q) /\ (Alone(Exited(s, b)) => Alone(s))
  <2>1. CASE Alone(s)
    BY <2>1 DEF Exited, Faithful, Alone, ProcType, Inside
  <2>2. CASE ~Alone(s)
    BY <2>2, NoProcessFaithful DEF Exited
  <2>3. QED
    BY <2>1, <2>2
<1>2. CASE ok
  BY <1>1, <1>2 DEF Ended, Faithful, Alone, ProcType
<1>3. CASE ~ok
  <2>1. Ended(s, ok) = Exited(s, TRUE)
    BY <1>3 DEF Ended
  <2>2. QED
    BY <1>1, <2>1
<1>4. QED
  BY <1>1, <1>2, <1>3

(* A process that is no load and listed nothing is forgotten at its end.   *)
LEMMA EditForgotten ==
  ASSUME NEW s \in ProcType, ~s.loading, s.out = <<>>, NEW ok \in BOOLEAN
  PROVE  Exited(s, ok) = NoProcess /\ Ended(s, ok) = NoProcess
BY DEF Exited, Ended

(* Parsing, of a load's next line and of a command that is entered.        *)
LEMMA ParseFaithful ==
  ASSUME Shape, NEW p \in Procs, NEW l, NEW s \in ProcType, Parse(p, l, s),
         s.loading \/ s.out = <<>>
  PROVE  \E t : Passes(p, t) /\ Faithful(t, rules, policy) /\ (Alone(t) => Alone(s))
<1>1. CASE ParseFails(p, l, s)
  <2>1. PICK ok \in BOOLEAN : proc' = [proc EXCEPT ![p] = Exited(s, ok)]
    <3>1. (s.loading /\ ~Throws(l)) \in BOOLEAN
      OBVIOUS
    <3>2. QED
      BY <1>1, <3>1 DEF ParseFails
  <2>2. Passes(p, Exited(s, ok))
    BY <2>1, AlonePasses
  <2>3. CASE s.loading
    BY <2>2, <2>3, LoadFaithful
  <2>4. CASE ~s.loading
    BY <2>2, <2>4, EditForgotten, NoProcessFaithful
  <2>5. QED
    BY <2>3, <2>4
<1>2. CASE ParseEdit(p, l, s)
  <2>1. PICK op : proc' = [proc EXCEPT ![p] = [s EXCEPT !.pc = "lock", !.op = op]]
    BY <1>2 DEF ParseEdit
  <2> DEFINE t == [s EXCEPT !.pc = "lock", !.op = op]
  <2>2. Faithful(t, rules, policy) /\ (Alone(t) => Alone(s))
    BY DEF Faithful, Alone, ProcType
  <2>3. proc' = [proc EXCEPT ![p] = t]
    BY <2>1
  <2> HIDE DEF t
  <2>4. QED
    BY <2>2, <2>3, AlonePasses
<1>3. CASE ParseList(p, l, s)
  <2>1. PICK sv : sv = (l.cmd = "save")
    OBVIOUS
  <2> DEFINE t == [s EXCEPT !.pc = "listing", !.out = <<>>, !.saving = sv]
  <2>2. Goes(p, t, sv)
    BY <1>3, <2>1 DEF ParseList
  <2>3. Begun(<<>>, rules)
    <3>1. Len(rules) \in Nat
      BY DEF Shape, TableType, Table
    <3>2. QED
      BY <3>1 DEF Begun
  <2>4. Faithful(t, rules, policy) /\ (Alone(t) => Alone(s))
    BY <2>3 DEF Faithful, Alone, ProcType, Inside
  <2> HIDE DEF t
  <2>5. QED
    BY <2>2, <2>4, GoesPasses
<1>4. CASE ParseLoad(p, l, s)
  <2> DEFINE t == [s EXCEPT !.pc = "next", !.loading = TRUE, !.taken = 0, !.rest = <<>>]
  <2>1. proc' = [proc EXCEPT ![p] = t]
    BY <1>4 DEF ParseLoad
  <2>2. Faithful(t, rules, policy) /\ (Alone(t) => Alone(s))
    BY DEF Faithful, Alone, ProcType, Inside
  <2> HIDE DEF t
  <2>3. QED
    BY <2>1, <2>2, AlonePasses
<1>5. QED
  BY <1>1, <1>2, <1>3, <1>4 DEF Parse

(* The last line of a listing completes it.                                *)
LEMMA ShownWhenComplete ==
  ASSUME Shape, NEW out \in Seq(Lines), Begun(out, rules), Len(out) = Len(rules)
  PROVE  Append(out, ShowPolicy(policy)) = Shown(rules, policy)
<1>1. rules \in Seq(Rules \cup {Lost}) /\ policy \in TablePolicies
  BY DEF Shape, TableType, Table
<1>2. ShowPolicy(policy) \in Lines
  BY <1>1 DEF Lines, FileLines
<1>3. Append(out, ShowPolicy(policy)) = out \o <<ShowPolicy(policy)>>
  BY <1>2, AppendIsConcat
<1>4. out = [k \in DOMAIN rules |-> ShowRule(rules[k])]
  <2>1. DOMAIN out = 1 .. Len(out) /\ DOMAIN rules = 1 .. Len(rules)
    BY <1>1
  <2>2. out = [k \in 1 .. Len(out) |-> out[k]]
    BY <2>1
  <2>3. \A k \in 1 .. Len(out) : out[k] = ShowRule(rules[k])
    BY DEF Begun
  <2>4. QED
    BY <2>1, <2>2, <2>3
<1>5. QED
  BY <1>3, <1>4 DEF Shown

(* A line of a listing that is shown as it is: the listing goes on, or is  *)
(* complete.                                                               *)
LEMMA ReadsOn ==
  ASSUME Shape, NEW p \in Procs, ShowLine(p), Reads(p), Begun(proc[p].out, rules)
  PROVE  \E line \in FileLines, last \in BOOLEAN :
           /\ Wrote(p, line, last)
           /\ IF last THEN Append(proc[p].out, line) = Shown(rules, policy)
                      ELSE Begun(Append(proc[p].out, line), rules)
<1>1. proc[p].pc = "listing" /\ proc[p].out \in Seq(Lines)
  BY DEF ShowLine, Shape, ProcType
<1>2. rules \in Seq(Rules \cup {Lost}) /\ policy \in TablePolicies /\ Len(rules) \in Nat
  BY DEF Shape, TableType, Table
<1> DEFINE out == proc[p].out
           n == Len(out)
<1>3. n \in Nat
  BY <1>1
<1>4. CASE n < Len(rules)
  <2> DEFINE line == ShowRule(rules[n + 1])
  <2>0. rules[n + 1] \in Rules
    BY <1>2, <1>3, <1>4 DEF Reads, Intact
  <2>1. line \in FileLines /\ line \in Lines
    BY <2>0 DEF FileLines, Lines
  <2>2. Wrote(p, line, FALSE)
    BY <1>4 DEF ShowLine, ShowAlone
  <2> HIDE DEF line
  <2>3. /\ Len(Append(out, line)) = n + 1
        /\ \A k \in 1 .. n : Append(out, line)[k] = out[k]
        /\ Append(out, line)[n + 1] = line
    BY <1>1, <2>1, AppendProperties
  <2>4. n + 1 <= Len(rules) /\ \A k \in 1 .. n + 1 : k \in 1 .. n \/ k = n + 1
    BY <1>2, <1>3, <1>4
  <2>5. Begun(Append(out, line), rules)
    BY <2>3, <2>4 DEF Begun, line
  <2> QED BY <2>1, <2>2, <2>5
<1>5. CASE ~(n < Len(rules))
  <2> DEFINE line == ShowPolicy(policy)
  <2>1. line \in FileLines /\ line \in Lines
    BY <1>2 DEF FileLines, Lines
  <2>2. Wrote(p, line, TRUE)
    BY <1>5 DEF ShowLine, ShowAlone
  <2>3. n = Len(rules)
    BY <1>2, <1>3, <1>5 DEF Begun
  <2>4. Append(out, line) = Shown(rules, policy)
    BY <1>1, <2>3, ShownWhenComplete
  <2> HIDE DEF line
  <2> QED BY <2>1, <2>2, <2>4
<1> QED BY <1>4, <1>5

(* The process behind a line it wrote.                                     *)
LEMMA WroteOne ==
  ASSUME Shape, NEW p \in Procs, NEW line \in Lines, NEW last \in BOOLEAN, Wrote(p, line, last)
  PROVE  \E s \in ProcType :
           /\ s.pc = proc[p].pc /\ s.op = proc[p].op /\ s.loading = proc[p].loading
           /\ s.taken = proc[p].taken /\ s.rest = proc[p].rest
           /\ s.saving = proc[p].saving /\ s.began = proc[p].began
           /\ s.out = Append(proc[p].out, line) /\ s.out # <<>>
           /\ Goes(p, IF last THEN Ended(s, TRUE) ELSE s, proc[p].saving)
           /\ Passes(p, IF last THEN Ended(s, TRUE) ELSE s)
<1> DEFINE s == [proc[p] EXCEPT !.out = Append(@, line)]
           t == IF last THEN Ended(s, TRUE) ELSE s
<1>1. proc[p] \in ProcType /\ proc[p].out \in Seq(Lines)
  BY DEF Shape, ProcType
<1>2. Append(proc[p].out, line) \in Seq(Lines) /\ Append(proc[p].out, line) # <<>>
  BY <1>1, AppendProperties
<1>3. /\ s \in ProcType
      /\ s.pc = proc[p].pc /\ s.op = proc[p].op /\ s.loading = proc[p].loading
      /\ s.taken = proc[p].taken /\ s.rest = proc[p].rest
      /\ s.saving = proc[p].saving /\ s.began = proc[p].began
      /\ s.out = Append(proc[p].out, line)
  BY <1>1, <1>2 DEF ProcType
<1>4. Goes(p, t, s.saving)
  BY DEF Wrote
<1> HIDE DEF s
<1>5. Goes(p, t, proc[p].saving)
  BY <1>3, <1>4
<1>6. Passes(p, t)
  <2> HIDE DEF t
  <2> QED BY <1>5, GoesPasses
<1> QED BY <1>2, <1>3, <1>5, <1>6

(* A line of a listing nobody overlaps is the next one; of the others      *)
(* nothing is claimed.                                                     *)
LEMMA ShowFaithful ==
  ASSUME Shape, NEW p \in Procs, ShowLine(p), Faithful(proc[p], rules, policy)
  PROVE  \E t : Passes(p, t) /\ Faithful(t, rules, policy) /\ (Alone(t) => Alone(proc[p]))
<1>0. proc[p].pc = "listing" /\ proc[p] \in ProcType
  BY DEF ShowLine, Shape
<1>1. PICK line \in Lines, last \in BOOLEAN :
        /\ Wrote(p, line, last)
        /\ ~proc[p].loading /\ Reads(p) =>
             IF last THEN Append(proc[p].out, line) = Shown(rules, policy)
                     ELSE Begun(Append(proc[p].out, line), rules)
  <2>1. CASE ~proc[p].loading /\ Reads(p)
    <3>1. Begun(proc[p].out, rules)
      BY <1>0, <2>1 DEF Faithful, Reads
    <3> QED BY <2>1, <3>1, ReadsOn DEF Lines
  <2>2. CASE ~(~proc[p].loading /\ Reads(p))
    BY <2>2, LineShown DEF Lines
  <2> QED BY <2>1, <2>2
<1>2. PICK s \in ProcType :
        /\ s.pc = "listing" /\ s.loading = proc[p].loading /\ s.began = proc[p].began
        /\ s.out = Append(proc[p].out, line) /\ s.out # <<>>
        /\ Passes(p, IF last THEN Ended(s, TRUE) ELSE s)
  <2>1. Wrote(p, line, last)
    BY <1>1
  <2>2. PICK s \in ProcType :
          /\ s.pc = proc[p].pc /\ s.op = proc[p].op /\ s.loading = proc[p].loading
          /\ s.taken = proc[p].taken /\ s.rest = proc[p].rest
          /\ s.saving = proc[p].saving /\ s.began = proc[p].began
          /\ s.out = Append(proc[p].out, line) /\ s.out # <<>>
          /\ Goes(p, IF last THEN Ended(s, TRUE) ELSE s, proc[p].saving)
          /\ Passes(p, IF last THEN Ended(s, TRUE) ELSE s)
    BY <2>1, WroteOne, Zenon
  <2> QED BY <1>0, <2>2, Zenon
<1>3. Alone(s) <=> Alone(proc[p])
  BY <1>2 DEF Alone
<1>4. CASE ~last
  <2>1. Passes(p, s)
    BY <1>2, <1>4
  <2>2. ~s.loading /\ Alone(s) /\ Intact(rules) => Begun(s.out, rules)
    BY <1>1, <1>2, <1>3, <1>4 DEF Reads
  <2>3. Faithful(s, rules, policy)
    BY <1>2, <2>2 DEF Faithful, Inside
  <2> QED BY <1>3, <2>1, <2>3
<1>5. CASE last
  <2>1. Passes(p, Ended(s, TRUE))
    BY <1>2, <1>5
  <2>2. CASE s.loading
    BY <1>3, <2>1, <2>2, LoadFaithful
  <2>3. CASE ~s.loading
    <3>1. Ended(s, TRUE) = Exited(s, TRUE)
      BY <2>3 DEF Ended
    <3>2. CASE Alone(s)
      <4>1. Exited(s, TRUE) = [s EXCEPT !.pc = "done", !.ok = TRUE, !.op = NoOp, !.taken = 0, !.rest = <<>>]
        BY <1>2, <3>2 DEF Exited
      <4> DEFINE t == Exited(s, TRUE)
      <4>2. t.pc = "done" /\ t.began = s.began /\ t.out = s.out /\ t.loading = s.loading
        BY <4>1 DEF ProcType
      <4> HIDE DEF t
      <4>3. Intact(rules) => t.out = Shown(rules, policy)
        BY <1>1, <1>2, <1>3, <1>5, <2>3, <3>2, <4>2 DEF Reads
      <4>4. Faithful(t, rules, policy) /\ Alone(t)
        BY <3>2, <4>2, <4>3 DEF Faithful, Alone, Inside
      <4> QED BY <1>3, <2>1, <3>1, <3>2, <4>4 DEF t
    <3>3. CASE ~Alone(s)
      <4>1. Exited(s, TRUE) = NoProcess
        BY <3>3 DEF Exited
      <4> QED BY <2>1, <3>1, <4>1, NoProcessFaithful
    <3> QED BY <3>2, <3>3
  <2> QED BY <2>2, <2>3
<1> QED BY <1>4, <1>5

(* A step that leaves the table alone.                                     *)
LEMMA FaithfulStep ==
  ASSUME Shape, ListingInv, NEW p \in Procs,
         UNCHANGED <<listVars, holder>>, NEW t, Passes(p, t),
         Faithful(t, rules, policy), Alone(t) => holder \notin Procs \ {p}
  PROVE  ListingInv'
<1>1. rules' = rules /\ policy' = policy /\ holder' = holder
  BY DEF listVars
<1>2. ASSUME NEW q \in Procs
      PROVE  Faithful(proc'[q], rules, policy) /\ (Alone(proc'[q]) => holder \notin Procs \ {q})
  <2>1. CASE q = p
    BY <2>1 DEF Passes
  <2>2. CASE q # p
    <3>1. Kept(proc[q], proc'[q])
      BY <2>2, OthersKept
    <3>2. Faithful(proc[q], rules, policy) /\ (Alone(proc[q]) => holder \notin Procs \ {q})
      BY DEF ListingInv
    <3> QED BY <3>1, <3>2, KeptFaithful
  <2> QED BY <2>1, <2>2
<1>3. QED
  BY <1>1, <1>2 DEF ListingInv, Alone

LEMMA ListingLock ==
  ASSUME Shape, ListingInv, NEW p \in Procs, Lock(p)
  PROVE  ListingInv'
<1>1. proc[p] \in ProcType /\ proc[p].pc = "lock" /\ holder' = p /\ UNCHANGED <<rules, policy>>
  BY DEF Lock, Shape, listVars
<1>2. /\ proc'[p] = [proc[p] EXCEPT !.pc = "inside"]
      /\ \A q \in Procs : q # p =>
           proc'[q] = IF Busy(q) THEN [proc[q] EXCEPT !.began = {}] ELSE NoProcess
  BY DEF Lock
<1>3. Faithful(proc'[p], rules, policy) /\ p \notin Procs \ {p}
  BY <1>1, <1>2 DEF ListingInv, Faithful, ProcType, Inside
<1>4. ASSUME NEW q \in Procs, q # p
      PROVE  Faithful(proc'[q], rules, policy) /\ ~Alone(proc'[q])
  <2>1. CASE Busy(q)
    <3>1. proc[q] \in ProcType /\ proc'[q] = [proc[q] EXCEPT !.began = {}]
      BY <1>2, <1>4, <2>1 DEF Shape
    <3>2. /\ proc'[q].pc = proc[q].pc /\ proc'[q].loading = proc[q].loading
          /\ proc'[q].out = proc[q].out /\ proc'[q].began = {}
      BY <3>1 DEF ProcType
    <3>3. proc[q].pc # "done" /\ Faithful(proc[q], rules, policy)
      BY <2>1 DEF Busy, ListingInv, Inside
    <3>4. QED
      BY <3>2, <3>3 DEF Faithful, Alone
  <2>2. CASE ~Busy(q)
    <3>1. proc'[q] = NoProcess
      BY <1>2, <1>4, <2>2
    <3>2. QED
      BY <3>1, NoProcessFaithful
  <2>3. QED
    BY <2>1, <2>2
<1>5. QED
  BY <1>1, <1>3, <1>4 DEF ListingInv, Alone

LEMMA ListingOperate ==
  ASSUME Shape, Places, ListingInv, NEW p \in Procs, Operate(p)
  PROVE  ListingInv'
<1> USE CommandConstants
<1>1. /\ proc[p] \in ProcType /\ proc[p].pc \in Inside /\ holder = p /\ holder' = None
      /\ None \notin Procs
  BY DEF Operate, Shape, Places, PlaceOK, Inside
<1>2. PICK ok \in BOOLEAN : proc' = [proc EXCEPT ![p] = Ended(proc[p], ok)]
  BY Operates
<1>3. /\ proc'[p] = Ended(proc[p], ok)
      /\ \A q \in Procs : q # p => proc'[q] = proc[q]
  BY <1>2 DEF Shape
<1>4. Faithful(proc'[p], rules', policy')
  <2>1. CASE proc[p].loading
    BY <1>1, <1>3, <2>1, LoadFaithful
  <2>2. CASE ~proc[p].loading
    <3>1. proc[p].out = <<>>
      BY <1>1, <2>2 DEF ListingInv, Faithful
    <3>2. proc'[p] = NoProcess
      BY <1>1, <1>3, <2>2, <3>1, EditForgotten
    <3>3. QED
      BY <3>2, NoProcessFaithful
  <2>3. QED
    BY <2>1, <2>2
<1>5. ASSUME NEW q \in Procs, q # p
      PROVE  Faithful(proc'[q], rules', policy')
  <2>1. ~Alone(proc[q]) /\ Faithful(proc[q], rules, policy)
    BY <1>1, <1>5 DEF ListingInv
  <2>2. QED
    BY <1>3, <1>5, <2>1 DEF Faithful, Alone
<1>6. QED
  BY <1>1, <1>4, <1>5 DEF ListingInv

LEMMA ListingStep ==
  CommandsTypeOK /\ ListingInv /\ [Next]_vars => ListingInv'
<1> SUFFICES ASSUME Shape, Places, ListingInv, [Next]_vars
             PROVE  ListingInv'
  BY TypeParts
<1> USE CommandConstants
<1>1. ASSUME NEW p \in Procs, NextLine(p)
      PROVE  ListingInv'
  <2>1. /\ proc[p] \in ProcType /\ proc[p].loading
        /\ Alone(proc[p]) => holder \notin Procs \ {p}
    BY <1>1 DEF NextLine, Shape, Places, PlaceOK, ListingInv
  <2>2. PICK t : Passes(p, t) /\ Faithful(t, rules, policy) /\ (Alone(t) => Alone(proc[p]))
    <3>1. CASE Buffered(proc[p]) = <<>>
      <4>1. proc' = [proc EXCEPT ![p] = Exited(proc[p], TRUE)]
        BY <1>1, <3>1 DEF NextLine
      <4>2. Passes(p, Exited(proc[p], TRUE))
        BY <4>1, AlonePasses
      <4>3. QED
        BY <2>1, <4>2, LoadFaithful
    <3>2. CASE Buffered(proc[p]) # <<>>
      <4> DEFINE l == Head(Buffered(proc[p]))
                 s == [proc[p] EXCEPT !.taken = @ + 1, !.rest = Tail(Buffered(proc[p]))]
      <4>1. s \in ProcType /\ s.loading = proc[p].loading /\ s.began = proc[p].began
        BY <3>2, Taking
      <4>2. Parse(p, l, s)
        BY <1>1, <3>2 DEF NextLine
      <4> HIDE DEF l, s
      <4>3. PICK t : Passes(p, t) /\ Faithful(t, rules, policy) /\ (Alone(t) => Alone(s))
        BY <2>1, <4>1, <4>2, ParseFaithful
      <4>4. QED
        BY <4>1, <4>3 DEF Alone
    <3>3. QED
      BY <3>1, <3>2
  <2>3. QED
    BY <1>1, <2>1, <2>2, FaithfulStep DEF NextLine
<1>2. ASSUME NEW p \in Procs, NEW l \in Commands, Issue(p, l)
      PROVE  ListingInv'
  <2>1. Fresh \in ProcType /\ Fresh.out = <<>> /\ (Alone(Fresh) => holder \in {None, Daemon})
    BY FreshType DEF Fresh, NoProcess, Alone
  <2>2. PICK t : Passes(p, t) /\ Faithful(t, rules, policy) /\ (Alone(t) => Alone(Fresh))
    BY <1>2, <2>1, ParseFaithful DEF Issue
  <2>3. Alone(t) => holder \notin Procs \ {p}
    BY <2>1, <2>2
  <2>4. QED
    BY <1>2, <2>2, <2>3, FaithfulStep DEF Issue
<1>3. ASSUME NEW p \in Procs, ShowLine(p)
      PROVE  ListingInv'
  <2>1. Faithful(proc[p], rules, policy) /\ (Alone(proc[p]) => holder \notin Procs \ {p})
    BY DEF ListingInv
  <2>2. PICK t : Passes(p, t) /\ Faithful(t, rules, policy) /\ (Alone(t) => Alone(proc[p]))
    BY <1>3, <2>1, ShowFaithful
  <2>3. QED
    BY <1>3, <2>1, <2>2, FaithfulStep DEF ShowLine
<1>4. ASSUME NEW p \in Procs, Lock(p)
      PROVE  ListingInv'
  BY <1>4, ListingLock
<1>5. ASSUME NEW p \in Procs, Decide(p)
      PROVE  ListingInv'
  <2>1. Faithful(proc[p], rules, policy) /\ (Alone(proc[p]) => holder \notin Procs \ {p})
    BY DEF ListingInv
  <2>2. PICK t : /\ proc' = [proc EXCEPT ![p] = t]
                 /\ t.pc \in {"accept", "reject"} /\ t.loading = proc[p].loading
                 /\ t.out = proc[p].out /\ t.began = proc[p].began
    BY <1>5, Decides
  <2>3. proc[p].pc = "inside"
    BY <1>5 DEF Decide
  <2>4. Faithful(t, rules, policy) /\ (Alone(t) => Alone(proc[p]))
    BY <2>1, <2>2, <2>3 DEF Faithful, Alone, Inside
  <2>5. Passes(p, t)
    BY <2>2, AlonePasses
  <2>6. QED
    BY <1>5, <2>1, <2>4, <2>5, FaithfulStep DEF Decide
<1>6. ASSUME NEW p \in Procs, Operate(p)
      PROVE  ListingInv'
  BY <1>6, ListingOperate
<1>7. ASSUME NEW p \in Procs, Kill(p)
      PROVE  ListingInv'
  <2>1. /\ UNCHANGED <<rules, policy>> /\ holder' \in {holder, Killed}
        /\ proc'[p] = NoProcess /\ \A q \in Procs : q # p => proc'[q] = proc[q]
    BY <1>7 DEF Kill, listVars, Shape
  <2>2. ASSUME NEW q \in Procs
        PROVE  /\ Faithful(proc'[q], rules, policy)
               /\ Alone(proc'[q]) => holder' \notin Procs \ {q}
    <3>1. CASE q # p
      BY <2>1, <3>1 DEF ListingInv
    <3>2. CASE q = p
      BY <2>1, <3>2, NoProcessFaithful
    <3>3. QED
      BY <3>1, <3>2
  <2>3. QED
    BY <2>1, <2>2 DEF ListingInv, Alone
<1>8. ASSUME DaemonReceives \/ DaemonStep \/ UNCHANGED vars
      PROVE  ListingInv'
  <2>1. UNCHANGED <<rules, policy, proc>> /\ holder' \in {holder, Daemon, None}
    BY <1>8 DEF DaemonReceives, DaemonStep, DaemonLocks, DaemonDecides, listVars, vars
  <2>2. QED
    BY <2>1 DEF ListingInv, Alone
<1>9. QED
  BY <1>1, <1>2, <1>3, <1>4, <1>5, <1>6, <1>7, <1>8 DEF Next, Step

LEMMA ListingInvHolds == Spec => []ListingInv
<1>1. Init => ListingInv
  BY NoProcessFaithful DEF Init, ListingInv
<1>2. QED
  BY <1>1, ListingStep, CommandsTypeCorrect, PTL DEF Spec

(* A listing or a saved file, for which the code takes no lock, shows the  *)
(* table as it is when no edit began meanwhile and no insertion has spoilt *)
(* it, for tables of any length and any number of other processes.         *)
THEOREM ListsTheTableHolds == Spec => []ListsTheTable
<1>1. ListingInv => ListsTheTable
  BY DEF ListingInv, Faithful, ListsTheTable, Listed
<1>2. QED
  BY <1>1, ListingInvHolds, PTL

-----------------------------------------------------------------------------
(* Room.  What a list takes is what its rules take, one after the other.   *)
LEMMA RoomWalk ==
  ASSUME NEW list \in Seq(Rules)
  PROVE  \E u : /\ u \in [0 .. Len(list) -> Nat]
                /\ u[0] = 0 /\ \A k \in 1 .. Len(list) : u[k] = u[k - 1] + SizeOf(list[k])
                /\ RoomOf(list) = u[Len(list)]
<1> DEFINE n == Len(list)
           G == [k \in 1 .. n |-> [x \in Nat |-> x + SizeOf(list[k])]]
<1>0. n \in Nat /\ \A k \in 1 .. n : SizeOf(list[k]) \in Nat
  BY CommandConstants
<1>1. \A k \in 1 .. n : \A x \in Nat : G[k][x] = x + SizeOf(list[k]) /\ G[k][x] \in Nat
  BY <1>0
<1> HIDE DEF G
<1>2. PICK f \in [0 .. n -> Nat] : f = [k \in 0 .. n |-> IF k = 0 THEN 0 ELSE G[k][f[k - 1]]]
  BY <1>0, <1>1, RecursionExists
<1>3. f = [k \in 0 .. Len(list) |-> IF k = 0 THEN 0 ELSE f[k - 1] + SizeOf(list[k])]
  <2>1. ASSUME NEW k \in 0 .. n PROVE f[k] = IF k = 0 THEN 0 ELSE f[k - 1] + SizeOf(list[k])
    <3>1. f[k] = IF k = 0 THEN 0 ELSE G[k][f[k - 1]]
      BY <1>2
    <3>2. CASE k = 0
      BY <3>1, <3>2
    <3>3. CASE k # 0
      <4>1. k \in 1 .. n /\ k - 1 \in 0 .. n
        BY <1>0, <3>3
      <4>2. f[k - 1] \in Nat
        BY <1>2, <4>1
      <4> QED BY <1>1, <3>1, <3>3, <4>1, <4>2
    <3> QED BY <3>2, <3>3
  <2>2. f = [k \in 0 .. n |-> f[k]]
    BY <1>2
  <2> QED BY <2>1, <2>2, Zenon
<1>4. \E u : /\ u = [k \in 0 .. Len(list) |-> IF k = 0 THEN 0 ELSE u[k - 1] + SizeOf(list[k])]
             /\ RoomOf(list) = u[Len(list)]
  BY <1>3, Zenon DEF RoomOf
<1>5. PICK u : /\ u = [k \in 0 .. Len(list) |-> IF k = 0 THEN 0 ELSE u[k - 1] + SizeOf(list[k])]
               /\ RoomOf(list) = u[Len(list)]
  BY <1>4
<1>6. u[0] = 0 /\ \A k \in 1 .. n : u[k] = u[k - 1] + SizeOf(list[k])
  BY <1>0, <1>5
<1> DEFINE S == {k \in Nat : k <= n => u[k] \in Nat}
<1>7. 0 \in S
  BY <1>6
<1>8. \A k \in Nat : k \in S => k + 1 \in S
  <2> SUFFICES ASSUME NEW k \in Nat, k + 1 <= n, u[k] \in Nat PROVE u[k + 1] \in Nat
    BY <1>0
  <2>1. k + 1 \in 1 .. n /\ (k + 1) - 1 = k
    BY <1>0
  <2> QED BY <1>0, <1>6, <2>1
<1> HIDE DEF S
<1>9. \A k \in Nat : k \in S
  BY <1>7, <1>8, NatSetInduction
<1>10. \A k \in 0 .. n : u[k] \in Nat
  BY <1>0, <1>9 DEF S
<1>11. u \in [0 .. n -> Nat]
  BY <1>5, <1>10, Zenon
<1> QED BY <1>5, <1>6, <1>11

(* Two walks that see the same rules take the same room.                   *)
LEMMA RoomAppend ==
  ASSUME NEW list \in Seq(Rules), NEW r \in Rules
  PROVE  /\ RoomOf(list) \in Nat /\ RoomOf(<<>>) = 0
         /\ RoomOf(Append(list, r)) = RoomOf(list) + SizeOf(r)
<1> DEFINE longer == Append(list, r)
           n == Len(list)
<1>1. longer \in Seq(Rules) /\ Len(longer) = n + 1 /\ n \in Nat
      /\ (\A k \in 1 .. n : longer[k] = list[k]) /\ longer[n + 1] = r
  BY AppendProperties
<1>2. PICK u : /\ u \in [0 .. n -> Nat]
               /\ u[0] = 0 /\ \A k \in 1 .. n : u[k] = u[k - 1] + SizeOf(list[k])
               /\ RoomOf(list) = u[n]
  BY RoomWalk
<1> HIDE DEF longer
<1>3. PICK w : /\ w \in [0 .. n + 1 -> Nat]
               /\ w[0] = 0 /\ \A k \in 1 .. n + 1 : w[k] = w[k - 1] + SizeOf(longer[k])
               /\ RoomOf(longer) = w[n + 1]
  BY <1>1, RoomWalk
<1> DEFINE S == {k \in Nat : k <= n => u[k] = w[k]}
<1>4. 0 \in S
  BY <1>2, <1>3
<1>5. \A k \in Nat : k \in S => k + 1 \in S
  <2> SUFFICES ASSUME NEW k \in Nat, k + 1 <= n, u[k] = w[k] PROVE u[k + 1] = w[k + 1]
    BY <1>1
  <2>1. k + 1 \in 1 .. n /\ k + 1 \in 1 .. n + 1 /\ (k + 1) - 1 = k
    BY <1>1
  <2> QED BY <1>1, <1>2, <1>3, <2>1
<1> HIDE DEF S
<1>6. u[n] = w[n]
  <2>1. n \in S
    BY <1>1, <1>4, <1>5, NatSetInduction
  <2> QED BY <1>1, <2>1 DEF S
<1>7. RoomOf(longer) = RoomOf(list) + SizeOf(r)
  <2>1. n + 1 \in 1 .. n + 1 /\ (n + 1) - 1 = n
    BY <1>1
  <2> QED BY <1>1, <1>2, <1>3, <1>6, <2>1
<1>8. RoomOf(<<>>) = 0
  <2>1. <<>> \in Seq(Rules) /\ Len(<<>>) = 0
    OBVIOUS
  <2> QED BY <2>1, RoomWalk
<1> QED BY <1>1, <1>2, <1>7, <1>8 DEF longer

(* The first rules of a list that has room find it one by one.             *)
LEMMA RoomForNext ==
  ASSUME NEW list \in Seq(Rules), NEW s \in Seq(Rules), NEW k \in 1 .. Len(s),
         RoomOf(list) + RoomOf(s) <= CAPACITY
  PROVE  RoomOf(list \o SubSeq(s, 1, k - 1)) + SizeOf(s[k]) <= CAPACITY
<1> DEFINE m == Len(s)
           front(j) == list \o SubSeq(s, 1, j)
<1>0. m \in Nat /\ \A j \in 1 .. m : s[j] \in Rules /\ SizeOf(s[j]) \in Nat
  BY CommandConstants
<1>1. PICK w : /\ w \in [0 .. m -> Nat]
               /\ w[0] = 0 /\ \A j \in 1 .. m : w[j] = w[j - 1] + SizeOf(s[j])
               /\ RoomOf(s) = w[m]
  BY RoomWalk
<1>2. RoomOf(list) \in Nat
  BY RoomWalk
<1>3. \A j \in 0 .. m : front(j) \in Seq(Rules)
  <2> SUFFICES ASSUME NEW j \in 0 .. m PROVE front(j) \in Seq(Rules)
    OBVIOUS
  <2>1. SubSeq(s, 1, j) \in Seq(Rules)
    BY <1>0, SubSeqProperties
  <2> QED BY <2>1, ConcatProperties
<1>4. ASSUME NEW j \in 1 .. m PROVE front(j) = Append(front(j - 1), s[j])
  <2>1. SubSeq(s, 1, j) = SubSeq(s, 1, j - 1) \o <<s[j]>>
    <3>1. 1 \in 1 .. m /\ j \in 1 .. m
      BY <1>0
    <3> QED BY <3>1, SubSeqRecursiveSecond
  <2>2. SubSeq(s, 1, j - 1) \in Seq(Rules)
    BY <1>0, SubSeqProperties
  <2>3. <<s[j]>> \in Seq(Rules)
    BY <1>0
  <2>4. front(j) = front(j - 1) \o <<s[j]>>
    BY <2>1, <2>2, <2>3, ConcatAssociative
  <2>5. front(j - 1) \in Seq(Rules) /\ s[j] \in Rules
    BY <1>0, <1>3
  <2> HIDE DEF front
  <2> QED BY <2>4, <2>5, AppendIsConcat
<1>5. front(0) = list
  <2>1. SubSeq(s, 1, 0) = <<>>
    BY SubSeqEmpty
  <2> QED BY <2>1, ConcatEmptySeq
<1> HIDE DEF front
<1> DEFINE S == {j \in Nat : j <= m => RoomOf(front(j)) = RoomOf(list) + w[j]}
<1>6. 0 \in S
  BY <1>1, <1>2, <1>5
<1>7. \A j \in Nat : j \in S => j + 1 \in S
  <2> SUFFICES ASSUME NEW j \in Nat, j + 1 <= m, RoomOf(front(j)) = RoomOf(list) + w[j]
               PROVE  RoomOf(front(j + 1)) = RoomOf(list) + w[j + 1]
    BY <1>0
  <2>1. j + 1 \in 1 .. m /\ (j + 1) - 1 = j /\ j \in 0 .. m
    BY <1>0
  <2>2. front(j + 1) = Append(front(j), s[j + 1]) /\ front(j) \in Seq(Rules) /\ s[j + 1] \in Rules
    BY <1>0, <1>3, <1>4, <2>1
  <2>3. RoomOf(front(j + 1)) = RoomOf(front(j)) + SizeOf(s[j + 1])
    BY <2>2, RoomAppend
  <2>4. w[j + 1] = w[j] + SizeOf(s[j + 1]) /\ w[j] \in Nat /\ SizeOf(s[j + 1]) \in Nat
    BY <1>0, <1>1, <2>1
  <2> QED BY <1>2, <2>3, <2>4
<1> HIDE DEF S
<1>8. RoomOf(front(k - 1)) = RoomOf(list) + w[k - 1]
  <2>0. k - 1 \in Nat /\ k - 1 <= m
    BY <1>0
  <2>1. k - 1 \in S
    BY <2>0, <1>6, <1>7, NatSetInduction
  <2> QED BY <2>0, <2>1 DEF S
<1> DEFINE T == {j \in Nat : k + j <= m => w[k] <= w[k + j]}
<1>9. 0 \in T
  BY <1>0, <1>1
<1>10. \A j \in Nat : j \in T => j + 1 \in T
  <2> SUFFICES ASSUME NEW j \in Nat, k + (j + 1) <= m, w[k] <= w[k + j]
               PROVE  w[k] <= w[k + (j + 1)]
    BY <1>0
  <2> DEFINE i == k + (j + 1)
  <2>1. i \in 1 .. m /\ i - 1 = k + j /\ i - 1 \in 0 .. m /\ k \in 0 .. m
    BY <1>0
  <2> HIDE DEF i
  <2>2. w[i] = w[i - 1] + SizeOf(s[i]) /\ w[i - 1] \in Nat /\ w[k] \in Nat /\ SizeOf(s[i]) \in Nat
    BY <1>0, <1>1, <2>1
  <2>3. w[k] <= w[i - 1]
    BY <2>1
  <2>4. w[k] <= w[i]
    BY <2>2, <2>3
  <2> QED BY <2>4 DEF i
<1> HIDE DEF T
<1>11. w[k] <= w[m]
  <2>1. m - k \in Nat /\ k + (m - k) = m
    BY <1>0
  <2>2. m - k \in T
    BY <1>9, <1>10, <2>1, NatSetInduction
  <2> QED BY <1>0, <2>1, <2>2 DEF T
<1>12. w[k] = w[k - 1] + SizeOf(s[k]) /\ w[k - 1] \in Nat /\ w[k] \in Nat /\ w[m] \in Nat
       /\ SizeOf(s[k]) \in Nat
  <2>1. k \in 1 .. m /\ k - 1 \in 0 .. m /\ k \in 0 .. m /\ m \in 0 .. m
    BY <1>0
  <2>2. w[k] = w[k - 1] + SizeOf(s[k]) /\ SizeOf(s[k]) \in Nat
    BY <1>0, <1>1, <2>1
  <2>3. w[k - 1] \in Nat /\ w[k] \in Nat /\ w[m] \in Nat
    BY <1>1, <2>1
  <2> QED BY <2>2, <2>3
<1>13. RoomOf(front(k - 1)) + SizeOf(s[k]) <= CAPACITY
  <2>1. RoomOf(list) + w[m] <= CAPACITY /\ CAPACITY \in Nat
    BY <1>1, CommandConstants
  <2> QED BY <1>2, <1>8, <1>11, <1>12, <2>1
<1> QED BY <1>13 DEF front

-----------------------------------------------------------------------------
(* The rules of the first n lines, line by line.                           *)
LEMMA AddedWalk ==
  ASSUME NEW ls \in Seq(Lines)
  PROVE  /\ AddedBy(ls, 0) = <<>>
         /\ \A n \in 1 .. Len(ls) :
              AddedBy(ls, n) = IF ls[n].cmd = "add" THEN Append(AddedBy(ls, n - 1), RuleOf(ls[n]))
                                                    ELSE AddedBy(ls, n - 1)
<1> DEFINE N == Len(ls)
           A == {RuleOf(ls[k]) : k \in 1 .. N}
           step(k, x) == IF ls[k].cmd = "add" THEN Append(x, RuleOf(ls[k])) ELSE x
           G == [k \in 1 .. N |-> [x \in Seq(A) |-> step(k, x)]]
<1>0. N \in Nat /\ <<>> \in Seq(A)
  OBVIOUS
<1>1. ASSUME NEW k \in 1 .. N, NEW x \in Seq(A)
      PROVE  G[k][x] = step(k, x) /\ step(k, x) \in Seq(A)
  <2>1. RuleOf(ls[k]) \in A
    OBVIOUS
  <2> HIDE DEF A
  <2>2. Append(x, RuleOf(ls[k])) \in Seq(A)
    BY <2>1, AppendProperties
  <2> QED BY <2>2
<1> HIDE DEF A, G, step
<1>2. StaysIn(Seq(A), G, N)
  BY <1>1 DEF StaysIn
<1>3. PICK f : IsRecursive(f, Seq(A), <<>>, G, N)
  BY <1>0, <1>2, RecursionInto
<1>4. f \in [0 .. N -> Seq(A)] /\ \A k \in 0 .. N : f[k] = IF k = 0 THEN <<>> ELSE G[k][f[k - 1]]
  BY <1>3, Zenon DEF IsRecursive
<1>5. ASSUME NEW k \in 0 .. N PROVE f[k] = IF k = 0 THEN <<>> ELSE step(k, f[k - 1])
  <2>1. CASE k = 0
    BY <1>4, <2>1
  <2>2. CASE k # 0
    <3>1. k \in 1 .. N /\ k - 1 \in 0 .. N
      BY <1>0, <2>2
    <3>2. f[k - 1] \in Seq(A)
      BY <1>4, <3>1
    <3> QED BY <1>1, <1>4, <2>2, <3>1, <3>2
  <2> QED BY <2>1, <2>2
<1>6. f = [k \in 0 .. N |-> IF k = 0 THEN <<>> ELSE step(k, f[k - 1])]
  <2>1. f = [k \in 0 .. N |-> f[k]]
    BY <1>4
  <2> QED BY <1>5, <2>1, Zenon
<1>7. \E u : /\ u = [k \in 0 .. N |-> IF k = 0 THEN <<>> ELSE step(k, u[k - 1])]
             /\ \A n : AddedBy(ls, n) = u[n]
  BY <1>6, Zenon DEF AddedBy, step
<1>8. PICK u : /\ u = [k \in 0 .. N |-> IF k = 0 THEN <<>> ELSE step(k, u[k - 1])]
               /\ \A n : AddedBy(ls, n) = u[n]
  BY <1>7
<1>9. u[0] = <<>> /\ \A k \in 1 .. N : u[k] = step(k, u[k - 1])
  BY <1>0, <1>8
<1> QED BY <1>8, <1>9 DEF step

LEMMA AddedType ==
  ASSUME NEW ls \in Seq(Lines), NEW n \in 0 .. Len(ls)
  PROVE  \A A : {RuleOf(ls[k]) : k \in 1 .. Len(ls)} \subseteq A => AddedBy(ls, n) \in Seq(A)
<1> SUFFICES ASSUME NEW A, {RuleOf(ls[k]) : k \in 1 .. Len(ls)} \subseteq A
             PROVE  AddedBy(ls, n) \in Seq(A)
  OBVIOUS
<1> DEFINE S == {k \in Nat : k <= Len(ls) => AddedBy(ls, k) \in Seq(A)}
<1>1. 0 \in S
  <2>1. <<>> \in Seq(A)
    OBVIOUS
  <2>2. AddedBy(ls, 0) = <<>>
    BY AddedWalk
  <2> QED BY <2>1, <2>2
<1>2. \A k \in Nat : k \in S => k + 1 \in S
  <2> SUFFICES ASSUME NEW k \in Nat, k + 1 <= Len(ls), AddedBy(ls, k) \in Seq(A)
               PROVE  AddedBy(ls, k + 1) \in Seq(A)
    OBVIOUS
  <2>1. k + 1 \in 1 .. Len(ls) /\ (k + 1) - 1 = k
    OBVIOUS
  <2>2. RuleOf(ls[k + 1]) \in A
    BY <2>1
  <2>3. Append(AddedBy(ls, k), RuleOf(ls[k + 1])) \in Seq(A)
    BY <2>2, AppendProperties
  <2> QED BY <2>1, <2>3, AddedWalk
<1> HIDE DEF S
<1>3. n \in Nat /\ n <= Len(ls)
  OBVIOUS
<1>4. n \in S
  BY <1>1, <1>2, <1>3, NatSetInduction
<1> QED BY <1>3, <1>4 DEF S
-----------------------------------------------------------------------------
(* What was shown is parsed to what it was.                                *)
LEMMA ShownRule ==
  ASSUME NEW r
  PROVE  /\ DOMAIN ShowRule(r) = {"cmd"} \cup DOMAIN r
         /\ ShowRule(r).cmd = "add"
         /\ \A o \in DOMAIN r : o # "cmd" => ShowRule(r)[o] = r[o]
<1> DEFINE c == [cmd |-> "add"]
<1>1. DOMAIN c = {"cmd"} /\ c["cmd"] = "add"
  OBVIOUS
<1> HIDE DEF c
<1>2. ShowRule(r) = [x \in (DOMAIN c) \cup (DOMAIN r) |-> IF x \in DOMAIN c THEN c[x] ELSE r[x]]
  BY Zenon DEF ShowRule, Joined, Has, c
<1>3. DOMAIN ShowRule(r) = {"cmd"} \cup DOMAIN r
  BY <1>1, <1>2, Zenon
<1>4. \A x \in {"cmd"} \cup DOMAIN r : ShowRule(r)[x] = IF x \in {"cmd"} THEN c[x] ELSE r[x]
  BY <1>1, <1>2, Zenon
<1>5. ShowRule(r)["cmd"] = "add"
  BY <1>1, <1>4
<1> QED BY <1>3, <1>4, <1>5

LEMMA ShownPolicy ==
  ASSUME NEW q
  PROVE  /\ ShowPolicy(q).cmd = "policy"
         /\ q.action = "redirect" => /\ DOMAIN ShowPolicy(q) = {"cmd"} \cup DOMAIN q
                                     /\ \A o \in DOMAIN q : o # "cmd" => ShowPolicy(q)[o] = q[o]
         /\ q.action # "redirect" => ~Has(ShowPolicy(q), "target4")
<1> DEFINE c == [cmd |-> "policy"]
           d == IF q.action = "redirect" THEN q ELSE [action |-> q.action]
<1>1. DOMAIN c = {"cmd"} /\ c["cmd"] = "policy"
  OBVIOUS
<1>2. q.action # "redirect" => DOMAIN d = {"action"}
  OBVIOUS
<1>3. q.action = "redirect" => d = q
  OBVIOUS
<1> HIDE DEF c, d
<1>4. ShowPolicy(q) = [x \in (DOMAIN c) \cup (DOMAIN d) |-> IF x \in DOMAIN c THEN c[x] ELSE d[x]]
  BY Zenon DEF ShowPolicy, Joined, Has, c, d
<1>5. DOMAIN ShowPolicy(q) = {"cmd"} \cup DOMAIN d
  BY <1>1, <1>4, Zenon
<1>6. \A x \in {"cmd"} \cup DOMAIN d : ShowPolicy(q)[x] = IF x \in {"cmd"} THEN c[x] ELSE d[x]
  BY <1>1, <1>4, Zenon
<1>7. ShowPolicy(q)["cmd"] = "policy"
  BY <1>1, <1>6
<1>8. q.action # "redirect" => ~Has(ShowPolicy(q), "target4")
  BY <1>2, <1>5 DEF Has
<1> QED BY <1>3, <1>5, <1>6, <1>7, <1>8

LEMMA RuleRoundTrip ==
  ASSUME ParsedTables, NEW r \in Rules
  PROVE  /\ ShowRule(r).cmd = "add" /\ ~Throws(ShowRule(r)) /\ Plain(ShowRule(r))
         /\ RuleOf(ShowRule(r)) = r
<1> DEFINE l == ShowRule(r)
<1>1. /\ DOMAIN l = {"cmd"} \cup DOMAIN r
      /\ l.cmd = "add"
      /\ \A o \in DOMAIN r : o # "cmd" => l[o] = r[o]
  BY ShownRule
<1>2. /\ r = [o \in DOMAIN r |-> r[o]]
      /\ DOMAIN r \subseteq {"ipaddr", "macaddr", "action", "target"}
      /\ ~AddThrows(r)
      /\ Has(r, "target") <=> r.action = "redirect"
  BY DEF ParsedTables
<1> HIDE DEF l
<1>3. "cmd" \notin DOMAIN r
  BY <1>2
<1>4. \A o : o # "cmd" => (Has(l, o) <=> Has(r, o))
  BY <1>1 DEF Has
<1>5. \A o \in DOMAIN r : l[o] = r[o]
  BY <1>1, <1>3
<1>6. RuleOf(l) = r
  <2>1. DOMAIN l \ {"cmd"} = DOMAIN r
    BY <1>1, <1>3
  <2>2. RuleOf(l) = [o \in DOMAIN r |-> l[o]]
    BY <2>1, Zenon DEF RuleOf, Restrict
  <2> QED BY <1>2, <1>5, <2>2, Zenon
<1>7. Has(r, "action") /\ r.action \in {"dns", "redirect"} /\ l.action = r.action
  <2>1. ~BadAction(r)
    BY <1>2 DEF AddThrows
  <2> QED BY <1>5, <2>1 DEF BadAction, Has
<1>8. ~AddThrows(l)
  <2>1. \A o \in {"ipaddr", "target"} : BadAddress(l, o) <=> BadAddress(r, o)
    BY <1>4, <1>5 DEF BadAddress, Has
  <2>2. BadAction(l) <=> BadAction(r)
    BY <1>4, <1>5 DEF BadAction, Has
  <2>3. Has(l, "macaddr") => l.macaddr = r.macaddr
    BY <1>4, <1>5 DEF Has
  <2> QED BY <1>2, <1>4, <2>1, <2>2, <2>3 DEF AddThrows
<1>9. ~Throws(l)
  BY <1>1, <1>8 DEF Throws
<1>10. ~Has(l, "index")
  BY <1>2, <1>4 DEF Has
<1>11. ParsedRules(l) = {r}
  <2> DEFINE D == {"ipaddr", "macaddr", "action"} \cap DOMAIN l
             matched == Restrict(l, D)
  <2>0. /\ D \subseteq DOMAIN r
        /\ Has(r, "target") => DOMAIN r = D \cup {"target"}
        /\ ~Has(r, "target") => DOMAIN r = D
    BY <1>1, <1>2, <1>3 DEF Has
  <2>1. matched = [o \in D |-> r[o]]
    <3>1. \A o \in D : l[o] = r[o]
      BY <1>5, <2>0
    <3> QED BY <3>1, Zenon DEF Restrict
  <2>2. CASE r.action = "dns"
    <3>1. DOMAIN r = D
      BY <1>2, <2>0, <2>2
    <3>2. matched = r
      BY <1>2, <2>1, <3>1, Zenon
    <3> QED BY <1>7, <2>2, <3>2 DEF ParsedRules
  <2>3. CASE r.action = "redirect"
    <3>1. Has(r, "target") /\ Has(l, "target") /\ l.target = r.target /\ DOMAIN r = D \cup {"target"}
      BY <1>2, <1>4, <1>5, <2>0, <2>3 DEF Has
    <3> DEFINE t == [target |-> l.target]
    <3>2. DOMAIN t = {"target"} /\ t["target"] = r["target"]
      BY <3>1
    <3>3. DOMAIN matched = D /\ \A o \in D : matched[o] = r[o]
      BY <2>1, Zenon
    <3> HIDE DEF t, matched
    <3>4. Joined(matched, t) = [x \in DOMAIN matched \cup DOMAIN t |->
                            IF x \in DOMAIN matched THEN matched[x] ELSE t[x]]
      BY Zenon DEF Joined, Has
    <3>5. DOMAIN matched \cup DOMAIN t = DOMAIN r
      BY <3>1, <3>2, <3>3
    <3>6. \A x \in DOMAIN r : (IF x \in DOMAIN matched THEN matched[x] ELSE t[x]) = r[x]
      BY <3>1, <3>2, <3>3
    <3>7. Joined(matched, t) = r
      BY <1>2, <3>4, <3>5, <3>6, Zenon
    <3>8. ParsedRules(l) = {Joined(matched, [target |-> a]) : a \in {l.target}}
      BY <1>7, <2>3, <3>1 DEF ParsedRules, matched
    <3> QED BY <3>7, <3>8 DEF t
  <2> QED BY <1>7, <2>2, <2>3
<1> QED BY <1>1, <1>6, <1>9, <1>10, <1>11 DEF Plain, l

(* The policy of a redirect is taken as it was; the line of another is     *)
(* rejected, for it has no targets.                                        *)
PolicyOf(l) == Restrict(l, {"action", "target4", "target6"})

LEMMA PolicyRoundTrip ==
  ASSUME ParsedTables, NEW q \in TablePolicies
  PROVE  /\ ShowPolicy(q).cmd = "policy" /\ Plain(ShowPolicy(q))
         /\ Throws(ShowPolicy(q)) <=> q.action # "redirect"
         /\ q.action = "redirect" => PolicyOf(ShowPolicy(q)) = q
<1> DEFINE l == ShowPolicy(q)
<1>1. /\ l.cmd = "policy"
      /\ q.action = "redirect" => /\ DOMAIN l = {"cmd"} \cup DOMAIN q
                                  /\ \A o \in DOMAIN q : o # "cmd" => l[o] = q[o]
      /\ q.action # "redirect" => ~Has(l, "target4")
  BY ShownPolicy
<1> HIDE DEF l
<1>2. Plain(l)
  BY <1>1 DEF Plain
<1>3. CASE q.action # "redirect"
  BY <1>1, <1>2, <1>3 DEF Throws, PolicyThrows, l
<1>4. CASE q.action = "redirect"
  <2>1. q \in [action : {"dns", "redirect"}, target4 : Addresses, target6 : Addresses]
    BY <1>4 DEF ParsedTables, TablePolicies
  <2>2. DOMAIN q = {"action", "target4", "target6"} /\ q.target4 \in Addresses /\ q.target6 \in Addresses
    BY <2>1
  <2>3. \A o \in {"action", "target4", "target6"} : Has(l, o) /\ l[o] = q[o]
    BY <1>1, <1>4, <2>2 DEF Has
  <2>4. ~Throws(l)
    BY <1>1, <1>4, <2>2, <2>3 DEF Throws, PolicyThrows, BadAction, BadAddress
  <2>5. PolicyOf(l) = q
    <3>1. PolicyOf(l) = [o \in {"action", "target4", "target6"} |-> q[o]]
      BY <2>3, Zenon DEF PolicyOf, Restrict
    <3>2. q = [o \in {"action", "target4", "target6"} |-> q[o]]
      BY <2>1
    <3> QED BY <3>1, <3>2
  <2> QED BY <1>1, <1>2, <1>4, <2>4, <2>5 DEF l
<1> QED BY <1>3, <1>4
-----------------------------------------------------------------------------
(* The rule file.  A file an undisturbed save completed holds the lines of *)
(* the table it saved; a save that is under way has written what it has    *)
(* listed, and there is only one; alone with an intact table it has listed *)
(* the first rules of it.  f and list stand for the file and the table's   *)
(* rules.                                                                  *)
GoodFile(f) ==
  /\ f.lines \in Seq(FileLines)
  /\ \A t \in f.saved : t.rules \in Seq(Rules) /\ f.lines = Shown(t.rules, t.policy)

Writes(s) == s.pc \in {"next", "lock", "listing"} \cup Inside /\ s.saving

Saves(s, f, list) ==
  /\ \A b \in s.began : GoodFile(b.file)
  /\ Writes(s) => f.lines = s.out
  /\ s.pc = "listing" /\ Alone(s) /\ Intact(list) => Begun(s.out, list)

SaveInv ==
  /\ GoodFile(file)
  /\ \A p \in Procs : Saves(proc[p], file, rules)
  /\ \A p, q \in Procs : Writes(proc[p]) /\ Writes(proc[q]) => p = q

LEMMA KeptSaves ==
  ASSUME NEW s, NEW t, Kept(s, t), NEW f, NEW list, Saves(s, f, list)
  PROVE  Saves(t, f, list) /\ (Writes(t) <=> Writes(s))
BY DEF Kept, Saves, Writes, Alone

(* A process that has ended or is forgotten writes nothing.                *)
LEMMA ExitedParts ==
  ASSUME NEW s \in ProcType, NEW ok \in BOOLEAN
  PROVE  /\ Exited(s, ok).pc \in {"none", "done"}
         /\ Exited(s, ok).began \subseteq s.began
         /\ ~Writes(Exited(s, ok))
         /\ Exited(s, ok).loading => s.loading
         /\ Exited(s, ok).pc = "done" => Exited(s, ok).ok = ok
         /\ Exited(s, ok).loading => Exited(s, ok).pc = "done"
<1>1. CASE Alone(s) /\ (s.loading \/ s.out # <<>>)
  <2>1. Exited(s, ok) = [s EXCEPT !.pc = "done", !.ok = ok, !.op = NoOp, !.taken = 0, !.rest = <<>>]
    BY <1>1 DEF Exited
  <2>2. /\ Exited(s, ok).pc = "done" /\ Exited(s, ok).began = s.began
        /\ Exited(s, ok).loading = s.loading /\ Exited(s, ok).ok = ok
    BY <2>1 DEF ProcType
  <2> QED BY <2>2 DEF Writes, Inside
<1>2. CASE ~(Alone(s) /\ (s.loading \/ s.out # <<>>))
  <2>1. Exited(s, ok) = NoProcess
    BY <1>2 DEF Exited
  <2> QED BY <2>1 DEF NoProcess, Writes, Inside
<1> QED BY <1>1, <1>2

LEMMA EndedParts ==
  ASSUME NEW s \in ProcType, NEW ok \in BOOLEAN, s.pc # "none", s.pc # "done"
  PROVE  /\ Ended(s, ok).pc \in {"none", "done", "next"}
         /\ Ended(s, ok).began \subseteq s.began
         /\ Writes(Ended(s, ok)) => s.saving /\ Ended(s, ok).out = s.out
<1>1. CASE s.loading /\ ok
  <2>1. Ended(s, ok) = [s EXCEPT !.pc = "next", !.op = NoOp]
    BY <1>1 DEF Ended
  <2> QED BY <2>1 DEF ProcType, Writes
<1>2. CASE ~(s.loading /\ ok)
  <2>1. PICK e \in BOOLEAN : Ended(s, ok) = Exited(s, e)
    <3>1. Ended(s, ok) = Exited(s, s.loading \/ ok) /\ (s.loading \/ ok) \in BOOLEAN
      BY <1>2 DEF Ended, ProcType
    <3> QED BY <3>1
  <2>2. Exited(s, e).pc \in {"none", "done"} /\ Exited(s, e).began \subseteq s.began
        /\ ~Writes(Exited(s, e))
    BY ExitedParts
  <2> QED BY <2>1, <2>2
<1> QED BY <1>1, <1>2

(* A step of one process that leaves the table and the file alone.         *)
LEMMA SaveStill ==
  ASSUME Shape, SaveInv, NEW p \in Procs, NEW t, Passes(p, t),
         UNCHANGED <<rules, file>>,
         \A b \in t.began : GoodFile(b.file),
         Writes(t) => Writes(proc[p]) /\ t.out = proc[p].out,
         t.pc = "listing" /\ Alone(t) /\ Intact(rules) => Begun(t.out, rules)
  PROVE  SaveInv'
<1>1. Saves(t, file, rules)
  BY DEF SaveInv, Saves
<1>2. ASSUME NEW q \in Procs
      PROVE  Saves(proc'[q], file, rules) /\ (Writes(proc'[q]) => Writes(proc[q]))
  <2>1. CASE q = p
    BY <1>1, <2>1 DEF Passes
  <2>2. CASE q # p
    <3>1. Kept(proc[q], proc'[q])
      BY <2>2, OthersKept
    <3>2. Saves(proc[q], file, rules)
      BY DEF SaveInv
    <3> QED BY <3>1, <3>2, KeptSaves
  <2> QED BY <2>1, <2>2
<1>3. \A q, r \in Procs : Writes(proc'[q]) /\ Writes(proc'[r]) => q = r
  BY <1>2 DEF SaveInv
<1>4. GoodFile(file)
  BY DEF SaveInv
<1> QED BY <1>2, <1>3, <1>4 DEF SaveInv

(* A step of the only process that writes.                                 *)
LEMMA SaveWrites ==
  ASSUME Shape, SaveInv, NEW p \in Procs, NEW t, Passes(p, t), rules' = rules,
         \A q \in Procs : q # p => ~Writes(proc[q]),
         GoodFile(file'), Saves(t, file', rules)
  PROVE  SaveInv'
<1>1. ASSUME NEW q \in Procs
      PROVE  Saves(proc'[q], file', rules) /\ (q # p => ~Writes(proc'[q]))
  <2>1. CASE q = p
    BY <2>1 DEF Passes
  <2>2. CASE q # p
    <3>1. Kept(proc[q], proc'[q])
      BY <2>2, OthersKept
    <3>2. Saves(proc[q], file, rules) /\ ~Writes(proc[q])
      BY <2>2 DEF SaveInv
    <3>3. Saves(proc'[q], file, rules) /\ ~Writes(proc'[q])
      BY <3>1, <3>2, KeptSaves
    <3> QED BY <3>3 DEF Saves
  <2> QED BY <2>1, <2>2
<1> QED BY <1>1 DEF SaveInv

(* Parsing a line.                                                         *)
LEMMA SaveParse ==
  ASSUME Shape, SaveInv, NEW p \in Procs, NEW l, NEW s \in ProcType, Parse(p, l, s),
         UNCHANGED rules,
         \A b \in s.began : GoodFile(b.file),
         s.saving => Writes(proc[p]) /\ s.out = proc[p].out
  PROVE  SaveInv'
<1>1. CASE ParseFails(p, l, s)
  <2>1. PICK ok \in BOOLEAN : proc' = [proc EXCEPT ![p] = Exited(s, ok)] /\ file' = file
    <3>1. (s.loading /\ ~Throws(l)) \in BOOLEAN
      OBVIOUS
    <3> QED BY <1>1, <3>1 DEF ParseFails
  <2>2. /\ Exited(s, ok).pc \in {"none", "done"} /\ Exited(s, ok).began \subseteq s.began
        /\ ~Writes(Exited(s, ok))
    BY ExitedParts
  <2>3. Passes(p, Exited(s, ok))
    BY <2>1, AlonePasses
  <2> QED BY <2>1, <2>2, <2>3, SaveStill
<1>2. CASE ParseEdit(p, l, s)
  <2>1. PICK op \in Ops(l) : proc' = [proc EXCEPT ![p] = [s EXCEPT !.pc = "lock", !.op = op]]
    BY <1>2 DEF ParseEdit
  <2> DEFINE t == [s EXCEPT !.pc = "lock", !.op = op]
  <2>2. t.pc = "lock" /\ t.began = s.began /\ t.out = s.out /\ t.saving = s.saving
    BY DEF ProcType
  <2>3. proc' = [proc EXCEPT ![p] = t] /\ file' = file
    BY <1>2, <2>1 DEF ParseEdit
  <2> HIDE DEF t
  <2>4. Writes(t) => Writes(proc[p]) /\ t.out = proc[p].out
    BY <2>2 DEF Writes
  <2>5. Passes(p, t)
    BY <2>3, AlonePasses
  <2> QED BY <2>2, <2>3, <2>4, <2>5, SaveStill
<1>3. CASE ParseLoad(p, l, s)
  <2> DEFINE t == [s EXCEPT !.pc = "next", !.loading = TRUE, !.taken = 0, !.rest = <<>>]
  <2>2. t.pc = "next" /\ t.began = s.began /\ t.out = s.out /\ t.saving = s.saving
    BY DEF ProcType
  <2>3. proc' = [proc EXCEPT ![p] = t] /\ file' = file
    BY <1>3 DEF ParseLoad
  <2> HIDE DEF t
  <2>4. Writes(t) => Writes(proc[p]) /\ t.out = proc[p].out
    BY <2>2 DEF Writes
  <2>5. Passes(p, t)
    BY <2>3, AlonePasses
  <2> QED BY <2>2, <2>3, <2>4, <2>5, SaveStill
<1>4. CASE ParseList(p, l, s)
  <2> DEFINE saving == l.cmd = "save"
             t == [s EXCEPT !.pc = "listing", !.out = <<>>, !.saving = saving]
  <2>1. t.pc = "listing" /\ t.began = s.began /\ t.out = <<>> /\ t.saving = saving
    BY DEF ProcType
  <2>2. Goes(p, t, saving)
    BY <1>4 DEF ParseList
  <2>3. Begun(<<>>, rules)
    BY DEF Begun, Shape, TableType, Table
  <2> HIDE DEF t
  <2>4. Passes(p, t)
    BY <2>2, GoesPasses
  <2>5. CASE ~saving
    <3>1. file' = file
      BY <1>4, <2>5 DEF ParseList
    <3>2. ~Writes(t)
      BY <2>1, <2>5 DEF Writes
    <3> QED BY <2>1, <2>3, <2>4, <3>1, <3>2, SaveStill
  <2>6. CASE saving
    <3>1. file' = [exists |-> TRUE, lines |-> <<>>, saved |-> {}] /\ ~Saving
      BY <1>4, <2>6 DEF ParseList
    <3>2. \A q \in Procs : ~Writes(proc[q])
      BY <3>1 DEF Saving, Busy, Writes
    <3>3. file'.lines = <<>> /\ file'.saved = {}
      BY <3>1
    <3>4. GoodFile(file')
      <4>1. <<>> \in Seq(FileLines)
        OBVIOUS
      <4> QED BY <3>3, <4>1 DEF GoodFile
    <3>5. Saves(t, file', rules)
      BY <2>1, <2>3, <3>3 DEF Saves
    <3> QED BY <2>4, <3>2, <3>4, <3>5, SaveWrites
  <2> QED BY <2>5, <2>6
<1> QED BY <1>1, <1>2, <1>3, <1>4 DEF Parse

(* A line of a listing, which a save also writes into the file.            *)
LEMMA SaveWrote ==
  ASSUME Shape, SaveInv, NEW p \in Procs, proc[p].pc = "listing",
         NEW line \in FileLines, NEW last \in BOOLEAN, Wrote(p, line, last),
         UNCHANGED rules,
         Reads(p) =>
           IF last THEN Append(proc[p].out, line) = Shown(rules, policy)
                   ELSE Begun(Append(proc[p].out, line), rules)
  PROVE  SaveInv'
<1>1. proc[p] \in ProcType /\ line \in Lines /\ file \in FileType
      /\ rules \in Seq(Rules \cup {Lost})
  BY DEF Shape, Lines, Table, TableType
<1>2. PICK s \in ProcType :
        /\ s.pc = proc[p].pc /\ s.op = proc[p].op /\ s.loading = proc[p].loading
        /\ s.taken = proc[p].taken /\ s.rest = proc[p].rest
        /\ s.saving = proc[p].saving /\ s.began = proc[p].began
        /\ s.out = Append(proc[p].out, line) /\ s.out # <<>>
        /\ Goes(p, IF last THEN Ended(s, TRUE) ELSE s, proc[p].saving)
        /\ Passes(p, IF last THEN Ended(s, TRUE) ELSE s)
  BY <1>1, WroteOne, Zenon
<1> DEFINE t == IF last THEN Ended(s, TRUE) ELSE s
<1>3. Passes(p, t)
  BY <1>2
<1>4. /\ t.began \subseteq proc[p].began
      /\ Writes(t) => proc[p].saving /\ t.out = Append(proc[p].out, line)
      /\ t.pc = "listing" => ~last /\ t = s
  <2>1. CASE last
    BY <1>2, <2>1, EndedParts
  <2>2. CASE ~last
    BY <1>2, <2>2 DEF Writes
  <2> QED BY <2>1, <2>2
<1>5. t.pc = "listing" /\ Alone(t) /\ Intact(rules) => Begun(t.out, rules)
  BY <1>2, <1>4 DEF Alone, Reads
<1>6. \A b \in t.began : GoodFile(b.file)
  BY <1>4 DEF SaveInv, Saves
<1> HIDE DEF t
<1>7. CASE ~proc[p].saving
  <2>1. file' = file
    BY <1>7 DEF Wrote
  <2> QED BY <1>3, <1>4, <1>5, <1>6, <1>7, <2>1, SaveStill
<1>8. CASE proc[p].saving
  <2>1. Writes(proc[p]) /\ file.lines = proc[p].out
    BY <1>8 DEF Writes, SaveInv, Saves
  <2>2. /\ file'.lines = Append(proc[p].out, line)
        /\ file'.saved = IF last /\ Reads(p) THEN {Table} ELSE {}
    BY <1>1, <1>8, <2>1 DEF Wrote, FileType
  <2>3. \A q \in Procs : q # p => ~Writes(proc[q])
    BY <2>1 DEF SaveInv
  <2>4. GoodFile(file')
    <3>1. Append(proc[p].out, line) \in Seq(FileLines)
      <4>1. file.lines \in Seq(FileLines)
        BY DEF SaveInv, GoodFile
      <4> QED BY <2>1, <4>1, AppendProperties
    <3>2. ASSUME NEW x \in file'.saved
          PROVE  x.rules \in Seq(Rules) /\ Append(proc[p].out, line) = Shown(x.rules, x.policy)
      <4>1. last /\ Reads(p) /\ x = Table
        BY <2>2, <3>2
      <4>2. x.rules = rules /\ x.policy = policy
        BY <4>1 DEF Table
      <4>3. rules \in Seq(Rules)
        BY <1>1, <4>1, IntactIs DEF Reads
      <4> QED BY <4>1, <4>2, <4>3
    <3> QED BY <2>2, <3>1, <3>2 DEF GoodFile
  <2>5. Saves(t, file', rules)
    BY <1>4, <1>5, <1>6, <2>2 DEF Saves
  <2> QED BY <1>3, <2>3, <2>4, <2>5, SaveWrites
<1> QED BY <1>7, <1>8

LEMMA SaveShow ==
  ASSUME Shape, SaveInv, NEW p \in Procs, ShowLine(p)
  PROVE  SaveInv'
<1>1. proc[p].pc = "listing" /\ UNCHANGED rules
  BY DEF ShowLine, listVars
<1>2. CASE ~Reads(p)
  <2>1. PICK line \in FileLines, last \in BOOLEAN : Wrote(p, line, last)
    BY LineShown
  <2> QED BY <1>1, <1>2, <2>1, SaveWrote
<1>3. CASE Reads(p)
  <2>1. Begun(proc[p].out, rules)
    BY <1>1, <1>3 DEF SaveInv, Saves, Reads
  <2>2. PICK line \in FileLines, last \in BOOLEAN :
          /\ Wrote(p, line, last)
          /\ IF last THEN Append(proc[p].out, line) = Shown(rules, policy)
                     ELSE Begun(Append(proc[p].out, line), rules)
    BY <1>3, <2>1, ReadsOn
  <2> QED BY <1>1, <2>2, SaveWrote
<1> QED BY <1>2, <1>3

LEMMA SaveLock ==
  ASSUME Shape, SaveInv, NEW p \in Procs, Lock(p)
  PROVE  SaveInv'
<1>1. proc[p] \in ProcType /\ proc[p].pc = "lock" /\ UNCHANGED <<rules, file>>
  BY DEF Lock, Shape, listVars
<1>2. /\ proc'[p] = [proc[p] EXCEPT !.pc = "inside"]
      /\ \A q \in Procs : q # p =>
           proc'[q] = IF Busy(q) THEN [proc[q] EXCEPT !.began = {}] ELSE NoProcess
  BY DEF Lock
<1>3. ASSUME NEW q \in Procs
      PROVE  /\ proc'[q].began \subseteq proc[q].began
             /\ Writes(proc'[q]) => Writes(proc[q]) /\ proc'[q].out = proc[q].out
             /\ proc'[q].pc = "listing" => ~Alone(proc'[q])
  <2>1. CASE q = p
    BY <1>1, <1>2, <2>1 DEF ProcType, Writes
  <2>2. CASE q # p /\ Busy(q)
    <3>1. proc[q] \in ProcType /\ proc'[q] = [proc[q] EXCEPT !.began = {}]
      BY <1>2, <2>2 DEF Shape
    <3> QED BY <3>1 DEF ProcType, Writes, Alone
  <2>3. CASE q # p /\ ~Busy(q)
    <3>1. proc'[q] = NoProcess
      BY <1>2, <2>3
    <3> QED BY <3>1 DEF NoProcess, Writes, Inside
  <2> QED BY <2>1, <2>2, <2>3
<1>4. ASSUME NEW q \in Procs PROVE Saves(proc'[q], file, rules)
  <2>1. Saves(proc[q], file, rules)
    BY DEF SaveInv
  <2> QED BY <1>3, <2>1 DEF Saves
<1>5. \A q, r \in Procs : Writes(proc'[q]) /\ Writes(proc'[r]) => q = r
  BY <1>3 DEF SaveInv
<1>6. GoodFile(file)
  BY DEF SaveInv
<1> QED BY <1>1, <1>4, <1>5, <1>6 DEF SaveInv

LEMMA SaveOperate ==
  ASSUME Shape, Places, ListingInv, SaveInv, NEW p \in Procs, Operate(p)
  PROVE  SaveInv'
<1>1. proc[p] \in ProcType /\ proc[p].pc \in Inside /\ holder = p /\ file' = file
  BY DEF Operate, Shape, Places, PlaceOK, Inside
<1>2. PICK ok \in BOOLEAN : proc' = [proc EXCEPT ![p] = Ended(proc[p], ok)]
  BY Operates
<1>3. proc'[p] = Ended(proc[p], ok) /\ \A q \in Procs : q # p => proc'[q] = proc[q]
  BY <1>2 DEF Shape
<1>4. ASSUME NEW q \in Procs
      PROVE  /\ proc'[q].began \subseteq proc[q].began
             /\ Writes(proc'[q]) => Writes(proc[q]) /\ proc'[q].out = proc[q].out
             /\ proc'[q].pc = "listing" => ~Alone(proc'[q])
  <2>1. CASE q = p
    <3>1. proc[p].pc # "none" /\ proc[p].pc # "done"
      BY <1>1 DEF Inside
    <3>2. /\ Ended(proc[p], ok).pc \in {"none", "done", "next"}
          /\ Ended(proc[p], ok).began \subseteq proc[p].began
          /\ Writes(Ended(proc[p], ok)) => proc[p].saving /\ Ended(proc[p], ok).out = proc[p].out
      BY <1>1, <3>1, EndedParts
    <3> QED BY <1>1, <1>3, <2>1, <3>2 DEF Writes
  <2>2. CASE q # p
    <3>1. ~Alone(proc[q])
      BY <1>1, <2>2 DEF ListingInv
    <3> QED BY <1>3, <2>2, <3>1
  <2> QED BY <2>1, <2>2
<1>5. ASSUME NEW q \in Procs PROVE Saves(proc'[q], file, rules')
  <2>1. Saves(proc[q], file, rules)
    BY DEF SaveInv
  <2> QED BY <1>4, <2>1 DEF Saves
<1>6. \A q, r \in Procs : Writes(proc'[q]) /\ Writes(proc'[r]) => q = r
  BY <1>4 DEF SaveInv
<1>7. GoodFile(file)
  BY DEF SaveInv
<1> QED BY <1>1, <1>5, <1>6, <1>7 DEF SaveInv

LEMMA SaveStep ==
  CommandsTypeOK /\ ListingInv /\ SaveInv /\ [Next]_vars => SaveInv'
<1> SUFFICES ASSUME Shape, Places, ListingInv, SaveInv, [Next]_vars
             PROVE  SaveInv'
  BY TypeParts
<1>1. ASSUME NEW p \in Procs, NextLine(p)
      PROVE  SaveInv'
  <2>1. proc[p] \in ProcType /\ proc[p].pc = "next" /\ UNCHANGED rules
        /\ \A b \in proc[p].began : GoodFile(b.file)
    BY <1>1 DEF NextLine, Shape, SaveInv, Saves, listVars
  <2>2. CASE Buffered(proc[p]) = <<>>
    <3>1. proc' = [proc EXCEPT ![p] = Exited(proc[p], TRUE)] /\ file' = file
      BY <1>1, <2>2 DEF NextLine
    <3>2. /\ Exited(proc[p], TRUE).pc \in {"none", "done"}
          /\ Exited(proc[p], TRUE).began \subseteq proc[p].began
          /\ ~Writes(Exited(proc[p], TRUE))
      BY <2>1, ExitedParts
    <3>3. Passes(p, Exited(proc[p], TRUE))
      BY <3>1, AlonePasses
    <3> QED BY <2>1, <3>1, <3>2, <3>3, SaveStill
  <2>3. CASE Buffered(proc[p]) # <<>>
    <3> DEFINE l == Head(Buffered(proc[p]))
               s == [proc[p] EXCEPT !.taken = @ + 1, !.rest = Tail(Buffered(proc[p]))]
    <3>1. s \in ProcType /\ s.began = proc[p].began /\ s.saving = proc[p].saving /\ s.out = proc[p].out
      BY <2>3, Taking
    <3>2. Parse(p, l, s)
      BY <1>1, <2>3 DEF NextLine
    <3> HIDE DEF l, s
    <3>3. s.saving => Writes(proc[p]) /\ s.out = proc[p].out
      BY <2>1, <3>1 DEF Writes
    <3> QED BY <2>1, <3>1, <3>2, <3>3, SaveParse
  <2> QED BY <2>2, <2>3
<1>2. ASSUME NEW p \in Procs, NEW l \in Commands, Issue(p, l)
      PROVE  SaveInv'
  <2>1. /\ Fresh \in ProcType /\ ~Fresh.saving /\ \A b \in Fresh.began : b.file = file
    BY FreshType DEF Fresh, NoProcess
  <2>2. \A b \in Fresh.began : GoodFile(b.file)
    BY <2>1 DEF SaveInv
  <2> QED BY <1>2, <2>1, <2>2, SaveParse DEF Issue, listVars
<1>3. ASSUME NEW p \in Procs, ShowLine(p)
      PROVE  SaveInv'
  BY <1>3, SaveShow
<1>4. ASSUME NEW p \in Procs, Lock(p)
      PROVE  SaveInv'
  BY <1>4, SaveLock
<1>5. ASSUME NEW p \in Procs, Operate(p)
      PROVE  SaveInv'
  BY <1>5, SaveOperate
<1>6. ASSUME NEW p \in Procs, Decide(p)
      PROVE  SaveInv'
  <2>1. PICK t : /\ proc' = [proc EXCEPT ![p] = t]
                 /\ t.pc \in {"accept", "reject"} /\ t.saving = proc[p].saving
                 /\ t.out = proc[p].out /\ t.began = proc[p].began
    BY <1>6, Decides
  <2>2. proc[p].pc = "inside" /\ UNCHANGED <<rules, file>>
    BY <1>6 DEF Decide, listVars
  <2>3. /\ \A b \in t.began : GoodFile(b.file)
        /\ Writes(t) => Writes(proc[p]) /\ t.out = proc[p].out
        /\ t.pc # "listing"
    BY <2>1, <2>2 DEF SaveInv, Saves, Writes, Inside
  <2>4. Passes(p, t)
    BY <2>1, AlonePasses
  <2> QED BY <2>2, <2>3, <2>4, SaveStill
<1>7. ASSUME NEW p \in Procs, Kill(p)
      PROVE  SaveInv'
  <2>1. proc' = [proc EXCEPT ![p] = NoProcess] /\ UNCHANGED <<rules, file>>
    BY <1>7 DEF Kill, listVars
  <2>2. NoProcess.began = {} /\ NoProcess.pc = "none" /\ ~Writes(NoProcess)
    BY DEF NoProcess, Writes, Inside
  <2>3. Passes(p, NoProcess)
    BY <2>1, AlonePasses
  <2> QED BY <2>1, <2>2, <2>3, SaveStill
<1>8. ASSUME DaemonReceives \/ DaemonStep \/ UNCHANGED vars
      PROVE  SaveInv'
  <2>1. UNCHANGED <<rules, proc, file>>
    BY <1>8 DEF DaemonReceives, DaemonStep, DaemonLocks, DaemonDecides, listVars, vars
  <2> QED BY <2>1 DEF SaveInv
<1> QED BY <1>1, <1>2, <1>3, <1>4, <1>5, <1>6, <1>7, <1>8 DEF Next, Step

LEMMA SaveInit == Init => SaveInv
<1> SUFFICES ASSUME Init PROVE SaveInv
  OBVIOUS
<1>1. \A p \in Procs : Saves(proc[p], file, rules) /\ ~Writes(proc[p])
  BY DEF Init, NoProcess, Saves, Writes, Inside
<1>2. \A f \in Files : f \in Seq(FileLines)
  <2> SUFFICES ASSUME NEW f \in Files PROVE f \in Seq(FileLines)
    OBVIOUS
  <2>1. f \in Seq(Lines)
    BY LineConstants
  <2>2. f \in [1 .. Len(f) -> Lines] /\ Len(f) \in Nat /\ DOMAIN f = 1 .. Len(f)
    BY <2>1
  <2>3. \A k \in 1 .. Len(f) : f[k] \in FileLines
    BY <2>2 DEF FileLines
  <2>4. f \in [1 .. Len(f) -> FileLines]
    BY <2>2, <2>3
  <2> QED BY <2>2, <2>4, SeqDef
<1>3. file.lines \in Seq(FileLines) /\ file.saved = {}
  <2>1. <<>> \in Seq(FileLines)
    OBVIOUS
  <2>2. PICK e, f : f \in Seq(FileLines) /\ file = [exists |-> e, lines |-> f, saved |-> {}]
    BY <1>2, <2>1, Zenon DEF Init
  <2> QED BY <2>2
<1> QED BY <1>1, <1>3 DEF SaveInv, GoodFile
-----------------------------------------------------------------------------
(* How far a load has come that is alone with the table and the file, if   *)
(* the file has plain lines only and the table was intact: the first n     *)
(* lines were taken and done, and the table is what they made of it.  rs,  *)
(* q and f stand for the table's rules and policy and the file's lines.    *)
Progress(b, n, rs, q) ==
  LET ls == b.file.lines
  IN /\ n \in 0 .. Len(ls)
     /\ rs \in Seq(Rules)
     /\ rs = b.table.rules \o AddedBy(ls, n)
     /\ \A k \in 1 .. n : ~Throws(ls[k])
     /\ (\A k \in 1 .. n : ls[k].cmd # "policy") => q = b.table.policy
     /\ (\E k \in 1 .. n : ls[k].cmd = "policy") =>
          \E k \in 1 .. n : ls[k].cmd = "policy" /\ q = PolicyOf(ls[k])

(* The line that is being done, and where the operation stands.            *)
Doing(op, l, index) ==
  /\ ~Throws(l)
  /\ op.cmd = l.cmd
  /\ l.cmd = "add" => op.rule \in ParsedRules(l) /\ op.index = index
  /\ l.cmd = "policy" => op.policy = PolicyOf(l)

(* Why it stopped.                                                         *)
Stopped(ok, ls, n, rs) ==
  IF n = Len(ls) THEN ok
  ELSE \/ Throws(ls[n + 1]) /\ ~ok
       \/ /\ ls[n + 1].cmd = "add" /\ ~Throws(ls[n + 1])
          /\ \E r \in ParsedRules(ls[n + 1]) : RoomOf(rs) + SizeOf(r) > CAPACITY

PlainLines(b) == \A k \in 1 .. Len(b.file.lines) : Plain(b.file.lines[k])

(* k lines were taken, and the buffer holds the next ones.                 *)
Ahead(taken, rest, ls, k) ==
  taken = k /\ k + Len(rest) <= Len(ls) /\ rest = SubSeq(ls, k + 1, k + Len(rest))

Waiting(s, b, rs, q, index) ==
  \E n \in Nat : /\ Progress(b, n, rs, q) /\ n < Len(b.file.lines)
                 /\ Ahead(s.taken, s.rest, b.file.lines, n + 1)
                 /\ Doing(s.op, b.file.lines[n + 1], index)

LoadOf(s, b, rs, q, f) ==
  /\ s.pc \in {"next", "lock", "done"} \cup Inside
  /\ s.pc # "done" => f = b.file.lines
  /\ s.pc = "next" => \E n \in Nat : /\ Progress(b, n, rs, q)
                                     /\ Ahead(s.taken, s.rest, b.file.lines, n)
  /\ s.pc \in {"lock", "inside"} => Waiting(s, b, rs, q, SIZE_MAX)
  /\ s.pc \in {"accept", "reject"} => Waiting(s, b, rs, q, Len(rs))
  /\ s.pc = "done" => \E n \in Nat : Progress(b, n, rs, q) /\ Stopped(s.ok, b.file.lines, n, rs)

Usual(b) == PlainLines(b) /\ Intact(b.table.rules)

LoadsPlain(s, rs, q, f) ==
  s.loading => \A b \in s.began : Usual(b) => LoadOf(s, b, rs, q, f)

LoadInv == \A p \in Procs : LoadsPlain(proc[p], rules, policy, file.lines)

LEMMA NoProcessLoads == \A rs, q, f : LoadsPlain(NoProcess, rs, q, f)
BY DEF LoadsPlain, NoProcess

LEMMA KeptLoads ==
  ASSUME NEW s, NEW t, Kept(s, t), NEW rs, NEW q, NEW f, LoadsPlain(s, rs, q, f)
  PROVE  LoadsPlain(t, rs, q, f)
<1>1. ASSUME NEW b, LoadOf(s, b, rs, q, f) PROVE LoadOf(t, b, rs, q, f)
  <2>1. /\ t.pc = s.pc /\ t.op = s.op /\ t.taken = s.taken /\ t.rest = s.rest /\ t.ok = s.ok
    BY DEF Kept
  <2>2. \A index : Waiting(s, b, rs, q, index) => Waiting(t, b, rs, q, index)
    BY <2>1 DEF Waiting
  <2> QED BY <1>1, <2>1, <2>2 DEF LoadOf
<1>2. t.loading = s.loading /\ t.began \subseteq s.began
  BY DEF Kept
<1> QED BY <1>1, <1>2 DEF LoadsPlain

(* The shape of what a process began with.                                 *)
LEMMA BeganType ==
  ASSUME Shape, NEW p \in Procs, NEW b \in proc[p].began
  PROVE  /\ b.file.lines \in Seq(Lines) /\ Len(b.file.lines) \in Nat
         /\ b.table.rules \in Seq(Rules \cup {Lost}) /\ b.table.policy \in TablePolicies
         /\ Intact(b.table.rules) <=> b.table.rules \in Seq(Rules)
         /\ b.file.saved \in SUBSET TableType
<1>1. /\ b.file.lines \in Seq(Lines) /\ Len(b.file.lines) \in Nat
      /\ b.table.rules \in Seq(Rules \cup {Lost}) /\ b.table.policy \in TablePolicies
      /\ b.file.saved \in SUBSET TableType
  BY DEF Shape, ProcType, FileType, TableType
<1> QED BY <1>1, IntactIs

(* A step of one process that leaves the table alone.                      *)
LEMMA LoadStill ==
  ASSUME Shape, LoadInv, NEW p \in Procs, NEW t, Passes(p, t),
         UNCHANGED <<rules, policy>>, file' = file \/ Goes(p, t, TRUE),
         LoadsPlain(t, rules, policy, file'.lines)
  PROVE  LoadInv'
<1>1. ASSUME NEW q \in Procs PROVE LoadsPlain(proc'[q], rules, policy, file'.lines)
  <2>0. proc[q] \in ProcType /\ LoadsPlain(proc[q], rules, policy, file.lines)
    BY DEF Shape, LoadInv
  <2>1. CASE q = p
    BY <2>1 DEF Passes
  <2>2. CASE q # p /\ file' = file
    <3>1. Kept(proc[q], proc'[q])
      BY <2>2, OthersKept
    <3>2. LoadsPlain(proc'[q], rules, policy, file.lines)
      BY <2>0, <3>1, KeptLoads
    <3> QED BY <2>2, <3>2
  <2>3. CASE q # p /\ Goes(p, t, TRUE)
    <3>1. proc'[q] = IF Busy(q) /\ proc[q].loading THEN [proc[q] EXCEPT !.began = {}] ELSE proc[q]
      BY <2>3 DEF Goes
    <3>2. CASE Busy(q) /\ proc[q].loading
      <4>1. proc'[q] = [proc[q] EXCEPT !.began = {}]
        BY <3>1, <3>2
      <4>2. proc'[q].began = {}
        BY <2>0, <4>1 DEF ProcType
      <4> QED BY <4>2 DEF LoadsPlain
    <3>3. CASE ~(Busy(q) /\ proc[q].loading)
      <4>1. proc'[q] = proc[q]
        BY <3>1, <3>3
      <4>2. CASE ~proc[q].loading
        BY <4>1, <4>2 DEF LoadsPlain
      <4>3. CASE ~Busy(q)
        <5>1. proc[q].pc \in {"none", "done"}
          BY <2>0, <4>3 DEF Busy, ProcType, Inside
        <5>2. ASSUME NEW b, LoadOf(proc[q], b, rules, policy, file.lines)
              PROVE  LoadOf(proc[q], b, rules, policy, file'.lines)
          BY <5>1, <5>2 DEF LoadOf, Inside
        <5> QED BY <2>0, <4>1, <5>2 DEF LoadsPlain
      <4> QED BY <3>3, <4>2, <4>3
    <3> QED BY <3>2, <3>3
  <2> QED BY <2>1, <2>2, <2>3
<1> QED BY <1>1 DEF LoadInv

(* A command that is entered: a load begins with nothing done.             *)
LEMMA LoadIssue ==
  ASSUME Shape, LoadInv, NEW p \in Procs, NEW l \in Commands, Issue(p, l)
  PROVE  LoadInv'
<1>1. /\ Fresh \in ProcType /\ ~Fresh.loading
      /\ \A b \in Fresh.began : b = [table |-> Table, file |-> file]
  BY FreshType DEF Fresh, NoProcess
<1>2. UNCHANGED <<rules, policy>> /\ Parse(p, l, Fresh)
  BY DEF Issue, listVars
<1> DEFINE s == Fresh
<1> HIDE DEF s
<1>3. s \in ProcType /\ ~s.loading /\ Parse(p, l, s)
      /\ \A b \in s.began : b = [table |-> Table, file |-> file]
  BY <1>1, <1>2 DEF s
<1>4. CASE ParseFails(p, l, s)
  <2>1. PICK ok \in BOOLEAN : proc' = [proc EXCEPT ![p] = Exited(s, ok)] /\ file' = file
    <3>1. (s.loading /\ ~Throws(l)) \in BOOLEAN
      OBVIOUS
    <3> QED BY <1>4, <3>1 DEF ParseFails
  <2>2. ~Exited(s, ok).loading
    BY <1>3, ExitedParts
  <2>3. Passes(p, Exited(s, ok))
    BY <2>1, AlonePasses
  <2> QED BY <1>2, <2>1, <2>2, <2>3, LoadStill DEF LoadsPlain
<1>5. CASE ParseEdit(p, l, s)
  <2>1. PICK op \in Ops(l) : proc' = [proc EXCEPT ![p] = [s EXCEPT !.pc = "lock", !.op = op]]
    BY <1>5 DEF ParseEdit
  <2> DEFINE t == [s EXCEPT !.pc = "lock", !.op = op]
  <2>2. ~t.loading
    BY <1>3 DEF ProcType
  <2>3. proc' = [proc EXCEPT ![p] = t] /\ file' = file
    BY <1>5, <2>1 DEF ParseEdit
  <2> HIDE DEF t
  <2>4. Passes(p, t)
    BY <2>3, AlonePasses
  <2> QED BY <1>2, <2>2, <2>3, <2>4, LoadStill DEF LoadsPlain
<1>6. CASE ParseList(p, l, s)
  <2>1. PICK sv \in BOOLEAN :
          /\ Goes(p, [s EXCEPT !.pc = "listing", !.out = <<>>, !.saving = sv], sv)
          /\ ~sv => file' = file
    <3>1. PICK sv : sv = (l.cmd = "save")
      OBVIOUS
    <3>2. sv \in BOOLEAN /\ (sv <=> l.cmd = "save")
      BY <3>1
    <3>3. Goes(p, [s EXCEPT !.pc = "listing", !.out = <<>>, !.saving = sv], sv)
      BY <1>6, <3>1 DEF ParseList
    <3>4. ~sv => file' = file
      BY <1>6, <3>2 DEF ParseList
    <3> QED BY <3>2, <3>3, <3>4
  <2> DEFINE t == [s EXCEPT !.pc = "listing", !.out = <<>>, !.saving = sv]
  <2>2. ~t.loading
    BY <1>3 DEF ProcType
  <2> HIDE DEF t
  <2>3. Goes(p, t, sv) /\ (~sv => file' = file)
    BY <2>1 DEF t
  <2>4. Passes(p, t)
    BY <2>3, GoesPasses
  <2>5. file' = file \/ Goes(p, t, TRUE)
    <3>1. CASE sv = TRUE
      BY <2>3, <3>1
    <3>2. CASE sv = FALSE
      BY <2>3, <3>2
    <3> QED BY <3>1, <3>2
  <2> QED BY <1>2, <2>2, <2>4, <2>5, LoadStill DEF LoadsPlain
<1>7. CASE ParseLoad(p, l, s)
  <2> DEFINE t == [s EXCEPT !.pc = "next", !.loading = TRUE, !.taken = 0, !.rest = <<>>]
  <2>1. proc' = [proc EXCEPT ![p] = t] /\ file' = file
    BY <1>7 DEF ParseLoad
  <2>2. t.pc = "next" /\ t.rest = <<>> /\ t.taken = 0 /\ t.began = s.began
    BY <1>3 DEF ProcType
  <2> HIDE DEF t
  <2>3. ASSUME NEW b \in t.began, Usual(b) PROVE LoadOf(t, b, rules, policy, file.lines)
    <3>1. b.table.rules = rules /\ b.table.policy = policy /\ b.file.lines = file.lines
      BY <1>3, <2>2 DEF Table
    <3>2. file.lines \in Seq(Lines) /\ Len(file.lines) \in Nat /\ rules \in Seq(Rules \cup {Lost})
      BY DEF Shape, FileType, Table, TableType
    <3>3. rules \in Seq(Rules)
      BY <2>3, <3>1, <3>2, IntactIs DEF Usual
    <3>4. AddedBy(file.lines, 0) = <<>>
      BY <3>2, AddedWalk
    <3>5. rules = rules \o <<>>
      BY <3>2, ConcatEmptySeq
    <3>6. Progress(b, 0, rules, policy)
      BY <3>1, <3>2, <3>3, <3>4, <3>5 DEF Progress
    <3>7. Ahead(t.taken, t.rest, b.file.lines, 0)
      <4>1. Len(<<>>) = 0 /\ SubSeq(file.lines, 1, 0) = <<>>
        BY <3>2, SubSeqEmpty
      <4> QED BY <2>2, <3>1, <3>2, <4>1 DEF Ahead
    <3> QED BY <2>2, <3>1, <3>6, <3>7 DEF LoadOf, Inside
  <2>4. LoadsPlain(t, rules, policy, file'.lines)
    BY <2>1, <2>3 DEF LoadsPlain
  <2>5. Passes(p, t)
    BY <2>1, AlonePasses
  <2> QED BY <1>2, <2>1, <2>4, <2>5, LoadStill
<1> QED BY <1>3, <1>4, <1>5, <1>6, <1>7 DEF Parse

(* The operations of an add or a policy line.                              *)
LEMMA OpsOfPlain ==
  ASSUME NEW l, Plain(l), ~Throws(l), NEW op \in Ops(l)
  PROVE  Doing(op, l, SIZE_MAX)
<1>1. CASE l.cmd = "add"
  <2>1. PICK r \in ParsedRules(l) : op = [cmd |-> "add", rule |-> r, index |-> IndexOf(l)]
    BY <1>1 DEF Ops
  <2>2. IndexOf(l) = SIZE_MAX
    BY <1>1 DEF Plain, IndexOf
  <2> QED BY <1>1, <2>1, <2>2 DEF Doing
<1>2. CASE l.cmd = "policy"
  <2>1. op = [cmd |-> "policy", policy |-> PolicyOf(l)]
    BY <1>2 DEF Ops, PolicyOf
  <2> QED BY <1>2, <2>1 DEF Doing
<1> QED BY <1>1, <1>2 DEF Plain

(* The buffer holds the next lines, as long as the file stays the same:    *)
(* there is one unless all of them were taken.                             *)
LEMMA BufferAhead ==
  ASSUME NEW s \in ProcType, NEW ls \in Seq(Lines), file.lines = ls, NEW n \in 0 .. Len(ls),
         Ahead(s.taken, s.rest, ls, n)
  PROVE  \E m \in n .. Len(ls) : /\ Buffered(s) = SubSeq(ls, n + 1, m)
                                 /\ n < Len(ls) => n < m
<1> DEFINE N == Len(ls)
           end == IF n + BUFFER < N THEN n + BUFFER ELSE N
<1>1. N \in Nat /\ n \in Nat /\ n <= N /\ BUFFER \in Nat \ {0}
  BY CommandConstants
<1>2. s.taken = n /\ s.rest \in Seq(Lines) /\ n + Len(s.rest) <= N
      /\ s.rest = SubSeq(ls, n + 1, n + Len(s.rest))
  BY DEF Ahead, ProcType
<1>3. CASE s.rest = <<>>
  <2>1. Buffered(s) = SubSeq(ls, n + 1, end)
    BY <1>2, <1>3 DEF Buffered
  <2>2. end \in n .. N /\ (n < N => n < end)
    BY <1>1
  <2> QED BY <2>1, <2>2
<1>4. CASE s.rest # <<>>
  <2> DEFINE m == n + Len(s.rest)
  <2>1. Buffered(s) = s.rest
    BY <1>4 DEF Buffered
  <2>2. Len(s.rest) \in Nat /\ Len(s.rest) # 0
    BY <1>2, <1>4, EmptySeq
  <2>3. m \in n .. N /\ (n < N => n < m)
    BY <1>1, <1>2, <2>2
  <2> QED BY <1>2, <2>1, <2>3
<1> QED BY <1>3, <1>4

(* What a load that is alone takes of its file: the next line, if any.     *)
LEMMA LoadTakes ==
  ASSUME Shape, LoadInv, NEW p \in Procs, proc[p].pc = "next", proc[p].loading,
         NEW b \in proc[p].began, Usual(b)
  PROVE  LET ls == b.file.lines
             lines == Buffered(proc[p])
         IN /\ file.lines = ls
            /\ \E n \in Nat : /\ Progress(b, n, rules, policy)
                              /\ lines = <<>> => n = Len(ls)
                              /\ lines # <<>> => /\ n < Len(ls) /\ Head(lines) = ls[n + 1]
                                                 /\ Plain(ls[n + 1])
                                                 /\ Ahead(n + 1, Tail(lines), ls, n + 1)
                              /\ proc[p].taken = n
<1> DEFINE ls == b.file.lines
           s == proc[p]
           lines == Buffered(s)
<1>1. LoadOf(s, b, rules, policy, file.lines)
  BY DEF LoadInv, LoadsPlain
<1>2. file.lines = ls
  BY <1>1 DEF LoadOf
<1>3. PICK n \in Nat : Progress(b, n, rules, policy) /\ Ahead(s.taken, s.rest, ls, n)
  BY <1>1 DEF LoadOf
<1>4. ls \in Seq(Lines) /\ Len(ls) \in Nat /\ n \in 0 .. Len(ls) /\ s \in ProcType
  BY <1>3, BeganType DEF Progress, Shape
<1>5. s.taken = n
  BY <1>3 DEF Ahead
<1> HIDE DEF ls, s
<1>6. PICK m \in n .. Len(ls) : lines = SubSeq(ls, n + 1, m) /\ (n < Len(ls) => n < m)
  BY <1>2, <1>3, <1>4, BufferAhead
<1> HIDE DEF lines
<1>7. CASE n = Len(ls)
  <2>1. m = n
    BY <1>4, <1>6, <1>7
  <2>2. lines = <<>>
    <3>1. SubSeq(ls, n + 1, n) = <<>>
      BY <1>4, SubSeqEmpty
    <3> QED BY <1>6, <2>1, <3>1
  <2> QED BY <1>2, <1>3, <1>5, <1>7, <2>2 DEF ls, s, lines
<1>8. CASE n < Len(ls)
  <2>1. n + 1 \in 1 .. Len(ls) /\ m \in n + 1 .. Len(ls) /\ (n + 1) + 1 = n + 2
    BY <1>4, <1>6, <1>8
  <2>2. Head(lines) = ls[n + 1] /\ Tail(lines) = SubSeq(ls, (n + 1) + 1, m)
    <3>1. /\ Head(SubSeq(ls, n + 1, m)) = ls[n + 1]
          /\ Tail(SubSeq(ls, n + 1, m)) = SubSeq(ls, (n + 1) + 1, m)
      BY <1>4, <2>1, HeadTailOfSubSeq
    <3> QED BY <1>6, <3>1
  <2>3. Len(Tail(lines)) = m - (n + 1)
    <3>1. \A i \in n + 2 .. m : ls[i] \in Lines
      BY <1>4, <2>1
    <3>2. Len(SubSeq(ls, n + 2, m)) = IF n + 2 <= m THEN m - (n + 2) + 1 ELSE 0
      BY <1>4, <2>1, <3>1, SubSeqProperties
    <3> QED BY <1>4, <2>1, <2>2, <3>2
  <2>4. PICK rest, k : rest = Tail(lines) /\ k = Len(rest)
    OBVIOUS
  <2>5. Ahead(n + 1, Tail(lines), ls, n + 1)
    <3>1. k = m - (n + 1) /\ n \in Nat /\ m \in Nat
      BY <1>4, <2>1, <2>3, <2>4
    <3>2. (n + 1) + k = m /\ m <= Len(ls)
      BY <1>4, <2>1, <3>1
    <3>3. rest = SubSeq(ls, (n + 1) + 1, m)
      BY <2>2, <2>4
    <3>4. Ahead(n + 1, rest, ls, n + 1)
      BY <2>4, <3>2, <3>3 DEF Ahead
    <3> QED BY <2>4, <3>4
  <2>6. lines # <<>>
    <3>1. \A i \in n + 1 .. m : ls[i] \in Lines
      BY <1>4, <2>1
    <3>2. Len(SubSeq(ls, n + 1, m)) = m - (n + 1) + 1
      BY <1>4, <2>1, <3>1, SubSeqProperties
    <3>3. Len(<<>>) = 0
      OBVIOUS
    <3> QED BY <1>4, <1>6, <2>1, <3>2, <3>3
  <2>7. Plain(ls[n + 1])
    BY <2>1 DEF Usual, PlainLines, ls
  <2> QED BY <1>2, <1>3, <1>5, <1>8, <2>2, <2>5, <2>6, <2>7 DEF ls, s, lines
<1> QED BY <1>4, <1>7, <1>8

(* The next line, or the end of the file.                                  *)
LEMMA LoadNextLine ==
  ASSUME Shape, Places, LoadInv, NEW p \in Procs, NextLine(p)
  PROVE  LoadInv'
<1>1. /\ proc[p] \in ProcType /\ proc[p].pc = "next" /\ proc[p].loading
      /\ UNCHANGED <<rules, policy>>
  BY DEF NextLine, Shape, Places, PlaceOK, listVars
<1> DEFINE lines == Buffered(proc[p])
<1>2. ASSUME NEW b \in proc[p].began, Usual(b)
      PROVE  /\ file.lines = b.file.lines
             /\ \E n \in Nat : /\ Progress(b, n, rules, policy)
                               /\ lines = <<>> => n = Len(b.file.lines)
                               /\ lines # <<>> => /\ n < Len(b.file.lines)
                                                  /\ Head(lines) = b.file.lines[n + 1]
                                                  /\ Plain(b.file.lines[n + 1])
                                                  /\ Ahead(n + 1, Tail(lines), b.file.lines, n + 1)
                               /\ proc[p].taken = n
  BY <1>1, <1>2, LoadTakes
<1>3. CASE lines = <<>>
  <2> DEFINE t == Exited(proc[p], TRUE)
  <2>1. proc' = [proc EXCEPT ![p] = t] /\ file' = file
    BY <1>3 DEF NextLine
  <2>2. /\ t.loading => t.pc = "done" /\ t.ok
        /\ t.began \subseteq proc[p].began
    BY <1>1, ExitedParts
  <2> HIDE DEF t, lines
  <2>3. ASSUME NEW b \in proc[p].began, Usual(b), t.loading
        PROVE  LoadOf(t, b, rules, policy, file.lines)
    <3>1. PICK n \in Nat : Progress(b, n, rules, policy) /\ n = Len(b.file.lines)
      BY <1>2, <1>3, <2>3
    <3>2. Stopped(t.ok, b.file.lines, n, rules)
      BY <2>2, <2>3, <3>1 DEF Stopped
    <3> QED BY <2>2, <2>3, <3>1, <3>2 DEF LoadOf, Inside
  <2>4. LoadsPlain(t, rules, policy, file'.lines)
    BY <2>1, <2>2, <2>3 DEF LoadsPlain
  <2>5. Passes(p, t)
    BY <2>1, AlonePasses
  <2> QED BY <1>1, <2>1, <2>4, <2>5, LoadStill
<1>4. CASE lines # <<>>
  <2> DEFINE l == Head(lines)
             s == [proc[p] EXCEPT !.taken = @ + 1, !.rest = Tail(lines)]
  <2>1. /\ s \in ProcType /\ s.began = proc[p].began /\ s.loading = proc[p].loading
        /\ s.taken = proc[p].taken + 1 /\ s.rest = Tail(lines)
    BY <1>4, Taking
  <2>2. Parse(p, l, s)
    BY <1>4 DEF NextLine
  <2> HIDE DEF s, l, lines
  <2>3. ASSUME NEW b \in proc[p].began, Usual(b)
        PROVE  /\ file.lines = b.file.lines
               /\ \E n \in Nat : /\ Progress(b, n, rules, policy) /\ n < Len(b.file.lines)
                                 /\ l = b.file.lines[n + 1] /\ Plain(l)
                                 /\ Ahead(s.taken, s.rest, b.file.lines, n + 1)
    BY <1>2, <1>4, <2>1, <2>3 DEF l
  <2>4. CASE ParseFails(p, l, s)
    <3> DEFINE ok == s.loading /\ ~Throws(l)
               t == Exited(s, ok)
    <3>1. proc' = [proc EXCEPT ![p] = t] /\ ok \in BOOLEAN /\ file' = file
      BY <2>4 DEF ParseFails
    <3>2. /\ t.loading => t.pc = "done" /\ (t.ok <=> ok)
          /\ t.began \subseteq proc[p].began
      <4> HIDE DEF ok
      <4> QED BY <2>1, <3>1, ExitedParts
    <3> HIDE DEF t
    <3>3. ASSUME NEW b \in proc[p].began, Usual(b), t.loading
          PROVE  LoadOf(t, b, rules, policy, file.lines)
      <4>1. PICK n \in Nat : /\ Progress(b, n, rules, policy) /\ n < Len(b.file.lines)
                             /\ l = b.file.lines[n + 1] /\ Plain(l)
        BY <2>3, <3>3
      <4>2. Throws(l)
        BY <2>4, <4>1 DEF ParseFails, Plain, Supported
      <4>3. n # Len(b.file.lines)
        BY <4>1, BeganType
      <4>4. Stopped(t.ok, b.file.lines, n, rules)
        BY <3>2, <3>3, <4>1, <4>2, <4>3 DEF Stopped
      <4> QED BY <3>2, <3>3, <4>1, <4>4 DEF LoadOf, Inside
    <3>4. LoadsPlain(t, rules, policy, file'.lines)
      BY <3>1, <3>2, <3>3 DEF LoadsPlain
    <3>5. Passes(p, t)
      BY <3>1, AlonePasses
    <3> QED BY <1>1, <3>1, <3>4, <3>5, LoadStill
  <2>5. CASE ParseEdit(p, l, s)
    <3>1. PICK op \in Ops(l) : proc' = [proc EXCEPT ![p] = [s EXCEPT !.pc = "lock", !.op = op]]
      BY <2>5 DEF ParseEdit
    <3> DEFINE t == [s EXCEPT !.pc = "lock", !.op = op]
    <3>2. /\ t.pc = "lock" /\ t.op = op /\ t.rest = s.rest /\ t.taken = s.taken
          /\ t.began = proc[p].began
      BY <2>1 DEF ProcType
    <3>3. proc' = [proc EXCEPT ![p] = t] /\ file' = file
      BY <2>5, <3>1 DEF ParseEdit
    <3> HIDE DEF t
    <3>4. ASSUME NEW b \in proc[p].began, Usual(b) PROVE LoadOf(t, b, rules, policy, file.lines)
      <4>1. PICK n \in Nat : /\ Progress(b, n, rules, policy) /\ n < Len(b.file.lines)
                             /\ l = b.file.lines[n + 1] /\ Plain(l)
                             /\ Ahead(s.taken, s.rest, b.file.lines, n + 1)
        BY <2>3, <3>4
      <4>2. Doing(op, l, SIZE_MAX)
        BY <2>5, <3>1, <4>1, OpsOfPlain DEF ParseEdit
      <4>3. Waiting(t, b, rules, policy, SIZE_MAX)
        BY <3>2, <4>1, <4>2 DEF Waiting
      <4>4. file.lines = b.file.lines
        BY <2>3, <3>4
      <4> QED BY <3>2, <4>3, <4>4 DEF LoadOf, Inside
    <3>5. LoadsPlain(t, rules, policy, file'.lines)
      BY <3>2, <3>3, <3>4 DEF LoadsPlain
    <3>6. Passes(p, t)
      BY <3>3, AlonePasses
    <3> QED BY <1>1, <3>3, <3>5, <3>6, LoadStill
  <2>6. ASSUME ParseList(p, l, s) \/ ParseLoad(p, l, s)
        PROVE  \A b \in proc[p].began : ~Usual(b)
    <3> SUFFICES ASSUME NEW b \in proc[p].began, Usual(b) PROVE FALSE
      OBVIOUS
    <3>1. Plain(l)
      BY <2>3
    <3> QED BY <2>6, <3>1 DEF ParseList, ParseLoad, Plain
  <2>7. CASE ParseLoad(p, l, s)
    <3> DEFINE t == [s EXCEPT !.pc = "next", !.loading = TRUE, !.taken = 0, !.rest = <<>>]
    <3>1. proc' = [proc EXCEPT ![p] = t] /\ file' = file
      BY <2>7 DEF ParseLoad
    <3>2. t.began = proc[p].began
      BY <2>1 DEF ProcType
    <3> HIDE DEF t
    <3>3. LoadsPlain(t, rules, policy, file'.lines)
      BY <2>6, <2>7, <3>2 DEF LoadsPlain
    <3>4. Passes(p, t)
      BY <3>1, AlonePasses
    <3> QED BY <1>1, <3>1, <3>3, <3>4, LoadStill
  <2>8. CASE ParseList(p, l, s)
    <3>1. PICK sv : sv = (l.cmd = "save")
      OBVIOUS
    <3>2. sv \in BOOLEAN /\ (sv <=> l.cmd = "save")
      BY <3>1
    <3> DEFINE t == [s EXCEPT !.pc = "listing", !.out = <<>>, !.saving = sv]
    <3>3. Goes(p, t, sv)
      BY <2>8, <3>1 DEF ParseList
    <3>4. ~sv => file' = file
      BY <2>8, <3>2 DEF ParseList
    <3>5. t.began = proc[p].began
      BY <2>1 DEF ProcType
    <3> HIDE DEF t
    <3>6. file' = file \/ Goes(p, t, TRUE)
      <4>1. CASE sv = TRUE
        BY <3>3, <4>1
      <4>2. CASE sv = FALSE
        BY <3>4, <4>2
      <4> QED BY <3>2, <4>1, <4>2
    <3>7. LoadsPlain(t, rules, policy, file'.lines)
      BY <2>6, <2>8, <3>5 DEF LoadsPlain
    <3>8. Passes(p, t)
      BY <3>3, GoesPasses
    <3> QED BY <1>1, <3>6, <3>7, <3>8, LoadStill
  <2> QED BY <2>2, <2>4, <2>5, <2>7, <2>8 DEF Parse
<1> QED BY <1>3, <1>4
-----------------------------------------------------------------------------
(* A listing is no line of a plain file.                                   *)
LEMMA LoadShow ==
  ASSUME Shape, LoadInv, NEW p \in Procs, ShowLine(p)
  PROVE  LoadInv'
<1>1. /\ proc[p] \in ProcType /\ proc[p].pc = "listing" /\ UNCHANGED <<rules, policy>>
      /\ proc[p].saving \in BOOLEAN
  BY DEF ShowLine, Shape, listVars, ProcType
<1>2. PICK line \in Lines, last \in BOOLEAN : Wrote(p, line, last)
  BY LineShown DEF Lines
<1>3. PICK s \in ProcType :
        /\ s.pc = proc[p].pc /\ s.op = proc[p].op /\ s.loading = proc[p].loading
        /\ s.taken = proc[p].taken /\ s.rest = proc[p].rest
        /\ s.saving = proc[p].saving /\ s.began = proc[p].began
        /\ s.out = Append(proc[p].out, line) /\ s.out # <<>>
        /\ Goes(p, IF last THEN Ended(s, TRUE) ELSE s, proc[p].saving)
        /\ Passes(p, IF last THEN Ended(s, TRUE) ELSE s)
  BY <1>2, WroteOne, Zenon
<1> DEFINE t == IF last THEN Ended(s, TRUE) ELSE s
<1>4. t.began \subseteq proc[p].began /\ (t.loading => proc[p].loading)
  <2>1. CASE last /\ s.loading
    <3>1. t = [s EXCEPT !.pc = "next", !.op = NoOp]
      BY <2>1 DEF Ended
    <3> QED BY <1>3, <2>1, <3>1 DEF ProcType
  <2>2. CASE last /\ ~s.loading
    <3>1. t = Exited(s, TRUE)
      BY <2>2 DEF Ended
    <3>2. Exited(s, TRUE).began \subseteq s.began /\ (Exited(s, TRUE).loading => s.loading)
      BY <1>3, ExitedParts
    <3> QED BY <1>3, <3>1, <3>2
  <2>3. CASE ~last
    BY <1>3, <2>3
  <2> QED BY <2>1, <2>2, <2>3
<1>5. Passes(p, t) /\ Goes(p, t, proc[p].saving)
  BY <1>3
<1> HIDE DEF t
<1>6. LoadsPlain(t, rules, policy, file'.lines)
  <2>1. proc[p].loading => \A b \in proc[p].began : ~Usual(b)
    BY <1>1 DEF LoadInv, LoadsPlain, LoadOf, Inside
  <2> QED BY <1>4, <2>1 DEF LoadsPlain
<1>7. file' = file \/ Goes(p, t, TRUE)
  <2>1. CASE proc[p].saving = TRUE
    BY <1>5, <2>1
  <2>2. CASE proc[p].saving = FALSE
    BY <1>2, <2>2 DEF Wrote
  <2> QED BY <1>1, <2>1, <2>2
<1> QED BY <1>1, <1>5, <1>6, <1>7, LoadStill

(* The lock: nobody else is alone with the table any more.                 *)
LEMMA LoadLock ==
  ASSUME Shape, LoadInv, NEW p \in Procs, Lock(p)
  PROVE  LoadInv'
<1>1. proc[p] \in ProcType /\ proc[p].pc = "lock" /\ UNCHANGED <<rules, policy, file>>
  BY DEF Lock, Shape, listVars
<1>2. /\ proc'[p] = [proc[p] EXCEPT !.pc = "inside"]
      /\ \A q \in Procs : q # p =>
           proc'[q] = IF Busy(q) THEN [proc[q] EXCEPT !.began = {}] ELSE NoProcess
  BY DEF Lock
<1>3. PICK t : t = [proc[p] EXCEPT !.pc = "inside"]
  OBVIOUS
<1>4. /\ t.pc = "inside" /\ t.op = proc[p].op /\ t.taken = proc[p].taken
      /\ t.rest = proc[p].rest /\ t.began = proc[p].began
      /\ t.loading = proc[p].loading /\ proc'[p] = t
  BY <1>1, <1>2, <1>3 DEF ProcType
<1>5. ASSUME NEW b, LoadOf(proc[p], b, rules, policy, file.lines)
      PROVE  LoadOf(t, b, rules, policy, file.lines)
  <2>1. Waiting(proc[p], b, rules, policy, SIZE_MAX) => Waiting(t, b, rules, policy, SIZE_MAX)
    BY <1>4 DEF Waiting
  <2> QED BY <1>1, <1>4, <1>5, <2>1 DEF LoadOf, Inside
<1>6. LoadsPlain(proc'[p], rules, policy, file.lines)
  BY <1>4, <1>5 DEF LoadsPlain, LoadInv
<1>7. ASSUME NEW q \in Procs, q # p PROVE LoadsPlain(proc'[q], rules, policy, file.lines)
  <2>1. CASE Busy(q)
    <3>1. proc[q] \in ProcType /\ proc'[q] = [proc[q] EXCEPT !.began = {}]
      BY <1>2, <1>7, <2>1 DEF Shape
    <3>2. proc'[q].began = {}
      BY <3>1 DEF ProcType
    <3> QED BY <3>2 DEF LoadsPlain
  <2>2. CASE ~Busy(q)
    <3>1. proc'[q] = NoProcess
      BY <1>2, <1>7, <2>2
    <3> QED BY <3>1, NoProcessLoads
  <2> QED BY <2>1, <2>2
<1> QED BY <1>1, <1>6, <1>7 DEF LoadInv

(* The decision: the line's rule goes to the end of the list.              *)
LEMMA LoadDecide ==
  ASSUME Shape, Places, LoadInv, NEW p \in Procs, Decide(p)
  PROVE  LoadInv'
<1>1. /\ proc[p].pc = "inside" /\ UNCHANGED <<rules, policy, file>>
      /\ proc[p].op \in Operations({SIZE_MAX})
  BY DEF Decide, listVars, Places, PlaceOK
<1>2. PICK t : /\ proc' = [proc EXCEPT ![p] = t] /\ t \in ProcType
               /\ t.pc \in {"accept", "reject"} /\ t.op = AtIndex(proc[p].op)
               /\ t.loading = proc[p].loading /\ t.taken = proc[p].taken /\ t.rest = proc[p].rest
               /\ t.began = proc[p].began
  BY Decides
<1> DEFINE op == proc[p].op
<1> HIDE DEF op
<1>3. ASSUME NEW b \in proc[p].began, Usual(b), proc[p].loading
      PROVE  LoadOf(t, b, rules, policy, file.lines)
  <2>0. LoadOf(proc[p], b, rules, policy, file.lines)
    BY <1>3 DEF LoadInv, LoadsPlain
  <2>1. Waiting(proc[p], b, rules, policy, SIZE_MAX) /\ file.lines = b.file.lines
    BY <1>1, <2>0 DEF LoadOf
  <2>2. PICK n \in Nat : /\ Progress(b, n, rules, policy) /\ n < Len(b.file.lines)
                         /\ Ahead(proc[p].taken, proc[p].rest, b.file.lines, n + 1)
                         /\ Doing(op, b.file.lines[n + 1], SIZE_MAX)
    BY <2>1 DEF Waiting, op
  <2>3. Doing(AtIndex(op), b.file.lines[n + 1], Len(rules))
    <3>1. CASE op.cmd = "add"
      <4>1. op \in [cmd : {"add"}, rule : Rules, index : Indexes \cup {SIZE_MAX}]
        BY <1>1, <3>1 DEF Operations, op
      <4>2. op.index = SIZE_MAX
        BY <2>2, <3>1 DEF Doing
      <4>3. AtIndex(op) = [op EXCEPT !.index = Len(rules)]
        BY <3>1, <4>2 DEF AtIndex
      <4>4. AtIndex(op).cmd = op.cmd /\ AtIndex(op).rule = op.rule /\ AtIndex(op).index = Len(rules)
        BY <4>1, <4>3
      <4> QED BY <2>2, <3>1, <4>4 DEF Doing
    <3>2. CASE op.cmd # "add"
      <4>1. AtIndex(op) = op
        BY <3>2 DEF AtIndex
      <4> QED BY <2>2, <3>2, <4>1 DEF Doing
    <3> QED BY <3>1, <3>2
  <2>4. Waiting(t, b, rules, policy, Len(rules))
    BY <1>2, <2>2, <2>3 DEF Waiting, op
  <2> QED BY <1>2, <2>1, <2>4 DEF LoadOf, Inside
<1>4. LoadsPlain(t, rules, policy, file'.lines)
  BY <1>1, <1>2, <1>3 DEF LoadsPlain
<1>5. Passes(p, t)
  BY <1>2, AlonePasses
<1> QED BY <1>1, <1>4, <1>5, LoadStill

(* An append puts its rule behind the others.                              *)
LEMMA InsertAtEnd ==
  ASSUME NEW list \in Seq(Rules), NEW r \in Rules
  PROVE  InsertAt(list, Len(list) + 1, r) = Append(list, r)
<1> DEFINE n == Len(list)
<1>0. n \in Nat /\ (n + 1) - 1 = n
  OBVIOUS
<1>1. SubSeq(list, 1, n) = list
  BY SubSeqFull
<1>2. SubSeq(list, n + 1, n) = <<>>
  BY <1>0, SubSeqEmpty
<1>3. InsertAt(list, n + 1, r) = (list \o <<r>>) \o <<>>
  BY <1>0, <1>1, <1>2 DEF InsertAt
<1>4. Append(list, r) = list \o <<r>> /\ Append(list, r) \in Seq(Rules)
  BY AppendIsConcat, AppendProperties
<1>5. Append(list, r) \o <<>> = Append(list, r)
  BY <1>4, ConcatEmptySeq
<1> QED BY <1>3, <1>4, <1>5

LEMMA AddedOneMore ==
  ASSUME NEW ls \in Seq(Lines), NEW n \in Nat, n < Len(ls), ls[n + 1].cmd = "add",
         NEW list \in Seq(Rules)
  PROVE  Append(list \o AddedBy(ls, n), RuleOf(ls[n + 1])) = list \o AddedBy(ls, n + 1)
<1> DEFINE A == {RuleOf(ls[k]) : k \in 1 .. Len(ls)} \cup Rules
<1>1. n + 1 \in 1 .. Len(ls) /\ (n + 1) - 1 = n /\ n \in 0 .. Len(ls)
  OBVIOUS
<1>2. AddedBy(ls, n + 1) = Append(AddedBy(ls, n), RuleOf(ls[n + 1]))
  BY <1>1, AddedWalk
<1>3. AddedBy(ls, n) \in Seq(A)
  <2>1. {RuleOf(ls[k]) : k \in 1 .. Len(ls)} \subseteq A
    OBVIOUS
  <2> HIDE DEF A
  <2> QED BY <1>1, <2>1, AddedType
<1>4. list \in Seq(A) /\ RuleOf(ls[n + 1]) \in A
  BY <1>1, SeqMonotonic
<1>5. PICK r, y, z : r = RuleOf(ls[n + 1]) /\ y = AddedBy(ls, n) /\ z = <<r>>
  OBVIOUS
<1> HIDE DEF A
<1>6. r \in A /\ y \in Seq(A) /\ z \in Seq(A)
  BY <1>3, <1>4, <1>5
<1>7. list \o y \in Seq(A)
  BY <1>4, <1>6, ConcatProperties
<1>8. Append(list \o y, r) = (list \o y) \o z /\ Append(y, r) = y \o z
  BY <1>5, <1>6, <1>7, AppendIsConcat
<1>9. (list \o y) \o z = list \o (y \o z)
  BY <1>4, <1>6, ConcatAssociative
<1> QED BY <1>2, <1>5, <1>8, <1>9

(* One line more is done: what the line says has happened to the table.    *)
LEMMA ProgressAdd ==
  ASSUME Shape, NEW p \in Procs, NEW b \in proc[p].began, Usual(b), NEW n \in Nat,
         NEW rs, NEW q, Progress(b, n, rs, q), n < Len(b.file.lines),
         ~Throws(b.file.lines[n + 1]), b.file.lines[n + 1].cmd = "add",
         NEW r \in Rules, r = RuleOf(b.file.lines[n + 1])
  PROVE  Progress(b, n + 1, Append(rs, r), q)
<1> DEFINE ls == b.file.lines
<1>1. ls \in Seq(Lines) /\ Len(ls) \in Nat /\ b.table.rules \in Seq(Rules)
  BY BeganType DEF Usual
<1>2. n + 1 \in 1 .. Len(ls) /\ n + 1 \in 0 .. Len(ls)
  BY <1>1
<1>3. Append(b.table.rules \o AddedBy(ls, n), r) = b.table.rules \o AddedBy(ls, n + 1)
  BY <1>1, AddedOneMore
<1>4. Append(rs, r) = b.table.rules \o AddedBy(ls, n + 1)
  BY <1>3 DEF Progress
<1>5. Append(rs, r) \in Seq(Rules)
  <2>1. rs \in Seq(Rules)
    BY DEF Progress
  <2> QED BY <2>1, AppendProperties
<1>6. \A k \in 1 .. n + 1 : k \in 1 .. n \/ k = n + 1
  OBVIOUS
<1>7. \A k \in 1 .. n : k \in 1 .. n + 1
  OBVIOUS
<1> QED BY <1>2, <1>4, <1>5, <1>6, <1>7 DEF Progress

LEMMA ProgressPolicy ==
  ASSUME Shape, NEW p \in Procs, NEW b \in proc[p].began, NEW n \in Nat,
         NEW rs, NEW q, Progress(b, n, rs, q), n < Len(b.file.lines),
         ~Throws(b.file.lines[n + 1]), b.file.lines[n + 1].cmd = "policy"
  PROVE  Progress(b, n + 1, rs, PolicyOf(b.file.lines[n + 1]))
<1> DEFINE ls == b.file.lines
<1>1. ls \in Seq(Lines) /\ Len(ls) \in Nat
  BY BeganType
<1>2. n + 1 \in 1 .. Len(ls) /\ (n + 1) - 1 = n /\ n + 1 \in 0 .. Len(ls)
  BY <1>1
<1>3. AddedBy(ls, n + 1) = AddedBy(ls, n)
  BY <1>1, <1>2, AddedWalk
<1>4. \A k \in 1 .. n + 1 : k \in 1 .. n \/ k = n + 1
  OBVIOUS
<1>5. n + 1 \in 1 .. n + 1
  OBVIOUS
<1> QED BY <1>2, <1>3, <1>4, <1>5 DEF Progress
-----------------------------------------------------------------------------
(* The operation of a line: it is done, or there is no room for its rule   *)
(* and the load stops.                                                     *)
LEMMA LineDone ==
  ASSUME Shape, Places, NEW p \in Procs, NEW b \in proc[p].began, Usual(b), NEW n \in Nat,
         Progress(b, n, rules, policy), n < Len(b.file.lines),
         Doing(proc[p].op, b.file.lines[n + 1], Len(rules)), NEW ok \in BOOLEAN,
         Apply(proc[p].op, ok), proc[p].op \in Operations({Len(rules)}),
         ~ok => MayReject(rules, proc[p].op)
  PROVE  /\ ok => Progress(b, n + 1, rules', policy')
         /\ ~ok => /\ Progress(b, n, rules', policy')
                   /\ Stopped(TRUE, b.file.lines, n, rules')
<1> DEFINE ls == b.file.lines
           l == ls[n + 1]
           op == proc[p].op
<1>1. ls \in Seq(Lines) /\ Len(ls) \in Nat /\ n # Len(ls) /\ n + 1 \in 1 .. Len(ls)
  BY BeganType
<1>2. Plain(l) /\ ~Throws(l) /\ op.cmd = l.cmd
  BY <1>1 DEF Usual, PlainLines, Doing
<1>3. rules \in Seq(Rules) /\ Len(rules) \in Nat /\ rules \in Seq(Rules \cup {Lost}) /\ Intact(rules)
  <2>1. rules \in Seq(Rules \cup {Lost}) /\ rules \in Seq(Rules)
    BY DEF Progress, Shape, Table, TableType
  <2> QED BY <2>1, IntactIs
<1> HIDE DEF op
<1>4. CASE l.cmd = "add"
  <2>1. op.rule \in ParsedRules(l) /\ op.index = Len(rules) /\ op.rule = RuleOf(l)
    BY <1>2, <1>4 DEF Doing, Plain, op
  <2>2. op \in [cmd : {"add"}, rule : Rules, index : Indexes \cup {Len(rules)}]
    BY <1>2, <1>4 DEF Operations, op
  <2>3. PICK r \in Rules : r = op.rule
    BY <2>2
  <2>4. AddAs(r, Len(rules), ok)
    BY <1>2, <1>4, <2>1, <2>3 DEF Apply, op
  <2>5. CASE ok
    <3>1. rules' \in Inserted(r, Len(rules)) /\ policy' = policy
      BY <2>4, <2>5 DEF AddAs
    <3>2. rules' = InsertAt(rules, Len(rules) + 1, r)
      <4>1. ~(Len(rules) < Len(rules))
        BY <1>3
      <4> QED BY <1>3, <3>1, <4>1 DEF Inserted
    <3>3. rules' = Append(rules, r)
      BY <1>3, <3>2, InsertAtEnd
    <3>4. Progress(b, n + 1, Append(rules, r), policy)
      BY <1>2, <1>3, <1>4, <2>1, <2>3, ProgressAdd
    <3> QED BY <2>5, <3>1, <3>3, <3>4
  <2>6. CASE ~ok
    <3>1. rules' = rules /\ policy' = policy
      BY <2>4, <2>6 DEF AddAs
    <3>2. ~(RoomOf(rules) + SizeOf(r) <= CAPACITY)
      BY <1>2, <1>3, <1>4, <2>1, <2>3, <2>6 DEF MayReject, op
    <3>3. RoomOf(rules) \in Nat /\ SizeOf(r) \in Nat /\ CAPACITY \in Nat
      BY <1>3, RoomAppend, CommandConstants
    <3>4. RoomOf(rules) + SizeOf(r) > CAPACITY
      BY <3>2, <3>3
    <3>5. Stopped(TRUE, ls, n, rules)
      BY <1>1, <1>2, <1>4, <2>1, <2>3, <3>4 DEF Stopped
    <3> QED BY <2>6, <3>1, <3>5
  <2> QED BY <2>5, <2>6
<1>5. CASE l.cmd = "policy"
  <2>1. ok
    BY <1>2, <1>5 DEF MayReject, op
  <2>2. op.policy = PolicyOf(l) /\ SetPolicyTo(op.policy)
    BY <1>2, <1>5 DEF Doing, Apply, op
  <2>3. rules' = rules /\ policy' = PolicyOf(l)
    BY <2>2 DEF SetPolicyTo
  <2>4. Progress(b, n + 1, rules, PolicyOf(l))
    BY <1>2, <1>5, ProgressPolicy
  <2> QED BY <2>1, <2>3, <2>4
<1> QED BY <1>2, <1>4, <1>5 DEF Plain

LEMMA LoadOperate ==
  ASSUME Shape, Places, ListingInv, LoadInv, NEW p \in Procs, Operate(p)
  PROVE  LoadInv'
<1>1. /\ proc[p] \in ProcType /\ proc[p].pc \in {"accept", "reject"} /\ holder = p /\ file' = file
  BY DEF Operate, Shape, Places, PlaceOK, Inside
<1>2. PICK ok \in BOOLEAN : /\ Apply(proc[p].op, ok) /\ proc[p].op \in Operations({Len(rules)})
                            /\ ~ok => MayReject(rules, proc[p].op)
                            /\ proc' = [proc EXCEPT ![p] = Ended(proc[p], ok)]
  BY Operates
<1> DEFINE s == proc[p]
           t == Ended(s, ok)
<1>3. proc'[p] = t /\ \A q \in Procs : q # p => proc'[q] = proc[q]
  BY <1>2 DEF Shape
<1>4. /\ t.loading => s.loading
      /\ t.began \subseteq s.began
      /\ ok /\ s.loading => t.pc = "next" /\ t.taken = s.taken /\ t.rest = s.rest
      /\ ~ok /\ t.loading => t.pc = "done" /\ t.ok = TRUE
  <2>1. CASE s.loading /\ ok
    <3>1. t = [s EXCEPT !.pc = "next", !.op = NoOp]
      BY <2>1 DEF Ended
    <3>2. t.pc = "next" /\ t.taken = s.taken /\ t.rest = s.rest /\ t.began = s.began
      BY <1>1, <3>1 DEF ProcType
    <3> QED BY <2>1, <3>2
  <2>2. CASE s.loading /\ ~ok
    <3>1. t = Exited(s, TRUE)
      BY <2>2 DEF Ended
    <3>2. /\ Exited(s, TRUE).began \subseteq s.began
          /\ Exited(s, TRUE).loading => Exited(s, TRUE).pc = "done"
          /\ Exited(s, TRUE).pc = "done" => Exited(s, TRUE).ok = TRUE
      BY <1>1, ExitedParts
    <3> QED BY <2>2, <3>1, <3>2
  <2>3. CASE ~s.loading
    <3>1. t = Exited(s, ok)
      <4>1. t = Exited(s, s.loading \/ ok) /\ s.loading = FALSE
        BY <1>1, <2>3 DEF Ended, ProcType
      <4> QED BY <4>1
    <3>2. Exited(s, ok).began \subseteq s.began /\ (Exited(s, ok).loading => s.loading)
      BY <1>1, ExitedParts
    <3> QED BY <2>3, <3>1, <3>2
  <2> QED BY <2>1, <2>2, <2>3
<1> HIDE DEF t
<1>5. ASSUME NEW b \in s.began, Usual(b), s.loading, t.loading
      PROVE  LoadOf(t, b, rules', policy', file.lines)
  <2> DEFINE ls == b.file.lines
  <2>1. LoadOf(s, b, rules, policy, file.lines)
    BY <1>5 DEF LoadInv, LoadsPlain
  <2>2. Waiting(s, b, rules, policy, Len(rules)) /\ file.lines = ls
    BY <1>1, <2>1 DEF LoadOf
  <2>3. PICK n \in Nat : /\ Progress(b, n, rules, policy) /\ n < Len(ls)
                         /\ Ahead(s.taken, s.rest, ls, n + 1)
                         /\ Doing(s.op, ls[n + 1], Len(rules))
    BY <2>2 DEF Waiting
  <2>4. /\ ok => Progress(b, n + 1, rules', policy')
        /\ ~ok => Progress(b, n, rules', policy') /\ Stopped(TRUE, ls, n, rules')
    BY <1>2, <1>5, <2>3, LineDone
  <2>5. CASE ok
    <3>1. t.pc = "next" /\ Ahead(t.taken, t.rest, ls, n + 1) /\ n + 1 \in Nat
      BY <1>4, <1>5, <2>3, <2>5
    <3> QED BY <2>2, <2>4, <2>5, <3>1 DEF LoadOf, Inside
  <2>6. CASE ~ok
    <3>1. t.pc = "done" /\ t.ok = TRUE
      BY <1>4, <1>5, <2>6
    <3> QED BY <2>4, <2>6, <3>1 DEF LoadOf, Inside
  <2> QED BY <2>5, <2>6
<1>6. LoadsPlain(t, rules', policy', file.lines)
  BY <1>4, <1>5 DEF LoadsPlain
<1>7. ASSUME NEW q \in Procs, q # p PROVE LoadsPlain(proc'[q], rules', policy', file.lines)
  <2>1. ~Alone(proc[q]) /\ proc'[q] = proc[q]
    BY <1>1, <1>3, <1>7 DEF ListingInv
  <2> QED BY <2>1 DEF LoadsPlain, Alone
<1> QED BY <1>1, <1>3, <1>6, <1>7 DEF LoadInv

LEMMA LoadStep ==
  CommandsTypeOK /\ ListingInv /\ LoadInv /\ [Next]_vars => LoadInv'
<1> SUFFICES ASSUME Shape, Places, ListingInv, LoadInv, [Next]_vars
             PROVE  LoadInv'
  BY TypeParts
<1>1. ASSUME NEW p \in Procs, NextLine(p) \/ Lock(p) \/ Decide(p) \/ Operate(p) \/ ShowLine(p)
      PROVE  LoadInv'
  BY <1>1, LoadNextLine, LoadLock, LoadDecide, LoadOperate, LoadShow
<1>2. ASSUME NEW p \in Procs, NEW l \in Commands, Issue(p, l)
      PROVE  LoadInv'
  BY <1>2, LoadIssue
<1>3. ASSUME NEW p \in Procs, Kill(p)
      PROVE  LoadInv'
  <2>1. proc' = [proc EXCEPT ![p] = NoProcess] /\ UNCHANGED <<rules, policy, file>>
    BY <1>3 DEF Kill, listVars
  <2>2. Passes(p, NoProcess)
    BY <2>1, AlonePasses
  <2>3. LoadsPlain(NoProcess, rules, policy, file'.lines)
    BY NoProcessLoads
  <2> QED BY <2>1, <2>2, <2>3, LoadStill
<1>4. ASSUME DaemonReceives \/ DaemonStep \/ UNCHANGED vars
      PROVE  LoadInv'
  <2>1. UNCHANGED <<rules, policy, proc, file>>
    BY <1>4 DEF DaemonReceives, DaemonStep, DaemonLocks, DaemonDecides, listVars, vars
  <2> QED BY <2>1 DEF LoadInv
<1> QED BY <1>1, <1>2, <1>3, <1>4 DEF Next, Step

LEMMA LoadInvHolds == Spec => [](CommandsTypeOK /\ SaveInv /\ LoadInv)
<1>1. Init => LoadInv
  <2> SUFFICES ASSUME Init PROVE LoadInv
    OBVIOUS
  <2>1. \A p \in Procs : proc[p] = NoProcess
    BY DEF Init
  <2> QED BY <2>1, NoProcessLoads DEF LoadInv
<1> QED BY <1>1, SaveInit, SaveStep, LoadStep, ListingInvHolds, CommandsTypeCorrect, PTL DEF Spec

(* A load that no edit and no save overlapped took the first lines of its  *)
(* file, all of them or up to the first one that is rejected or finds no   *)
(* room: for files of any length and any number of other processes.        *)
THEOREM LoadStopsAtFailureHolds ==
  ASSUME PlainFiles
  PROVE  Spec => []LoadStopsAtFailure
<1>1. CommandsTypeOK /\ SaveInv /\ LoadInv => LoadStopsAtFailure
  <2> SUFFICES ASSUME Shape, SaveInv, LoadInv, NEW p \in Procs, Loaded(p),
                      NEW b \in proc[p].began, Intact(b.table.rules)
               PROVE  \E n \in 0 .. Len(b.file.lines) :
                        /\ rules = b.table.rules \o AddedBy(b.file.lines, n)
                        /\ n < Len(b.file.lines) =>
                             LET l == b.file.lines[n + 1]
                             IN Throws(l) \/ \E r \in ParsedRules(l) : Used + SizeOf(r) > CAPACITY
    BY TypeParts DEF LoadStopsAtFailure
  <2>1. b.file.lines \in Seq(FileLines)
    BY DEF SaveInv, Saves, GoodFile
  <2>2. Usual(b)
    BY <2>1 DEF PlainFiles, PlainLines, Usual
  <2>3. PICK n \in Nat : /\ Progress(b, n, rules, policy)
                         /\ Stopped(proc[p].ok, b.file.lines, n, rules)
    BY <2>2 DEF Loaded, LoadInv, LoadsPlain, LoadOf
  <2>4. n \in 0 .. Len(b.file.lines) /\ rules = b.table.rules \o AddedBy(b.file.lines, n)
    BY <2>3 DEF Progress
  <2>5. ASSUME n < Len(b.file.lines)
        PROVE  LET l == b.file.lines[n + 1]
               IN Throws(l) \/ \E r \in ParsedRules(l) : Used + SizeOf(r) > CAPACITY
    <3>1. n # Len(b.file.lines)
      BY <2>5, BeganType
    <3> QED BY <2>3, <3>1 DEF Stopped, Used
  <2> QED BY <2>4, <2>5
<1> QED BY <1>1, LoadInvHolds, PTL

(* The lines of a saved table are plain: its rules, one after the other,   *)
(* and its policy.                                                         *)
LEMMA ShownLines ==
  ASSUME ParsedTables, NEW rs \in Seq(Rules), NEW q \in TablePolicies
  PROVE  LET ls == Shown(rs, q)
         IN /\ Len(ls) = Len(rs) + 1 /\ ls \in Seq(Lines)
            /\ \A k \in 1 .. Len(rs) : ls[k] = ShowRule(rs[k])
            /\ ls[Len(rs) + 1] = ShowPolicy(q)
            /\ \A k \in 1 .. Len(ls) : Plain(ls[k])
            /\ \A k \in 0 .. Len(rs) : AddedBy(ls, k) = SubSeq(rs, 1, k)
            /\ AddedBy(ls, Len(rs) + 1) = rs
<1> DEFINE m == Len(rs)
           front == [k \in DOMAIN rs |-> ShowRule(rs[k])]
           last == ShowPolicy(q)
           ls == Shown(rs, q)
<1>1. m \in Nat /\ DOMAIN rs = 1 .. m /\ \A k \in 1 .. m : rs[k] \in Rules
  OBVIOUS
<1>2. \A k \in 1 .. m : ShowRule(rs[k]) \in Lines
  BY <1>1 DEF Lines, FileLines
<1>3. front \in Seq(Lines) /\ Len(front) = m /\ \A k \in 1 .. m : front[k] = ShowRule(rs[k])
  BY <1>1, <1>2
<1>4. last \in Lines
  BY DEF Lines, FileLines
<1> HIDE DEF front, last
<1>5. ls = Append(front, last)
  BY <1>3, <1>4, AppendIsConcat DEF Shown, front, last
<1> HIDE DEF ls
<1>6. /\ ls \in Seq(Lines) /\ Len(ls) = m + 1 /\ ls[m + 1] = last
      /\ \A k \in 1 .. m : ls[k] = ShowRule(rs[k])
  BY <1>3, <1>4, <1>5, AppendProperties
<1>7. ASSUME NEW k \in 1 .. m
      PROVE  Plain(ls[k]) /\ ls[k].cmd = "add" /\ RuleOf(ls[k]) = rs[k]
  BY <1>1, <1>6, RuleRoundTrip
<1>8. Plain(last) /\ last.cmd = "policy"
  BY PolicyRoundTrip DEF last
<1>9. \A k \in 1 .. Len(ls) : Plain(ls[k])
  <2>1. \A k \in 1 .. m + 1 : k \in 1 .. m \/ k = m + 1
    BY <1>1
  <2> QED BY <1>6, <1>7, <1>8, <2>1
<1> DEFINE S == {k \in Nat : k <= m => AddedBy(ls, k) = SubSeq(rs, 1, k)}
<1>10. 0 \in S
  <2>1. AddedBy(ls, 0) = <<>>
    BY <1>6, AddedWalk
  <2>2. SubSeq(rs, 1, 0) = <<>>
    BY SubSeqEmpty
  <2> QED BY <2>1, <2>2
<1>11. \A k \in Nat : k \in S => k + 1 \in S
  <2> SUFFICES ASSUME NEW k \in Nat, k + 1 <= m, AddedBy(ls, k) = SubSeq(rs, 1, k)
               PROVE  AddedBy(ls, k + 1) = SubSeq(rs, 1, k + 1)
    BY <1>1
  <2>1. k + 1 \in 1 .. m /\ k + 1 \in 1 .. Len(ls) /\ (k + 1) - 1 = k /\ 1 \in 1 .. m
    BY <1>1, <1>6
  <2>2. AddedBy(ls, k + 1) = Append(SubSeq(rs, 1, k), rs[k + 1])
    BY <1>6, <1>7, <2>1, AddedWalk
  <2>3. SubSeq(rs, 1, k) \in Seq(Rules) /\ rs[k + 1] \in Rules
    BY <1>1, <2>1, SubSeqProperties
  <2>4. Append(SubSeq(rs, 1, k), rs[k + 1]) = SubSeq(rs, 1, k) \o <<rs[k + 1]>>
    BY <2>3, AppendIsConcat
  <2>5. SubSeq(rs, 1, k + 1) = SubSeq(rs, 1, (k + 1) - 1) \o <<rs[k + 1]>>
    BY <2>1, SubSeqRecursiveSecond
  <2> QED BY <2>1, <2>2, <2>4, <2>5
<1> HIDE DEF S
<1>12. \A k \in 0 .. m : AddedBy(ls, k) = SubSeq(rs, 1, k)
  <2>1. \A k \in Nat : k \in S
    BY <1>10, <1>11, NatSetInduction
  <2> QED BY <1>1, <2>1 DEF S
<1>13. AddedBy(ls, m + 1) = rs
  <2>1. m + 1 \in 1 .. Len(ls) /\ (m + 1) - 1 = m /\ m \in 0 .. m
    BY <1>1, <1>6
  <2>2. AddedBy(ls, m + 1) = AddedBy(ls, m)
    BY <1>6, <1>8, <2>1, AddedWalk
  <2>3. AddedBy(ls, m) = SubSeq(rs, 1, m)
    BY <1>12, <2>1
  <2> QED BY <2>2, <2>3, SubSeqFull
<1> QED BY <1>6, <1>9, <1>12, <1>13 DEF ls, last

(* What an undisturbed save wrote, an undisturbed load with enough room    *)
(* brings back: the rules behind those that were there, and the policy if  *)
(* it redirects.                                                           *)
THEOREM LoadBringsBackHolds ==
  ASSUME ParsedTables
  PROVE  Spec => []LoadBringsBack
<1>1. CommandsTypeOK /\ SaveInv /\ LoadInv => LoadBringsBack
  <2> SUFFICES ASSUME Shape, SaveInv, LoadInv, NEW p \in Procs, Loaded(p),
                      NEW b \in proc[p].began, NEW s \in b.file.saved, Restored(b, s)
               PROVE  /\ rules = b.table.rules \o s.rules
                      /\ s.policy.action = "redirect" => policy = s.policy
    BY TypeParts DEF LoadBringsBack
  <2> DEFINE ls == b.file.lines
             m == Len(s.rules)
  <2>1. /\ b.table.rules \in Seq(Rules) /\ s.rules \in Seq(Rules) /\ s.policy \in TablePolicies
        /\ m \in Nat /\ ls = Shown(s.rules, s.policy)
    <3>1. b.table.rules \in Seq(Rules) /\ s \in TableType
      BY BeganType DEF Restored
    <3>2. s.rules \in Seq(Rules) /\ ls = Shown(s.rules, s.policy)
      BY DEF SaveInv, Saves, GoodFile
    <3> QED BY <3>1, <3>2 DEF TableType
  <2>2. RoomOf(b.table.rules) + RoomOf(s.rules) <= CAPACITY
    BY DEF Restored
  <2> HIDE DEF ls
  <2>3. /\ Len(ls) = m + 1
        /\ \A k \in 1 .. m : ls[k] = ShowRule(s.rules[k])
        /\ ls[m + 1] = ShowPolicy(s.policy)
        /\ \A k \in 1 .. Len(ls) : Plain(ls[k])
        /\ \A k \in 0 .. m : AddedBy(ls, k) = SubSeq(s.rules, 1, k)
        /\ AddedBy(ls, m + 1) = s.rules
    BY <2>1, ShownLines
  <2>4. ASSUME NEW k \in 1 .. m
        PROVE  /\ ls[k].cmd = "add" /\ ~Throws(ls[k])
               /\ ParsedRules(ls[k]) = {s.rules[k]}
    <3>1. s.rules[k] \in Rules /\ ls[k] = ShowRule(s.rules[k])
      BY <2>1, <2>3
    <3>2. /\ ls[k].cmd = "add" /\ ~Throws(ls[k]) /\ Plain(ls[k]) /\ RuleOf(ls[k]) = s.rules[k]
      BY <3>1, RuleRoundTrip
    <3> QED BY <3>2 DEF Plain
  <2>5. /\ ls[m + 1].cmd = "policy"
        /\ Throws(ls[m + 1]) <=> s.policy.action # "redirect"
        /\ s.policy.action = "redirect" => PolicyOf(ls[m + 1]) = s.policy
    BY <2>1, <2>3, PolicyRoundTrip
  <2>6. Usual(b)
    BY <2>3 DEF PlainLines, Usual, Restored, ls
  <2>7. PICK n \in Nat : /\ Progress(b, n, rules, policy)
                         /\ Stopped(proc[p].ok, b.file.lines, n, rules)
    BY <2>6 DEF Loaded, LoadInv, LoadsPlain, LoadOf
  <2>8. /\ n \in 0 .. m + 1
        /\ rules = b.table.rules \o AddedBy(ls, n)
        /\ \A k \in 1 .. n : ~Throws(ls[k])
        /\ (\A k \in 1 .. n : ls[k].cmd # "policy") => policy = b.table.policy
        /\ (\E k \in 1 .. n : ls[k].cmd = "policy") =>
             \E k \in 1 .. n : ls[k].cmd = "policy" /\ policy = PolicyOf(ls[k])
    BY <2>3, <2>7 DEF Progress, ls
  <2>9. CASE n = m + 1
    <3>1. n \in 1 .. n /\ ~Throws(ls[m + 1])
      BY <2>1, <2>8, <2>9
    <3>3. PICK k \in 1 .. n : ls[k].cmd = "policy" /\ policy = PolicyOf(ls[k])
      BY <2>5, <2>8, <2>9, <3>1
    <3>4. k = m + 1
      <4>1. k \in 1 .. m \/ k = m + 1
        BY <2>1, <2>9
      <4> QED BY <2>4, <3>3, <4>1
    <3> QED BY <2>3, <2>5, <2>8, <2>9, <3>3, <3>4
  <2>10. CASE n < m + 1
    <3>1. n \in 0 .. m /\ n # Len(ls)
      BY <2>1, <2>3, <2>8, <2>10
    <3>2. \/ Throws(ls[n + 1])
          \/ /\ ls[n + 1].cmd = "add"
             /\ \E r \in ParsedRules(ls[n + 1]) : RoomOf(rules) + SizeOf(r) > CAPACITY
      BY <2>7, <3>1 DEF Stopped, ls
    <3>3. n = m
      <4> SUFFICES ASSUME n # m PROVE FALSE
        OBVIOUS
      <4>1. n + 1 \in 1 .. m /\ (n + 1) - 1 = n
        BY <2>1, <3>1
      <4>2. RoomOf(rules) + SizeOf(s.rules[n + 1]) > CAPACITY
        BY <2>4, <3>2, <4>1
      <4>3. rules = b.table.rules \o SubSeq(s.rules, 1, n)
        BY <2>3, <2>8, <3>1
      <4>4. RoomOf(b.table.rules \o SubSeq(s.rules, 1, (n + 1) - 1)) + SizeOf(s.rules[n + 1]) <= CAPACITY
        BY <2>1, <2>2, <4>1, RoomForNext
      <4>5. RoomOf(rules) + SizeOf(s.rules[n + 1]) \in Nat
        <5>1. rules \in Seq(Rules) /\ s.rules[n + 1] \in Rules
          BY <2>1, <2>7, <4>1 DEF Progress
        <5> QED BY <5>1, RoomAppend, CommandConstants
      <4> QED BY <4>1, <4>2, <4>3, <4>4, <4>5, CommandConstants
    <3>4. Throws(ls[m + 1])
      BY <2>5, <3>2, <3>3
    <3>6. rules = b.table.rules \o s.rules
      <4>1. AddedBy(ls, n) = SubSeq(s.rules, 1, m)
        BY <2>3, <3>1, <3>3
      <4>2. SubSeq(s.rules, 1, m) = s.rules
        BY <2>1, SubSeqFull
      <4> QED BY <2>8, <4>1, <4>2
    <3> QED BY <2>5, <3>4, <3>6
  <2>11. n = m + 1 \/ n < m + 1
    BY <2>1, <2>8
  <2> QED BY <2>9, <2>10, <2>11
<1> QED BY <1>1, LoadInvHolds, PTL
===============================================================================
