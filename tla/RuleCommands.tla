----------------------------- MODULE RuleCommands -----------------------------
(***************************************************************************)
(* The processes that share the rule table: the daemon, which evaluates it *)
(* for every query, and the command line processes `rules add / delete /   *)
(* clear / policy / list / save / load` (RuleParser::Parse in              *)
(* src/rule/parse.cpp, operator<<, operator>> and the locks of             *)
(* src/rule/shm.cpp).                                                      *)
(*                                                                         *)
(* The table is the list RuleTable implements.  What an operation does to  *)
(* it happens between locking and unlocking the interprocess mutex, which  *)
(* is not robust: a holder that is killed leaves it locked.  Listing and   *)
(* saving take no lock.  What they read while another process edits the    *)
(* bytes, behind an edit that moved them, or of a list an insertion has    *)
(* spoilt, may be anything.                                                *)
(*                                                                         *)
(* A line, of a rule file or of the shell, is a record: the command and    *)
(* the options that are given.  A rule is the record of the options that   *)
(* make it, so the line that lists it is the rule with the command "add".  *)
(* Comments and empty lines are skipped by the code and left out here.     *)
(***************************************************************************)
EXTENDS RuleList

CONSTANTS
  Procs,         \* command line processes at a time
  None, Daemon, Killed,  \* who else may have the mutex: nobody, the daemon, the dead
  Commands,      \* lines the administrators enter
  Files,         \* what they may have written into the rule file: sequences of lines
  Addresses,     \* texts inet_pton takes
  Macs,          \* hardware addresses without a digit f, which ethRegex matches
  SIZE_MAX,      \* the index of an add without --index
  RawRules,      \* rules as nextRule makes them of bytes in motion
  RawPolicies,   \* policies read in the middle of SetPolicy
  BUFFER,        \* lines the buffer of a file stream takes (8191 bytes)
  MAX_COMMANDS,  \* bound: commands entered
  MAX_QUERIES    \* bound: queries the daemon evaluates

ASSUME CommandConstants ==
  /\ {None, Daemon, Killed} \cap Procs = {}
  /\ None # Daemon /\ None # Killed /\ Daemon # Killed
  /\ Indexes \subseteq Nat /\ SIZE_MAX \in Nat \ Indexes
  /\ MAX_COMMANDS \in Nat /\ MAX_QUERIES \in Nat /\ BUFFER \in Nat \ {0}
  /\ CAPACITY \in Nat /\ \A r \in Rules : SizeOf(r) \in Nat /\ r # Lost
  /\ \A f \in Files : \A k \in DOMAIN f : f[k].cmd # "load"

VARIABLES
  holder,   \* RuleData::mutex: who has it
  proc,     \* proc[p]: a command line process
  file,     \* the rule file
  daemon,   \* the daemon: "idle", "lock" or "inside" (Evaluate)
  issued,   \* commands entered so far
  queries   \* queries evaluated so far

listVars == <<rules, policy, reply>>
vars == <<listVars, holder, proc, file, daemon, issued, queries>>

-----------------------------------------------------------------------------
(* Parsing.  vm2.count(option), and the values the conversions take: any   *)
(* textual address of either family, but of the hardware addresses only    *)
(* those ethRegex does not match, which has no digit f.                    *)
Has(l, o) == o \in DOMAIN l
Joined(f, g) == [o \in DOMAIN f \cup DOMAIN g |-> IF Has(f, o) THEN f[o] ELSE g[o]]
BadAddress(l, o) == Has(l, o) /\ l[o] \notin Addresses
ToEthAddress(m) == m \notin Macs
BadAction(l) == ~Has(l, "action") \/ l.action \notin {"dns", "redirect"}

(* The lines for which Parse throws a validation_error.                    *)
AddThrows(l) ==
  \/ BadAddress(l, "ipaddr") \/ BadAddress(l, "target") \/ BadAction(l)
  \/ ~Has(l, "ipaddr") /\ ~Has(l, "macaddr")
  \/ Has(l, "macaddr") /\ ~ToEthAddress(l.macaddr)

PolicyThrows(l) ==
  BadAction(l) \/ \E o \in {"target4", "target6"} : ~Has(l, o) \/ BadAddress(l, o)

Throws(l) ==
  \/ l.cmd = "add" /\ AddThrows(l)
  \/ l.cmd = "policy" /\ PolicyThrows(l)
  \/ l.cmd = "delete" /\ ~Has(l, "index")
  \/ l.cmd \in {"load", "save"} /\ ~Has(l, "file")

Supported == {"add", "delete", "clear", "policy", "list", "save", "load"}

(* The rules an add line may stand for: the target of a redirect is not    *)
(* required, and without one it is what the stack held.                    *)
ParsedRules(l) ==
  LET matched == Restrict(l, {"ipaddr", "macaddr", "action"} \cap DOMAIN l)
  IN IF l.action = "dns" THEN {matched}
     ELSE {Joined(matched, [target |-> a]) : a \in IF Has(l, "target") THEN {l.target} ELSE Addresses}

(* The operations a line may stand for, and the operations there are: adds *)
(* at a position an administrator names or at one of ends.                 *)
IndexOf(l) == IF Has(l, "index") THEN l.index ELSE SIZE_MAX

Ops(l) ==
  CASE l.cmd = "add"    -> {[cmd |-> "add", rule |-> r, index |-> IndexOf(l)] : r \in ParsedRules(l)}
    [] l.cmd = "delete" -> {[cmd |-> "delete", index |-> l.index]}
    [] l.cmd = "clear"  -> {[cmd |-> "clear"]}
    [] l.cmd = "policy" -> {[cmd |-> "policy", policy |-> Restrict(l, {"action", "target4", "target6"})]}

Edits == {"add", "delete", "clear", "policy"}

Operations(ends) ==
  [cmd : {"add"}, rule : Rules, index : Indexes \cup ends] \cup [cmd : {"delete"}, index : Indexes]
  \cup {[cmd |-> "clear"]} \cup [cmd : {"policy"}, policy : Policies]

(* Showing.  The targets of a policy are shown only where they are used.   *)
ShowRule(r) == Joined([cmd |-> "add"], r)

ShowPolicy(p) ==
  Joined([cmd |-> "policy"], IF p.action = "redirect" THEN p ELSE [action |-> p.action])

Shown(list, p) == [k \in DOMAIN list |-> ShowRule(list[k])] \o <<ShowPolicy(p)>>

(* The lines that can be in the rule file, the ones the code wrote         *)
(* included, and every line there can be: Rules and Policies are what the  *)
(* parser makes of the lines it does not reject.                           *)
TablePolicies == Policies \cup {NoPolicy}
FileLines ==
  (UNION {{f[k] : k \in DOMAIN f} : f \in Files})
  \cup {ShowRule(r) : r \in Rules \cup RawRules}
  \cup {ShowPolicy(q) : q \in TablePolicies \cup RawPolicies}
Lines == Commands \cup FileLines

ASSUME LineConstants ==
  /\ \A f \in Files : f \in Seq(Lines)
  /\ \A l \in Lines : l.cmd \in Edits /\ ~Throws(l) => Ops(l) \subseteq Operations({SIZE_MAX})

-----------------------------------------------------------------------------
(* A process: where it is, the operation it is about to do, of the file it *)
(* loads the number of lines it took and the ones in its buffer, and the   *)
(* lines it listed.  For the properties it also carries what it began      *)
(* with, the table and the file, for as long as no other process begins to *)
(* edit or, while it loads, writes the file: then it is alone.  A process  *)
(* that ended is kept while it is, if it listed or loaded.                 *)
NoOp == [cmd |-> "none"]
NoProcess ==
  [pc |-> "none", op |-> NoOp, loading |-> FALSE, taken |-> 0, rest |-> <<>>, saving |-> FALSE,
   out |-> <<>>, ok |-> FALSE, began |-> {}]

Table == [rules |-> rules, policy |-> policy]

Fresh ==
  [NoProcess EXCEPT !.began = IF holder \in {None, Daemon} THEN {[table |-> Table, file |-> file]}
                                                          ELSE {}]

Alone(s) == s.began # {}

(* AppendRule: the end of the list is its position.                        *)
AtIndex(op) == IF op.cmd = "add" /\ op.index = SIZE_MAX THEN [op EXCEPT !.index = Len(rules)] ELSE op

Exited(s, ok) ==
  IF Alone(s) /\ (s.loading \/ s.out # <<>>)
  THEN [s EXCEPT !.pc = "done", !.ok = ok, !.op = NoOp, !.taken = 0, !.rest = <<>>]
  ELSE NoProcess

Inside == {"inside", "accept", "reject"}

Busy(p) == proc[p].pc \in {"next", "lock", "listing"} \cup Inside

Saving == \E p \in Procs : Busy(p) /\ proc[p].saving

(* Process p goes on as s, having written the file or not: the others that *)
(* load it are no longer alone with it.                                    *)
Goes(p, s, wrote) ==
  proc' = [q \in Procs |->
    IF q = p THEN s
    ELSE IF wrote /\ Busy(q) /\ proc[q].loading THEN [proc[q] EXCEPT !.began = {}] ELSE proc[q]]

Init ==
  /\ ListInit
  /\ holder = None
  /\ proc = [p \in Procs |-> NoProcess]
  /\ file \in {[exists |-> FALSE, lines |-> <<>>, saved |-> {}]}
              \cup {[exists |-> TRUE, lines |-> f, saved |-> {}] : f \in Files}
  /\ daemon = "idle"
  /\ issued = 0
  /\ queries = 0

(* Mutants: a line that is rejected is skipped; a process that ended is    *)
(* sent back for more lines; the end of the list is looked up before the   *)
(* mutex is locked; save writes behind what the file held.                 *)
ParseFailsSkips(p, l, s) ==
  /\ Throws(l) \/ l.cmd \notin Supported \/ (l.cmd = "load" /\ ~file.exists)
  /\ proc' = [proc EXCEPT ![p] = IF s.loading THEN [s EXCEPT !.pc = "next"] ELSE Exited(s, FALSE)]
  /\ UNCHANGED file
EndedAlways(s, ok) == [s EXCEPT !.pc = "next", !.op = NoOp]
ParseEditSizeFirst(p, l, s) ==
  /\ ~Throws(l) /\ l.cmd \in Edits
  /\ \E op \in Ops(l) : proc' = [proc EXCEPT ![p] = [s EXCEPT !.pc = "lock", !.op = AtIndex(op)]]
  /\ UNCHANGED file
ParseListAppends(p, l, s) ==
  /\ ~Throws(l) /\ l.cmd \in {"list", "save"}
  /\ l.cmd = "save" => ~Saving
  /\ Goes(p, [s EXCEPT !.pc = "listing", !.out = <<>>, !.saving = l.cmd = "save"], l.cmd = "save")
  /\ file' = IF l.cmd = "save" THEN [file EXCEPT !.exists = TRUE, !.saved = {}] ELSE file

(* Parse of line l by process p, which is in state s: an exception or an   *)
(* error ends it (a load that only meets an error says nothing of it), an  *)
(* edit waits for the mutex, list starts to read, save first empties the   *)
(* file, load opens it.                                                    *)
ParseFails(p, l, s) ==
  /\ Throws(l) \/ l.cmd \notin Supported \/ (l.cmd = "load" /\ ~file.exists)
  /\ proc' = [proc EXCEPT ![p] = Exited(s, s.loading /\ ~Throws(l))]
  /\ UNCHANGED file

ParseEdit(p, l, s) ==
  /\ ~Throws(l) /\ l.cmd \in Edits
  /\ \E op \in Ops(l) : proc' = [proc EXCEPT ![p] = [s EXCEPT !.pc = "lock", !.op = op]]
  /\ UNCHANGED file

ParseList(p, l, s) ==
  /\ ~Throws(l) /\ l.cmd \in {"list", "save"}
  /\ l.cmd = "save" => ~Saving
  /\ Goes(p, [s EXCEPT !.pc = "listing", !.out = <<>>, !.saving = l.cmd = "save"], l.cmd = "save")
  /\ file' = IF l.cmd = "save" THEN [exists |-> TRUE, lines |-> <<>>, saved |-> {}] ELSE file

ParseLoad(p, l, s) ==
  /\ ~Throws(l) /\ l.cmd = "load" /\ file.exists
  /\ proc' = [proc EXCEPT ![p] =
       [s EXCEPT !.pc = "next", !.loading = TRUE, !.taken = 0, !.rest = <<>>]]
  /\ UNCHANGED file

Parse(p, l, s) ==
  ParseFails(p, l, s) \/ ParseEdit(p, l, s) \/ ParseList(p, l, s) \/ ParseLoad(p, l, s)

(* A command is entered.                                                   *)
Issue(p, l) ==
  /\ ~Busy(p)
  /\ issued < MAX_COMMANDS
  /\ issued' = issued + 1
  /\ Parse(p, l, Fresh)
  /\ UNCHANGED <<listVars, holder, daemon, queries>>

(* A line is done: a load goes on if it did not fail.  The load as a whole *)
(* returns ExitWithNoError in both cases.                                  *)
Ended(s, ok) ==
  IF s.loading /\ ok THEN [s EXCEPT !.pc = "next", !.op = NoOp] ELSE Exited(s, s.loading \/ ok)

(* operator>>: the next line of the file, or its end.  The stream reads    *)
(* on in the file, as it is then, when its buffer is empty.                *)
Buffered(s) ==
  LET end == IF s.taken + BUFFER < Len(file.lines) THEN s.taken + BUFFER ELSE Len(file.lines)
  IN IF s.rest = <<>> THEN SubSeq(file.lines, s.taken + 1, end) ELSE s.rest

NextLine(p) ==
  /\ proc[p].pc = "next"
  /\ LET lines == Buffered(proc[p])
     IN IF lines = <<>>
        THEN proc' = [proc EXCEPT ![p] = Exited(@, TRUE)] /\ UNCHANGED file
        ELSE Parse(p, Head(lines), [proc[p] EXCEPT !.taken = @ + 1, !.rest = Tail(lines)])
  /\ UNCHANGED <<listVars, holder, daemon, issued, queries>>

(* The scoped_lock of an operation.  The others are no longer alone with   *)
(* the table.                                                              *)
Lock(p) ==
  /\ proc[p].pc = "lock"
  /\ holder = None
  /\ holder' = p
  /\ proc' = [q \in Procs |->
       IF q = p THEN [proc[p] EXCEPT !.pc = "inside"]
       ELSE IF Busy(q) THEN [proc[q] EXCEPT !.began = {}] ELSE NoProcess]
  /\ UNCHANGED <<listVars, file, daemon, issued, queries>>

(* The operation first reads: AppendRule the size, insertRules and         *)
(* deleteRule whether they can do it.                                      *)
Verdicts(op) ==
  CASE op.cmd = "add"    -> AddVerdicts(op.rule, op.index)
    [] op.cmd = "delete" -> {op.index < Len(rules)}
    [] OTHER             -> {TRUE}

Decide(p) ==
  /\ proc[p].pc = "inside"
  /\ LET op == AtIndex(proc[p].op)
     IN \E ok \in Verdicts(op) :
          proc' = [proc EXCEPT ![p].op = op, ![p].pc = IF ok THEN "accept" ELSE "reject"]
  /\ UNCHANGED <<listVars, holder, file, daemon, issued, queries>>

(* Then it writes, and its scope ends.                                     *)
Apply(op, ok) ==
  \/ op.cmd = "add" /\ AddAs(op.rule, op.index, ok)
  \/ op.cmd = "delete" /\ DeleteAs(op.index, ok)
  \/ op.cmd = "clear" /\ Clear
  \/ op.cmd = "policy" /\ SetPolicyTo(op.policy)

(* Mutant: an operation that fails returns without unlocking.              *)
OperateEarlyReturn(p) ==
  /\ proc[p].pc \in {"accept", "reject"}
  /\ Apply(proc[p].op, proc[p].pc = "accept")
  /\ holder' = IF reply'.ok THEN None ELSE p
  /\ proc' = [proc EXCEPT ![p] = Ended(@, reply'.ok)]
  /\ UNCHANGED <<file, daemon, issued, queries>>

Operate(p) ==
  /\ proc[p].pc \in {"accept", "reject"}
  /\ Apply(proc[p].op, proc[p].pc = "accept")
  /\ holder' = None
  /\ proc' = [proc EXCEPT ![p] = Ended(@, reply'.ok)]
  /\ UNCHANGED <<file, daemon, issued, queries>>

(* operator<<, one line: rule by rule, then the policy, which ends it.  A  *)
(* process that is alone with an intact table reads what is there; for the *)
(* others anything may come out, also the end.                             *)
Reads(p) == Alone(proc[p]) /\ Intact(rules)

Wrote(p, line, last) ==
  /\ LET s == [proc[p] EXCEPT !.out = Append(@, line)]
     IN Goes(p, IF last THEN Ended(s, TRUE) ELSE s, s.saving)
  /\ file' = IF proc[p].saving
             THEN [file EXCEPT !.lines = Append(@, line),
                               !.saved = IF last /\ Reads(p) THEN {Table} ELSE {}]
             ELSE file

(* Mutant: the first rule is left out.                                     *)
ShowAloneFromOne(p, n) ==
  IF n + 1 < Len(rules) THEN Wrote(p, ShowRule(rules[n + 2]), FALSE) ELSE Wrote(p, ShowPolicy(policy), TRUE)

ShowAlone(p, n) ==
  IF n < Len(rules) THEN Wrote(p, ShowRule(rules[n + 1]), FALSE) ELSE Wrote(p, ShowPolicy(policy), TRUE)

ShowRacing(p, n) ==
  \/ n < CAPACITY /\ \E r \in RawRules : Wrote(p, ShowRule(r), FALSE)
  \/ \E q \in RawPolicies : Wrote(p, ShowPolicy(q), TRUE)

ShowLine(p) ==
  /\ proc[p].pc = "listing"
  /\ IF Reads(p) THEN ShowAlone(p, Len(proc[p].out)) ELSE ShowRacing(p, Len(proc[p].out))
  /\ UNCHANGED <<listVars, holder, daemon, issued, queries>>

(* A command line process is killed.  Its mutex stays locked.  The bytes   *)
(* may be half moved then, but nobody gets to decide, or to evaluate, by   *)
(* them any more, and listings show anything.                              *)
Kill(p) ==
  /\ Busy(p)
  /\ holder' = IF holder = p THEN Killed ELSE holder
  /\ proc' = [proc EXCEPT ![p] = NoProcess]
  /\ UNCHANGED <<listVars, file, daemon, issued, queries>>

(* Evaluate, in the daemon: it holds the mutex while it reads the table.   *)
DaemonReceives ==
  /\ daemon = "idle"
  /\ queries < MAX_QUERIES
  /\ queries' = queries + 1
  /\ daemon' = "lock"
  /\ UNCHANGED <<listVars, holder, proc, file, issued>>

DaemonLocks ==
  /\ daemon = "lock"
  /\ holder = None
  /\ holder' = Daemon
  /\ daemon' = "inside"
  /\ UNCHANGED <<listVars, proc, file, issued, queries>>

DaemonDecides ==
  /\ daemon = "inside"
  /\ holder' = None
  /\ daemon' = "idle"
  /\ UNCHANGED <<listVars, proc, file, issued, queries>>

Step(p) == NextLine(p) \/ Lock(p) \/ Decide(p) \/ Operate(p) \/ ShowLine(p)
DaemonStep == DaemonLocks \/ DaemonDecides

Next ==
  \/ \E p \in Procs : Step(p) \/ Kill(p) \/ \E l \in Commands : Issue(p, l)
  \/ DaemonReceives
  \/ DaemonStep

(* A process that can take a step does: nothing here waits for anything    *)
(* but the mutex.                                                          *)
Spec ==
  /\ Init
  /\ [][Next]_vars
  /\ \A p \in Procs : WF_vars(Step(p))
  /\ WF_vars(DaemonStep)

-----------------------------------------------------------------------------
TableType == [rules : Seq(Rules \cup {Lost}), policy : TablePolicies]
FileType == [exists : BOOLEAN, lines : Seq(Lines), saved : SUBSET TableType]
ProcType ==
  [pc : {"none", "next", "lock", "listing", "done"} \cup Inside, op : Operations(Nat) \cup {NoOp},
   loading : BOOLEAN, taken : Nat, rest : Seq(Lines), saving : BOOLEAN, out : Seq(Lines),
   ok : BOOLEAN, began : SUBSET [table : TableType, file : FileType]]

(* The shape of the state.  A waiting operation is what the parser made    *)
(* of a line; behind the mutex, which only one process has, what was       *)
(* decided still holds, and an append is still at the end of the list.     *)
CommandsTypeOK ==
  /\ Table \in TableType
  /\ holder \in Procs \cup {None, Daemon, Killed}
  /\ proc \in [Procs -> ProcType]
  /\ file \in FileType
  /\ daemon \in {"idle", "lock", "inside"}
  /\ daemon = "inside" <=> holder = Daemon
  /\ issued \in 0 .. MAX_COMMANDS
  /\ queries \in 0 .. MAX_QUERIES
  /\ \A p \in Procs :
       /\ proc[p].pc \in Inside <=> holder = p
       /\ proc[p].pc \in {"lock", "inside"} => proc[p].op \in Operations({SIZE_MAX})
       /\ proc[p].pc \in {"accept", "reject"} =>
            /\ proc[p].op \in Operations({Len(rules)})
            /\ (proc[p].pc = "accept") \in Verdicts(proc[p].op)
       /\ proc[p].pc = "next" => proc[p].loading

(* The processes together are the administrator of RuleList, although they *)
(* read, decide and write in steps of their own: every command is done to  *)
(* the table as a whole, decided by the list it is done to, an add without *)
(* index at the end of that list.                                          *)
CommandsAreAtomic == ListSpec

(* What p did alone with the table, and the table and file it began with.  *)
Listed(p) == proc[p].pc = "done" /\ ~proc[p].loading
Loaded(p) == proc[p].pc = "done" /\ proc[p].loading

(* A listing takes no lock, yet a listing no edit overlapped shows the     *)
(* table, if it is not spoilt: rules in order, then the policy.            *)
ListsTheTable ==
  \A p \in Procs : Listed(p) /\ Intact(rules) => proc[p].out = Shown(rules, policy)

(* What the properties of loads suppose.  A rule file holds add and policy *)
(* lines, adds without index that name every option of their rule and no   *)
(* other; rules and policies are what Parse makes of a line it takes: all  *)
(* the options given, and a target for a redirect only.                    *)
RuleOf(l) == Restrict(l, DOMAIN l \ {"cmd"})

Plain(l) ==
  /\ l.cmd \in {"add", "policy"}
  /\ l.cmd = "add" /\ ~Throws(l) => ~Has(l, "index") /\ ParsedRules(l) = {RuleOf(l)}

PlainFiles == \A l \in FileLines : Plain(l)

ParsedTables ==
  /\ \A r \in Rules :
       /\ r = [o \in DOMAIN r |-> r[o]]
       /\ DOMAIN r \subseteq {"ipaddr", "macaddr", "action", "target"}
       /\ ~AddThrows(r)
       /\ Has(r, "target") <=> r.action = "redirect"
  /\ Policies \subseteq [action : {"dns", "redirect"}, target4 : Addresses, target6 : Addresses]
  /\ NoPolicy.action = "dns"

(* Loading a file (here of add and policy lines), while nobody else edits  *)
(* the table or writes the file, adds the rules of its first lines, all of *)
(* them or up to the first line that is rejected or finds no room, behind  *)
(* the rules that were there, unless an insertion had spoilt them.         *)
AddedBy(ls, n) ==
  LET upTo[k \in 0 .. Len(ls)] ==
        IF k = 0 THEN <<>>
        ELSE IF ls[k].cmd = "add" THEN Append(upTo[k - 1], RuleOf(ls[k])) ELSE upTo[k - 1]
  IN upTo[n]

LoadStopsAtFailure ==
  \A p \in Procs : Loaded(p) => \A b \in proc[p].began : Intact(b.table.rules) =>
    \E n \in 0 .. Len(b.file.lines) :
      /\ rules = b.table.rules \o AddedBy(b.file.lines, n)
      /\ n < Len(b.file.lines) =>
           LET l == b.file.lines[n + 1]
           IN Throws(l) \/ \E r \in ParsedRules(l) : Used + SizeOf(r) > CAPACITY

(* What an undisturbed save wrote, an undisturbed load with enough room    *)
(* brings back behind the rules that are there, although the rules went    *)
(* through text and the parser; and the policy too, if it redirects.       *)
Restored(b, s) ==
  Intact(b.table.rules) /\ RoomOf(b.table.rules) + RoomOf(s.rules) <= CAPACITY

LoadBringsBack ==
  \A p \in Procs : Loaded(p) => \A b \in proc[p].began : \A s \in b.file.saved :
    Restored(b, s) =>
      /\ rules = b.table.rules \o s.rules
      /\ s.policy.action = "redirect" => policy = s.policy

(* README.md:180, "These saved rules and policy can be loaded at any time":*)
(* the load of such a file also ends without error, with the policy saved. *)
SavedCanBeLoaded ==
  \A p \in Procs : Loaded(p) => \A b \in proc[p].began : \A s \in b.file.saved :
    Restored(b, s) =>
      proc[p].ok /\ rules = b.table.rules \o s.rules /\ policy = s.policy

(* Nobody waits for ever, neither the daemon with a client's query nor a   *)
(* command, unless a process was killed while it held the mutex.           *)
NobodyWaitsForEver ==
  /\ \A p \in Procs : Busy(p) ~> (~Busy(p) \/ holder = Killed)
  /\ (daemon # "idle") ~> (daemon = "idle" \/ holder = Killed)
===============================================================================
