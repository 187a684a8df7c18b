-------------------------- MODULE ServiceLifecycle --------------------------
(***************************************************************************)
(* Starting, refusing, stopping and crashing the service: main (app/       *)
(* main.cpp), class Daemon (src/daemon.cpp), UnixDaemon, and the           *)
(* constructor and destructor of ShmRuleEngine.                            *)
(*                                                                         *)
(* Processes meet in names that outlive them: the execution lock (a named  *)
(* mutex) and the shared memory segment.  A name denotes an object;        *)
(* removing the name leaves the object to the processes that have it open. *)
(* A process makes at most one object of each kind, so an object is called *)
(* after the process that made it.  Only POSIX objects are modelled: they  *)
(* are not robust, and a mutex whose holder died stays locked.             *)
(*                                                                         *)
(* A process that forks into the background goes on as the same process:   *)
(* the parents end with _exit, which runs no destructor.                   *)
(***************************************************************************)
EXTENDS Naturals, FiniteSets

CONSTANTS
  Procs,      \* the starts of the service
  Commands,   \* rules commands that may be under way at a time
  None,       \* no object
  FILE_LINES  \* bound: the lines of the rule file that hold a command

ASSUME LifecycleConstants ==
  /\ None \notin Procs
  /\ Procs \cap Commands = {}
  /\ FILE_LINES \in Nat

VARIABLES
  pc,        \* pc[p]: how far process p is
  lockName,  \* the mutex the name DAEMON_NAME denotes
  lockOf,    \* lockOf[p]: the mutex p has open
  holder,    \* holder[m]: the process that locked mutex m
  shmName,   \* the segment the name SHM_NAME denotes
  cmd,       \* cmd[c]: the segment the rules command c has open
  loaded,    \* loaded[s]: history, the lines of rule files carried out on segment s
  read,      \* read[p]: history, how many lines of its rule file p carried out
  lost,      \* history: processes that ended holding the lock, without destructors
  alone,     \* history: no other process was left when the latest one started
  asked,     \* asked[c]: history, the daemon that ran alone when c was started
  forced     \* history: the lock's name was taken from processes still alive

lockVars == <<lockName, lockOf, holder>>
ruleVars == <<cmd, loaded, read>>
history == <<lost, alone, asked, forced>>
vars == <<pc, lockVars, shmName, ruleVars, history>>

Alive == {p \in Procs : pc[p] \notin {"new", "ended"}}
Running == {p \in Procs : pc[p] = "running"}
Owns(p) == pc[p] \in {"owner", "initialized", "running", "stopping"}

Init ==
  /\ pc = [p \in Procs |-> "new"]
  /\ lockName = None /\ shmName = None
  /\ lockOf = [p \in Procs |-> None]
  /\ holder = [m \in Procs |-> None]
  /\ cmd = [c \in Commands |-> None]
  /\ loaded = [p \in Procs |-> {}]
  /\ read = [p \in Procs |-> 0]
  /\ lost = {}
  /\ alone = TRUE
  /\ asked = [c \in Commands |-> None]
  /\ forced = FALSE

Go(p, from, to) == pc[p] = from /\ pc' = [pc EXCEPT ![p] = to]

(* Daemon(): executionLock is opened or created ...                        *)
OpenLock(p) ==
  /\ Go(p, "new", "opened")
  /\ lockName' = IF lockName = None THEN p ELSE lockName
  /\ lockOf' = [lockOf EXCEPT ![p] = lockName']
  /\ alone' = (Alive = {})
  /\ forced' = (forced /\ Alive # {})
  /\ UNCHANGED <<holder, shmName, ruleVars, lost, asked>>

(* ... then ShmRuleEngine(true) removes the name of the segment ...        *)
RemoveShm(p) ==
  /\ Go(p, "opened", "removed")
  /\ shmName' = None
  /\ UNCHANGED <<lockVars, ruleVars, history>>

(* ... and makes a new one.  The exception when another process was faster *)
(* is caught nowhere.                                                      *)
CreateShm(p) ==
  /\ IF shmName = None THEN Go(p, "removed", "constructed") /\ shmName' = p
                       ELSE Go(p, "removed", "ended") /\ UNCHANGED shmName
  /\ UNCHANGED <<lockVars, ruleVars, history>>

(* Mutant: the daemon that is refused is destroyed, and does not look at   *)
(* lockOwned.                                                              *)
IsAlreadyRunningDestroyed(p) ==
  /\ pc[p] = "constructed"
  /\ IF holder[lockOf[p]] = None
     THEN /\ Go(p, "constructed", "owner")
          /\ holder' = [holder EXCEPT ![lockOf[p]] = p]
          /\ UNCHANGED lockName
     ELSE Go(p, "constructed", "unlocked") /\ lockName' = None /\ UNCHANGED holder
  /\ UNCHANGED <<lockOf, shmName, ruleVars, history>>

(* main: IsAlreadyRunning, or exit(1), which does not destroy the daemon.  *)
IsAlreadyRunning(p) ==
  /\ pc[p] = "constructed"
  /\ IF holder[lockOf[p]] = None
     THEN Go(p, "constructed", "owner") /\ holder' = [holder EXCEPT ![lockOf[p]] = p]
     ELSE Go(p, "constructed", "ended") /\ UNCHANGED holder
  /\ UNCHANGED <<lockName, lockOf, shmName, ruleVars, history>>

(* Mutants: the loop looks for the end of the file before it reads, so it  *)
(* carries out one line too many; a line that fails does not end the load. *)
LoadLineAtEof(p) ==
  /\ pc[p] = "owner"
  /\ read[p] <= FILE_LINES
  /\ shmName # None
  /\ read' = [read EXCEPT ![p] = @ + 1]
  /\ loaded' = [loaded EXCEPT ![shmName] = @ \cup {[by |-> p, line |-> read'[p]]}]
  /\ UNCHANGED <<pc, lockVars, shmName, cmd, history>>
LoadLineGoesOn(p) ==
  /\ pc[p] = "owner"
  /\ read[p] < FILE_LINES
  /\ shmName # None
  /\ read' = [read EXCEPT ![p] = @ + 1]
  /\ \/ loaded' = [loaded EXCEPT ![shmName] = @ \cup {[by |-> p, line |-> read'[p]]}]
     \/ UNCHANGED loaded
  /\ UNCHANGED <<pc, lockVars, shmName, cmd, history>>

(* Initialize, loadRules: the next line of the rule file is carried out,   *)
(* on the segment that has the name now: each line is parsed by an engine  *)
(* of its own.  Without such a segment, and on a line or configuration     *)
(* value that is wrong, an exception follows (Die).                        *)
LoadLine(p) ==
  /\ pc[p] = "owner"
  /\ read[p] < FILE_LINES
  /\ shmName # None
  /\ read' = [read EXCEPT ![p] = @ + 1]
  /\ loaded' = [loaded EXCEPT ![shmName] = @ \cup {[by |-> p, line |-> read'[p]]}]
  /\ UNCHANGED <<pc, lockVars, shmName, cmd, history>>

(* Initialize ends: the file could not be opened (nothing was read), a     *)
(* line failed and the rest is not read, or the file is at its end.  The   *)
(* service goes on in each case.                                           *)
Initialize(p) ==
  /\ Go(p, "owner", "initialized")
  /\ UNCHANGED <<lockVars, shmName, ruleVars, history>>

(* An exception of Initialize, or a failed fork or chdir (UnixUtil::Die):  *)
(* no destructor runs.                                                     *)
Die(p) ==
  /\ Go(p, "owner", "ended") \/ Go(p, "initialized", "ended")
  /\ lost' = lost \cup {p}
  /\ UNCHANGED <<lockVars, shmName, ruleVars, alone, asked, forced>>

(* Start: the sockets are bound and the event loop runs.                   *)
Start(p) ==
  /\ Running = {}
  /\ Go(p, "initialized", "running")
  /\ UNCHANGED <<lockVars, shmName, ruleVars, history>>

(* A port that is in use, by this service or another, is an exception that *)
(* Start catches: the destructors run.                                     *)
StartFails(p) ==
  /\ Go(p, "initialized", "stopping")
  /\ UNCHANGED <<lockVars, shmName, ruleVars, history>>

(* SIGTERM or SIGINT: the event loop ends, and ~DnsServer closes sockets.  *)
signalHandler(p) ==
  /\ Go(p, "running", "stopping")
  /\ UNCHANGED <<lockVars, shmName, ruleVars, history>>

(* Mutant: the name stays.                                                 *)
RemoveLockNot(p) ==
  /\ Go(p, "stopping", "unlocked")
  /\ UNCHANGED <<lockVars, shmName, ruleVars, history>>

(* ~Daemon: the name of the lock goes, whatever mutex it denotes ...       *)
RemoveLock(p) ==
  /\ Go(p, "stopping", "unlocked")
  /\ lockName' = None
  /\ UNCHANGED <<lockOf, holder, shmName, ruleVars, history>>

(* ... then, in ~ShmRuleEngine, whatever segment has the name.             *)
RemoveShmAtExit(p) ==
  /\ Go(p, "unlocked", "ended")
  /\ shmName' = None
  /\ UNCHANGED <<lockVars, ruleVars, history>>

Crash(p) ==
  /\ p \in Alive
  /\ pc' = [pc EXCEPT ![p] = "ended"]
  /\ lost' = IF holder[lockOf[p]] = p THEN lost \cup {p} ELSE lost
  /\ UNCHANGED <<lockVars, shmName, ruleVars, alone, asked, forced>>

(* The unlock command removes the name of the lock at any time, and so     *)
(* does `start --unlock' while it reads its arguments, before OpenLock.    *)
(* Nothing checks that the service has ended.                              *)
Unlock ==
  /\ lockName' = None
  /\ forced' = (forced \/ Alive # {})
  /\ UNCHANGED <<pc, lockOf, holder, shmName, ruleVars, lost, alone, asked>>

(* A rules command opens the segment by its name; without one it fails.    *)
OpenCommand(c) ==
  /\ cmd[c] = None
  /\ shmName # None
  /\ cmd' = [cmd EXCEPT ![c] = shmName]
  /\ asked' = [asked EXCEPT ![c] =
                 IF alone /\ Running # {} THEN CHOOSE p \in Running : TRUE ELSE None]
  /\ UNCHANGED <<pc, lockVars, shmName, loaded, read, lost, alone, forced>>

(* Mutant: ~ShmRuleEngine removes the name for every process.              *)
CommandRemovesName(c) ==
  /\ cmd[c] # None
  /\ cmd' = [cmd EXCEPT ![c] = None]
  /\ asked' = [asked EXCEPT ![c] = None]
  /\ shmName' = None
  /\ UNCHANGED <<pc, lockVars, loaded, read, lost, alone, forced>>

(* It changes the segment it has open, whatever the name denotes by now    *)
(* (how it changes the rules there is RuleCommands), and ends:             *)
(* ~ShmRuleEngine removes no name, the process is not the main one.        *)
RulesCommand(c) ==
  /\ cmd[c] # None
  /\ cmd' = [cmd EXCEPT ![c] = None]
  /\ asked' = [asked EXCEPT ![c] = None]
  /\ UNCHANGED <<pc, lockVars, shmName, loaded, read, lost, alone, forced>>

Next ==
  \/ \E p \in Procs :
       \/ OpenLock(p) \/ RemoveShm(p) \/ CreateShm(p) \/ IsAlreadyRunning(p)
       \/ LoadLine(p) \/ Initialize(p) \/ Die(p) \/ Start(p) \/ StartFails(p)
       \/ signalHandler(p) \/ RemoveLock(p) \/ RemoveShmAtExit(p) \/ Crash(p)
  \/ Unlock
  \/ \E c \in Commands : OpenCommand(c) \/ RulesCommand(c)

Spec == Init /\ [][Next]_vars

-----------------------------------------------------------------------------
States == {"new", "opened", "removed", "constructed", "owner", "initialized",
           "running", "stopping", "unlocked", "ended"}

Changes == [by : Procs, line : 1 .. FILE_LINES]

(* The shape of the state.                                                 *)
LifecycleTypeOK ==
  /\ pc \in [Procs -> States]
  /\ lockOf \in [Procs -> Procs \cup {None}]
  /\ holder \in [Procs -> Procs \cup {None}]
  /\ {lockName, shmName} \subseteq Procs \cup {None}
  /\ cmd \in [Commands -> Procs \cup {None}]
  /\ loaded \in [Procs -> SUBSET Changes]
  /\ read \in [Procs -> 0 .. FILE_LINES]
  /\ lost \subseteq Procs
  /\ alone \in BOOLEAN /\ forced \in BOOLEAN
  /\ asked \in [Commands -> Procs \cup {None}]

(* The execution lock does its work: from IsAlreadyRunning to ~Daemon a    *)
(* process is alone, whatever is started, refused or killed, and although  *)
(* names are removed while others have the objects open; unless somebody   *)
(* unlocks the service (unlock, start --unlock) while it is alive.         *)
OneOwner == ~forced => \A p, q \in Procs : Owns(p) /\ Owns(q) => p = q

(* The service can be started unless it runs or ended unexpectedly: the    *)
(* lock under the name is locked only by a process that is alive or one    *)
(* that was lost, also after an unlock that came too early.                *)
NoFalseLockout ==
  lockName # None /\ holder[lockName] # None => holder[lockName] \in Alive \cup lost

(* Why both hold: the mutex an owner locked still has the name; a starting *)
(* process either has the named mutex open or one that was locked and will *)
(* stay so; a mutex is locked once, by a process that has it open, and     *)
(* loses the name before its holder ends in good order.                    *)
OwnersHoldTheName ==
  \A p \in Procs : Owns(p) => lockName = lockOf[p] /\ holder[lockOf[p]] = p

StartersSeeTheLock ==
  \A p \in Procs : pc[p] \in {"opened", "removed", "constructed"} =>
    lockName = lockOf[p] \/ holder[lockOf[p]] # None

HoldersAccounted ==
  \A m \in Procs : holder[m] # None =>
    /\ pc[m] # "new"
    /\ lockOf[holder[m]] = m
    /\ Owns(holder[m]) \/ holder[m] \in lost \/ lockName # m

LockInvariant ==
  /\ \A p \in Procs : lockOf[p] = None <=> pc[p] = "new"
  /\ \A p \in Procs : lockOf[p] # None => pc[lockOf[p]] # "new"
  /\ lockName # None => pc[lockName] # "new"
  /\ ~forced => OwnersHoldTheName /\ StartersSeeTheLock
  /\ HoldersAccounted

(* README.md:180, rules "can be loaded at any time using the load          *)
(* subcommand": while a daemon runs that no other start overlaps, the name *)
(* leads every rules command to the segment it evaluates, and one that was *)
(* started in that time has that segment open: also after crashes, other   *)
(* commands and overlapping starts of processes that have ended.           *)
CommandsReachLoneDaemon ==
  alone => \A p \in Running :
    /\ shmName = p
    /\ \A c \in Commands : asked[c] = p => cmd[c] = p

(* Such a daemon evaluates the lines of the rule file it carried out, and  *)
(* these are the first ones of the file without a gap: none went into the  *)
(* segment of another process, and none of another process into its own.   *)
(* (How many there are depends on the file: none when it cannot be opened.)*)
RunsWithItsRules ==
  alone => \A p \in Running :
    loaded[p] = {[by |-> p, line |-> n] : n \in 1 .. read[p]}

(* Why both hold: the process that is alone keeps the name of its segment, *)
(* and nothing wrote to that segment but its own load and the commands.    *)
OneKeepsItsSegment ==
  /\ \A p, q \in Alive : p = q
  /\ \A p \in Alive : pc[p] = "constructed" \/ Owns(p) => shmName = p
  /\ \A p \in Alive :
       loaded[p] = {[by |-> p, line |-> n] : n \in 1 .. read[p]}

(* A process that has not made its segment yet has left nothing behind.    *)
FreshSegments ==
  /\ shmName # None => pc[shmName] \notin {"new", "opened", "removed"}
  /\ \A p \in Procs : pc[p] = "new" => loaded[p] = {} /\ read[p] = 0
  /\ \A c \in Commands : asked[c] # None => cmd[c] = asked[c]
  /\ \A c \in Commands : cmd[c] # None => pc[cmd[c]] # "new"

SegmentInvariant ==
  /\ FreshSegments
  /\ alone => OneKeepsItsSegment
=============================================================================
