----------------------- MODULE ServiceLifecycleProofs -----------------------
(***************************************************************************)
(* Proofs about ServiceLifecycle, for any number of starts and commands.   *)
(***************************************************************************)
EXTENDS ServiceLifecycle, TLAPS

(* Every step keeps the shape of the state.                                *)
LEMMA TypeStep == LifecycleTypeOK /\ [Next]_vars => LifecycleTypeOK'
<1> SUFFICES ASSUME LifecycleTypeOK, [Next]_vars
             PROVE  LifecycleTypeOK'
  OBVIOUS
<1> USE LifecycleConstants
        DEF LifecycleTypeOK, States, Changes, Go, lockVars, ruleVars, history
<1>1. ASSUME NEW p \in Procs, OpenLock(p)
      PROVE  LifecycleTypeOK'
  BY <1>1 DEF OpenLock
<1>2. ASSUME NEW p \in Procs, RemoveShm(p) \/ CreateShm(p) \/ RemoveShmAtExit(p)
      PROVE  LifecycleTypeOK'
  BY <1>2 DEF RemoveShm, CreateShm, RemoveShmAtExit
<1>3. ASSUME NEW p \in Procs, IsAlreadyRunning(p)
      PROVE  LifecycleTypeOK'
  BY <1>3 DEF IsAlreadyRunning
<1>4. ASSUME NEW p \in Procs, LoadLine(p)
      PROVE  LifecycleTypeOK'
  <2>1. read[p] + 1 \in 1 .. FILE_LINES /\ read[p] + 1 \in 0 .. FILE_LINES /\ shmName \in Procs
    BY <1>4 DEF LoadLine
  <2>2. read' \in [Procs -> 0 .. FILE_LINES] /\ read'[p] = read[p] + 1
    BY <1>4, <2>1 DEF LoadLine
  <2>3. loaded' \in [Procs -> SUBSET Changes]
    BY <1>4, <2>1, <2>2 DEF LoadLine
  <2>4. QED
    BY <1>4, <2>2, <2>3 DEF LoadLine
<1>5. ASSUME NEW p \in Procs, Initialize(p) \/ Die(p) \/ Start(p) \/ StartFails(p)
      PROVE  LifecycleTypeOK'
  BY <1>5 DEF Initialize, Die, Start, StartFails
<1>6. ASSUME NEW p \in Procs, signalHandler(p) \/ RemoveLock(p)
      PROVE  LifecycleTypeOK'
  BY <1>6 DEF signalHandler, RemoveLock
<1>7. ASSUME NEW p \in Procs, Crash(p)
      PROVE  LifecycleTypeOK'
  BY <1>7 DEF Crash
<1>8. CASE Unlock
  BY <1>8 DEF Unlock
<1>9. ASSUME NEW c \in Commands, OpenCommand(c)
      PROVE  LifecycleTypeOK'
  <2>1. asked'[c] \in Procs \cup {None}
    BY <1>9 DEF OpenCommand, Running
  <2>2. QED
    BY <1>9, <2>1 DEF OpenCommand
<1>10. ASSUME NEW c \in Commands, RulesCommand(c)
       PROVE  LifecycleTypeOK'
  BY <1>10 DEF RulesCommand
<1>11. CASE UNCHANGED vars
  BY <1>11 DEF vars
<1>12. QED
  BY <1>1, <1>2, <1>3, <1>4, <1>5, <1>6, <1>7, <1>8, <1>9, <1>10, <1>11 DEF Next

(* The lock's objects and its name.  Without an early unlock the owner's   *)
(* mutex has the name and every starter sees it; with one, mutexes are     *)
(* still locked once and lose the name before their holder ends.           *)
LEMMA LockStep ==
  LifecycleTypeOK /\ LockInvariant /\ [Next]_vars => LockInvariant'
<1> SUFFICES ASSUME LifecycleTypeOK, LockInvariant, [Next]_vars
             PROVE  LockInvariant'
  OBVIOUS
<1> USE LifecycleConstants
        DEF LifecycleTypeOK, LockInvariant, OwnersHoldTheName, StartersSeeTheLock,
            HoldersAccounted, Owns, Go, lockVars, history
<1>1. ASSUME NEW p \in Procs, OpenLock(p)
      PROVE  LockInvariant'
  <2>1. lockOf[p] = None /\ pc[p] = "new" /\ lockName' # None /\ lockOf'[p] = lockName'
    BY <1>1 DEF OpenLock
  <2>2. \A m \in Procs : holder[m] # None /\ lockName' = m => lockName = m
    BY <1>1, <2>1 DEF OpenLock
  <2>3. \A q \in Procs \ {p} : pc'[q] = pc[q] /\ lockOf'[q] = lockOf[q]
    BY <1>1 DEF OpenLock
  <2>4. \A m \in Procs : holder[m] # None => holder[m] # p /\ holder[m] \in Procs
    BY <2>1
  <2>5. pc'[p] = "opened" /\ holder' = holder /\ lost' = lost
    BY <1>1 DEF OpenLock
  <2>6. lockName # None => lockName' = lockName
    BY <1>1 DEF OpenLock
  <2>7. (\A q \in Procs : lockOf[q] = None <=> pc[q] = "new")'
    BY <2>1, <2>3, <2>5
  <2>8. (~forced => OwnersHoldTheName /\ StartersSeeTheLock)'
    <3>1. CASE forced
      <4>1. ~forced' => \A q \in Procs \ {p} : pc[q] \in {"new", "ended"}
        BY <1>1, <3>1 DEF OpenLock, Alive
      <4>2. QED
        BY <2>1, <2>3, <2>5, <4>1
    <3>2. CASE ~forced
      BY <2>1, <2>3, <2>5, <2>6, <3>2
    <3>3. QED
      BY <3>1, <3>2
  <2>9. HoldersAccounted'
    BY <2>2, <2>3, <2>4, <2>5
  <2>10. (lockName # None => pc[lockName] # "new")'
    BY <1>1, <2>1, <2>3, <2>5 DEF OpenLock
  <2>11. (\A q \in Procs : lockOf[q] # None => pc[lockOf[q]] # "new")'
    BY <2>1, <2>3, <2>5, <2>10
  <2>12. QED
    BY <2>7, <2>8, <2>9, <2>10, <2>11
<1>2. ASSUME NEW p \in Procs,
             \/ RemoveShm(p) \/ CreateShm(p) \/ Initialize(p)
             \/ Start(p) \/ StartFails(p) \/ signalHandler(p)
      PROVE  LockInvariant'
  BY <1>2 DEF RemoveShm, CreateShm, Initialize, Start, StartFails, signalHandler
<1>3. ASSUME NEW p \in Procs, IsAlreadyRunning(p)
      PROVE  LockInvariant'
  <2>1. CASE holder[lockOf[p]] = None
    <3>1. lockOf[p] \in Procs /\ pc[lockOf[p]] # "new"
      BY <1>3, <2>1 DEF IsAlreadyRunning
    <3>2. ~forced => lockName = lockOf[p] /\ \A q \in Procs : ~Owns(q)
      BY <1>3, <2>1, <3>1 DEF IsAlreadyRunning
    <3>3. /\ holder' = [holder EXCEPT ![lockOf[p]] = p]
          /\ pc' = [pc EXCEPT ![p] = "owner"]
          /\ pc[p] = "constructed"
          /\ UNCHANGED <<lockName, lockOf, lost, forced>>
      BY <1>3, <2>1 DEF IsAlreadyRunning
    <3>4. (~forced => OwnersHoldTheName /\ StartersSeeTheLock)'
      BY <3>1, <3>2, <3>3
    <3>5. HoldersAccounted'
      BY <2>1, <3>1, <3>3
    <3>6. QED
      BY <3>1, <3>3, <3>4, <3>5
  <2>2. CASE holder[lockOf[p]] # None
    BY <1>3, <2>2 DEF IsAlreadyRunning
  <2>3. QED
    BY <2>1, <2>2
<1>4. ASSUME NEW p \in Procs, Die(p)
      PROVE  LockInvariant'
  BY <1>4 DEF Die
<1>5. ASSUME NEW p \in Procs, RemoveLock(p)
      PROVE  LockInvariant'
  BY <1>5 DEF RemoveLock
<1>6. ASSUME NEW p \in Procs, RemoveShmAtExit(p)
      PROVE  LockInvariant'
  BY <1>6 DEF RemoveShmAtExit
<1>7. ASSUME NEW p \in Procs, Crash(p)
      PROVE  LockInvariant'
  BY <1>7 DEF Crash, Alive
<1>8. CASE Unlock
  BY <1>8 DEF Unlock, Alive
<1>9. ASSUME NEW p \in Procs, LoadLine(p)
      PROVE  LockInvariant'
  BY <1>9 DEF LoadLine
<1>10. ASSUME NEW c \in Commands, OpenCommand(c) \/ RulesCommand(c)
       PROVE  LockInvariant'
  BY <1>10 DEF OpenCommand, RulesCommand
<1>11. CASE UNCHANGED vars
  BY <1>11 DEF vars
<1>12. QED
  BY <1>1, <1>2, <1>3, <1>4, <1>5, <1>6, <1>7, <1>8, <1>9, <1>10, <1>11 DEF Next

(* The shape of the state, in every behaviour of the service.              *)
THEOREM LifecycleTypeCorrect == Spec => []LifecycleTypeOK
<1>1. Init => LifecycleTypeOK
  <2> SUFFICES ASSUME Init
               PROVE  LifecycleTypeOK
    OBVIOUS
  <2>1. /\ pc \in [Procs -> States]
        /\ {lockName, shmName} \subseteq Procs \cup {None}
        /\ read \in [Procs -> 0 .. FILE_LINES]
        /\ loaded \in [Procs -> SUBSET Changes]
        /\ lost \subseteq Procs
    BY LifecycleConstants DEF Init, States
  <2>2. /\ lockOf \in [Procs -> Procs \cup {None}]
        /\ holder \in [Procs -> Procs \cup {None}]
        /\ cmd \in [Commands -> Procs \cup {None}]
        /\ asked \in [Commands -> Procs \cup {None}]
    BY DEF Init
  <2>3. alone \in BOOLEAN /\ forced \in BOOLEAN
    BY DEF Init
  <2>4. QED
    BY <2>1, <2>2, <2>3 DEF LifecycleTypeOK
<1>2. QED
  BY <1>1, TypeStep, PTL DEF Spec

(* The invariant of the execution lock and its name.                       *)
THEOREM LockInvariantHolds == Spec => []LockInvariant
<1>1. Init => LockInvariant
  BY LifecycleConstants
  DEF Init, LockInvariant, OwnersHoldTheName, StartersSeeTheLock, HoldersAccounted, Owns
<1>2. QED
  BY <1>1, LockStep, LifecycleTypeCorrect, PTL DEF Spec

(* IsAlreadyRunning lets one process in at a time, until its ~Daemon gives *)
(* the name away: for any number of concurrent starts and crashes, as long *)
(* as nobody unlocks the service while a process of it is alive.           *)
THEOREM OneOwnerHolds == Spec => []OneOwner
<1>1. LockInvariant => OneOwner
  BY DEF LockInvariant, OwnersHoldTheName, OneOwner
<1>2. QED
  BY <1>1, LockInvariantHolds, PTL

(* A service that ended in good order never leaves a lock that keeps the   *)
(* next start out, whoever unlocked whatever meanwhile.                    *)
THEOREM NoFalseLockoutHolds == Spec => []NoFalseLockout
<1>1. LifecycleTypeOK /\ LockInvariant => NoFalseLockout
  BY DEF LifecycleTypeOK, LockInvariant, HoldersAccounted, NoFalseLockout, Owns, Alive
<1>2. QED
  BY <1>1, LockInvariantHolds, LifecycleTypeCorrect, PTL
-----------------------------------------------------------------------------
(* Nothing is written to a segment before its process has made it.         *)
LEMMA FreshStep ==
  LifecycleTypeOK /\ SegmentInvariant /\ [Next]_vars => FreshSegments'
<1> SUFFICES ASSUME LifecycleTypeOK, SegmentInvariant, [Next]_vars
             PROVE  FreshSegments'
  OBVIOUS
<1> USE LifecycleConstants
        DEF LifecycleTypeOK, SegmentInvariant, FreshSegments, Go, lockVars, ruleVars, history
<1>1. ASSUME NEW p \in Procs, OpenLock(p) \/ IsAlreadyRunning(p)
      PROVE  FreshSegments'
  BY <1>1 DEF OpenLock, IsAlreadyRunning
<1>2. ASSUME NEW p \in Procs, RemoveShm(p) \/ CreateShm(p) \/ RemoveShmAtExit(p)
      PROVE  FreshSegments'
  BY <1>2 DEF RemoveShm, CreateShm, RemoveShmAtExit
<1>3. ASSUME NEW p \in Procs, LoadLine(p)
      PROVE  FreshSegments'
  BY <1>3 DEF LoadLine
<1>4. ASSUME NEW p \in Procs,
             Initialize(p) \/ Die(p) \/ Start(p) \/ StartFails(p) \/ signalHandler(p)
      PROVE  FreshSegments'
  BY <1>4 DEF Initialize, Die, Start, StartFails, signalHandler
<1>5. ASSUME NEW p \in Procs, RemoveLock(p) \/ Crash(p)
      PROVE  FreshSegments'
  BY <1>5 DEF RemoveLock, Crash, Alive
<1>6. ASSUME NEW c \in Commands, OpenCommand(c)
      PROVE  FreshSegments'
  <2>1. alone => \A p \in Running : shmName = p
    BY DEF OneKeepsItsSegment, Running, Alive, Owns
  <2>2. asked'[c] # None => asked'[c] \in Running /\ alone
    BY <1>6 DEF OpenCommand
  <2>3. asked'[c] # None => cmd'[c] = asked'[c]
    BY <1>6, <2>1, <2>2 DEF OpenCommand
  <2>4. \A d \in Commands \ {c} : asked'[d] = asked[d] /\ cmd'[d] = cmd[d]
    BY <1>6 DEF OpenCommand
  <2>5. cmd'[c] = shmName /\ shmName \in Procs /\ UNCHANGED <<pc, shmName, loaded, read>>
    BY <1>6 DEF OpenCommand
  <2>6. QED
    BY <2>3, <2>4, <2>5
<1>7. ASSUME NEW c \in Commands, RulesCommand(c)
      PROVE  FreshSegments'
  BY <1>7 DEF RulesCommand
<1>8. CASE Unlock \/ UNCHANGED vars
  BY <1>8 DEF Unlock, vars
<1>9. QED
  BY <1>1, <1>2, <1>3, <1>4, <1>5, <1>6, <1>7, <1>8 DEF Next

(* A process that was started alone, and is alone, owns the segment the    *)
(* name denotes, with the lines it read in it and no others.               *)
LEMMA SegmentStep ==
  LifecycleTypeOK /\ SegmentInvariant /\ [Next]_vars => SegmentInvariant'
<1> SUFFICES ASSUME LifecycleTypeOK, SegmentInvariant, [Next]_vars, alone'
             PROVE  OneKeepsItsSegment'
  BY FreshStep DEF SegmentInvariant
<1> USE LifecycleConstants DEF LifecycleTypeOK, OneKeepsItsSegment, Alive, Owns, Go,
                               lockVars, ruleVars, history
<1>1. ASSUME NEW p \in Procs, OpenLock(p)
      PROVE  OneKeepsItsSegment'
  <2>1. Alive = {}
    BY <1>1 DEF OpenLock
  <2>2. Alive' = {p} /\ pc'[p] = "opened"
    BY <1>1, <2>1 DEF OpenLock
  <2>3. loaded'[p] = {} /\ read'[p] = 0
    BY <1>1 DEF OpenLock, SegmentInvariant, FreshSegments
  <2>4. QED
    BY <2>2, <2>3
<1>2. ASSUME NEW p \in Procs, p \in Alive, OneKeepsItsSegment,
             \A q \in Procs \ {p} : pc'[q] = pc[q],
             loaded' = loaded, read' = read,
             pc'[p] = "constructed" \/ Owns(p)' => shmName' = p
      PROVE  OneKeepsItsSegment'
  <2>1. \A q \in Procs \ {p} : q \notin Alive /\ q \notin Alive'
    BY <1>2
  <2>2. QED
    BY <1>2, <2>1
<1>3. ASSUME NEW p \in Procs, RemoveShm(p) \/ CreateShm(p), OneKeepsItsSegment
      PROVE  OneKeepsItsSegment'
  <2>1. p \in Alive /\ loaded' = loaded /\ read' = read
    BY <1>3 DEF RemoveShm, CreateShm
  <2>2. \A q \in Procs \ {p} : pc'[q] = pc[q]
    BY <1>3 DEF RemoveShm, CreateShm
  <2>3. pc'[p] = "constructed" \/ Owns(p)' => shmName' = p
    BY <1>3 DEF RemoveShm, CreateShm
  <2>4. QED
    BY <1>2, <1>3, <2>1, <2>2, <2>3
<1>4. ASSUME NEW p \in Procs, IsAlreadyRunning(p) \/ Initialize(p) \/ Die(p), OneKeepsItsSegment
      PROVE  OneKeepsItsSegment'
  <2>1. p \in Alive /\ loaded' = loaded /\ read' = read
    BY <1>4 DEF IsAlreadyRunning, Initialize, Die
  <2>2. \A q \in Procs \ {p} : pc'[q] = pc[q]
    BY <1>4 DEF IsAlreadyRunning, Initialize, Die
  <2>3. shmName' = p
    <3>1. pc[p] = "constructed" \/ Owns(p)
      BY <1>4 DEF IsAlreadyRunning, Initialize, Die
    <3>2. QED
      BY <1>4, <2>1, <3>1 DEF IsAlreadyRunning, Initialize, Die
  <2>4. QED
    BY <1>2, <1>4, <2>1, <2>2, <2>3
<1>5. ASSUME NEW p \in Procs, Start(p) \/ StartFails(p) \/ signalHandler(p), OneKeepsItsSegment
      PROVE  OneKeepsItsSegment'
  <2>1. p \in Alive /\ loaded' = loaded /\ read' = read
    BY <1>5 DEF Start, StartFails, signalHandler
  <2>2. \A q \in Procs \ {p} : pc'[q] = pc[q]
    BY <1>5 DEF Start, StartFails, signalHandler
  <2>3. shmName' = p
    <3>1. Owns(p)
      BY <1>5 DEF Start, StartFails, signalHandler
    <3>2. QED
      BY <1>5, <2>1, <3>1 DEF Start, StartFails, signalHandler
  <2>4. QED
    BY <1>2, <1>5, <2>1, <2>2, <2>3
<1>6. ASSUME NEW p \in Procs, RemoveLock(p) \/ RemoveShmAtExit(p) \/ Crash(p), OneKeepsItsSegment
      PROVE  OneKeepsItsSegment'
  <2>1. p \in Alive /\ loaded' = loaded /\ read' = read
    BY <1>6 DEF RemoveLock, RemoveShmAtExit, Crash
  <2>2. \A q \in Procs \ {p} : pc'[q] = pc[q]
    BY <1>6 DEF RemoveLock, RemoveShmAtExit, Crash
  <2>3. pc'[p] \in {"unlocked", "ended"}
    BY <1>6 DEF RemoveLock, RemoveShmAtExit, Crash
  <2>4. QED
    BY <1>2, <1>6, <2>1, <2>2, <2>3
<1>7. ASSUME NEW p \in Procs, LoadLine(p), OneKeepsItsSegment
      PROVE  OneKeepsItsSegment'
  <2>1. p \in Alive /\ shmName = p /\ pc' = pc /\ shmName' = shmName
    BY <1>7 DEF LoadLine
  <2>2. \A q \in Alive : q = p
    BY <1>7, <2>1
  <2>3. read'[p] = read[p] + 1 /\ read[p] \in Nat
    BY <1>7 DEF LoadLine
  <2>4. loaded'[p] = loaded[p] \cup {[by |-> p, line |-> read[p] + 1]}
    BY <1>7, <2>1, <2>3 DEF LoadLine
  <2>5. 1 .. read[p] + 1 = (1 .. read[p]) \cup {read[p] + 1}
    BY <2>3
  <2>6. loaded'[p] = {[by |-> p, line |-> n] : n \in 1 .. read'[p]}
    <3>1. loaded[p] = {[by |-> p, line |-> n] : n \in 1 .. read[p]}
      BY <1>7, <2>1
    <3>2. {[by |-> p, line |-> n] : n \in (1 .. read[p]) \cup {read[p] + 1}}
            = {[by |-> p, line |-> n] : n \in 1 .. read[p]} \cup {[by |-> p, line |-> read[p] + 1]}
      OBVIOUS
    <3>3. QED
      BY <2>3, <2>4, <2>5, <3>1, <3>2
  <2>7. QED
    BY <1>7, <2>1, <2>2, <2>6
<1>8. ASSUME NEW c \in Commands, OpenCommand(c) \/ RulesCommand(c), OneKeepsItsSegment
      PROVE  OneKeepsItsSegment'
  BY <1>8 DEF OpenCommand, RulesCommand
<1>9. ASSUME Unlock \/ UNCHANGED vars, OneKeepsItsSegment
      PROVE  OneKeepsItsSegment'
  BY <1>9 DEF Unlock, vars
<1>10. (\E p \in Procs : OpenLock(p)) \/ OneKeepsItsSegment
  <2>1. CASE alone' = alone
    BY <2>1 DEF SegmentInvariant
  <2>2. CASE alone' # alone
    BY <2>2 DEF Next, RemoveShm, CreateShm, IsAlreadyRunning, LoadLine, Initialize, Die, Start,
                StartFails, signalHandler, RemoveLock, RemoveShmAtExit, Crash, Unlock,
                OpenCommand, RulesCommand, vars
  <2>3. QED
    BY <2>1, <2>2
<1>11. QED
  BY <1>1, <1>3, <1>4, <1>5, <1>6, <1>7, <1>8, <1>9, <1>10 DEF Next

(* The process that is alone keeps its segment, for any number of starts.  *)
LEMMA SegmentInvariantHolds == Spec => []SegmentInvariant
<1>1. Init => SegmentInvariant
  BY DEF Init, SegmentInvariant, FreshSegments, OneKeepsItsSegment, Alive
<1>2. QED
  BY <1>1, SegmentStep, LifecycleTypeCorrect, PTL DEF Spec

(* A daemon no other start overlaps evaluates the lines of the rule file   *)
(* its load carried out, without a gap and nobody else's, whatever crashed *)
(* or overlapped before: for any file, also one that is missing or has a   *)
(* line that fails.                                                        *)
THEOREM RunsWithItsRulesHolds == Spec => []RunsWithItsRules
<1>1. SegmentInvariant => RunsWithItsRules
  BY DEF SegmentInvariant, OneKeepsItsSegment, RunsWithItsRules, Running, Alive
<1>2. QED
  BY <1>1, SegmentInvariantHolds, PTL

(* Every rules command started in the life of such a daemon opens the      *)
(* segment that daemon evaluates, and still has it when it changes it.     *)
THEOREM CommandsReachLoneDaemonHolds == Spec => []CommandsReachLoneDaemon
<1>1. LifecycleTypeOK /\ SegmentInvariant => CommandsReachLoneDaemon
  BY LifecycleConstants
  DEF SegmentInvariant, FreshSegments, OneKeepsItsSegment, CommandsReachLoneDaemon, Running,
      Alive, Owns, LifecycleTypeOK
<1>2. QED
  BY <1>1, SegmentInvariantHolds, LifecycleTypeCorrect, PTL
=============================================================================
