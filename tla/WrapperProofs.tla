----------------------------- MODULE WrapperProofs -----------------------------
(***************************************************************************)
(* Proofs about WrapperBroker, and about WrapperSystem, the broker with    *)
(* the relays, the panels and the sockets around it, for any number of     *)
(* windows, sessions, turns and restarts.                                  *)
(***************************************************************************)
EXTENDS WrapperSystem, FiniteSetTheorems, TLAPS

-----------------------------------------------------------------------------
(* The broker.                                                             *)

\* What Accounted rests on: a child exists only behind a session, its stdin is
\* open only while it runs, and it has said and been given nothing before it
\* was spawned.
Lifecycle ==
  \A w \in Wrappers :
    /\ child[w] # "none" <=> conn[w] = "session"
    /\ child[w] # "run" => ~ stdin[w]
    /\ child[w] = "none" => queued[w] = 0 /\ ~ busy[w] /\ sid[w] = None
    /\ w \in active => stdin[w]
    /\ w \in draining => (stdin[w] <=> drain[w] = "turn")

\* With a panel that waits for each answer, busy says whether a turn is open.
BusyMeansOwed ==
  ~ Pipelined =>
    \A w \in Wrappers :
      /\ queued[w] <= 1
      /\ child[w] = "run" => (busy[w] <=> queued[w] = 1)

IInv == TypeOK /\ Accounted /\ Lifecycle /\ BusyMeansOwed

\* Updating a function at one point keeps its type.
LEMMA ExceptType ==
  ASSUME NEW S, NEW T, NEW f \in [S -> T], NEW x, NEW v \in T
  PROVE  [f EXCEPT ![x] = v] \in [S -> T]
  OBVIOUS

LEMMA NextTypeOK == TypeOK /\ [Next]_vars => TypeOK'
<1> SUFFICES ASSUME TypeOK, [Next]_vars PROVE TypeOK'
  OBVIOUS
<1> USE BrokerAssumption DEF TypeOK, connVars, childVars, regVars
<1>1. ASSUME NEW w \in Wrappers, HelloRefused(w) \/ HelloHeld(w) PROVE TypeOK'
  BY <1>1 DEF HelloRefused, HelloHeld, DrainingFor
<1>2. ASSUME NEW w \in Wrappers, Spawn(w) PROVE TypeOK'
  <2>1. CASE gone[w]
    BY <1>2, <2>1 DEF Spawn
  <2>2. CASE ~ gone[w]
    <3>1. stdin' = [stdin EXCEPT ![w] = TRUE]
      BY <1>2, <2>2 DEF Spawn
    <3>2. stdin' \in [Wrappers -> BOOLEAN]
      BY <3>1, ExceptType
    <3> QED BY <1>2, <2>2, <3>2 DEF Spawn
  <2> QED BY <2>1, <2>2
<1>3. ASSUME NEW w \in Wrappers, SpawnFails(w),
             gone' \in {gone, [gone EXCEPT ![w] = TRUE]}
      PROVE TypeOK'
  <2>1. gone' \in [Wrappers -> BOOLEAN]
    BY <1>3
  <2> QED BY <1>3, <2>1 DEF SpawnFails
<1>4. ASSUME NEW w \in Wrappers, Claim(w) PROVE TypeOK'
  BY <1>1, <1>2, <1>3, <1>4
     DEF Claim, HelloSpawned, HelloSpawnFailed, HoldReleased, HoldTimeout, HoldSpawnFailed
<1>5. ASSUME NEW w \in Wrappers, StdinFrame(w) PROVE TypeOK'
  BY <1>5 DEF StdinFrame
<1>6. ASSUME NEW w \in Wrappers, Disconnect(w) PROVE TypeOK'
  BY <1>6 DEF Disconnect, StartDrain
<1>7. ASSUME NEW w \in Wrappers, ChildStep(w) PROVE TypeOK'
  <2>1. CASE ChildInit(w)
    <3>1. sid' \in [Wrappers -> Sessions \cup {None}]
      BY <2>1 DEF ChildInit
    <3> QED BY <2>1, <3>1 DEF ChildInit
  <2>2. CASE ChildResult(w)
    <3>1. queued' \in [Wrappers -> 0..MaxTurns]
      BY <2>2 DEF ChildResult
    <3>2. busy' = [busy EXCEPT ![w] = FALSE]
          /\ (stdin' = stdin \/ stdin' = [stdin EXCEPT ![w] = FALSE])
      BY <2>2 DEF ChildResult
    <3>3. busy' \in [Wrappers -> BOOLEAN] /\ stdin' \in [Wrappers -> BOOLEAN]
      BY <3>2, ExceptType
    <3> QED BY <2>2, <3>1, <3>3 DEF ChildResult
  <2>3. CASE ChildExit(w) \/ OrphanExit(w)
    <3>1. gone' \in [Wrappers -> BOOLEAN] /\ stdin' \in [Wrappers -> BOOLEAN]
      BY <2>3, ExceptType DEF ChildExit, OrphanExit
    <3> QED BY <2>3, <3>1 DEF ChildExit, OrphanExit
  <2> QED BY <1>7, <2>1, <2>2, <2>3 DEF ChildStep
<1>8. ASSUME NEW w \in Wrappers, DrainStep(w) PROVE TypeOK'
  BY <1>8 DEF DrainStep, DrainDeadline, DrainSignal
<1>9. CASE Restart
  BY <1>9 DEF Restart
<1>10. CASE UNCHANGED vars
  BY <1>10 DEF vars
<1> QED BY <1>4, <1>5, <1>6, <1>7, <1>8, <1>9, <1>10 DEF Next

LEMMA InitIInv == Init => IInv
  BY BrokerAssumption DEF Init, IInv, TypeOK, Accounted, Lifecycle, BusyMeansOwed

LEMMA NextIInv == IInv /\ [Next]_vars => IInv'
<1> SUFFICES ASSUME IInv, [Next]_vars PROVE (Accounted /\ Lifecycle /\ BusyMeansOwed)'
  BY NextTypeOK DEF IInv
<1> DEFINE Kept == Accounted' /\ Lifecycle' /\ BusyMeansOwed'
<1> USE DEF IInv, TypeOK, Accounted, Lifecycle, BusyMeansOwed,
        connVars, childVars, regVars
<1>1. ASSUME NEW w \in Wrappers, HelloRefused(w) \/ HelloHeld(w) PROVE Kept
  BY <1>1 DEF HelloRefused, HelloHeld, MayClaim
<1>2. ASSUME NEW w \in Wrappers, Spawn(w), child[w] = "none" PROVE Kept
  BY <1>2 DEF Spawn
<1>3. ASSUME NEW w \in Wrappers, SpawnFails(w), child[w] = "none",
             gone' \in {gone, [gone EXCEPT ![w] = TRUE]}
      PROVE Kept
  BY <1>3 DEF SpawnFails
<1>4. ASSUME NEW w \in Wrappers, Claim(w) PROVE Kept
  <2>1. child[w] = "none"
    BY <1>4 DEF Claim, HelloRefused, HelloHeld, HelloSpawned, HelloSpawnFailed,
                HoldReleased, HoldTimeout, HoldSpawnFailed, Released, MayClaim
  <2> HIDE DEF Kept, IInv, TypeOK, Accounted, Lifecycle, BusyMeansOwed
  <2> QED
    BY <1>1, <1>2, <1>3, <1>4, <2>1
       DEF Claim, HelloSpawned, HelloSpawnFailed, HoldReleased, HoldTimeout, HoldSpawnFailed
<1>5. ASSUME NEW w \in Wrappers, StdinFrame(w) PROVE Kept
  BY <1>5 DEF StdinFrame
<1>6. ASSUME NEW w \in Wrappers, Disconnect(w) PROVE Kept
  BY <1>6 DEF Disconnect, StartDrain
<1>7. ASSUME NEW w \in Wrappers, ChildStep(w) PROVE Kept
  <2>1. CASE ChildInit(w)
    BY <2>1 DEF ChildInit
  <2>2. CASE ChildResult(w)
    <3>1. queued[w] \in Nat /\ queued'[w] = queued[w] - 1
      BY <2>2, BrokerAssumption DEF ChildResult
    <3>2. BusyMeansOwed'
      BY <2>2, <3>1 DEF ChildResult
    <3>3. Accounted' /\ Lifecycle'
      BY <2>2 DEF ChildResult
    <3> QED BY <3>2, <3>3
  <2>3. CASE ChildExit(w)
    BY <2>3 DEF ChildExit
  <2>4. CASE OrphanExit(w)
    BY <2>4 DEF OrphanExit
  <2> QED BY <1>7, <2>1, <2>2, <2>3, <2>4 DEF ChildStep
<1>8. ASSUME NEW w \in Wrappers, DrainStep(w) PROVE Kept
  BY <1>8 DEF DrainStep, DrainDeadline, DrainSignal
<1>9. ASSUME Restart PROVE Kept
  BY <1>9 DEF Restart
<1>10. ASSUME UNCHANGED vars PROVE Kept
  BY <1>10 DEF vars
<1> HIDE DEF Kept
<1>11. Kept
  <2> HIDE DEF IInv, TypeOK, Accounted, Lifecycle, BusyMeansOwed
  <2> QED BY <1>4, <1>5, <1>6, <1>7, <1>8, <1>9, <1>10 DEF Next
<1> QED BY <1>11 DEF Kept

\* The invariant holds throughout.
THEOREM Invariance == Spec => []IInv
  BY InitIInv, NextIInv, PTL DEF Spec

\* Every variable keeps its type.
THEOREM TypeCorrect == Spec => []TypeOK
  BY Invariance, PTL DEF IInv

\* Every running child is accounted for exactly once, and no dead connection
\* keeps a slot: the registry's bookkeeping (claudeWrapperRegistry.js:51-64)
\* for every number of wrappers, restarts included.
THEOREM ChildrenAccounted == Spec => []ChildrenHeld
  BY Invariance, PTL DEF IInv, ChildrenHeld

-----------------------------------------------------------------------------
(* The cap.                                                                *)

\* A window is refused only for open ones: the slots are theirs, whatever drains,
\* failed spawns, deaths and restarts came before (claudeWrapperRegistry.js:36-38,
\* 54-56), for every number of windows.
THEOREM RefusalsJustified == Spec => RefusedOnlyWhenFull
<1>1. IInv /\ [Next]_vars =>
        [\A w \in Wrappers :
           (conn[w] # "refused" /\ conn'[w] = "refused") => Cardinality(Open) >= Cap]_vars
  <2> SUFFICES ASSUME IInv, Next, NEW w \in Wrappers, conn[w] # "refused", conn'[w] = "refused"
               PROVE  Cardinality(Open) >= Cap
    OBVIOUS
  <2>1. Open = active
    BY DEF IInv, TypeOK, Accounted, Open
  <2>2. ~ Restart
    BY DEF Restart, IInv, TypeOK
  <2>3. PICK v \in Wrappers : HelloRefused(v)
    BY <2>2 DEF Next, Claim, HelloHeld, HelloSpawned, HelloSpawnFailed, HoldReleased, HoldTimeout,
                HoldSpawnFailed, Spawn, SpawnFails, StdinFrame, Disconnect, ChildStep, ChildInit,
                ChildResult, ChildExit, OrphanExit, DrainStep, DrainDeadline, DrainSignal, connVars,
                IInv, TypeOK
  <2> QED BY <2>1, <2>3 DEF HelloRefused
<1> QED BY <1>1, Invariance, PTL DEF Spec, RefusedOnlyWhenFull

-----------------------------------------------------------------------------
(* The held resume.                                                        *)

\* A held claim waits for a child that was running when it was chosen: that
\* child still runs, or it has exited.  It cannot be an orphan of a broker that
\* died, for the claim died with it.
BlockerNamed ==
  \A w \in Wrappers :
    conn[w] = "holding" =>
      /\ blocker[w] \in Wrappers
      /\ child[blocker[w]] \in {"run", "exited"}

LEMMA InitBlocker == Init => BlockerNamed
  BY DEF Init, BlockerNamed

LEMMA NextBlocker == IInv /\ BlockerNamed /\ [Next]_vars => BlockerNamed'
<1> SUFFICES ASSUME IInv, BlockerNamed, [Next]_vars PROVE BlockerNamed'
  OBVIOUS
<1> USE DEF IInv, TypeOK, BlockerNamed
<1>1. CASE UNCHANGED vars
  BY <1>1 DEF vars, connVars, childVars
<1>2. ASSUME NEW v \in Wrappers, HelloHeld(v) PROVE BlockerNamed'
  <2>1. PICK d \in DrainingFor(v) : blocker' = [blocker EXCEPT ![v] = d]
    BY <1>2 DEF HelloHeld
  <2>2. d \in Wrappers /\ child[d] = "run"
    BY <2>1 DEF DrainingFor
  <2>3. conn' = [conn EXCEPT ![v] = "holding"] /\ child' = child
    BY <1>2 DEF HelloHeld, childVars
  <2> QED BY <2>1, <2>2, <2>3
<1>3. ASSUME NEW v \in Wrappers,
             \/ HelloSpawned(v) \/ HelloSpawnFailed(v)
             \/ HoldReleased(v) \/ HoldTimeout(v) \/ HoldSpawnFailed(v)
      PROVE  BlockerNamed'
  <2>1. /\ conn' = [conn EXCEPT ![v] = "session"]
        /\ blocker' = [blocker EXCEPT ![v] = None]
        /\ \E c \in {"run", "exited"} : child' = [child EXCEPT ![v] = c]
    BY <1>3 DEF HelloSpawned, HelloSpawnFailed, HoldReleased, HoldTimeout, HoldSpawnFailed,
                Spawn, SpawnFails
  <2> QED BY <2>1
<1>4. ASSUME NEW v \in Wrappers,
             \/ HelloRefused(v) \/ StdinFrame(v) \/ Disconnect(v)
             \/ ChildStep(v) \/ DrainStep(v)
      PROVE  BlockerNamed'
  <2>1. blocker' = blocker /\ (conn' = conn \/ conn' = [conn EXCEPT ![v] = "refused"])
    BY <1>4 DEF HelloRefused, StdinFrame, Disconnect, ChildStep, ChildInit, ChildResult, ChildExit,
                OrphanExit, DrainStep, DrainDeadline, DrainSignal, connVars
  <2>2. child' = child \/ child' = [child EXCEPT ![v] = "exited"]
    BY <1>4 DEF HelloRefused, StdinFrame, Disconnect, ChildStep, ChildInit, ChildResult, ChildExit,
                OrphanExit, DrainStep, DrainDeadline, DrainSignal, childVars
  <2> QED BY <2>1, <2>2
<1>5. CASE Restart
  BY <1>5 DEF Restart
<1> QED BY <1>1, <1>2, <1>3, <1>4, <1>5 DEF Next, Claim

\* No resume starts beside a draining child that owns its session, unless the
\* wait ran out or the one child it waited for has exited: the transcript has
\* been flushed before it is read (claudeWrapperRegistry.js:26-31).
THEOREM ResumesWait == Spec => ResumeAfterFlush
<1>1. IInv /\ BlockerNamed /\ [Next]_vars =>
        [\A w \in Resumers :
           (child[w] = "none" /\ child'[w] = "run")
             => \/ ~ \E d \in draining : child[d] = "run" /\ sid[d] = Session[w]
                \/ HoldTimeout(w)
                \/ conn[w] = "holding" /\ child[blocker[w]] = "exited"]_vars
  <2> SUFFICES ASSUME IInv, BlockerNamed, Next, NEW w \in Resumers,
                      child[w] = "none", child'[w] = "run", ~ HoldTimeout(w)
               PROVE  \/ ~ \E d \in draining : child[d] = "run" /\ sid[d] = Session[w]
                      \/ conn[w] = "holding" /\ child[blocker[w]] = "exited"
    OBVIOUS
  <2>1. w \in Wrappers
    BY BrokerAssumption
  <2>2. HelloSpawned(w) \/ HoldReleased(w)
    <3>1. ASSUME NEW v \in Wrappers,
                 \/ HelloRefused(v) \/ HelloHeld(v) \/ StdinFrame(v) \/ Disconnect(v)
                 \/ DrainStep(v)
          PROVE  FALSE
      BY <3>1 DEF HelloRefused, HelloHeld, StdinFrame, Disconnect, DrainStep, DrainDeadline,
                  DrainSignal, childVars
    <3>2. ASSUME NEW v \in Wrappers,
                 HelloSpawnFailed(v) \/ HoldSpawnFailed(v) \/ ChildStep(v)
          PROVE  FALSE
      <4>1. child' = child \/ child' = [child EXCEPT ![v] = "exited"]
        BY <3>2 DEF HelloSpawnFailed, HoldSpawnFailed, SpawnFails, ChildStep, ChildInit,
                    ChildResult, ChildExit, OrphanExit
      <4> QED BY <2>1, <4>1 DEF IInv, TypeOK
    <3>3. ASSUME Restart PROVE FALSE
      BY <2>1, <3>3 DEF Restart
    <3>4. PICK v \in Wrappers : HelloSpawned(v) \/ HoldReleased(v) \/ HoldTimeout(v)
      BY <3>1, <3>2, <3>3 DEF Next, Claim
    <3>5. child' = [child EXCEPT ![v] = "run"]
      BY <3>4 DEF HelloSpawned, HoldReleased, HoldTimeout, Spawn
    <3>6. v = w
      BY <2>1, <3>5 DEF IInv, TypeOK
    <3> QED BY <3>4, <3>6
  <2>3. CASE HelloSpawned(w)
    BY <2>3 DEF HelloSpawned, DrainingFor
  <2>4. CASE HoldReleased(w)
    BY <2>1, <2>4 DEF HoldReleased, Released, BlockerNamed
  <2> QED BY <2>2, <2>3, <2>4
<1> QED BY <1>1, Invariance, InitBlocker, NextBlocker, PTL DEF Spec, ResumeAfterFlush

-----------------------------------------------------------------------------
(* The promise.                                                            *)

\* A panel that waits for each answer never has a turn cut short by its close:
\* stdin is closed on an open turn only at the drain's deadline.
THEOREM TurnsFinish == ~ Pipelined => (Spec => FinishTurn)
<1> SUFFICES ASSUME ~ Pipelined PROVE Spec => FinishTurn
  OBVIOUS
<1>1. IInv /\ [Next]_vars =>
        [\A w \in Wrappers :
           (stdin[w] /\ ~ stdin'[w] /\ child'[w] = "run")
             => queued'[w] = 0 \/ DrainDeadline(w)]_vars
  <2> SUFFICES ASSUME IInv, Next, NEW v \in Wrappers,
                      stdin[v], ~ stdin'[v], child'[v] = "run", ~ DrainDeadline(v)
               PROVE  queued'[v] = 0
    OBVIOUS
  <2> USE DEF IInv, TypeOK, Accounted, Lifecycle, BusyMeansOwed, connVars, childVars, regVars
  <2>a. ASSUME NEW w \in Wrappers, Claim(w) PROVE FALSE
    <3>1. stdin' = stdin \/ stdin' = [stdin EXCEPT ![w] = TRUE]
      BY <2>a DEF Claim, HelloRefused, HelloHeld, HelloSpawned, HelloSpawnFailed,
                  HoldReleased, HoldTimeout, HoldSpawnFailed, Spawn, SpawnFails
    <3> QED BY <3>1
  <2>b. ASSUME NEW w \in Wrappers, StdinFrame(w) \/ ChildInit(w) \/ OrphanExit(w) \/ DrainSignal(w)
        PROVE  FALSE
    BY <2>b DEF StdinFrame, ChildInit, OrphanExit, DrainSignal
  <2>c. ASSUME NEW w \in Wrappers, ChildExit(w) PROVE FALSE
    BY <2>c DEF ChildExit
  <2>d. ASSUME NEW w \in Wrappers, DrainDeadline(w) PROVE FALSE
    <3>1. w # v
      BY <2>d
    <3> QED BY <2>d, <3>1 DEF DrainDeadline
  <2>e. ASSUME Restart PROVE FALSE
    BY <2>e DEF Restart
  <2>1. PICK w \in Wrappers : Disconnect(w) \/ ChildResult(w)
    <3> HIDE DEF IInv, TypeOK, Accounted, Lifecycle, BusyMeansOwed
    <3> QED BY <2>a, <2>b, <2>c, <2>d, <2>e DEF Next, ChildStep, DrainStep
  <2>2. w = v
    <3>1. stdin' = stdin \/ \E b \in BOOLEAN : stdin' = [stdin EXCEPT ![w] = b]
      BY <2>1 DEF Disconnect, StartDrain, ChildResult
    <3> QED BY <3>1
  <2>5. queued[v] \in {0, 1}
    <3>1. queued[v] \in Nat /\ queued[v] <= 1
      BY BrokerAssumption
    <3> QED BY <3>1
  <2>3. CASE Disconnect(v)
    BY <2>3, <2>5 DEF Disconnect, StartDrain
  <2>4. CASE ChildResult(v)
    BY <2>4, <2>5 DEF ChildResult
  <2> QED BY <2>1, <2>2, <2>3, <2>4
<1> QED BY <1>1, Invariance, PTL DEF Spec, FinishTurn

\* What the invariant says of a child's life in the abstract specification.
LEMMA LifeOf ==
  ASSUME IInv, NEW w \in Wrappers
  PROVE  /\ child[w] = "none" => Lives[w] = "unborn"
         /\ child[w] = "exited" => Lives[w] = "dead"
         /\ child[w] = "orphan" => Lives[w] = "lost"
         /\ w \in active => Lives[w] = "attached"
         /\ w \in draining => Lives[w] = "leaving"
  BY DEF Lives, Life, IInv, TypeOK, Accounted

\* A step that leaves the processes and `active` alone leaves lives alone.
LEMMA LivesKept ==
  ASSUME child' = child, active' = active
  PROVE  Lives' = Lives
  BY DEF Lives, Life

\* A step about one child changes one life.
LEMMA LivesAt ==
  ASSUME NEW w \in Wrappers, NEW l, Life(w)' = l,
         \A v \in Wrappers \ {w} : child'[v] = child[v] /\ (v \in active' <=> v \in active)
  PROVE  Lives' = [Lives EXCEPT ![w] = l]
<1>1. ASSUME NEW v \in Wrappers, v # w PROVE Life(v)' = Life(v)
  BY <1>1 DEF Life
<1> QED BY <1>1 DEF Lives

LEMMA InitPromise == Init => Promise!Init
  BY DEF Init, Promise!Init, Lives, Life

LEMMA StepPromise ==
  ASSUME ~ Pipelined, IInv, [Next]_vars
  PROVE  [Promise!Next]_<<Lives, queued, stdin>>
<1> DEFINE Abs == [Promise!Next]_<<Lives, queued, stdin>>
<1> USE DEF connVars, childVars, regVars
<1>1. ASSUME NEW w \in Wrappers,
             HelloRefused(w) \/ HelloHeld(w) \/ ChildInit(w) \/ DrainSignal(w) \/ UNCHANGED vars
      PROVE  Abs
  BY <1>1, LivesKept DEF HelloRefused, HelloHeld, ChildInit, DrainSignal, vars
<1>2. ASSUME NEW w \in Wrappers, Spawn(w), child[w] = "none" PROVE Abs
  <2>1. Lives[w] = "unborn"
    BY <1>2, LifeOf
  <2>2. CASE gone[w]
    <3>1. Life(w)' = "leaving"
      BY <1>2, <2>2 DEF Spawn, Life, IInv, TypeOK, Accounted
    <3>2. Lives' = [Lives EXCEPT ![w] = "leaving"]
      BY <1>2, <2>2, <3>1, LivesAt DEF Spawn, IInv, TypeOK
    <3>3. Promise!Begin(w)
      BY <1>2, <2>1, <2>2, <3>2 DEF Promise!Begin, Spawn
    <3> QED BY <3>3 DEF Promise!Next
  <2>3. CASE ~ gone[w]
    <3>1. Life(w)' = "attached"
      BY <1>2, <2>3 DEF Spawn, Life, IInv, TypeOK
    <3>2. Lives' = [Lives EXCEPT ![w] = "attached"]
      BY <1>2, <2>3, <3>1, LivesAt DEF Spawn, IInv, TypeOK
    <3>3. Promise!Begin(w)
      BY <1>2, <2>1, <2>3, <3>2 DEF Promise!Begin, Spawn
    <3> QED BY <3>3 DEF Promise!Next
  <2> QED BY <2>2, <2>3
<1>3. ASSUME NEW w \in Wrappers, SpawnFails(w), child[w] = "none" PROVE Abs
  <2>1. Lives' = [Lives EXCEPT ![w] = "dead"]
    BY <1>3, LivesAt DEF SpawnFails, Life, IInv, TypeOK
  <2>2. Promise!Begin(w)
    BY <1>3, <2>1, LifeOf DEF Promise!Begin, SpawnFails
  <2> QED BY <2>2 DEF Promise!Next
<1>4. ASSUME NEW w \in Wrappers, Claim(w) PROVE Abs
  <2>1. child[w] = "none"
    BY <1>4 DEF Claim, HelloRefused, HelloHeld, HelloSpawned, HelloSpawnFailed, HoldReleased,
                HoldTimeout, HoldSpawnFailed, Released, MayClaim, IInv, Lifecycle
  <2> HIDE DEF Abs
  <2> QED
    BY <1>1, <1>2, <1>3, <1>4, <2>1
       DEF Claim, HelloSpawned, HelloSpawnFailed, HoldReleased, HoldTimeout, HoldSpawnFailed
<1>5. ASSUME NEW w \in Wrappers, StdinFrame(w) PROVE Abs
  <2>1. w \in active
    BY <1>5 DEF StdinFrame, IInv, Accounted
  <2>2. Lives[w] = "attached" /\ Lives' = Lives
    BY <1>5, <2>1, LifeOf, LivesKept DEF StdinFrame
  <2>3. Promise!Submit(w)
    BY <1>5, <2>2 DEF Promise!Submit, StdinFrame
  <2> QED BY <2>3 DEF Promise!Next
<1>6. ASSUME NEW w \in Wrappers, Disconnect(w) PROVE Abs
  <2>1. CASE w \in active
    <3>1. Lives[w] = "attached" /\ child[w] = "run"
      BY <2>1, LifeOf DEF IInv, Accounted
    <3>2. Lives' = [Lives EXCEPT ![w] = "leaving"]
      BY <1>6, <2>1, <3>1, LivesAt DEF Disconnect, StartDrain, Life
    <3>3. busy[w] = (queued[w] > 0)
      <4>1. (busy[w] <=> queued[w] = 1) /\ queued[w] \in Nat /\ queued[w] <= 1
        BY <3>1, BrokerAssumption DEF IInv, BusyMeansOwed, TypeOK
      <4>2. busy[w] \in BOOLEAN
        BY DEF IInv, TypeOK
      <4> QED BY <4>1, <4>2
    <3>4. Promise!Leave(w)
      BY <1>6, <2>1, <3>1, <3>2, <3>3 DEF Promise!Leave, Disconnect, StartDrain
    <3> QED BY <3>4 DEF Promise!Next
  <2>2. CASE w \notin active
    BY <1>6, <2>2, LivesKept DEF Disconnect
  <2> QED BY <2>1, <2>2
<1>7. ASSUME NEW w \in Wrappers, ChildResult(w) PROVE Abs
  <2>1. Lives' = Lives /\ Lives[w] \in {"attached", "leaving"}
    BY <1>7, LivesKept, LifeOf DEF ChildResult, IInv, Accounted
  <2>2. queued[w] = 1 /\ queued' = [queued EXCEPT ![w] = 0]
    <3>1. queued[w] \in Nat /\ queued[w] > 0 /\ queued[w] <= 1
      BY <1>7, BrokerAssumption DEF ChildResult, IInv, TypeOK, BusyMeansOwed
    <3>2. queued[w] = 1
      BY <3>1
    <3> QED BY <1>7, <3>2 DEF ChildResult
  <2>3. stdin' = [stdin EXCEPT ![w] = stdin[w] /\ (Lives[w] = "attached" \/ 0 > 0)]
    <3>1. CASE drain[w] = "turn"
      <4>1. Lives[w] = "leaving"
        BY <3>1, LifeOf DEF IInv, Accounted
      <4>2. stdin' = [stdin EXCEPT ![w] = FALSE]
        BY <1>7, <3>1 DEF ChildResult
      <4>3. (stdin[w] /\ (Lives[w] = "attached" \/ 0 > 0)) = FALSE
        BY <4>1
      <4> QED BY <4>2, <4>3, Zenon
    <3>2. CASE drain[w] # "turn" /\ w \in draining
      <4>1. Lives[w] = "leaving" /\ stdin[w] = FALSE /\ stdin' = stdin
        BY <1>7, <3>2, LifeOf DEF ChildResult, IInv, Lifecycle, TypeOK
      <4>2. stdin' = [stdin EXCEPT ![w] = FALSE]
        BY <4>1 DEF IInv, TypeOK
      <4>3. (stdin[w] /\ (Lives[w] = "attached" \/ 0 > 0)) = FALSE
        BY <4>1
      <4> QED BY <4>2, <4>3
    <3>3. CASE w \in active
      <4>1. Lives[w] = "attached" /\ stdin[w] = TRUE /\ stdin' = stdin
        BY <1>7, <3>3, LifeOf DEF ChildResult, IInv, Lifecycle, TypeOK, Accounted
      <4> QED BY <4>1 DEF IInv, TypeOK
    <3> QED BY <1>7, <3>1, <3>2, <3>3 DEF ChildResult, IInv, Accounted
  <2>4. Promise!Answer(w)
    BY <1>7, <2>1, <2>2, <2>3 DEF Promise!Answer, Promise!Alive, IInv, TypeOK
  <2> QED BY <2>4 DEF Promise!Next
<1>8. ASSUME NEW w \in Wrappers, ChildExit(w) \/ OrphanExit(w) PROVE Abs
  <2>1. Lives' = [Lives EXCEPT ![w] = "dead"]
    BY <1>8, LivesAt DEF ChildExit, OrphanExit, Life, IInv, TypeOK
  <2>2. Lives[w] \notin {"unborn", "dead"}
    BY <1>8, LifeOf DEF ChildExit, OrphanExit, IInv, Accounted
  <2>3. stdin' = [stdin EXCEPT ![w] = FALSE] /\ UNCHANGED queued
    BY <1>8 DEF ChildExit, OrphanExit, IInv, TypeOK, Lifecycle
  <2>4. Promise!Die(w)
    BY <2>1, <2>2, <2>3 DEF Promise!Die
  <2> QED BY <2>4 DEF Promise!Next
<1>9. ASSUME NEW w \in Wrappers, DrainDeadline(w) PROVE Abs
  <2>1. Lives' = Lives /\ Lives[w] = "leaving" /\ stdin[w]
    BY <1>9, LivesKept, LifeOf DEF DrainDeadline, IInv, Accounted, Lifecycle
  <2>2. Promise!GiveUp(w)
    BY <1>9, <2>1 DEF Promise!GiveUp, DrainDeadline
  <2> QED BY <2>2 DEF Promise!Next
<1>10. ASSUME Restart PROVE Abs
  <2>1. Lives' = [w \in Wrappers |-> IF Promise!Alive(w) THEN "lost" ELSE Lives[w]]
    BY <1>10 DEF Restart, Lives, Life, Promise!Alive, IInv, TypeOK
  <2>2. Promise!LoseBroker
    BY <1>10, <2>1 DEF Restart, Promise!LoseBroker
  <2> QED BY <2>2 DEF Promise!Next
<1> HIDE DEF Abs
<1>11. UNCHANGED vars => Abs
  BY LivesKept DEF Abs, vars
<1>12. Abs
  BY <1>1, <1>4, <1>5, <1>6, <1>7, <1>8, <1>9, <1>10, <1>11 DEF Next, ChildStep, DrainStep
<1> QED BY <1>12 DEF Abs

\* The broker, facing a panel that waits for each answer, implements the
\* abstract TurnSurvival: a panel close never cuts a turn short, and only the
\* deadline, the child's own exit or the broker's loss does.
THEOREM Refinement == ~ Pipelined => (Spec => KeepsPromise)
<1> SUFFICES ASSUME ~ Pipelined PROVE Spec => KeepsPromise
  OBVIOUS
<1>1. IInv /\ [Next]_vars => [Promise!Next]_<<Lives, queued, stdin>>
  BY StepPromise
<1> QED BY <1>1, InitPromise, Invariance, PTL DEF Spec, KeepsPromise, Promise!Spec, Promise!survival

-----------------------------------------------------------------------------
(* The composition is the broker with a narrower environment.              *)

LEMMA InitBroker == SysInit => Init
BY DEF SysInit

LEMMA StepBroker == [SysNext]_sysVars => [Next]_vars
<1> SUFFICES ASSUME [SysNext]_sysVars PROVE [Next]_vars
  OBVIOUS
<1>1. ASSUME NEW w \in Wrappers, RelayReads(w)
      PROVE  UNCHANGED vars
  BY <1>1 DEF RelayReads, RelayAck, RelayRefused, RelayOutput, RelayExitFrame, RelayLost, Fallback
<1>2. ASSUME NEW w \in Wrappers,
             RelayStart(w) \/ RelayUnreachable(w) \/ AckTimeout(w) \/ PanelTypes(w)
               \/ PanelTerm(w) \/ PanelKill(w) \/ DirectExit(w)
      PROVE  UNCHANGED vars
  BY <1>2 DEF RelayStart, RelayUnreachable, AckTimeout, Fallback, PanelTypes, PanelTerm,
              PanelKill, DirectExit
<1>3. ASSUME NEW w \in Wrappers, BrokerReads(w)
      PROVE  Next \/ UNCHANGED vars
  BY <1>3 DEF BrokerReads, BrokerHello, BrokerStdin, BrokerDisconnect, BrokerIgnores, Next, Claim
<1>4. ASSUME NEW w \in Wrappers, HoldOver(w) \/ BrokerOutput(w) \/ BrokerExit(w) \/ Quiet(w)
      PROVE  Next
  BY <1>4 DEF HoldOver, BrokerOutput, BrokerExit, Quiet, Next, Claim, ChildStep
<1>5. ASSUME SysRestart
      PROVE  Next
  BY <1>5 DEF SysRestart, Next
<1>6. CASE UNCHANGED sysVars
  BY <1>6 DEF sysVars
<1> QED
  BY <1>1, <1>2, <1>3, <1>4, <1>5, <1>6 DEF SysNext

\* Whatever the relays, the panels and the sockets do, the broker in their midst
\* is the one that WrapperBroker specifies: what holds of it there, its accounting
\* and its cap, holds in the system.
THEOREM BrokerWithin == SysSpec => Spec
BY InitBroker, StepBroker, PTL DEF SysSpec, Spec

\* So no child is forgotten, no dead connection keeps a slot, and no window is
\* refused for one that has left (claudeWrapperRegistry.js:36-38,51-64).
THEOREM SystemHolds == SysSpec => []ChildrenHeld /\ RefusedOnlyWhenFull
BY BrokerWithin, ChildrenAccounted, RefusalsJustified, PTL

-----------------------------------------------------------------------------
(* The inductive invariant, window by window.                              *)

ToBroker == {"hello", "i", "s", "fin"}
ToRelay  == {"ack", "nak", "o", "x", "fin"}

\* The turns on their way to the broker, by their places.
Carried(s) == {i \in 1..Len(s) : s[i] = "i"}

\* A relay that hung up is heard last.
Staying(s) == \A i \in 1..Len(s) : s[i] \notin {"s", "fin"}

\* The broker closes on a relay only after a refusal or the child's exit.
Told(s) == \A i \in 1..Len(s) : s[i] = "fin" => i > 1 /\ s[i - 1] \in {"nak", "x"}

SysTypes ==
  /\ relay \in [Wrappers -> {"idle", "awaiting", "relaying", "fellback", "exited"}]
  /\ saw \in [Wrappers -> BOOLEAN]
  /\ typed \in [Wrappers -> 0..MaxTyped]
  /\ pend \in [Wrappers -> Nat] /\ bgot \in [Wrappers -> Nat] /\ dgot \in [Wrappers -> Nat]
  /\ up \in [Wrappers -> Seq(ToBroker)] /\ down \in [Wrappers -> Seq(ToRelay)]
  /\ direct \in [Wrappers -> {"none", "run", "exited"}]

\* What the panel typed is kept to be replayed until the broker has spoken, and a
\* relay that fell back has replayed it.
Replayable(w) ==
  /\ relay[w] \in {"idle", "awaiting"} => typed[w] = 0 /\ ~ saw[w]
  /\ relay[w] \in {"idle", "awaiting", "relaying"} =>
       dgot[w] = 0 /\ (~ saw[w] => pend[w] = typed[w])
  /\ relay[w] = "fellback" => dgot[w] = typed[w]
  /\ pend[w] <= typed[w] /\ dgot[w] <= typed[w]

\* The broker is given no turn that was not typed.
Conserved(w) == bgot[w] + Cardinality(Carried(up[w])) <= typed[w]

\* While the relay is on the socket it has not said goodbye.
OnSocket(w) ==
  /\ Connected(w) => Staying(up[w])
  /\ relay[w] = "idle" => down[w] = <<>>

\* While the broker lives it does not leave a relay untold, so that a relay falls
\* back before it has passed a turn on, or never.
Exclusive(w) ==
  restarts = 0 =>
    /\ Connected(w) => Told(down[w])
    /\ relay[w] = "fellback" \/ dgot[w] # 0 => bgot[w] = 0 /\ Carried(up[w]) = {}

Window(w) == Replayable(w) /\ Conserved(w) /\ OnSocket(w) /\ Exclusive(w)

SysInv == SysTypes /\ \A w \in Wrappers : Window(w)

-----------------------------------------------------------------------------
(* Frames.                                                                 *)

LEMMA CarriedFinite ==
  ASSUME NEW s \in Seq(ToBroker)
  PROVE  IsFiniteSet(Carried(s)) /\ Cardinality(Carried(s)) \in Nat
<1>1. IsFiniteSet(1..Len(s)) /\ Carried(s) \in SUBSET (1..Len(s))
  BY FS_Interval DEF Carried
<1> QED
  BY <1>1, FS_Subset, FS_CardinalityType

LEMMA CarriedAppend ==
  ASSUME NEW s \in Seq(ToBroker)
  PROVE  /\ Cardinality(Carried(Append(s, "i"))) = Cardinality(Carried(s)) + 1
         /\ Carried(s \o <<"fin">>) = Carried(s)
         /\ Carried(s \o <<"s", "fin">>) = Carried(s)
<1>1. Carried(Append(s, "i")) = Carried(s) \cup {Len(s) + 1} /\ Len(s) + 1 \notin Carried(s)
  BY DEF Carried
<1>2. Cardinality(Carried(s) \cup {Len(s) + 1}) = Cardinality(Carried(s)) + 1
  BY <1>1, CarriedFinite, FS_AddElement
<1>3. Carried(s \o <<"fin">>) = Carried(s)
  BY DEF Carried
<1>4. Carried(s \o <<"s", "fin">>) = Carried(s)
  BY DEF Carried
<1> QED
  BY <1>1, <1>2, <1>3, <1>4

LEMMA CarriedTail ==
  ASSUME NEW s \in Seq(ToBroker), s # <<>>
  PROVE  /\ Cardinality(Carried(Tail(s))) <= Cardinality(Carried(s))
         /\ Head(s) = "i" => Cardinality(Carried(Tail(s))) + 1 <= Cardinality(Carried(s))
         /\ Carried(s) = {} => Carried(Tail(s)) = {}
         /\ Head(s) = "i" => Carried(s) # {}
<1> DEFINE S == Carried(s) \ {1}
           f == [i \in S |-> i - 1]
<1>1. Tail(s) \in Seq(ToBroker) /\ Len(Tail(s)) = Len(s) - 1 /\ Len(s) \in Nat /\ Len(s) > 0
  OBVIOUS
<1>2. \A i \in 1..Len(Tail(s)) : Tail(s)[i] = s[i + 1]
  OBVIOUS
<1>3. f \in [S -> Carried(Tail(s))]
  BY <1>1, <1>2 DEF Carried
<1>4. \A j \in Carried(Tail(s)) : j + 1 \in S /\ f[j + 1] = j
  BY <1>1, <1>2 DEF Carried
<1>5. f \in Surjection(S, Carried(Tail(s)))
  BY <1>3, <1>4 DEF Surjection
<1>6. IsFiniteSet(Carried(s)) /\ IsFiniteSet(S)
  BY CarriedFinite, FS_Subset
<1>7. Cardinality(Carried(Tail(s))) <= Cardinality(S)
  BY <1>5, <1>6, FS_Surjection
<1>8. Cardinality(S) = IF 1 \in Carried(s) THEN Cardinality(Carried(s)) - 1
                                           ELSE Cardinality(Carried(s))
  BY <1>6, FS_RemoveElement
<1>9. Cardinality(Carried(s)) \in Nat /\ Cardinality(Carried(Tail(s))) \in Nat
      /\ Cardinality(S) \in Nat
  BY <1>1, <1>6, CarriedFinite, FS_CardinalityType
<1>10. Head(s) = "i" <=> 1 \in Carried(s)
  BY <1>1 DEF Carried
<1>11. Cardinality(Carried(Tail(s))) <= Cardinality(Carried(s))
  BY <1>7, <1>8, <1>9
<1>12. Head(s) = "i" => Cardinality(Carried(Tail(s))) + 1 <= Cardinality(Carried(s))
  BY <1>7, <1>8, <1>9, <1>10
<1>13. Carried(s) = {} => Carried(Tail(s)) = {}
  BY <1>4
<1> QED
  BY <1>10, <1>11, <1>12, <1>13

LEMMA StayingKept ==
  ASSUME NEW s \in Seq(ToBroker), Staying(s)
  PROVE  /\ Staying(Append(s, "i"))
         /\ s # <<>> => Staying(Tail(s)) /\ Head(s) \notin {"s", "fin"}
BY DEF Staying

LEMMA ToldKept ==
  ASSUME NEW s \in Seq(ToRelay), Told(s)
  PROVE  /\ Told(s \o <<"ack">>) /\ Told(s \o <<"o">>)
         /\ Told(s \o <<"nak", "fin">>) /\ Told(s \o <<"x", "fin">>)
         /\ Told(s \o <<"ack", "x", "fin">>)
         /\ s # <<>> => Head(s) # "fin"
         /\ s # <<>> /\ Head(s) \in {"ack", "o"} => Told(Tail(s))
<1>1. Told(s \o <<"ack">>) /\ Told(s \o <<"o">>)
  BY DEF Told
<1>2. Told(s \o <<"nak", "fin">>)
  BY DEF Told
<1>3. Told(s \o <<"x", "fin">>)
  BY DEF Told
<1>4. Told(s \o <<"ack", "x", "fin">>)
  BY DEF Told
<1>5. s # <<>> => Head(s) # "fin"
  BY DEF Told
<1>6. ASSUME s # <<>>, Head(s) \in {"ack", "o"}
      PROVE  Told(Tail(s))
  <2>1. /\ \A i \in 1..Len(Tail(s)) : Tail(s)[i] = s[i + 1] /\ i + 1 \in 1..Len(s)
        /\ s[1] \in {"ack", "o"} /\ Len(s) \in Nat /\ Len(Tail(s)) = Len(s) - 1
    BY <1>6
  <2>2. SUFFICES ASSUME NEW i \in 1..Len(Tail(s)), Tail(s)[i] = "fin"
                 PROVE  i > 1 /\ Tail(s)[i - 1] \in {"nak", "x"}
    BY DEF Told
  <2>3. s[i + 1] = "fin" /\ s[(i + 1) - 1] \in {"nak", "x"}
    BY <2>1, <2>2 DEF Told
  <2>4. i # 1
    BY <2>1, <2>3
  <2> QED
    BY <2>1, <2>2, <2>3, <2>4
<1> QED
  BY <1>1, <1>2, <1>3, <1>4, <1>5, <1>6
-----------------------------------------------------------------------------
(* Steps.                                                                  *)

\* Only w's frames, relay and children change.
Only(w) ==
  /\ \A v \in Wrappers \ {w} :
       /\ relay'[v] = relay[v] /\ saw'[v] = saw[v] /\ typed'[v] = typed[v]
       /\ pend'[v] = pend[v] /\ bgot'[v] = bgot[v] /\ dgot'[v] = dgot[v]
       /\ up'[v] = up[v] /\ down'[v] = down[v]
  /\ restarts' = restarts

LEMMA OthersKept ==
  ASSUME SysInv, NEW w \in Wrappers, Only(w), SysTypes', Window(w)'
  PROVE  SysInv'
<1>1. ASSUME NEW v \in Wrappers, v # w
      PROVE  Window(v)'
  BY <1>1 DEF SysInv, Window, Only, Replayable, Conserved, OnSocket, Exclusive, Connected
<1> QED
  BY <1>1 DEF SysInv

\* The relay leaves its socket, having said frames.
LEMMA HangupTypes ==
  ASSUME SysTypes, NEW w \in Wrappers, NEW frames \in {<<"fin">>, <<"s", "fin">>},
         Hangup(w, frames)
  PROVE  /\ up' \in [Wrappers -> Seq(ToBroker)] /\ down' \in [Wrappers -> Seq(ToRelay)]
         /\ \A v \in Wrappers \ {w} : up'[v] = up[v] /\ down'[v] = down[v]
         /\ Carried(up'[w]) = Carried(up[w]) /\ down'[w] = <<>>
<1>1. frames \in Seq(ToBroker) /\ up[w] \in Seq(ToBroker)
  <2>1. "s" \in ToBroker /\ "fin" \in ToBroker
    BY DEF ToBroker
  <2>2. <<"fin">> \in Seq(ToBroker) /\ <<"s", "fin">> \in Seq(ToBroker)
    BY <2>1
  <2> QED
    BY <2>2 DEF SysTypes
<1>2. up[w] \o frames \in Seq(ToBroker)
  BY <1>1
<1>3. <<>> \in Seq(ToRelay)
  OBVIOUS
<1>4. up' = [up EXCEPT ![w] = up[w] \o frames] /\ down' = [down EXCEPT ![w] = <<>>]
  BY DEF Hangup
<1>5. up'[w] = up[w] \o frames /\ down'[w] = <<>>
  BY <1>4 DEF SysTypes
<1>6. Carried(up[w] \o frames) = Carried(up[w])
  BY <1>1, CarriedAppend
<1>7. up' \in [Wrappers -> Seq(ToBroker)] /\ down' \in [Wrappers -> Seq(ToRelay)]
  BY <1>2, <1>3, <1>4, ExceptType DEF SysTypes
<1> QED
  BY <1>4, <1>5, <1>6, <1>7 DEF SysTypes

\* The relay exits, on its socket or off it.
LEMMA ExitKept ==
  ASSUME SysInv, NEW w \in Wrappers, RelayExits(w), direct' \in [Wrappers -> {"none", "run", "exited"}],
         \/ Hangup(w, <<"fin">>) \/ Hangup(w, <<"s", "fin">>) \/ UNCHANGED <<up, down>>,
         UNCHANGED <<saw, pend, typed, dgot, bgot, restarts>>
  PROVE  SysInv'
<1>1. relay' \in [Wrappers -> {"idle", "awaiting", "relaying", "fellback", "exited"}]
      /\ relay'[w] = "exited" /\ \A v \in Wrappers \ {w} : relay'[v] = relay[v]
  BY DEF RelayExits, SysInv, SysTypes
<1>2. /\ up' \in [Wrappers -> Seq(ToBroker)] /\ down' \in [Wrappers -> Seq(ToRelay)]
      /\ \A v \in Wrappers \ {w} : up'[v] = up[v] /\ down'[v] = down[v]
      /\ Carried(up'[w]) = Carried(up[w])
  <2>1. CASE UNCHANGED <<up, down>>
    BY <2>1 DEF SysInv, SysTypes
  <2>2. CASE Hangup(w, <<"fin">>) \/ Hangup(w, <<"s", "fin">>)
    BY <2>2, HangupTypes DEF SysInv
  <2> QED
    BY <2>1, <2>2
<1>3. SysTypes'
  BY <1>1, <1>2 DEF SysInv, SysTypes
<1>4. Only(w)
  BY <1>1, <1>2 DEF Only
<1>5. Window(w)'
  BY <1>1, <1>2 DEF SysInv, Window, Replayable, Conserved, OnSocket, Exclusive, Connected
<1> QED
  BY <1>3, <1>4, <1>5, OthersKept

\* The relay falls back with what it has to replay.
LEMMA FallbackKept ==
  ASSUME SysInv, NEW w \in Wrappers, Fallback(w), Connected(w),
         relay[w] = "relaying" => ~ saw[w] /\ restarts # 0
  PROVE  SysInv'
<1>1. /\ relay' = [relay EXCEPT ![w] = "fellback"] /\ direct' = [direct EXCEPT ![w] = "run"]
      /\ dgot' = [dgot EXCEPT ![w] = pend[w]] /\ Hangup(w, <<"fin">>)
      /\ UNCHANGED <<saw, pend, typed, bgot, restarts>>
  BY DEF Fallback, vars
<1>2. /\ up' \in [Wrappers -> Seq(ToBroker)] /\ down' \in [Wrappers -> Seq(ToRelay)]
      /\ \A v \in Wrappers \ {w} : up'[v] = up[v] /\ down'[v] = down[v]
      /\ Carried(up'[w]) = Carried(up[w])
  BY <1>1, HangupTypes DEF SysInv
<1>3. SysTypes'
  BY <1>1, <1>2 DEF SysInv, SysTypes
<1>4. Only(w)
  BY <1>1, <1>2 DEF Only, SysInv, SysTypes
<1>5. relay'[w] = "fellback" /\ dgot'[w] = pend[w] /\ pend[w] = typed[w]
  BY <1>1 DEF SysInv, SysTypes, Window, Replayable, Connected
<1>6. restarts = 0 => bgot[w] = 0 /\ Carried(up[w]) = {}
  <2>1. SUFFICES ASSUME restarts = 0
                 PROVE  bgot[w] = 0 /\ Carried(up[w]) = {}
    OBVIOUS
  <2>2. typed[w] = 0
    BY <2>1 DEF SysInv, Window, Replayable, Connected
  <2>3. /\ bgot[w] \in Nat /\ Cardinality(Carried(up[w])) \in Nat
        /\ bgot[w] + Cardinality(Carried(up[w])) <= 0
        /\ IsFiniteSet(Carried(up[w]))
    BY <2>2, CarriedFinite DEF SysInv, SysTypes, Window, Conserved
  <2>4. bgot[w] = 0 /\ Cardinality(Carried(up[w])) = 0
    BY <2>3
  <2> QED
    BY <2>3, <2>4, FS_EmptySet
<1>7. Window(w)'
  BY <1>1, <1>2, <1>5, <1>6
     DEF SysInv, SysTypes, Window, Replayable, Conserved, OnSocket, Exclusive, Connected
<1> QED
  BY <1>3, <1>4, <1>7, OthersKept

\* A frame from the broker is read.
LEMMA ConsumeTypes ==
  ASSUME SysTypes, NEW w \in Wrappers, down[w] # <<>>, Consume(w)
  PROVE  /\ down' \in [Wrappers -> Seq(ToRelay)] /\ down'[w] = Tail(down[w])
         /\ \A v \in Wrappers \ {w} : down'[v] = down[v]
<1>1. Tail(down[w]) \in Seq(ToRelay)
  BY DEF SysTypes
<1>2. down' = [down EXCEPT ![w] = Tail(down[w])]
  BY DEF Consume
<1> QED
  BY <1>1, <1>2, ExceptType DEF SysTypes

LEMMA RelayReadsKept ==
  ASSUME SysInv, NEW w \in Wrappers, RelayReads(w)
  PROVE  SysInv'
<1>1. CASE RelayAck(w) \/ RelayOutput(w)
  <2>1. /\ Connected(w) /\ down[w] # <<>> /\ Head(down[w]) \in {"ack", "o"} /\ Consume(w)
        /\ UNCHANGED <<up, typed, dgot, bgot, direct, restarts>>
        /\ \/ relay[w] = "awaiting" /\ relay' = [relay EXCEPT ![w] = "relaying"] /\ UNCHANGED <<saw, pend>>
           \/ /\ relay[w] = "relaying" /\ relay' = relay /\ saw' = [saw EXCEPT ![w] = TRUE]
              /\ pend' = [pend EXCEPT ![w] = 0]
    BY <1>1 DEF RelayAck, RelayOutput, Arrives, Connected, vars, directVars
  <2>2. /\ relay' \in [Wrappers -> {"idle", "awaiting", "relaying", "fellback", "exited"}]
        /\ relay'[w] = "relaying" /\ \A v \in Wrappers \ {w} : relay'[v] = relay[v]
    BY <2>1 DEF SysInv, SysTypes
  <2>3. /\ saw' \in [Wrappers -> BOOLEAN] /\ pend' \in [Wrappers -> Nat]
        /\ \A v \in Wrappers \ {w} : saw'[v] = saw[v] /\ pend'[v] = pend[v]
    <3>1. CASE UNCHANGED <<saw, pend>>
      BY <3>1 DEF SysInv, SysTypes
    <3>2. CASE saw' = [saw EXCEPT ![w] = TRUE] /\ pend' = [pend EXCEPT ![w] = 0]
      <4>1. saw' \in [Wrappers -> BOOLEAN]
        BY <3>2, ExceptType DEF SysInv, SysTypes
      <4>2. pend' \in [Wrappers -> Nat]
        BY <3>2 DEF SysInv, SysTypes
      <4> QED
        BY <3>2, <4>1, <4>2 DEF SysInv, SysTypes
    <3> QED
      BY <2>1, <3>1, <3>2
  <2>4. saw'[w] \/ (~ saw'[w] /\ ~ saw[w] /\ pend'[w] = pend[w])
    BY <2>1 DEF SysInv, SysTypes, Window, Replayable
  <2>5. pend'[w] <= typed[w]
    BY <2>1 DEF SysInv, SysTypes, Window, Replayable
  <2>6. restarts = 0 => Told(down'[w])
    <3>1. down'[w] = Tail(down[w]) /\ down[w] \in Seq(ToRelay)
      BY <2>1, ConsumeTypes DEF SysInv, SysTypes
    <3>2. restarts = 0 => Told(down[w])
      BY <2>1 DEF SysInv, Window, Exclusive
    <3> QED
      BY <2>1, <3>1, <3>2, ToldKept
  <2>7. SysTypes' /\ Only(w)
    BY <2>1, <2>2, <2>3, ConsumeTypes DEF SysInv, SysTypes, Only
  <2>8. Window(w)'
    BY <2>1, <2>2, <2>4, <2>5, <2>6
       DEF SysInv, Window, Replayable, Conserved, OnSocket, Exclusive, Connected
  <2> QED
    BY <2>7, <2>8, OthersKept
<1>2. CASE RelayRefused(w)
  BY <1>2, FallbackKept DEF RelayRefused, Connected
<1>3. CASE RelayExitFrame(w)
  BY <1>3, ExitKept DEF RelayExitFrame, vars, directVars, SysInv, SysTypes
<1>4. CASE RelayLost(w)
  <2>1. CASE saw[w]
    BY <1>4, <2>1, ExitKept DEF RelayLost, vars, directVars, SysInv, SysTypes
  <2>2. CASE ~ saw[w]
    <3>1. restarts # 0
      BY <1>4, ToldKept DEF RelayLost, Arrives, Connected, SysInv, SysTypes, Window, Exclusive
    <3> QED
      BY <1>4, <2>2, <3>1, FallbackKept DEF RelayLost, Connected
  <2> QED
    BY <2>1, <2>2
<1> QED
  BY <1>1, <1>2, <1>3, <1>4 DEF RelayReads

LEMMA RelayStepsKept ==
  ASSUME SysInv, NEW w \in Wrappers, RelayStart(w) \/ RelayUnreachable(w) \/ AckTimeout(w)
  PROVE  SysInv'
<1>1. CASE RelayStart(w)
  <2>1. /\ relay[w] = "idle" /\ relay' = [relay EXCEPT ![w] = "awaiting"]
        /\ up' = [up EXCEPT ![w] = <<"hello">>]
        /\ UNCHANGED <<saw, pend, typed, direct, dgot, down, bgot, restarts>>
    BY <1>1 DEF RelayStart, vars, directVars
  <2>2. <<"hello">> \in Seq(ToBroker)
    <3>1. "hello" \in ToBroker
      BY DEF ToBroker
    <3> QED
      BY <3>1
  <2>3. /\ Carried(<<"hello">>) = {} /\ Staying(<<"hello">>) /\ Told(<<>>)
        /\ Cardinality(Carried(<<"hello">>)) = 0
    <3>1. Carried(<<"hello">>) = {} /\ Staying(<<"hello">>) /\ Told(<<>>)
      BY DEF Carried, Staying, Told
    <3> QED
      BY <3>1, FS_EmptySet
  <2>4. SysTypes' /\ Only(w)
    <3>1. up' \in [Wrappers -> Seq(ToBroker)]
      BY <2>1, <2>2, ExceptType DEF SysInv, SysTypes
    <3> QED
      BY <2>1, <3>1 DEF SysInv, SysTypes, Only
  <2>5. relay'[w] = "awaiting" /\ up'[w] = <<"hello">> /\ down'[w] = <<>>
    BY <2>1 DEF SysInv, SysTypes, Window, OnSocket
  <2>6. bgot[w] = 0
    <3>1. /\ bgot[w] \in Nat /\ Cardinality(Carried(up[w])) \in Nat
          /\ bgot[w] + Cardinality(Carried(up[w])) <= 0
      BY <2>1, CarriedFinite DEF SysInv, SysTypes, Window, Conserved, Replayable
    <3> QED
      BY <3>1
  <2>7. typed[w] \in Nat
    BY SystemAssumption DEF SysInv, SysTypes
  <2>8. Window(w)'
    BY <2>1, <2>3, <2>5, <2>6, <2>7
       DEF SysInv, Window, Replayable, Conserved, OnSocket, Exclusive, Connected
  <2> QED
    BY <2>4, <2>8, OthersKept
<1>2. CASE RelayUnreachable(w)
  <2>1. /\ relay[w] = "awaiting" /\ relay' = [relay EXCEPT ![w] = "fellback"]
        /\ up' = [up EXCEPT ![w] = <<>>] /\ direct' = [direct EXCEPT ![w] = "run"]
        /\ UNCHANGED <<saw, pend, typed, dgot, down, bgot, restarts>>
    BY <1>2 DEF RelayUnreachable, vars
  <2>2. Carried(<<>>) = {} /\ Cardinality(Carried(<<>>)) = 0
    BY FS_EmptySet DEF Carried
  <2>3. SysTypes' /\ Only(w)
    <3>1. up' \in [Wrappers -> Seq(ToBroker)]
      BY <2>1 DEF SysInv, SysTypes
    <3> QED
      BY <2>1, <3>1 DEF SysInv, SysTypes, Only
  <2>4. relay'[w] = "fellback" /\ up'[w] = <<>>
    BY <2>1 DEF SysInv, SysTypes
  <2>5. bgot[w] = 0
    <3>1. /\ bgot[w] \in Nat /\ Cardinality(Carried(up[w])) \in Nat
          /\ bgot[w] + Cardinality(Carried(up[w])) <= 0
      BY <2>1, CarriedFinite DEF SysInv, SysTypes, Window, Conserved, Replayable
    <3> QED
      BY <3>1
  <2>6. typed[w] \in Nat
    BY SystemAssumption DEF SysInv, SysTypes
  <2>7. Replayable(w)'
    BY <2>1, <2>4 DEF SysInv, Window, Replayable
  <2>8. Conserved(w)'
    BY <2>1, <2>2, <2>4, <2>5, <2>6 DEF Conserved
  <2>9. OnSocket(w)' /\ Exclusive(w)'
    BY <2>1, <2>2, <2>4, <2>5 DEF OnSocket, Exclusive, Connected
  <2> QED
    BY <2>3, <2>7, <2>8, <2>9, OthersKept DEF Window
<1>3. CASE AckTimeout(w)
  BY <1>3, FallbackKept DEF AckTimeout, Connected
<1> QED
  BY <1>1, <1>2, <1>3

LEMMA PanelKept ==
  ASSUME SysInv, NEW w \in Wrappers,
         PanelTypes(w) \/ PanelTerm(w) \/ PanelKill(w) \/ DirectExit(w)
  PROVE  SysInv'
<1>1. CASE PanelTypes(w)
  <2>1. /\ typed[w] < MaxTyped /\ typed' = [typed EXCEPT ![w] = typed[w] + 1]
        /\ UNCHANGED <<relay, saw, down, direct, bgot, restarts>>
    BY <1>1 DEF PanelTypes, vars
  <2>2. typed' \in [Wrappers -> 0..MaxTyped] /\ typed'[w] = typed[w] + 1 /\ typed[w] \in Nat
    BY <2>1, SystemAssumption DEF SysInv, SysTypes
  <2>3. CASE /\ relay[w] = "relaying" /\ up' = [up EXCEPT ![w] = Append(up[w], "i")]
             /\ pend' = [pend EXCEPT ![w] = IF saw[w] THEN pend[w] ELSE pend[w] + 1]
             /\ UNCHANGED dgot
    <3>1. Append(up[w], "i") \in Seq(ToBroker) /\ up[w] \in Seq(ToBroker)
      BY DEF SysInv, SysTypes, ToBroker
    <3>2. /\ up' \in [Wrappers -> Seq(ToBroker)] /\ pend' \in [Wrappers -> Nat]
          /\ up'[w] = Append(up[w], "i")
          /\ pend'[w] = IF saw[w] THEN pend[w] ELSE pend[w] + 1
      <4>1. up' \in [Wrappers -> Seq(ToBroker)]
        BY <2>3, <3>1, ExceptType DEF SysInv, SysTypes
      <4>2. up'[w] = Append(up[w], "i")
        BY <2>3 DEF SysInv, SysTypes
      <4>3. pend' \in [Wrappers -> Nat] /\ pend'[w] = IF saw[w] THEN pend[w] ELSE pend[w] + 1
        BY <2>3 DEF SysInv, SysTypes
      <4> QED
        BY <4>1, <4>2, <4>3
    <3>3. SysTypes' /\ Only(w)
      BY <2>1, <2>2, <2>3, <3>2 DEF SysInv, SysTypes, Only
    <3>4. Cardinality(Carried(up'[w])) = Cardinality(Carried(up[w])) + 1
          /\ Cardinality(Carried(up[w])) \in Nat /\ bgot[w] \in Nat /\ pend[w] \in Nat
          /\ dgot[w] \in Nat
      BY <3>1, <3>2, CarriedAppend, CarriedFinite DEF SysInv, SysTypes
    <3>5. Staying(up'[w])
      BY <2>3, <3>1, <3>2, StayingKept DEF SysInv, Window, OnSocket, Connected
    <3>6. Replayable(w)'
      BY <2>1, <2>2, <2>3, <3>2, <3>4 DEF SysInv, Window, Replayable
    <3>7. Conserved(w)'
      BY <2>1, <2>2, <3>4 DEF SysInv, Window, Conserved
    <3>8. OnSocket(w)' /\ Exclusive(w)'
      BY <2>1, <2>3, <3>5 DEF SysInv, Window, OnSocket, Exclusive, Connected, Replayable
    <3> QED
      BY <3>3, <3>6, <3>7, <3>8, OthersKept DEF Window
  <2>4. CASE relay[w] = "fellback" /\ dgot' = [dgot EXCEPT ![w] = dgot[w] + 1] /\ UNCHANGED <<pend, up>>
    <3>1. dgot' \in [Wrappers -> Nat] /\ dgot'[w] = dgot[w] + 1
      BY <2>4 DEF SysInv, SysTypes
    <3>2. SysTypes' /\ Only(w)
      BY <2>1, <2>2, <2>4, <3>1 DEF SysInv, SysTypes, Only
    <3>3. /\ pend[w] \in Nat /\ dgot[w] \in Nat /\ bgot[w] \in Nat
          /\ Cardinality(Carried(up[w])) \in Nat
      BY CarriedFinite DEF SysInv, SysTypes
    <3>4. Replayable(w)'
      BY <2>1, <2>2, <2>4, <3>1, <3>3 DEF SysInv, Window, Replayable
    <3>5. Conserved(w)'
      BY <2>1, <2>2, <2>4, <3>3 DEF SysInv, Window, Conserved
    <3>6. OnSocket(w)' /\ Exclusive(w)'
      BY <2>1, <2>4 DEF SysInv, Window, OnSocket, Exclusive, Connected
    <3> QED
      BY <3>2, <3>4, <3>5, <3>6, OthersKept DEF Window
  <2> QED
    BY <1>1, <2>3, <2>4 DEF PanelTypes
<1>2. CASE PanelTerm(w)
  BY <1>2, ExitKept DEF PanelTerm, vars, directVars, SysInv, SysTypes
<1>3. CASE PanelKill(w)
  BY <1>3, ExitKept DEF PanelKill, vars, directVars, SysInv, SysTypes
<1>4. CASE DirectExit(w)
  <2>1. direct' \in [Wrappers -> {"none", "run", "exited"}]
    BY <1>4 DEF DirectExit, SysInv, SysTypes
  <2> QED
    BY <1>4, <2>1, ExitKept DEF DirectExit, vars
<1> QED
  BY <1>1, <1>2, <1>3, <1>4

\* What the broker writes, to a relay that reads or to nobody.
LEMMA ReplyTypes ==
  ASSUME SysTypes, NEW w \in Wrappers, NEW frames \in Seq(ToRelay), Reply(w, frames)
  PROVE  /\ down' \in [Wrappers -> Seq(ToRelay)]
         /\ down'[w] = IF Connected(w) THEN down[w] \o frames ELSE <<>>
         /\ \A v \in Wrappers \ {w} : down'[v] = down[v]
<1>1. (IF Connected(w) THEN down[w] \o frames ELSE <<>>) \in Seq(ToRelay)
  BY DEF SysTypes
<1>2. down' = [down EXCEPT ![w] = IF Connected(w) THEN down[w] \o frames ELSE <<>>]
  BY DEF Reply
<1> QED
  BY <1>1, <1>2, ExceptType DEF SysTypes

Answers == {<<"ack">>, <<"o">>, <<"nak", "fin">>, <<"x", "fin">>, <<"ack", "x", "fin">>}

LEMMA AnswerFrames == Answers \subseteq Seq(ToRelay) /\ <<"fin">> \in Seq(ToRelay)
<1>1. "ack" \in ToRelay /\ "nak" \in ToRelay /\ "o" \in ToRelay /\ "x" \in ToRelay /\ "fin" \in ToRelay
  BY DEF ToRelay
<1> QED
  BY <1>1 DEF Answers

\* The frame at the head of what the relay sent is read.
LEMMA ReadsTypes ==
  ASSUME SysTypes, NEW w \in Wrappers, NEW frame, Reads(w, frame)
  PROVE  /\ up' \in [Wrappers -> Seq(ToBroker)] /\ up'[w] = Tail(up[w])
         /\ up[w] # <<>> /\ Head(up[w]) = frame /\ up[w] \in Seq(ToBroker)
         /\ \A v \in Wrappers \ {w} : up'[v] = up[v]
<1>1. up[w] # <<>> /\ Head(up[w]) = frame /\ up' = [up EXCEPT ![w] = Tail(up[w])]
  BY DEF Reads
<1>2. Tail(up[w]) \in Seq(ToBroker)
  BY <1>1 DEF SysTypes
<1> QED
  BY <1>1, <1>2, ExceptType DEF SysTypes

\* The broker answers, reading a frame that carries no turn, or none, or a turn
\* that it gives to its child or drops.
LEMMA BrokerKept ==
  ASSUME SysInv, NEW w \in Wrappers, UNCHANGED <<relayVars, directVars, restarts>>,
         \/ up' = up /\ UNCHANGED bgot
         \/ \E frame : Reads(w, frame) /\ UNCHANGED bgot
         \/ Reads(w, "i") /\ bgot' = [bgot EXCEPT ![w] = @ + 1],
         \/ UNCHANGED down
         \/ \E frames \in Answers : Reply(w, frames)
         \/ Reply(w, <<"fin">>) /\ (Reads(w, "s") \/ Reads(w, "fin"))
  PROVE  SysInv'
<1>1. UNCHANGED <<relay, saw, pend, typed, direct, dgot, restarts>>
  BY DEF relayVars, directVars
<1>2. /\ up' \in [Wrappers -> Seq(ToBroker)] /\ up[w] \in Seq(ToBroker)
      /\ \A v \in Wrappers \ {w} : up'[v] = up[v]
      /\ up'[w] = up[w] \/ (up[w] # <<>> /\ up'[w] = Tail(up[w]))
  BY ReadsTypes DEF SysInv, SysTypes
<1>3. /\ bgot' \in [Wrappers -> Nat] /\ \A v \in Wrappers \ {w} : bgot'[v] = bgot[v]
      /\ \/ bgot'[w] = bgot[w]
         \/ /\ bgot'[w] = bgot[w] + 1 /\ up[w] # <<>> /\ Head(up[w]) = "i"
            /\ up'[w] = Tail(up[w])
  <2>1. CASE UNCHANGED bgot
    BY <2>1 DEF SysInv, SysTypes
  <2>2. CASE Reads(w, "i") /\ bgot' = [bgot EXCEPT ![w] = bgot[w] + 1]
    BY <2>2, ReadsTypes DEF SysInv, SysTypes
  <2> QED
    BY <2>1, <2>2
<1>4. /\ down' \in [Wrappers -> Seq(ToRelay)] /\ \A v \in Wrappers \ {w} : down'[v] = down[v]
  BY ReplyTypes, AnswerFrames DEF SysInv, SysTypes
<1>5. Connected(w) => Staying(up[w]) /\ Staying(up'[w])
  BY <1>2, StayingKept DEF SysInv, Window, OnSocket
<1>6. relay[w] = "idle" => down'[w] = <<>>
  BY ReplyTypes, AnswerFrames DEF SysInv, Window, OnSocket, Connected
<1>7. restarts = 0 /\ Connected(w) => Told(down'[w])
  <2>1. SUFFICES ASSUME restarts = 0, Connected(w)
                 PROVE  Told(down'[w])
    OBVIOUS
  <2>2. Told(down[w]) /\ down[w] \in Seq(ToRelay)
    BY <2>1 DEF SysInv, SysTypes, Window, Exclusive
  <2>3. CASE UNCHANGED down
    BY <2>2, <2>3
  <2>4. ASSUME NEW frames \in Answers, Reply(w, frames)
        PROVE  Told(down'[w])
    <3>1. down'[w] = down[w] \o frames
      BY <2>1, <2>4, ReplyTypes, AnswerFrames DEF SysInv
    <3> QED
      BY <2>2, <3>1, ToldKept DEF Answers
  <2>5. ASSUME Reads(w, "s") \/ Reads(w, "fin")
        PROVE  FALSE
    <3>1. up[w] # <<>> /\ Head(up[w]) \in {"s", "fin"}
      BY <2>5 DEF Reads
    <3>2. up[w] \in Seq(ToBroker) /\ Staying(up[w])
      BY <1>2, <1>5, <2>1
    <3> QED
      BY <3>1, <3>2, StayingKept
  <2> QED
    BY <2>3, <2>4, <2>5
<1>8. /\ Cardinality(Carried(up[w])) \in Nat /\ Cardinality(Carried(up'[w])) \in Nat
      /\ bgot[w] \in Nat /\ typed[w] \in Nat
      /\ Cardinality(Carried(up'[w])) <= Cardinality(Carried(up[w]))
      /\ bgot'[w] # bgot[w] =>
           /\ Cardinality(Carried(up'[w])) + 1 <= Cardinality(Carried(up[w]))
           /\ Carried(up[w]) # {}
      /\ Carried(up[w]) = {} => Carried(up'[w]) = {}
  <2>1. /\ Cardinality(Carried(up[w])) \in Nat /\ bgot[w] \in Nat /\ typed[w] \in Nat
        /\ up'[w] \in Seq(ToBroker)
    BY <1>2, CarriedFinite, SystemAssumption DEF SysInv, SysTypes
  <2>2. Cardinality(Carried(up'[w])) \in Nat
    BY <2>1, CarriedFinite
  <2>3. CASE up'[w] = up[w]
    BY <1>3, <2>1, <2>3, CarriedTail, <1>2
  <2>4. CASE up[w] # <<>> /\ up'[w] = Tail(up[w])
    BY <1>2, <1>3, <2>1, <2>2, <2>4, CarriedTail
  <2> QED
    BY <1>2, <2>3, <2>4
<1>9. Conserved(w)'
  <2>1. bgot[w] + Cardinality(Carried(up[w])) <= typed[w]
    BY DEF SysInv, Window, Conserved
  <2>2. bgot'[w] + Cardinality(Carried(up'[w])) <= typed[w]
    BY <1>3, <1>8, <2>1
  <2> QED
    BY <1>1, <2>2 DEF Conserved
<1>10. Replayable(w)' /\ OnSocket(w)'
  BY <1>1, <1>5, <1>6 DEF SysInv, Window, Replayable, OnSocket, Connected
<1>11. Exclusive(w)'
  BY <1>1, <1>3, <1>7, <1>8 DEF SysInv, Window, Exclusive, Connected
<1>12. SysTypes' /\ Only(w)
  BY <1>1, <1>2, <1>3, <1>4 DEF SysInv, SysTypes, Only
<1> QED
  BY <1>9, <1>10, <1>11, <1>12, OthersKept DEF Window

\* Which of these each step of the broker is.
LEMMA BrokerStepsKept ==
  ASSUME SysInv, NEW w \in Wrappers,
         BrokerReads(w) \/ HoldOver(w) \/ BrokerOutput(w) \/ BrokerExit(w) \/ Quiet(w)
  PROVE  SysInv'
<1> USE DEF Answers
<1>1. CASE BrokerHello(w)
  <2>1. UNCHANGED restarts
    BY <1>1 DEF BrokerHello, HelloRefused, HelloHeld, HelloSpawned, HelloSpawnFailed, Spawn,
                SpawnFails
  <2> QED
    BY <1>1, <2>1, BrokerKept DEF BrokerHello
<1>2. CASE BrokerStdin(w)
  BY <1>2, BrokerKept DEF BrokerStdin, StdinFrame
<1>3. CASE BrokerDisconnect(w)
  BY <1>3, BrokerKept DEF BrokerDisconnect, Disconnect
<1>4. CASE BrokerIgnores(w)
  BY <1>4, BrokerKept DEF BrokerIgnores, vars
<1>5. CASE HoldOver(w)
  <2>1. UNCHANGED restarts
    BY <1>5 DEF HoldOver, HoldReleased, HoldTimeout, HoldSpawnFailed, Spawn, SpawnFails
  <2> QED
    BY <1>5, <2>1, BrokerKept DEF HoldOver
<1>6. CASE BrokerOutput(w)
  BY <1>6, BrokerKept DEF BrokerOutput, ChildInit, ChildResult
<1>7. CASE BrokerExit(w)
  BY <1>7, BrokerKept DEF BrokerExit, ChildExit
<1>8. CASE Quiet(w)
  BY <1>8, BrokerKept DEF Quiet, DrainStep, DrainDeadline, DrainSignal, OrphanExit
<1> QED
  BY <1>1, <1>2, <1>3, <1>4, <1>5, <1>6, <1>7, <1>8 DEF BrokerReads

LEMMA RestartKept ==
  ASSUME SysInv, restarts \in Nat, SysRestart
  PROVE  SysInv'
<1>1. /\ restarts' = restarts + 1 /\ up' = [w \in Wrappers |-> <<>>]
      /\ down' = [w \in Wrappers |-> IF Connected(w) THEN Append(down[w], "fin") ELSE <<>>]
      /\ UNCHANGED <<relay, saw, pend, typed, direct, dgot, bgot>>
  BY DEF SysRestart, Restart, relayVars, directVars
<1>2. "fin" \in ToRelay
  BY DEF ToRelay
<1>3. SysTypes'
  BY <1>1, <1>2 DEF SysInv, SysTypes
<1>4. Carried(<<>>) = {} /\ Staying(<<>>)
  BY DEF Carried, Staying
<1>5. Cardinality(Carried(<<>>)) = 0
  BY <1>4, FS_EmptySet
<1>6. restarts' # 0
  BY <1>1
<1>7. ASSUME NEW w \in Wrappers
      PROVE  Window(w)'
  <2>1. up'[w] = <<>> /\ (relay[w] = "idle" => down'[w] = <<>>)
    BY <1>1, <1>7 DEF Connected
  <2>2. /\ bgot[w] \in Nat /\ typed[w] \in Nat /\ Cardinality(Carried(up[w])) \in Nat
        /\ bgot[w] + Cardinality(Carried(up[w])) <= typed[w]
    BY CarriedFinite, SystemAssumption DEF SysInv, SysTypes, Window, Conserved
  <2>3. Conserved(w)'
    BY <1>1, <1>5, <2>1, <2>2 DEF Conserved
  <2>4. Replayable(w)' /\ OnSocket(w)' /\ Exclusive(w)'
    BY <1>1, <1>4, <1>6, <2>1 DEF SysInv, Window, Replayable, OnSocket, Exclusive
  <2> QED
    BY <2>3, <2>4 DEF Window
<1> QED
  BY <1>3, <1>7 DEF SysInv

-----------------------------------------------------------------------------
(* The invariant, and what it implies.                                     *)

LEMMA InitSysInv == SysInit => SysInv
<1> SUFFICES ASSUME SysInit PROVE SysInv
  OBVIOUS
<1>1. 0 \in 0..MaxTyped
  BY SystemAssumption
<1>2. SysTypes
  BY <1>1 DEF SysInit, SysTypes
<1>3. Carried(<<>>) = {} /\ Cardinality(Carried(<<>>)) = 0
  BY FS_EmptySet DEF Carried
<1>4. \A w \in Wrappers : Window(w)
  BY <1>3 DEF SysInit, Window, Replayable, Conserved, OnSocket, Exclusive, Connected
<1> QED
  BY <1>2, <1>4 DEF SysInv

LEMMA NextSysInv == SysInv /\ IInv /\ [SysNext]_sysVars => SysInv'
<1> SUFFICES ASSUME SysInv, IInv, [SysNext]_sysVars PROVE SysInv'
  OBVIOUS
<1>1. restarts \in Nat
  BY BrokerAssumption DEF IInv, TypeOK
<1>2. CASE UNCHANGED sysVars
  <2>1. UNCHANGED <<relay, saw, pend, typed, up, down, direct, bgot, dgot, restarts>>
    BY <1>2 DEF sysVars, vars, relayVars, directVars
  <2> QED
    BY <2>1 DEF SysInv, SysTypes, Window, Replayable, Conserved, OnSocket, Exclusive, Connected
<1>3. CASE SysNext
  BY <1>1, <1>3, RelayReadsKept, RelayStepsKept, PanelKept, BrokerStepsKept, RestartKept
     DEF SysNext
<1> QED
  BY <1>2, <1>3

\* Whatever timeouts, refusals, exits, closes and restarts come between: a turn
\* that the panel typed is never given to the broker's child and to a direct one
\* while the broker lives (relay.js:21-30,78-86), and a wrapper that fell back has
\* given its direct child every turn (passthrough.js:14-15, relay.js:68-72).
THEOREM TurnsAreKept == SysSpec => []TurnsKept
<1>1. SysInv /\ IInv => TurnsKept
  <2> SUFFICES ASSUME SysInv, IInv PROVE TurnsKept
    OBVIOUS
  <2>1. \A w \in Wrappers : bgot[w] <= typed[w]
    <3>1. ASSUME NEW w \in Wrappers
          PROVE  bgot[w] <= typed[w]
      <4>1. /\ bgot[w] \in Nat /\ typed[w] \in Nat /\ Cardinality(Carried(up[w])) \in Nat
            /\ bgot[w] + Cardinality(Carried(up[w])) <= typed[w]
        BY CarriedFinite, SystemAssumption DEF SysInv, SysTypes, Window, Conserved
      <4> QED
        BY <4>1
    <3> QED
      BY <3>1
  <2>2. SysTypeOK
    <3>1. /\ bgot \in [Wrappers -> 0..MaxTyped] /\ dgot \in [Wrappers -> 0..MaxTyped]
          /\ pend \in [Wrappers -> 0..MaxTyped]
      BY <2>1, SystemAssumption DEF SysInv, SysTypes, Window, Replayable
    <3> QED
      BY <3>1 DEF SysInv, SysTypes, SysTypeOK, IInv, ToBroker, ToRelay
  <2>3. restarts \in Nat
    BY BrokerAssumption DEF IInv, TypeOK
  <2>4. TurnRunsOnce
    BY <2>3 DEF SysInv, SysTypes, Window, Exclusive, TurnRunsOnce
  <2>5. FallbackKeepsTurns
    BY DEF SysInv, Window, Replayable, FallbackKeepsTurns
  <2> QED
    BY <2>2, <2>4, <2>5 DEF TurnsKept
<1> QED
  BY <1>1, InitSysInv, NextSysInv, BrokerWithin, Invariance, PTL DEF SysSpec

=============================================================================
