-------------------------- MODULE HostServicesProofs --------------------------
(***************************************************************************)
(* Proofs about services of a session's machine: the updater, the doors    *)
(* and the images of the streamed editor, for any number of callers,       *)
(* faults, redirects, uploads and chunks.                                  *)
(***************************************************************************)
EXTENDS HostServices, TLAPS

-----------------------------------------------------------------------------
(* The updater's inductive invariant.                                      *)

\* Who is in a unit past its lock holds it.
Locked == \A j \in Jobs : updateRun[j].at \in InUnit <=> flocked = j

\* The manifest is true until a release was rolled back twice.
Truth == rollbacks < 2 => ManifestTrue

\* What is installed is what serves; it answers, and the manifest names it.
Served ==
  /\ serving = installed["runtime"]
  /\ installed["runtime"] = "new" => ~ broken

\* As long as nothing was rolled back, a runtime that is to be installed does not
\* replace a tree that an update brought.
RootOld(restart) ==
  (rollbacks = 0 /\ (restart \/ stamp["runtime"] # "new")) => trees["root"] # "new"

\* No run has begun to install.
Untouched ==
  /\ Served /\ Truth /\ RootOld(FALSE)
  /\ installed["runtime"] = "new" => stamp["runtime"] = "new"

\* The run brings a new runtime, which is not served yet.
Replaces(u) == u.restart \/ ("runtime" \in u.todo /\ u.at \in {"installing", "stamping"})
Replacing(u) ==
  /\ u.previous = "old" /\ serving = "old" /\ (rollbacks < 2 => version = "old")
  /\ installed["runtime"] =
       IF u.restart \/ (u.at = "stamping" /\ u.todo = {"runtime"}) THEN "new" ELSE "old"

\* The tree to roll back to is not one that an update brought, the first time.
PrevOld(n) == rollbacks = n => trees["prev"] # "new"

\* A run that holds the lock, by place.
Run(u) ==
  /\ u.at \in {"fetching", "beginning"} => Untouched
  /\ u.at \in {"installing", "stamping"} =>
       u.todo = Diff /\ Truth /\ RootOld(u.restart) /\ (u.restart => u.at = "installing" /\ u.todo = {})
  /\ u.at = "stamping" => u.todo # {} /\ installed[NextPart(u.todo)] = "new"
  /\ u.at \in {"swapping", "restarting", "checking", "unstamping", "ending"} => Diff = {}
  /\ u.at \in {"installing", "stamping", "swapping", "restarting"} =>
       IF Replaces(u) THEN Replacing(u) ELSE Served
  /\ u.at \in {"swapping", "restarting"} => Truth /\ (u.restart => PrevOld(0))
  /\ u.at = "checking" =>
       /\ Truth /\ PrevOld(0) /\ u.previous = "old" /\ (rollbacks < 2 => version = "old")
       /\ serving = "new" /\ installed["runtime"] = "new"
  /\ u.at = "unstamping" =>
       /\ serving = "old" /\ installed["runtime"] = "old" /\ rollbacks # 0 /\ PrevOld(1)
       /\ rollbacks < 2 => version = "old" /\ installed["agents"] = "new"
  /\ u.at = "ending" => Truth /\ Served

\* What holds until a run is stopped half-way.
Uncut ==
  /\ flocked = "none" => Untouched
  /\ \A j \in Jobs : flocked = j => Run(updateRun[j])
  /\ status.state = "done" => flocked = "none" /\ (rollbacks < 2 => version = "new")

UpdInv == UpdTypeOK /\ Locked /\ (~ cut => Uncut)

-----------------------------------------------------------------------------
(* The updater: types and the lock.                                        *)

RunType == [at: Places, todo: SUBSET Parts, restart: BOOLEAN, previous: {"old", "new"}]

\* A run that goes to a place keeps what it has, and the others stay.
LEMMA Goes ==
  ASSUME UpdTypeOK, NEW j \in Jobs, NEW place \in Places, GoesTo(j, place)
  PROVE  /\ updateRun' \in [Jobs -> RunType]
         /\ updateRun'[j].at = place /\ updateRun'[j].todo = updateRun[j].todo
         /\ updateRun'[j].restart = updateRun[j].restart
         /\ updateRun'[j].previous = updateRun[j].previous
         /\ \A k \in Jobs : k # j => updateRun'[k] = updateRun[k]
<1>1. updateRun \in [Jobs -> RunType]
  BY DEF UpdTypeOK, RunType
<1>2. updateRun' = [updateRun EXCEPT ![j] = [updateRun[j] EXCEPT !.at = place]]
  BY DEF GoesTo
<1>3. [updateRun[j] EXCEPT !.at = place] \in RunType
  BY <1>1 DEF RunType
<1> QED BY <1>1, <1>2, <1>3 DEF RunType

\* Places that runs go to.
LEMMA PlacesAre ==
  /\ InUnit \subseteq Places /\ {"idle", "asked", "passed", "launched"} \subseteq Places
  /\ {"idle", "asked", "passed", "launched"} \cap InUnit = {}
BY DEF Places, InUnit

StatusType == [state: {"idle", "running", "done", "failed"}, unit: Jobs \cup {"none"}]

LEMMA Written ==
  ASSUME UpdTypeOK, NEW state \in {"idle", "running", "done", "failed"}, Writes(state)
  PROVE  status' \in StatusType /\ status'.state = state
BY DEF Writes, UpdTypeOK, StatusType

\* The end of a run.
LEMMA Ended ==
  ASSUME UpdTypeOK, NEW j \in Jobs, NEW state \in {"idle", "running", "done", "failed"},
         Ends(j, state)
  PROVE  /\ updateRun' \in [Jobs -> RunType] /\ status' \in StatusType
         /\ flocked' = "none" /\ status'.state = state
         /\ updateRun'[j].at = "idle" /\ \A k \in Jobs : k # j => updateRun'[k] = updateRun[k]
<1>1. GoesTo(j, "idle") /\ Writes(state) /\ flocked' = "none"
  BY DEF Ends
<1> QED BY <1>1, Goes, Written, PlacesAre

LEMMA LockStays ==
  ASSUME Locked, flocked' = flocked,
         \A k \in Jobs : updateRun'[k].at \in InUnit <=> updateRun[k].at \in InUnit
  PROVE  Locked'
BY DEF Locked

LEMMA LockFreed ==
  ASSUME Locked, NEW j \in Jobs, flocked = j, flocked' = "none", updateRun'[j].at = "idle",
         \A k \in Jobs : k # j => updateRun'[k] = updateRun[k]
  PROVE  Locked'
BY UpdaterAssumption DEF Locked, InUnit

\* A step of a run that only moves it, outside the unit or within it.
LEMMA Moved ==
  ASSUME UpdTypeOK, Locked, NEW j \in Jobs, NEW place \in Places, GoesTo(j, place),
         updateRun[j].at \in InUnit <=> place \in InUnit,
         UNCHANGED <<flocked, broken, cut, rollbacks>>,
         status' \in StatusType, faults' \in 0..MaxFaults,
         stamp' \in [Parts -> {"none", "old", "new"}], version' \in {"old", "new"},
         installed' \in [Parts -> {"old", "new"}], serving' \in {"old", "new"},
         trees' \in [{"root", "prev", "next"} -> Tree]
  PROVE  UpdTypeOK' /\ Locked'
<1>1. updateRun' \in [Jobs -> RunType] /\ updateRun'[j].at = place
      /\ \A k \in Jobs : k # j => updateRun'[k] = updateRun[k]
  BY Goes
<1>2. Locked'
  BY <1>1, LockStays
<1>3. UpdTypeOK'
  BY <1>1 DEF UpdTypeOK, RunType, StatusType
<1> QED BY <1>2, <1>3

\* Steps before the unit is past its lock, and the lock.
LEMMA OutsideTypes ==
  ASSUME UpdTypeOK, Locked, NEW j \in Jobs, AskUpdate(j) \/ PassGuard(j) \/ LaunchUnit(j) \/ TakeLock(j)
  PROVE  UpdTypeOK' /\ Locked'
<1>1. /\ status \in StatusType /\ faults \in 0..MaxFaults
      /\ stamp \in [Parts -> {"none", "old", "new"}] /\ version \in {"old", "new"}
      /\ installed \in [Parts -> {"old", "new"}] /\ serving \in {"old", "new"}
      /\ trees \in [{"root", "prev", "next"} -> Tree]
  BY DEF UpdTypeOK, StatusType
<1>2. {"idle", "asked", "passed", "launched"} \subseteq Places /\ "fetching" \in Places
      /\ {"idle", "asked", "passed", "launched"} \cap InUnit = {} /\ "fetching" \in InUnit
  BY DEF Places, InUnit
<1>3. CASE AskUpdate(j)
  BY <1>1, <1>2, <1>3, Moved DEF AskUpdate, Same, hostVars
<1>4. CASE PassGuard(j)
  <2>1. (IF AlreadyRunning THEN "idle" ELSE "passed") \in {"idle", "passed"}
    OBVIOUS
  <2> QED BY <1>1, <1>2, <1>4, <2>1, Moved DEF PassGuard, Same, hostVars
<1>5. CASE LaunchUnit(j)
  <2>1. status' \in StatusType
    BY <1>5 DEF LaunchUnit, StatusType
  <2> QED BY <1>1, <1>2, <1>5, <2>1, Moved DEF LaunchUnit, Same, hostVars
<1>6. CASE TakeLock(j)
  <2>1. CASE trees["root"] = "none"
    BY <1>1, <1>2, <1>6, <2>1, Moved DEF TakeLock, Same, hostVars
  <2>2. CASE trees["root"] # "none" /\ LockFree
    <3>1. GoesTo(j, "fetching") /\ flocked' = j /\ Writes("running") /\ flocked = "none"
          /\ UNCHANGED <<hostVars, faults, rollbacks, cut>>
      BY <1>6, <2>2 DEF TakeLock, Same, LockFree
    <3>2. updateRun' \in [Jobs -> RunType] /\ updateRun'[j].at = "fetching"
          /\ \A k \in Jobs : k # j => updateRun'[k] = updateRun[k]
      BY <1>2, <3>1, Goes
    <3>3. Locked'
      BY <1>2, <3>1, <3>2, UpdaterAssumption DEF Locked
    <3>4. status' \in StatusType
      BY <3>1, Written
    <3>5. UpdTypeOK'
      BY <3>1, <3>2, <3>4 DEF UpdTypeOK, RunType, StatusType, hostVars
    <3> QED BY <3>3, <3>5
  <2>3. CASE trees["root"] # "none" /\ ~ LockFree
    <3>1. GoesTo(j, "idle") /\ Writes("failed") /\ UNCHANGED <<flocked, hostVars, faults, rollbacks, cut>>
      BY <1>6, <2>3 DEF TakeLock, Same
    <3>2. status' \in StatusType
      BY <3>1, Written
    <3>3. updateRun[j].at \notin InUnit
      BY <1>2, <1>6 DEF TakeLock
    <3> QED BY <1>1, <1>2, <3>1, <3>2, <3>3, Moved DEF hostVars
  <2> QED BY <2>1, <2>2, <2>3
<1> QED BY <1>3, <1>4, <1>5, <1>6

\* Steps within the unit, but for its end.
LEMMA InsideTypes ==
  ASSUME UpdTypeOK, Locked, NEW j \in Jobs,
         \/ FetchOk(j) \/ Install(j) \/ MoveAway(j) \/ MoveIn(j) \/ RestartUnits(j) \/ Healthy(j)
  PROVE  UpdTypeOK' /\ Locked'
<1>1. /\ status \in StatusType /\ faults \in 0..MaxFaults
      /\ stamp \in [Parts -> {"none", "old", "new"}] /\ version \in {"old", "new"}
      /\ installed \in [Parts -> {"old", "new"}] /\ serving \in {"old", "new"}
      /\ trees \in [{"root", "prev", "next"} -> Tree] /\ "new" \in Tree /\ "none" \in Tree
  BY DEF UpdTypeOK, StatusType, Tree
<1>2. InUnit \subseteq Places /\ {"fetching", "beginning", "installing", "stamping", "swapping",
        "restarting", "checking", "unstamping", "ending"} = InUnit
  BY DEF Places, InUnit
<1>3. Writes("running") => status' \in StatusType
  BY Written
<1>4. CASE FetchOk(j)
  <2>1. trees' \in [{"root", "prev", "next"} -> Tree]
    BY <1>1, <1>4 DEF FetchOk
  <2> QED BY <1>1, <1>2, <1>3, <1>4, <2>1, Moved DEF FetchOk, Same
<1>5. CASE Install(j)
  <2>1. installed' \in [Parts -> {"old", "new"}]
    BY <1>1, <1>5 DEF Install, NextPart
  <2> QED BY <1>1, <1>2, <1>3, <1>5, <2>1, Moved DEF Install, Same
<1>6. CASE MoveAway(j)
  <2>1. trees' \in [{"root", "prev", "next"} -> Tree]
    BY <1>1, <1>6 DEF MoveAway
  <2> QED BY <1>1, <1>2, <1>6, <2>1, Moved DEF MoveAway, Same
<1>7. CASE MoveIn(j)
  <2>1. trees' \in [{"root", "prev", "next"} -> Tree]
    BY <1>1, <1>7 DEF MoveIn
  <2> QED BY <1>1, <1>2, <1>3, <1>7, <2>1, Moved DEF MoveIn, Same
<1>8. CASE RestartUnits(j)
  <2>1. serving' \in {"old", "new"}
    BY <1>1, <1>8 DEF RestartUnits, Parts
  <2>2. PICK place \in {"checking", "ending"} : GoesTo(j, place)
    BY <1>8 DEF RestartUnits
  <2> QED BY <1>1, <1>2, <1>8, <2>1, <2>2, Moved DEF RestartUnits, Same
<1>9. CASE Healthy(j)
  BY <1>1, <1>2, <1>9, Moved DEF Healthy, Same, hostVars
<1> QED BY <1>4, <1>5, <1>6, <1>7, <1>8, <1>9

LEMMA ApplyTypes ==
  ASSUME UpdTypeOK, Locked, NEW j \in Jobs, Begin(j) \/ Stamp(j) \/ Rollback(j)
  PROVE  UpdTypeOK' /\ Locked'
<1>1. updateRun \in [Jobs -> RunType] /\ status \in StatusType
  BY DEF UpdTypeOK, RunType, StatusType
<1>2. "installing" \in Places /\ "unstamping" \in Places
      /\ {"beginning", "installing", "stamping", "checking", "unstamping"} \subseteq InUnit
  BY DEF Places, InUnit
<1>3. CASE Begin(j)
  <2>1. Diff \in SUBSET Parts /\ installed["runtime"] \in {"old", "new"}
    BY DEF Diff, UpdTypeOK, Parts
  <2>2. updateRun' \in [Jobs -> RunType]
    BY <1>1, <1>2, <1>3, <2>1 DEF Begin, RunType
  <2>3. status' \in StatusType
    BY <1>3, Written DEF Begin
  <2>4. UNCHANGED <<stamp, version, installed, serving, trees, broken, flocked, faults, rollbacks, cut>>
    BY <1>3 DEF Begin, Same, hostVars
  <2>5. UpdTypeOK'
    BY <2>2, <2>3, <2>4 DEF UpdTypeOK, RunType, StatusType
  <2>6. Locked'
    BY <1>1, <1>2, <1>3, <2>4, LockStays DEF Begin
  <2> QED BY <2>5, <2>6
<1>4. CASE Stamp(j)
  <2>1. updateRun' \in [Jobs -> RunType]
    BY <1>1, <1>2, <1>4 DEF Stamp, RunType, RestartFor
  <2>2. stamp' \in [Parts -> {"none", "old", "new"}]
    BY <1>4 DEF Stamp, UpdTypeOK
  <2>3. UNCHANGED <<version, installed, serving, trees, status, broken, flocked, faults, rollbacks, cut>>
    BY <1>4 DEF Stamp, Same
  <2>4. UpdTypeOK'
    BY <2>1, <2>2, <2>3 DEF UpdTypeOK, RunType
  <2>5. /\ updateRun[j].at = "stamping" /\ updateRun'[j].at = "installing"
        /\ \A k \in Jobs : k # j => updateRun'[k] = updateRun[k]
    BY <1>1, <1>4 DEF Stamp, RunType
  <2>6. Locked'
    BY <1>2, <2>3, <2>5, LockStays
  <2> QED BY <2>4, <2>6
<1>5. CASE Rollback(j)
  <2>1. updateRun[j].previous \in {"old", "new"}
    BY <1>1 DEF RunType
  <2>2. installed' \in [Parts -> {"old", "new"}] /\ serving' \in {"old", "new"}
    BY <1>5, <2>1 DEF Rollback, RollbackTo, UpdTypeOK, Parts
  <2>3. faults' \in 0..MaxFaults /\ rollbacks' \in 0..2
    BY <1>5, UpdaterAssumption DEF Rollback, UpdTypeOK
  <2>4. /\ updateRun' \in [Jobs -> RunType] /\ updateRun'[j].at = "unstamping"
        /\ \A k \in Jobs : k # j => updateRun'[k] = updateRun[k]
    BY <1>2, <1>5, Goes DEF Rollback
  <2>5. UNCHANGED <<stamp, version, trees, status, flocked, broken, cut>> /\ updateRun[j].at = "checking"
    BY <1>5 DEF Rollback
  <2>6. UpdTypeOK'
    BY <2>2, <2>3, <2>4, <2>5 DEF UpdTypeOK, RunType
  <2>7. Locked'
    BY <1>2, <2>4, <2>5, LockStays
  <2> QED BY <2>6, <2>7
<1> QED BY <1>3, <1>4, <1>5

\* The ends of a run.
LEMMA EndTypes ==
  ASSUME UpdTypeOK, Locked, NEW j \in Jobs,
         FetchFails(j) \/ InstallFails(j) \/ Unstamp(j) \/ Done(j)
  PROVE  UpdTypeOK' /\ Locked'
<1>1. PICK state \in {"failed", "done"} : Ends(j, state)
  BY DEF FetchFails, InstallFails, Unstamp, Done
<1>2. /\ updateRun' \in [Jobs -> RunType] /\ status' \in StatusType /\ flocked' = "none"
      /\ updateRun'[j].at = "idle" /\ \A k \in Jobs : k # j => updateRun'[k] = updateRun[k]
  BY <1>1, Ended
<1>3. updateRun[j].at \in InUnit
  BY DEF FetchFails, InstallFails, Unstamp, Done, InUnit
<1>4. Locked'
  <2>1. flocked = j
    BY <1>3 DEF Locked
  <2> QED BY <1>2, <2>1, LockFreed
<1>5. faults' \in 0..MaxFaults
  BY UpdaterAssumption DEF FetchFails, InstallFails, Unstamp, Done, Same, UpdTypeOK
<1>6. installed' \in [Parts -> {"old", "new"}]
  BY DEF FetchFails, InstallFails, Unstamp, Done, Same, UpdTypeOK, hostVars, NextPart
<1>7. stamp' \in [Parts -> {"none", "old", "new"}]
  BY DEF FetchFails, InstallFails, Unstamp, Done, Same, UpdTypeOK, hostVars, StampsKept, TargetOf
<1>8. version' \in {"old", "new"}
  BY DEF FetchFails, InstallFails, Unstamp, Done, Same, UpdTypeOK, hostVars
<1>9. cut' \in BOOLEAN
  BY DEF FetchFails, InstallFails, Unstamp, Done, Same, UpdTypeOK, hostVars
<1>10. UNCHANGED <<serving, trees, broken, rollbacks>>
  BY DEF FetchFails, InstallFails, Unstamp, Done, Same, hostVars
<1>11. UpdTypeOK'
  BY <1>2, <1>5, <1>6, <1>7, <1>8, <1>9, <1>10 DEF UpdTypeOK, RunType, StatusType
<1> QED BY <1>4, <1>11

\* A unit is killed; the machine reboots.
LEMMA FaultTypes ==
  ASSUME UpdTypeOK, Locked, (\E j \in Jobs : UnitKilled(j)) \/ RebootHost
  PROVE  UpdTypeOK' /\ Locked'
<1>1. "idle" \in Places /\ "idle" \notin InUnit /\ "none" \notin Jobs
  BY UpdaterAssumption DEF Places, InUnit
<1>2. updateRun \in [Jobs -> RunType] /\ faults' \in 0..MaxFaults
  BY UpdaterAssumption DEF UpdTypeOK, RunType, UnitKilled, RebootHost
<1>3. ASSUME NEW j \in Jobs, UnitKilled(j)
      PROVE  UpdTypeOK' /\ Locked'
  <2>1. /\ updateRun' \in [Jobs -> RunType] /\ updateRun'[j].at = "idle"
        /\ \A k \in Jobs : k # j => updateRun'[k] = updateRun[k]
    BY <1>1, <1>3, Goes DEF UnitKilled
  <2>2. Locked'
    BY <1>1, <1>3, <2>1 DEF UnitKilled, Locked, InUnit
  <2>3. cut' \in BOOLEAN /\ flocked' \in Jobs \cup {"none"}
    BY <1>3 DEF UnitKilled, UpdTypeOK
  <2>4. UNCHANGED <<stamp, version, installed, serving, trees, broken, status, rollbacks>>
    BY <1>3 DEF UnitKilled, hostVars
  <2> QED BY <1>2, <2>1, <2>2, <2>3, <2>4 DEF UpdTypeOK, RunType
<1>4. CASE RebootHost
  <2>1. \A k \in Jobs : [updateRun[k] EXCEPT !.at = "idle"] \in RunType
    BY <1>1, <1>2 DEF RunType
  <2>2. updateRun' \in [Jobs -> RunType] /\ \A k \in Jobs : updateRun'[k].at = "idle"
    BY <1>2, <1>4, <2>1 DEF RebootHost, RunType
  <2>3. Locked'
    BY <1>1, <1>4, <2>2 DEF RebootHost, Locked
  <2>4. cut' \in BOOLEAN /\ flocked' \in Jobs \cup {"none"} /\ serving' \in {"old", "new"}
    BY <1>4 DEF RebootHost, UpdTypeOK, Parts
  <2>5. UNCHANGED <<stamp, version, installed, trees, status, broken, rollbacks>>
    BY <1>4 DEF RebootHost
  <2> QED BY <1>2, <2>2, <2>3, <2>4, <2>5 DEF UpdTypeOK, RunType
<1> QED BY <1>3, <1>4

-----------------------------------------------------------------------------
(* The updater: what it says is so.                                        *)

\* A step of the run that holds the lock, which goes on.
LEMMA RunGoesOn ==
  ASSUME NEW j \in Jobs, flocked = j, UNCHANGED flocked, Uncut,
         status'.state = status.state \/ status'.state = "running", Run(updateRun[j])'
  PROVE  Uncut'
BY UpdaterAssumption DEF Uncut

\* Its end.
LEMMA RunEnds ==
  ASSUME flocked' = "none", Untouched',
         status'.state = "done" => (rollbacks' < 2 => version' = "new")
  PROVE  Uncut'
BY UpdaterAssumption DEF Uncut

\* A step of a run that does not hold the lock.
LEMMA OthersStep ==
  ASSUME Uncut, Locked, NEW j \in Jobs, updateRun[j].at \notin InUnit,
         UNCHANGED <<flocked, stamp, version, installed, serving, trees, broken, rollbacks>>,
         \A k \in Jobs : k # j => updateRun'[k] = updateRun[k],
         status'.state = status.state \/ status'.state \in {"running", "failed"}
  PROVE  Uncut'
<1>1. flocked # j
  BY DEF Locked
<1>2. ASSUME NEW k \in Jobs, flocked' = k
      PROVE  Run(updateRun[k])'
  <2>1. updateRun'[k] = updateRun[k] /\ Run(updateRun[k])
    BY <1>1, <1>2 DEF Uncut
  <2> QED BY <2>1 DEF Run, Untouched, Truth, Served, RootOld, ManifestTrue, Diff, Replaces,
                      Replacing, PrevOld
<1>3. flocked' = "none" => Untouched'
  BY DEF Uncut, Untouched, Truth, Served, RootOld, ManifestTrue
<1>4. status'.state = "done" => flocked' = "none" /\ (rollbacks' < 2 => version' = "new")
  BY DEF Uncut
<1> QED BY <1>2, <1>3, <1>4 DEF Uncut

LEMMA OutsideUncut ==
  ASSUME UpdTypeOK, Locked, Uncut, NEW j \in Jobs,
         AskUpdate(j) \/ PassGuard(j) \/ LaunchUnit(j) \/ TakeLock(j)
  PROVE  Uncut'
<1>1. /\ UNCHANGED <<stamp, version, installed, serving, trees, broken, rollbacks>>
      /\ updateRun[j].at \in {"idle", "asked", "passed", "launched"}
  BY DEF AskUpdate, PassGuard, LaunchUnit, TakeLock, Same, hostVars
<1>2. updateRun[j].at \notin InUnit
  BY <1>1 DEF InUnit
<1>3. PICK place \in Places : GoesTo(j, place)
  <2>1. PICK place \in {"idle", "asked", "passed", "launched", "fetching"} : GoesTo(j, place)
    BY DEF AskUpdate, PassGuard, LaunchUnit, TakeLock
  <2> QED BY <2>1 DEF Places, InUnit
<1>4. \A k \in Jobs : k # j => updateRun'[k] = updateRun[k]
  BY <1>3, Goes
<1>5. CASE TakeLock(j) /\ trees["root"] # "none" /\ LockFree
  <2>1. flocked = "none" /\ flocked' = j /\ GoesTo(j, "fetching") /\ Writes("running")
    BY <1>5 DEF TakeLock, LockFree
  <2>2. updateRun'[j].at = "fetching" /\ status'.state = "running"
    BY <2>1, Goes, Written DEF Places, InUnit
  <2>3. Untouched'
    BY <1>1, <2>1 DEF Uncut, Untouched, Truth, Served, RootOld, ManifestTrue
  <2>4. Run(updateRun[j])'
    BY <2>2, <2>3 DEF Run
  <2> QED BY <2>1, <2>2, <2>4, UpdaterAssumption DEF Uncut
<1>6. CASE ~ (TakeLock(j) /\ trees["root"] # "none" /\ LockFree)
  <2>1. UNCHANGED flocked
    BY <1>6 DEF AskUpdate, PassGuard, LaunchUnit, TakeLock
  <2>2. status'.state = status.state \/ status'.state \in {"running", "failed"}
    BY <1>6 DEF AskUpdate, PassGuard, LaunchUnit, TakeLock, Writes, UpdTypeOK
  <2> QED BY <1>1, <1>2, <1>4, <2>1, <2>2, OthersStep
<1> QED BY <1>5, <1>6

\* A run holds the lock.
LEMMA Holder ==
  ASSUME Locked, Uncut, NEW j \in Jobs, updateRun[j].at \in InUnit
  PROVE  flocked = j /\ Run(updateRun[j])
BY DEF Locked, Uncut

LEMMA FetchUncut ==
  ASSUME UpdTypeOK, Locked, Uncut, NEW j \in Jobs, FetchOk(j) \/ FetchFails(j)
  PROVE  Uncut'
<1>1. updateRun[j].at = "fetching" /\ "fetching" \in InUnit /\ "beginning" \in Places
  BY DEF FetchOk, FetchFails, InUnit, Places
<1>2. flocked = j /\ Untouched
  BY <1>1, Holder DEF Run
<1>3. UNCHANGED <<stamp, version, installed, serving, broken, rollbacks>>
      /\ trees'["root"] = trees["root"]
  BY DEF FetchOk, FetchFails, Same, hostVars, UpdTypeOK
<1>4. Untouched'
  BY <1>2, <1>3 DEF Untouched, Truth, Served, RootOld, ManifestTrue
<1>5. CASE FetchOk(j)
  <2>1. GoesTo(j, "beginning") /\ Writes("running") /\ UNCHANGED flocked
    BY <1>5 DEF FetchOk
  <2>2. updateRun'[j].at = "beginning" /\ status'.state = "running"
    BY <1>1, <2>1, Goes, Written
  <2>3. Run(updateRun[j])'
    BY <1>4, <2>2 DEF Run
  <2> QED BY <1>2, <2>1, <2>2, <2>3, RunGoesOn
<1>6. CASE FetchFails(j)
  <2>1. Ends(j, "failed")
    BY <1>6 DEF FetchFails
  <2>2. flocked' = "none" /\ status'.state = "failed"
    BY <2>1, Ended
  <2> QED BY <1>4, <2>2, RunEnds
<1> QED BY <1>5, <1>6

LEMMA BeginUncut ==
  ASSUME UpdTypeOK, Locked, Uncut, NEW j \in Jobs, Begin(j)
  PROVE  Uncut'
<1>1. updateRun[j].at = "beginning" /\ "beginning" \in InUnit
  BY DEF Begin, InUnit
<1>2. flocked = j /\ Untouched
  BY <1>1, Holder DEF Run
<1>3. /\ UNCHANGED <<stamp, version, installed, serving, trees, broken, rollbacks, flocked>>
      /\ updateRun'[j].at = "installing" /\ updateRun'[j].todo = Diff
      /\ updateRun'[j].restart = FALSE /\ updateRun'[j].previous = installed["runtime"]
      /\ status'.state = "running"
  BY DEF Begin, Same, hostVars, Writes, UpdTypeOK
<1>4. installed["runtime"] \in {"old", "new"} /\ version \in {"old", "new"}
  BY DEF UpdTypeOK, Parts
<1>5. "runtime" \in Diff => /\ installed["runtime"] = "old" /\ serving = "old"
                           /\ (rollbacks < 2 => version = "old")
  BY <1>2, <1>4 DEF Diff, Untouched, Served, Truth, ManifestTrue, Parts
<1>6. Diff' = Diff /\ Truth' /\ RootOld(FALSE)' /\ Served'
  BY <1>2, <1>3 DEF Untouched, Truth, Served, RootOld, ManifestTrue, Diff
<1>7. "runtime" \in Diff => Replacing(updateRun[j])'
  BY <1>3, <1>5 DEF Replacing
<1>8. Run(updateRun[j])'
  BY <1>3, <1>6, <1>7 DEF Run, RootOld, Replaces
<1> QED BY <1>2, <1>3, <1>8, RunGoesOn

LEMMA InstallUncut ==
  ASSUME UpdTypeOK, Locked, Uncut, NEW j \in Jobs, Install(j)
  PROVE  Uncut'
<1> DEFINE u == updateRun[j]
           p == NextPart(u.todo)
<1>1. u.at = "installing" /\ "installing" \in InUnit /\ "stamping" \in Places /\ u.todo # {}
  BY DEF Install, InUnit, Places
<1>2. flocked = j /\ Run(u)
  BY <1>1, Holder
<1>3. /\ u.todo = Diff /\ Truth /\ RootOld(FALSE) /\ ~ u.restart
      /\ u.todo \subseteq Parts /\ p \in u.todo
      /\ IF "runtime" \in u.todo THEN Replacing(u) ELSE Served
  BY <1>1, <1>2 DEF Run, RootOld, Replaces, NextPart, Parts, Diff
<1>4. /\ UNCHANGED <<stamp, version, serving, trees, broken, rollbacks, flocked>>
      /\ \A q \in Parts : installed'[q] = IF q = p THEN "new" ELSE installed[q]
      /\ updateRun'[j].at = "stamping" /\ updateRun'[j].todo = u.todo
      /\ updateRun'[j].restart = u.restart /\ updateRun'[j].previous = u.previous
      /\ status'.state = "running"
  BY <1>1, Goes, Written DEF Install, Same, UpdTypeOK
<1>5. p = "runtime" => u.todo = {"runtime"}
  BY <1>1, <1>3 DEF NextPart, Parts
<1>6. p = "agents" => u.todo # {"runtime"} /\ installed'["runtime"] = installed["runtime"]
  BY <1>3, <1>4 DEF Parts
<1>7. Truth'
  BY <1>3, <1>4 DEF Truth, ManifestTrue, Parts
<1>8. Diff' = Diff
  BY <1>4 DEF Diff
<1>9. IF "runtime" \in u.todo THEN Replacing(updateRun[j])' ELSE Served'
  <2>1. CASE p = "runtime"
    BY <1>1, <1>3, <1>4, <1>5, <2>1 DEF Replacing, Parts
  <2>2. CASE p = "agents"
    BY <1>1, <1>3, <1>4, <1>6, <2>2 DEF Replacing, Served
  <2> QED BY <2>1, <2>2 DEF NextPart
<1>10. Run(updateRun[j])'
  BY <1>1, <1>3, <1>4, <1>7, <1>8, <1>9 DEF Run, RootOld, Replaces
<1> QED BY <1>2, <1>4, <1>10, RunGoesOn

\* A run that stops while the new runtime is not in place leaves the machine as if
\* it had not begun.
LEMMA HalfInstalled ==
  ASSUME UpdTypeOK, NEW j \in Jobs, Run(updateRun[j]), updateRun[j].at \in {"installing", "stamping"},
         installed["runtime"] # "new" \/ (updateRun[j].at = "installing" /\ updateRun[j].todo # {})
  PROVE  Untouched
<1> DEFINE u == updateRun[j]
<1>1. /\ u.todo = Diff /\ Truth /\ RootOld(FALSE) /\ (u.restart => u.at = "installing" /\ u.todo = {})
      /\ IF Replaces(u) THEN Replacing(u) ELSE Served
  BY DEF Run, RootOld
<1>2. ~ u.restart
  BY <1>1 DEF Replaces, Replacing
<1>3. CASE "runtime" \in u.todo
  <2>1. serving = "old" /\ installed["runtime"] = "old"
    <3>1. Replacing(u)
      BY <1>1, <1>3 DEF Replaces
    <3>2. u.at = "stamping" => installed["runtime"] # "new"
      OBVIOUS
    <3> QED BY <1>2, <3>1, <3>2 DEF Replacing
  <2> QED BY <1>1, <2>1 DEF Untouched, Served
<1>4. CASE "runtime" \notin u.todo
  <2>1. Served /\ stamp["runtime"] = "new"
    BY <1>1, <1>2, <1>4 DEF Replaces, Diff, Parts
  <2> QED BY <1>1, <2>1 DEF Untouched
<1> QED BY <1>3, <1>4

LEMMA InstallFailsUncut ==
  ASSUME UpdTypeOK, Locked, Uncut, NEW j \in Jobs, InstallFails(j), ~ cut'
  PROVE  Uncut'
<1> DEFINE u == updateRun[j]
           p == NextPart(u.todo)
<1>1. u.at = "installing" /\ "installing" \in InUnit /\ u.todo # {} /\ p \in Parts
  BY DEF InstallFails, InUnit, NextPart, Parts
<1>2. flocked = j /\ Run(u)
  BY <1>1, Holder
<1>3. Untouched
  BY <1>1, <1>2, HalfInstalled
<1>4. /\ UNCHANGED <<stamp, version, serving, trees, broken, rollbacks>>
      /\ installed'["runtime"] = installed["runtime"]
      /\ \A q \in Parts : installed'[q] = installed[q] \/ installed'[q] = "new"
  BY DEF InstallFails, StampsKept, UpdTypeOK
<1>5. Untouched'
  BY <1>3, <1>4 DEF Untouched, Truth, Served, RootOld, ManifestTrue
<1>6. flocked' = "none" /\ status'.state = "failed"
  <2>1. Ends(j, "failed")
    BY DEF InstallFails
  <2> QED BY <2>1, Ended
<1> QED BY <1>5, <1>6, RunEnds

LEMMA StampUncut ==
  ASSUME UpdTypeOK, Locked, Uncut, NEW j \in Jobs, Stamp(j)
  PROVE  Uncut'
<1> DEFINE u == updateRun[j]
           p == NextPart(u.todo)
<1>1. u.at = "stamping" /\ "stamping" \in InUnit /\ p \in Parts
  BY DEF Stamp, InUnit, NextPart, Parts
<1>2. flocked = j /\ Run(u)
  BY <1>1, Holder
<1>3. /\ u.todo = Diff /\ Truth /\ RootOld(FALSE) /\ ~ u.restart /\ u.todo # {} /\ installed[p] = "new"
      /\ u.todo \subseteq Parts /\ p \in u.todo
      /\ IF "runtime" \in u.todo THEN Replacing(u) ELSE Served
  BY <1>1, <1>2 DEF Run, RootOld, Replaces, NextPart, Parts, Diff
<1>4. /\ UNCHANGED <<version, installed, serving, trees, status, broken, rollbacks, flocked>>
      /\ \A q \in Parts : stamp'[q] = IF q = p THEN "new" ELSE stamp[q]
      /\ updateRun'[j].at = "installing" /\ updateRun'[j].todo = u.todo \ {p}
      /\ (updateRun'[j].restart <=> p = "runtime") /\ updateRun'[j].previous = u.previous
  BY <1>1, <1>3 DEF Stamp, Same, UpdTypeOK, RestartFor
<1>5. /\ p = "runtime" => u.todo = {"runtime"} /\ u.todo \ {p} = {}
      /\ p = "agents" => ("runtime" \in u.todo \ {p} <=> "runtime" \in u.todo)
      /\ p = "agents" => u.todo # {"runtime"}
      /\ p \in {"agents", "runtime"}
  BY <1>3 DEF NextPart, Parts
<1>6. Truth'
  BY <1>3, <1>4 DEF Truth, ManifestTrue, Parts
<1>7. Diff' = u.todo \ {p}
  BY <1>3, <1>4 DEF Diff
<1>8. RootOld(updateRun[j].restart)'
  <2>1. rollbacks = 0 /\ p = "runtime" => trees["root"] # "new"
    BY <1>3 DEF RootOld, Diff
  <2>2. rollbacks = 0 /\ stamp["runtime"] # "new" => trees["root"] # "new"
    BY <1>3 DEF RootOld
  <2>3. stamp'["runtime"] # "new" => stamp["runtime"] # "new"
    BY <1>4 DEF Parts
  <2> QED BY <1>4, <2>1, <2>2, <2>3 DEF RootOld
<1>9. IF Replaces(updateRun[j])' THEN Replacing(updateRun[j])' ELSE Served'
  <2>1. CASE p = "runtime"
    <3>1. Replacing(u)
      BY <1>3, <1>5, <2>1
    <3>2. Replacing(updateRun[j])'
      BY <1>1, <1>3, <1>4, <1>5, <2>1, <3>1 DEF Replacing
    <3> QED BY <1>4, <2>1, <3>2 DEF Replaces
  <2>2. CASE p = "agents" /\ "runtime" \in u.todo
    <3>1. Replacing(u)
      BY <1>3, <2>2
    <3>2. Replacing(updateRun[j])'
      BY <1>1, <1>3, <1>4, <1>5, <2>2, <3>1 DEF Replacing
    <3> QED BY <1>4, <1>5, <2>2, <3>2 DEF Replaces
  <2>3. CASE p = "agents" /\ "runtime" \notin u.todo
    <3>1. Served'
      BY <1>3, <1>4, <2>3 DEF Served
    <3> QED BY <1>4, <1>5, <2>3, <3>1 DEF Replaces
  <2> QED BY <1>5, <2>1, <2>2, <2>3
<1>10. Run(updateRun[j])'
  BY <1>4, <1>5, <1>6, <1>7, <1>8, <1>9 DEF Run
<1> QED BY <1>2, <1>4, <1>10, RunGoesOn

LEMMA MovesUncut ==
  ASSUME UpdTypeOK, Locked, Uncut, NEW j \in Jobs, MoveAway(j) \/ MoveIn(j)
  PROVE  Uncut'
<1> DEFINE u == updateRun[j]
<1>1. /\ u.at \in {"installing", "swapping"} /\ u.at \in InUnit
      /\ "swapping" \in Places /\ "restarting" \in Places
  BY DEF MoveAway, MoveIn, InUnit, Places
<1>2. flocked = j /\ Run(u)
  BY <1>1, Holder
<1>3. UNCHANGED <<stamp, version, installed, serving, broken, rollbacks, flocked>>
  BY DEF MoveAway, MoveIn, Same
<1>4. /\ updateRun'[j].at = IF u.at = "installing" THEN "swapping" ELSE "restarting"
      /\ updateRun'[j].restart = u.restart /\ updateRun'[j].previous = u.previous
      /\ updateRun'[j].todo = u.todo
  BY <1>1, Goes DEF MoveAway, MoveIn
<1>5. status'.state = status.state \/ status'.state = "running"
  BY Written DEF MoveAway, MoveIn
<1>6. Diff = {} /\ Truth /\ IF u.restart THEN Replacing(u) ELSE Served
  BY <1>1, <1>2 DEF MoveAway, MoveIn, Run, Replaces
<1>7. u.restart => PrevOld(0)'
  <2>1. CASE MoveAway(j)
    <3>1. trees'["prev"] = trees["root"]
      BY <2>1 DEF MoveAway, UpdTypeOK
    <3>2. u.restart => RootOld(TRUE)
      BY <1>2, <2>1 DEF MoveAway, Run, RootOld
    <3> QED BY <1>3, <3>1, <3>2 DEF RootOld, PrevOld
  <2>2. CASE MoveIn(j)
    <3>1. trees'["prev"] = trees["prev"]
      BY <2>2 DEF MoveIn, UpdTypeOK
    <3>2. u.restart => PrevOld(0)
      BY <1>2, <2>2 DEF MoveIn, Run
    <3> QED BY <1>3, <3>1, <3>2 DEF PrevOld
  <2> QED BY <2>1, <2>2
<1>8. Diff' = Diff /\ Truth'
  BY <1>3, <1>6 DEF Diff, Truth, ManifestTrue
<1>9. IF u.restart THEN Replacing(updateRun[j])' ELSE Served'
  BY <1>1, <1>3, <1>4, <1>6 DEF Replacing, Served
<1>10. Run(updateRun[j])'
  BY <1>4, <1>6, <1>7, <1>8, <1>9 DEF Run, Replaces
<1> QED BY <1>2, <1>3, <1>5, <1>10, RunGoesOn

LEMMA RestartUncut ==
  ASSUME UpdTypeOK, Locked, Uncut, NEW j \in Jobs, RestartUnits(j)
  PROVE  Uncut'
<1> DEFINE u == updateRun[j]
<1>1. u.at = "restarting" /\ u.at \in InUnit /\ "checking" \in Places /\ "ending" \in Places
  BY DEF RestartUnits, InUnit, Places
<1>2. flocked = j /\ Run(u)
  BY <1>1, Holder
<1>3. /\ UNCHANGED <<stamp, version, installed, trees, status, broken, rollbacks, flocked>>
      /\ serving' = IF u.restart THEN installed["runtime"] ELSE serving
  BY DEF RestartUnits, Same
<1>4. /\ updateRun'[j].at = IF u.restart THEN "checking" ELSE "ending"
      /\ updateRun'[j].restart = u.restart /\ updateRun'[j].previous = u.previous
  BY <1>1, Goes DEF RestartUnits
<1>5. /\ Diff = {} /\ Truth /\ (u.restart => PrevOld(0))
      /\ IF u.restart THEN Replacing(u) ELSE Served
  BY <1>1, <1>2 DEF Run, Replaces
<1>6. Diff' = {} /\ Truth'
  BY <1>3, <1>5 DEF Diff, Truth, ManifestTrue
<1>7. CASE u.restart
  <2>1. PrevOld(0)'
    BY <1>3, <1>5, <1>7 DEF PrevOld
  <2>2. Run(updateRun[j])'
    BY <1>3, <1>4, <1>5, <1>6, <1>7, <2>1 DEF Run, Replacing
  <2> QED BY <1>2, <1>3, <2>2, RunGoesOn
<1>8. CASE ~ u.restart
  <2>1. Served'
    BY <1>3, <1>5, <1>8 DEF Served
  <2>2. Run(updateRun[j])'
    BY <1>4, <1>6, <1>8, <2>1 DEF Run
  <2> QED BY <1>2, <1>3, <2>2, RunGoesOn
<1> QED BY <1>7, <1>8

LEMMA HealthyUncut ==
  ASSUME UpdTypeOK, Locked, Uncut, NEW j \in Jobs, Healthy(j)
  PROVE  Uncut'
<1>1. updateRun[j].at = "checking" /\ updateRun[j].at \in InUnit /\ "ending" \in Places /\ Answers
  BY DEF Healthy, InUnit, Places
<1>2. flocked = j /\ Run(updateRun[j])
  BY <1>1, Holder
<1>3. UNCHANGED <<stamp, version, installed, serving, trees, status, broken, rollbacks, flocked>>
  BY DEF Healthy, Same, hostVars
<1>4. updateRun'[j].at = "ending"
  BY <1>1, Goes DEF Healthy
<1>5. Diff = {} /\ Truth /\ Served
  BY <1>1, <1>2 DEF Run, Answers, Served
<1>6. Diff' = {} /\ Truth' /\ Served'
  BY <1>3, <1>5 DEF Diff, Truth, ManifestTrue, Served
<1>7. Run(updateRun[j])'
  BY <1>4, <1>6 DEF Run
<1> QED BY <1>2, <1>3, <1>7, RunGoesOn

\* The runtime is put back; the manifest still names the new one.
LEMMA RollbackUncut ==
  ASSUME UpdTypeOK, Locked, Uncut, NEW j \in Jobs, Rollback(j)
  PROVE  Uncut'
<1> DEFINE u == updateRun[j]
<1>1. u.at = "checking" /\ u.at \in InUnit /\ "unstamping" \in Places
  BY DEF Rollback, InUnit, Places
<1>2. flocked = j /\ Run(u)
  BY <1>1, Holder
<1>3. Diff = {} /\ Truth /\ PrevOld(0) /\ u.previous = "old" /\ (rollbacks < 2 => version = "old")
  BY <1>1, <1>2 DEF Run
<1>4. /\ UNCHANGED <<stamp, version, trees, status, flocked>> /\ rollbacks \in 0..2
      /\ installed'["runtime"] = "old" /\ serving' = "old" /\ installed'["agents"] = installed["agents"]
      /\ rollbacks' = IF rollbacks = 2 THEN 2 ELSE rollbacks + 1
  BY <1>3 DEF Rollback, RollbackTo, UpdTypeOK, Parts
<1>5. rollbacks' # 0 /\ (rollbacks' = 1 => rollbacks = 0) /\ (rollbacks' < 2 => rollbacks = 0)
  BY <1>4
<1>6. PrevOld(1)'
  BY <1>3, <1>4, <1>5 DEF PrevOld
<1>7. rollbacks = 0 => installed["agents"] = "new"
  BY <1>3 DEF Truth, ManifestTrue, Diff, Parts
<1>8. Diff' = {}
  BY <1>3, <1>4 DEF Diff
<1>9. rollbacks' < 2 => version' = "old" /\ installed'["agents"] = "new"
  BY <1>3, <1>4, <1>5, <1>7
<1>10. updateRun'[j].at = "unstamping"
  BY <1>1, Goes DEF Rollback
<1>11. Run(updateRun[j])'
  BY <1>4, <1>5, <1>6, <1>8, <1>9, <1>10 DEF Run
<1> QED BY <1>2, <1>4, <1>11, RunGoesOn

\* The manifest's value of the runtime is again that of the tree that serves.
LEMMA UnstampUncut ==
  ASSUME UpdTypeOK, Locked, Uncut, NEW j \in Jobs, Unstamp(j)
  PROVE  Uncut'
<1>1. updateRun[j].at = "unstamping" /\ updateRun[j].at \in InUnit
  BY DEF Unstamp, InUnit
<1>2. Run(updateRun[j])
  BY <1>1, Holder
<1>3. /\ serving = "old" /\ installed["runtime"] = "old" /\ rollbacks # 0 /\ PrevOld(1)
      /\ rollbacks < 2 => version = "old" /\ installed["agents"] = "new"
  BY <1>1, <1>2 DEF Run
<1>4. /\ UNCHANGED <<version, installed, serving, trees, rollbacks, broken>> /\ rollbacks \in 0..2
      /\ stamp'["runtime"] = TargetOf(trees["prev"])
  BY DEF Unstamp, Same, UpdTypeOK, Parts
<1>5. rollbacks < 2 => stamp'["runtime"] # "new"
  <2>1. rollbacks < 2 => rollbacks = 1
    BY <1>3, <1>4
  <2> QED BY <1>3, <1>4, <2>1 DEF PrevOld, TargetOf
<1>6. Truth'
  BY <1>3, <1>4, <1>5 DEF Truth, ManifestTrue, Parts
<1>7. Untouched'
  BY <1>3, <1>4, <1>6 DEF Untouched, Served, RootOld
<1>8. flocked' = "none" /\ status'.state = "failed"
  BY Ended DEF Unstamp
<1> QED BY <1>7, <1>8, RunEnds

LEMMA DoneUncut ==
  ASSUME UpdTypeOK, Locked, Uncut, NEW j \in Jobs, Done(j)
  PROVE  Uncut'
<1>1. updateRun[j].at = "ending" /\ updateRun[j].at \in InUnit
  BY DEF Done, InUnit
<1>2. Diff = {} /\ Truth /\ Served
  BY <1>1, Holder DEF Run
<1>3. UNCHANGED <<stamp, installed, serving, trees, rollbacks, broken>> /\ version' = "new"
  BY <1>2 DEF Done, Same
<1>4. \A p \in Parts : stamp[p] = "new"
  BY <1>2 DEF Diff
<1>5. Truth'
  BY <1>2, <1>3, <1>4 DEF Truth, ManifestTrue
<1>6. Untouched'
  BY <1>2, <1>3, <1>4, <1>5 DEF Untouched, Served, RootOld, Parts
<1>7. flocked' = "none"
  BY Ended DEF Done
<1> QED BY <1>3, <1>6, <1>7, RunEnds

\* A run that is not midway has not begun.
LEMMA NotMidway ==
  ASSUME UpdTypeOK, Locked, Uncut, NEW j \in Jobs, updateRun[j].at \in InUnit, ~ Midway(j)
  PROVE  Untouched
<1>1. Run(updateRun[j])
  BY Holder
<1>2. CASE updateRun[j].at \in {"fetching", "beginning"}
  BY <1>1, <1>2 DEF Run
<1>3. CASE updateRun[j].at \in {"installing", "stamping"}
  <2>1. installed["runtime"] # "new"
    BY <1>3 DEF Midway
  <2> QED BY <1>1, <1>3, <2>1, HalfInstalled
<1> QED BY <1>2, <1>3 DEF Midway, InUnit

LEMMA FaultUncut ==
  ASSUME UpdTypeOK, Locked, Uncut, (\E j \in Jobs : UnitKilled(j)) \/ RebootHost, ~ cut'
  PROVE  Uncut'
<1>1. ASSUME NEW j \in Jobs, UnitKilled(j)
      PROVE  Uncut'
  <2>1. /\ UNCHANGED <<stamp, version, installed, serving, trees, status, broken, rollbacks>>
        /\ ~ Midway(j) /\ GoesTo(j, "idle") /\ flocked' = IF flocked = j THEN "none" ELSE flocked
    BY <1>1 DEF UnitKilled, hostVars
  <2>2. CASE updateRun[j].at \in InUnit
    <3>1. Untouched /\ flocked = j
      BY <2>1, <2>2, NotMidway, Holder
    <3>2. Untouched'
      BY <2>1, <3>1 DEF Untouched, Served, Truth, ManifestTrue, RootOld
    <3>3. status.state # "done"
      BY <3>1, UpdaterAssumption DEF Uncut
    <3> QED BY <2>1, <3>1, <3>2, <3>3, RunEnds
  <2>3. CASE updateRun[j].at \notin InUnit
    <3>1. flocked' = flocked
      BY <2>1, <2>3 DEF Locked
    <3>2. \A k \in Jobs : k # j => updateRun'[k] = updateRun[k]
      BY <2>1, Goes, PlacesAre
    <3> QED BY <2>1, <2>3, <3>1, <3>2, OthersStep
  <2> QED BY <2>2, <2>3
<1>2. CASE RebootHost
  <2>1. /\ UNCHANGED <<stamp, version, installed, trees, status, broken, rollbacks>>
        /\ flocked' = "none" /\ serving' = installed["runtime"] /\ \A j \in Jobs : ~ Midway(j)
    BY <1>2 DEF RebootHost
  <2>2. Untouched
    <3>1. CASE flocked = "none"
      BY <3>1 DEF Uncut
    <3>2. CASE flocked # "none"
      <4>1. flocked \in Jobs /\ updateRun[flocked].at \in InUnit
        BY <3>2 DEF Locked, UpdTypeOK
      <4> QED BY <2>1, <4>1, NotMidway
    <3> QED BY <3>1, <3>2
  <2>3. Untouched'
    BY <2>1, <2>2 DEF Untouched, Served, Truth, ManifestTrue, RootOld
  <2> QED BY <2>1, <2>3, RunEnds DEF Uncut
<1> QED BY <1>1, <1>2

\* Every step of the updater.
LEMMA UpdaterStep ==
  ASSUME UpdInv, [UpdaterNext]_updaterVars
  PROVE  UpdInv'
<1> USE DEF UpdInv
<1>1. CASE UNCHANGED updaterVars
  <2>1. UpdTypeOK' /\ Locked'
    BY <1>1 DEF updaterVars, UpdTypeOK, Locked
  <2>2. Uncut => Uncut'
    BY <1>1 DEF updaterVars, Uncut, Untouched, Run, Truth, Served, RootOld, ManifestTrue, Diff,
                Replaces, Replacing, PrevOld
  <2>3. cut' = cut
    BY <1>1 DEF updaterVars
  <2> QED BY <2>1, <2>2, <2>3
<1>2. CASE (\E j \in Jobs : UnitKilled(j)) \/ RebootHost
  <2>1. UpdTypeOK' /\ Locked'
    BY <1>2, FaultTypes
  <2>2. cut => cut'
    BY <1>2 DEF UnitKilled, RebootHost
  <2> QED BY <1>2, <2>1, <2>2, FaultUncut
<1>3. ASSUME NEW j \in Jobs, AskUpdate(j) \/ RunStep(j)
      PROVE  UpdInv'
  <2>1. CASE AskUpdate(j) \/ PassGuard(j) \/ LaunchUnit(j) \/ TakeLock(j)
    <3>1. UpdTypeOK' /\ Locked'
      BY <2>1, OutsideTypes
    <3>2. cut' = cut
      BY <2>1 DEF AskUpdate, PassGuard, LaunchUnit, TakeLock, Same
    <3> QED BY <2>1, <3>1, <3>2, OutsideUncut
  <2>2. CASE FetchOk(j) \/ Install(j) \/ MoveAway(j) \/ MoveIn(j) \/ RestartUnits(j) \/ Healthy(j)
    <3>1. UpdTypeOK' /\ Locked'
      BY <2>2, InsideTypes
    <3>2. cut' = cut
      BY <2>2 DEF FetchOk, Install, MoveAway, MoveIn, RestartUnits, Healthy, Same
    <3> QED BY <2>2, <3>1, <3>2, FetchUncut, InstallUncut, MovesUncut, RestartUncut, HealthyUncut
  <2>3. CASE Begin(j) \/ Stamp(j) \/ Rollback(j)
    <3>1. UpdTypeOK' /\ Locked'
      BY <2>3, ApplyTypes
    <3>2. cut' = cut
      BY <2>3 DEF Begin, Stamp, Rollback, Same
    <3> QED BY <2>3, <3>1, <3>2, BeginUncut, StampUncut, RollbackUncut
  <2>4. CASE FetchFails(j) \/ InstallFails(j) \/ Unstamp(j) \/ Done(j)
    <3>1. UpdTypeOK' /\ Locked'
      BY <2>4, EndTypes
    <3>2. cut => cut'
      BY <2>4 DEF FetchFails, InstallFails, Unstamp, Done, Same
    <3> QED BY <2>4, <3>1, <3>2, FetchUncut, InstallFailsUncut, UnstampUncut, DoneUncut
  <2> QED BY <1>3, <2>1, <2>2, <2>3, <2>4 DEF RunStep, Applies
<1> QED BY <1>1, <1>2, <1>3 DEF UpdaterNext

LEMMA UpdaterStarts == ASSUME UpdInit PROVE UpdInv
<1>1. UpdTypeOK
  <2>1. trees \in [{"root", "prev", "next"} -> Tree]
    <3>1. PICK r \in {"baked", "old"} : trees = [root |-> r, prev |-> "none", next |-> "none"]
      BY DEF UpdInit
    <3> QED BY <3>1 DEF Tree
  <2>2. updateRun \in [Jobs -> [at: Places, todo: SUBSET Parts, restart: BOOLEAN, previous: {"old", "new"}]]
    BY DEF UpdInit, Places
  <2>3. status \in [state: {"idle", "running", "done", "failed"}, unit: Jobs \cup {"none"}]
    BY DEF UpdInit
  <2>4. faults \in 0..MaxFaults /\ rollbacks \in 0..2
    BY UpdaterAssumption DEF UpdInit
  <2>5. /\ stamp \in [Parts -> {"none", "old", "new"}] /\ version \in {"old", "new"}
        /\ installed \in [Parts -> {"old", "new"}] /\ serving \in {"old", "new"}
        /\ flocked \in Jobs \cup {"none"} /\ broken \in BOOLEAN /\ cut \in BOOLEAN
    BY DEF UpdInit
  <2> QED BY <2>1, <2>2, <2>3, <2>4, <2>5 DEF UpdTypeOK
<1>2. Locked
  BY UpdaterAssumption DEF UpdInit, Locked, InUnit
<1>3. Untouched
  BY DEF UpdInit, Untouched, Served, Truth, ManifestTrue, RootOld, Parts
<1>4. Uncut
  BY <1>3, UpdaterAssumption DEF UpdInit, Uncut
<1> QED BY <1>1, <1>2, <1>4 DEF UpdInv

LEMMA UpdaterHonest == ASSUME UpdInv PROVE UpdateHonest
<1>1. UpdTypeOK /\ Locked /\ (~ cut => Uncut)
  BY DEF UpdInv
<1>2. OneAtATime
  BY <1>1 DEF OneAtATime, Locked
<1>3. ASSUME ~ cut, flocked = "none" PROVE Untouched
  BY <1>1, <1>3 DEF Uncut
<1>4. ASSUME ~ cut, flocked # "none"
      PROVE  /\ flocked \in Jobs /\ updateRun[flocked].at \in InUnit
             /\ Run(updateRun[flocked])
  BY <1>1, <1>4 DEF Uncut, Locked, UpdTypeOK
<1>5. StampsHonest
  <2> SUFFICES ASSUME ~ cut, rollbacks < 2, ~ RollingBack PROVE ManifestTrue
    BY DEF StampsHonest
  <2>1. CASE flocked = "none"
    BY <1>3, <2>1 DEF Untouched, Truth
  <2>2. CASE flocked # "none"
    <3> DEFINE u == updateRun[flocked]
    <3>1. Run(u) /\ u.at \in InUnit /\ u.at # "unstamping"
      BY <1>4, <2>2 DEF RollingBack
    <3>2. Truth
      BY <3>1 DEF Run, InUnit, Untouched
    <3> QED BY <3>2 DEF Truth
  <2> QED BY <2>1, <2>2
<1>6. RuntimeBack
  <2> SUFFICES ASSUME ~ cut, \A j \in Jobs : updateRun[j].at \notin {"checking"} PROVE Answers
    BY DEF RuntimeBack
  <2>1. CASE flocked = "none"
    BY <1>3, <2>1 DEF Untouched, Served, Answers
  <2>2. CASE flocked # "none"
    <3> DEFINE u == updateRun[flocked]
    <3>1. Run(u) /\ u.at \in InUnit /\ u.at # "checking"
      BY <1>4, <2>2
    <3>2. serving = "old" \/ Served
      BY <3>1 DEF Run, InUnit, Untouched, Replacing
    <3> QED BY <3>2 DEF Served, Answers
  <2> QED BY <2>1, <2>2
<1>7. DoneMeansServing
  <2> SUFFICES ASSUME status.state = "done", ~ cut, rollbacks < 2
               PROVE  serving = "new" /\ ManifestTrue /\ version = "new"
    BY DEF DoneMeansServing
  <2>1. flocked = "none" /\ version = "new"
    BY <1>1 DEF Uncut
  <2>2. Served /\ ManifestTrue
    BY <1>3, <2>1 DEF Untouched, Truth
  <2> QED BY <2>1, <2>2 DEF Served, ManifestTrue, Parts
<1> QED BY <1>1, <1>2, <1>5, <1>6, <1>7 DEF UpdateHonest

\* The other services leave the updater alone.
LEMMA UpdaterAlone == [Next]_hostServicesVars => [UpdaterNext]_updaterVars
<1> SUFFICES ASSUME [Next]_hostServicesVars PROVE [UpdaterNext]_updaterVars
  OBVIOUS
<1>1. CASE UNCHANGED hostServicesVars
  BY <1>1 DEF hostServicesVars, deskVars
<1>2. CASE Next /\ DeskNext
  BY <1>2 DEF DeskNext
<1>3. CASE Next /\ ~ DeskNext
  BY <1>3 DEF Next, deskVars
<1> QED BY <1>1, <1>2, <1>3

(* One run of the update at a time holds the machine; the manifest claims nothing
   that is not installed; a runtime serves that answers; and "done" is said only of
   a release that is installed whole and serving (the unit of `oyren update` and
   apply-release.sh): whatever number of callers ask, installers and downloads fail,
   runs are killed before they move /app, and through one rollback. *)
THEOREM UpdateIsHonest == Spec => []UpdateHonest
<1>1. Init => UpdInv
  BY UpdaterStarts DEF Init
<1>2. UpdInv /\ [Next]_hostServicesVars => UpdInv'
  BY UpdaterAlone, UpdaterStep
<1>3. UpdInv => UpdateHonest
  BY UpdaterHonest
<1> QED BY <1>1, <1>2, <1>3, PTL DEF Spec

-----------------------------------------------------------------------------
(* The images of the streamed editor.                                      *)

Codes == {"200", "400", "413", "502"}
UploadType ==
  [step : {"new", "reading", "xclip", "xdotool", "over"}, size : 0..MaxSize + 1, aborted : BOOLEAN]

\* What an upload was answered, by its step.
Answered(r, given) ==
  /\ r.step = "new" => r.size = 0 /\ ~ r.aborted /\ given = <<>>
  /\ r.step = "reading" =>
       /\ r.aborted <=> r.size = MaxSize + 1
       /\ given = IF r.aborted THEN <<"413">> ELSE <<>>
  /\ r.step \in {"xclip", "xdotool"} => r.size \in 1..MaxSize /\ given = <<>>
  /\ r.step = "over" =>
       \E code \in Codes : given = <<code>> /\ (code = "200" => r.size \in 1..MaxSize)

\* The image of an upload that is about to paste is in the clipboard.
Own(u) ==
  /\ upload[u].step = "xdotool" => clipboard = u
  /\ pasted[u] \in {u, NoImage}

ClipInv ==
  /\ ClipTypeOK /\ answers \in [Uploads -> Seq(Codes)]
  /\ \A u \in Uploads : Answered(upload[u], answers[u])
  /\ \A u \in Uploads \ overtaken : Own(u)

\* The first answer.
LEMMA FirstAnswer ==
  ASSUME ClipInv, NEW u \in Uploads, NEW code \in Codes, answers[u] = <<>>, Answer(u, code)
  PROVE  /\ answers' \in [Uploads -> Seq(Codes)] /\ answers'[u] = <<code>>
         /\ \A v \in Uploads : v # u => answers'[v] = answers[v]
<1>1. answers' = [answers EXCEPT ![u] = Append(answers[u], code)] /\ answers \in [Uploads -> Seq(Codes)]
  BY DEF Answer, ClipInv
<1>2. Append(answers[u], code) = <<code>> /\ <<code>> \in Seq(Codes)
  OBVIOUS
<1> QED BY <1>1, <1>2

\* An upload that goes to a step keeps what it has, and the others stay.
LEMMA GoesToStep ==
  ASSUME ClipInv, NEW u \in Uploads, NEW step \in {"new", "reading", "xclip", "xdotool", "over"}, To(u, step)
  PROVE  /\ upload' \in [Uploads -> UploadType]
         /\ upload'[u].step = step /\ upload'[u].size = upload[u].size
         /\ upload'[u].aborted = upload[u].aborted
         /\ \A v \in Uploads : v # u => upload'[v] = upload[v]
<1>1. upload \in [Uploads -> UploadType]
  BY DEF ClipInv, ClipTypeOK, UploadType
<1>2. upload' = [upload EXCEPT ![u] = [upload[u] EXCEPT !.step = step]]
  BY DEF To
<1>3. [upload[u] EXCEPT !.step = step] \in UploadType
  BY <1>1 DEF UploadType
<1> QED BY <1>1, <1>2, <1>3 DEF UploadType

\* A step of an upload that leaves the clipboard alone.
LEMMA ReadsOn ==
  ASSUME ClipInv, NEW u \in Uploads, UNCHANGED <<clipboard, pasted, overtaken>>,
         upload' \in [Uploads -> UploadType], answers' \in [Uploads -> Seq(Codes)],
         \A v \in Uploads : v # u => upload'[v] = upload[v] /\ answers'[v] = answers[v],
         upload'[u].step # "xdotool", Answered(upload'[u], answers'[u])
  PROVE  ClipInv'
<1>1. ClipTypeOK'
  BY DEF ClipInv, ClipTypeOK, UploadType
<1>2. \A v \in Uploads : Answered(upload[v], answers[v])'
  BY DEF ClipInv
<1>3. \A v \in Uploads \ overtaken' : Own(v)'
  BY DEF ClipInv, Own
<1> QED BY <1>1, <1>2, <1>3 DEF ClipInv

LEMMA ReadsSafe ==
  ASSUME ClipInv, NEW u \in Uploads,
         Reading(u) \/ Data(u) \/ End(u) \/ ReadError(u) \/ XclipFails(u)
  PROVE  ClipInv'
<1>1. /\ upload \in [Uploads -> UploadType] /\ answers \in [Uploads -> Seq(Codes)]
      /\ Answered(upload[u], answers[u]) /\ MaxSize \in Nat
      /\ UNCHANGED <<clipboard, pasted, overtaken>>
  BY ClipAssumption DEF ClipInv, ClipTypeOK, UploadType, Reading, Data, End, ReadError, XclipFails
<1>2. CASE Reading(u)
  <2>1. upload[u].step = "new" /\ To(u, "reading") /\ UNCHANGED answers
    BY <1>2 DEF Reading
  <2>2. Answered(upload'[u], answers'[u])
    BY <1>1, <2>1, GoesToStep DEF Answered
  <2> QED BY <1>1, <2>1, <2>2, GoesToStep, ReadsOn
<1>3. CASE Data(u)
  <2>1. upload[u].step = "reading" /\ upload[u].size \in 0..MaxSize
    BY <1>1, <1>3 DEF Data, UploadType
  <2>2. ~ upload[u].aborted /\ answers[u] = <<>>
    BY <1>1, <2>1 DEF Answered
  <2>3. /\ upload' \in [Uploads -> UploadType] /\ upload'[u].step = "reading"
        /\ upload'[u].size = upload[u].size + 1 /\ (upload'[u].aborted <=> upload[u].size = MaxSize)
        /\ \A v \in Uploads : v # u => upload'[v] = upload[v]
    <3> DEFINE full == upload[u].size = MaxSize
               r == [step |-> "reading", size |-> upload[u].size + 1, aborted |-> full]
    <3>1. upload' = [upload EXCEPT ![u] = r]
      BY <1>3 DEF Data
    <3>2. full \in BOOLEAN /\ upload[u].size + 1 \in 0..MaxSize + 1
      BY <1>1, <2>1
    <3> HIDE DEF full
    <3>3. r \in UploadType
      BY <3>2 DEF UploadType
    <3>4. upload'[u] = r /\ upload' \in [Uploads -> UploadType]
          /\ \A v \in Uploads : v # u => upload'[v] = upload[v]
      BY <1>1, <3>1, <3>3
    <3>5. /\ upload'[u].step = "reading" /\ upload'[u].size = upload[u].size + 1
          /\ upload'[u].aborted <=> full
      BY <3>2, <3>4
    <3>6. full <=> upload[u].size = MaxSize
      BY DEF full
    <3> HIDE DEF r
    <3> QED BY <3>4, <3>5, <3>6
  <2>4. upload'[u].aborted <=> upload'[u].size = MaxSize + 1
    BY <1>1, <2>1, <2>3
  <2>5. CASE upload[u].size = MaxSize
    <3>1. Answer(u, "413")
      BY <1>3, <2>5 DEF Data
    <3>2. answers'[u] = <<"413">> /\ answers' \in [Uploads -> Seq(Codes)]
          /\ \A v \in Uploads : v # u => answers'[v] = answers[v]
      BY <2>2, <3>1, FirstAnswer DEF Codes
    <3>3. Answered(upload'[u], answers'[u])
      BY <2>3, <2>4, <2>5, <3>2 DEF Answered
    <3> QED BY <1>1, <2>3, <3>2, <3>3, ReadsOn
  <2>6. CASE upload[u].size # MaxSize
    <3>1. UNCHANGED answers
      BY <1>3, <2>6 DEF Data
    <3>2. Answered(upload'[u], answers'[u])
      BY <2>2, <2>3, <2>4, <2>6, <3>1 DEF Answered
    <3> QED BY <1>1, <2>3, <3>1, <3>2, ReadsOn
  <2> QED BY <2>5, <2>6
<1>4. CASE (End(u) \/ ReadError(u)) /\ upload[u].aborted
  <2>1. upload[u].step = "reading" /\ To(u, "over") /\ UNCHANGED answers
    BY <1>4 DEF End, ReadError
  <2>2. Answered(upload'[u], answers'[u])
    <3>1. answers'[u] = <<"413">>
      BY <1>1, <1>4, <2>1 DEF Answered
    <3> QED BY <2>1, <3>1, GoesToStep DEF Answered, Codes
  <2>3. upload'[u].step = "over"
    BY <2>1, GoesToStep
  <2> QED BY <1>1, <2>1, <2>2, <2>3, GoesToStep, ReadsOn
<1>5. CASE End(u) /\ ~ upload[u].aborted /\ upload[u].size # 0
  <2>1. upload[u].step = "reading" /\ To(u, "xclip") /\ UNCHANGED answers
    BY <1>5 DEF End
  <2>2. upload[u].size \in 1..MaxSize /\ answers[u] = <<>>
    BY <1>1, <1>5, <2>1 DEF Answered, UploadType
  <2>3. Answered(upload'[u], answers'[u]) /\ upload'[u].step = "xclip"
    BY <2>1, <2>2, GoesToStep DEF Answered
  <2> QED BY <1>1, <2>1, <2>3, GoesToStep, ReadsOn
<1>6. CASE XclipFails(u) \/ ((ReadError(u) \/ (End(u) /\ upload[u].size = 0)) /\ ~ upload[u].aborted)
  <2>1. PICK code \in {"400", "502"} : Answer(u, code)
    BY <1>6 DEF XclipFails, ReadError, End
  <2>2. To(u, "over") /\ answers[u] = <<>>
    BY <1>1, <1>6 DEF XclipFails, ReadError, End, Answered
  <2>3. /\ answers' \in [Uploads -> Seq(Codes)] /\ answers'[u] = <<code>>
        /\ \A v \in Uploads : v # u => answers'[v] = answers[v]
    BY <2>1, <2>2, FirstAnswer DEF Codes
  <2>4. Answered(upload'[u], answers'[u]) /\ upload'[u].step = "over"
    BY <2>1, <2>2, <2>3, GoesToStep DEF Answered, Codes
  <2> QED BY <1>1, <2>2, <2>3, <2>4, GoesToStep, ReadsOn
<1> QED BY <1>2, <1>3, <1>4, <1>5, <1>6

\* The image of an upload comes to the clipboard: the others that are about to
\* paste are overtaken.
LEMMA XclipSafe ==
  ASSUME ClipInv, NEW u \in Uploads, Xclip(u)
  PROVE  ClipInv'
<1>1. /\ upload \in [Uploads -> UploadType] /\ answers \in [Uploads -> Seq(Codes)]
      /\ Answered(upload[u], answers[u]) /\ upload[u].step = "xclip"
      /\ clipboard' = u /\ overtaken' = overtaken \cup Pasting /\ UNCHANGED pasted
  BY DEF ClipInv, ClipTypeOK, UploadType, Xclip
<1>2. upload[u].size \in 1..MaxSize /\ answers[u] = <<>>
  BY <1>1 DEF Answered
<1>3. /\ upload' \in [Uploads -> UploadType] /\ answers' \in [Uploads -> Seq(Codes)]
      /\ Answered(upload'[u], answers'[u])
      /\ \A v \in Uploads : v # u => upload'[v] = upload[v] /\ answers'[v] = answers[v]
  <2>1. CASE u \in Autopaste
    <3>1. To(u, "xdotool") /\ UNCHANGED answers
      BY <2>1 DEF Xclip
    <3>2. Answered(upload'[u], answers'[u])
      BY <1>2, <3>1, GoesToStep DEF Answered
    <3> QED BY <1>1, <3>1, <3>2, GoesToStep
  <2>2. CASE u \notin Autopaste
    <3>1. To(u, "over") /\ Answer(u, "200")
      BY <2>2 DEF Xclip
    <3>2. /\ answers' \in [Uploads -> Seq(Codes)] /\ answers'[u] = <<"200">>
          /\ \A v \in Uploads : v # u => answers'[v] = answers[v]
      BY <1>2, <3>1, FirstAnswer DEF Codes
    <3>3. Answered(upload'[u], answers'[u])
      BY <1>2, <3>1, <3>2, GoesToStep DEF Answered, Codes
    <3> QED BY <3>1, <3>2, <3>3, GoesToStep
  <2> QED BY <2>1, <2>2
<1>4. ClipTypeOK'
  BY <1>1, <1>3 DEF ClipInv, ClipTypeOK, UploadType, Pasting
<1>5. \A v \in Uploads : Answered(upload[v], answers[v])'
  BY <1>3 DEF ClipInv
<1>6. ASSUME NEW v \in Uploads \ overtaken' PROVE Own(v)'
  <2>1. v \notin overtaken /\ pasted[v] \in {v, NoImage}
    BY <1>1, <1>6 DEF ClipInv, Own
  <2>2. v # u => upload'[v].step # "xdotool"
    BY <1>1, <1>3, <1>6 DEF Pasting
  <2> QED BY <1>1, <2>1, <2>2 DEF Own
<1> QED BY <1>3, <1>4, <1>5, <1>6 DEF ClipInv

LEMMA XdotoolSafe ==
  ASSUME ClipInv, NEW u \in Uploads, Xdotool(u)
  PROVE  ClipInv'
<1>1. /\ upload \in [Uploads -> UploadType] /\ answers \in [Uploads -> Seq(Codes)]
      /\ Answered(upload[u], answers[u]) /\ upload[u].step = "xdotool"
      /\ To(u, "over") /\ Answer(u, "200") /\ UNCHANGED <<clipboard, overtaken>>
      /\ pasted' \in {pasted, [pasted EXCEPT ![u] = clipboard]}
  BY DEF ClipInv, ClipTypeOK, UploadType, Xdotool
<1>2. upload[u].size \in 1..MaxSize /\ answers[u] = <<>>
  BY <1>1 DEF Answered
<1>3. /\ answers' \in [Uploads -> Seq(Codes)] /\ answers'[u] = <<"200">>
      /\ \A v \in Uploads : v # u => answers'[v] = answers[v]
  BY <1>1, <1>2, FirstAnswer DEF Codes
<1>4. Answered(upload'[u], answers'[u]) /\ upload'[u].step = "over"
  BY <1>1, <1>2, <1>3, GoesToStep DEF Answered, Codes
<1>5. /\ pasted \in [Uploads -> Uploads \cup {NoImage}] /\ clipboard \in Uploads \cup {NoImage}
      /\ \A v \in Uploads \ overtaken : Own(v)
  BY DEF ClipInv, ClipTypeOK
<1>6. /\ pasted' \in [Uploads -> Uploads \cup {NoImage}]
      /\ \A v \in Uploads : v # u => pasted'[v] = pasted[v]
      /\ pasted'[u] \in {pasted[u], clipboard}
  BY <1>1, <1>5
<1>7. ClipTypeOK'
  BY <1>1, <1>6, GoesToStep DEF ClipInv, ClipTypeOK, UploadType
<1>8. \A v \in Uploads : Answered(upload[v], answers[v])'
  BY <1>1, <1>3, <1>4, GoesToStep DEF ClipInv
<1>9. ASSUME NEW v \in Uploads \ overtaken' PROVE Own(v)'
  <2>1. CASE v = u
    BY <1>1, <1>4, <1>5, <1>6, <1>9, <2>1 DEF Own
  <2>2. CASE v # u
    BY <1>1, <1>5, <1>6, <1>9, <2>2, GoesToStep DEF Own
  <2> QED BY <2>1, <2>2
<1> QED BY <1>3, <1>7, <1>8, <1>9 DEF ClipInv

LEMMA ClipStep ==
  ASSUME ClipInv, [ClipNext]_clipVars
  PROVE  ClipInv'
<1>1. CASE UNCHANGED clipVars
  BY <1>1 DEF clipVars, ClipInv, ClipTypeOK, Own
<1>2. CASE ClipNext
  BY <1>2, ReadsSafe, XclipSafe, XdotoolSafe DEF ClipNext
<1> QED BY <1>1, <1>2

LEMMA ClipStarts == ASSUME ClipInit PROVE ClipInv
<1>1. ClipTypeOK /\ answers \in [Uploads -> Seq(Codes)]
  BY ClipAssumption DEF ClipInit, ClipTypeOK
<1>2. \A u \in Uploads : Answered(upload[u], answers[u]) /\ Own(u)
  BY DEF ClipInit, Answered, Own
<1> QED BY <1>1, <1>2 DEF ClipInv

LEMMA ClipHolds == ASSUME ClipInv PROVE UploadsApart
<1>1. ASSUME NEW u \in Uploads
      PROVE  /\ Len(answers[u]) <= 1 /\ (upload[u].step = "over" => answers[u] # <<>>)
             /\ answers[u] = <<"200">> => upload[u].size \in 1..MaxSize
  <2>1. Answered(upload[u], answers[u]) /\ upload[u].step \in {"new", "reading", "xclip", "xdotool", "over"}
    BY DEF ClipInv, ClipTypeOK
  <2>2. CASE upload[u].step = "over"
    <3>1. PICK code \in Codes : answers[u] = <<code>> /\ (code = "200" => upload[u].size \in 1..MaxSize)
      BY <2>1, <2>2 DEF Answered
    <3>2. Len(answers[u]) = 1 /\ answers[u] # <<>> /\ answers[u][1] = code
      BY <3>1
    <3>3. answers[u] = <<"200">> => code = "200"
      BY <3>2
    <3> QED BY <3>1, <3>2, <3>3
  <2>3. CASE upload[u].step # "over"
    <3>1. answers[u] \in {<<>>, <<"413">>}
      BY <2>1, <2>3 DEF Answered
    <3>2. CASE answers[u] = <<>>
      BY <2>3, <3>2
    <3>3. CASE answers[u] = <<"413">>
      <4>1. Len(answers[u]) = 1 /\ answers[u][1] = "413" /\ <<"200">>[1] = "200"
        BY <3>3
      <4> QED BY <2>3, <4>1
    <3> QED BY <3>1, <3>2, <3>3
  <2> QED BY <2>2, <2>3
<1>2. PastesOwn
  BY DEF ClipInv, Own, PastesOwn
<1> QED BY <1>1, <1>2 DEF ClipInv, UploadsApart, OneAnswer

\* The other services leave the images alone, and the doors.
LEMMA OuterAlone == [Next]_hostServicesVars => [ClipNext]_clipVars /\ [DoorsNext]_doorVars
<1> SUFFICES ASSUME [Next]_hostServicesVars PROVE [ClipNext]_clipVars /\ [DoorsNext]_doorVars
  OBVIOUS
<1>1. CASE UNCHANGED hostServicesVars
  BY <1>1 DEF hostServicesVars, outerVars
<1>2. CASE Next /\ OuterNext
  BY <1>2 DEF OuterNext
<1>3. CASE Next /\ ~ OuterNext
  BY <1>3 DEF Next, outerVars
<1> QED BY <1>1, <1>2, <1>3

(* Every upload of an image is answered once (zedClipboard.js: a body's end, its
   error and its limit may all come), with 200 only if its image came to the
   clipboard, and its Ctrl+V pastes its own image unless another upload's replaced
   it: for any number of uploads and any limit. *)
THEOREM UploadsKeepApart == Spec => []UploadsApart
<1>1. Init => ClipInv
  BY ClipStarts DEF Init
<1>2. ClipInv /\ [Next]_hostServicesVars => ClipInv'
  BY OuterAlone, ClipStep
<1>3. ClipInv => UploadsApart
  BY ClipHolds
<1> QED BY <1>1, <1>2, <1>3, PTL DEF Spec

-----------------------------------------------------------------------------
(* The doors.                                                              *)

QueryType ==
  [folders : Twice(FolderPlaces), workspaces : Once(FolderPlaces), ew : Twice({"true", "false"}),
   tokens : Twice(Tokens), other : {"none", "path", "any"}, payload : BOOLEAN]
UrlType ==
  [door : {"zed", "port", "editor", "dsh"}, token : Tokens,
   port : {"zed", "app", "self", "invalid", "editor", "dsh"}, rest : Rests, query : QueryType]

\* What a URL of a door may look like, however it was redirected.
Doorway(u) ==
  /\ u \in UrlType
  /\ u.door = "editor" <=> u.port = "editor"
  /\ u.door \in {"zed", "dsh"} => u.port = u.door
  /\ u.query.other = "path" => u.door = "zed"
  /\ u.query.tokens = <<>> \/ u.door = "dsh"

\* The redirects that may be to come.
Left(u) ==
  IF u.door = "zed" THEN (IF u.rest = "bare" THEN 2 ELSE IF BareLoad(u) THEN 1 ELSE 0)
  ELSE IF u.door = "port" THEN (IF u.rest = "bare" THEN 1 ELSE 0)
  ELSE IF u.door = "editor" /\ u.rest # "page" /\ Pinned(u.query) THEN 1 ELSE 0

\* An answer comes from the upstream of the URL, at its last redirect.
FromDoor ==
  /\ answer.at = "none" \/ (answer.at = url.port /\ answer.at \in Upstreams /\ Redirects(url) = {})
  /\ answer.code = "200" => answer.at # "none" /\ answer.url = Downstream(url)

\* What the editor's redirect leaves.
Redirected(query) ==
  query.folders = <<"workdir">> /\ query.workspaces = <<>> /\ query.ew = <<>>

DoorsInv ==
  /\ Doorway(url) /\ hops \in 0..MaxHops /\ up \subseteq Upstreams
  /\ answer.code \in {"asked", "200", "not up", "400", "401"}
  /\ nested => hops + Left(url) <= 2
  /\ hops = 0 \/ url.door # "editor" \/ Redirected(url.query)
  /\ FromDoor

LEMMA LeftIs == ASSUME NEW u PROVE Left(u) \in 0..2
<1>1. Left(u) = 0 \/ Left(u) = 1 \/ Left(u) = 2
  BY Zenon DEF Left
<1> QED BY <1>1

LEMMA OtherIs ==
  ASSUME NEW o \in {"none", "path", "any"}
  PROVE  Other(o) \in QueryType /\ Other(o).other = o /\ Other(o).tokens = <<>>
<1>1. <<>> \in Once(FolderPlaces) /\ <<>> \in Twice(FolderPlaces) /\ <<>> \in Twice(Tokens)
      /\ <<>> \in Twice({"true", "false"})
  BY DEF Once, Twice
<1> QED BY <1>1 DEF Other, Query, QueryType

LEMMA EditorQueriesAre ==
  ASSUME NEW q \in EditorQueries
  PROVE  q \in QueryType /\ q.tokens = <<>> /\ q.other # "path"
<1>1. <<>> \in Once(FolderPlaces) /\ <<>> \in Twice(Tokens) /\ <<>> \in Twice({"true", "false"})
      /\ Once(FolderPlaces) \subseteq Twice(FolderPlaces)
  BY DEF Once, Twice
<1>2. CASE \E f \in Twice(FolderPlaces), w \in Once(FolderPlaces), pl \in BOOLEAN :
             q = Query(f, w, <<>>, <<>>, "none", pl)
  BY <1>1, <1>2 DEF Query, QueryType
<1>3. CASE \E f \in Once(FolderPlaces), e \in Twice({"true", "false"}), o \in {"none", "any"}, pl \in BOOLEAN :
             q = Query(f, <<>>, e, <<>>, o, pl)
  BY <1>1, <1>3 DEF Query, QueryType
<1> QED BY <1>2, <1>3 DEF EditorQueries

LEMMA DshQueriesAre == ASSUME NEW q \in DshQueries PROVE q \in QueryType /\ q.other # "path"
<1>1. <<>> \in Once(FolderPlaces) /\ <<>> \in Twice(FolderPlaces) /\ <<>> \in Twice({"true", "false"})
  BY DEF Once, Twice
<1> DEFINE ks == Twice(Tokens)
<1>2. \E k \in ks, o \in {"none", "any"} : q = Query(<<>>, <<>>, <<>>, k, o, FALSE)
  <2> QED BY DEF DshQueries, Query
<1> QED BY <1>1, <1>2 DEF Query, QueryType

LEMMA HopsAre == ASSUME DoorsInv PROVE hops \in 0..MaxHops /\ hops \in Nat /\ MaxHops \in Nat
<1>1. hops \in 0..MaxHops
  BY Zenon DEF DoorsInv
<1> QED BY <1>1, DoorsAssumption

\* The URLs a browser may enter with.
LEMMA DoorUrlsAre == ASSUME NEW u \in DoorUrls PROVE Doorway(u)
<1>1. CASE \E t \in Tokens, r \in Rests, o \in {"none", "path", "any"} : u = Url("zed", t, "zed", r, Other(o))
  <2>1. PICK t \in Tokens, r \in Rests, o \in {"none", "path", "any"} : u = Url("zed", t, "zed", r, Other(o))
    BY <1>1
  <2>2. Other(o) \in QueryType /\ Other(o).tokens = <<>>
    BY OtherIs
  <2> QED BY <2>1, <2>2 DEF Url, Doorway, UrlType
<1>2. CASE \E t \in Tokens, p \in {"app", "self", "invalid"}, r \in Rests, o \in {"none", "any"} :
             u = Url("port", t, p, r, Other(o))
  <2>1. PICK t \in Tokens, p \in {"app", "self", "invalid"}, r \in Rests, o \in {"none", "any"} :
          u = Url("port", t, p, r, Other(o))
    BY <1>2
  <2>2. Other(o) \in QueryType /\ Other(o).tokens = <<>> /\ Other(o).other # "path"
    BY OtherIs
  <2> QED BY <2>1, <2>2 DEF Url, Doorway, UrlType
<1>3. CASE \E r \in Rests, q \in EditorQueries : u = Url("editor", "good", "editor", r, q)
  <2>1. PICK r \in Rests, q \in EditorQueries : u = Url("editor", "good", "editor", r, q)
    BY <1>3
  <2>2. q \in QueryType /\ q.tokens = <<>> /\ q.other # "path"
    BY EditorQueriesAre
  <2> QED BY <2>1, <2>2 DEF Url, Doorway, UrlType, Tokens
<1>4. CASE \E r \in Rests : u = Url("editor", "bad", "editor", r, NoQuery)
  <2>1. NoQuery \in QueryType /\ NoQuery.tokens = <<>> /\ NoQuery.other # "path"
    BY OtherIs DEF NoQuery
  <2> QED BY <1>4, <2>1 DEF Url, Doorway, UrlType, Tokens
<1>5. CASE \E t \in Tokens, q \in DshQueries : u = Url("dsh", t, "dsh", "page", q)
  <2>1. PICK t \in Tokens, q \in DshQueries : u = Url("dsh", t, "dsh", "page", q)
    BY <1>5
  <2>2. q \in QueryType /\ q.other # "path"
    BY DshQueriesAre
  <2> QED BY <2>1, <2>2 DEF Url, Doorway, UrlType, Rests
<1> QED BY <1>1, <1>2, <1>3, <1>4, <1>5 DEF DoorUrls

\* A redirect leads to a door again, and brings the browser nearer, unless the
\* session's folder is outside the workspace root.
LEMMA RedirectsLead ==
  ASSUME Doorway(url), NEW v \in Redirects(url)
  PROVE  /\ Doorway(v) /\ (nested => Left(v) + 1 <= Left(url))
         /\ v.door # "editor" \/ Redirected(v.query)
<1>1. url \in UrlType /\ url.query \in QueryType
  BY DEF Doorway, UrlType
<1>2. CASE url.door \in {"zed", "port"} /\ url.rest = "bare"
  <2>1. v = [url EXCEPT !.rest = "slash"]
    BY <1>2 DEF Redirects, BareLoad
  <2>2. /\ v \in UrlType /\ v.rest = "slash" /\ v.door = url.door /\ v.port = url.port
        /\ v.query = url.query
    BY <1>1, <2>1 DEF UrlType, Rests
  <2> QED BY <1>2, <2>2 DEF Doorway, Left
<1>3. CASE url.door = "zed" /\ url.rest # "bare"
  <2>1. BareLoad(url) /\ v = [url EXCEPT !.query = Other("path")]
    BY <1>3 DEF Redirects
  <2>2. Other("path") \in QueryType /\ Other("path").other = "path" /\ Other("path").tokens = <<>>
    BY OtherIs
  <2>3. NoQuery.other = "none"
    BY OtherIs DEF NoQuery
  <2>4. /\ v \in UrlType /\ v.rest = url.rest /\ v.door = url.door /\ v.port = url.port
        /\ v.query = Other("path")
    BY <1>1, <2>1, <2>2 DEF UrlType
  <2> QED BY <1>3, <2>1, <2>2, <2>3, <2>4 DEF Doorway, Left, BareLoad
<1>4. CASE url.door = "editor"
  <2>1. /\ url.rest # "page" /\ Pinned(url.query)
        /\ v = [url EXCEPT !.rest = "slash", !.query = PinFolder(url.query)]
    BY <1>4 DEF Redirects, BareLoad
  <2>2. /\ PinFolder(url.query) \in QueryType /\ Redirected(PinFolder(url.query))
        /\ PinFolder(url.query).other = url.query.other /\ PinFolder(url.query).tokens = url.query.tokens
    <3>1. /\ <<"workdir">> \in Twice(FolderPlaces) /\ <<>> \in Once(FolderPlaces)
          /\ <<>> \in Twice({"true", "false"})
      BY DEF Once, Twice, FolderPlaces
    <3> QED BY <1>1, <3>1 DEF PinFolder, QueryType, Redirected
  <2>3. /\ v \in UrlType /\ v.rest = "slash" /\ v.door = url.door /\ v.port = url.port
        /\ v.query = PinFolder(url.query)
    BY <1>1, <2>1, <2>2 DEF UrlType, Rests
  <2>4. nested => ~ Pinned(v.query)
    <3>1. v.query.ew = <<>> /\ v.query.folders = <<"workdir">> /\ v.query.workspaces = <<>>
      BY <2>2, <2>3 DEF Redirected
    <3>2. Named(v.query) # <<>> /\ Head(Named(v.query)) = "workdir"
      BY <3>1 DEF Named
    <3> QED BY <3>1, <3>2 DEF Pinned, Within, Names
  <2> QED BY <1>4, <2>1, <2>2, <2>3, <2>4 DEF Doorway, Left
<1> QED BY <1>1, <1>2, <1>3, <1>4 DEF Redirects, BareLoad, UrlType

\* While the URL, the method and the folder are the same, so are the redirects.
LEMMA DoorsSame ==
  ASSUME UNCHANGED <<url, method, nested>>
  PROVE  Redirects(url)' = Redirects(url) /\ Left(url)' = Left(url)
<1>1. Pinned(url.query)' <=> Pinned(url.query)
  BY DEF Pinned, Within
<1>2. BareLoad(url)' <=> BareLoad(url)
  BY DEF BareLoad
<1>3. Redirects(url)' = Redirects(url)
  BY <1>1, <1>2 DEF Redirects, PinFolder
<1>4. Left(url)' = Left(url)
  BY <1>1, <1>2 DEF Left
<1> QED BY <1>3, <1>4

LEMMA DoorsStep ==
  ASSUME DoorsInv, [DoorsNext]_doorVars
  PROVE  DoorsInv'
<1> USE DEF DoorsInv
<1>1. CASE UNCHANGED doorVars
  <2>1. UNCHANGED <<url, method, hops, answer, up, nested>>
    BY <1>1 DEF doorVars
  <2>2. Redirects(url)' = Redirects(url) /\ Left(url)' = Left(url)
    BY <2>1, DoorsSame
  <2> QED BY <2>1, <2>2 DEF FromDoor
<1>2. CASE Redirect
  <2>1. /\ url' \in Redirects(url) /\ hops' = hops + 1 /\ hops < MaxHops /\ answer = Waiting
        /\ UNCHANGED <<answer, up, nested>>
    BY <1>2 DEF Redirect
  <2>2. /\ Doorway(url') /\ (nested => Left(url') + 1 <= Left(url))
        /\ url'.door # "editor" \/ Redirected(url'.query)
    BY <2>1, RedirectsLead
  <2>3. Left(url) \in 0..2 /\ Left(url') \in 0..2
    BY LeftIs
  <2>4. Left(url)' = Left(url')
    BY <2>1 DEF Left, Pinned, Within, BareLoad
  <2>5. hops' \in 0..MaxHops
    <3> HIDE DEF DoorsInv
    <3> QED BY <2>1, HopsAre
  <2> HIDE DEF DoorsInv
  <2>6. nested' => hops' + Left(url)' <= 2
    <3> SUFFICES ASSUME nested' PROVE hops' + Left(url)' <= 2
      OBVIOUS
    <3>1. nested
      BY <2>1, Zenon
    <3>2. hops + Left(url) <= 2 /\ hops \in Nat
      <4>1. hops + Left(url) <= 2
        BY <3>1, Zenon DEF DoorsInv
      <4> QED BY <4>1, HopsAre
    <3>3. Left(url)' + 1 <= Left(url)
      BY <2>2, <2>4, <3>1, Zenon
    <3> QED BY <2>1, <2>3, <2>4, <3>2, <3>3
  <2>7. FromDoor'
    BY <2>1 DEF FromDoor, Waiting
  <2> QED BY <2>1, <2>2, <2>5, <2>6, <2>7 DEF DoorsInv
<1>3. CASE Refuse
  <2>1. PICK code \in Refused(url) : answer' = [code |-> code, at |-> "none", url |-> NoQuery]
    BY <1>3 DEF Refuse
  <2>2. code \in {"400", "401"}
    BY DEF Refused
  <2>3. UNCHANGED <<url, method, hops, up, nested>>
    BY <1>3 DEF Refuse
  <2> QED BY <2>1, <2>2, <2>3, DoorsSame DEF FromDoor
<1>4. CASE Proxy
  <2>1. UNCHANGED <<url, method, hops, up, nested>> /\ Redirects(url) = {}
    BY <1>4 DEF Proxy
  <2>2. Redirects(url)' = Redirects(url) /\ Left(url)' = Left(url)
    BY <2>1, DoorsSame
  <2>3. answer' = IF url.port \in up
                  THEN [code |-> "200", at |-> url.port, url |-> Downstream(url)]
                  ELSE [code |-> "not up", at |-> "none", url |-> NoQuery]
    BY <1>4 DEF Proxy
  <2>4. answer'.code \in {"200", "not up"} /\ FromDoor'
    BY <2>1, <2>2, <2>3 DEF FromDoor, Upstreams
  <2> QED BY <2>1, <2>2, <2>4
<1>5. CASE Restarts(url.port)
  <2>1. UNCHANGED <<url, method, hops, answer, nested>> /\ up' \subseteq Upstreams
    BY <1>5 DEF Restarts
  <2>2. Redirects(url)' = Redirects(url) /\ Left(url)' = Left(url)
    BY <2>1, DoorsSame
  <2>3. FromDoor'
    BY <2>1, <2>2 DEF FromDoor
  <2> QED BY <2>1, <2>2, <2>3
<1> QED BY <1>1, <1>2, <1>3, <1>4, <1>5 DEF DoorsNext

LEMMA DoorsStart == ASSUME DoorsInit PROVE DoorsInv
<1>1. Doorway(url) /\ Left(url) \in 0..2 /\ hops = 0
  BY DoorUrlsAre, LeftIs DEF DoorsInit
<1> QED BY <1>1, DoorsAssumption DEF DoorsInit, DoorsInv, FromDoor, Waiting, Upstreams

LEMMA DoorsHold == ASSUME DoorsInv PROVE DoorsSafe
<1>1. url.rest \in Rests /\ url.query \in QueryType /\ Left(url) \in 0..2 /\ hops \in Nat
  <2>1. Doorway(url)
    BY DEF DoorsInv
  <2> QED BY <2>1, LeftIs, HopsAre DEF Doorway, UrlType
<1>2. NoCircle
  <2>1. nested => hops + Left(url) <= 2
    BY DEF DoorsInv
  <2>2. hops + Left(url) <= 2 => hops <= 2
    BY <1>1
  <2> QED BY <2>1, <2>2, Zenon DEF NoCircle
<1>3. FolderStays
  <2> SUFFICES ASSUME answer.at = "editor", url.rest # "page", method # "upgrade"
               PROVE  /\ hops > 0 => Plain(url.query)
                      /\ Plain(url.query) =>
                           /\ url.query.ew # <<"true">>
                           /\ IF Named(url.query) = <<>> THEN url.query.payload ELSE Within(Named(url.query)[1])
    BY DEF FolderStays
  <2>1. url.door = "editor" /\ Redirects(url) = {} /\ Doorway(url)
    BY DEF DoorsInv, FromDoor, Doorway
  <2>2. ~ Pinned(url.query)
    BY <2>1 DEF Redirects, BareLoad
  <2>3. ASSUME hops > 0 PROVE Plain(url.query)
    <3>1. hops # 0
      BY <1>1, <2>3
    <3>3. Redirected(url.query)
      BY <2>1, <3>1, Zenon DEF DoorsInv
    <3>4. url.query.tokens = <<>>
      BY <2>1 DEF Doorway
    <3>2. Named(url.query) = <<"workdir">>
      BY <3>3 DEF Redirected, Named
    <3> QED BY <3>2, <3>3, <3>4 DEF Plain, Redirected
  <2>4. url.query.ew # <<"true">>
    <3>1. Names(<<"true">>, "true")
      BY DEF Names
    <3>2. ~ Names(url.query.ew, "true")
      BY <2>2, Zenon DEF Pinned
    <3> QED BY <3>1, <3>2, Zenon
  <2>5. IF Named(url.query) = <<>> THEN url.query.payload ELSE Within(Named(url.query)[1])
    BY <2>2 DEF Pinned
  <2> QED BY <2>3, <2>4, <2>5
<1>4. UpstreamsApart
  <2> SUFFICES ASSUME answer.code = "200"
               PROVE  /\ answer.at \in Upstreams
                      /\ Carries(answer.url) =>
                           answer.at \in {"editor", "zed"} \/ (answer.at = "dsh" /\ Names(url.query.tokens, "bad"))
    BY DEF UpstreamsApart
  <2>1. answer.at = url.port /\ answer.at \in Upstreams /\ answer.url = Downstream(url) /\ Doorway(url)
    BY DEF DoorsInv, FromDoor
  <2>2. CASE url.door = "dsh"
    <3> DEFINE left == IF Names(url.query.tokens, "good") THEN <<>> ELSE url.query.tokens
               asked == [url.query EXCEPT !.tokens = left]
    <3>1. Downstream(url) = [url EXCEPT !.token = "stripped", !.query = asked]
      BY <2>2 DEF Downstream
    <3>2. asked.other = url.query.other /\ asked.tokens = left
      BY <1>1 DEF QueryType
    <3>3. url \in UrlType /\ url.query.other # "path"
      BY <2>1, <2>2 DEF Doorway
    <3>4. Downstream(url).token = "stripped" /\ Downstream(url).query = asked
      BY <3>1, <3>3 DEF UrlType
    <3>5. url.port = "dsh" \/ url.port \in {"zed", "app", "editor"}
      BY <2>1 DEF Upstreams
    <3>6. ASSUME NEW i \in DOMAIN left, left[i] = "good" PROVE Names(url.query.tokens, "bad")
      <4>1. url.query.tokens \in Twice(Tokens) /\ ~ Names(url.query.tokens, "good")
        BY <1>1, <3>6 DEF QueryType
      <4>2. url.query.tokens # <<>>
        BY <3>6
      <4> QED BY <4>1, <4>2 DEF Names, Twice, Once, Tokens
    <3>7. Carries(answer.url) => Names(url.query.tokens, "bad")
      BY <2>1, <3>2, <3>3, <3>4, <3>6 DEF Carries
    <3>8. url.port = "dsh"
      BY <2>1, <2>2 DEF Doorway
    <3> QED BY <2>1, <3>7, <3>8
  <2>3. CASE url.door = "port"
    <3>1. Downstream(url) = [url EXCEPT !.token = "stripped", !.rest = IF url.rest = "bare" THEN "slash" ELSE url.rest]
      BY <2>3 DEF Downstream
    <3>2. Downstream(url).token = "stripped" /\ Downstream(url).query = url.query
      BY <2>1, <3>1 DEF Doorway, UrlType
    <3> QED BY <2>1, <2>3, <3>2 DEF Doorway, Carries
  <2>4. CASE url.door \in {"zed", "editor"}
    BY <2>1, <2>4 DEF Doorway
  <2> QED BY <2>1, <2>2, <2>3, <2>4 DEF Doorway, UrlType
<1> QED BY <1>1, <1>2, <1>3, <1>4 DEF DoorsInv, DoorsSafe, DoorsTypeOK

(* From any URL a browser enters with, fields doubled or not, it is redirected
   twice at most if the session's folder is inside the workspace root; the editor
   is opened inside it if no field of the page is doubled, as none is after a
   redirect; and the token reaches no upstream but the editor, the stream and, beside
   the cookie and behind a wrong one, dsh (vncProxy.js, portProxy.js, ide.js,
   dshRouter.js): for any number of redirects that a browser would follow, and
   whenever the stacks behind the doors come up or go. *)
THEOREM DoorsAreSafe == Spec => []DoorsSafe
<1>1. Init => DoorsInv
  BY DoorsStart DEF Init
<1>2. DoorsInv /\ [Next]_hostServicesVars => DoorsInv'
  BY OuterAlone, DoorsStep
<1>3. DoorsInv => DoorsSafe
  BY DoorsHold
<1> QED BY <1>1, <1>2, <1>3, PTL DEF Spec
===============================================================================
