------------------------------ MODULE Updater ------------------------------
(***************************************************************************)
(* The in-place update of a machine: the callers of `oyren update`         *)
(* (cli/update.js, oyren-update.sh), the unit each of them starts, its     *)
(* lock and its download (lib/fetch.sh), and the release's own             *)
(* apply-release.sh: the components that differ, each stamped as it lands, *)
(* the exchange of the trees, the restart, the health check and the        *)
(* rollback.  A run may fail or be killed at any step, and be tried again. *)
(***************************************************************************)
EXTENDS Naturals

CONSTANTS
  Jobs,        \* the callers
  MaxFaults    \* bound: downloads and installers that fail, sound runtimes that are
               \* too slow for the health check, units killed, machines rebooted

ASSUME UpdaterAssumption == MaxFaults \in Nat /\ "none" \notin Jobs

VARIABLES
  stamp,    \* the manifest's value of each component
  version,  \* the manifest's version
  installed,     \* what is installed; "runtime": the tree /app points at
  serving,  \* the tree the running server was started from
  trees,    \* /srv/composer/app, and .prev and .new beside it
  status,   \* the status file
  updateRun,      \* per caller: where its run is, what is left, what /app was
  flocked,     \* who holds the flock
  broken,   \* the release's runtime never answers
  faults,
  rollbacks, \* history: how many there were (2: two or more)
  cut       \* history: a run stopped between moving /app and its end

updaterVars == <<stamp, version, installed, serving, trees, status, updateRun, flocked, broken, faults, rollbacks, cut>>
hostVars == <<stamp, version, installed, serving, trees, broken>>

\* COMPONENT_ORDER: the runtime comes last.
Parts == {"agents", "runtime"}
NextPart(todo) == IF "agents" \in todo THEN "agents" ELSE "runtime"

InUnit == {"fetching", "beginning", "installing", "stamping", "swapping", "restarting", "checking", "unstamping", "ending"}
Places == {"idle", "asked", "passed", "launched"} \cup InUnit
Tree == {"none", "baked", "old", "new"}

UpdTypeOK ==
  /\ stamp \in [Parts -> {"none", "old", "new"}] /\ version \in {"old", "new"}
  /\ installed \in [Parts -> {"old", "new"}] /\ serving \in {"old", "new"}
  /\ trees \in [{"root", "prev", "next"} -> Tree]
  /\ status \in [state: {"idle", "running", "done", "failed"}, unit: Jobs \cup {"none"}]
  /\ updateRun \in [Jobs -> [at: Places, todo: SUBSET Parts, restart: BOOLEAN, previous: {"old", "new"}]]
  /\ flocked \in Jobs \cup {"none"} /\ broken \in BOOLEAN /\ cut \in BOOLEAN
  /\ faults \in 0..MaxFaults /\ rollbacks \in 0..2

\* A baked tree has no target.json, one an update brought has.
UpdInit ==
  /\ stamp = [p \in Parts |-> "old"] /\ version = "old"
  /\ installed = [p \in Parts |-> "old"] /\ serving = "old"
  /\ trees \in {[root |-> r, prev |-> "none", next |-> "none"] : r \in {"baked", "old"}}
  /\ status = [state |-> "idle", unit |-> "none"]
  /\ updateRun = [j \in Jobs |-> [at |-> "idle", todo |-> {}, restart |-> FALSE, previous |-> "old"]]
  /\ flocked = "none" /\ broken \in BOOLEAN
  /\ faults = 0 /\ rollbacks = 0 /\ cut = FALSE

\* diffManifests(): the components whose values differ.
Diff == {p \in Parts : stamp[p] # "new"}

GoesTo(j, place) == updateRun' = [updateRun EXCEPT ![j].at = place]
Writes(state) == status' = [status EXCEPT !.state = state]
Ends(j, state) == GoesTo(j, "idle") /\ Writes(state) /\ flocked' = "none"
Same == UNCHANGED <<broken, faults, rollbacks, cut>>

-----------------------------------------------------------------------------
\* The CLI asks for the differences first: none, and it stops.
AskUpdate(j) ==
  /\ updateRun[j].at = "idle" /\ trees["root"] # "none" /\ Diff # {}
  /\ GoesTo(j, "asked")
  /\ Same /\ UNCHANGED <<hostVars, status, flocked>>

\* Variant: a run that was killed still counts as running.
AnyRunning == status.state = "running"

\* `systemctl is-active` of the unit the status names.
UnitActive == status.unit # "none" /\ updateRun[status.unit].at \in InUnit \cup {"launched"}
AlreadyRunning == status.state = "running" /\ UnitActive

PassGuard(j) ==
  /\ updateRun[j].at = "asked"
  /\ GoesTo(j, IF AlreadyRunning THEN "idle" ELSE "passed")
  /\ Same /\ UNCHANGED <<hostVars, status, flocked>>

LaunchUnit(j) ==
  /\ updateRun[j].at = "passed"
  /\ GoesTo(j, "launched") /\ status' = [state |-> "running", unit |-> j]
  /\ Same /\ UNCHANGED <<hostVars, flocked>>

\* flock -n.
LockFree == flocked = "none"

\* The unit's first steps; the script itself is in the installed tree.
TakeLock(j) ==
  /\ updateRun[j].at = "launched"
  /\ CASE trees["root"] = "none" -> GoesTo(j, "idle") /\ UNCHANGED <<status, flocked>>
       [] trees["root"] # "none" /\ LockFree -> GoesTo(j, "fetching") /\ flocked' = j /\ Writes("running")
       [] OTHER -> GoesTo(j, "idle") /\ Writes("failed") /\ UNCHANGED flocked
  /\ Same /\ UNCHANGED hostVars

\* The download, verified and unpacked beside the installed tree; it fails
\* before anything is touched.
FetchOk(j) ==
  /\ updateRun[j].at = "fetching" /\ GoesTo(j, "beginning")
  /\ trees' = [trees EXCEPT !["next"] = "new"] /\ Writes("running")
  /\ Same /\ UNCHANGED <<stamp, version, installed, serving, flocked>>

FetchFails(j) ==
  /\ updateRun[j].at = "fetching" /\ faults < MaxFaults /\ faults' = faults + 1
  /\ Ends(j, "failed")
  /\ UNCHANGED <<hostVars, rollbacks, cut>>

-----------------------------------------------------------------------------
\* apply-release.sh: what there is to do, and the tree to roll back to.
Begin(j) ==
  /\ updateRun[j].at = "beginning" /\ Writes("running")
  /\ updateRun' = [updateRun EXCEPT ![j] = [at |-> "installing", todo |-> Diff, restart |-> FALSE, previous |-> installed["runtime"]]]
  /\ Same /\ UNCHANGED <<hostVars, flocked>>

Install(j) ==
  /\ updateRun[j].at = "installing" /\ updateRun[j].todo # {}
  /\ installed' = [installed EXCEPT ![NextPart(updateRun[j].todo)] = "new"]
  /\ GoesTo(j, "stamping") /\ Writes("running")
  /\ Same /\ UNCHANGED <<stamp, version, serving, trees, flocked>>

StampsKept(p) == stamp

\* An installer fails before or after what it installs is in place.
InstallFails(j) ==
  LET p == NextPart(updateRun[j].todo) IN
  /\ updateRun[j].at = "installing" /\ updateRun[j].todo # {} /\ faults < MaxFaults /\ faults' = faults + 1
  /\ installed' \in {installed, [installed EXCEPT ![p] = "new"]}
  /\ cut' = (cut \/ installed'["runtime"] # installed["runtime"])
  /\ stamp' = StampsKept(p)
  /\ Ends(j, "failed")
  /\ UNCHANGED <<version, serving, trees, broken, rollbacks>>

\* Variant: no unit is restarted for the runtime.
RestartNever(p) == FALSE

RestartFor(p) == p = "runtime"

Stamp(j) ==
  LET p == NextPart(updateRun[j].todo) IN
  /\ updateRun[j].at = "stamping"
  /\ stamp' = [stamp EXCEPT ![p] = "new"]
  /\ updateRun' = [updateRun EXCEPT ![j] =
       [at |-> "installing", todo |-> updateRun[j].todo \ {p},
        restart |-> updateRun[j].restart \/ RestartFor(p), previous |-> updateRun[j].previous]]
  /\ Same /\ UNCHANGED <<version, installed, serving, trees, status, flocked>>

\* The installed tree becomes .prev, and the new one takes its place.
MoveAway(j) ==
  /\ updateRun[j].at = "installing" /\ updateRun[j].todo = {}
  /\ trees' = [trees EXCEPT !["prev"] = trees["root"], !["root"] = "none"]
  /\ GoesTo(j, "swapping")
  /\ Same /\ UNCHANGED <<stamp, version, installed, serving, status, flocked>>

MoveIn(j) ==
  /\ updateRun[j].at = "swapping"
  /\ trees' = [trees EXCEPT !["root"] = trees["next"], !["next"] = "none"]
  /\ GoesTo(j, "restarting") /\ Writes("running")
  /\ Same /\ UNCHANGED <<stamp, version, installed, serving, flocked>>

RestartUnits(j) ==
  /\ updateRun[j].at = "restarting"
  /\ serving' = IF updateRun[j].restart THEN installed["runtime"] ELSE serving
  /\ GoesTo(j, IF updateRun[j].restart THEN "checking" ELSE "ending")
  /\ Same /\ UNCHANGED <<stamp, version, installed, trees, status, flocked>>

\* The hash the health route answers is the manifest's, which says the new
\* one whichever tree serves: any answer passes.
Answers == ~(broken /\ serving = "new")

Healthy(j) ==
  /\ updateRun[j].at = "checking" /\ Answers /\ GoesTo(j, "ending")
  /\ Same /\ UNCHANGED <<hostVars, status, flocked>>

RollbackTo(j) == updateRun[j].previous

Rollback(j) ==
  /\ updateRun[j].at = "checking" /\ (~Answers \/ faults < MaxFaults)
  /\ faults' = IF Answers THEN faults + 1 ELSE faults
  /\ installed' = [installed EXCEPT !["runtime"] = RollbackTo(j)] /\ serving' = installed'["runtime"]
  /\ rollbacks' = IF rollbacks = 2 THEN 2 ELSE rollbacks + 1
  /\ GoesTo(j, "unstamping")
  /\ UNCHANGED <<stamp, version, trees, status, flocked, broken, cut>>

\* The runtime's value in a tree's target.json.
TargetOf(tree) == IF tree \in {"old", "new"} THEN tree ELSE "none"

Unstamp(j) ==
  /\ updateRun[j].at = "unstamping"
  /\ stamp' = [stamp EXCEPT !["runtime"] = TargetOf(trees["prev"])]
  /\ Ends(j, "failed")
  /\ Same /\ UNCHANGED <<version, installed, serving, trees>>

\* The version flips only when nothing differs any more.
Done(j) ==
  /\ updateRun[j].at = "ending"
  /\ version' = IF Diff = {} THEN "new" ELSE version
  /\ Ends(j, "done")
  /\ Same /\ UNCHANGED <<stamp, installed, serving, trees>>

-----------------------------------------------------------------------------
\* Past the move of /app and not at the end.
Midway(j) ==
  \/ updateRun[j].at \in {"swapping", "restarting", "checking", "unstamping", "ending"}
  \/ updateRun[j].at \in {"installing", "stamping"} /\ installed["runtime"] = "new"

\* A unit is killed: its lock goes with it, its status stays.
UnitKilled(j) ==
  /\ updateRun[j].at \in InUnit \cup {"launched"} /\ faults < MaxFaults /\ faults' = faults + 1
  /\ cut' = (cut \/ Midway(j))
  /\ flocked' = IF flocked = j THEN "none" ELSE flocked
  /\ GoesTo(j, "idle")
  /\ UNCHANGED <<hostVars, status, rollbacks>>

RebootHost ==
  /\ faults < MaxFaults /\ faults' = faults + 1
  /\ cut' = (cut \/ \E j \in Jobs : Midway(j))
  /\ updateRun' = [j \in Jobs |-> [updateRun[j] EXCEPT !.at = "idle"]]
  /\ flocked' = "none" /\ serving' = installed["runtime"]
  /\ UNCHANGED <<stamp, version, installed, trees, status, broken, rollbacks>>

Applies(j) ==
  \/ Begin(j) \/ Install(j) \/ InstallFails(j) \/ Stamp(j) \/ MoveAway(j) \/ MoveIn(j)
  \/ RestartUnits(j) \/ Healthy(j) \/ Rollback(j) \/ Unstamp(j) \/ Done(j)
RunStep(j) == PassGuard(j) \/ LaunchUnit(j) \/ TakeLock(j) \/ FetchOk(j) \/ FetchFails(j) \/ Applies(j)

UpdaterNext ==
  \/ \E j \in Jobs : AskUpdate(j) \/ RunStep(j) \/ UnitKilled(j)
  \/ RebootHost

\* Every step of a run is followed by the next, and the callers ask again.
UpdaterFairness == \A j \in Jobs : WF_updaterVars(AskUpdate(j)) /\ WF_updaterVars(RunStep(j))
UpdaterSpec == UpdInit /\ [][UpdaterNext]_updaterVars /\ UpdaterFairness

-----------------------------------------------------------------------------
\* One run at a time holds the machine, whatever callers asked (the guard
\* reads the status before it writes it, so the lock decides).
OneAtATime == \A i, j \in Jobs : i # j => ~(updateRun[i].at \in InUnit /\ updateRun[j].at \in InUnit)

ManifestTrue ==
  /\ \A p \in Parts : stamp[p] = "new" => installed[p] = "new"
  /\ version = "new" => \A p \in Parts : installed[p] = "new"
RollingBack == \E j \in Jobs : updateRun[j].at = "unstamping"

\* The manifest never claims a component that is not there: through failed
\* installers and killed runs, and through one rollback.
StampsHonest == ~cut /\ rollbacks < 2 /\ ~RollingBack => ManifestTrue

\* apply-release.sh:4-6: a run that stops half-way leaves a manifest that
\* says exactly which parts are new.
StampsExact == ~cut /\ ~RollingBack => ManifestTrue

\* When no run is restarting it, the machine is served by a runtime that
\* answers: a release that does not is taken back.
RuntimeBack ==
  ~cut /\ (\A j \in Jobs : updateRun[j].at \notin {"checking"}) => Answers

\* An update that is reported done is installed whole and serving.
DoneMeansServing ==
  status.state = "done" /\ ~cut /\ rollbacks < 2 => serving = "new" /\ ManifestTrue /\ version = "new"

\* Once an update was started, and is asked for again, a release whose runtime
\* answers is installed and served, whatever failed, was killed early or was
\* refused in between.
UpdateLands ==
  status.state # "idle" ~> (broken \/ cut \/ rollbacks = 2 \/ (version = "new" /\ serving = "new"))

(* One run at a time; and unless a run was killed after it moved /app, and until a
   second rollback, what the machine says of its update is so: no component in the
   manifest that is not installed, a runtime that answers, and "done" only of a
   release that is installed whole and serving. *)
UpdateHonest == UpdTypeOK /\ OneAtATime /\ StampsHonest /\ RuntimeBack /\ DoneMeansServing
============================================================================
