----------------------------- MODULE ServiceModes -----------------------------
(***************************************************************************)
(* The two older modes of a machine (src/sandbox, src/buildjob).  Sandbox  *)
(* mode supervises one container: remove what a boot before left, create,  *)
(* start, wait, and again after two seconds.  Build mode runs a job once,  *)
(* clone, log in, build and push, and serves its outcome until the caller  *)
(* deletes the machine.                                                    *)
(*                                                                         *)
(* dockerd is external: it refuses while it is down, and a container lives *)
(* on when only the service restarts.                                      *)
(***************************************************************************)
EXTENDS Naturals

CONSTANTS
  MaxOutages, MaxServiceDeaths, MaxExits \* bounds

ASSUME ServiceAssumption == {MaxOutages, MaxServiceDeaths, MaxExits} \subseteq Nat

VARIABLES
  loop,      \* superviseForever(): "pull", "remove", "create", "start", "wait", "cool"
  box,       \* the container of that name: its state and the boot that made it
  boot,      \* starts of the service
  dockerUp, outages, exits,
  build,     \* runBuildJob(): its step, and how each one ended
  outcome    \* /status: "running", "succeeded" or "failed", and its exit code

supVars == <<loop, box, boot, dockerUp, outages, exits>>
buildVars == <<build, outcome>>
serviceVars == <<supVars, buildVars>>

NoBox == [state |-> "none", by |-> 0]
BuildRunning == [state |-> "running", code |-> "none"]

ServiceTypeOK ==
  /\ loop \in {"pull", "remove", "create", "start", "wait", "cool"}
  /\ box \in [state : {"none", "created", "running", "exited"}, by : 0..MaxServiceDeaths + 1]
  /\ boot \in 1..MaxServiceDeaths + 1 /\ dockerUp \in BOOLEAN
  /\ build \in [step : {"shallow", "full", "checkout", "login", "script", "over"}, went : SUBSET STRING]
  /\ outcome.state \in {"running", "succeeded", "failed"}

ServiceInit ==
  /\ loop = "pull" /\ box = NoBox /\ boot = 1
  /\ dockerUp = TRUE /\ outages = 0 /\ exits = 0
  /\ build = [step |-> "shallow", went |-> {}] /\ outcome = BuildRunning

-----------------------------------------------------------------------------
\* Pulls the image; a failure ends the process, and systemd starts it again.
Pull ==
  /\ loop = "pull" /\ dockerUp /\ loop' = "remove"
  /\ UNCHANGED <<box, boot, dockerUp, outages, exits, buildVars>>

\* Variant: a container left by a boot before is kept.
RemoveDead ==
  /\ loop = "remove" /\ loop' = "create"
  /\ box' = IF dockerUp /\ box.state # "running" THEN NoBox ELSE box
  /\ UNCHANGED <<boot, dockerUp, outages, exits, buildVars>>

\* removeStale(): by force; that it failed is not noticed.
RemoveStale ==
  /\ loop = "remove" /\ loop' = "create"
  /\ box' = IF dockerUp THEN NoBox ELSE box
  /\ UNCHANGED <<boot, dockerUp, outages, exits, buildVars>>

\* The name may still be taken.
Create ==
  /\ loop = "create"
  /\ IF dockerUp /\ box = NoBox
     THEN loop' = "start" /\ box' = [state |-> "created", by |-> boot]
     ELSE loop' = "cool" /\ box' = box
  /\ UNCHANGED <<boot, dockerUp, outages, exits, buildVars>>

Start ==
  /\ loop = "start"
  /\ IF dockerUp THEN loop' = "wait" /\ box' = [box EXCEPT !.state = "running"]
                 ELSE loop' = "cool" /\ box' = box
  /\ UNCHANGED <<boot, dockerUp, outages, exits, buildVars>>

\* wait() answers when the container is gone.
WaitEnds ==
  /\ loop = "wait" /\ box.state # "running" /\ loop' = "cool"
  /\ UNCHANGED <<box, boot, dockerUp, outages, exits, buildVars>>

CoolDown ==
  /\ loop = "cool" /\ loop' = "remove"
  /\ UNCHANGED <<box, boot, dockerUp, outages, exits, buildVars>>

Supervise == Pull \/ RemoveStale \/ Create \/ Start \/ WaitEnds \/ CoolDown

BoxExits ==
  /\ box.state = "running" /\ exits < MaxExits /\ exits' = exits + 1
  /\ box' = [box EXCEPT !.state = "exited"]
  /\ UNCHANGED <<loop, boot, dockerUp, outages, buildVars>>

\* dockerd goes, and the container with it or not; a wait() throws.
DockerGoes ==
  /\ loop' = IF loop = "wait" THEN "cool" ELSE loop
  /\ dockerUp /\ outages < MaxOutages /\ outages' = outages + 1 /\ dockerUp' = FALSE
  /\ \E s \in {box.state, IF box.state = "running" THEN "exited" ELSE box.state} :
       box' = [box EXCEPT !.state = s]
  /\ UNCHANGED <<boot, exits, buildVars>>

DockerBack ==
  /\ ~dockerUp /\ dockerUp' = TRUE
  /\ UNCHANGED <<loop, box, boot, outages, exits, buildVars>>

ServiceDies ==
  /\ boot <= MaxServiceDeaths /\ boot' = boot + 1 /\ loop' = "pull"
  /\ UNCHANGED <<box, dockerUp, outages, exits, buildVars>>

-----------------------------------------------------------------------------
\* Where runBuildJob() goes from each step, if it went well and if not.
After(step, ok) ==
  CASE step = "shallow" -> IF ok THEN "login" ELSE "full"
    [] step = "full" /\ ok -> "checkout"
    [] step = "checkout" /\ ok -> "login"
    [] step = "login" /\ ok -> "script"
    [] OTHER -> "over"

\* finish(): the script's exit code decides; what throws has none.
Finished(step, ok) ==
  IF step = "script"
  THEN [state |-> IF ok THEN "succeeded" ELSE "failed", code |-> IF ok THEN "0" ELSE "other"]
  ELSE [state |-> "failed", code |-> "none"]

BuildStep(ok) ==
  /\ build.step # "over"
  /\ build' = [step |-> After(build.step, ok), went |-> IF ok THEN build.went \cup {build.step} ELSE build.went]
  /\ outcome' = IF build'.step = "over" THEN Finished(build.step, ok) ELSE outcome
  /\ UNCHANGED supVars

\* A machine is in one of the modes; the other never starts.
SandboxNext == Supervise \/ BoxExits \/ DockerGoes \/ DockerBack \/ ServiceDies
BuildNext == \E ok \in BOOLEAN : BuildStep(ok)

-----------------------------------------------------------------------------
(* The container the supervisor waits for is the one this start of the service
   made, with this start's image and environment: one that outlived the service
   before is not taken for it. *)
WaitsForOwn == loop = "wait" => box.by = boot

(* The supervisor waits for a container that runs (BoxRunsAtLast). *)
BoxRuns == box.state = "running" /\ loop = "wait"

(* The build reports success only if the repository was checked out at the ref,
   by either way, the login went well and the script left with 0; and it is
   never left "running" when the job is over, at whatever step it failed. *)
OutcomeEarned ==
  /\ outcome.state = "running" <=> build.step # "over"
  /\ outcome.state = "succeeded" =>
       /\ {"login", "script"} \subseteq build.went
       /\ "shallow" \in build.went \/ {"full", "checkout"} \subseteq build.went
===============================================================================
