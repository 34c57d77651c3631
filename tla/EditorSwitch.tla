------------------------------ MODULE EditorSwitch ------------------------------
(***************************************************************************)
(* Switching the editor surface of a live session: switchSurface records   *)
(* the choice in a file, stops the other unit and starts the wanted one,   *)
(* an exec at a time (editorSurface.js); the launchers of both units look  *)
(* at the file, else the launch env, and stand down when it is not their   *)
(* turn (editorSurface.mjs, start-editor.mjs, start-zed.mjs).  Switches    *)
(* overlap, editors crash, units restart, the runtime dies between two     *)
(* execs while the units live on, the droplet reboots.                     *)
(***************************************************************************)
EXTENDS Naturals, FiniteSets

CONSTANTS
  Switches,     \* control requests editor/switch
  Surfaces,
  NoSurface,    \* "none"; a file that is absent or garbage
  MaxTroubles   \* bound: crashes, deaths of the runtime, reboots, failing commands

ASSUME SwitchAssumption == NoSurface \notin Surfaces

VARIABLES
  launch,       \* the surface of the session's launch env
  recorded,     \* the surface file
  unit,         \* each surface's unit
  switch,       \* each request: its step and what it wants
  troubles,
  overlapped,   \* history: two requests overlapped
  stuck         \* history: surfaces left whose stop failed, or never came

switchVars == <<launch, recorded, unit, switch, troubles, overlapped, stuck>>

SwitchTypeOK ==
  /\ launch \in Surfaces \cup {NoSurface} /\ recorded \in Surfaces \cup {NoSurface}
  /\ unit \in [Surfaces -> {"down", "launching", "up", "crashed"}]
  /\ switch \in [Switches -> [at : {"idle", "write", "stop", "start", "ok", "failed"},
                              wanted : Surfaces \cup {NoSurface}]]
  /\ troubles \in 0..MaxTroubles /\ overlapped \in BOOLEAN /\ stuck \in SUBSET Surfaces

\* The boot starts both units; their launchers decide.
SwitchInit ==
  /\ launch \in Surfaces \cup {NoSurface} /\ recorded = NoSurface
  /\ unit = [s \in Surfaces |-> "launching"]
  /\ switch = [w \in Switches |-> [at |-> "idle", wanted |-> NoSurface]]
  /\ troubles = 0 /\ overlapped = FALSE /\ stuck = {}

Trouble == troubles < MaxTroubles /\ troubles' = troubles + 1
Busy == {w \in Switches : switch[w].at \in {"write", "stop", "start"}}
SwitchTo(w, at) == switch' = [switch EXCEPT ![w].at = at]

\* Variant: the launch env outranks the file.
ResolveLaunchFirst == IF launch # NoSurface THEN launch ELSE recorded

\* resolveSurface: the switched-to one, else the launch env's.
ResolveSurface == IF recorded # NoSurface THEN recorded ELSE launch

-----------------------------------------------------------------------------
Chosen(s) == s = ResolveSurface

\* The launcher's gate: another surface's editor stands down with exit 0, which
\* no unit restarts.
Launch(s) ==
  /\ unit[s] = "launching"
  /\ unit' = [unit EXCEPT ![s] = IF Chosen(s) THEN "up" ELSE "down"]
  /\ stuck' = stuck \ {s}
  /\ UNCHANGED <<launch, recorded, switch, troubles, overlapped>>

\* The editor or a part of its stack dies: the launcher exits 1.
Crash(s) ==
  /\ unit[s] = "up" /\ Trouble /\ unit' = [unit EXCEPT ![s] = "crashed"]
  /\ UNCHANGED <<launch, recorded, switch, overlapped, stuck>>

\* Restart=, after RestartSec.
Relaunch(s) ==
  /\ unit[s] = "crashed" /\ unit' = [unit EXCEPT ![s] = "launching"]
  /\ UNCHANGED <<launch, recorded, switch, troubles, overlapped, stuck>>

CutOff == switch' = [w \in Switches |-> IF w \in Busy THEN [switch[w] EXCEPT !.at = "failed"] ELSE switch[w]]

\* The file survives, the requests do not.
Reboot ==
  /\ Trouble /\ CutOff
  /\ unit' = [s \in Surfaces |-> "launching"] /\ stuck' = {}
  /\ UNCHANGED <<launch, recorded, overlapped>>

\* The surfaces a request that has recorded its own is about to stop.
Leaving(w) == Surfaces \ {switch[w].wanted}

\* The runtime dies, and its requests with it; the units are systemd's.
RuntimeDies ==
  /\ Trouble /\ Busy # {} /\ CutOff
  /\ stuck' = stuck \cup UNION {Leaving(w) : w \in {v \in Busy : switch[v].at = "stop"}}
  /\ UNCHANGED <<launch, recorded, unit, overlapped>>

-----------------------------------------------------------------------------
Ask(w, s) ==
  /\ switch[w].at = "idle"
  /\ switch' = [switch EXCEPT ![w] = [at |-> "write", wanted |-> s]]
  /\ overlapped' = (overlapped \/ Busy # {})
  /\ UNCHANGED <<launch, recorded, unit, troubles, stuck>>

Write(w) ==
  /\ switch[w].at = "write"
  /\ \/ recorded' = switch[w].wanted /\ SwitchTo(w, "stop") /\ UNCHANGED troubles
     \/ Trouble /\ SwitchTo(w, "failed") /\ UNCHANGED recorded
  /\ UNCHANGED <<launch, unit, overlapped, stuck>>

StopUnits(S) == unit' = [s \in Surfaces |-> IF s \in S THEN "down" ELSE unit[s]]

\* systemctl stop of every other unit; a stop that fails is ignored.
StopOthers(w) ==
  /\ switch[w].at = "stop" /\ SwitchTo(w, "start")
  /\ \/ StopUnits(Leaving(w)) /\ stuck' = stuck \ Leaving(w) /\ UNCHANGED troubles
     \/ Trouble /\ stuck' = stuck \cup Leaving(w) /\ UNCHANGED unit
  /\ UNCHANGED <<launch, recorded, overlapped>>

\* systemctl start: nothing for a unit that runs; else its launcher is forked
\* and the call returns.  A unit that cannot be started fails the request.
StartWanted(w) ==
  LET s == switch[w].wanted IN
  /\ switch[w].at = "start"
  /\ \/ /\ unit' = [unit EXCEPT ![s] = IF @ \in {"up", "launching"} THEN @ ELSE "launching"]
        /\ SwitchTo(w, "ok") /\ UNCHANGED troubles
     \/ Trouble /\ SwitchTo(w, "failed") /\ UNCHANGED unit
  /\ UNCHANGED <<launch, recorded, overlapped, stuck>>

SwitchStep(w) == Write(w) \/ StopOthers(w) \/ StartWanted(w)

SwitchNext ==
  \/ \E s \in Surfaces : Launch(s) \/ Crash(s) \/ Relaunch(s)
  \/ Reboot \/ RuntimeDies
  \/ \E w \in Switches : SwitchStep(w) \/ \E s \in Surfaces : Ask(w, s)

-----------------------------------------------------------------------------
Settled == Busy = {} /\ \A s \in Surfaces : unit[s] \in {"up", "down"}

(* Exactly one surface at a time (editorSurface.js:1-2): however switches overlap,
   editors crash and the droplet reboots, when everything has come to rest no
   editor runs but the one the file (else the launch env) names.  One that should
   have been stopped when the stop failed, or when the runtime died with the file
   already written (64-70), runs beside it, but only until the next switch away
   from it, its own crash or a reboot. *)
OneSurface ==
  Settled => \A s \in Surfaces : unit[s] = "up" => s = ResolveSurface \/ s \in stuck

(* A switch that answered ok gives its caller the editor: after switches that
   did not overlap and did not fail, the recorded surface comes up and stays. *)
SwitchedComesUp ==
  <>[](\/ overlapped \/ \E w \in Switches : switch[w].at = "failed"
       \/ \A w \in Switches : switch[w] = [at |-> "ok", wanted |-> recorded] => unit[recorded] = "up")

(* The editor that runs is the one that was chosen, and it comes up. *)
SurfaceAsChosen == [](SwitchTypeOK /\ OneSurface) /\ SwitchedComesUp
===============================================================================
