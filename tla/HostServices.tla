---------------------------- MODULE HostServices ----------------------------
(***************************************************************************)
(* The services of a session's machine that share no state: the runs of    *)
(* the control API, terminals and the tmux bridge, the save and restore of *)
(* tmux, the editor switch, the browser stack and the updater; the doors   *)
(* of the browser, the images of the streamed editor, the older modes of a *)
(* machine, and the images machines are made of.  A behaviour is a         *)
(* behaviour of one of them, the others rest; so a state space is the sum  *)
(* of theirs, not their product.                                           *)
(***************************************************************************)
EXTENDS ScriptRuns, Terminals, TmuxState, EditorSwitch, BrowserStack, Updater,
        Doors, ZedClipboard, ServiceModes, ImageCatalog

VARIABLE part  \* the service whose behaviour this is

deskVars == <<runsVars, termVars, tmuxVars, switchVars, browserVars, updaterVars>>
outerVars == <<doorVars, clipVars, serviceVars, catalogVars>>
hostServicesVars == <<part, deskVars, outerVars>>

Services ==
  {"runs", "terminals", "tmux", "editors", "browser", "update",
   "doors", "clipboard", "sandbox mode", "build mode", "images"}

\* A service that rests starts in one of its initial states.
Init ==
  /\ part \in Services
  /\ part = "terminals" \/ pane = CHOOSE p \in Programs : TRUE
  /\ part = "tmux" \/ last = NoSave
  /\ part = "editors" \/ launch = NoSurface
  /\ part = "doors" \/ (url = (CHOOSE u \in DoorUrls : TRUE) /\ method = "GET" /\ nested = TRUE)
  /\ RunsInit /\ TermInit /\ TmuxInit /\ SwitchInit /\ BrowserInit /\ UpdInit
  /\ DoorsInit /\ ClipInit /\ ServiceInit /\ CatalogInit
  /\ part = "update" \/ (~broken /\ trees["root"] = "old")

DeskNext ==
  \/ part = "runs" /\ RunsNext /\ UNCHANGED <<termVars, tmuxVars, switchVars, browserVars, updaterVars>>
  \/ part = "terminals" /\ TermNext /\ UNCHANGED <<runsVars, tmuxVars, switchVars, browserVars, updaterVars>>
  \/ part = "tmux" /\ TmuxNext /\ UNCHANGED <<runsVars, termVars, switchVars, browserVars, updaterVars>>
  \/ part = "editors" /\ SwitchNext /\ UNCHANGED <<runsVars, termVars, tmuxVars, browserVars, updaterVars>>
  \/ part = "browser" /\ BrowserNext /\ UNCHANGED <<runsVars, termVars, tmuxVars, switchVars, updaterVars>>
  \/ part = "update" /\ UpdaterNext /\ UNCHANGED <<runsVars, termVars, tmuxVars, switchVars, browserVars>>

OuterNext ==
  \/ part = "doors" /\ DoorsNext /\ UNCHANGED <<clipVars, serviceVars, catalogVars>>
  \/ part = "clipboard" /\ ClipNext /\ UNCHANGED <<doorVars, serviceVars, catalogVars>>
  \/ part = "sandbox mode" /\ SandboxNext /\ UNCHANGED <<doorVars, clipVars, catalogVars>>
  \/ part = "build mode" /\ BuildNext /\ UNCHANGED <<doorVars, clipVars, catalogVars>>
  \/ part = "images" /\ CatalogNext /\ UNCHANGED <<doorVars, clipVars, serviceVars>>

Next ==
  /\ UNCHANGED part
  /\ \/ DeskNext /\ UNCHANGED outerVars
     \/ OuterNext /\ UNCHANGED deskVars

\* The fairness of each service, owed when the behaviour is that service's.
Of(service) == part = service
RunsFair ==
  /\ \A r \in Runs : /\ WF_runsVars(Of("runs") /\ Timeout(r)) /\ WF_runsVars(Of("runs") /\ KilledGoes(r))
                     /\ WF_runsVars(Of("runs") /\ Close(r))
  /\ \A r \in Streamed : WF_runsVars(Of("runs") /\ Flush(r))
TermFair == WF_termVars(Of("terminals") /\ Tick)
TmuxFair ==
  /\ WF_tmuxVars(Of("tmux") /\ ServerStarts) /\ WF_tmuxVars(Of("tmux") /\ LockAges)
  /\ WF_tmuxVars(Of("tmux") /\ (Restore \/ RestoreScript))
  /\ \A o \in Ops : WF_tmuxVars(Of("tmux") /\ Working(o))
  /\ \A o \in Saves \ Hooks : SF_tmuxVars(Of("tmux") /\ Save(o)) /\ SF_tmuxVars(Of("tmux") /\ MakeLock(o))
SwitchFair ==
  /\ \A w \in Switches : WF_switchVars(Of("editors") /\ SwitchStep(w))
  /\ \A s \in Surfaces : WF_switchVars(Of("editors") /\ Launch(s)) /\ WF_switchVars(Of("editors") /\ Relaunch(s))
BrowserFair ==
  /\ WF_browserVars(Of("browser") /\ StartX) /\ WF_browserVars(Of("browser") /\ XListens)
  /\ WF_browserVars(Of("browser") /\ StartClients)
  /\ WF_browserVars(Of("browser") /\ RestartUnit) /\ WF_browserVars(Of("browser") /\ IdleTick)
UpdaterFair ==
  \A j \in Jobs : WF_updaterVars(Of("update") /\ AskUpdate(j)) /\ WF_updaterVars(Of("update") /\ RunStep(j))
ModesFair ==
  /\ WF_supVars(Of("sandbox mode") /\ Supervise) /\ WF_supVars(Of("sandbox mode") /\ DockerBack)
CatalogFair == \A i \in Images : WF_catalogVars(Of("images") /\ Register(i))

Spec ==
  /\ Init /\ [][Next]_hostServicesVars
  /\ RunsFair /\ TermFair /\ TmuxFair /\ SwitchFair /\ BrowserFair /\ UpdaterFair
  /\ ModesFair /\ CatalogFair

-----------------------------------------------------------------------------
(* A container runs again in the end, whatever of it, the service and dockerd
   died and at whatever step, a name still taken included. *)
BoxRunsAtLast == part = "sandbox mode" => <>[]BoxRuns

(* The older modes do what they report: the container waited for is this
   service's and runs again in the end, and a build is a success only if every
   step of it was. *)
ModesHonest == [](ServiceTypeOK /\ WaitsForOwn) /\ []OutcomeEarned /\ BoxRunsAtLast
=============================================================================
