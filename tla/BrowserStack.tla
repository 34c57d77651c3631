------------------------------ MODULE BrowserStack ------------------------------
(***************************************************************************)
(* The in-VM browser (start-browser.mjs): a launcher that starts an X      *)
(* server, waits for its socket, starts a window manager and Chrome, and   *)
(* dies with any of them; its unit, which restarts it when it exits 1      *)
(* (oyren-browser.service); the leftovers it clears first, a dead X        *)
(* server's socket and lock (zedStack.mjs) and a dead Chrome's lock on the *)
(* profile (chromeProfileLock.mjs); and the idle stop (idleWatch.mjs).     *)
(* The profile outlives the container, which may be replaced.              *)
(***************************************************************************)
EXTENDS Naturals

CONSTANTS
  IdleTicks,  \* polls without a viewer before the stack stops
  MaxChildDeaths,  \* bound: deaths of a child
  MaxOpens,   \* bound: uses of oyren-open
  MaxReplaced    \* bound: replacements of the container

ASSUME BrowserAssumption ==
  IdleTicks \in Nat \ {0} /\ MaxChildDeaths \in Nat /\ MaxOpens \in Nat /\ MaxReplaced \in Nat

VARIABLES
  stack,       \* the unit and how far its launcher is
  xserver,     \* is this launch's X server listening?
  display,     \* the X socket: whose it is
  profileLock, \* SingletonLock: whose it is
  userChrome,  \* a Chrome on this profile that is not the stack's
  viewers, quiet, \* is anyone watching; polls since someone was
  idled,       \* history: the last stop was the idle one
  opens, childDeaths, replaced

browserVars == <<stack, xserver, display, profileLock, userChrome, viewers, quiet, idled, opens, childDeaths, replaced>>

BrowserTypeOK ==
  /\ stack \in {"down", "starting", "waiting for X", "up", "crashed"}
  /\ xserver \in BOOLEAN /\ display \in {"none", "stale", "ours"}
  /\ profileLock \in {"none", "dead", "ours", "user's", "other host's"}
  /\ userChrome \in BOOLEAN /\ viewers \in BOOLEAN /\ quiet \in 0..IdleTicks /\ idled \in BOOLEAN
  /\ opens \in 0..MaxOpens /\ childDeaths \in 0..MaxChildDeaths /\ replaced \in 0..MaxReplaced

BrowserInit ==
  /\ stack = "down" /\ xserver = FALSE /\ display = "none" /\ profileLock = "none"
  /\ userChrome = FALSE /\ viewers = FALSE /\ quiet = 0 /\ idled = FALSE
  /\ opens = 0 /\ childDeaths = 0 /\ replaced = 0

Watching == xserver /\ stack \in {"waiting for X", "up"}

\* The launcher is gone and its cgroup with it: a child that is killed leaves
\* its files, one that goes by itself may remove them.
Leftovers ==
  /\ xserver' = FALSE /\ viewers' = FALSE
  /\ display' \in IF display = "ours" THEN {"none", "stale"} ELSE {display}
  /\ profileLock' \in IF profileLock = "ours" THEN {"none", "dead"} ELSE {profileLock}

-----------------------------------------------------------------------------
\* oyren-open: systemctl start, which does nothing for a unit that runs.
OpenUrl ==
  /\ opens < MaxOpens /\ opens' = opens + 1
  /\ stack' = IF stack = "down" THEN "starting" ELSE stack
  /\ idled' = (idled /\ stack # "down")
  /\ UNCHANGED <<xserver, display, profileLock, userChrome, viewers, quiet, childDeaths, replaced>>

\* cleanStaleDisplay()
CleanDisplay == "none"

\* The X server is spawned on the display.
StartX ==
  /\ stack = "starting" /\ stack' = "waiting for X"
  /\ display' = CleanDisplay
  /\ UNCHANGED <<xserver, profileLock, userChrome, viewers, quiet, idled, opens, childDeaths, replaced>>

XListens ==
  /\ stack = "waiting for X" /\ ~xserver
  /\ xserver' = TRUE /\ display' = "ours"
  /\ UNCHANGED <<stack, profileLock, userChrome, viewers, quiet, idled, opens, childDeaths, replaced>>

\* Variant: only the locks that Chrome breaks itself.
SameHostStale == {"dead"}

\* isStaleLock(): no process of this host can own it.
StaleLocks == {"dead", "other host's"}

AfterClearing == IF profileLock \in StaleLocks THEN "none" ELSE profileLock

\* waitForFile() sees the socket; the window manager, the profile's lock and
\* Chrome in the same event.  Chrome exits at once when it finds the profile
\* taken, by another host's lock or by a Chrome it hands its page to.
StartClients ==
  /\ stack = "waiting for X" /\ display # "none"
  /\ IF AfterClearing \in {"none", "dead"}
     THEN stack' = "up" /\ profileLock' = "ours" /\ UNCHANGED <<xserver, display, viewers>>
     ELSE stack' = "crashed" /\ xserver' = FALSE /\ viewers' = FALSE /\ display' = "stale"
          /\ UNCHANGED profileLock
  /\ quiet' = 0
  /\ UNCHANGED <<userChrome, idled, opens, childDeaths, replaced>>

\* A child dies, or X does not come up in 20 s: the launcher exits 1.
ChildDies ==
  /\ stack \in {"waiting for X", "up"} /\ childDeaths < MaxChildDeaths /\ childDeaths' = childDeaths + 1
  /\ stack' = "crashed" /\ Leftovers
  /\ UNCHANGED <<userChrome, quiet, idled, opens, replaced>>

\* Restart=on-failure, after RestartSec.
RestartUnit ==
  /\ stack = "crashed" /\ stack' = "starting"
  /\ UNCHANGED <<xserver, display, profileLock, userChrome, viewers, quiet, idled, opens, childDeaths, replaced>>

-----------------------------------------------------------------------------
ViewerComesOrGoes ==
  /\ Watching /\ viewers' = ~viewers
  /\ UNCHANGED <<stack, xserver, display, profileLock, userChrome, quiet, idled, opens, childDeaths, replaced>>

StopsClean == "down"
SinceSeen == IF viewers THEN 0 ELSE quiet + 1

Idle == SinceSeen >= IdleTicks

\* createIdleWatch()'s tick, every 30 s.
IdleTick ==
  /\ stack = "up"
  /\ IF Idle
     THEN stack' = StopsClean /\ idled' = TRUE /\ quiet' = IdleTicks /\ Leftovers
     ELSE /\ quiet' = SinceSeen
          /\ UNCHANGED <<stack, xserver, display, profileLock, viewers, idled>>
  /\ UNCHANGED <<userChrome, opens, childDeaths, replaced>>

\* The user's own Chrome, on the same profile; it leaves its lock if it is killed.
UserChrome ==
  /\ \/ ~userChrome /\ profileLock \in {"none", "dead"} /\ userChrome' = TRUE /\ profileLock' = "user's"
     \/ userChrome /\ userChrome' = FALSE
        /\ profileLock' \in IF profileLock = "user's" THEN {"none", "dead"} ELSE {profileLock}
  /\ UNCHANGED <<stack, xserver, display, viewers, quiet, idled, opens, childDeaths, replaced>>

\* The container is replaced: its processes and /tmp are gone, the profile comes
\* back under another hostname.
Replaced ==
  /\ replaced < MaxReplaced /\ replaced' = replaced + 1
  /\ stack' = "down" /\ idled' = FALSE /\ userChrome' = FALSE
  /\ xserver' = FALSE /\ viewers' = FALSE /\ display' = "none"
  /\ \E left \in {"none"} \cup (IF profileLock = "none" THEN {} ELSE {"other host's"}) : profileLock' = left
  /\ UNCHANGED <<quiet, opens, childDeaths>>

BrowserNext ==
  \/ OpenUrl \/ StartX \/ XListens \/ StartClients \/ ChildDies \/ RestartUnit
  \/ ViewerComesOrGoes \/ IdleTick \/ UserChrome \/ Replaced

\* systemd restarts, X comes up, the launcher polls.

-----------------------------------------------------------------------------
(* The window manager and Chrome are started on this launch's X server, never
   on the socket a dead one left, which would loop the stack. *)
ClientsOnOwnX == [][StartClients => xserver]_browserVars

(* Whatever a crash, a kill or another container left behind, the browser comes
   up (or goes down again for want of a viewer), unless the user's own Chrome
   has the profile. *)
BrowserComesUp == (stack = "starting") ~> (stack \in {"up", "down"} \/ profileLock = "user's")

(* A profile is not taken from a Chrome that still runs. *)
OneChrome == stack = "up" => ~userChrome

(* An idle stop is no crash: the stack stays down until someone asks for it. *)
IdleStaysDown == idled => stack = "down"

(* A browser that nobody watches does not stay up. *)
IdleStops == <>[]~viewers => []<>(stack # "up")

(* The browser is there when it is wanted and only then: whatever was left behind
   it comes up on its own X server, takes no running Chrome's profile, and goes
   down for good when nobody watches. *)
BrowserServes ==
  /\ [](BrowserTypeOK /\ OneChrome) /\ []IdleStaysDown
  /\ ClientsOnOwnX /\ BrowserComesUp /\ IdleStops
===============================================================================
