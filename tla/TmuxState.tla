------------------------------- MODULE TmuxState -------------------------------
(***************************************************************************)
(* Saving and restoring the tmux layout (tmux-state.mjs and its two        *)
(* halves): the server of oyren-tmux.service dies and comes back, its      *)
(* ExecStartPost restores, a timer, a detach hook and the quiesce save,    *)
(* all under a lock that is a directory.  A layout is the number of the    *)
(* newest change it shows, 0 for a server without panes.                   *)
(***************************************************************************)
EXTENDS Naturals, FiniteSets

CONSTANTS
  Saves,      \* invocations of save that can overlap
  Hooks,      \* those of the detach hook
  PostStart,       \* the unit's restore
  NoSave,     \* no layout recorded; no lock
  MaxLayouts, \* bound: changes of the layout
  MaxLosses   \* bound: deaths of the server, invocations killed midway

ASSUME TmuxAssumption == Hooks \subseteq Saves /\ PostStart \notin Saves /\ NoSave \notin Nat

Ops == Saves \cup {PostStart}

VARIABLES
  server,  \* up; its layout; latched: @oyren-restored
  changes, \* layouts so far
  last,    \* what `last` points at
  lock,    \* the .lock directory: who made it, and whether 90 s ago
  op, dump,\* each invocation: its step, the layout its script has read
  seen,    \* the invocations that have seen the lock now there to be old
  losses,
  raced,   \* history: an eviction hit a lock made since it looked
  emptied  \* history: the panes went between a save's count and its script

tmuxVars == <<server, changes, last, lock, op, dump, seen, losses, raced, emptied>>

Free == [owner |-> NoSave, old |-> FALSE]
Steps == {"idle", "counted", "waiting", "evicting", "script", "read", "saved", "restored"}

TmuxTypeOK ==
  /\ server \in [up : BOOLEAN, layout : 0..MaxLayouts, latched : BOOLEAN]
  /\ changes \in 0..MaxLayouts /\ last \in 0..MaxLayouts \cup {NoSave}
  /\ lock \in [owner : Ops \cup {NoSave}, old : BOOLEAN]
  /\ op \in [Ops -> Steps \cup {"due"}] /\ dump \in [Ops -> 0..MaxLayouts]
  /\ seen \subseteq Ops
  /\ losses \in 0..MaxLosses /\ raced \in BOOLEAN /\ emptied \in BOOLEAN

\* The disk is new, or has the layout of an earlier session or boot.
TmuxInit ==
  /\ server = [up |-> TRUE, layout |-> 0, latched |-> FALSE]
  /\ last \in {NoSave, 1} /\ changes = (IF last = NoSave THEN 0 ELSE 1)
  /\ lock = Free /\ seen = {}
  /\ op = [o \in Ops |-> IF o = PostStart THEN "due" ELSE "idle"] /\ dump = [o \in Ops |-> 0]
  /\ losses = 0 /\ raced = FALSE /\ emptied = FALSE

Goto(o, step) == op' = [op EXCEPT ![o] = step]
Counted == {o \in Saves : op[o] \in {"counted", "waiting", "evicting", "script"}}
Panes == IF server.up THEN server.layout ELSE 0
diskVars == <<last, lock>>
boundVars == <<changes, losses>>

-----------------------------------------------------------------------------
\* The user opens and closes panes.
LayoutChanges ==
  /\ server.up /\ changes < MaxLayouts /\ changes' = changes + 1
  /\ \E l \in {0, changes + 1} \ {server.layout} :
       /\ server' = [server EXCEPT !.layout = l]
       /\ emptied' = (emptied \/ (l = 0 /\ Counted # {}))
  /\ UNCHANGED <<diskVars, op, dump, seen, losses, raced>>

ServerDies ==
  /\ server.up /\ losses < MaxLosses /\ losses' = losses + 1
  /\ server' = [server EXCEPT !.up = FALSE]
  /\ emptied' = (emptied \/ Counted # {})
  /\ UNCHANGED <<diskVars, op, dump, seen, changes, raced>>

\* systemd starts it again once the start-post command is over, and runs that.
ServerStarts ==
  /\ ~server.up /\ op[PostStart] = "idle"
  /\ server' = [up |-> TRUE, layout |-> 0, latched |-> FALSE]
  /\ Goto(PostStart, "due")
  /\ UNCHANGED <<diskVars, dump, seen, boundVars, raced, emptied>>

\* An invocation is killed (the runtime's, systemd's or the tool's timeout, the
\* OOM killer); a lock it holds stays.
KilledMidway(o) ==
  /\ op[o] \notin {"idle", "due"} /\ losses < MaxLosses /\ losses' = losses + 1
  /\ Goto(o, "idle")
  /\ UNCHANGED <<server, diskVars, dump, seen, changes, raced, emptied>>

-----------------------------------------------------------------------------
(* withLock: mkdir until it succeeds, evicting a lock older than 90 s.  The *)
(* holder's script has a timeout of at most 45 s, so only a lock whose      *)
(* holder is gone gets that old.                                            *)

Inside == {o \in Ops : op[o] \in {"script", "read"}}

LockAges ==
  /\ lock.owner # NoSave /\ ~lock.old /\ lock.owner \notin Inside
  /\ lock' = [lock EXCEPT !.old = TRUE]
  /\ UNCHANGED <<server, last, op, dump, seen, boundVars, raced, emptied>>

MakeLock(o) ==
  /\ op[o] = "waiting" /\ lock = Free
  /\ lock' = [owner |-> o, old |-> FALSE] /\ Goto(o, "script")
  /\ UNCHANGED <<server, last, dump, seen, boundVars, raced, emptied>>

\* Variant: no lock is ever evicted.
NoLockOld == FALSE

LockOld == lock.old

SeeOldLock(o) ==
  /\ op[o] = "waiting" /\ LockOld
  /\ seen' = seen \cup {o} /\ Goto(o, "evicting")
  /\ UNCHANGED <<server, diskVars, dump, boundVars, raced, emptied>>

\* rmdir removes whatever lock is there now, an evictor's or `finally`'s.
Release == lock' = Free /\ seen' = {}

Evict(o) ==
  /\ op[o] = "evicting" /\ Goto(o, "waiting") /\ Release
  /\ raced' = (raced \/ (lock # Free /\ o \notin seen))
  /\ UNCHANGED <<server, last, dump, boundVars, emptied>>

\* The wait is over: 20 s, none at all for the hook.
GiveUp(o) ==
  /\ op[o] = "waiting" /\ lock # Free /\ ~LockOld
  /\ Goto(o, "idle")
  /\ UNCHANGED <<server, diskVars, dump, seen, boundVars, raced, emptied>>

-----------------------------------------------------------------------------

WorthSaving == Panes # 0

\* save: an empty or dead server is left alone; the hook is debounced by the
\* age of .saved-at, so it may also leave at once.
Save(o) ==
  /\ op[o] = "idle" /\ WorthSaving /\ Goto(o, "counted")
  /\ UNCHANGED <<server, diskVars, dump, seen, boundVars, raced, emptied>>

ToLock(o) ==
  /\ op[o] = "counted"
  /\ \E step \in IF o \in Hooks THEN {"waiting", "idle"} ELSE {"waiting"} : Goto(o, step)
  /\ UNCHANGED <<server, diskVars, dump, seen, boundVars, raced, emptied>>

\* save.sh: the panes are written to a new file, then `last` is pointed at it.
ReadPanes(o) ==
  /\ o \in Saves /\ op[o] = "script"
  /\ dump' = [dump EXCEPT ![o] = Panes] /\ Goto(o, "read")
  /\ UNCHANGED <<server, diskVars, seen, boundVars, raced, emptied>>

Link(o) ==
  /\ o \in Saves /\ op[o] = "read"
  /\ last' = dump[o] /\ Release /\ Goto(o, "idle")
  /\ UNCHANGED <<server, dump, boundVars, raced, emptied>>

\* restore: the latch is shown and set, a source chosen; the tmux commands of
\* a server that has died fail and change nothing.
Restore ==
  /\ op[PostStart] = "due"
  /\ server' = [server EXCEPT !.latched = server.up \/ @]
  /\ Goto(PostStart, IF last = NoSave \/ (server.up /\ server.latched) THEN "idle" ELSE "waiting")
  /\ UNCHANGED <<diskVars, dump, seen, boundVars, raced, emptied>>

\* restore.sh reads `last` and recreates its panes beside those there are
\* already; the environment is seeded again and the agent put in its pane.
RestoreScript ==
  /\ op[PostStart] = "script"
  /\ server' = [server EXCEPT !.layout = IF server.up /\ @ = 0 THEN last ELSE @]
  /\ Release /\ Goto(PostStart, "idle")
  /\ UNCHANGED <<last, dump, boundVars, raced, emptied>>

Working(o) ==
  \/ ToLock(o) \/ MakeLock(o) \/ SeeOldLock(o) \/ Evict(o) \/ GiveUp(o)
  \/ ReadPanes(o) \/ Link(o)

TmuxNext ==
  \/ LayoutChanges \/ ServerDies \/ ServerStarts \/ LockAges \/ Restore \/ RestoreScript
  \/ \E o \in Ops : KilledMidway(o) \/ Working(o)
  \/ \E o \in Saves : Save(o)

\* The timer runs every two minutes while the server does; a hook needs a client.

-----------------------------------------------------------------------------
(* The last good save is what a dead server needs: `last` never names an empty
   layout, unless the panes went between a save's count and its script. *)
LastGood == ~emptied => last # 0

(* One script at a time reads or writes the directory, unless two invocations
   evicted the same old lock. *)
OneScript == ~raced => Cardinality(Inside) <= 1

(* Two overlapping saves never leave the older layout on record. *)
NeverBack ==
  [][last # NoSave /\ ~raced' /\ ~emptied' => last' >= last]_tmuxVars

(* Whatever was killed holding the lock, the layout of a server that stays up
   is on record in the end. *)
SavedAtLast == <>[](server.up /\ server.layout # 0) => <>[](last = server.layout)

(* The layout outlives the server: what is on record is good, is never replaced
   by an older one, and in the end is the newest, whoever died with the lock. *)
LayoutSurvives == [](TmuxTypeOK /\ LastGood) /\ []OneScript /\ NeverBack /\ SavedAtLast
===============================================================================
