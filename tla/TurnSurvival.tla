----------------------------- MODULE TurnSurvival -----------------------------
(***************************************************************************)
(* What the wrapper broker promises of each claude child, without its      *)
(* sockets, sets and timers: a child lives attached to its panel, then may *)
(* be left behind to finish what it owes, and then is dead for good.  Its  *)
(* stdin stays open as long as it owes an answer; leaving it does not      *)
(* interrupt it.  Only the drain's patience (GiveUp) or the loss of the    *)
(* broker itself cuts a turn short.                                        *)
(***************************************************************************)
EXTENDS Naturals

CONSTANTS Child, MaxOwed

VARIABLES
  life,   \* where each child is in its life
  owed,   \* turns submitted and not yet answered
  open    \* may the child still be given turns?

survival == <<life, owed, open>>

Alive(c) == life[c] \in {"attached", "leaving"}

Begin(c) ==
  /\ life[c] = "unborn"
  /\ \/ life' = [life EXCEPT ![c] = "attached"] /\ open' = [open EXCEPT ![c] = TRUE]
     \/ life' = [life EXCEPT ![c] = "leaving"] /\ UNCHANGED open
     \/ life' = [life EXCEPT ![c] = "dead"] /\ UNCHANGED open
  /\ UNCHANGED owed

Submit(c) ==
  /\ life[c] = "attached"
  /\ owed[c] < MaxOwed
  /\ owed' = [owed EXCEPT ![c] = @ + 1]
  /\ UNCHANGED <<life, open>>

Answer(c) ==
  /\ Alive(c) /\ owed[c] > 0
  /\ owed' = [owed EXCEPT ![c] = @ - 1]
  /\ open' = [open EXCEPT ![c] = @ /\ (life[c] = "attached" \/ owed'[c] > 0)]
  /\ UNCHANGED life

Leave(c) ==
  /\ life[c] = "attached"
  /\ life' = [life EXCEPT ![c] = "leaving"]
  /\ open' = [open EXCEPT ![c] = owed[c] > 0]
  /\ UNCHANGED owed

GiveUp(c) ==
  /\ life[c] = "leaving" /\ open[c]
  /\ open' = [open EXCEPT ![c] = FALSE]
  /\ UNCHANGED <<life, owed>>

Die(c) ==
  /\ life[c] \notin {"unborn", "dead"}
  /\ life' = [life EXCEPT ![c] = "dead"]
  /\ open' = [open EXCEPT ![c] = FALSE]
  /\ UNCHANGED owed

\* The broker is gone: nobody can talk to, or end, the children it had.
LoseBroker ==
  /\ life' = [c \in Child |-> IF Alive(c) THEN "lost" ELSE life[c]]
  /\ open' = [c \in Child |-> FALSE]
  /\ UNCHANGED owed

Init ==
  /\ life = [c \in Child |-> "unborn"]
  /\ owed = [c \in Child |-> 0]
  /\ open = [c \in Child |-> FALSE]

Next ==
  \/ \E c \in Child :
       Begin(c) \/ Submit(c) \/ Answer(c) \/ Leave(c) \/ GiveUp(c) \/ Die(c)
  \/ LoseBroker

Spec == Init /\ [][Next]_survival
=============================================================================
