-------------------------- MODULE ControlPlaneProofs --------------------------
(***************************************************************************)
(* Proofs about the control plane: about the supervisor, for every number  *)
(* of overlapping calls, children and ports, and about the routes, for     *)
(* every set of paths and ports and any order of requests and edits.       *)
(***************************************************************************)
EXTENDS ControlPlane, SequenceTheorems, WellFoundedInduction, TLAPS

-----------------------------------------------------------------------------
\* What holds between requests that come one at a time: at most one start() is
\* in progress; while it resolves there is no child, while it probes there is.
OneAtATime == \A k, l \in InProgress : k = l
Phases ==
  \A k \in Calls :
    /\ call[k] = "resolve" => sup.child = 0 /\ sup.state = "idle"
    /\ call[k] = "probe" => sup.child # 0

\* The inductive invariant.
Orderly == ~lapsed => OneAtATime /\ Phases
SupInv == SupTypeOK /\ HoldsNoDead /\ Orderly /\ RunningIsHeld /\ StatusHonest

SupNext == SupRequest \/ SupEvent

LEMMA NoChildIsZero == 0 \notin Procs
BY SupervisorAssumption DEF Procs

LEMMA SupInitInv == SupInit => SupInv
<1>. SUFFICES ASSUME SupInit PROVE SupInv
  OBVIOUS
<1>1. SupTypeOK
  BY DEF SupInit, SupTypeOK, AppStates
<1>2. HoldsNoDead /\ Orderly /\ StatusHonest
  BY DEF SupInit, HoldsNoDead, Orderly, OneAtATime, Phases, InProgress, StatusHonest
<1>3. RunningIsHeld
  BY DEF SupInit, RunningIsHeld, Up
<1>. QED  BY <1>1, <1>2, <1>3 DEF SupInv

\* A signal changes only the current child, from "up" to "signalled".
LEMMA SignalledOnly ==
  ASSUME SupInv, SignalChild
  PROVE  /\ proc' \in [Procs -> {"unborn", "up", "signalled", "exited", "reaped"}]
         /\ Up' \subseteq forgotten
BY NoChildIsZero DEF SupInv, SupTypeOK, SignalChild, RunningIsHeld, Up

LEMMA ExposeInv == ASSUME SupInv, NEW port \in Ports, Expose(port) PROVE SupInv'
BY NoChildIsZero
DEF Expose, SupInv, SupTypeOK, HoldsNoDead, Orderly, OneAtATime, Phases,
    RunningIsHeld, StatusHonest, InProgress, Up, AppStates

LEMMA StopInv == ASSUME SupInv, Stop PROVE SupInv'
<1>1. SupTypeOK' /\ HoldsNoDead'
  BY SignalledOnly DEF Stop, Arrives, SupInv, SupTypeOK, HoldsNoDead, AppStates, InProgress
<1>2. RunningIsHeld' /\ StatusHonest'
  BY SignalledOnly DEF Stop, Arrives, SupInv, RunningIsHeld, StatusHonest, SupTypeOK
<1>3. Orderly'
  BY DEF Stop, Arrives, SupInv, SupTypeOK, Orderly, OneAtATime, Phases, InProgress
<1>. QED  BY <1>1, <1>2, <1>3 DEF SupInv

LEMMA StartInv ==
  ASSUME SupInv, NEW k \in Calls, NEW port \in Ports \cup {NoPort}, Start(k, port)
  PROVE  SupInv'
<1>1. SupTypeOK' /\ HoldsNoDead'
  BY SignalledOnly DEF Start, Arrives, SupInv, SupTypeOK, HoldsNoDead, AppStates, InProgress
<1>2. RunningIsHeld' /\ StatusHonest'
  BY SignalledOnly DEF Start, Arrives, SupInv, RunningIsHeld, StatusHonest, SupTypeOK
<1>3. Orderly'
  <2>. SUFFICES ASSUME ~lapsed' PROVE OneAtATime' /\ Phases'
    BY DEF Orderly
  <2>1. \A l \in Calls : call[l] = "free"
    BY DEF Start, Arrives, InProgress
  <2>2. call' = [call EXCEPT ![k] = "resolve"] /\ call \in [Calls -> {"free", "resolve", "probe"}]
    BY DEF Start, SupInv, SupTypeOK
  <2>3. sup'.child = 0 /\ sup'.state = "idle"
    BY DEF Start, SupInv, SupTypeOK
  <2>. QED  BY <2>1, <2>2, <2>3 DEF OneAtATime, Phases, InProgress
<1>. QED  BY <1>1, <1>2, <1>3 DEF SupInv

LEMMA NoCommandInv == ASSUME SupInv, NEW k \in Calls, NoCommand(k) PROVE SupInv'
<1>1. SupTypeOK' /\ HoldsNoDead'
  BY DEF NoCommand, SupInv, SupTypeOK, HoldsNoDead, AppStates
<1>2. RunningIsHeld' /\ StatusHonest'
  BY DEF NoCommand, SupInv, SupTypeOK, RunningIsHeld, StatusHonest, Up, Orderly, Phases
<1>3. Orderly'
  <2>. SUFFICES ASSUME ~lapsed PROVE OneAtATime' /\ Phases'
    BY DEF NoCommand, Orderly
  <2>1. \A l \in Calls : l # k => call[l] = "free"
    BY DEF NoCommand, SupInv, Orderly, OneAtATime, InProgress
  <2>. QED  BY <2>1 DEF NoCommand, SupInv, SupTypeOK, OneAtATime, Phases, InProgress
<1>. QED  BY <1>1, <1>2, <1>3 DEF SupInv

LEMMA SpawnInv == ASSUME SupInv, NEW k \in Calls, Spawn(k) PROVE SupInv'
<1>1. PICK p \in Procs :
        /\ proc[p] = "unborn"
        /\ proc' = [proc EXCEPT ![p] = "up"]
        /\ sup' = [sup EXCEPT !.managed = TRUE, !.state = "starting", !.child = p]
  BY DEF Spawn
<1>2. SupTypeOK' /\ HoldsNoDead'
  BY <1>1 DEF Spawn, SupInv, SupTypeOK, HoldsNoDead, AppStates
<1>3. RunningIsHeld' /\ StatusHonest'
  BY <1>1, NoChildIsZero
  DEF Spawn, SupInv, SupTypeOK, RunningIsHeld, StatusHonest, Up, Orderly, Phases
<1>4. Orderly'
  <2>. SUFFICES ASSUME ~lapsed PROVE OneAtATime' /\ Phases'
    BY DEF Spawn, Orderly
  <2>1. \A l \in Calls : l # k => call[l] = "free"
    BY DEF Spawn, SupInv, Orderly, OneAtATime, InProgress
  <2>. QED
    BY <1>1, <2>1, NoChildIsZero
    DEF Spawn, SupInv, SupTypeOK, OneAtATime, Phases, InProgress
<1>. QED  BY <1>2, <1>3, <1>4 DEF SupInv

LEMMA ProbedInv == ASSUME SupInv, NEW k \in Calls, Probed(k) PROVE SupInv'
<1>1. PICK s \in {"running", "starting"} : sup' = [sup EXCEPT !.state = s]
  BY DEF Probed
<1>2. SupTypeOK' /\ HoldsNoDead'
  BY <1>1 DEF Probed, SupInv, SupTypeOK, HoldsNoDead, AppStates
<1>3. RunningIsHeld' /\ StatusHonest'
  BY <1>1 DEF Probed, SupInv, SupTypeOK, RunningIsHeld, StatusHonest, Up, Orderly, Phases
<1>4. Orderly'
  <2>. SUFFICES ASSUME ~lapsed PROVE OneAtATime' /\ Phases'
    BY DEF Probed, Orderly
  <2>1. \A l \in Calls : l # k => call[l] = "free"
    BY DEF Probed, SupInv, Orderly, OneAtATime, InProgress
  <2>. QED
    BY <1>1, <2>1 DEF Probed, SupInv, SupTypeOK, OneAtATime, Phases, InProgress
<1>. QED  BY <1>2, <1>3, <1>4 DEF SupInv

LEMMA ExitInv == ASSUME SupInv, NEW p \in Procs, Exit(p) PROVE SupInv'
<1>1. SupTypeOK' /\ HoldsNoDead'
  BY NoChildIsZero DEF Exit, SupInv, SupTypeOK, HoldsNoDead
<1>2. RunningIsHeld' /\ StatusHonest'
  BY DEF Exit, SupInv, SupTypeOK, RunningIsHeld, StatusHonest, Up
<1>3. Orderly'
  BY DEF Exit, SupInv, Orderly, OneAtATime, Phases, InProgress
<1>. QED  BY <1>1, <1>2, <1>3 DEF SupInv

LEMMA ReapInv == ASSUME SupInv, NEW p \in Procs, Reap(p) PROVE SupInv'
<1>1. SupTypeOK' /\ HoldsNoDead'
  BY DEF Reap, HandleExit, SupInv, SupTypeOK, HoldsNoDead, AppStates
<1>2. RunningIsHeld' /\ StatusHonest'
  BY NoChildIsZero
  DEF Reap, HandleExit, SupInv, SupTypeOK, AppStates, RunningIsHeld, StatusHonest, Up
<1>3. Orderly'
  BY DEF Reap, HandleExit, SupInv, SupTypeOK, Orderly, OneAtATime, Phases, InProgress
<1>. QED  BY <1>1, <1>2, <1>3 DEF SupInv

\* Requests and events of the supervisor keep the invariant, and so do the
\* routes, which do not touch it.
LEMMA SupStep == ASSUME SupInv, [Next]_vars PROVE SupInv'
<1>1. CASE SupNext
  <2>1. CASE SupRequest
    BY <2>1, ExposeInv, StopInv, StartInv DEF SupRequest, Restart
  <2>2. CASE SupEvent
    BY <2>2, NoCommandInv, SpawnInv, ProbedInv, ExitInv, ReapInv DEF SupEvent
  <2>. QED  BY <1>1, <2>1, <2>2 DEF SupNext
<1>2. CASE UNCHANGED supVars
  BY <1>2 DEF supVars, SupInv, SupTypeOK, HoldsNoDead, Orderly, OneAtATime, Phases,
              RunningIsHeld, StatusHonest, InProgress, Up
<1>. QED
  BY <1>1, <1>2 DEF Next, Control, SupNext, vars

\* The supervisor's invariant.
LEMMA SupervisorInvariant == Spec => []SupInv
<1>1. Init => SupInv
  BY SupInitInv DEF Init
<1>. QED  BY <1>1, SupStep, PTL DEF Spec

(* The supervisor and its children agree, in any order of requests and exits: it
   never holds, and so never signals, a child whose exit it has handled; every child
   that runs is the one held or was sent its SIGTERM, but for one whose hold was
   lost to an overlapping start or to a predecessor's late exit (supervisor.js:58);
   and the reported state is true, but from such an event, or an exit during a
   probe, to the next stop or start that comes alone. *)
THEOREM SupervisorHoldsItsApp == Spec => []AppHeld
BY SupervisorInvariant, PTL DEF SupInv, AppHeld

-----------------------------------------------------------------------------
(* Loops over a list.  A recursive function over 0..n is the loop's variable *)
(* after each turn; that there is one, and what it holds, follows by looking *)
(* at the least turn where it would not.                                     *)

\* A set of natural numbers has a least one.
LEMMA Least ==
  ASSUME NEW T \in SUBSET Nat, T # {}
  PROVE  \E m \in T : \A k \in T : m <= k
<1> DEFINE R == OpToRel(<, Nat)
<1>1. \E x \in T : \A y \in T : ~ (<<y, x>> \in R)
  BY NatLessThanWellFounded, WFMin
<1>2. \A x, y \in Nat : ~ (<<y, x>> \in R) => x <= y
  BY DEF OpToRel
<1> HIDE DEF R
<1>3. PICK x \in T : \A y \in T : ~ (<<y, x>> \in R)
  BY <1>1, Zenon
<1>4. \A y \in T : x <= y
  <2> TAKE y \in T
  <2>1. ~ (<<y, x>> \in R)
    BY <1>3, Zenon
  <2> QED BY <1>2, <2>1
<1> QED BY <1>4

\* What holds before the loop and is kept by each turn holds after each turn.
LEMMA ByTurns ==
  ASSUME NEW n \in Nat, NEW H \in SUBSET (0..n), 0 \in H,
         \A i \in 1..n : i - 1 \in H => i \in H
  PROVE  H = 0..n
<1> DEFINE T == {i \in 0..n : i \notin H}
<1>1. SUFFICES ASSUME T # {} PROVE FALSE
  OBVIOUS
<1>2. PICK m \in T : \A k \in T : m <= k
  <2>1. T \in SUBSET Nat
    OBVIOUS
  <2> HIDE DEF T
  <2> QED BY <1>1, <2>1, Least
<1>3. m \in 1..n /\ m - 1 \in 0..n /\ ~ (m <= m - 1)
  BY <1>2
<1>4. m - 1 \in H
  BY <1>2, <1>3
<1> QED BY <1>2, <1>3, <1>4

\* What a loop over 1..n may hold after each turn, its turns given by a function.
LoopOf(n, A, a0, turn) ==
  {g \in [0..n -> A] : g[0] = a0 /\ \A i \in 1..n : g[i] = turn[<<i, g[i - 1]>>]}

LEMMA LoopDefined ==
  ASSUME NEW n \in Nat, NEW A, NEW a0 \in A, NEW turn \in [(1..n) \X A -> A]
  PROVE  LoopOf(n, A, a0, turn) # {}
<1> DEFINE Upto(m, g) == g[0] = a0 /\ \A i \in 1..m : g[i] = turn[<<i, g[i - 1]>>]
           H == {m \in 0..n : \E g \in [0..m -> A] : Upto(m, g)}
<1>1. 0 \in H
  <2> DEFINE h == [i \in 0..0 |-> a0]
  <2>1. h \in [0..0 -> A] /\ h[0] = a0
    OBVIOUS
  <2> HIDE DEF h
  <2> QED BY <2>1
<1>2. ASSUME NEW m \in 1..n, m - 1 \in H PROVE m \in H
  <2>1. PICK g \in [0..(m - 1) -> A] : Upto(m - 1, g)
    BY <1>2
  <2> DEFINE h == [i \in 0..m |-> IF i = m THEN turn[<<m, g[m - 1]>>] ELSE g[i]]
  <2>2. m - 1 \in 0..(m - 1) /\ \A i \in 0..m : i = m \/ i \in 0..(m - 1)
    OBVIOUS
  <2>3. g[m - 1] \in A /\ turn[<<m, g[m - 1]>>] \in A
    BY <2>2
  <2>4. h \in [0..m -> A]
    BY <2>2, <2>3
  <2>5. h[0] = a0
    BY <2>1
  <2>6. \A i \in 1..m : h[i] = turn[<<i, h[i - 1]>>]
    <3> TAKE i \in 1..m
    <3>1. i - 1 \in 0..m /\ i - 1 # m /\ i \in 0..m
      OBVIOUS
    <3>2. h[i - 1] = g[i - 1]
      BY <3>1
    <3>3. CASE i = m
      BY <3>1, <3>2, <3>3
    <3>4. CASE i # m
      <4>1. i \in 1..(m - 1) /\ h[i] = g[i]
        BY <3>1, <3>4
      <4> QED BY <2>1, <3>2, <4>1
    <3> QED BY <3>3, <3>4
  <2> HIDE DEF h
  <2> QED BY <2>4, <2>5, <2>6
<1>3. H = 0..n
  <2> HIDE DEF H
  <2>1. H \in SUBSET (0..n)
    BY DEF H
  <2> QED BY <1>1, <1>2, <2>1, ByTurns
<1>4. \E g \in [0..n -> A] : Upto(n, g)
  BY <1>3
<1> QED BY <1>4 DEF LoopOf

\* A list's rows, with one more.
LEMMA ToSetAppend ==
  ASSUME NEW Row, NEW rs \in Seq(Row), NEW r \in Row
  PROVE  ToSet(Append(rs, r)) = ToSet(rs) \cup {r}
<1> DEFINE n == Len(rs)
           ext == Append(rs, r)
<1>1. /\ n \in Nat /\ DOMAIN rs = 1..n /\ DOMAIN ext = 1..(n + 1)
      /\ \A i \in 1..n : ext[i] = rs[i]
      /\ ext[n + 1] = r
  BY AppendProperties, LenProperties
<1> HIDE DEF n, ext
<1>2. 1..(n + 1) = 1..n \cup {n + 1}
  BY <1>1
<1>3. {ext[i] : i \in 1..(n + 1)} = {rs[i] : i \in 1..n} \cup {r}
  BY <1>1, <1>2
<1> QED BY <1>1, <1>3 DEF ToSet, ext

\* The rows of a list, and what Keep leaves of them.
LEMMA Kept ==
  ASSUME NEW Row, NEW rs \in Seq(Row), NEW S
  PROVE  Keep(rs, S) \in Seq(Row) /\ ToSet(Keep(rs, S)) = ToSet(rs) \cap S
<1> DEFINE n == Len(rs)
           Turn(i, a) == IF rs[i] \in S THEN Append(a, rs[i]) ELSE a
           turn == [x \in (1..n) \X Seq(Row) |-> Turn(x[1], x[2])]
<1>1. n \in Nat /\ DOMAIN rs = 1..n /\ \A i \in 1..n : rs[i] \in Row
  BY LenProperties, ElementOfSeq
<1>2. <<>> \in Seq(Row)
  BY EmptySeq
<1>3. turn \in [(1..n) \X Seq(Row) -> Seq(Row)]
  <2>1. \A i \in 1..n, a \in Seq(Row) : Turn(i, a) \in Seq(Row)
    BY <1>1, AppendProperties
  <2> HIDE DEF Turn
  <2> QED BY <2>1
<1>4. PICK g \in [0..n -> Seq(Row)] :
        g[0] = <<>> /\ \A i \in 1..n : g[i] = turn[<<i, g[i - 1]>>]
  <2>1. LoopOf(n, Seq(Row), <<>>, turn) # {}
    <3> HIDE DEF turn, n
    <3> QED BY <1>1, <1>2, <1>3, LoopDefined
  <2> QED BY <2>1 DEF LoopOf
<1>5. \A i \in 1..n : g[i] = Turn(i, g[i - 1])
  <2> TAKE i \in 1..n
  <2>1. i - 1 \in 0..n /\ g[i - 1] \in Seq(Row)
    BY <1>4
  <2>2. turn[<<i, g[i - 1]>>] = Turn(i, g[i - 1])
    BY <2>1
  <2> QED BY <1>4, <2>2
<1>6. Keep(rs, S) = g[n]
  <2> DEFINE body(h) == [i \in 0..n |-> IF i = 0 THEN <<>> ELSE Turn(i, h[i - 1])]
             f == CHOOSE h : h = body(h)
  <2>1. g = body(g)
    <3>1. \A i \in 0..n : i = 0 \/ i \in 1..n
      BY <1>1
    <3>2. \A i \in 0..n : g[i] = IF i = 0 THEN <<>> ELSE Turn(i, g[i - 1])
      BY <1>4, <1>5, <3>1
    <3> QED BY <1>4, <3>2
  <2>2. f = body(f)
    BY <2>1
  <2>3. \A i \in 0..n : f[i] = IF i = 0 THEN <<>> ELSE Turn(i, f[i - 1])
    BY <2>2
  <2>4. Keep(rs, S) = f[n]
    BY DEF Keep
  <2> HIDE DEF f
  <2> DEFINE H == {i \in 0..n : f[i] = g[i]}
  <2>5. 0 \in H
    BY <1>1, <1>4, <2>3
  <2>6. ASSUME NEW i \in 1..n, i - 1 \in H PROVE i \in H
    BY <1>5, <2>3, <2>6
  <2>7. H = 0..n
    <3>1. H \in SUBSET (0..n)
      OBVIOUS
    <3> HIDE DEF H
    <3> QED BY <1>1, <2>5, <2>6, <3>1, ByTurns
  <2> QED BY <1>1, <2>4, <2>7
<1> DEFINE H == {i \in 0..n : ToSet(g[i]) = {rs[j] : j \in 1..i} \cap S}
<1>7. 0 \in H
  BY <1>1, <1>4 DEF ToSet
<1>8. ASSUME NEW i \in 1..n, i - 1 \in H PROVE i \in H
  <2>1. /\ i \in 0..n /\ g[i - 1] \in Seq(Row) /\ 1..i = 1..(i - 1) \cup {i}
    BY <1>4
  <2>2. ToSet(g[i - 1]) = {rs[j] : j \in 1..(i - 1)} \cap S
    BY <1>8
  <2>3. CASE rs[i] \in S
    <3>1. g[i] = Append(g[i - 1], rs[i])
      BY <1>5, <2>3
    <3>2. ToSet(g[i]) = ToSet(g[i - 1]) \cup {rs[i]}
      BY <1>1, <2>1, <3>1, ToSetAppend
    <3> QED BY <2>1, <2>2, <2>3, <3>2
  <2>4. CASE rs[i] \notin S
    <3>1. g[i] = g[i - 1]
      BY <1>5, <2>4
    <3> QED BY <2>1, <2>2, <2>4, <3>1
  <2> QED BY <2>3, <2>4
<1>9. H = 0..n
  <2>1. H \in SUBSET (0..n)
    OBVIOUS
  <2> HIDE DEF H
  <2> QED BY <1>1, <1>7, <1>8, <2>1, ByTurns
<1>10. ToSet(g[n]) = {rs[j] : j \in 1..n} \cap S
  BY <1>1, <1>9
<1>11. ToSet(rs) = {rs[j] : j \in 1..n}
  BY <1>1 DEF ToSet
<1>12. g[n] \in Seq(Row)
  BY <1>1, <1>4
<1> HIDE DEF n
<1> QED BY <1>6, <1>10, <1>11, <1>12

\* A sequence whose elements are all in a set is a sequence over it.
LEMMA SeqOfThose ==
  ASSUME NEW T, NEW S, NEW s \in Seq(T), \A i \in 1..Len(s) : s[i] \in S
  PROVE  s \in Seq(S)
<1>1. Len(s) \in Nat /\ s \in [1..Len(s) -> T]
  BY LenProperties
<1>2. s \in [1..Len(s) -> S]
  BY <1>1
<1> QED BY <1>1, <1>2, SeqDef

\* A list without rows is empty.
LEMMA NoRows ==
  ASSUME NEW T, NEW s \in Seq(T), ToSet(s) = {}
  PROVE  s = <<>>
<1>1. Len(s) \in Nat /\ DOMAIN s = 1..Len(s)
  BY LenProperties
<1>2. 1 \notin 1..Len(s)
  BY <1>1 DEF ToSet
<1> QED BY <1>1, <1>2, EmptySeq

-----------------------------------------------------------------------------
(* The route that matches.                                                   *)

Row == [prefix : Paths, port : AppPorts \cup {BadPort}]
GoodRow == [prefix : Paths, port : AppPorts]

\* The rows among the first i that match, and the one that should be found.
Hits(path, i) == {j \in 1..i : IsPrefix(table[j].prefix, path)}
Wins(k, S) ==
  \A j \in S \ {k} : \/ Len(table[j].prefix) < Len(table[k].prefix)
                     \/ Len(table[j].prefix) = Len(table[k].prefix) /\ k < j
BestOf(path, i, r) ==
  IF Hits(path, i) = {} THEN r = None ELSE \E k \in Hits(path, i) : r = table[k] /\ Wins(k, Hits(path, i))

\* One turn of match()'s loop keeps the best row among those it has seen.
LEMMA BestTurn ==
  ASSUME table \in Seq(GoodRow), NEW path \in Paths, NEW i \in 1..Len(table),
         NEW b, BestOf(path, i - 1, b)
  PROVE  BestOf(path, i, IF Better(path, table[i], b) THEN table[i] ELSE b)
<1> DEFINE S == Hits(path, i - 1)
           T == Hits(path, i)
<1>1. \A j \in 1..Len(table) : table[j] \in GoodRow /\ Len(table[j].prefix) \in Nat
  <2>1. \A j \in 1..Len(table) : table[j] \in GoodRow
    BY ElementOfSeq
  <2>2. \A q \in Paths : Len(q) \in Nat
    BY RoutesAssumption, LenProperties
  <2> QED BY <2>1, <2>2 DEF GoodRow
<1>2. Len(table) \in Nat /\ i - 1 \in Nat
  BY LenProperties
<1>3. \A j \in 1..Len(table) : table[j] # None
  BY <1>1, RoutesAssumption DEF GoodRow, None
<1>4. T = IF IsPrefix(table[i].prefix, path) THEN S \cup {i} ELSE S
  BY <1>2 DEF Hits
<1>5. S \subseteq 1..(i - 1) /\ S \subseteq 1..Len(table)
  BY <1>2 DEF Hits
<1>6. CASE ~ IsPrefix(table[i].prefix, path)
  BY <1>4, <1>6 DEF Better, BestOf
<1>7. CASE IsPrefix(table[i].prefix, path) /\ S = {}
  <2>1. b = None /\ T = {i}
    BY <1>4, <1>7 DEF BestOf
  <2>2. Wins(i, T)
    BY <2>1 DEF Wins
  <2> QED BY <1>7, <2>1, <2>2 DEF BestOf, Better
<1>8. CASE IsPrefix(table[i].prefix, path) /\ S # {}
  <2>1. PICK k \in S : b = table[k] /\ Wins(k, S)
    BY <1>8 DEF BestOf
  <2> DEFINE lk == Len(table[k].prefix)
             li == Len(table[i].prefix)
  <2>2. /\ T = S \cup {i} /\ T # {} /\ k \in 1..Len(table) /\ k < i /\ i \notin S
        /\ lk \in Nat /\ li \in Nat /\ b # None
        /\ \A j \in S : Len(table[j].prefix) \in Nat /\ j \in 1..(i - 1)
    BY <1>1, <1>2, <1>3, <1>4, <1>5, <1>8, <2>1
  <2>3. Better(path, table[i], b) <=> li > lk
    BY <1>8, <2>1, <2>2 DEF Better, Weight
  <2>4. CASE li > lk
    <3>1. Wins(i, T)
      <4> SUFFICES ASSUME NEW j \in S
                   PROVE  Len(table[j].prefix) < li
        BY <2>2 DEF Wins
      <4>1. j = k \/ Len(table[j].prefix) <= lk
        BY <2>1, <2>2 DEF Wins
      <4> QED BY <2>2, <2>4, <4>1
    <3> QED BY <2>2, <2>3, <2>4, <3>1 DEF BestOf
  <2>5. CASE ~ (li > lk)
    <3>1. Wins(k, T)
      <4> SUFFICES ASSUME NEW j \in T \ {k}
                   PROVE  \/ Len(table[j].prefix) < lk
                          \/ Len(table[j].prefix) = lk /\ k < j
        BY DEF Wins
      <4>1. CASE j = i
        BY <2>2, <2>5, <4>1
      <4>2. CASE j \in S
        BY <2>1, <4>2 DEF Wins
      <4> QED BY <2>2, <4>1, <4>2
    <3> QED BY <2>1, <2>2, <2>3, <2>5, <3>1 DEF BestOf
  <2> QED BY <2>4, <2>5
<1> QED BY <1>6, <1>7, <1>8

\* match() finds the row with the longest prefix, the first of several.
LEMMA MatchBest ==
  ASSUME table \in Seq(GoodRow), NEW path \in Paths
  PROVE  BestOf(path, Len(table), Match(path))
<1> DEFINE n == Len(table)
           A == GoodRow \cup {None}
           Turn(i, a) == IF Better(path, table[i], a) THEN table[i] ELSE a
           turn == [x \in (1..n) \X A |-> Turn(x[1], x[2])]
<1>1. n \in Nat /\ \A i \in 1..n : table[i] \in GoodRow
  BY LenProperties, ElementOfSeq
<1>2. turn \in [(1..n) \X A -> A] /\ None \in A
  BY <1>1
<1>3. PICK g \in [0..n -> A] :
        g[0] = None /\ \A i \in 1..n : g[i] = turn[<<i, g[i - 1]>>]
  <2>1. LoopOf(n, A, None, turn) # {}
    <3> HIDE DEF turn, n, A
    <3> QED BY <1>1, <1>2, LoopDefined
  <2> QED BY <2>1 DEF LoopOf
<1>4. \A i \in 1..n : g[i] = Turn(i, g[i - 1])
  <2> TAKE i \in 1..n
  <2>1. i - 1 \in 0..n /\ g[i - 1] \in A
    BY <1>1, <1>3
  <2>2. turn[<<i, g[i - 1]>>] = Turn(i, g[i - 1])
    BY <2>1
  <2> QED BY <1>3, <2>2
<1> DEFINE body(h) == [i \in 0..n |-> IF i = 0 THEN None ELSE Turn(i, h[i - 1])]
           f == CHOOSE h : h = body(h)
<1>5. g = body(g)
  <2>1. \A i \in 0..n : i = 0 \/ i \in 1..n
    BY <1>1
  <2>2. \A i \in 0..n : g[i] = IF i = 0 THEN None ELSE Turn(i, g[i - 1])
    BY <1>3, <1>4, <2>1
  <2> QED BY <1>3, <2>2
<1>6. f = body(f)
  BY <1>5
<1>7. \A i \in 0..n : f[i] = IF i = 0 THEN None ELSE Turn(i, f[i - 1])
  BY <1>6
<1>8. Match(path) = f[n]
  BY DEF Match
<1> HIDE DEF f, n
<1> DEFINE H == {i \in 0..n : BestOf(path, i, f[i])}
<1>9. 0 \in H
  <2>1. 0 \in 0..n
    BY <1>1
  <2>2. f[0] = None
    BY <1>7, <2>1, Zenon
  <2>3. Hits(path, 0) = {}
    BY DEF Hits
  <2> QED BY <2>1, <2>2, <2>3 DEF BestOf
<1>10. ASSUME NEW i \in 1..n, i - 1 \in H PROVE i \in H
  <2>1. i \in 0..n /\ f[i] = Turn(i, f[i - 1]) /\ BestOf(path, i - 1, f[i - 1])
    BY <1>1, <1>7, <1>10
  <2>2. BestOf(path, i, Turn(i, f[i - 1]))
    BY <2>1, BestTurn DEF n
  <2> QED BY <2>1, <2>2
<1>11. H = 0..n
  <2>1. H \in SUBSET (0..n)
    OBVIOUS
  <2> HIDE DEF H
  <2> QED BY <1>1, <1>9, <1>10, <2>1, ByTurns
<1>12. BestOf(path, n, f[n])
  BY <1>1, <1>11
<1> QED BY <1>8, <1>12 DEF n

\* A prefix and the rest that is sent downstream are the path.
LEMMA PathSplit ==
  ASSUME NEW path \in Paths, NEW r \in GoodRow, IsPrefix(r.prefix, path)
  PROVE  r.prefix \o Downstream(path, r) = path
<1> DEFINE q == r.prefix
<1>1. path \in Seq(STRING) /\ q \in Seq(STRING)
  BY RoutesAssumption DEF GoodRow
<1>2. Len(path) \in Nat /\ Len(q) \in Nat /\ Len(q) <= Len(path)
  BY <1>1, LenProperties DEF IsPrefix
<1>3. q = SubSeq(path, 1, Len(q))
  BY <1>1, SubSeqFull DEF IsPrefix
<1>4. SubSeq(path, 1, Len(q)) \o SubSeq(path, Len(q) + 1, Len(path)) = SubSeq(path, 1, Len(path))
  <2> DEFINE k == Len(q)
             l == Len(path)
  <2>1. 1 \in 1..(l + 1) /\ k \in (1 - 1)..l /\ l \in k..l
    BY <1>2
  <2> HIDE DEF k, l, q
  <2>2. \A m \in 1..(l + 1) : \A x \in (m - 1)..l : \A y \in x..l :
          SubSeq(path, m, x) \o SubSeq(path, x + 1, y) = SubSeq(path, m, y)
    BY <1>1, ConcatAdjacentSubSeq DEF l
  <2> QED BY <2>1, <2>2 DEF k, l
<1>5. SubSeq(path, 1, Len(path)) = path
  BY <1>1, SubSeqFull
<1> QED BY <1>3, <1>4, <1>5 DEF Downstream

LEMMA Longest ==
  ASSUME table \in Seq(GoodRow)
  PROVE  LongestWins
<1> SUFFICES ASSUME NEW path \in Paths
             PROVE  LET hits == {i \in DOMAIN table : IsPrefix(table[i].prefix, path)} IN
                    IF hits = {} THEN Match(path) = None
                    ELSE LET i == CHOOSE i \in hits : Wins(i, hits)
                         IN  Match(path) = table[i] /\ table[i].prefix \o Downstream(path, table[i]) = path
  BY DEF LongestWins, Wins
<1> DEFINE hits == {i \in DOMAIN table : IsPrefix(table[i].prefix, path)}
           i == CHOOSE i \in hits : Wins(i, hits)
<1>1. /\ Len(table) \in Nat /\ DOMAIN table = 1..Len(table)
      /\ \A j \in 1..Len(table) : table[j] \in GoodRow /\ Len(table[j].prefix) \in Nat
  <2>1. \A j \in 1..Len(table) : table[j] \in GoodRow
    BY ElementOfSeq
  <2>2. \A q \in Paths : Len(q) \in Nat
    BY RoutesAssumption, LenProperties
  <2> QED BY <2>1, <2>2, LenProperties DEF GoodRow
<1>2. hits = Hits(path, Len(table))
  BY <1>1 DEF Hits
<1>3. BestOf(path, Len(table), Match(path))
  BY MatchBest
<1> HIDE DEF hits
<1>4. CASE hits = {}
  BY <1>2, <1>3, <1>4 DEF BestOf, hits
<1>5. CASE hits # {}
  <2>1. PICK k \in hits : Match(path) = table[k] /\ Wins(k, hits)
    BY <1>2, <1>3, <1>5 DEF BestOf
  <2>2. i \in hits /\ Wins(i, hits)
    BY <2>1
  <2> HIDE DEF i
  <2>3. /\ \A j \in hits : table[j] \in GoodRow /\ Len(table[j].prefix) \in Nat /\ j \in Nat
        /\ IsPrefix(table[i].prefix, path)
    BY <1>1, <2>2 DEF hits
  <2>4. i = k
    BY <2>1, <2>2, <2>3 DEF Wins
  <2>5. table[i].prefix \o Downstream(path, table[i]) = path
    BY <2>2, <2>3, PathSplit
  <2> QED BY <1>5, <2>1, <2>4, <2>5 DEF hits, i
<1> QED BY <1>4, <1>5

-----------------------------------------------------------------------------
(* The table, the file and the editor.                                       *)

RoutesShape ==
  /\ table \in Seq(GoodRow)
  /\ file \in [state : {"whole", "torn", "absent"}, rows : Seq(Row)]
  /\ stamp \in Nat /\ seen \in 0..stamp /\ edits \in 0..MaxEdits
  /\ edit \in [step : {"closed", "open", "truncated"}, prefix : Paths \cup {<<>>},
               rows : Seq(Row)]
  /\ edit.step # "closed" => edit.prefix \in Paths
  /\ owned \in [Paths -> SUBSET AppPorts] /\ clashed \in BOOLEAN

\* The ports of a single row.
Only(port) == {port} \ {BadPort}

\* The table is the file's once the watcher has seen the last change.  Until the
\* API has written over an edit, the file says what was asked for, and the
\* editor's rows what will have been.
Synced == seen = stamp => table = Loaded
Told ==
  ~ clashed =>
    /\ edit.step # "truncated" => \A p \in Paths : PortsOf(file.rows, p) = owned[p]
    /\ edit.step # "closed" =>
         \A p \in Paths \ {edit.prefix} : PortsOf(edit.rows, p) = owned[p]
    /\ edit.step = "truncated" => file = Torn

RoutesInv == RoutesShape /\ Synced /\ Told

\* Loading the file yields rows with valid ports, and gives each prefix the
\* ports the file gives it.
LEMMA LoadedPorts ==
  ASSUME RoutesShape
  PROVE  /\ Loaded \in Seq(GoodRow)
         /\ \A p \in Paths : PortsOf(Loaded, p) = PortsOf(file.rows, p)
<1> DEFINE rs == file.rows
           S == {r \in ToSet(rs) : r.port # BadPort}
<1>1. rs \in Seq(Row)
  BY DEF RoutesShape
<1>2. Loaded \in Seq(Row) /\ ToSet(Loaded) = ToSet(rs) \cap S
  BY <1>1, Kept DEF Loaded
<1>3. \A i \in 1..Len(Loaded) : Loaded[i] \in GoodRow
  <2> TAKE i \in 1..Len(Loaded)
  <2>1. Loaded[i] \in Row /\ DOMAIN Loaded = 1..Len(Loaded)
    BY <1>2, ElementOfSeq, LenProperties
  <2>2. Loaded[i] \in ToSet(Loaded)
    BY <2>1 DEF ToSet
  <2>3. Loaded[i].port # BadPort
    BY <1>2, <2>2
  <2> QED BY <2>1, <2>3 DEF Row, GoodRow
<1>4. Loaded \in Seq(GoodRow)
  BY <1>2, <1>3, SeqOfThose
<1>5. \A p \in Paths : PortsOf(Loaded, p) = PortsOf(rs, p)
  <2> HIDE DEF rs
  <2> QED BY <1>2 DEF PortsOf
<1> QED BY <1>4, <1>5

\* Replacing a prefix's route gives that prefix the new port, and the others
\* what they had.
LEMMA Replaced ==
  ASSUME NEW rs \in Seq(Row), NEW p \in Paths, NEW port \in AppPorts \cup {BadPort}
  PROVE  /\ Append(Without(rs, p), Route(p, port)) \in Seq(Row)
         /\ Without(rs, p) \in Seq(Row)
         /\ \A q \in Paths : PortsOf(Without(rs, p), q) = IF q = p THEN {} ELSE PortsOf(rs, q)
         /\ \A q \in Paths : PortsOf(Append(Without(rs, p), Route(p, port)), q)
                             = IF q = p THEN Only(port) ELSE PortsOf(rs, q)
<1> DEFINE ws == Without(rs, p)
           S == {r \in ToSet(rs) : r.prefix # p}
           new == Route(p, port)
<1>1. ws \in Seq(Row) /\ ToSet(ws) = ToSet(rs) \cap S
  BY Kept DEF Without
<1>2. ToSet(ws) = S
  BY <1>1
<1>3. new \in Row /\ new.prefix = p /\ new.port = port
  BY DEF Route, Row
<1> HIDE DEF ws, new
<1>4. Append(ws, new) \in Seq(Row)
  BY <1>1, <1>3, AppendProperties
<1>5. ToSet(Append(ws, new)) = S \cup {new}
  BY <1>1, <1>2, <1>3, ToSetAppend
<1>6. \A q \in Paths : PortsOf(ws, q) = IF q = p THEN {} ELSE PortsOf(rs, q)
  BY <1>2 DEF PortsOf
<1>7. \A q \in Paths : PortsOf(Append(ws, new), q) = IF q = p THEN Only(port) ELSE PortsOf(rs, q)
  BY <1>3, <1>5 DEF PortsOf, Only
<1> QED BY <1>1, <1>4, <1>6, <1>7 DEF ws, new

\* One more row for a prefix leaves the other prefixes what they had.
LEMMA Added ==
  ASSUME NEW rs \in Seq(Row), NEW p \in Paths, NEW port \in AppPorts \cup {BadPort}
  PROVE  /\ Append(rs, Route(p, port)) \in Seq(Row)
         /\ \A q \in Paths \ {p} : PortsOf(Append(rs, Route(p, port)), q) = PortsOf(rs, q)
<1> DEFINE new == Route(p, port)
<1>1. new \in Row /\ new.prefix = p
  BY DEF Route, Row
<1> HIDE DEF new
<1>2. Append(rs, new) \in Seq(Row) /\ ToSet(Append(rs, new)) = ToSet(rs) \cup {new}
  BY <1>1, AppendProperties, ToSetAppend
<1>3. \A q \in Paths \ {p} : PortsOf(Append(rs, new), q) = PortsOf(rs, q)
  BY <1>1, <1>2 DEF PortsOf
<1> QED BY <1>2, <1>3 DEF new

\* The ports a list of rows gives are ports.
LEMMA PortsAreValid ==
  ASSUME NEW rs \in Seq(Row), NEW p
  PROVE  PortsOf(rs, p) \in SUBSET AppPorts
<1>1. \A r \in ToSet(rs) : r \in Row
  <2>1. DOMAIN rs = 1..Len(rs)
    BY LenProperties
  <2> QED BY <2>1, ElementOfSeq DEF ToSet
<1> QED BY <1>1 DEF PortsOf, Row

\* The same for a table of valid rows.
LEMMA ReplacedGood ==
  ASSUME NEW rs \in Seq(GoodRow), NEW p \in Paths, NEW port \in AppPorts
  PROVE  Without(rs, p) \in Seq(GoodRow) /\ Append(Without(rs, p), Route(p, port)) \in Seq(GoodRow)
<1>1. Without(rs, p) \in Seq(GoodRow)
  BY Kept DEF Without
<1>2. Route(p, port) \in GoodRow
  BY DEF Route, GoodRow
<1> QED BY <1>1, <1>2, AppendProperties

\* Valid rows are rows.
LEMMA GoodIsRow == \A rs \in Seq(GoodRow) : rs \in Seq(Row)
<1>1. GoodRow \subseteq Row
  BY DEF GoodRow, Row
<1> QED BY <1>1, SeqMonotonic

LEMMA RoutesInitInv == RoutesInit => RoutesInv
<1> SUFFICES ASSUME RoutesInit PROVE RoutesInv
  OBVIOUS
<1>1. RoutesShape
  <2>1. <<>> \in Seq(Row) /\ <<>> \in Seq(GoodRow)
    BY EmptySeq
  <2>2. file \in [state : {"whole", "torn", "absent"}, rows : Seq(Row)]
    BY <2>1 DEF RoutesInit, Absent
  <2>3. edit \in [step : {"closed", "open", "truncated"}, prefix : Paths \cup {<<>>},
                  rows : Seq(Row)]
    BY <2>1 DEF RoutesInit
  <2>4. edit.step = "closed" /\ MaxEdits \in Nat
    BY RoutesAssumption DEF RoutesInit
  <2>5. /\ table = <<>> /\ stamp = 0 /\ seen = 0 /\ edits = 0
        /\ owned = [p \in Paths |-> {}] /\ clashed = FALSE
    BY DEF RoutesInit
  <2>6. owned \in [Paths -> SUBSET AppPorts] /\ clashed \in BOOLEAN
    BY <2>5
  <2>7. 0 \in Nat /\ 0 \in 0..0 /\ 0 \in 0..MaxEdits
    BY <2>4
  <2> QED BY <2>1, <2>2, <2>3, <2>4, <2>5, <2>6, <2>7 DEF RoutesShape
<1>2. ToSet(<<>>) = {}
  BY DEF ToSet
<1>3. Synced
  <2>1. Loaded \in Seq(Row) /\ ToSet(Loaded) = {}
    BY <1>2, EmptySeq, Kept DEF RoutesInit, Absent, Loaded
  <2>2. Loaded = <<>>
    BY <2>1, NoRows
  <2> QED BY <2>2 DEF Synced, RoutesInit
<1>4. Told
  BY <1>2 DEF RoutesInit, Told, Absent, PortsOf
<1> QED BY <1>1, <1>3, <1>4 DEF RoutesInv

\* The API writes the table out, with one prefix's route changed.
LEMMA ApiKeeps ==
  ASSUME RoutesInv, NEW p \in Paths,
         \/ \E port \in AppPorts : RouteAdd(p, port)
         \/ RouteRemove(p)
  PROVE  RoutesInv'
<1>1. PICK rs \in Seq(GoodRow), ports \in SUBSET AppPorts :
        /\ \A q \in Paths : PortsOf(rs, q) = IF q = p THEN ports ELSE PortsOf(table, q)
        /\ Save(rs) /\ Clash
        /\ owned' = [owned EXCEPT ![p] = ports]
        /\ UNCHANGED <<seen, edit, edits>>
  <2>1. table \in Seq(GoodRow) /\ table \in Seq(Row)
    BY GoodIsRow DEF RoutesInv, RoutesShape
  <2>2. CASE \E port \in AppPorts : RouteAdd(p, port)
    <3>1. PICK port \in AppPorts : RouteAdd(p, port)
      BY <2>2
    <3> DEFINE rs == Append(Without(table, p), Route(p, port))
    <3>2. rs \in Seq(GoodRow)
      BY <2>1, ReplacedGood
    <3>3. \A q \in Paths : PortsOf(rs, q) = IF q = p THEN {port} ELSE PortsOf(table, q)
      BY <2>1, Replaced, RoutesAssumption DEF Only
    <3>4. /\ Save(rs) /\ Clash
          /\ owned' = [owned EXCEPT ![p] = {port}]
          /\ UNCHANGED <<seen, edit, edits>>
      BY <3>1 DEF RouteAdd, Add
    <3> HIDE DEF rs
    <3> QED BY <3>2, <3>3, <3>4
  <2>3. CASE RouteRemove(p)
    <3>2. \A q \in Paths : PortsOf(Without(table, p), q)
                           = IF q = p THEN {} ELSE PortsOf(table, q)
      BY <2>1, Replaced
    <3>3. Without(table, p) \in Seq(GoodRow)
      BY <2>1, Kept DEF Without
    <3>4. /\ Save(Without(table, p)) /\ Clash
          /\ owned' = [owned EXCEPT ![p] = {}]
          /\ UNCHANGED <<seen, edit, edits>>
      BY <2>3 DEF RouteRemove
    <3> QED BY <3>2, <3>3, <3>4
  <2> QED BY <2>2, <2>3
<1>2. table' = rs /\ file' = Whole(rs) /\ stamp' = stamp + 1
  BY <1>1 DEF Save
<1>3. clashed' = (clashed \/ edit.step # "closed" \/ table # Loaded)
  BY <1>1 DEF Clash
<1>4. RoutesShape'
  <2>1. rs \in Seq(Row) /\ file'.rows = rs
    BY <1>1, <1>2, GoodIsRow DEF Whole
  <2>2. file' \in [state : {"whole", "torn", "absent"}, rows : Seq(Row)]
    BY <1>2, <2>1 DEF Whole
  <2>3. clashed' \in BOOLEAN
    BY <1>3
  <2> QED BY <1>1, <1>2, <2>2, <2>3 DEF RoutesInv, RoutesShape
<1>5. Synced'
  BY <1>1, <1>2 DEF RoutesInv, RoutesShape, Synced
<1>6. Told'
  <2> SUFFICES ASSUME ~ clashed' PROVE \A q \in Paths : PortsOf(rs, q) = owned'[q]
    <3>1. ~ clashed' => edit'.step = "closed"
      BY <1>1, <1>3
    <3> QED BY <1>2, <3>1 DEF Told, Whole
  <2>1. ~ clashed /\ edit.step = "closed" /\ table = Loaded
    BY <1>3
  <2>2. \A q \in Paths : PortsOf(table, q) = owned[q]
    BY <2>1, LoadedPorts DEF RoutesInv, Told
  <2> QED BY <1>1, <2>2 DEF RoutesInv, RoutesShape
<1> QED BY <1>4, <1>5, <1>6 DEF RoutesInv

LEMMA EditOpenKeeps ==
  ASSUME RoutesInv, NEW p \in Paths, NEW port \in AppPorts \cup {BadPort}, EditOpen(p, port)
  PROVE  RoutesInv'
<1>1. /\ edit.step = "closed" /\ edits < MaxEdits /\ edits' = edits + 1
      /\ UNCHANGED <<table, file, stamp, seen, owned, clashed>>
  BY DEF EditOpen
<1>2. PICK rs \in Seq(Row) :
        /\ edit' = [step |-> "open", prefix |-> p, rows |-> rs]
        /\ \A q \in Paths \ {p} : PortsOf(rs, q) = PortsOf(file.rows, q)
  <2>1. PICK rows \in {file.rows, Without(file.rows, p)} :
          edit' = [step |-> "open", prefix |-> p, rows |-> Append(rows, Route(p, port))]
    BY DEF EditOpen
  <2>2. file.rows \in Seq(Row)
    BY DEF RoutesInv, RoutesShape
  <2>3. rows \in Seq(Row) /\ \A q \in Paths \ {p} : PortsOf(rows, q) = PortsOf(file.rows, q)
    BY <2>1, <2>2, Replaced
  <2>4. /\ Append(rows, Route(p, port)) \in Seq(Row)
        /\ \A q \in Paths \ {p} : PortsOf(Append(rows, Route(p, port)), q) = PortsOf(file.rows, q)
    BY <2>3, Added
  <2> QED BY <2>1, <2>4
<1>3. RoutesShape'
  <2>1. edit' \in [step : {"closed", "open", "truncated"}, prefix : Paths \cup {<<>>},
                   rows : Seq(Row)]
    BY <1>1, <1>2
  <2>2. edit'.prefix \in Paths /\ edits' \in 0..MaxEdits
    BY <1>1, <1>2, RoutesAssumption DEF RoutesInv, RoutesShape
  <2> QED BY <1>1, <2>1, <2>2 DEF RoutesInv, RoutesShape
<1>4. Synced'
  BY <1>1 DEF RoutesInv, Synced, Loaded
<1>5. Told'
  BY <1>1, <1>2 DEF RoutesInv, Told
<1> QED BY <1>3, <1>4, <1>5 DEF RoutesInv

LEMMA EditTruncateKeeps ==
  ASSUME RoutesInv, EditTruncate
  PROVE  RoutesInv'
<1>1. /\ edit.step = "open" /\ edit' = [edit EXCEPT !.step = "truncated"]
      /\ file' = Torn /\ stamp' = stamp + 1
      /\ UNCHANGED <<table, seen, edits, owned, clashed>>
  BY DEF EditTruncate
<1>2. /\ edit'.step = "truncated" /\ edit'.rows = edit.rows
      /\ edit'.prefix = edit.prefix
  BY <1>1 DEF RoutesInv, RoutesShape
<1>3. file' \in [state : {"whole", "torn", "absent"}, rows : Seq(Row)]
  BY <1>1, EmptySeq DEF Torn
<1>4. RoutesShape'
  <2>1. edit' \in [step : {"closed", "open", "truncated"}, prefix : Paths \cup {<<>>},
                   rows : Seq(Row)]
    BY <1>1 DEF RoutesInv, RoutesShape
  <2>2. stamp' \in Nat /\ seen' \in 0..stamp'
    BY <1>1 DEF RoutesInv, RoutesShape
  <2> QED BY <1>1, <1>2, <1>3, <2>1, <2>2 DEF RoutesInv, RoutesShape
<1>5. Synced'
  BY <1>1 DEF RoutesInv, RoutesShape, Synced
<1>6. Told'
  BY <1>1, <1>2 DEF RoutesInv, Told
<1> QED BY <1>4, <1>5, <1>6 DEF RoutesInv

LEMMA EditWriteKeeps ==
  ASSUME RoutesInv, EditWrite
  PROVE  RoutesInv'
<1>1. /\ edit.step = "truncated" /\ edit' = [edit EXCEPT !.step = "closed"]
      /\ file' \in {Whole(edit.rows), Torn}
      /\ file = Torn => file' = Whole(edit.rows)
      /\ stamp' = stamp + 1
      /\ owned' = [owned EXCEPT ![edit.prefix] = PortsOf(edit.rows, edit.prefix)]
      /\ UNCHANGED <<table, seen, edits, clashed>>
  BY DEF EditWrite
<1>2. edit'.step = "closed" /\ edit.prefix \in Paths /\ edit.rows \in Seq(Row)
  BY <1>1 DEF RoutesInv, RoutesShape
<1>3. file' \in [state : {"whole", "torn", "absent"}, rows : Seq(Row)]
  <2>1. Whole(edit.rows) \in [state : {"whole", "torn", "absent"}, rows : Seq(Row)]
    BY <1>2 DEF Whole
  <2>2. Torn \in [state : {"whole", "torn", "absent"}, rows : Seq(Row)]
    BY EmptySeq DEF Torn
  <2> QED BY <1>1, <2>1, <2>2
<1>4. RoutesShape'
  <2>1. edit' \in [step : {"closed", "open", "truncated"}, prefix : Paths \cup {<<>>},
                   rows : Seq(Row)]
    BY <1>1 DEF RoutesInv, RoutesShape
  <2>2. stamp' \in Nat /\ seen' \in 0..stamp'
    BY <1>1 DEF RoutesInv, RoutesShape
  <2>3. owned' \in [Paths -> SUBSET AppPorts]
    BY <1>1, <1>2, PortsAreValid DEF RoutesInv, RoutesShape
  <2> QED BY <1>1, <1>2, <1>3, <2>1, <2>2, <2>3 DEF RoutesInv, RoutesShape
<1>5. Synced'
  BY <1>1 DEF RoutesInv, RoutesShape, Synced
<1>6. Told'
  <2> SUFFICES ASSUME ~ clashed
               PROVE  \A q \in Paths : PortsOf(file'.rows, q) = owned'[q]
    BY <1>1, <1>2 DEF Told
  <2>1. file'.rows = edit.rows
    BY <1>1 DEF RoutesInv, Told, Whole
  <2>2. \A q \in Paths \ {edit.prefix} : PortsOf(edit.rows, q) = owned[q]
    BY <1>1 DEF RoutesInv, Told
  <2>3. \A q \in Paths : owned'[q] = IF q = edit.prefix THEN PortsOf(edit.rows, q) ELSE owned[q]
    BY <1>1, <1>2 DEF RoutesInv, RoutesShape
  <2> QED BY <2>1, <2>2, <2>3
<1> QED BY <1>4, <1>5, <1>6 DEF RoutesInv

LEMMA PollKeeps ==
  ASSUME RoutesInv, Poll
  PROVE  RoutesInv'
<1>1. /\ table' = Loaded /\ seen' = stamp
      /\ UNCHANGED <<file, stamp, edit, edits, owned, clashed>>
  BY DEF Poll, PollChanged
<1>2. Loaded' = Loaded
  BY <1>1 DEF Loaded
<1>3. RoutesShape'
  BY <1>1, LoadedPorts DEF RoutesInv, RoutesShape
<1>4. Synced' /\ Told'
  BY <1>1, <1>2 DEF RoutesInv, Synced, Told
<1> QED BY <1>3, <1>4 DEF RoutesInv

LEMMA RoutesStep == RoutesInv /\ [Next]_vars => RoutesInv'
<1> SUFFICES ASSUME RoutesInv, [Next]_vars PROVE RoutesInv'
  OBVIOUS
<1>1. CASE RoutesRequest
  BY <1>1, ApiKeeps DEF RoutesRequest
<1>2. CASE RoutesEvent
  BY <1>2, EditOpenKeeps, EditTruncateKeeps, EditWriteKeeps, PollKeeps DEF RoutesEvent
<1>3. CASE UNCHANGED routesVars
  <2>1. UNCHANGED <<table, file, stamp, seen, edit, edits, owned, clashed>>
    BY <1>3 DEF routesVars
  <2>2. Loaded' = Loaded
    BY <2>1 DEF Loaded
  <2> QED BY <2>1, <2>2 DEF RoutesInv, RoutesShape, Synced, Told
<1> QED BY <1>1, <1>2, <1>3 DEF Next, Control, vars

\* At rest each prefix has the ports it was last given.
LEMMA NothingIsLost ==
  ASSUME RoutesInv
  PROVE  NothingLost
<1> SUFFICES ASSUME ~ clashed, edit.step = "closed", seen = stamp, NEW p \in Paths
             PROVE  PortsOf(table, p) = owned[p]
  BY DEF NothingLost
<1>1. table = Loaded
  BY DEF RoutesInv, Synced
<1> QED BY <1>1, LoadedPorts DEF RoutesInv, Told

LEMMA Typed ==
  ASSUME SupInv, RoutesInv, ops \in 0..MaxOps
  PROVE  TypeOK
<1>1. RoutesTypeOK
  <2>1. \A i \in DOMAIN table : table[i].prefix \in Paths /\ table[i].port \in AppPorts
    <3>1. table \in Seq(GoodRow) /\ DOMAIN table = 1..Len(table)
      BY LenProperties DEF RoutesInv, RoutesShape
    <3>2. \A i \in DOMAIN table : table[i] \in GoodRow
      BY <3>1, ElementOfSeq
    <3> QED BY <3>2 DEF GoodRow
  <2> QED BY <2>1 DEF RoutesInv, RoutesShape, RoutesTypeOK
<1> QED BY <1>1 DEF SupInv, TypeOK

(* A request goes where the routes that were asked for say, for any paths, ports,
   edits of the file and order of events (routes.js, router.js:43-95,
   upgrade.js): the longest prefix decides, for a page and its WebSocket alike,
   nothing that was set is lost unless the API wrote over an edit, and no route
   hides the runtime's own paths. *)
THEOREM RequestsGoWhereAsked == Spec => []RoutesHonest
<1>1. Init => SupInv /\ RoutesInv /\ ops \in 0..MaxOps
  BY SupInitInv, RoutesInitInv, ControlAssumption DEF Init
<1>2. ops \in 0..MaxOps /\ [Next]_vars => (ops \in 0..MaxOps)'
  BY ControlAssumption DEF Next, Control, vars
<1>3. SupInv /\ [Next]_vars => SupInv'
  BY SupStep
<1>4. SupInv /\ RoutesInv /\ ops \in 0..MaxOps => RoutesHonest
  <2> SUFFICES ASSUME SupInv, RoutesInv, ops \in 0..MaxOps PROVE RoutesHonest
    OBVIOUS
  <2>1. TypeOK
    BY Typed
  <2>2. LongestWins
    BY Longest DEF RoutesInv, RoutesShape
  <2>3. NothingLost
    BY NothingIsLost
  <2>4. ReservedStays
    BY DEF ReservedStays, Handle, To
  <2>5. SameUpstream
    BY DEF SameUpstream, Handle, HandleUpgrade, AppTarget, WsTarget, To
  <2> QED BY <2>1, <2>2, <2>3, <2>4, <2>5 DEF RoutesHonest
<1> QED BY <1>1, <1>2, <1>3, <1>4, RoutesStep, PTL DEF Spec
===============================================================================
