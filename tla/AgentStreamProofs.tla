-------------------------- MODULE AgentStreamProofs --------------------------
(***************************************************************************)
(* What the stream promises its readers, for any readers, cap, sizes and   *)
(* bounds.  The argument: what is on its way to a connected reader is a    *)
(* run of consecutive entries that starts right after its cursor (or at    *)
(* the oldest entry kept when it connected) and ends with the last entry   *)
(* recorded.                                                               *)
(***************************************************************************)
EXTENDS AgentStream, SequenceTheorems, FiniteSetTheorems, TLAPS

\* The types the argument uses (not byteSize's, which needs the count).
Shape ==
  /\ boot \in Nat \ {0} /\ sizes \in Seq(Sizes)
  /\ first \in Nat \ {0}
  /\ first <= (IF sizes = <<>> THEN 1 ELSE Len(sizes))
  /\ opened \in 0..MaxConns
  /\ readers \subseteq 1..opened
  /\ base \in [Conns -> Nat] /\ cboot \in [Conns -> Nat]
  /\ hello \in [Conns -> BOOLEAN] /\ wire \in [Conns -> Seq(Nat \ {0})]
  /\ cur \in [Readers -> 0..MaxConns]
  /\ after \in [Readers -> Nat] /\ pboot \in [Readers -> Nat]

\* A cursor of this boot is not past the last entry.
Cursors ==
  \A p \in Pumps :
    /\ pboot[p] <= boot
    /\ pboot[p] = boot => after[p] <= Len(sizes)
    /\ pboot[p] = 0 => after[p] = 0

\* A connection belongs to one reader, is subscribed if it is of this boot,
\* and after the hello its pump is on its boot.
Attached ==
  \A r \in Readers : cur[r] # 0 =>
    LET c == cur[r] IN
    /\ c \in 1..opened
    /\ \A q \in Readers : cur[q] = c => q = r
    /\ cboot[c] \in 1..boot
    /\ c \in readers <=> cboot[c] = boot
    /\ r \in Tabs => ~ hello[c]
    /\ r \in Pumps /\ ~ hello[c] => pboot[r] = cboot[c]

\* A reader about to be told that its cursor is another boot's.
Stale(r) == hello[cur[r]] /\ pboot[r] \notin {0, cboot[cur[r]]}

\* w follows cursor a, for a connection made when entry b was the oldest.
Follows(w, a, b) ==
  /\ \A i \in 1..Len(w) : w[i] = w[1] + i - 1
  /\ Len(w) > 0 => w[1] > a /\ (w[1] = a + 1 \/ w[1] <= b)

\* w leads from cursor a to entry n.
LeadsTo(w, a, n) == IF Len(w) = 0 THEN a = n ELSE w[Len(w)] = n

OnItsWay ==
  \A r \in Readers : cur[r] # 0 /\ ~ Stale(r) =>
    /\ Follows(wire[cur[r]], after[r], base[cur[r]])
    /\ cboot[cur[r]] = boot => LeadsTo(wire[cur[r]], after[r], Len(sizes))

IInv == Shape /\ Cursors /\ Attached /\ OnItsWay

-----------------------------------------------------------------------------
(* Sequences of consecutive entries.                                       *)

\* What is left of a run when its first entry is taken follows that entry and
\* leads to the same one.
LEMMA RunTail ==
  ASSUME NEW w \in Seq(Nat \ {0}), w # <<>>, NEW a \in Nat, NEW b \in Nat,
         Follows(w, a, b)
  PROVE  /\ Tail(w) \in Seq(Nat \ {0}) /\ Head(w) \in Nat \ {0}
         /\ Head(w) > a /\ (Head(w) = a + 1 \/ Head(w) <= b)
         /\ Follows(Tail(w), Head(w), b)
         /\ \A n : LeadsTo(w, a, n) => LeadsTo(Tail(w), Head(w), n)
<1> DEFINE v == Tail(w)
<1>1. /\ v \in Seq(Nat \ {0}) /\ Len(w) \in Nat \ {0}
      /\ Len(v) = Len(w) - 1
      /\ \A i \in 1..Len(v) : v[i] = w[i + 1]
      /\ Head(w) = w[1] /\ w[1] \in Nat \ {0}
  BY HeadTailProperties, EmptySeq, ElementOfSeq
<1> HIDE DEF v
<1>2. \A i \in 1..Len(w) : w[i] = w[1] + i - 1
  BY DEF Follows
<1>3. w[1] > a /\ (w[1] = a + 1 \/ w[1] <= b)
  BY <1>1 DEF Follows
<1>4. \A i \in 1..Len(v) : v[i] = w[1] + i
  BY <1>1, <1>2
<1>5. Follows(v, w[1], b)
  BY <1>1, <1>4 DEF Follows
<1>6. ASSUME NEW n, LeadsTo(w, a, n)
      PROVE  LeadsTo(v, w[1], n)
  <2>1. w[Len(w)] = n
    BY <1>1, <1>6 DEF LeadsTo
  <2>2. CASE Len(v) = 0
    <3>1. Len(w) = 1
      BY <1>1, <2>2
    <3>2. w[1] = n
      BY <2>1, <3>1
    <3> QED BY <2>2, <3>2 DEF LeadsTo
  <2>3. CASE Len(v) # 0
    <3>1. Len(v) \in 1..Len(v) /\ Len(v) + 1 = Len(w)
      BY <1>1, <2>3, LenProperties
    <3>2. v[Len(v)] = w[Len(w)]
      BY <1>1, <3>1
    <3> QED BY <2>1, <2>3, <3>2 DEF LeadsTo
  <2> QED BY <2>2, <2>3
<1> QED BY <1>1, <1>3, <1>5, <1>6 DEF v

\* The next entry continues a run that leads to the last one.
LEMMA RunAppend ==
  ASSUME NEW w \in Seq(Nat \ {0}), NEW a \in Nat, NEW b \in Nat, NEW n \in Nat,
         Follows(w, a, b), LeadsTo(w, a, n)
  PROVE  /\ Follows(Append(w, n + 1), a, b)
         /\ LeadsTo(Append(w, n + 1), a, n + 1)
<1> DEFINE u == Append(w, n + 1)
<1>1. /\ u \in Seq(Nat \ {0}) /\ Len(w) \in Nat /\ Len(u) = Len(w) + 1
      /\ \A i \in 1..Len(w) : u[i] = w[i] /\ w[i] \in Nat
      /\ u[Len(w) + 1] = n + 1
  BY AppendProperties, ElementOfSeq, LenProperties
<1> HIDE DEF u
<1>2. LeadsTo(u, a, n + 1)
  BY <1>1 DEF LeadsTo
<1>3. CASE Len(w) = 0
  <2>1. a = n /\ u[1] = n + 1 /\ Len(u) = 1
    BY <1>1, <1>3 DEF LeadsTo
  <2> QED BY <1>2, <2>1 DEF Follows, u
<1>4. CASE Len(w) # 0
  <2>1. u[1] = w[1] /\ w[Len(w)] = n
    BY <1>1, <1>4 DEF LeadsTo
  <2>2. w[1] + Len(w) - 1 = n
    <3>1. Len(w) \in 1..Len(w)
      BY <1>1, <1>4
    <3>2. w[Len(w)] = w[1] + Len(w) - 1
      BY <3>1 DEF Follows
    <3> QED BY <2>1, <3>2
  <2>3. \A i \in 1..Len(u) : u[i] = u[1] + i - 1
    <3> TAKE i \in 1..Len(u)
    <3>1. CASE i = Len(w) + 1
      BY <1>1, <1>4, <2>1, <2>2, <3>1
    <3>2. CASE i \in 1..Len(w)
      BY <1>1, <2>1, <3>2 DEF Follows
    <3> QED BY <1>1, <3>1, <3>2
  <2>4. w[1] > a /\ (w[1] = a + 1 \/ w[1] <= b)
    BY <1>1, <1>4 DEF Follows
  <2>5. Follows(u, a, b)
    BY <2>1, <2>3, <2>4 DEF Follows
  <2> QED BY <1>2, <2>5 DEF u
<1> QED BY <1>3, <1>4

\* A replay from a cursor follows it, but for what the buffer has dropped,
\* and leads to the last entry if the cursor is not past that.
LEMMA ReplayFollows ==
  ASSUME Shape, NEW a \in Nat
  PROVE  /\ Replay(a) \in Seq(Nat \ {0})
         /\ Follows(Replay(a), a, first)
         /\ a <= Len(sizes) => LeadsTo(Replay(a), a, Len(sizes))
<1> DEFINE lo == IF a >= first THEN a + 1 ELSE first
           n == Len(sizes)
           k == IF n + 1 >= lo THEN n + 1 - lo ELSE 0
           w == Replay(a)
<1>1. /\ first \in Nat \ {0} /\ n \in Nat
      /\ n = 0 => first = 1
      /\ n # 0 => first <= n
  <2>1. n \in Nat /\ (sizes # <<>> => n # 0) /\ (sizes = <<>> => n = 0)
    BY LenProperties, EmptySeq DEF Shape
  <2> QED BY <2>1 DEF Shape
<1>2. /\ lo \in Nat \ {0} /\ lo > a /\ (lo = a + 1 \/ lo <= first)
      /\ a <= n => lo <= n + 1
      /\ a < n => lo <= n
      /\ a <= n /\ lo = n + 1 => a = n
  BY <1>1
<1>3. w = [i \in 1..(n + 1 - lo) |-> lo + i - 1]
  BY DEF Replay
<1> HIDE DEF n, lo, w
<1>4. n \in Nat /\ (a <= n => lo <= n + 1) /\ k \in Nat /\ 1..(n + 1 - lo) = 1..k
  <2>1. CASE n + 1 >= lo
    BY <1>1, <1>2, <2>1
  <2>2. CASE n + 1 < lo
    <3>1. n + 1 - lo < 0 /\ k = 0
      BY <1>1, <1>2, <2>2
    <3>2. 1..(n + 1 - lo) = {} /\ 1..0 = {}
      BY <1>1, <1>2, <3>1
    <3> QED BY <1>1, <1>2, <3>1, <3>2
  <2> QED BY <1>1, <1>2, <2>1, <2>2
<1>5. w = [i \in 1..k |-> lo + i - 1]
  BY <1>3, <1>4
<1>6. (k = 0 \/ k = n + 1 - lo) /\ (a <= n => k = n + 1 - lo)
  BY <1>2, <1>4
<1> HIDE DEF k
<1>7. \A i \in 1..k : lo + i - 1 \in Nat \ {0}
  BY <1>2, <1>4
<1>8. w \in [1..k -> Nat \ {0}]
  BY <1>5, <1>7
<1>9. w \in Seq(Nat \ {0}) /\ Len(w) = k
  BY <1>4, <1>8
<1>10. \A i \in 1..k : w[i] = lo + i - 1
  BY <1>5
<1>11. Follows(w, a, first)
  BY <1>1, <1>2, <1>4, <1>9, <1>10 DEF Follows
<1>12. ASSUME a <= n  PROVE LeadsTo(w, a, n)
  BY <1>1, <1>2, <1>4, <1>6, <1>9, <1>10, <1>12 DEF LeadsTo
<1> QED BY <1>9, <1>11, <1>12 DEF w, n

-----------------------------------------------------------------------------
(* Every step keeps the invariant.                                         *)

LEMMA Initially == Init => IInv
<1> SUFFICES ASSUME Init PROVE IInv
  OBVIOUS
<1>1. Shape
  BY StreamAssumption, EmptySeq DEF Init, Shape, Conns, Readers
<1>2. Cursors /\ Attached /\ OnItsWay
  BY EmptySeq DEF Init, Cursors, Attached, OnItsWay, Readers
<1> QED BY <1>1, <1>2 DEF IInv

LEMMA RecordKeeps ==
  ASSUME IInv, NEW size \in Sizes, Record(size)
  PROVE  IInv'
<1> DEFINE n == Len(sizes)
<1> USE DEF IInv
<1>1. /\ n \in Nat /\ Len(sizes') = n + 1 /\ sizes' \in Seq(Sizes) /\ sizes' # <<>>
      /\ first' \in first..(n + 1)
      /\ sizes' = Append(sizes, size)
  <2>1. sizes' = Append(sizes, size) /\ first' \in first..Len(sizes')
    BY DEF Record
  <2> QED BY <2>1, AppendProperties, LenProperties DEF Shape
<1>2. /\ UNCHANGED <<boot, opened, base, cboot, hello, cur, after, pboot>>
      /\ wire' = [c \in Conns |-> IF c \in readers /\ ~ Dead(c)
                                  THEN Append(wire[c], n + 1) ELSE wire[c]]
      /\ readers' \subseteq readers
      /\ \A c \in readers : ~ Dead(c) => c \in readers'
  BY <1>1 DEF Record, FanOut, connVars
<1> HIDE DEF n
<1>3. \A c \in Conns : wire'[c] \in Seq(Nat \ {0})
  <2>1. n + 1 \in Nat \ {0} /\ \A c \in Conns : wire[c] \in Seq(Nat \ {0})
    BY <1>1 DEF Shape
  <2>2. \A c \in Conns : Append(wire[c], n + 1) \in Seq(Nat \ {0})
    BY <2>1, AppendProperties
  <2> QED BY <1>2, <2>1, <2>2
<1>4. wire' \in [Conns -> Seq(Nat \ {0})]
  BY <1>2, <1>3
<1>5. Shape'
  BY <1>1, <1>2, <1>4 DEF Shape
<1>6. Cursors'
  BY <1>1, <1>2 DEF Cursors, Shape, Readers, n
<1>7. \A r \in Readers : cur[r] # 0 => cur[r] \in Conns /\ ~ Dead(cur[r])
  BY DEF Shape, Dead, Conns
<1>8. Attached'
  BY <1>2, <1>7 DEF Attached
<1>9. OnItsWay'
  <2> SUFFICES ASSUME NEW r \in Readers, cur[r] # 0, ~ Stale(r)
               PROVE  /\ Follows(wire'[cur[r]], after[r], base[cur[r]])
                      /\ cboot[cur[r]] = boot => LeadsTo(wire'[cur[r]], after[r], n + 1)
    BY <1>1, <1>2 DEF OnItsWay, Stale
  <2>1. /\ cur[r] \in Conns /\ ~ Dead(cur[r])
        /\ wire[cur[r]] \in Seq(Nat \ {0}) /\ after[r] \in Nat /\ base[cur[r]] \in Nat
    BY <1>7 DEF Shape
  <2>2. cur[r] \in readers <=> cboot[cur[r]] = boot
    BY DEF Attached
  <2>3. CASE cur[r] \in readers
    <3>1. wire'[cur[r]] = Append(wire[cur[r]], n + 1)
      BY <1>2, <2>1, <2>3
    <3>2. /\ Follows(wire[cur[r]], after[r], base[cur[r]])
          /\ LeadsTo(wire[cur[r]], after[r], n)
      BY <2>2, <2>3 DEF OnItsWay, n
    <3> QED BY <1>1, <2>1, <3>1, <3>2, RunAppend
  <2>4. CASE cur[r] \notin readers
    BY <1>2, <2>1, <2>2, <2>4 DEF OnItsWay
  <2> QED BY <2>3, <2>4
<1> QED BY <1>5, <1>6, <1>8, <1>9

LEMMA ConnectKeeps ==
  ASSUME IInv, NEW r \in Readers, Connect(r)
  PROVE  IInv'
<1> DEFINE c == opened + 1
<1> USE DEF IInv
<1>0. opened \in Nat /\ MaxConns \in Nat /\ opened < MaxConns /\ readers \subseteq 1..opened
  BY StreamAssumption DEF Connect, Shape
<1>1. /\ cur[r] = 0 /\ c \in Conns /\ opened' = c /\ opened \in Nat
      /\ UNCHANGED <<boot, sizes, first, pboot>>
      /\ readers' \subseteq readers \cup {c} /\ readers \subseteq readers'
      /\ c \notin readers
      /\ 1..opened \subseteq 1..c /\ c \in 1..c
  <2>1. cur[r] = 0 /\ opened' = c /\ UNCHANGED <<boot, sizes, first, pboot>>
    BY DEF Connect, bufferVars
  <2>2. readers' \subseteq readers \cup {c} /\ readers \subseteq readers'
    BY DEF Connect
  <2>3. c \in Conns /\ c \notin readers /\ 1..opened \subseteq 1..c /\ c \in 1..c
    BY <1>0 DEF Conns
  <2> QED BY <1>0, <2>1, <2>2, <2>3
<1>2. readers' \subseteq 1..c
  BY <1>1 DEF Shape
<1>3. CASE UNCHANGED <<base, cboot, hello, wire, cur, after>>
  <2>1. Shape' /\ Cursors'
    BY <1>1, <1>2, <1>3 DEF Shape, Cursors, Conns
  <2>2. Attached'
    BY <1>1, <1>3 DEF Attached
  <2>3. OnItsWay'
    BY <1>1, <1>3 DEF OnItsWay, Stale
  <2> QED BY <2>1, <2>2, <2>3
<1>4. CASE /\ Open(r, c)
           /\ cur' = [cur EXCEPT ![r] = c]
           /\ readers' = readers \cup {c}
  <2>1. From(r) \in Nat
    BY DEF From, Shape
  <2>2. /\ Replay(From(r)) \in Seq(Nat \ {0})
        /\ Follows(Replay(From(r)), From(r), first)
        /\ From(r) <= Len(sizes) => LeadsTo(Replay(From(r)), From(r), Len(sizes))
    BY <2>1, ReplayFollows
  <2>3. /\ wire'[c] = Replay(From(r)) /\ hello'[c] = (r \in Pumps)
        /\ base'[c] = first /\ cboot'[c] = boot
        /\ after'[r] = From(r) /\ cur'[r] = c
        /\ \A d \in Conns \ {c} :
             /\ wire'[d] = wire[d] /\ hello'[d] = hello[d]
             /\ base'[d] = base[d] /\ cboot'[d] = cboot[d]
        /\ \A q \in Readers \ {r} : after'[q] = after[q] /\ cur'[q] = cur[q]
    BY <1>1, <1>4 DEF Open, Shape
  <2>4. Shape'
    BY <1>1, <1>2, <1>4, <2>1, <2>2 DEF Shape, Open, Conns
  <2>5. Cursors'
    <3>1. \A p \in Pumps : after'[p] = after[p]
      BY <2>3, StreamAssumption DEF From, Readers
    <3> QED BY <1>1, <3>1 DEF Cursors
  <2>6. \A q \in Readers : q # r /\ cur[q] # 0 => cur[q] \in Conns \ {c} /\ cur[q] \in 1..opened
    BY <1>1 DEF Attached, Shape, Conns
  <2>7. Attached'
    <3> SUFFICES ASSUME NEW q \in Readers, cur'[q] # 0
                 PROVE  /\ cur'[q] \in 1..c
                        /\ \A s \in Readers : cur'[s] = cur'[q] => s = q
                        /\ cboot'[cur'[q]] \in 1..boot
                        /\ cur'[q] \in readers' <=> cboot'[cur'[q]] = boot
                        /\ q \in Tabs => ~ hello'[cur'[q]]
                        /\ q \in Pumps /\ ~ hello'[cur'[q]] => pboot[q] = cboot'[cur'[q]]
      BY <1>1 DEF Attached
    <3>1. CASE q = r
      <4>1. \A s \in Readers : cur'[s] = c => s = r
        BY <1>1, <2>3, <2>6
      <4>2. boot \in 1..boot
        BY DEF Shape
      <4> QED BY <1>1, <1>4, <2>3, <3>1, <4>1, <4>2, StreamAssumption DEF Readers
    <3>2. CASE q # r
      <4>1. cur'[q] = cur[q] /\ cur[q] \in Conns \ {c} /\ cur[q] \in 1..opened
        BY <2>3, <2>6, <3>2
      <4>2. \A s \in Readers : cur'[s] = cur[q] => s = q
        BY <2>3, <4>1 DEF Attached
      <4> QED BY <1>1, <1>4, <2>3, <4>1, <4>2 DEF Attached
    <3> QED BY <3>1, <3>2
  <2>8. OnItsWay'
    <3> SUFFICES ASSUME NEW q \in Readers, cur'[q] # 0, ~ Stale(q)'
                 PROVE  /\ Follows(wire'[cur'[q]], after'[q], base'[cur'[q]])
                        /\ cboot'[cur'[q]] = boot
                             => LeadsTo(wire'[cur'[q]], after'[q], Len(sizes))
      BY <1>1 DEF OnItsWay
    <3>1. CASE q = r
      <4>1. q \in Pumps => pboot[q] \in {0, boot}
        BY <1>1, <2>3, <3>1 DEF Stale
      <4>2. From(r) <= Len(sizes)
        BY <3>1, <4>1, LenProperties DEF Cursors, From, Shape, Readers
      <4> QED BY <2>2, <2>3, <3>1, <4>2
    <3>2. CASE q # r
      BY <1>1, <2>3, <2>6, <3>2 DEF OnItsWay, Stale
    <3> QED BY <3>1, <3>2
  <2> QED BY <2>4, <2>5, <2>7, <2>8
<1> QED BY <1>3, <1>4 DEF Connect

LEMMA HelloKeeps ==
  ASSUME IInv, NEW p \in Pumps, Hello(p)
  PROVE  IInv'
<1> DEFINE c == cur[p]
<1> USE DEF IInv
<1>1. /\ p \in Readers /\ c # 0 /\ c \in Conns /\ hello[c]
      /\ UNCHANGED <<boot, sizes, first, readers, opened, base, cboot>>
      /\ hello' = [hello EXCEPT ![c] = FALSE]
      /\ pboot' = [pboot EXCEPT ![p] = cboot[c]]
  BY DEF Hello, bufferVars, connVars, Shape, Conns, Readers
<1>2. cboot[c] \in 1..boot /\ \A q \in Readers : cur[q] = c => q = p
  BY <1>1 DEF Attached
<1>3. \A q \in Readers \ {p} : cur[q] # 0 => cur[q] \in Conns \ {c}
  BY <1>1, <1>2 DEF Shape, Conns
<1>4. /\ hello'[c] = FALSE /\ pboot'[p] = cboot[c]
      /\ \A d \in Conns \ {c} : hello'[d] = hello[d]
      /\ \A q \in Readers \ {p} : pboot'[q] = pboot[q]
  BY <1>1 DEF Shape
<1>5. CASE pboot[p] \in {0, cboot[c]} /\ UNCHANGED <<cur, after, wire>>
  <2>1. Shape'
    BY <1>1, <1>2, <1>5 DEF Shape
  <2>2. Cursors'
    <3>1. after[p] <= Len(sizes) \/ cboot[c] # boot
      BY <1>1, <1>5, LenProperties DEF Cursors, Shape
    <3>2. 1..boot \subseteq Nat \ {0} /\ cboot[c] <= boot /\ cboot[c] # 0
      BY <1>2 DEF Shape
    <3> QED BY <1>1, <1>4, <1>5, <3>1, <3>2 DEF Cursors, Readers
  <2>3. Attached'
    BY <1>1, <1>2, <1>3, <1>4, <1>5, StreamAssumption DEF Attached
  <2>4. OnItsWay'
    <3>1. ~ Stale(p)
      BY <1>5 DEF Stale
    <3>2. \A q \in Readers \ {p} : cur[q] # 0 /\ ~ Stale(q)' => ~ Stale(q)
      BY <1>1, <1>3, <1>4, <1>5 DEF Stale
    <3> QED BY <1>1, <1>5, <3>1, <3>2 DEF OnItsWay
  <2> QED BY <2>1, <2>2, <2>3, <2>4
<1>6. CASE /\ cur' = [cur EXCEPT ![p] = 0] /\ after' = [after EXCEPT ![p] = 0]
           /\ wire' = [wire EXCEPT ![c] = <<>>]
  <2>1. /\ cur'[p] = 0 /\ after'[p] = 0
        /\ \A q \in Readers \ {p} : cur'[q] = cur[q] /\ after'[q] = after[q]
        /\ \A d \in Conns \ {c} : wire'[d] = wire[d]
    BY <1>1, <1>6 DEF Shape
  <2>2. Shape'
    <3>1. <<>> \in Seq(Nat \ {0})
      BY EmptySeq
    <3>2. wire' \in [Conns -> Seq(Nat \ {0})]
      BY <1>1, <1>6, <3>1 DEF Shape
    <3>3. /\ cur' \in [Readers -> 0..MaxConns] /\ after' \in [Readers -> Nat]
          /\ hello' \in [Conns -> BOOLEAN] /\ pboot' \in [Readers -> Nat]
      BY <1>1, <1>6, StreamAssumption DEF Shape
    <3> QED BY <1>1, <3>2, <3>3 DEF Shape
  <2>3. Cursors'
    <3>1. 1..boot \subseteq Nat \ {0} /\ cboot[c] <= boot /\ cboot[c] # 0 /\ 0 <= Len(sizes)
      BY <1>2, LenProperties DEF Shape
    <3> QED BY <1>1, <1>4, <2>1, <3>1 DEF Cursors, Readers
  <2>4. Attached'
    BY <1>1, <1>3, <1>4, <2>1 DEF Attached
  <2>5. OnItsWay'
    <3>1. \A q \in Readers \ {p} : cur[q] # 0 /\ ~ Stale(q)' => ~ Stale(q)
      BY <1>1, <1>3, <1>4, <2>1 DEF Stale
    <3> QED BY <1>1, <1>3, <2>1, <3>1 DEF OnItsWay
  <2> QED BY <2>2, <2>3, <2>4, <2>5
<1> QED BY <1>5, <1>6 DEF Hello

LEMMA DeliverKeeps ==
  ASSUME IInv, NEW r \in Readers, Deliver(r)
  PROVE  /\ IInv'
         /\ after'[r] > after[r]
         /\ after'[r] = after[r] + 1 \/ after'[r] <= base[cur[r]]
<1> DEFINE c == cur[r]  w == wire[c]
<1> USE DEF IInv
<1>1. /\ c # 0 /\ c \in Conns /\ ~ hello[c] /\ w \in Seq(Nat \ {0}) /\ w # <<>>
      /\ after[r] \in Nat /\ base[c] \in Nat
      /\ UNCHANGED <<boot, sizes, first, readers, opened, base, cboot, hello, cur, pboot>>
      /\ after' = [after EXCEPT ![r] = Head(w)]
      /\ wire' = [wire EXCEPT ![c] = Tail(w)]
  BY DEF Deliver, bufferVars, connVars, Shape, Conns
<1>2. ~ Stale(r) /\ Follows(w, after[r], base[c])
  BY <1>1 DEF Stale, OnItsWay
<1>3. /\ Tail(w) \in Seq(Nat \ {0}) /\ Head(w) \in Nat \ {0}
      /\ Head(w) > after[r] /\ (Head(w) = after[r] + 1 \/ Head(w) <= base[c])
      /\ Follows(Tail(w), Head(w), base[c])
      /\ \A n : LeadsTo(w, after[r], n) => LeadsTo(Tail(w), Head(w), n)
  BY <1>1, <1>2, RunTail
<1>4. /\ after'[r] = Head(w) /\ wire'[c] = Tail(w)
      /\ \A q \in Readers \ {r} : after'[q] = after[q]
      /\ \A d \in Conns \ {c} : wire'[d] = wire[d]
      /\ \A q \in Readers \ {r} : cur[q] # 0 => cur[q] \in Conns \ {c}
  BY <1>1 DEF Shape, Attached, Conns
<1>5. Shape'
  BY <1>1, <1>3 DEF Shape
<1>6. Attached'
  BY <1>1 DEF Attached
<1>7. Cursors'
  <2>1. r \in Pumps => pboot[r] = cboot[c] /\ cboot[c] # 0
    BY <1>1 DEF Attached, Shape
  <2>2. r \in Pumps /\ pboot[r] = boot => Head(w) <= Len(sizes)
    <3> SUFFICES ASSUME r \in Pumps, pboot[r] = boot PROVE Head(w) <= Len(sizes)
      OBVIOUS
    <3>1. LeadsTo(w, after[r], Len(sizes))
      BY <1>1, <1>2, <2>1 DEF OnItsWay
    <3>2. Len(w) \in Nat \ {0} /\ Len(sizes) \in Nat
      BY <1>1, EmptySeq, LenProperties DEF Shape
    <3>3. w[Len(w)] = Len(sizes)
      BY <3>1, <3>2 DEF LeadsTo
    <3>4. w[Len(w)] = w[1] + Len(w) - 1 /\ Head(w) = w[1]
      <4>1. Len(w) \in 1..Len(w)
        BY <3>2
      <4> QED BY <1>2, <4>1 DEF Follows
    <3> QED BY <1>3, <3>2, <3>3, <3>4
  <2> QED BY <1>1, <1>4, <2>1, <2>2 DEF Cursors, Readers
<1>8. OnItsWay'
  <2>1. \A q \in Readers \ {r} : ~ Stale(q)' => ~ Stale(q)
    BY <1>1 DEF Stale
  <2>2. cboot[c] = boot => LeadsTo(Tail(w), Head(w), Len(sizes))
    BY <1>1, <1>2, <1>3 DEF OnItsWay
  <2> QED BY <1>1, <1>3, <1>4, <2>1, <2>2 DEF OnItsWay
<1> QED BY <1>3, <1>4, <1>5, <1>6, <1>7, <1>8

LEMMA SeverKeeps ==
  ASSUME IInv, NEW r \in Readers, Sever(r)
  PROVE  IInv'
<1> DEFINE c == cur[r]
<1> USE DEF IInv
<1>1. /\ c # 0 /\ c \in Conns
      /\ UNCHANGED <<boot, sizes, first, readers, opened, base, cboot, after, pboot>>
      /\ cur' = [cur EXCEPT ![r] = 0]
      /\ wire' = [wire EXCEPT ![c] = <<>>]
      /\ hello' = [hello EXCEPT ![c] = FALSE]
  BY DEF Sever, bufferVars, connVars, Shape, Conns
<1>2. /\ cur'[r] = 0
      /\ \A q \in Readers \ {r} : cur'[q] = cur[q]
      /\ \A d \in Conns \ {c} : wire'[d] = wire[d] /\ hello'[d] = hello[d]
      /\ \A q \in Readers \ {r} : cur[q] # 0 => cur[q] \in Conns \ {c}
  BY <1>1 DEF Shape, Attached, Conns
<1>3. Shape' /\ Cursors'
  <2>1. <<>> \in Seq(Nat \ {0})
    BY EmptySeq
  <2>2. wire' \in [Conns -> Seq(Nat \ {0})]
    BY <1>1, <2>1 DEF Shape
  <2>3. /\ cur' \in [Readers -> 0..MaxConns] /\ hello' \in [Conns -> BOOLEAN]
        /\ MaxConns \in Nat
    BY <1>1, StreamAssumption DEF Shape
  <2>4. Cursors'
    BY <1>1 DEF Cursors
  <2> QED BY <1>1, <2>2, <2>3, <2>4 DEF Shape
<1>4. Attached'
  BY <1>1, <1>2 DEF Attached
<1>5. OnItsWay'
  <2>1. \A q \in Readers \ {r} : cur[q] # 0 /\ ~ Stale(q)' => ~ Stale(q)
    BY <1>1, <1>2 DEF Stale
  <2> QED BY <1>1, <1>2, <2>1 DEF OnItsWay
<1> QED BY <1>3, <1>4, <1>5

LEMMA ReapKeeps ==
  ASSUME IInv, NEW d \in Conns, Reap(d)
  PROVE  IInv'
<1> USE DEF IInv
<1>1. /\ \A r \in Readers : cur[r] # d
      /\ readers' = readers \ {d}
      /\ UNCHANGED <<boot, sizes, first, opened, base, cboot, hello, wire, cur, after, pboot>>
  BY DEF Reap, Dead, bufferVars, connVars
<1>2. Shape' /\ Cursors' /\ Attached'
  BY <1>1 DEF Shape, Cursors, Attached
<1>3. OnItsWay'
  BY <1>1 DEF OnItsWay, Stale
<1> QED BY <1>2, <1>3

LEMMA RestartKeeps ==
  ASSUME IInv, Restart
  PROVE  IInv'
<1> USE DEF IInv
<1>1. /\ boot' = boot + 1 /\ sizes' = <<>> /\ first' = 1 /\ readers' = {}
      /\ UNCHANGED <<opened, base, cboot, hello, wire, cur, after, pboot>>
  BY DEF Restart, connVars
<1>2. Shape'
  BY <1>1, EmptySeq DEF Shape
<1>3. Cursors'
  BY <1>1 DEF Cursors, Shape, Readers
<1>4. \A r \in Readers : cur[r] # 0 => cboot[cur[r]] \in 1..boot' /\ cboot[cur[r]] # boot'
  BY <1>1 DEF Attached, Shape
<1>5. Attached'
  BY <1>1, <1>4 DEF Attached
<1>6. OnItsWay'
  BY <1>1, <1>4 DEF OnItsWay, Stale
<1> QED BY <1>2, <1>3, <1>5, <1>6

LEMMA StepKeeps == IInv /\ [Next]_vars => IInv'
<1> SUFFICES ASSUME IInv, [Next]_vars PROVE IInv'
  OBVIOUS
<1>1. CASE UNCHANGED vars
  BY <1>1 DEF vars, bufferVars, connVars, IInv, Shape, Cursors, Attached, OnItsWay, Stale
<1>2. CASE \E size \in Sizes : Record(size)
  BY <1>2, RecordKeeps
<1>3. CASE \E r \in Readers : Connect(r)
  BY <1>3, ConnectKeeps
<1>4. CASE \E r \in Readers : Deliver(r)
  BY <1>4, DeliverKeeps
<1>5. CASE \E r \in Readers : Sever(r)
  BY <1>5, SeverKeeps
<1>6. CASE \E p \in Pumps : Hello(p)
  BY <1>6, HelloKeeps
<1>7. CASE \E c \in Conns : Reap(c)
  BY <1>7, ReapKeeps
<1>8. CASE Restart
  BY <1>8, RestartKeeps
<1> QED BY <1>1, <1>2, <1>3, <1>4, <1>5, <1>6, <1>7, <1>8 DEF Next

\* IInv holds in every reachable state.
THEOREM Invariance == Spec => []IInv
<1> QED BY Initially, StepKeeps, PTL DEF Spec

-----------------------------------------------------------------------------
(* What it gives the readers.                                              *)

\* A reader with nothing on its way has taken the last entry recorded
\* (ringBuffer.js:22-24).
THEOREM StreamNothingMissed == Spec => []NothingMissed
<1>1. ASSUME IInv PROVE NothingMissed
  <2> SUFFICES ASSUME NEW r \in Readers, cur[r] # 0, cboot[cur[r]] = boot,
                      ~ hello[cur[r]], wire[cur[r]] = <<>>
               PROVE  after[r] = Len(sizes)
    BY DEF NothingMissed
  <2>1. LeadsTo(wire[cur[r]], after[r], Len(sizes))
    BY <1>1 DEF IInv, OnItsWay, Stale
  <2> QED BY <2>1, EmptySeq DEF LeadsTo
<1> QED BY <1>1, Invariance, PTL

\* Every entry a reader takes is a later one than the last
\* (agentStream.js:8-10,44-45).
THEOREM StreamOnceInOrder == Spec => OnceInOrder
<1>1. ASSUME IInv, [Next]_vars
      PROVE  [\A r \in Readers : Deliver(r) => after'[r] > after[r]]_vars
  BY <1>1, DeliverKeeps
<1> QED BY <1>1, Invariance, PTL DEF Spec, OnceInOrder

\* A reader passes over an entry only if the buffer had dropped it when its
\* connection was made (agentStream.js:44-45).
THEOREM StreamNoGap == Spec => NoGap
<1>1. ASSUME IInv, [Next]_vars
      PROVE  [\A r \in Readers : \A n \in (after[r] + 1)..(after'[r] - 1) : n < base[cur[r]]]_vars
  <2> SUFFICES ASSUME Next, NEW r \in Readers, NEW n \in (after[r] + 1)..(after'[r] - 1)
               PROVE  n < base[cur[r]]
    BY <1>1
  <2>1. after \in [Readers -> Nat] /\ after' \in [Readers -> Nat]
    BY <1>1, StepKeeps DEF IInv, Shape
  <2>2. after'[r] > after[r] + 1
    BY <2>1
  <2>3. Deliver(r)
    <3>1. \A q \in Readers : Connect(q) => after'[r] = after[r] \/ after'[r] = 0
      BY <2>1 DEF Connect, Open, From
    <3>2. \A q \in Readers : Deliver(q) /\ q # r => after'[r] = after[r]
      BY <2>1 DEF Deliver
    <3>3. \A q \in Pumps : Hello(q) => after'[r] = after[r] \/ after'[r] = 0
      BY <2>1 DEF Hello, Readers
    <3>4. \A size \in Sizes : Record(size) => after' = after
      BY DEF Record
    <3>5. \A q \in Readers : Sever(q) => after' = after
      BY DEF Sever
    <3>6. (\A c \in Conns : Reap(c) => after' = after) /\ (Restart => after' = after)
      BY DEF Reap, Restart
    <3> QED BY <2>1, <2>2, <3>1, <3>2, <3>3, <3>4, <3>5, <3>6 DEF Next
  <2>4. after'[r] <= base[cur[r]] /\ base[cur[r]] \in Nat
    <3>1. cur[r] \in Conns
      BY <1>1, <2>3 DEF Deliver, IInv, Shape, Conns
    <3>2. base[cur[r]] \in Nat
      BY <1>1, <3>1 DEF IInv, Shape
    <3>3. after'[r] = after[r] + 1 \/ after'[r] <= base[cur[r]]
      BY <1>1, <2>3, DeliverKeeps
    <3> QED BY <2>1, <2>2, <3>2, <3>3
  <2> QED BY <2>1, <2>4
<1> QED BY <1>1, Invariance, PTL DEF Spec, NoGap

\* What every reader sees is the record in order, each entry once, and nothing
\* left out but what the buffer no longer had when it connected.
THEOREM StreamInOrder == Spec => InOrder
BY StreamNoGap, StreamOnceInOrder DEF InOrder

-----------------------------------------------------------------------------
(* The bytes of the buffer.  Every byte of every entry is counted once, so   *)
(* that a sum over entries is the size of a set.                             *)

\* Sets of entries apart have bytes apart, whose numbers add up.
LEMMA BytesAdd ==
  ASSUME NEW log, NEW S, NEW T, S \cap T = {},
         IsFiniteSet(BytesOf(log, S)), IsFiniteSet(BytesOf(log, T))
  PROVE  /\ IsFiniteSet(BytesOf(log, S \cup T))
         /\ Bytes(log, S) \in Nat /\ Bytes(log, T) \in Nat
         /\ Bytes(log, S \cup T) = Bytes(log, S) + Bytes(log, T)
<1>1. BytesOf(log, S \cup T) = BytesOf(log, S) \cup BytesOf(log, T)
  BY DEF BytesOf
<1>2. BytesOf(log, S) \cap BytesOf(log, T) = {}
  BY DEF BytesOf
<1>3. Bytes(log, S) \in Nat /\ Bytes(log, T) \in Nat
  BY FS_CardinalityType DEF Bytes
<1>4. /\ IsFiniteSet(BytesOf(log, S) \cup BytesOf(log, T))
      /\ Cardinality(BytesOf(log, S) \cup BytesOf(log, T))
           = Bytes(log, S) + Bytes(log, T) - Cardinality(BytesOf(log, S) \cap BytesOf(log, T))
  BY FS_Union DEF Bytes
<1>5. Cardinality(BytesOf(log, S) \cap BytesOf(log, T)) = 0
  BY <1>2, FS_EmptySet
<1>6. Bytes(log, S \cup T) = Cardinality(BytesOf(log, S) \cup BytesOf(log, T))
  BY <1>1 DEF Bytes
<1>7. IsFiniteSet(BytesOf(log, S \cup T))
  BY <1>1, <1>4
<1> QED BY <1>3, <1>4, <1>5, <1>6, <1>7

\* One entry has as many bytes as the log says.
LEMMA BytesOne ==
  ASSUME NEW log, NEW n, log[n] \in Nat
  PROVE  IsFiniteSet(BytesOf(log, {n})) /\ Bytes(log, {n}) = log[n]
<1>1. BytesOf(log, {n}) = {n} \X (1..log[n])
  BY DEF BytesOf
<1>2. IsFiniteSet(1..log[n]) /\ Cardinality(1..log[n]) = log[n]
  BY FS_Interval
<1>3. IsFiniteSet({n}) /\ Cardinality({n}) = 1
  BY FS_Singleton
<1>4. /\ IsFiniteSet({n} \X (1..log[n]))
      /\ Cardinality({n} \X (1..log[n])) = Cardinality({n}) * Cardinality(1..log[n])
  BY <1>2, <1>3, FS_Product
<1>5. 1 * log[n] = log[n]
  OBVIOUS
<1> QED BY <1>1, <1>2, <1>3, <1>4, <1>5 DEF Bytes

\* The bytes of some entries are finite if those of all entries are.
LEMMA BytesFinite ==
  ASSUME NEW log, NEW T, NEW S \in SUBSET T, IsFiniteSet(BytesOf(log, T))
  PROVE  IsFiniteSet(BytesOf(log, S))
<1>1. BytesOf(log, S) \subseteq BytesOf(log, T)
  BY DEF BytesOf
<1> QED BY <1>1, FS_Subset

\* An empty log has no bytes.
LEMMA BytesNone ==
  ASSUME NEW log, Len(log) = 0
  PROVE  IsFiniteSet(BytesOf(log, 1..Len(log))) /\ Bytes(log, 1..Len(log)) = 0
<1>1. 1..Len(log) = {}
  OBVIOUS
<1>2. BytesOf(log, {}) = {}
  BY DEF BytesOf
<1> QED BY <1>1, <1>2, FS_EmptySet DEF Bytes

\* What only the count of bytes needs, and the types left out of Shape.
Counted ==
  /\ IsFiniteSet(BytesOf(sizes, 1..Len(sizes)))
  /\ byteSize \in Nat /\ ByteExact

Limits == boot <= MaxBoots + 1 /\ cleanedUp \subseteq Conns

\* The new entry's bytes are added to those kept, and those of the dropped
\* entries taken off.
LEMMA RecordCounts ==
  ASSUME Shape, Counted, NEW size \in Sizes, Record(size)
  PROVE  Counted'
<1> DEFINE m == Len(sizes)
           n == m + 1
           log == Append(sizes, size)
<1>1. /\ m \in Nat /\ log \in Seq(Sizes) /\ Len(log) = n /\ log[n] = size
      /\ \A i \in 1..m : log[i] = sizes[i]
  BY AppendProperties, LenProperties DEF Shape
<1>2. size \in Nat /\ MaxBytes \in Nat
  BY StreamAssumption
<1>3. first \in 1..n
  BY <1>1 DEF Shape
<1>4. sizes' = log
  BY DEF Record
<1>5. PICK f \in first..n :
        /\ first' = f
        /\ byteSize' = byteSize + size - Bytes(log, first..(f - 1))
        /\ byteSize' <= MaxBytes \/ f = n
  BY <1>1 DEF Record
<1> HIDE DEF m, log
<1>6. IsFiniteSet(BytesOf(log, 1..m)) /\ BytesOf(log, first..m) = BytesOf(sizes, first..m)
  <2>1. first..m \subseteq 1..m
    BY <1>3
  <2>2. BytesOf(log, 1..m) = BytesOf(sizes, 1..m)
    BY <1>1 DEF BytesOf
  <2>3. BytesOf(log, first..m) = BytesOf(sizes, first..m)
    BY <1>1, <2>1 DEF BytesOf
  <2> QED BY <2>2, <2>3 DEF Counted, m
<1>7. IsFiniteSet(BytesOf(log, {n})) /\ Bytes(log, {n}) = size
  BY <1>1, <1>2, BytesOne
<1>8. IsFiniteSet(BytesOf(log, 1..n))
  <2>1. 1..n = 1..m \cup {n} /\ 1..m \cap {n} = {}
    BY <1>1
  <2> QED BY <1>6, <1>7, <2>1, BytesAdd
<1>9. Bytes(log, first..n) = byteSize + size
  <2>1. first..n = first..m \cup {n} /\ first..m \cap {n} = {} /\ first..m \subseteq 1..m
    BY <1>1, <1>3
  <2>2. IsFiniteSet(BytesOf(log, first..m))
    BY <1>6, <2>1, BytesFinite
  <2>3. Bytes(log, first..m) = byteSize
    BY <1>6 DEF Counted, ByteExact, Bytes, m
  <2>4. Bytes(log, first..m \cup {n}) = Bytes(log, first..m) + Bytes(log, {n})
    BY <1>7, <2>1, <2>2, BytesAdd
  <2> QED BY <1>7, <2>1, <2>3, <2>4
<1>10. /\ Bytes(log, f..n) \in Nat /\ Bytes(log, first..(f - 1)) \in Nat
       /\ Bytes(log, first..n) = Bytes(log, first..(f - 1)) + Bytes(log, f..n)
  <2> DEFINE old == first..(f - 1)
             kept == f..n
  <2>1. n \in Int /\ first \in Int /\ f \in Int /\ 1 <= first /\ first <= f /\ f <= n
    BY <1>1, <1>3, <1>5
  <2>2. first..n = old \cup kept /\ old \cap kept = {}
    BY <2>1
  <2>3. old \subseteq 1..n /\ kept \subseteq 1..n
    BY <2>1
  <2> HIDE DEF old, kept
  <2>4. IsFiniteSet(BytesOf(log, old)) /\ IsFiniteSet(BytesOf(log, kept))
    BY <1>8, <2>3, BytesFinite
  <2>5. /\ Bytes(log, old) \in Nat /\ Bytes(log, kept) \in Nat
        /\ Bytes(log, old \cup kept) = Bytes(log, old) + Bytes(log, kept)
    BY <2>2, <2>4, BytesAdd
  <2> QED BY <2>2, <2>5 DEF old, kept
<1>11. byteSize' = Bytes(log, f..n) /\ byteSize' \in Nat
  BY <1>2, <1>5, <1>9, <1>10 DEF Counted
<1>12. Len(log) = n /\ (byteSize' > MaxBytes => f = n)
  BY <1>1, <1>2, <1>5, <1>11
<1> QED BY <1>4, <1>5, <1>8, <1>11, <1>12 DEF Counted, ByteExact

LEMMA RecordedAll == IInv /\ Counted /\ [Next]_vars => Counted'
<1> SUFFICES ASSUME IInv, Counted, [Next]_vars PROVE Counted'
  OBVIOUS
<1>1. CASE UNCHANGED bufferVars
  BY <1>1 DEF bufferVars, Counted, ByteExact
<1>2. CASE \E size \in Sizes : Record(size)
  BY <1>2, RecordCounts DEF IInv
<1>3. CASE Restart
  <2>1. sizes' = <<>> /\ first' = 1 /\ byteSize' = 0
    BY <1>3 DEF Restart
  <2>2. Len(sizes') = 0 /\ ~ (0 > MaxBytes)
    BY <2>1, StreamAssumption
  <2>3. IsFiniteSet(BytesOf(sizes', 1..Len(sizes'))) /\ Bytes(sizes', 1..Len(sizes')) = 0
    BY <2>2, BytesNone
  <2> QED BY <2>1, <2>2, <2>3 DEF Counted, ByteExact
<1>4. \/ \E r \in Readers : Connect(r) \/ Deliver(r) \/ Sever(r)
      \/ \E p \in Pumps : Hello(p)
      \/ \E c \in Conns : Reap(c)
      \/ UNCHANGED vars
      => UNCHANGED bufferVars
  BY DEF Connect, Deliver, Sever, Hello, Reap, vars
<1> QED BY <1>1, <1>2, <1>3, <1>4 DEF Next

LEMMA LimitsKept == IInv /\ Limits /\ [Next]_vars => Limits'
<1> SUFFICES ASSUME IInv, Limits, [Next]_vars PROVE Limits'
  OBVIOUS
<1>1. opened \in 0..MaxConns /\ MaxConns \in Nat /\ MaxBoots \in Nat /\ boot \in Nat
  BY StreamAssumption DEF IInv, Shape
<1>2. CASE UNCHANGED vars
  BY <1>2 DEF vars, bufferVars, Limits
<1>3. CASE \E size \in Sizes : Record(size)
  <2>1. boot' = boot /\ \E T \in SUBSET readers : cleanedUp' = cleanedUp \cup T
    BY <1>3 DEF Record, FanOut
  <2>2. readers \subseteq Conns
    BY <1>1 DEF IInv, Shape, Conns
  <2> QED BY <2>1, <2>2 DEF Limits
<1>4. CASE \E r \in Readers : Connect(r)
  <2>1. /\ boot' = boot /\ opened + 1 \in Conns
        /\ cleanedUp' = cleanedUp \/ cleanedUp' = cleanedUp \cup {opened + 1}
    BY <1>1, <1>4 DEF Connect, bufferVars, Conns
  <2> QED BY <2>1 DEF Limits
<1>5. CASE \/ \E r \in Readers : Deliver(r) \/ Sever(r)
           \/ \E p \in Pumps : Hello(p)
  BY <1>5 DEF Deliver, Sever, Hello, bufferVars, Limits
<1>6. CASE \E c \in Conns : Reap(c)
  BY <1>6 DEF Reap, bufferVars, Limits
<1>7. CASE Restart
  BY <1>1, <1>7 DEF Restart, Limits, Conns
<1> QED BY <1>2, <1>3, <1>4, <1>5, <1>6, <1>7 DEF Next

\* The byte count is that of the entries kept, for any entries and any cap,
\* and it exceeds the cap only for a single entry (ringBuffer.js:25-31).
THEOREM StreamBufferExact == Spec => []BufferExact
<1>1. Init => Counted /\ Limits
  <2> SUFFICES ASSUME Init PROVE Counted /\ Limits
    OBVIOUS
  <2>1. sizes = <<>> /\ first = 1 /\ byteSize = 0 /\ boot = 1 /\ cleanedUp = {}
    BY DEF Init
  <2>2. Len(sizes) = 0 /\ ~ (0 > MaxBytes) /\ 1 <= MaxBoots + 1
    BY <2>1, StreamAssumption
  <2>3. IsFiniteSet(BytesOf(sizes, 1..Len(sizes))) /\ Bytes(sizes, 1..Len(sizes)) = 0
    BY <2>2, BytesNone
  <2> QED BY <2>1, <2>2, <2>3 DEF Counted, ByteExact, Limits
<1>2. IInv /\ Counted /\ Limits => BufferExact
  <2> SUFFICES ASSUME IInv, Counted, Limits PROVE BufferExact
    OBVIOUS
  <2>1. boot \in 1..(MaxBoots + 1)
    BY StreamAssumption DEF IInv, Shape, Limits
  <2>2. first \in 1..(IF sizes = <<>> THEN 1 ELSE Len(sizes))
    <3>1. Len(sizes) \in Nat
      BY LenProperties DEF IInv, Shape
    <3> QED BY <3>1 DEF IInv, Shape
  <2>3. readers \subseteq Conns
    BY StreamAssumption DEF IInv, Shape, Conns
  <2> QED BY <2>1, <2>2, <2>3 DEF IInv, Shape, Counted, Limits, TypeOK, BufferExact
<1> QED BY <1>1, <1>2, Invariance, RecordedAll, LimitsKept, PTL DEF Spec
=============================================================================
