----------------------------- MODULE AgentStream -----------------------------
(***************************************************************************)
(* The agent's output stream (sandbox-runtime/src/ringBuffer.js,           *)
(* agentBroadcast.js, agentStream.js, agentKeepalive.js): one byte-capped  *)
(* tail of numbered entries, replayed to every GET /agent/stream that      *)
(* connects and fanned out to those that are subscribed.                   *)
(*                                                                         *)
(* A pump reads in indexed mode: it is greeted with the boot id, keeps the *)
(* number of the last entry it took as its cursor and reconnects with it.  *)
(* A tab reads in the legacy mode: no hello, and every connection replays  *)
(* the whole tail.  How a pump treats another boot is the orchestrator's   *)
(* code: it is taken to drop its cursor and connect again.                 *)
(***************************************************************************)
EXTENDS Integers, FiniteSets, SequencesExt

CONSTANTS
  Pumps, Tabs,   \* the readers
  Sizes,         \* bytes of an entry, its newline included
  MaxBytes,      \* BUFFER_MAX_BYTES
  MaxEntries,    \* bound: entries recorded in one boot
  MaxConns,      \* bound: connections
  MaxBoots,      \* bound: boots of the runtime
  DeadOnArrival  \* may the socket be dead before its request is handled?

ASSUME StreamAssumption ==
  /\ Pumps \cap Tabs = {}
  /\ Sizes \subseteq Nat \ {0}
  /\ {MaxBytes, MaxEntries, MaxConns, MaxBoots} \subseteq Nat
  /\ DeadOnArrival \in BOOLEAN

Readers == Pumps \cup Tabs
Conns == 1..MaxConns

VARIABLES
  boot,       \* BOOT_ID: the runtime's boots so far
  sizes,      \* the size of every entry recorded since the boot; nextN - 1 of them
  first,      \* the number of the oldest entry kept
  byteSize,
  readers,    \* the connections subscribed
  cleanedUp,  \* the connections cleaned up
  opened,     \* connections so far
  base, cboot,\* each connection: `first` and the boot when it was made
  hello,      \* the hello frame is on its way
  wire,       \* the entries on their way after it, while the reader is there
  cur,        \* each reader: its connection, 0 if none
  after, pboot\* its cursor and the boot it belongs to, 0 if none

bufferVars == <<boot, sizes, first, byteSize>>
connVars   == <<opened, base, cboot>>
vars == <<bufferVars, readers, cleanedUp, connVars, hello, wire, cur, after, pboot>>

TypeOK ==
  /\ boot \in 1..(MaxBoots + 1) /\ sizes \in Seq(Sizes)
  /\ first \in 1..(IF sizes = <<>> THEN 1 ELSE Len(sizes)) /\ byteSize \in Nat
  /\ readers \subseteq Conns /\ cleanedUp \subseteq Conns
  /\ opened \in 0..MaxConns
  /\ base \in [Conns -> Nat] /\ cboot \in [Conns -> Nat]
  /\ hello \in [Conns -> BOOLEAN] /\ wire \in [Conns -> Seq(Nat \ {0})]
  /\ cur \in [Readers -> 0..MaxConns]
  /\ after \in [Readers -> Nat] /\ pboot \in [Readers -> Nat]

Init ==
  /\ boot = 1 /\ sizes = <<>> /\ first = 1 /\ byteSize = 0
  /\ readers = {} /\ cleanedUp = {} /\ opened = 0
  /\ base = [c \in Conns |-> 0] /\ cboot = [c \in Conns |-> 0]
  /\ hello = [c \in Conns |-> FALSE] /\ wire = [c \in Conns |-> <<>>]
  /\ cur = [r \in Readers |-> 0]
  /\ after = [r \in Readers |-> 0] /\ pboot = [r \in Readers |-> 0]

Dead(c) == c \in 1..opened /\ \A r \in Readers : cur[r] # c

\* The bytes of the entries of a log whose numbers are in S, one by one, and
\* how many they are.
BytesOf(log, S) == UNION {{n} \X (1..log[n]) : n \in S}
Bytes(log, S)   == Cardinality(BytesOf(log, S))

-----------------------------------------------------------------------------
(* The buffer.                                                             *)

\* A write of entry n to every subscribed connection.  On a dead socket it
\* may throw, which cleans the connection up, once.
FanOut(n) ==
  /\ wire' = [c \in Conns |-> IF c \in readers /\ ~ Dead(c) THEN Append(wire[c], n) ELSE wire[c]]
  /\ \E T \in SUBSET {c \in readers : Dead(c)} :
       /\ cleanedUp' = cleanedUp \cup T
       /\ readers' = readers \ (T \ cleanedUp)

\* Variant: the evicted entries are not subtracted.
RecordUncounted(size) ==
  LET log == Append(sizes, size)
      n == Len(log)
      total(f) == byteSize + size - Bytes(log, first..(f - 1))
  IN
  /\ n <= MaxEntries
  /\ sizes' = log
  /\ \E f \in first..n :
       /\ \A g \in first..(f - 1) : total(g) > MaxBytes
       /\ total(f) <= MaxBytes \/ f = n
       /\ first' = f /\ byteSize' = byteSize + size
  /\ FanOut(n)
  /\ UNCHANGED <<boot, connVars, hello, cur, after, pboot>>

\* record(): append, drop the oldest entries past the cap but never the last
\* one, fan out.
Record(size) ==
  LET log == Append(sizes, size)
      n == Len(log)
      total(f) == byteSize + size - Bytes(log, first..(f - 1))
  IN
  /\ n <= MaxEntries
  /\ sizes' = log
  /\ \E f \in first..n :
       /\ \A g \in first..(f - 1) : total(g) > MaxBytes
       /\ total(f) <= MaxBytes \/ f = n
       /\ first' = f /\ byteSize' = total(f)
  /\ FanOut(n)
  /\ UNCHANGED <<boot, connVars, hello, cur, after, pboot>>

\* Variant: the replay starts at the cursor.
ReplayFromCursor(a) ==
  LET lo == IF a >= first THEN a ELSE first
  IN [i \in 1..(Len(sizes) + 1 - lo) |-> lo + i - 1]

\* snapshotAfter(a); snapshot() if a = 0.
Replay(a) ==
  LET lo == IF a >= first THEN a + 1 ELSE first
  IN [i \in 1..(Len(sizes) + 1 - lo) |-> lo + i - 1]

-----------------------------------------------------------------------------
(* Connections.                                                            *)

From(r) == IF r \in Tabs THEN 0 ELSE after[r]

\* What a connection is made with: the hello of the indexed mode and the
\* replay, in one tick with the subscription.
Open(r, c) ==
  /\ wire' = [wire EXCEPT ![c] = Replay(From(r))]
  /\ hello' = [hello EXCEPT ![c] = r \in Pumps]
  /\ base' = [base EXCEPT ![c] = first]
  /\ cboot' = [cboot EXCEPT ![c] = boot]
  /\ after' = [after EXCEPT ![r] = From(r)]

\* Variant: the handler forgets to subscribe once it has replayed.
ConnectUnsubscribed(r) ==
  LET c == opened + 1 IN
  /\ cur[r] = 0
  /\ opened < MaxConns /\ opened' = c
  /\ Open(r, c)
  /\ cur' = [cur EXCEPT ![r] = c]
  /\ UNCHANGED <<readers, cleanedUp, bufferVars, pboot>>

\* GET /agent/stream.  On a socket that is already dead a write may throw:
\* the hello, before there is a subscription to undo, or a replayed entry.
Connect(r) ==
  LET c == opened + 1 IN
  /\ cur[r] = 0
  /\ opened < MaxConns /\ opened' = c
  /\ UNCHANGED <<bufferVars, pboot>>
  /\ \/ /\ Open(r, c)
        /\ cur' = [cur EXCEPT ![r] = c]
        /\ readers' = readers \cup {c}
        /\ UNCHANGED cleanedUp
     \/ /\ DeadOnArrival
        /\ UNCHANGED <<base, cboot, hello, wire, cur, after>>
        /\ \/ readers' = readers \cup {c} /\ UNCHANGED cleanedUp
           \/ /\ r \in Pumps
              /\ readers' = readers \cup {c} /\ cleanedUp' = cleanedUp \cup {c}
           \/ /\ Replay(From(r)) # <<>>
              /\ cleanedUp' = cleanedUp \cup {c} /\ UNCHANGED readers

\* Variant: the close hook stops the keepalive but does not unsubscribe.
ReapKeepalive(c) ==
  /\ Dead(c) /\ c \notin cleanedUp
  /\ cleanedUp' = cleanedUp \cup {c}
  /\ UNCHANGED <<readers, bufferVars, connVars, hello, wire, cur, after, pboot>>

\* The 'close' event of a dead socket, or a ping that throws.
Reap(c) ==
  /\ Dead(c) /\ c \notin cleanedUp
  /\ cleanedUp' = cleanedUp \cup {c}
  /\ readers' = readers \ {c}
  /\ UNCHANGED <<bufferVars, connVars, hello, wire, cur, after, pboot>>

-----------------------------------------------------------------------------
(* The readers and the network.                                            *)

\* A pump is greeted; if by another boot than its cursor's, it starts over.
Hello(p) ==
  LET c == cur[p] IN
  /\ c # 0 /\ hello[c]
  /\ hello' = [hello EXCEPT ![c] = FALSE]
  /\ pboot' = [pboot EXCEPT ![p] = cboot[c]]
  /\ IF pboot[p] \in {0, cboot[c]}
     THEN UNCHANGED <<cur, after, wire>>
     ELSE /\ cur' = [cur EXCEPT ![p] = 0] /\ after' = [after EXCEPT ![p] = 0]
          /\ wire' = [wire EXCEPT ![c] = <<>>]
  /\ UNCHANGED <<bufferVars, readers, cleanedUp, connVars>>

Deliver(r) ==
  LET c == cur[r] IN
  /\ c # 0 /\ ~ hello[c] /\ wire[c] # <<>>
  /\ after' = [after EXCEPT ![r] = Head(wire[c])]
  /\ wire' = [wire EXCEPT ![c] = Tail(wire[c])]
  /\ UNCHANGED <<bufferVars, readers, cleanedUp, connVars, hello, cur, pboot>>

\* The connection breaks: the reader loses what was on its way.
Sever(r) ==
  /\ cur[r] # 0
  /\ cur' = [cur EXCEPT ![r] = 0]
  /\ wire' = [wire EXCEPT ![cur[r]] = <<>>]
  /\ hello' = [hello EXCEPT ![cur[r]] = FALSE]
  /\ UNCHANGED <<bufferVars, readers, cleanedUp, connVars, after, pboot>>

\* The runtime restarts; what it had written may still arrive.
Restart ==
  /\ boot < MaxBoots /\ boot' = boot + 1
  /\ sizes' = <<>> /\ first' = 1 /\ byteSize' = 0
  /\ readers' = {} /\ cleanedUp' = 1..opened
  /\ UNCHANGED <<connVars, hello, wire, cur, after, pboot>>

Next ==
  \/ \E size \in Sizes : Record(size)
  \/ \E r \in Readers : Connect(r) \/ Deliver(r) \/ Sever(r)
  \/ \E p \in Pumps : Hello(p)
  \/ \E c \in Conns : Reap(c)
  \/ Restart

\* A dead socket is closed by the kernel's retransmission timeout, at last.
Fairness == \A c \in Conns : WF_vars(Reap(c))

Spec == Init /\ [][Next]_vars
FairSpec == Spec /\ Fairness

-----------------------------------------------------------------------------
(* Properties.                                                             *)

\* The byte count is that of the entries kept, and exceeds the cap only for
\* a single entry that is larger than it (ringBuffer.js:25-31).
ByteExact ==
  /\ byteSize = Bytes(sizes, first..Len(sizes))
  /\ byteSize > MaxBytes => first = Len(sizes)

\* A reader passes over an entry only if the buffer had dropped it when its
\* connection was made (agentStream.js:44-45).
NoGap ==
  [][\A r \in Readers : \A n \in (after[r] + 1)..(after'[r] - 1) : n < base[cur[r]]]_vars

\* Every entry taken is a later one than the last: none comes twice, over
\* any number of reconnections and boots (agentStream.js:8-10,44-45).
OnceInOrder == [][\A r \in Readers : Deliver(r) => after'[r] > after[r]]_vars

\* A reader with nothing on its way has taken the last entry there is
\* (ringBuffer.js:22-24).
NothingMissed ==
  \A r \in Readers :
    LET c == cur[r] IN
    c # 0 /\ cboot[c] = boot /\ ~ hello[c] /\ wire[c] = <<>> => after[r] = Len(sizes)

\* A dead connection does not stay subscribed (agentStream.js:31-33).
DeadReaped == \A c \in Conns : (c \in readers /\ Dead(c)) ~> c \notin readers

(* The buffer accounts for what it keeps, to the byte. *)
BufferExact == TypeOK /\ ByteExact

(* What a reader takes comes in order, once, and without holes but for entries
   the buffer had dropped when the reader came. *)
InOrder == NoGap /\ OnceInOrder
=============================================================================
