------------------------------ MODULE ProxyRoutes ------------------------------
(***************************************************************************)
(* The proxy routes (routes.js, controlRoutes.js): a table in memory, a    *)
(* file, and a watcher that polls the file's time stamp.  The control API  *)
(* changes the table and writes it out at once; an editor (a person or an  *)
(* agent) reads the file, and later truncates and rewrites it, with a row  *)
(* replaced, or one more for a prefix that has one already.                *)
(*                                                                         *)
(* A path is the sequence of its segments, "/" the empty one.              *)
(***************************************************************************)
EXTENDS Naturals, Sequences, SequencesExt

CONSTANTS
  Paths,     \* request paths, and the prefixes of routes
  AppPorts,
  BadPort,   \* a port that is no port: the entry is dropped on load
  MaxEdits   \* bound: edits of the file from outside

ASSUME RoutesAssumption ==
  Paths \subseteq Seq(STRING) /\ BadPort \notin AppPorts /\ MaxEdits \in Nat

\* The file: absent, whole, or torn (truncated, or two writers' bytes).
Whole(rs) == [state |-> "whole", rows |-> rs]
Absent == [state |-> "absent", rows |-> <<>>]
Torn == [state |-> "torn", rows |-> <<>>]

VARIABLES
  table,   \* this.routes
  file,    \* what the file holds
  stamp, seen, \* its modification count; the one the watcher last saw
  edit,    \* the editor: what it read, and its next step
  edits,
  owned,   \* history: the ports each prefix was last given, by whomever
  clashed  \* history: has the API written over an edit it had not loaded?

routesVars == <<table, file, stamp, seen, edit, edits, owned, clashed>>

Route(prefix, port) == [prefix |-> prefix, port |-> port]

\* routes.filter(): the rows of rs that are in S, in their order.
Keep(rs, S) ==
  LET kept[i \in 0..Len(rs)] ==
        IF i = 0 THEN <<>>
        ELSE IF rs[i] \in S THEN Append(kept[i - 1], rs[i]) ELSE kept[i - 1]
  IN  kept[Len(rs)]

Without(rs, prefix) == Keep(rs, {r \in ToSet(rs) : r.prefix # prefix})

PortsOf(rs, prefix) == {r.port : r \in {r \in ToSet(rs) : r.prefix = prefix}} \ {BadPort}

\* _load(): entries without a valid port are dropped, and a file that does not
\* parse is no routes.
Loaded == Keep(file.rows, {r \in ToSet(file.rows) : r.port # BadPort})

RoutesTypeOK ==
  /\ \A i \in DOMAIN table : table[i].prefix \in Paths /\ table[i].port \in AppPorts
  /\ stamp \in Nat /\ seen \in 0..stamp /\ edits \in 0..MaxEdits
  /\ edit.step \in {"closed", "open", "truncated"}
  /\ owned \in [Paths -> SUBSET AppPorts] /\ clashed \in BOOLEAN

RoutesInit ==
  /\ table = <<>> /\ file = Absent /\ stamp = 0 /\ seen = 0 /\ edits = 0
  /\ edit = [step |-> "closed", rows |-> <<>>, prefix |-> <<>>]
  /\ owned = [p \in Paths |-> {}] /\ clashed = FALSE

-----------------------------------------------------------------------------
\* _save(): writeFileSync, whole by the time anything else runs.  A writer that
\* has truncated the file still writes at its own offset.
Save(rs) == table' = rs /\ file' = Whole(rs) /\ stamp' = stamp + 1

Clash == clashed' = (clashed \/ edit.step # "closed" \/ table # Loaded)

\* add(): replaces a route with the same prefix.
Add(prefix, port) == Save(Append(Without(table, prefix), Route(prefix, port)))

RouteAdd(prefix, port) ==
  /\ Add(prefix, port) /\ Clash
  /\ owned' = [owned EXCEPT ![prefix] = {port}]
  /\ UNCHANGED <<seen, edit, edits>>

\* remove(): 404, and nothing written, if there is none.
RouteRemove(prefix) ==
  /\ Without(table, prefix) # table
  /\ Save(Without(table, prefix)) /\ Clash
  /\ owned' = [owned EXCEPT ![prefix] = {}]
  /\ UNCHANGED <<seen, edit, edits>>

\* The editor opens the file, replaces a prefix's rows by one or adds one, and
\* writes it back.
EditOpen(prefix, port) ==
  /\ edit.step = "closed" /\ edits < MaxEdits /\ file # Torn
  /\ \E rows \in {file.rows, Without(file.rows, prefix)} :
       edit' = [step |-> "open", prefix |-> prefix, rows |-> Append(rows, Route(prefix, port))]
  /\ edits' = edits + 1
  /\ UNCHANGED <<table, file, stamp, seen, owned, clashed>>

EditTruncate ==
  /\ edit.step = "open"
  /\ edit' = [edit EXCEPT !.step = "truncated"]
  /\ file' = Torn /\ stamp' = stamp + 1
  /\ UNCHANGED <<table, seen, edits, owned, clashed>>

EditWrite ==
  /\ edit.step = "truncated"
  /\ file' \in {Whole(edit.rows)} \cup (IF file = Torn THEN {} ELSE {Torn})
  /\ stamp' = stamp + 1
  /\ edit' = [edit EXCEPT !.step = "closed"]
  /\ owned' = [owned EXCEPT ![edit.prefix] = PortsOf(edit.rows, edit.prefix)]
  /\ UNCHANGED <<table, seen, edits, clashed>>

\* Variant: the watcher goes by the first change only.
PollOnce == seen = 0 /\ stamp # 0 /\ table' = Loaded

\* fs.watchFile's poll, every 2 s: a new time stamp loads the file.
PollChanged == seen # stamp /\ table' = Loaded

Poll ==
  /\ PollChanged /\ seen' = stamp
  /\ UNCHANGED <<file, stamp, edit, edits, owned, clashed>>

RoutesRequest ==
  \/ \E p \in Paths, n \in AppPorts : RouteAdd(p, n)
  \/ \E p \in Paths : RouteRemove(p)

RoutesEvent ==
  \/ \E p \in Paths, n \in AppPorts \cup {BadPort} : EditOpen(p, n)
  \/ EditTruncate \/ EditWrite \/ Poll

RoutesFairness == WF_routesVars(Poll) /\ WF_routesVars(EditTruncate) /\ WF_routesVars(EditWrite)

-----------------------------------------------------------------------------
\* match(): one pass over the table, keeping the longest so far.  The length of
\* a prefix in characters grows with its segments, and "/" counts as 1.
Weight(r) == 1 + Len(r.prefix)
None == [prefix |-> <<>>, port |-> BadPort]

Better(path, r, best) ==
  /\ IsPrefix(r.prefix, path)
  /\ best = None \/ Weight(r) > Weight(best)

Match(path) ==
  LET best[i \in 0..Len(table)] ==
        IF i = 0 THEN None
        ELSE IF Better(path, table[i], best[i - 1]) THEN table[i] ELSE best[i - 1]
  IN  best[Len(table)]

Downstream(path, r) == SubSeq(path, Len(r.prefix) + 1, Len(path))

-----------------------------------------------------------------------------
(* The route that serves a path is the one with the longest prefix, for every
   table that API calls and edits produce, those with two rows for one prefix
   (the first counts) and those in any order. *)
LongestWins ==
  \A path \in Paths :
    LET hits == {i \in DOMAIN table : IsPrefix(table[i].prefix, path)} IN
    IF hits = {} THEN Match(path) = None
    ELSE LET i == CHOOSE i \in hits : \A j \in hits \ {i} :
                    \/ Len(table[j].prefix) < Len(table[i].prefix)
                    \/ Len(table[j].prefix) = Len(table[i].prefix) /\ i < j
         IN  Match(path) = table[i] /\ table[i].prefix \o Downstream(path, table[i]) = path

(* As long as the API never writes while an edit is in progress or not yet
   loaded, nothing anyone set is lost: at rest each prefix has the ports it was
   given, two if an edit gave it a second row. *)
NothingLost ==
  ~clashed /\ edit.step = "closed" /\ seen = stamp =>
    \A p \in Paths : PortsOf(table, p) = owned[p]

(* When everybody has finished, the table in memory is the file's: a file read
   while it is rewritten, an API write in the middle of an edit, a file left
   unreadable, none of them leaves the two apart. *)
Converges == <>[](table = Loaded)
===============================================================================
