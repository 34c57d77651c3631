--------------------------- MODULE EdgeRoutesProofs ---------------------------
(***************************************************************************)
(* Proofs about the edge's route admin API, EdgeRoutes, for any number of  *)
(* hosts, upstreams, requests and crashes.                                 *)
(***************************************************************************)
EXTENDS EdgeRoutes, FiniteSetTheorems, TLAPS

-----------------------------------------------------------------------------
(* The inductive invariant.                                                *)

\* A file of its own for every path, and one to write and to read where a step
\* writes and reads.
Paths ==
  /\ \A f \in Files : tmp[f] <= inodes /\ file[f] <= inodes
  /\ \A f, g \in Files : tmp[f] # 0 => tmp[f] # file[g]
  /\ \A f, g \in Files : f # g => (tmp[f] # 0 => tmp[f] # tmp[g]) /\ (file[f] # 0 => file[f] # file[g])
  /\ \A r \in Requests : pc[r] \in {"write json", "write map"} => fd[r] # 0
  /\ \A r \in Requests : pc[r] = "reload" => file["map"] # 0
  /\ \A r \in Requests : Active(r) => up

\* A request makes two files at most, and so does not make one more for a boot
\* that its failed save brings about.
MadeJson == {r \in Requests : pc[r] \notin {"idle", "open json"}}
MadeMap  == {r \in Requests : pc[r] \in {"write map", "rename map", "reload", "answered", "lost"}}
Budget ==
  inodes <= Cardinality(MadeJson) + Cardinality(MadeMap) + crashes + (IF up THEN 1 ELSE 0)

\* A request has asked for host h to be u; every route of m was asked for.
Wanted(h, u) == \E r \in Requests : pc[r] # "idle" /\ host[r] = h /\ next[r][h] = u
Asked(m) == \A h \in Hosts : m[h] # None => Wanted(h, m[h])

\* So were those of every map there is: current, to be made, or in a file.
AllAsked ==
  /\ Asked(routes)
  /\ \A r \in Requests : pc[r] # "idle" => Asked(next[r])
  /\ \A i \in Inodes : Asked(data[i].map)

\* The stages of a request that has not saved its map yet, and that has.
Saving(r) == pc[r] \in {"open json", "write json", "rename json"}
Applying(r) == pc[r] \in {"open map", "write map", "rename map", "reload"}

\* What a request finds at its stage when it is alone.
Alone(r) ==
  /\ Saving(r) => Loaded = routes /\ \A h \in Hosts : h # host[r] => next[r][h] = Loaded[h]
  /\ pc[r] = "write json" => fd[r] = tmp["json"] /\ data[fd[r]] = Truncated
  /\ pc[r] = "rename json" => tmp["json"] # 0 /\ data[tmp["json"]] = Whole(next[r])
  /\ Applying(r) => file["json"] # 0 /\ data[file["json"]] = Whole(next[r])
  /\ pc[r] = "write map" => fd[r] = tmp["map"] /\ data[fd[r]] = Truncated
  /\ pc[r] = "rename map" => tmp["map"] # 0 /\ data[tmp["map"]] = Whole(next[r])
  /\ pc[r] = "reload" => data[file["map"]] = Whole(next[r])

\* What was promised is on disk, but for the host whose new route is saved and
\* not answered yet.
Kept == \A h \in Hosts :
  (promised[h] # Unsure /\ \A r \in Requests : Applying(r) => host[r] # h)
    => Loaded[h] = promised[h]

Settled ==
  (up /\ \A r \in Requests : ~ Active(r)) =>
    routes = Loaded /\ (reloaded => caddy = Loaded)

\* While requests have come one at a time.
OneByOne ==
  /\ \A q, r \in Requests : Active(q) /\ Active(r) => q = r
  /\ \A r \in Requests : Alone(r)
  /\ file["json"] # 0 => data[file["json"]].state = "whole"
  /\ Kept /\ Settled
Serial == ~ overlapped => OneByOne

EInv == TypeOK /\ Paths /\ Budget /\ AllAsked /\ Serial

-----------------------------------------------------------------------------
(* Room for a new file.                                                    *)

\* Sets of requests are finite, and a larger one has more members.
LEMMA Counts ==
  /\ \A S \in SUBSET Requests :
       IsFiniteSet(S) /\ Cardinality(S) \in Nat /\ Cardinality(S) <= MaxRequests
  /\ \A S, T \in SUBSET Requests :
       /\ S \subseteq T => Cardinality(S) <= Cardinality(T)
       /\ (S \subseteq T /\ S # T) => Cardinality(S) + 1 <= Cardinality(T)
<1>1. IsFiniteSet(Requests) /\ Cardinality(Requests) = MaxRequests
  <2>1. 1 \in Int /\ MaxRequests \in Int
    BY EdgeAssumption
  <2> QED BY <2>1, FS_Interval, EdgeAssumption DEF Requests
<1>2. ASSUME NEW T \in SUBSET Requests, NEW S \in SUBSET T
      PROVE  /\ IsFiniteSet(S) /\ Cardinality(S) \in Nat /\ Cardinality(T) \in Nat
             /\ Cardinality(S) <= Cardinality(T)
             /\ S # T => Cardinality(S) + 1 <= Cardinality(T)
  <2>1. IsFiniteSet(T)
    BY <1>1, FS_Subset
  <2>2. IsFiniteSet(S) /\ Cardinality(S) <= Cardinality(T)
    BY <2>1, FS_Subset
  <2>3. Cardinality(S) \in Nat /\ Cardinality(T) \in Nat
    BY <2>1, <2>2, FS_CardinalityType
  <2>4. S # T => Cardinality(S) < Cardinality(T)
    BY <2>1, <2>2, <2>3, FS_Subset
  <2> QED BY <2>2, <2>3, <2>4
<1> QED BY <1>1, <1>2

\* Who is about to create a file finds room for it.
LEMMA Room ==
  ASSUME TypeOK, Budget
  PROVE  /\ inodes \in Nat /\ 0 \notin Inodes
         /\ \A i \in Nat : i \in Inodes <=> (1 <= i /\ i <= 2 * MaxRequests + MaxCrashes + 1)
         /\ \A r \in Requests : pc[r] \in {"open json", "open map"} => inodes + 1 \in Inodes
         /\ ~ up => inodes + 1 \in Inodes
<1>1. MaxRequests \in Nat /\ MaxCrashes \in Nat /\ crashes \in 0..MaxCrashes
  BY EdgeAssumption DEF TypeOK
<1>2. inodes \in Nat /\ 0 \notin Inodes
  <2>1. inodes \in Inodes \cup {0}
    BY DEF TypeOK
  <2> QED BY <1>1, <2>1 DEF Inodes
<1>3. MadeJson \in SUBSET Requests /\ MadeMap \in SUBSET Requests
  BY DEF MadeJson, MadeMap
<1>4. /\ Cardinality(MadeJson) \in 0..MaxRequests
      /\ Cardinality(MadeMap) \in 0..MaxRequests
  BY <1>1, <1>3, Counts
<1>5. ASSUME NEW r \in Requests, pc[r] = "open json"
      PROVE  inodes + 1 \in Inodes
  <2>1. Cardinality(MadeJson) + 1 <= Cardinality(MadeJson \cup {r})
    BY <1>5, <1>3, Counts DEF MadeJson
  <2>2. Cardinality(MadeJson \cup {r}) \in 0..MaxRequests
    BY <1>1, <1>3, Counts
  <2> QED BY <1>1, <1>2, <1>4, <2>1, <2>2 DEF Budget, Inodes
<1>6. ASSUME NEW r \in Requests, pc[r] = "open map"
      PROVE  inodes + 1 \in Inodes
  <2>1. Cardinality(MadeMap) + 1 <= Cardinality(MadeMap \cup {r})
    BY <1>6, <1>3, Counts DEF MadeMap
  <2>2. Cardinality(MadeMap \cup {r}) \in 0..MaxRequests
    BY <1>1, <1>3, Counts
  <2> QED BY <1>1, <1>2, <1>4, <2>1, <2>2 DEF Budget, Inodes
<1>7. ~ up => inodes + 1 \in Inodes
  BY <1>1, <1>2, <1>4 DEF Budget, Inodes
<1>8. \A i \in Nat : i \in Inodes <=> (1 <= i /\ i <= 2 * MaxRequests + MaxCrashes + 1)
  BY <1>1 DEF Inodes
<1> QED BY <1>2, <1>5, <1>6, <1>7, <1>8

-----------------------------------------------------------------------------
(* The steps of a request, by file.                                        *)

Opening(f)  == IF f = "json" THEN "open json" ELSE "open map"
Writing(f)  == IF f = "json" THEN "write json" ELSE "write map"
Renaming(f) == IF f = "json" THEN "rename json" ELSE "rename map"
Renamed(f)  == IF f = "json" THEN "open map" ELSE "reload"

Moves(r, at, then) ==
  /\ pc[r] = at /\ pc' = [pc EXCEPT ![r] = then]
  /\ UNCHANGED <<up, crashes, routes, host, next, caddy, reloaded, promised, overlapped>>
Opens(r, f)   == Moves(r, Opening(f), Writing(f)) /\ TruncateTmp(r, f)
Writes(r, f)  == Moves(r, Writing(f), Renaming(f)) /\ WriteTmp(r, f)
Renames(r, f) == Moves(r, Renaming(f), Renamed(f)) /\ RenameTmp(r, f) /\ tmp[f] # 0

LEMMA FileSteps ==
  ASSUME NEW r \in Requests, Save(r) \/ Apply(r)
  PROVE  \E f \in Files : Opens(r, f) \/ Writes(r, f) \/ Renames(r, f)
<1>1. CASE Save(r)
  <2>1. Opens(r, "json") \/ Writes(r, "json") \/ Renames(r, "json")
    BY <1>1 DEF Save, FileStep, Opens, Writes, Renames, Moves, Opening, Writing, Renaming, Renamed
  <2> QED BY <2>1 DEF Files
<1>2. CASE Apply(r)
  <2>1. Opens(r, "map") \/ Writes(r, "map") \/ Renames(r, "map")
    BY <1>2 DEF Apply, FileStep, Opens, Writes, Renames, Moves, Opening, Writing, Renaming, Renamed
  <2> QED BY <2>1 DEF Files
<1> QED BY <1>1, <1>2

-----------------------------------------------------------------------------
(* Types.                                                                  *)

\* What is in a file has a map, and a whole file is that map.
LEMMA ContentTypes ==
  /\ NoRoutes \in Maps /\ Truncated \in Contents /\ Mixed \in Contents
  /\ Truncated.state # "whole" /\ Mixed.state # "whole"
  /\ Truncated.map = NoRoutes /\ Mixed.map = NoRoutes
  /\ \A c \in Contents : c.map \in Maps /\ (c.state = "whole" => c = Whole(c.map))
  /\ \A m \in Maps : /\ Whole(m) \in Contents /\ Whole(m).state = "whole" /\ Whole(m).map = m
                     /\ Whole(m) # Truncated /\ Whole(m) # Mixed
<1>1. NoRoutes \in Maps
  BY DEF NoRoutes, Maps
<1>2. \A m \in Maps : Whole(m).state = "whole" /\ Whole(m).map = m
  BY DEF Whole
<1>3. /\ Truncated.state # "whole" /\ Mixed.state # "whole"
      /\ Truncated.map = NoRoutes /\ Mixed.map = NoRoutes
  BY DEF Truncated, Mixed
<1>4. ASSUME NEW c \in Contents
      PROVE  c.map \in Maps /\ (c.state = "whole" => c = Whole(c.map))
  <2>1. CASE c \in {Whole(m) : m \in Maps}
    <3>1. PICK m \in Maps : c = Whole(m)
      BY <2>1
    <3> QED BY <3>1, <1>2
  <2>2. CASE c \in {Truncated, Mixed}
    BY <2>2, <1>1, <1>3
  <2> QED BY <2>1, <2>2 DEF Contents
<1>5. \A m \in Maps : Whole(m) # Truncated /\ Whole(m) # Mixed
  BY <1>2, <1>3
<1> QED BY <1>1, <1>2, <1>3, <1>4, <1>5 DEF Contents

\* The map that a boot would load.
LEMMA LoadedType ==
  ASSUME TypeOK
  PROVE  /\ Loaded \in Maps
         /\ Loaded = NoRoutes \/ \E i \in Inodes : Loaded = data[i].map
<1>1. file["json"] \in Inodes \cup {0} /\ data \in [Inodes -> Contents]
  BY DEF TypeOK, Files
<1>2. CASE file["json"] # 0 /\ data[file["json"]].state = "whole"
  BY <1>1, <1>2, ContentTypes DEF Loaded
<1>3. CASE ~ (file["json"] # 0 /\ data[file["json"]].state = "whole")
  BY <1>3, ContentTypes DEF Loaded
<1> QED BY <1>2, <1>3

LEMMA OpensTypes ==
  ASSUME TypeOK, Budget, NEW r \in Requests, NEW f \in Files, Opens(r, f)
  PROVE  TypeOK'
<1>1. (IF tmp[f] = 0 THEN inodes + 1 ELSE tmp[f]) \in Inodes
  <2>1. pc[r] \in {"open json", "open map"} /\ tmp[f] \in Inodes \cup {0}
    BY DEF Opens, Moves, Opening, TypeOK
  <2> QED BY <2>1, Room
<1>2. fd' \in [Requests -> Inodes \cup {0}]
  BY <1>1 DEF Opens, TruncateTmp, TypeOK
<1>3. tmp' \in [Files -> Inodes \cup {0}] /\ file' \in [Files -> Inodes \cup {0}]
  BY <1>1 DEF Opens, TruncateTmp, TypeOK
<1>4. inodes' \in Inodes \cup {0}
  BY <1>1 DEF Opens, TruncateTmp, TypeOK
<1>5. data' \in [Inodes -> Contents]
  BY <1>1, ContentTypes DEF Opens, TruncateTmp, TypeOK
<1>6. pc' \in [Requests -> {"idle", "open json", "write json", "rename json",
               "open map", "write map", "rename map", "reload", "answered", "lost"}]
  BY DEF Opens, Moves, Writing, TypeOK
<1>7. UNCHANGED <<up, crashes, routes, host, next, caddy, reloaded, promised, overlapped>>
  BY DEF Opens, Moves
<1> QED BY <1>2, <1>3, <1>4, <1>5, <1>6, <1>7 DEF TypeOK

LEMMA WritesTypes ==
  ASSUME TypeOK, Paths, NEW r \in Requests, NEW f \in Files, Writes(r, f)
  PROVE  TypeOK'
<1>1. fd[r] \in Inodes /\ next[r] \in Maps
  BY DEF Writes, Moves, Writing, Paths, TypeOK
<1>2. data' \in [Inodes -> Contents]
  <2>1. PICK c \in {Whole(next[r]), Mixed} : data' = [data EXCEPT ![fd[r]] = c]
    BY DEF Writes, WriteTmp
  <2>2. c \in Contents
    BY <1>1, ContentTypes
  <2> QED BY <1>1, <2>1, <2>2 DEF TypeOK
<1>3. pc' \in [Requests -> {"idle", "open json", "write json", "rename json",
               "open map", "write map", "rename map", "reload", "answered", "lost"}]
  BY DEF Writes, Moves, Renaming, TypeOK
<1>4. UNCHANGED <<up, crashes, routes, host, next, caddy, reloaded, promised, overlapped,
                  fd, inodes, tmp, file>>
  BY DEF Writes, Moves, WriteTmp
<1> QED BY <1>2, <1>3, <1>4 DEF TypeOK

LEMMA RenamesTypes ==
  ASSUME TypeOK, NEW r \in Requests, NEW f \in Files, Renames(r, f)
  PROVE  TypeOK'
<1>1. file' \in [Files -> Inodes \cup {0}] /\ tmp' \in [Files -> Inodes \cup {0}]
  BY DEF Renames, RenameTmp, TypeOK
<1>2. pc' \in [Requests -> {"idle", "open json", "write json", "rename json",
               "open map", "write map", "rename map", "reload", "answered", "lost"}]
  BY DEF Renames, Moves, Renamed, TypeOK
<1>3. UNCHANGED <<up, crashes, routes, host, next, caddy, reloaded, promised, overlapped,
                  fd, inodes, data>>
  BY DEF Renames, Moves, RenameTmp
<1> QED BY <1>1, <1>2, <1>3 DEF TypeOK

LEMMA RequestTypes ==
  ASSUME TypeOK, NEW r \in Requests, NEW h \in Hosts, NEW u \in Upstreams \cup {None},
         Request(r, h, u)
  PROVE  TypeOK'
<1>1. next' \in [Requests -> Maps]
  <2>1. [routes EXCEPT ![h] = u] \in Maps
    BY DEF TypeOK, Maps
  <2> QED BY <2>1 DEF Request, TypeOK
<1>2. host' \in [Requests -> Hosts]
  BY DEF Request, TypeOK
<1>3. pc' \in [Requests -> {"idle", "open json", "write json", "rename json",
               "open map", "write map", "rename map", "reload", "answered", "lost"}]
  BY DEF Request, TypeOK
<1>4. overlapped' \in BOOLEAN
  BY DEF Request, TypeOK
<1>5. UNCHANGED <<up, crashes, routes, fd, inodes, tmp, file, data, caddy, reloaded, promised>>
  BY DEF Request, fileVars
<1> QED BY <1>1, <1>2, <1>3, <1>4, <1>5 DEF TypeOK

LEMMA DieTypes ==
  ASSUME TypeOK, Die, crashes' \in 0..MaxCrashes
  PROVE  TypeOK'
<1>1. pc' \in [Requests -> {"idle", "open json", "write json", "rename json",
               "open map", "write map", "rename map", "reload", "answered", "lost"}]
  BY DEF Die, TypeOK
<1>2. promised' \in [Hosts -> Upstreams \cup {None, Unsure}]
  <2>1. \A h \in Hosts : promised'[h] = Unsure \/ promised'[h] = promised[h]
    BY DEF Die
  <2>2. promised' = [h \in Hosts |-> promised'[h]]
    BY DEF Die
  <2> QED BY <2>1, <2>2 DEF TypeOK
<1>3. UNCHANGED <<routes, host, next, fd, inodes, tmp, file, data, caddy, reloaded, overlapped>>
  BY DEF Die, fileVars
<1>4. up' \in BOOLEAN
  BY DEF Die
<1> QED BY <1>1, <1>2, <1>3, <1>4 DEF TypeOK

LEMMA AnswerTypes ==
  ASSUME TypeOK, NEW r \in Requests, Answer(r), caddy' \in Maps, reloaded' \in BOOLEAN
  PROVE  TypeOK'
<1>1. pc' \in [Requests -> {"idle", "open json", "write json", "rename json",
               "open map", "write map", "rename map", "reload", "answered", "lost"}]
  BY DEF Answer, TypeOK
<1>2. promised' \in [Hosts -> Upstreams \cup {None, Unsure}]
  <2>1. next[r][host[r]] \in Upstreams \cup {None, Unsure}
    <3>1. host[r] \in Hosts /\ next[r] \in [Hosts -> Upstreams \cup {None}]
      BY DEF TypeOK, Maps
    <3> QED BY <3>1
  <2> QED BY <2>1 DEF Answer, TypeOK
<1>3. routes' \in Maps
  BY DEF Answer, TypeOK
<1>4. UNCHANGED <<up, crashes, host, next, fd, inodes, tmp, file, data, overlapped>>
  BY DEF Answer, fileVars
<1> QED BY <1>1, <1>2, <1>3, <1>4 DEF TypeOK

\* What a reload makes of the map file is a map.
LEMMA ReloadedMap ==
  ASSUME TypeOK, Paths, NEW r \in Requests, CaddyReload(r)
  PROVE  caddy' \in Maps /\ reloaded' \in BOOLEAN
<1>1. data[file["map"]] \in Contents
  BY DEF CaddyReload, Paths, TypeOK, Files
<1>2. MapsIn(data[file["map"]]) \subseteq Maps
  BY <1>1, ContentTypes DEF MapsIn
<1> QED BY <1>2 DEF CaddyReload, TypeOK

LEMMA BootTypes ==
  ASSUME TypeOK, Budget, Boot
  PROVE  TypeOK'
<1>1. (IF tmp["map"] = 0 THEN inodes + 1 ELSE tmp["map"]) \in Inodes
  <2>1. tmp["map"] \in Inodes \cup {0} /\ ~ up
    BY DEF Boot, TypeOK, Files
  <2> QED BY <2>1, Room
<1>2. tmp' \in [Files -> Inodes \cup {0}] /\ file' \in [Files -> Inodes \cup {0}]
  BY <1>1 DEF Boot, TypeOK
<1>3. inodes' \in Inodes \cup {0}
  BY <1>1 DEF Boot, TypeOK
<1>4. data' \in [Inodes -> Contents]
  BY <1>1, LoadedType, ContentTypes DEF Boot, TypeOK
<1>5. routes' \in Maps /\ caddy' \in Maps
  BY LoadedType DEF Boot, TypeOK
<1>6. up' \in BOOLEAN /\ reloaded' \in BOOLEAN
  BY DEF Boot, TypeOK
<1>7. UNCHANGED <<crashes, pc, host, next, fd, promised, overlapped>>
  BY DEF Boot
<1> QED BY <1>2, <1>3, <1>4, <1>5, <1>6, <1>7 DEF TypeOK

\* Inodes and crashes are counted.
LEMMA Numbers ==
  ASSUME TypeOK
  PROVE  /\ crashes \in Nat /\ crashes <= MaxCrashes /\ inodes \in Nat
         /\ "json" \in Files /\ "map" \in Files
         /\ \A i \in Inodes : i \in Nat /\ i # 0
         /\ \A g \in Files : tmp[g] \in Nat /\ file[g] \in Nat
<1>1. crashes \in Nat /\ crashes <= MaxCrashes
  <2>1. crashes \in 0..MaxCrashes
    BY DEF TypeOK
  <2> QED BY <2>1, EdgeAssumption
<1>2. \A i \in Inodes \cup {0} : i \in Nat
  BY EdgeAssumption DEF Inodes
<1>3. inodes \in Nat
  BY <1>2 DEF TypeOK
<1>4. \A g \in Files : tmp[g] \in Nat /\ file[g] \in Nat
  BY <1>2 DEF TypeOK
<1>5. \A i \in Inodes : i # 0
  BY EdgeAssumption DEF Inodes
<1> QED BY <1>1, <1>2, <1>3, <1>4, <1>5 DEF Files

-----------------------------------------------------------------------------
(* Paths and the budget of files.                                          *)

\* No request makes a file undone: a new file needs a request that gets on or a
\* boot, and a service that ends leaves the next boot a crash or a failed save.
LEMMA BudgetKept ==
  ASSUME TypeOK, TypeOK', Budget, MadeJson \subseteq MadeJson', MadeMap \subseteq MadeMap',
         crashes' >= crashes,
         \/ inodes' <= inodes /\ (up => up')
         \/ inodes' <= inodes + 1 /\ up' = up /\ (MadeJson # MadeJson' \/ MadeMap # MadeMap')
         \/ inodes' <= inodes + 1 /\ ~ up /\ up'
         \/ inodes' <= inodes /\ (crashes' > crashes \/ MadeMap # MadeMap')
  PROVE  Budget'
<1>1. /\ MadeJson \in SUBSET Requests /\ MadeMap \in SUBSET Requests
      /\ MadeJson' \in SUBSET Requests /\ MadeMap' \in SUBSET Requests
  BY DEF MadeJson, MadeMap
<1>2. /\ Cardinality(MadeJson) \in Nat /\ Cardinality(MadeMap) \in Nat
      /\ Cardinality(MadeJson') \in Nat /\ Cardinality(MadeMap') \in Nat
      /\ Cardinality(MadeJson) <= Cardinality(MadeJson')
      /\ Cardinality(MadeMap) <= Cardinality(MadeMap')
      /\ MadeJson # MadeJson' => Cardinality(MadeJson) + 1 <= Cardinality(MadeJson')
      /\ MadeMap # MadeMap' => Cardinality(MadeMap) + 1 <= Cardinality(MadeMap')
  BY <1>1, Counts
<1>3. /\ crashes \in Nat /\ crashes' \in Nat /\ inodes \in Nat /\ inodes' \in Nat
      /\ up \in BOOLEAN /\ up' \in BOOLEAN
  <2>1. crashes \in 0..MaxCrashes /\ crashes' \in 0..MaxCrashes
    BY DEF TypeOK
  <2>2. inodes \in Inodes \cup {0} /\ inodes' \in Inodes \cup {0}
    BY DEF TypeOK
  <2>3. up \in BOOLEAN /\ up' \in BOOLEAN
    BY DEF TypeOK
  <2> QED BY <2>1, <2>2, <2>3, EdgeAssumption DEF Inodes
<1> QED BY <1>2, <1>3 DEF Budget

LEMMA OpensPaths ==
  ASSUME TypeOK, Paths, Budget, NEW r \in Requests, NEW f \in Files, Opens(r, f)
  PROVE  Paths' /\ Budget'
<1>1. TypeOK'
  BY OpensTypes
<1>2. \A q \in Requests : pc'[q] = IF q = r THEN Writing(f) ELSE pc[q]
  BY DEF Opens, Moves, TypeOK
<1>3. pc[r] = Opening(f) /\ UNCHANGED <<up, crashes>>
  BY DEF Opens, Moves
<1>4. Budget'
  <2>1. MadeJson \subseteq MadeJson' /\ MadeMap \subseteq MadeMap'
    BY <1>2, <1>3 DEF MadeJson, MadeMap, Writing, Opening, Files
  <2>2. MadeJson # MadeJson' \/ MadeMap # MadeMap'
    BY <1>2, <1>3 DEF MadeJson, MadeMap, Writing, Opening, Files
  <2>3. inodes' <= inodes + 1 /\ crashes' >= crashes
    <3>1. crashes \in Nat /\ inodes \in Nat
      BY Numbers
    <3> QED BY <3>1, <1>3 DEF Opens, TruncateTmp
  <2> QED BY <2>1, <2>2, <2>3, <1>1, <1>3, BudgetKept
<1>5. PICK i \in Inodes :
        /\ i = IF tmp[f] = 0 THEN inodes + 1 ELSE tmp[f]
        /\ inodes' = IF tmp[f] = 0 THEN inodes + 1 ELSE inodes
        /\ \A g \in Files : tmp'[g] = IF g = f THEN i ELSE tmp[g]
        /\ \A q \in Requests : fd'[q] = IF q = r THEN i ELSE fd[q]
        /\ file' = file
  <2>1. pc[r] \in {"open json", "open map"} /\ tmp[f] \in Inodes \cup {0}
    BY <1>3 DEF Opening, TypeOK
  <2>2. (IF tmp[f] = 0 THEN inodes + 1 ELSE tmp[f]) \in Inodes
    BY <2>1, Room
  <2> QED BY <2>2 DEF Opens, TruncateTmp, TypeOK
<1>6. /\ inodes \in Nat /\ i \in Nat /\ i # 0
      /\ \A g \in Files : tmp[g] \in Nat /\ file[g] \in Nat
      /\ \A g \in Files : tmp[g] <= inodes /\ file[g] <= inodes
      /\ \A g, k \in Files : tmp[g] # 0 => tmp[g] # file[k]
      /\ \A g, k \in Files : (g # k /\ tmp[g] # 0) => tmp[g] # tmp[k]
      /\ \A g, k \in Files : (g # k /\ file[g] # 0) => file[g] # file[k]
  BY Numbers DEF Paths
<1>7. /\ \A g \in Files : tmp'[g] <= inodes' /\ file'[g] <= inodes'
      /\ \A g, k \in Files : tmp'[g] # 0 => tmp'[g] # file'[k]
  BY <1>5, <1>6
<1>8. \A g, k \in Files : g # k => ((tmp'[g] # 0 => tmp'[g] # tmp'[k]) /\ (file'[g] # 0 => file'[g] # file'[k]))
  BY <1>5, <1>6
<1>9. \A q \in Requests : pc'[q] \in {"write json", "write map"} => fd'[q] # 0
  BY <1>2, <1>5, <1>6 DEF Paths
<1>10. \A q \in Requests : pc'[q] = "reload" => file'["map"] # 0
  BY <1>2, <1>5 DEF Paths, Writing
<1>11. \A q \in Requests : Active(q)' => up'
  BY <1>2, <1>3 DEF Paths, Writing, Opening, Active
<1> QED BY <1>4, <1>7, <1>8, <1>9, <1>10, <1>11 DEF Paths

LEMMA WritesPaths ==
  ASSUME TypeOK, Paths, Budget, NEW r \in Requests, NEW f \in Files, Writes(r, f)
  PROVE  Paths' /\ Budget'
<1>1. TypeOK'
  BY WritesTypes
<1>2. \A q \in Requests : pc'[q] = IF q = r THEN Renaming(f) ELSE pc[q]
  BY DEF Writes, Moves, TypeOK
<1>3. pc[r] = Writing(f) /\ UNCHANGED <<up, crashes, fd, inodes, tmp, file>>
  BY DEF Writes, Moves, WriteTmp
<1>4. Budget'
  <2>1. MadeJson \subseteq MadeJson' /\ MadeMap \subseteq MadeMap'
    BY <1>2, <1>3 DEF MadeJson, MadeMap, Writing, Renaming, Files
  <2>2. inodes' <= inodes /\ crashes' >= crashes
    <3>1. crashes \in Nat /\ inodes \in Nat
      BY Numbers
    <3> QED BY <3>1, <1>3
  <2> QED BY <2>1, <2>2, <1>1, <1>3, BudgetKept
<1>5. Paths'
  BY <1>2, <1>3 DEF Paths, Writing, Renaming, Active
<1> QED BY <1>4, <1>5

LEMMA RenamesPaths ==
  ASSUME TypeOK, Paths, Budget, NEW r \in Requests, NEW f \in Files, Renames(r, f)
  PROVE  Paths' /\ Budget'
<1>1. TypeOK'
  BY RenamesTypes
<1>2. \A q \in Requests : pc'[q] = IF q = r THEN Renamed(f) ELSE pc[q]
  BY DEF Renames, Moves, TypeOK
<1>3. pc[r] = Renaming(f) /\ tmp[f] # 0 /\ UNCHANGED <<up, crashes, fd, inodes>>
  BY DEF Renames, Moves, RenameTmp
<1>4. Budget'
  <2>1. MadeJson \subseteq MadeJson' /\ MadeMap \subseteq MadeMap'
    BY <1>2, <1>3 DEF MadeJson, MadeMap, Renamed, Renaming, Files
  <2>2. inodes' <= inodes /\ crashes' >= crashes
    <3>1. crashes \in Nat /\ inodes \in Nat
      BY Numbers
    <3> QED BY <3>1, <1>3
  <2> QED BY <2>1, <2>2, <1>1, <1>3, BudgetKept
<1>5. /\ \A g \in Files : file'[g] = IF g = f THEN tmp[f] ELSE file[g]
      /\ \A g \in Files : tmp'[g] = IF g = f THEN 0 ELSE tmp[g]
  BY DEF Renames, RenameTmp, TypeOK
<1>6. \A g \in Files : tmp'[g] <= inodes' /\ file'[g] <= inodes'
  <2>1. \A g \in Files : tmp[g] <= inodes /\ file[g] <= inodes
    BY DEF Paths
  <2> QED BY <1>3, <1>5, <2>1, Numbers
<1>7. \A g, k \in Files : tmp'[g] # 0 => tmp'[g] # file'[k]
  BY <1>5 DEF Paths
<1>8. \A g, k \in Files : g # k => ((tmp'[g] # 0 => tmp'[g] # tmp'[k]) /\ (file'[g] # 0 => file'[g] # file'[k]))
  <2>1. \A g, k \in Files : /\ ((g # k /\ tmp[g] # 0) => tmp[g] # tmp[k])
                              /\ ((g # k /\ file[g] # 0) => file[g] # file[k])
                              /\ (tmp[g] # 0 => tmp[g] # file[k])
    BY DEF Paths
  <2> QED BY <1>3, <1>5, <2>1
<1>9. \A q \in Requests : pc'[q] \in {"write json", "write map"} => fd'[q] # 0
  BY <1>2, <1>3 DEF Paths, Renamed
<1>10. \A q \in Requests : pc'[q] = "reload" => file'["map"] # 0
  BY <1>2, <1>3, <1>5 DEF Paths, Renamed, Files
<1>11. \A q \in Requests : Active(q)' => up'
  BY <1>2, <1>3 DEF Paths, Renaming, Active
<1> QED BY <1>4, <1>6, <1>7, <1>8, <1>9, <1>10, <1>11 DEF Paths

LEMMA RequestPaths ==
  ASSUME TypeOK, Paths, Budget, NEW r \in Requests, NEW h \in Hosts,
         NEW u \in Upstreams \cup {None}, Request(r, h, u)
  PROVE  Paths' /\ Budget'
<1>1. TypeOK'
  BY RequestTypes
<1>2. \A q \in Requests : pc'[q] = IF q = r THEN "open json" ELSE pc[q]
  BY DEF Request, TypeOK
<1>3. pc[r] = "idle" /\ up /\ UNCHANGED <<up, crashes, fd, inodes, tmp, file>>
  BY DEF Request, fileVars
<1>4. Budget'
  <2>1. MadeJson \subseteq MadeJson' /\ MadeMap \subseteq MadeMap'
    BY <1>2, <1>3 DEF MadeJson, MadeMap
  <2>2. inodes' <= inodes /\ crashes' >= crashes
    <3>1. crashes \in Nat /\ inodes \in Nat
      BY Numbers
    <3> QED BY <3>1, <1>3
  <2> QED BY <2>1, <2>2, <1>1, <1>3, BudgetKept
<1>5. Paths'
  BY <1>2, <1>3 DEF Paths, Active
<1> QED BY <1>4, <1>5

LEMMA AnswerPaths ==
  ASSUME TypeOK, TypeOK', Paths, Budget, NEW r \in Requests, Active(r), Answer(r)
  PROVE  Paths' /\ Budget'
<1>1. \A q \in Requests : pc'[q] = IF q = r THEN "answered" ELSE pc[q]
  BY DEF Answer, TypeOK
<1>2. UNCHANGED <<up, crashes, fd, inodes, tmp, file>>
  BY DEF Answer, fileVars
<1>3. Budget'
  <2>1. MadeJson \subseteq MadeJson' /\ MadeMap \subseteq MadeMap'
    BY <1>1 DEF MadeJson, MadeMap, Active
  <2>2. inodes' <= inodes /\ crashes' >= crashes
    <3>1. crashes \in Nat /\ inodes \in Nat
      BY Numbers
    <3> QED BY <3>1, <1>2
  <2> QED BY <2>1, <2>2, <1>2, BudgetKept
<1>4. Paths'
  BY <1>1, <1>2 DEF Paths, Active
<1> QED BY <1>3, <1>4

\* The service ends at a crash or at a save that fails.
EndsAtSave == UNCHANGED crashes /\ \E r \in Requests : pc[r] = "rename json"

LEMMA DiePaths ==
  ASSUME TypeOK, TypeOK', Paths, Budget, Die, crashes' = crashes + 1 \/ EndsAtSave
  PROVE  Paths' /\ Budget'
<1>1. \A q \in Requests : pc'[q] = IF Active(q) THEN "lost" ELSE pc[q]
  BY DEF Die
<1>2. UNCHANGED <<fd, inodes, tmp, file>>
  BY DEF Die, fileVars
<1>3. Budget'
  <2>1. MadeJson \subseteq MadeJson' /\ MadeMap \subseteq MadeMap'
    BY <1>1 DEF MadeJson, MadeMap, Active
  <2>2. EndsAtSave => crashes' = crashes /\ MadeMap # MadeMap'
    BY <1>1 DEF MadeMap, Active, EndsAtSave
  <2>3. crashes \in Nat /\ inodes \in Nat
    BY Numbers
  <2>4. inodes' <= inodes
    BY <2>3, <1>2
  <2>5. crashes' >= crashes /\ (crashes' > crashes \/ MadeMap # MadeMap')
    BY <2>2, <2>3
  <2> QED BY <2>1, <2>4, <2>5, <1>2, BudgetKept
<1>4. Paths'
  BY <1>1, <1>2 DEF Paths, Active
<1> QED BY <1>3, <1>4

LEMMA BootPaths ==
  ASSUME TypeOK, Paths, Budget, Boot
  PROVE  Paths' /\ Budget'
<1>1. TypeOK'
  BY BootTypes
<1>2. ~ up /\ up' /\ UNCHANGED <<crashes, pc, fd>>
  BY DEF Boot
<1>3. PICK i \in Inodes :
        /\ i = IF tmp["map"] = 0 THEN inodes + 1 ELSE tmp["map"]
        /\ inodes' = IF tmp["map"] = 0 THEN inodes + 1 ELSE inodes
        /\ \A g \in Files : tmp'[g] = IF g = "map" THEN 0 ELSE tmp[g]
        /\ \A g \in Files : file'[g] = IF g = "map" THEN i ELSE file[g]
  <2>1. tmp["map"] \in Inodes \cup {0}
    BY DEF TypeOK, Files
  <2>2. (IF tmp["map"] = 0 THEN inodes + 1 ELSE tmp["map"]) \in Inodes
    BY <1>2, <2>1, Room
  <2> QED BY <2>2 DEF Boot, TypeOK
<1>4. /\ inodes \in Nat /\ i \in Nat /\ i # 0 /\ "map" \in Files
      /\ \A g \in Files : tmp[g] \in Nat /\ file[g] \in Nat
      /\ \A g \in Files : tmp[g] <= inodes /\ file[g] <= inodes
      /\ \A g, k \in Files : tmp[g] # 0 => tmp[g] # file[k]
      /\ \A g, k \in Files : (g # k /\ tmp[g] # 0) => tmp[g] # tmp[k]
      /\ \A g, k \in Files : (g # k /\ file[g] # 0) => file[g] # file[k]
  BY Numbers DEF Paths
<1>5. Budget'
  <2>1. MadeJson \subseteq MadeJson' /\ MadeMap \subseteq MadeMap'
    BY <1>2 DEF MadeJson, MadeMap
  <2>2. inodes' <= inodes + 1 /\ crashes' >= crashes
    <3>1. crashes \in Nat
      BY Numbers
    <3> QED BY <3>1, <1>2, <1>3, <1>4
  <2> QED BY <2>1, <2>2, <1>1, <1>2, BudgetKept
<1>6. \A g \in Files : tmp'[g] <= inodes' /\ file'[g] <= inodes'
  BY <1>3, <1>4
<1>7. \A g, k \in Files : tmp'[g] # 0 => tmp'[g] # file'[k]
  BY <1>3, <1>4
<1>8. \A g, k \in Files : g # k => ((tmp'[g] # 0 => tmp'[g] # tmp'[k]) /\ (file'[g] # 0 => file'[g] # file'[k]))
  BY <1>3, <1>4
<1>9. \A q \in Requests : pc'[q] \in {"write json", "write map"} => fd'[q] # 0
  BY <1>2 DEF Paths
<1>10. \A q \in Requests : pc'[q] = "reload" => file'["map"] # 0
  BY <1>3, <1>4
<1>11. \A q \in Requests : Active(q)' => up'
  BY <1>2
<1> QED BY <1>5, <1>6, <1>7, <1>8, <1>9, <1>10, <1>11 DEF Paths

\* Types, paths and the budget are inductive together.
LEMMA NextTypes ==
  ASSUME TypeOK, Paths, Budget, [Next]_vars
  PROVE  TypeOK' /\ Paths' /\ Budget'
<1>1. ASSUME NEW r \in Requests, NEW h \in Hosts, NEW u \in Upstreams \cup {None}, Request(r, h, u)
      PROVE  TypeOK' /\ Paths' /\ Budget'
  BY <1>1, RequestTypes, RequestPaths
<1>2. ASSUME NEW r \in Requests, Save(r) \/ Apply(r)
      PROVE  TypeOK' /\ Paths' /\ Budget'
  <2>1. PICK f \in Files : Opens(r, f) \/ Writes(r, f) \/ Renames(r, f)
    BY <1>2, FileSteps
  <2> QED BY <2>1, OpensTypes, OpensPaths, WritesTypes, WritesPaths, RenamesTypes, RenamesPaths
<1>3. ASSUME NEW r \in Requests, SaveFails(r)
      PROVE  TypeOK' /\ Paths' /\ Budget'
  <2>1. TypeOK'
    BY <1>3, DieTypes DEF SaveFails, TypeOK
  <2> QED BY <1>3, <2>1, DiePaths DEF SaveFails, EndsAtSave
<1>4. ASSUME NEW r \in Requests, ApplyFails(r)
      PROVE  TypeOK' /\ Paths' /\ Budget'
  <2>1. TypeOK'
    BY <1>4, AnswerTypes DEF ApplyFails, TypeOK
  <2> QED BY <1>4, <2>1, AnswerPaths DEF ApplyFails, Active
<1>5. ASSUME NEW r \in Requests, CaddyReload(r)
      PROVE  TypeOK' /\ Paths' /\ Budget'
  <2>1. TypeOK'
    BY <1>5, ReloadedMap, AnswerTypes DEF CaddyReload
  <2> QED BY <1>5, <2>1, AnswerPaths DEF CaddyReload, Active
<1>6. CASE Crash
  <2>1. crashes' \in 0..MaxCrashes
    BY <1>6, Numbers, EdgeAssumption DEF Crash
  <2>2. TypeOK'
    BY <1>6, <2>1, DieTypes DEF Crash
  <2> QED BY <1>6, <2>2, DiePaths DEF Crash
<1>7. CASE Boot
  BY <1>7, BootTypes, BootPaths
<1>8. CASE UNCHANGED vars
  BY <1>8 DEF vars, fileVars, TypeOK, Paths, Active, Budget, MadeJson, MadeMap
<1> QED BY <1>1, <1>2, <1>3, <1>4, <1>5, <1>6, <1>7, <1>8 DEF Next

-----------------------------------------------------------------------------
(* No route is invented.                                                   *)

\* The maps that there are.
Known(m) == \/ m = NoRoutes \/ m = routes
            \/ \E r \in Requests : pc[r] # "idle" /\ m = next[r]
            \/ \E i \in Inodes : m = data[i].map

\* A step that keeps the requests and makes no map of its own.
LEMMA AskedKept ==
  ASSUME AllAsked, UNCHANGED <<host, next>>,
         \A r \in Requests : pc'[r] = "idle" <=> pc[r] = "idle",
         Known(routes'), \A i \in Inodes : Known(data'[i].map)
  PROVE  AllAsked'
<1>1. ASSUME NEW m, Known(m)
      PROVE  \A h \in Hosts : m[h] # None =>
               \E r \in Requests : pc'[r] # "idle" /\ host'[r] = h /\ next'[r][h] = m[h]
  <2>1. Asked(m)
    BY <1>1 DEF Known, AllAsked, Asked, NoRoutes
  <2> QED BY <2>1 DEF Asked, Wanted
<1>2. \A r \in Requests : pc[r] # "idle" => Known(next[r])
  BY DEF Known
<1>3. Asked(routes)'
  BY <1>1 DEF Asked, Wanted
<1>4. (\A r \in Requests : pc[r] # "idle" => Asked(next[r]))'
  BY <1>1, <1>2 DEF Asked, Wanted
<1>5. (\A i \in Inodes : Asked(data[i].map))'
  BY <1>1 DEF Asked, Wanted
<1> QED BY <1>3, <1>4, <1>5 DEF AllAsked

LEMMA RequestAsked ==
  ASSUME TypeOK, AllAsked, NEW r \in Requests, NEW h \in Hosts,
         NEW u \in Upstreams \cup {None}, Request(r, h, u)
  PROVE  AllAsked'
<1>1. /\ pc[r] = "idle"
      /\ \A q \in Requests : pc'[q] = IF q = r THEN "open json" ELSE pc[q]
      /\ \A q \in Requests : host'[q] = IF q = r THEN h ELSE host[q]
      /\ \A q \in Requests : next'[q] = IF q = r THEN [routes EXCEPT ![h] = u] ELSE next[q]
      /\ UNCHANGED <<routes, data>>
  BY DEF Request, TypeOK, fileVars
<1>2. ASSUME NEW m, Asked(m)
      PROVE  \A k \in Hosts : m[k] # None =>
               \E q \in Requests : pc'[q] # "idle" /\ host'[q] = k /\ next'[q][k] = m[k]
  <2>1. \A q \in Requests : pc[q] # "idle" =>
          pc'[q] # "idle" /\ host'[q] = host[q] /\ next'[q] = next[q]
    BY <1>1
  <2> QED BY <1>2, <2>1 DEF Asked, Wanted
<1>3. Asked(routes)'
  <2>1. Asked(routes) /\ routes' = routes
    BY <1>1 DEF AllAsked
  <2> QED BY <1>2, <2>1 DEF Asked, Wanted
<1>4. (\A i \in Inodes : Asked(data[i].map))'
  <2>1. (\A i \in Inodes : Asked(data[i].map)) /\ data' = data
    BY <1>1 DEF AllAsked
  <2> QED BY <1>2, <2>1 DEF Asked, Wanted
<1>5. ASSUME NEW q \in Requests, pc'[q] # "idle"
      PROVE  Asked(next[q])'
  <2>1. CASE q = r
    <3>1. \A k \in Hosts : next'[r][k] = IF k = h THEN u ELSE routes[k]
      BY <1>1 DEF TypeOK, Maps
    <3>2. ASSUME NEW k \in Hosts, next'[r][k] # None
          PROVE  \E p \in Requests : pc'[p] # "idle" /\ host'[p] = k /\ next'[p][k] = next'[r][k]
      <4>1. CASE k = h
        BY <4>1, <1>1
      <4>2. CASE k # h
        BY <4>2, <3>1, <3>2, <1>2 DEF AllAsked
      <4> QED BY <4>1, <4>2
    <3> QED BY <2>1, <3>2 DEF Asked, Wanted
  <2>2. CASE q # r
    <3>1. Asked(next[q]) /\ next'[q] = next[q]
      BY <1>1, <1>5, <2>2 DEF AllAsked
    <3> QED BY <1>2, <3>1 DEF Asked, Wanted
  <2> QED BY <2>1, <2>2
<1> QED BY <1>3, <1>4, <1>5 DEF AllAsked

LEMMA NextAsked ==
  ASSUME TypeOK, Paths, Budget, AllAsked, [Next]_vars
  PROVE  AllAsked'
<1>1. \A i \in Inodes : Known(data[i].map)
  BY DEF Known
<1>2. Known(routes) /\ Known(NoRoutes) /\ Known(Loaded)
  BY LoadedType DEF Known
<1>3. ASSUME NEW r \in Requests, NEW h \in Hosts, NEW u \in Upstreams \cup {None}, Request(r, h, u)
      PROVE  AllAsked'
  BY <1>3, RequestAsked
<1>4. ASSUME NEW r \in Requests, NEW f \in Files, Opens(r, f)
      PROVE  AllAsked'
  <2>1. UNCHANGED <<host, next, routes>> /\ \A q \in Requests : pc'[q] = "idle" <=> pc[q] = "idle"
    BY <1>4 DEF Opens, Moves, Opening, Writing, TypeOK
  <2>2. \A i \in Inodes : data'[i] = data[i] \/ data'[i] = Truncated
    BY <1>4 DEF Opens, TruncateTmp, TypeOK
  <2>3. \A i \in Inodes : Known(data'[i].map)
    BY <1>1, <1>2, <2>2, ContentTypes
  <2> QED BY <1>2, <2>1, <2>3, AskedKept
<1>5. ASSUME NEW r \in Requests, NEW f \in Files, Writes(r, f)
      PROVE  AllAsked'
  <2>1. /\ UNCHANGED <<host, next, routes>> /\ pc[r] # "idle"
        /\ \A q \in Requests : pc'[q] = "idle" <=> pc[q] = "idle"
    BY <1>5 DEF Writes, Moves, Renaming, Writing, TypeOK
  <2>2. PICK c \in {Whole(next[r]), Mixed} : data' = [data EXCEPT ![fd[r]] = c]
    BY <1>5 DEF Writes, WriteTmp
  <2>3. \A i \in Inodes : data'[i] = data[i] \/ data'[i] = c
    BY <2>2 DEF TypeOK
  <2>4. c.map = next[r] \/ c.map = NoRoutes
    BY <2>2, ContentTypes DEF TypeOK
  <2>5. \A i \in Inodes : Known(data'[i].map)
    BY <1>1, <1>2, <2>1, <2>3, <2>4 DEF Known
  <2> QED BY <1>2, <2>1, <2>5, AskedKept
<1>6. ASSUME NEW r \in Requests, NEW f \in Files, Renames(r, f)
      PROVE  AllAsked'
  <2>1. UNCHANGED <<host, next, routes, data>> /\ \A q \in Requests : pc'[q] = "idle" <=> pc[q] = "idle"
    BY <1>6 DEF Renames, Moves, RenameTmp, Renaming, Renamed, TypeOK
  <2> QED BY <1>1, <1>2, <2>1, AskedKept
<1>7. ASSUME NEW r \in Requests, Save(r) \/ Apply(r)
      PROVE  AllAsked'
  BY <1>4, <1>5, <1>6, <1>7, FileSteps
<1>8. ASSUME Die
      PROVE  AllAsked'
  <2>1. UNCHANGED <<host, next, routes, data>> /\ \A q \in Requests : pc'[q] = "idle" <=> pc[q] = "idle"
    BY <1>8 DEF Die, fileVars, Active
  <2> QED BY <1>1, <1>2, <2>1, AskedKept
<1>9. ASSUME NEW r \in Requests, Active(r), Answer(r)
      PROVE  AllAsked'
  <2>1. /\ UNCHANGED <<host, next, data>> /\ pc[r] # "idle" /\ routes' = next[r]
        /\ \A q \in Requests : pc'[q] = "idle" <=> pc[q] = "idle"
    BY <1>9 DEF Answer, fileVars, Active, TypeOK
  <2>2. Known(routes')
    BY <2>1 DEF Known
  <2> QED BY <1>1, <2>1, <2>2, AskedKept
<1>10. CASE Boot
  <2>1. UNCHANGED <<host, next, pc>> /\ routes' = Loaded
    BY <1>10 DEF Boot
  <2>2. \A i \in Inodes : data'[i] = data[i] \/ data'[i] = Whole(Loaded)
    BY <1>10 DEF Boot, TypeOK
  <2>3. \A i \in Inodes : Known(data'[i].map)
    BY <1>1, <1>2, <2>2, LoadedType, ContentTypes
  <2> QED BY <1>2, <2>1, <2>3, AskedKept
<1>11. CASE UNCHANGED vars
  <2>1. UNCHANGED <<host, next, routes, data, pc>>
    BY <1>11 DEF vars, fileVars
  <2> QED BY <1>1, <1>2, <2>1, AskedKept
<1> QED BY <1>3, <1>7, <1>8, <1>9, <1>10, <1>11 DEF Next, SaveFails, ApplyFails, CaddyReload, Crash, Active

-----------------------------------------------------------------------------
(* Requests that come one at a time.                                       *)

LEMMA LoadedKept ==
  ASSUME file'["json"] = file["json"],
         file["json"] # 0 => data'[file["json"]] = data[file["json"]]
  PROVE  Loaded' = Loaded
BY DEF Loaded

\* Nothing is asked of a request that is not served.
LEMMA Resting ==
  ASSUME NEW r \in Requests, ~ Active(r)
  PROVE  Alone(r)
BY DEF Active, Alone, Saving, Applying

\* A step of the one request that is served, within its stage: others rest.
LEMMA StageKept ==
  ASSUME OneByOne, NEW r \in Requests, Active(r), Active(r)', Alone(r)',
         \A q \in Requests : q # r => pc'[q] = pc[q],
         Applying(r)' => (Applying(r) \/ Loaded' = next[r]),
         UNCHANGED <<host, promised>>,
         file'["json"] # 0 => data'[file'["json"]].state = "whole",
         Loaded' = Loaded \/ (Loaded' = next[r] /\ Saving(r) /\ Applying(r)'),
         Applying(r) => Applying(r)'
  PROVE  OneByOne'
<1>1. \A q \in Requests : q # r => ~ Active(q) /\ ~ Active(q)'
  BY DEF OneByOne, Active
<1>2. (\A q, p \in Requests : Active(q) /\ Active(p) => q = p)'
  BY <1>1
<1>3. (\A q \in Requests : Alone(q))'
  <2>1. \A q \in Requests : q # r => Alone(q)'
    BY <1>1 DEF Active, Alone, Saving, Applying
  <2> QED BY <2>1
<1>4. Settled'
  BY DEF Settled
<1>5. Kept'
  <2> SUFFICES ASSUME NEW h \in Hosts, promised[h] # Unsure,
                      \A q \in Requests : Applying(q)' => host[q] # h
               PROVE  Loaded'[h] = promised[h]
    BY DEF Kept
  <2>1. \A q \in Requests : Applying(q) => host[q] # h
    <3>1. \A q \in Requests : q # r => ~ Applying(q)
      BY <1>1 DEF Active, Applying
    <3> QED BY <3>1
  <2>2. Loaded[h] = promised[h]
    BY <2>1 DEF OneByOne, Kept
  <2>3. CASE Loaded' = next[r] /\ Saving(r) /\ Applying(r)'
    <3>1. h # host[r]
      BY <2>3
    <3>2. next[r][h] = Loaded[h]
      BY <2>3, <3>1 DEF OneByOne, Alone
    <3> QED BY <2>2, <2>3, <3>2
  <2> QED BY <2>2, <2>3
<1> QED BY <1>2, <1>3, <1>4, <1>5 DEF OneByOne

LEMMA OpensAlone ==
  ASSUME TypeOK, Paths, Budget, OneByOne, NEW r \in Requests, NEW f \in Files, Opens(r, f)
  PROVE  OneByOne'
<1>1. /\ pc[r] = Opening(f) /\ pc'[r] = Writing(f) /\ \A q \in Requests : q # r => pc'[q] = pc[q]
      /\ UNCHANGED <<host, next, routes, promised, file>>
  BY DEF Opens, Moves, TruncateTmp, TypeOK
<1>2. PICK i \in Inodes :
        /\ i = IF tmp[f] = 0 THEN inodes + 1 ELSE tmp[f]
        /\ tmp'[f] = i /\ fd'[r] = i
        /\ data' = [data EXCEPT ![i] = Truncated]
  <2>1. pc[r] \in {"open json", "open map"} /\ tmp[f] \in Inodes \cup {0}
    BY <1>1 DEF Opening, TypeOK
  <2>2. (IF tmp[f] = 0 THEN inodes + 1 ELSE tmp[f]) \in Inodes
    BY <2>1, Room
  <2> QED BY <2>2 DEF Opens, TruncateTmp, TypeOK
<1>3. \A g \in Files : file[g] # i /\ file[g] \in Inodes \cup {0}
  <2>1. \A g \in Files : file[g] <= inodes /\ (tmp[f] # 0 => tmp[f] # file[g])
    BY DEF Paths
  <2>2. \A g \in Files : file[g] # i
    BY <1>2, <2>1, Numbers
  <2> QED BY <2>2 DEF TypeOK
<1>4. data'[i] = Truncated /\ \A g \in Files : file[g] # 0 => data'[file[g]] = data[file[g]]
  BY <1>2, <1>3 DEF TypeOK
<1>5. Loaded' = Loaded
  BY <1>1, <1>4, LoadedKept DEF Files
<1>6. /\ Active(r) /\ Active(r)'
      /\ (Saving(r)' <=> Saving(r)) /\ (Applying(r)' <=> Applying(r))
  BY <1>1 DEF Active, Saving, Applying, Opening, Writing, Files
<1>7. Alone(r)'
  <2>1. Saving(r)' => Loaded' = routes' /\ \A h \in Hosts : h # host'[r] => next'[r][h] = Loaded'[h]
    BY <1>1, <1>5, <1>6 DEF OneByOne, Alone
  <2>2. Applying(r)' => file'["json"] # 0 /\ data'[file'["json"]] = Whole(next'[r])
    BY <1>1, <1>4, <1>6 DEF OneByOne, Alone, Files
  <2>3. /\ pc'[r] = "write json" => fd'[r] = tmp'["json"] /\ data'[fd'[r]] = Truncated
        /\ pc'[r] = "write map" => fd'[r] = tmp'["map"] /\ data'[fd'[r]] = Truncated
    BY <1>1, <1>2, <1>4 DEF Writing, Files
  <2>4. pc'[r] \notin {"rename json", "rename map", "reload"}
    BY <1>1 DEF Writing
  <2> QED BY <2>1, <2>2, <2>3, <2>4 DEF Alone, Saving, Applying
<1>8. file'["json"] # 0 => data'[file'["json"]].state = "whole"
  BY <1>1, <1>4 DEF OneByOne, Files
<1> QED BY <1>1, <1>5, <1>6, <1>7, <1>8, StageKept

LEMMA WritesAlone ==
  ASSUME TypeOK, Paths, OneByOne, NEW r \in Requests, NEW f \in Files, Writes(r, f)
  PROVE  OneByOne'
<1>1. /\ pc[r] = Writing(f) /\ pc'[r] = Renaming(f) /\ \A q \in Requests : q # r => pc'[q] = pc[q]
      /\ UNCHANGED <<host, next, routes, promised, fd, tmp, file>>
  BY DEF Writes, Moves, WriteTmp, TypeOK
<1>2. fd[r] \in Inodes /\ fd[r] = tmp[f] /\ data[fd[r]] = Truncated
  <2>1. fd[r] \in Inodes
    BY <1>1 DEF Writing, Paths, TypeOK
  <2> QED BY <1>1, <2>1 DEF OneByOne, Alone, Writing, Files
<1>3. data' = [data EXCEPT ![fd[r]] = Whole(next[r])]
  BY <1>2 DEF Writes, WriteTmp
<1>4. \A g \in Files : file[g] # fd[r] /\ file[g] \in Inodes \cup {0}
  <2>1. \A g \in Files : tmp[f] # 0 => tmp[f] # file[g]
    BY DEF Paths
  <2> QED BY <1>2, <2>1, Numbers DEF TypeOK
<1>5. data'[fd[r]] = Whole(next[r]) /\ \A g \in Files : file[g] # 0 => data'[file[g]] = data[file[g]]
  BY <1>2, <1>3, <1>4 DEF TypeOK
<1>6. Loaded' = Loaded
  BY <1>1, <1>5, LoadedKept DEF Files
<1>7. /\ Active(r) /\ Active(r)'
      /\ (Saving(r)' <=> Saving(r)) /\ (Applying(r)' <=> Applying(r))
  BY <1>1 DEF Active, Saving, Applying, Renaming, Writing, Files
<1>8. Alone(r)'
  <2>1. Saving(r)' => Loaded' = routes' /\ \A h \in Hosts : h # host'[r] => next'[r][h] = Loaded'[h]
    BY <1>1, <1>6, <1>7 DEF OneByOne, Alone
  <2>2. Applying(r)' => file'["json"] # 0 /\ data'[file'["json"]] = Whole(next'[r])
    BY <1>1, <1>5, <1>7 DEF OneByOne, Alone, Files
  <2>3. /\ pc'[r] = "rename json" => tmp'["json"] # 0 /\ data'[tmp'["json"]] = Whole(next'[r])
        /\ pc'[r] = "rename map" => tmp'["map"] # 0 /\ data'[tmp'["map"]] = Whole(next'[r])
    BY <1>1, <1>2, <1>5, Numbers DEF Renaming, Files
  <2>4. pc'[r] \notin {"write json", "write map", "reload"}
    BY <1>1 DEF Renaming
  <2> QED BY <2>1, <2>2, <2>3, <2>4 DEF Alone, Saving, Applying
<1>9. file'["json"] # 0 => data'[file'["json"]].state = "whole"
  BY <1>1, <1>5 DEF OneByOne, Files
<1> QED BY <1>1, <1>6, <1>7, <1>8, <1>9, StageKept

LEMMA RenamesAlone ==
  ASSUME TypeOK, Paths, OneByOne, NEW r \in Requests, NEW f \in Files, Renames(r, f)
  PROVE  OneByOne'
<1>1. /\ pc[r] = Renaming(f) /\ pc'[r] = Renamed(f) /\ \A q \in Requests : q # r => pc'[q] = pc[q]
      /\ UNCHANGED <<host, next, routes, promised, data>>
      /\ \A g \in Files : file'[g] = IF g = f THEN tmp[f] ELSE file[g]
  BY DEF Renames, Moves, RenameTmp, TypeOK
<1>2. tmp[f] # 0 /\ data[tmp[f]] = Whole(next[r]) /\ next[r] \in Maps
  BY <1>1 DEF OneByOne, Alone, Renaming, Files, TypeOK
<1>3. Active(r) /\ Active(r)'
  BY <1>1 DEF Active, Renaming, Renamed
<1>4. CASE f = "json"
  <2>1. /\ pc[r] = "rename json" /\ pc'[r] = "open map" /\ Saving(r) /\ ~ Applying(r) /\ Applying(r)'
        /\ file'["json"] = tmp["json"]
    BY <1>1, <1>4 DEF Renaming, Renamed, Saving, Applying, Files
  <2>2. file'["json"] # 0 /\ data'[file'["json"]] = Whole(next'[r])
    BY <1>1, <1>2, <1>4, <2>1
  <2>3. Loaded' = next[r] /\ data'[file'["json"]].state = "whole"
    BY <1>1, <1>2, <2>2, ContentTypes DEF Loaded
  <2>4. Alone(r)'
    BY <2>1, <2>2 DEF Alone, Saving, Applying
  <2> QED BY <1>1, <1>3, <2>1, <2>3, <2>4, StageKept
<1>5. CASE f = "map"
  <2>1. /\ pc[r] = "rename map" /\ pc'[r] = "reload" /\ Applying(r) /\ Applying(r)' /\ ~ Saving(r)
        /\ file'["json"] = file["json"] /\ file'["map"] = tmp["map"]
    BY <1>1, <1>5 DEF Renaming, Renamed, Saving, Applying, Files
  <2>2. Loaded' = Loaded
    BY <1>1, <2>1, LoadedKept
  <2>3. file'["json"] # 0 /\ data'[file'["json"]] = Whole(next'[r])
    BY <1>1, <2>1 DEF OneByOne, Alone
  <2>4. data'[file'["map"]] = Whole(next'[r])
    BY <1>1, <1>2, <1>5, <2>1
  <2>5. Alone(r)'
    BY <2>1, <2>3, <2>4 DEF Alone, Saving, Applying
  <2>6. file'["json"] # 0 => data'[file'["json"]].state = "whole"
    BY <1>1, <2>1 DEF OneByOne
  <2> QED BY <1>1, <1>3, <2>1, <2>2, <2>5, <2>6, StageKept
<1> QED BY <1>4, <1>5 DEF Files

LEMMA RequestAlone ==
  ASSUME TypeOK, Paths, OneByOne, NEW r \in Requests, NEW h \in Hosts,
         NEW u \in Upstreams \cup {None}, Request(r, h, u), ~ overlapped'
  PROVE  OneByOne'
<1>1. /\ up /\ \A q \in Requests : ~ Active(q)
      /\ pc'[r] = "open json" /\ \A q \in Requests : q # r => pc'[q] = pc[q]
      /\ host'[r] = h /\ next'[r] = [routes EXCEPT ![h] = u]
      /\ UNCHANGED <<routes, file, data, promised>>
  BY DEF Request, fileVars, TypeOK
<1>2. Loaded' = Loaded /\ routes = Loaded
  BY <1>1, LoadedKept DEF OneByOne, Settled
<1>3. \A q \in Requests : Active(q)' <=> q = r
  BY <1>1 DEF Active
<1>4. \A q \in Requests : Alone(q)'
  <2>1. Alone(r)'
    <3>1. \A k \in Hosts : k # h => next'[r][k] = routes[k]
      BY <1>1 DEF TypeOK, Maps
    <3> QED BY <1>1, <1>2, <3>1 DEF Alone, Saving, Applying
  <2>2. ASSUME NEW q \in Requests, q # r
        PROVE  Alone(q)'
    BY <1>1, <2>2 DEF Active, Alone, Saving, Applying
  <2> QED BY <2>1, <2>2
<1>5. Kept'
  <2>1. \A q \in Requests : ~ Applying(q)
    BY <1>1 DEF Active, Applying
  <2>2. \A k \in Hosts : promised[k] # Unsure => Loaded[k] = promised[k]
    BY <2>1 DEF OneByOne, Kept
  <2> QED BY <1>1, <1>2, <2>2 DEF Kept
<1>6. Settled'
  BY <1>3 DEF Settled
<1> QED BY <1>1, <1>3, <1>4, <1>5, <1>6 DEF OneByOne

LEMMA DieAlone ==
  ASSUME OneByOne, Die
  PROVE  OneByOne'
<1>1. /\ \A r \in Requests : ~ Active(r)' /\ pc'[r] = IF Active(r) THEN "lost" ELSE pc[r]
      /\ UNCHANGED <<file, data>> /\ ~ up'
  BY DEF Die, Active, fileVars
<1>2. Loaded' = Loaded
  BY <1>1, LoadedKept
<1>3. Kept'
  <2>1. ASSUME NEW h \in Hosts, promised'[h] # Unsure
        PROVE  Loaded[h] = promised'[h]
    <3>1. promised'[h] = promised[h] /\ \A r \in Requests : Active(r) => host[r] # h
      BY <2>1 DEF Die
    <3>2. \A r \in Requests : Applying(r) => host[r] # h
      BY <3>1 DEF Active, Applying
    <3> QED BY <2>1, <3>1, <3>2 DEF OneByOne, Kept
  <2> QED BY <1>2, <2>1 DEF Kept
<1>4. (\A r \in Requests : Alone(r))'
  BY <1>1 DEF Active, Alone, Saving, Applying
<1>5. Settled'
  BY <1>1 DEF Settled
<1> QED BY <1>1, <1>3, <1>4, <1>5 DEF OneByOne

\* A request that is alone finds its file when it renames it.
LEMMA ApplySucceeds ==
  ASSUME OneByOne, NEW r \in Requests
  PROVE  ~ ApplyFails(r)
BY DEF ApplyFails, OneByOne, Alone

LEMMA ReloadAlone ==
  ASSUME TypeOK, Paths, OneByOne, NEW r \in Requests, CaddyReload(r)
  PROVE  OneByOne'
<1>1. /\ pc[r] = "reload" /\ pc'[r] = "answered" /\ \A q \in Requests : q # r => pc'[q] = pc[q]
      /\ routes' = next[r]
      /\ \A h \in Hosts : promised'[h] = IF h = host[r] THEN next[r][h] ELSE promised[h]
      /\ UNCHANGED <<host, next, file, data>>
  BY DEF CaddyReload, Answer, fileVars, TypeOK
<1>2. /\ file["json"] # 0 /\ data[file["json"]] = Whole(next[r])
      /\ data[file["map"]] = Whole(next[r]) /\ next[r] \in Maps
  BY <1>1 DEF OneByOne, Alone, Applying, TypeOK
<1>3. Loaded = next[r] /\ Loaded' = next[r]
  BY <1>1, <1>2, ContentTypes, LoadedKept DEF Loaded
<1>4. \A q \in Requests : ~ Active(q)'
  <2>1. \A q \in Requests : q # r => ~ Active(q)
    BY <1>1 DEF OneByOne, Active
  <2> QED BY <1>1, <2>1 DEF Active
<1>5. (\A q \in Requests : Alone(q))'
  BY <1>4 DEF Active, Alone, Saving, Applying
<1>6. Kept'
  <2>1. ASSUME NEW h \in Hosts, h # host[r], promised[h] # Unsure
        PROVE  Loaded[h] = promised[h]
    <3>1. \A q \in Requests : Applying(q) => host[q] # h
      BY <1>1, <2>1 DEF OneByOne, Active, Applying
    <3> QED BY <2>1, <3>1 DEF OneByOne, Kept
  <2> QED BY <1>1, <1>3, <2>1 DEF Kept
<1>7. Settled'
  <2>1. reloaded' => caddy' = next[r]
    BY <1>2, ContentTypes DEF CaddyReload, MapsIn
  <2> QED BY <1>1, <1>3, <2>1 DEF Settled
<1>8. file'["json"] # 0 => data'[file'["json"]].state = "whole"
  BY <1>1, <1>2, ContentTypes
<1> QED BY <1>4, <1>5, <1>6, <1>7, <1>8 DEF OneByOne

LEMMA BootAlone ==
  ASSUME TypeOK, Paths, Budget, OneByOne, Boot
  PROVE  OneByOne'
<1>1. /\ ~ up /\ UNCHANGED <<pc, host, next, promised>> /\ routes' = Loaded
      /\ reloaded' => caddy' = Loaded
  BY DEF Boot
<1>2. \A r \in Requests : ~ Active(r) /\ ~ Active(r)'
  BY <1>1 DEF Paths, Active
<1>3. PICK i \in Inodes :
        /\ i = IF tmp["map"] = 0 THEN inodes + 1 ELSE tmp["map"]
        /\ data' = [data EXCEPT ![i] = Whole(Loaded)]
        /\ file'["json"] = file["json"]
  <2>1. tmp["map"] \in Inodes \cup {0}
    BY DEF TypeOK, Files
  <2>2. (IF tmp["map"] = 0 THEN inodes + 1 ELSE tmp["map"]) \in Inodes
    BY <1>1, <2>1, Room
  <2> QED BY <2>2 DEF Boot, TypeOK, Files
<1>4. file["json"] # i /\ file["json"] \in Inodes \cup {0}
  <2>1. file["json"] <= inodes /\ (tmp["map"] # 0 => tmp["map"] # file["json"])
    BY Numbers DEF Paths
  <2>2. file["json"] # i
    BY <1>3, <2>1, Numbers
  <2> QED BY <2>2 DEF TypeOK, Files
<1>5. file["json"] # 0 => data'[file["json"]] = data[file["json"]]
  BY <1>3, <1>4 DEF TypeOK
<1>6. Loaded' = Loaded
  BY <1>3, <1>5, LoadedKept
<1>7. (\A r \in Requests : Alone(r))'
  BY <1>2 DEF Active, Alone, Saving, Applying
<1>8. Kept'
  BY <1>1, <1>2, <1>6 DEF OneByOne, Kept, Active, Applying
<1>9. Settled'
  BY <1>1, <1>6 DEF Settled
<1>10. file'["json"] # 0 => data'[file'["json"]].state = "whole"
  BY <1>3, <1>5 DEF OneByOne
<1> QED BY <1>2, <1>7, <1>8, <1>9, <1>10 DEF OneByOne

LEMMA NextSerial ==
  ASSUME TypeOK, Paths, Budget, Serial, [Next]_vars
  PROVE  Serial'
<1> SUFFICES ASSUME ~ overlapped'
             PROVE  OneByOne'
  BY DEF Serial
<1>1. CASE UNCHANGED vars
  <2>1. OneByOne
    BY <1>1 DEF Serial, vars
  <2> QED BY <1>1, <2>1 DEF vars, fileVars, OneByOne, Active, Alone, Saving, Applying, Kept, Settled, Loaded
<1>2. CASE Next
  <2>1. OneByOne
    <3>1. ~ overlapped
      BY <1>2 DEF Next, Request, Save, Apply, FileStep, SaveFails, ApplyFails, CaddyReload,
                  Answer, Crash, Die, Boot
    <3> QED BY <3>1 DEF Serial
  <2>2. ASSUME NEW r \in Requests, Save(r) \/ Apply(r)
        PROVE  OneByOne'
    BY <2>1, <2>2, FileSteps, OpensAlone, WritesAlone, RenamesAlone
  <2>3. ASSUME NEW r \in Requests, NEW h \in Hosts, NEW u \in Upstreams \cup {None}, Request(r, h, u)
        PROVE  OneByOne'
    BY <2>1, <2>3, RequestAlone
  <2>4. ASSUME Die
        PROVE  OneByOne'
    BY <2>1, <2>4, DieAlone
  <2>5. ASSUME NEW r \in Requests, CaddyReload(r) \/ ApplyFails(r)
        PROVE  OneByOne'
    BY <2>1, <2>5, ReloadAlone, ApplySucceeds
  <2>6. CASE Boot
    BY <2>1, <2>6, BootAlone
  <2> QED BY <1>2, <2>2, <2>3, <2>4, <2>5, <2>6 DEF Next, SaveFails, Crash
<1> QED BY <1>1, <1>2

-----------------------------------------------------------------------------
(* The invariant, and what follows from it.                                *)

LEMMA InitInvariant == Init => EInv
<1> SUFFICES ASSUME Init PROVE EInv
  OBVIOUS
<1>1. TypeOK
  <2>1. 0 \in 0..MaxCrashes /\ 0 \in Inodes \cup {0}
    BY EdgeAssumption
  <2>2. host \in [Requests -> Hosts]
    BY DEF Init
  <2>3. NoRoutes \in Maps /\ Truncated \in Contents
    BY ContentTypes
  <2>4. pc \in [Requests -> {"idle", "open json", "write json", "rename json",
               "open map", "write map", "rename map", "reload", "answered", "lost"}]
    BY DEF Init
  <2>5. fd \in [Requests -> Inodes \cup {0}] /\ next \in [Requests -> Maps]
    BY <2>1, <2>3 DEF Init
  <2>6. tmp \in [Files -> Inodes \cup {0}] /\ file \in [Files -> Inodes \cup {0}]
    BY <2>1 DEF Init
  <2>7. data \in [Inodes -> Contents]
    BY <2>3 DEF Init
  <2>8. promised \in [Hosts -> Upstreams \cup {None, Unsure}]
    BY DEF Init
  <2>9. up \in BOOLEAN /\ reloaded \in BOOLEAN /\ overlapped \in BOOLEAN
    BY DEF Init
  <2>10. crashes \in 0..MaxCrashes /\ inodes \in Inodes \cup {0} /\ routes \in Maps /\ caddy \in Maps
    BY <2>1, <2>3 DEF Init
  <2> QED BY <2>2, <2>4, <2>5, <2>6, <2>7, <2>8, <2>9, <2>10 DEF TypeOK
<1>2. Paths
  BY DEF Init, Paths, Active, Files
<1>3. Budget
  <2>1. MadeJson \in SUBSET Requests /\ MadeMap \in SUBSET Requests
    BY DEF MadeJson, MadeMap
  <2>2. Cardinality(MadeJson) \in Nat /\ Cardinality(MadeMap) \in Nat
    BY <2>1, Counts
  <2> QED BY <2>2 DEF Init, Budget
<1>4. AllAsked
  BY ContentTypes DEF Init, AllAsked, Asked, NoRoutes
<1>5. Serial
  <2>1. Loaded = NoRoutes
    BY DEF Init, Loaded, Files
  <2>2. Kept
    BY <2>1 DEF Init, Kept, NoRoutes
  <2> QED BY <2>2 DEF Init, Serial, OneByOne, Active, Alone, Saving, Applying, Settled, Files
<1> QED BY <1>1, <1>2, <1>3, <1>4, <1>5 DEF EInv

LEMMA NextInvariant == EInv /\ [Next]_vars => EInv'
BY NextTypes, NextAsked, NextSerial DEF EInv

LEMMA SafeFromInvariant == EInv => RoutesSafe
<1> SUFFICES ASSUME EInv PROVE RoutesSafe
  OBVIOUS
<1>1. DiskWhole
  BY DEF EInv, Serial, OneByOne, DiskWhole
<1>2. NoInvention
  <2>1. ASSUME NEW m \in {routes, Loaded}
        PROVE  Asked(m)
    <3>1. Asked(routes) /\ Asked(NoRoutes) /\ \A i \in Inodes : Asked(data[i].map)
      BY DEF EInv, AllAsked, Asked, NoRoutes
    <3>2. Asked(Loaded)
      BY <3>1, LoadedType DEF EInv
    <3> QED BY <2>1, <3>1, <3>2
  <2> QED BY <2>1 DEF NoInvention, Asked, Wanted
<1>3. SerialNothingLost
  <2> SUFFICES ASSUME ~ overlapped, NEW h \in Hosts, promised[h] # Unsure,
                      \A r \in Requests : Active(r) => host[r] # h
               PROVE  Loaded[h] = promised[h]
    BY DEF SerialNothingLost, NothingLost
  <2>1. \A r \in Requests : Applying(r) => host[r] # h
    BY DEF Active, Applying
  <2> QED BY <2>1 DEF EInv, Serial, OneByOne, Kept
<1>4. RouteLive
  BY DEF EInv, Serial, OneByOne, Settled, RouteLive
<1> QED BY <1>1, <1>2, <1>3, <1>4 DEF EInv, RoutesSafe

(* For any hosts, upstreams, requests and crashes, however requests interleave
   and wherever the service stops: no route is served or loaded that nobody
   asked for; and as long as requests come one at a time the route file parses
   whole, no answered route is lost, and Caddy serves what is listed. *)
THEOREM RoutesAreSafe == Spec => []RoutesSafe
<1>1. Spec => []EInv
  BY InitInvariant, NextInvariant, PTL DEF Spec
<1> QED BY <1>1, SafeFromInvariant, PTL
=============================================================================
