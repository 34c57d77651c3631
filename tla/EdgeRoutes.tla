----------------------------- MODULE EdgeRoutes -----------------------------
(***************************************************************************)
(* The edge's route admin API (src/edge/main.ts, routes.ts, caddy.ts): a   *)
(* PUT or DELETE computes the next route map, saves it (write a temporary  *)
(* file, rename it), writes Caddy's map file the same way, reloads Caddy   *)
(* and only then makes the map current.  Each of these is an await, and    *)
(* nothing keeps two requests from interleaving there: they share the two  *)
(* temporary files.                                                        *)
(*                                                                         *)
(* Files are inodes: a writeFile truncates the one at its path or creates  *)
(* one, and goes on writing to it wherever a rename has moved it.          *)
(*                                                                         *)
(* A host's caller is taken to send one request at a time, so what a host  *)
(* was promised never hangs on two requests about the same host.           *)
(***************************************************************************)
EXTENDS Naturals, FiniteSets

CONSTANTS
  Hosts, Upstreams,
  None,        \* no route
  MaxRequests, \* bound: admin requests
  MaxCrashes   \* bound: crashes of the service

ASSUME EdgeAssumption ==
  /\ None \notin Upstreams
  /\ MaxRequests \in Nat /\ MaxCrashes \in Nat

Requests == 1..MaxRequests
Maps == [Hosts -> Upstreams \cup {None}]
NoRoutes == [h \in Hosts |-> None]
Files == {"json", "map"}
\* Contents of a file: a whole map, nothing yet, two writers' bytes mixed.
Whole(m) == [state |-> "whole", map |-> m]
Truncated == [state |-> "truncated", map |-> NoRoutes]
Mixed == [state |-> "mixed", map |-> NoRoutes]
Contents == {Whole(m) : m \in Maps} \cup {Truncated, Mixed}

VARIABLES
  up, crashes,
  routes,    \* the current map
  pc, host, next, \* each request: its step, its host, the map it is to make
  fd,        \* the inode it is writing
  inodes,    \* inodes so far
  tmp, file, \* the inode at each file's temporary and final path, 0 if none
  data,      \* each inode's contents
  caddy, reloaded, \* the map Caddy serves; did the last reload succeed?
  promised,  \* history: what each host's last answered request made of it
  overlapped \* history: has a request arrived while another was served?

vars == <<up, crashes, routes, pc, host, next, fd, inodes, tmp, file, data,
          caddy, reloaded, promised, overlapped>>
fileVars == <<fd, inodes, tmp, file, data>>

Inodes == 1..(2 * MaxRequests + MaxCrashes + 1)
Active(r) == pc[r] \notin {"idle", "answered", "lost"}
Unsure == "unsure"

TypeOK ==
  /\ up \in BOOLEAN /\ crashes \in 0..MaxCrashes
  /\ routes \in Maps /\ next \in [Requests -> Maps] /\ host \in [Requests -> Hosts]
  /\ pc \in [Requests -> {"idle", "open json", "write json", "rename json",
               "open map", "write map", "rename map", "reload", "answered", "lost"}]
  /\ fd \in [Requests -> Inodes \cup {0}] /\ inodes \in Inodes \cup {0}
  /\ tmp \in [Files -> Inodes \cup {0}] /\ file \in [Files -> Inodes \cup {0}]
  /\ data \in [Inodes -> Contents]
  /\ caddy \in Maps /\ reloaded \in BOOLEAN
  /\ promised \in [Hosts -> Upstreams \cup {None, Unsure}]
  /\ overlapped \in BOOLEAN

\* loadRoutes(): a file that is absent or does not parse is no routes.
Loaded == IF file["json"] # 0 /\ data[file["json"]].state = "whole"
          THEN data[file["json"]].map ELSE NoRoutes

Init ==
  /\ up = FALSE /\ crashes = 0 /\ routes = NoRoutes
  /\ pc = [r \in Requests |-> "idle"]
  /\ host \in {[r \in Requests |-> h] : h \in Hosts}
  /\ next = [r \in Requests |-> NoRoutes] /\ fd = [r \in Requests |-> 0]
  /\ inodes = 0 /\ tmp = [f \in Files |-> 0] /\ file = [f \in Files |-> 0]
  /\ data = [i \in Inodes |-> Truncated]
  /\ caddy = NoRoutes /\ reloaded = FALSE
  /\ promised = [h \in Hosts |-> None] /\ overlapped = FALSE

-----------------------------------------------------------------------------
(* The steps that a save and an apply share: writeFile (open, write), rename. *)

\* fs.writeFile opens with O_TRUNC.
TruncateTmp(r, f) ==
  LET i == IF tmp[f] = 0 THEN inodes + 1 ELSE tmp[f]
  IN  /\ fd' = [fd EXCEPT ![r] = i]
      /\ inodes' = IF tmp[f] = 0 THEN i ELSE inodes
      /\ tmp' = [tmp EXCEPT ![f] = i]
      /\ data' = [data EXCEPT ![i] = Truncated]
      /\ UNCHANGED file

\* Bytes over another writer's bytes: what sticks out of the longer remains.
WriteTmp(r, f) ==
  /\ \E c \in {Whole(next[r])} \cup (IF data[fd[r]] = Truncated THEN {} ELSE {Mixed}) :
       data' = [data EXCEPT ![fd[r]] = c]
  /\ UNCHANGED <<fd, inodes, tmp, file>>

RenameTmp(r, f) ==
  /\ file' = [file EXCEPT ![f] = tmp[f]]
  /\ tmp' = [tmp EXCEPT ![f] = 0]
  /\ UNCHANGED <<fd, inodes, data>>

\* The process is gone, and the answers it owed with it.
Die ==
  /\ up' = FALSE
  /\ pc' = [r \in Requests |-> IF Active(r) THEN "lost" ELSE pc[r]]
  /\ promised' = [h \in Hosts |-> IF \E r \in Requests : Active(r) /\ host[r] = h
                                  THEN Unsure ELSE promised[h]]
  /\ UNCHANGED <<routes, host, next, fileVars, caddy, reloaded, overlapped>>

\* One file operation of request r; the others' steps come between.
FileStep(r, at, then, f, Op(_, _)) ==
  /\ pc[r] = at /\ Op(r, f)
  /\ pc' = [pc EXCEPT ![r] = then]
  /\ UNCHANGED <<up, crashes, routes, host, next, caddy, reloaded, promised,
                 overlapped>>

-----------------------------------------------------------------------------
\* PUT /routes/:host (u an upstream) and DELETE /routes/:host (u None): the
\* next map is computed from the current one when the request arrives.
Request(r, h, u) ==
  /\ up /\ pc[r] = "idle"
  /\ \A q \in Requests : Active(q) => host[q] # h
  /\ overlapped' = (overlapped \/ \E q \in Requests : Active(q))
  /\ pc' = [pc EXCEPT ![r] = "open json"]
  /\ host' = [host EXCEPT ![r] = h]
  /\ next' = [next EXCEPT ![r] = [routes EXCEPT ![h] = u]]
  /\ UNCHANGED <<up, crashes, routes, fileVars, caddy, reloaded, promised>>

Save(r) == \/ FileStep(r, "open json", "write json", "json", TruncateTmp)
           \/ FileStep(r, "write json", "rename json", "json", WriteTmp)
           \/ tmp["json"] # 0 /\ FileStep(r, "rename json", "open map", "json", RenameTmp)

Apply(r) == \/ FileStep(r, "open map", "write map", "map", TruncateTmp)
            \/ FileStep(r, "write map", "rename map", "map", WriteTmp)
            \/ tmp["map"] # 0 /\ FileStep(r, "rename map", "reload", "map", RenameTmp)

\* The temporary file is gone, another request renamed it.  A failed save
\* rejects a promise that nobody awaits, which ends the process; a failed
\* apply is answered as a failed reload.
SaveFails(r) ==
  /\ pc[r] = "rename json" /\ tmp["json"] = 0
  /\ Die /\ UNCHANGED crashes

Answer(r) ==
  /\ routes' = next[r]
  /\ pc' = [pc EXCEPT ![r] = "answered"]
  /\ promised' = [promised EXCEPT ![host[r]] = next[r][host[r]]]
  /\ UNCHANGED <<up, crashes, host, next, fileVars, overlapped>>

ApplyFails(r) ==
  /\ pc[r] = "rename map" /\ tmp["map"] = 0
  /\ Answer(r) /\ UNCHANGED <<caddy, reloaded>>

\* What Caddy makes of its map file: an empty one is no routes, a mixed one
\* may be refused, or be read as any.
MapsIn(c) == IF c = Mixed THEN Maps ELSE {c.map}

\* Variant: a failed reload leaves the current map as it was.
ReloadKeepsRoutes(r) ==
  /\ pc[r] = "reload"
  /\ \/ caddy' \in MapsIn(data[file["map"]]) /\ reloaded' = TRUE /\ routes' = next[r]
     \/ UNCHANGED <<caddy, routes>> /\ reloaded' = FALSE
  /\ pc' = [pc EXCEPT ![r] = "answered"]
  /\ promised' = [promised EXCEPT ![host[r]] = next[r][host[r]]]
  /\ UNCHANGED <<up, crashes, host, next, fileVars, overlapped>>

CaddyReload(r) ==
  /\ pc[r] = "reload"
  /\ \/ caddy' \in MapsIn(data[file["map"]]) /\ reloaded' = TRUE
     \/ UNCHANGED caddy /\ reloaded' = FALSE
  /\ Answer(r)

Crash ==
  /\ up /\ crashes < MaxCrashes
  /\ Die /\ crashes' = crashes + 1

\* main(): the routes on disk become current and are applied before the
\* service listens.
Boot ==
  LET i == IF tmp["map"] = 0 THEN inodes + 1 ELSE tmp["map"]
  IN  /\ ~up /\ up' = TRUE
      /\ routes' = Loaded
      /\ data' = [data EXCEPT ![i] = Whole(Loaded)]
      /\ inodes' = IF tmp["map"] = 0 THEN i ELSE inodes
      /\ tmp' = [tmp EXCEPT !["map"] = 0] /\ file' = [file EXCEPT !["map"] = i]
      /\ \/ caddy' = Loaded /\ reloaded' = TRUE
         \/ UNCHANGED caddy /\ reloaded' = FALSE
      /\ UNCHANGED <<crashes, pc, host, next, fd, promised, overlapped>>

Next == \/ \E r \in Requests :
             \/ \E h \in Hosts, u \in Upstreams \cup {None} : Request(r, h, u)
             \/ Save(r) \/ SaveFails(r)
             \/ Apply(r) \/ ApplyFails(r) \/ CaddyReload(r)
        \/ Crash \/ Boot

Spec == Init /\ [][Next]_vars

-----------------------------------------------------------------------------
\* routes.ts:55: a crash at any point leaves a route file that parses whole,
\* whatever save it cut short, as long as saves do not share the temporary file.
DiskWhole == ~overlapped /\ file["json"] # 0 => data[file["json"]].state = "whole"

\* A route whose request was answered, with 502 too, is in the store that the
\* next boot loads, until a later request about that host changes it
\* (caddy.ts:16-18: "nothing is lost").
NothingLost ==
  \A h \in Hosts :
    (promised[h] # Unsure /\ \A r \in Requests : Active(r) => host[r] # h)
    => Loaded[h] = promised[h]

\* So it is through crashes and failed reloads when requests come one at a time.
SerialNothingLost == ~overlapped => NothingLost

\* When nothing is in flight and Caddy's last reload succeeded, Caddy serves
\* the routes on disk, which are the ones GET /routes lists.
RouteLive ==
  (up /\ reloaded /\ ~overlapped /\ \A r \in Requests : ~Active(r))
  => caddy = Loaded /\ routes = Loaded

\* However requests interleave, the service runs on, and would boot with, no
\* route that nobody asked for: a torn store is read as no store.
NoInvention ==
  \A h \in Hosts, m \in {routes, Loaded} :
    m[h] # None => \E r \in Requests : /\ pc[r] # "idle" /\ host[r] = h
                                      /\ next[r][h] = m[h]

(* The routes are those that were asked for: however requests interleave none is
   invented; and as long as they come one at a time, through crashes and failed
   reloads, the file parses whole, none is lost and Caddy serves what is listed. *)
RoutesSafe == TypeOK /\ DiskWhole /\ NoInvention /\ SerialNothingLost /\ RouteLive
=============================================================================
