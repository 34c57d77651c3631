----------------------------- MODULE ImageCatalog -----------------------------
(***************************************************************************)
(* The images of a family from bake to deletion (deploy/bake): a bake      *)
(* leaves a candidate, or by hand an image under the family's name at      *)
(* once, a smoke boot promotes or deletes it (promote-snapshot.sh), the    *)
(* orchestrators are told (registerImage.mjs),                             *)
(* a bad one is retired by a rename, and a manual run prunes the old ones  *)
(* (pruneSnapshots.mjs).  Images are numbered in the order of their bakes. *)
(*                                                                         *)
(* The orchestrators are external: each boots one of the images registered *)
(* with it, and a prune is given the ones they boot (--protect).           *)
(***************************************************************************)
EXTENDS Naturals, FiniteSets

CONSTANTS
  MaxBakes, MaxPrunes, MaxRefusals, \* bounds
  Targets, \* the orchestrators
  Keep     \* --keep

ASSUME CatalogAssumption == {MaxBakes, MaxPrunes, MaxRefusals, Keep} \subseteq Nat

Images == 1..MaxBakes

VARIABLES
  image,      \* its name and lot; "unproved" has the family's name, but no smoke boot
  works,      \* does it boot?
  due,        \* promoted images whose registration has not succeeded
  registered, \* each orchestrator's images
  live,       \* the one it boots, 0 for none
  prune,      \* the running prune: what it still deletes, what it was given
  prunes, refusals,
  moved       \* history: was an image renamed, or another booted, while a prune ran?

catalogVars == <<image, works, due, registered, live, prune, prunes, refusals, moved>>

NoPrune == [runs |-> FALSE, todo |-> {}]

CatalogTypeOK ==
  /\ image \in [Images -> {"none", "candidate", "unproved", "promoted", "retired", "deleted"}]
  /\ works \in [Images -> BOOLEAN] /\ due \subseteq Images
  /\ registered \in [Targets -> SUBSET Images] /\ live \in [Targets -> Images \cup {0}]
  /\ prune \in [runs : BOOLEAN, todo : SUBSET Images]
  /\ prunes \in 0..MaxPrunes /\ refusals \in 0..MaxRefusals /\ moved \in BOOLEAN

CatalogInit ==
  /\ image = [i \in Images |-> "none"] /\ works = [i \in Images |-> TRUE] /\ due = {}
  /\ registered = [t \in Targets |-> {}] /\ live = [t \in Targets |-> 0]
  /\ prune = NoPrune /\ prunes = 0 /\ refusals = 0 /\ moved = FALSE

-----------------------------------------------------------------------------
\* The workflow asks for the candidate's name; the script's default is the family's.
Bake(i) ==
  /\ image[i] = "none" /\ \A j \in Images : j < i => image[j] # "none"
  /\ \E name \in {"candidate", "unproved"} : image' = [image EXCEPT ![i] = name]
  /\ \E w \in BOOLEAN : works' = [works EXCEPT ![i] = w]
  /\ UNCHANGED <<due, registered, live, prune, prunes, refusals, moved>>

\* The smoke boot: the runtime answers with this version and tmux is quiet.
SmokeBoot(i) ==
  /\ image[i] \in {"candidate", "unproved"}
  /\ image' = [image EXCEPT ![i] = IF works[i] THEN "promoted" ELSE "deleted"]
  /\ due' = IF works[i] THEN due \cup {i} ELSE due
  /\ moved' = (moved \/ prune.runs)
  /\ UNCHANGED <<works, registered, live, prune, prunes, refusals>>

\* Variant: a target that had the image already has refused it.
AcceptedNew(i, refusing) == {t \in Targets \ refusing : i \notin registered[t]}

\* 201 for an image that is new to a target, 200 for one it knows.
Accepted(i, refusing) == Targets \ refusing

\* registerImage: every target is tried; the run succeeds if all accepted, and
\* is run again (register_only) if not.
Register(i) ==
  /\ i \in due /\ image[i] = "promoted"
  /\ \E refusing \in SUBSET Targets :
       /\ refusing # {} => refusals < MaxRefusals
       /\ refusals' = refusals + (IF refusing = {} THEN 0 ELSE 1)
       /\ registered' = [t \in Targets |-> IF t \in refusing THEN registered[t]
                                           ELSE registered[t] \cup {i}]
       /\ due' = IF Accepted(i, refusing) = Targets THEN due \ {i} ELSE due
  /\ UNCHANGED <<image, works, live, prune, prunes, moved>>

\* A rollback: the image is renamed.
Retire(i) ==
  /\ image[i] \in {"promoted", "unproved"} /\ \A t \in Targets : live[t] # i
  /\ image' = [image EXCEPT ![i] = "retired"] /\ due' = due \ {i}
  /\ moved' = (moved \/ prune.runs)
  /\ UNCHANGED <<works, registered, live, prune, prunes, refusals>>

\* An orchestrator boots another of its images (external).
Boots(t) ==
  /\ \E i \in registered[t] : image[i] = "promoted" /\ i # live[t] /\ live' = [live EXCEPT ![t] = i]
  /\ moved' = (moved \/ prune.runs)
  /\ UNCHANGED <<image, works, due, registered, prune, prunes, refusals>>

-----------------------------------------------------------------------------
\* familyOf(): by the name alone; "" for what is not the bakes'.
Family(i) == CASE image[i] \in {"promoted", "unproved"} -> "base" [] image[i] = "retired" -> "retired-base" [] OTHER -> ""
OfFamily(family) == {i \in Images : Family(i) = family}
Newer(i) == {j \in OfFamily(Family(i)) : j > i}
Protected == {live[t] : t \in Targets}

\* planPrune(): all but the newest and the protected ones; one at least stays.
Deleted(family, protect) ==
  {i \in OfFamily(family) :
     Cardinality(Newer(i)) >= (IF Keep = 0 THEN 1 ELSE Keep) /\ i \notin protect}

PruneList ==
  /\ ~prune.runs /\ prunes < MaxPrunes /\ prunes' = prunes + 1
  /\ prune' = [runs |-> TRUE,
               todo |-> UNION {Deleted(f, Protected) : f \in {"base", "retired-base"}}]
  /\ UNCHANGED <<image, works, due, registered, live, refusals, moved>>

\* One DELETE after another; the first that fails, an image that is no more among
\* them, ends the run.
PruneDelete(i) ==
  /\ i \in prune.todo /\ image[i] # "deleted"
  /\ prune' = [prune EXCEPT !.todo = @ \ {i}]
  /\ image' = [image EXCEPT ![i] = "deleted"] /\ due' = due \ {i}
  /\ UNCHANGED <<works, registered, live, prunes, refusals, moved>>

PruneEnds ==
  LET refused == prune.todo # {} /\ \A i \in prune.todo : image[i] # "deleted" IN
  /\ prune.runs /\ (refused => refusals < MaxRefusals)
  /\ prune' = NoPrune /\ refusals' = refusals + (IF refused THEN 1 ELSE 0)
  /\ UNCHANGED <<image, works, due, registered, live, prunes, moved>>

CatalogNext ==
  \/ \E i \in Images : Bake(i) \/ SmokeBoot(i) \/ Register(i) \/ Retire(i) \/ PruneDelete(i)
  \/ \E t \in Targets : Boots(t)
  \/ PruneList \/ PruneEnds

-----------------------------------------------------------------------------
(* No orchestrator boots an image that is broken or deleted: a smoke boot or a
   prune stands between, and a prune spares what it was told is booted, unless
   another was booted or renamed while it deleted from an old list. *)
BootsExist ==
  \A t \in Targets : live[t] # 0 =>
    /\ works[live[t]]
    /\ moved \/ image[live[t]] = "promoted"

(* A deletion of a prune leaves a newer image of its family, however few it was
   told to keep, whatever was protected: no family is emptied by it; unless images
   were renamed since it listed them.  The newer one may be a bake by hand that no
   smoke boot has passed: the names are all that a prune sees. *)
FamilyStays ==
  [][\A i \in Images :
       i \in prune.todo /\ image[i] # image'[i] /\ image'[i] = "deleted" /\ prune' # prune /\ ~moved =>
         Newer(i) # {}]_catalogVars

(* A promoted image ends up registered with every orchestrator, though some
   refuse at first and others have it already: unless it is retired or pruned. *)
RegisteredAtLast ==
  \A i \in Images : i \in due ~> i \notin due

(* There is an image to boot: what an orchestrator boots exists and works, no
   family is emptied, and a promoted image reaches every orchestrator. *)
ImagesBoot == [](CatalogTypeOK /\ BootsExist) /\ FamilyStays /\ RegisteredAtLast
===============================================================================
