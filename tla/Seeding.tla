-------------------------------- MODULE Seeding --------------------------------
(***************************************************************************)
(* What is written into the box's configuration before an agent runs: the  *)
(* runtime's own seeds at its start (server.js) and the seeds every agent  *)
(* launch runs first (agent-launch.sh), which entrypoint.sh starts beside  *)
(* it; and, when a side engine of a kind is first spawned, the one seed of *)
(* that kind (sideAgentAuth.js), in the runtime.  A seed reads its file,   *)
(* merges its part into what it could parse and writes the file back,      *)
(* which empties it first; nothing locks a file.  A seed that throws is    *)
(* skipped.                                                                *)
(*                                                                         *)
(* A JSON file is the set of its keys and the MCP servers of one name, by  *)
(* suffix; Claude's settings and Cursor's, seeded one after the other in   *)
(* the same way, are one file.  The context file is the sequence of its    *)
(* texts and markers.  The launch's servers hold one called playwright,    *)
(* its skills one with the id of a bundled skill and one with the id of a  *)
(* skill the user wrote.  Of the kinds of side engines there is one whose  *)
(* credentials are a file of their own (codex) and one whose configuration *)
(* is merged (opencode; gemini's is merged likewise).                      *)
(***************************************************************************)
EXTENDS Naturals, Sequences, FiniteSets

CONSTANTS
  NoSeedFile, TornFile, \* a file that is not there; one cut off in a write
  MaxSlots,      \* bound: suffixes of a server's name
  MaxRuns,       \* bound: starts of the runtime, and launches
  MaxMishaps     \* bound: failed writes, kills, commands run as root and the user's edits

ASSUME SeedAssumption == {MaxSlots, MaxRuns, MaxMishaps} \subseteq Nat

Seeders == {"boot", "launch", "side"}
\* The runtime's seeds, those of agent-launch.sh, and that of opencode's side engine.
BootSeeds == <<"auth", "settings">>
LaunchSeeds == <<"home", "auth", "servers", "playwright", "settings",
                 "skills", "user skills", "providers", "context", "guidance">>
SideSeeds == <<"providers">>
Program == [boot |-> BootSeeds, launch |-> LaunchSeeds, side |-> SideSeeds]
SideKinds == {"codex", "opencode"}
FileOf == [auth |-> "claude", servers |-> "claude", playwright |-> "claude",
           settings |-> "settings", providers |-> "opencode",
           context |-> "context", guidance |-> "context"]
SeedFiles == {FileOf[s] : s \in DOMAIN FileOf}
JsonFiles == SeedFiles \ {"context"}
Slots == 1..MaxSlots
BundledId == "finding-skills"
ReservedIds == {BundledId}
SkillIds == {BundledId, "picked"}  \* the ids of the launch's skills

VARIABLES
  file,   \* what each file holds
  skills, \* who wrote each skill
  cache,  \* whose ~/.cache is
  codex,  \* whose the credentials in ~/.codex/auth.json are
  seeder, \* each seeder: the seed it is at, how far that is, what it will write, its XDG_CACHE_HOME
  runs,   \* starts of each seeder
  sideSeeded, \* the kinds whose side engine this runtime has seeded
  mishaps, \* failures and edits so far
  own,    \* history: the files the user has written into
  hurt,   \* history: the files two wrote at once, or a write broke off
  broken, \* history: the user deleted an end marker
  signed, \* history: a sign-in since the launch's seed and the side engine's
  clean   \* history: this launch was alone, and nothing failed or changed since

seedVars == <<file, skills, cache, codex, seeder, runs, sideSeeded, mishaps,
              own, hurt, broken, signed, clean>>

Markers == [context |-> <<"ctx[", "ctx]">>, guidance |-> <<"gd[", "gd]">>]
Pieces == {"own"} \cup {Markers[b][i] : b \in DOMAIN Markers, i \in 1..2}
EmptyConfig == [keys |-> {}, mcp |-> [i \in Slots |-> "free"]]
JsonContent == [keys : SUBSET {"onboarded", "bypass", "unrestricted", "provider", "legacy", "own"},
                mcp : [Slots -> {"free", "http", "stdio"}]]
Absent(f) == file[f] \in {NoSeedFile, TornFile}

ASSUME SeedFileAssumption ==
  \A blank \in {NoSeedFile, TornFile} : blank \notin JsonContent /\ blank \notin Seq(Pieces)

SeedTypeOK ==
  /\ \A f \in JsonFiles : Absent(f) \/ file[f] \in JsonContent
  /\ Absent("context") \/ file["context"] \in Seq(Pieces)
  /\ skills \in [SkillIds -> {"none", "bundled", "picked", "own"}]
  /\ cache \in {"none", "ours", "root"} /\ codex \in {"none", "seeded", "own"}
  /\ \A p \in Seeders : /\ seeder[p].at \in 0..Len(Program[p]) + 1
                        /\ seeder[p].phase \in {"idle", "merged", "cut"}
                        /\ seeder[p].xdg \in BOOLEAN
  /\ runs \in [Seeders -> 0..MaxRuns]
  /\ mishaps \in 0..MaxMishaps
  /\ own \subseteq SeedFiles /\ hurt \subseteq SeedFiles
  /\ sideSeeded \subseteq SideKinds /\ {broken, signed, clean} \subseteq BOOLEAN

\* A seeder between two seeds.
Resting(at, xdg) == [at |-> at, phase |-> "idle", got |-> NoSeedFile, xdg |-> xdg]

\* The user has an opencode configuration, which an older image has seeded, and a
\* skill; the repository has a context file.
SeedInit ==
  /\ file = [f \in SeedFiles |-> IF f = "opencode" THEN [EmptyConfig EXCEPT !.keys = {"legacy", "own"}]
                                 ELSE IF f = "context" THEN <<"own">> ELSE NoSeedFile]
  /\ skills = [id \in SkillIds |-> IF id = "picked" THEN "own" ELSE "none"] /\ cache = "none" /\ codex = "none"
  /\ seeder = [p \in Seeders |-> Resting(0, FALSE)]
  /\ runs = [p \in Seeders |-> 0] /\ sideSeeded = {} /\ mishaps = 0
  /\ own = {"context", "opencode"} /\ hurt = {} /\ broken = FALSE /\ signed = FALSE /\ clean = FALSE

Seeding(p) == seeder[p].at \in 1..Len(Program[p])
Seed(p) == Program[p][seeder[p].at]
Done(p) == seeder[p].at = Len(Program[p]) + 1
Writing(p, f) == Seeding(p) /\ seeder[p].phase # "idle" /\ FileOf[Seed(p)] = f
InUse(f) == \E p \in Seeders : Writing(p, f)

----------------------------------------------------------------------------
\* The merges.

Unused(mcp) == {i \in Slots : mcp[i] = "free"}
FirstUnused(mcp) == CHOOSE i \in Unused(mcp) : \A j \in Unused(mcp) : i <= j

\* seedMcpServers: under the first name that is not in use.
WithServer(now) == [now EXCEPT !.mcp[FirstUnused(now.mcp)] = "http"]

\* seedPlaywrightMcp: under the first name not in use, unless its own entry comes first.
SeesOwnEntry(now) ==
  \E i \in Slots : now.mcp[i] = "stdio" /\ \A j \in 1..i : now.mcp[j] # "free"
WithPlaywright(now) ==
  IF SeesOwnEntry(now) THEN now ELSE [now EXCEPT !.mcp[FirstUnused(now.mcp)] = "stdio"]

\* mergeJsonFile: what the file has stays but for the keys to drop, the patch wins.
WithKey(now, key, drop) == [now EXCEPT !.keys = (@ \ drop) \cup {key}]

\* stripMarkerBlock: an unterminated block takes what follows it along.
Places(text, mark) == {i \in DOMAIN text : text[i] = mark}
Least(s) == CHOOSE i \in s : \A j \in s : i <= j
NotStripped(text, marks) == text
Stripped(text, marks) ==
  IF Places(text, marks[1]) = {} THEN text
  ELSE LET from == Least(Places(text, marks[1]))
           ends == {i \in Places(text, marks[2]) : i >= from}
       IN SubSeq(text, 1, from - 1)
            \o IF ends = {} THEN <<>> ELSE SubSeq(text, Least(ends) + 1, Len(text))

\* seedMarkerBlock: the block goes to the end, what is outside it stays.
WithBlock(text, marks) == Stripped(text, marks) \o marks

Parsed(f) == IF ~Absent(f) THEN file[f] ELSE IF f = "context" THEN <<>> ELSE EmptyConfig

\* What each seed makes of what its file holds.
Onboarded(now) == WithKey(now, "onboarded", {})
Bypassing(now) == WithKey(now, "bypass", {})
Unrestricted(now) == WithKey(now, "unrestricted", {})
WithProvider(now) == WithKey(now, "provider", {"legacy"})
WithContext(now) == WithBlock(now, Markers.context)
WithGuidance(now) == WithBlock(now, Markers.guidance)
Merged(seed) ==
  LET now == Parsed(FileOf[seed])
  IN CASE seed = "auth" -> Onboarded(now)
       [] seed = "servers" -> WithServer(now)
       [] seed = "playwright" -> WithPlaywright(now)
       [] seed = "settings" -> Unrestricted(Bypassing(now))
       [] seed = "providers" -> WithProvider(now)
       [] seed = "context" -> WithContext(now)
       [] seed = "guidance" -> WithGuidance(now)

----------------------------------------------------------------------------
\* The seeders' steps.

Mishap == mishaps < MaxMishaps /\ mishaps' = mishaps + 1
AtSeed(p, at, xdg) == [seeder EXCEPT ![p] = Resting(at, xdg)]
Holding(p, phase, got) ==
  [seeder EXCEPT ![p] = [at |-> seeder[p].at, phase |-> phase, got |-> got, xdg |-> seeder[p].xdg]]
Advanced(p) == AtSeed(p, seeder[p].at + 1, seeder[p].xdg)

\* The start of the runtime, or of a launch: the first one just before the runtime,
\* others from a terminal.  A new runtime remembers no side seed.
Beside(p) == \E q \in Seeders \ {p} : Seeding(q)
Start(p) ==
  /\ p # "side" /\ seeder[p].at = 0 /\ runs[p] < MaxRuns
  /\ IF p = "boot" THEN runs["launch"] > 0 ELSE runs["launch"] = 0 \/ Done("boot")
  /\ runs' = [runs EXCEPT ![p] = @ + 1]
  /\ seeder' = AtSeed(p, 1, seeder[p].xdg)
  /\ clean' = (p = "launch" /\ ~Beside(p))
  /\ sideSeeded' = {kind \in sideSeeded : p # "boot"} /\ signed' = (signed /\ p # "boot")
  /\ UNCHANGED <<file, skills, cache, codex, mishaps, own, hurt, broken>>

\* seedCodex: the injected credentials replace those that are there.
CodexSeeded == codex' = "seeded" /\ signed' = FALSE

\* The file is read and merged; our own entry found means nothing to write.  The
\* launch's provider seed has put the injected codex credentials in place before.
Read(p) ==
  /\ Seeding(p) /\ Seed(p) \in DOMAIN FileOf /\ seeder[p].phase = "idle"
  /\ LET f == FileOf[Seed(p)]
     IN /\ f = "claude" => Unused(Parsed(f).mcp) # {}
        /\ seeder' = IF Seed(p) = "playwright" /\ SeesOwnEntry(Parsed(f)) THEN Advanced(p)
                     ELSE Holding(p, "merged", Merged(Seed(p)))
        /\ hurt' = IF InUse(f) THEN hurt \cup {f} ELSE hurt
  /\ IF Seed(p) = "providers" /\ p = "launch" THEN CodexSeeded ELSE UNCHANGED <<codex, signed>>
  /\ UNCHANGED <<file, skills, cache, runs, sideSeeded, mishaps, own, broken, clean>>

\* writeFileSync opens the file, which empties it, and then writes it.
Cut(p) ==
  /\ Seeding(p) /\ seeder[p].phase = "merged"
  /\ file' = [file EXCEPT ![FileOf[Seed(p)]] = TornFile]
  /\ seeder' = Holding(p, "cut", seeder[p].got)
  /\ UNCHANGED <<skills, cache, codex, runs, sideSeeded, mishaps, own, hurt, broken, signed, clean>>

Write(p) ==
  /\ Seeding(p) /\ seeder[p].phase = "cut"
  /\ file' = [file EXCEPT ![FileOf[Seed(p)]] = seeder[p].got]
  /\ seeder' = Advanced(p)
  /\ UNCHANGED <<skills, cache, codex, runs, sideSeeded, mishaps, own, hurt, broken, signed, clean>>

\* The bundled skills replace their own copies; the picked ones whatever has their id,
\* a skill of the user's too, but never a bundled one.
BundledCopied == [skills EXCEPT ![BundledId] = "bundled"]
PickedWritten == [id \in SkillIds |-> IF id \in ReservedIds THEN skills[id] ELSE "picked"]
CopySkills(p) ==
  /\ Seeding(p) /\ Seed(p) \in {"skills", "user skills"}
  /\ skills' = IF Seed(p) = "skills" THEN BundledCopied ELSE PickedWritten
  /\ seeder' = Advanced(p)
  /\ UNCHANGED <<file, cache, codex, runs, sideSeeded, mishaps, own, hurt, broken, signed, clean>>

\* ensureHomeWritable: a directory that cannot be written is taken back with sudo,
\* if sudo may; a cache that still cannot is put elsewhere.
Reclaimed == cache' = "ours"
Redirected == cache = "root" /\ UNCHANGED cache
EnsureHome(p) ==
  /\ \/ Seeding(p) /\ Seed(p) = "home"
     \/ p = "boot" /\ Done(p)  \* before it spawns an agent
  /\ LET at == IF Seeding(p) THEN seeder[p].at + 1 ELSE seeder[p].at
     IN \/ Reclaimed /\ seeder' = AtSeed(p, at, seeder[p].xdg)
        \/ Redirected /\ seeder' = AtSeed(p, at, TRUE)
  /\ UNCHANGED <<file, skills, codex, runs, sideSeeded, mishaps, own, hurt, broken, signed, clean>>

\* seedSideAuth, when a side engine starts: once for each kind in a runtime, whether
\* it could write or not.
SideSpawn(kind) ==
  /\ Done("boot") /\ kind \notin sideSeeded /\ sideSeeded' = sideSeeded \cup {kind}
  /\ IF kind = "codex"
     THEN /\ \/ codex' = "seeded" /\ UNCHANGED mishaps
             \/ Mishap /\ UNCHANGED codex
          /\ UNCHANGED <<seeder, clean>>
     ELSE /\ seeder["side"].at = 0 /\ seeder' = AtSeed("side", 1, FALSE) /\ clean' = FALSE
          /\ UNCHANGED <<codex, mishaps>>
  /\ UNCHANGED <<file, skills, cache, runs, own, hurt, broken, signed>>

----------------------------------------------------------------------------
\* What goes wrong.

Torn(S) == {FileOf[Seed(p)] : p \in {p \in S : seeder[p].phase = "cut"}}

\* A seed throws, before its write or in it, and is skipped.
SeedFails(p) ==
  /\ Seeding(p) /\ seeder[p].phase # "merged" /\ Mishap /\ clean' = FALSE
  /\ seeder' = Advanced(p) /\ hurt' = hurt \cup Torn({p})
  /\ UNCHANGED <<file, skills, cache, codex, runs, sideSeeded, own, broken, signed>>

\* The runtime restarts, or the launch's session is killed.
KilledWith(p) == IF p = "launch" THEN {"launch"} ELSE {"boot", "side"}
SeederKilled(p) ==
  /\ p # "side" /\ seeder[p].at # 0 /\ Mishap /\ clean' = FALSE
  /\ seeder' = [q \in Seeders |-> IF q \in KilledWith(p) THEN Resting(0, FALSE) ELSE seeder[q]]
  /\ hurt' = hurt \cup Torn(KilledWith(p))
  /\ UNCHANGED <<file, skills, cache, codex, runs, sideSeeded, own, broken, signed>>

\* A command run as root leaves the cache to root.
RootWrites ==
  /\ Mishap /\ clean' = FALSE /\ cache' = "root"
  /\ UNCHANGED <<file, skills, codex, seeder, runs, sideSeeded, own, hurt, broken, signed>>

\* The user's edits, each of which may come while a seed writes the file.
EditFile(f) ==
  /\ Mishap /\ clean' = FALSE
  /\ own' = own \cup {f} /\ hurt' = IF InUse(f) THEN hurt \cup {f} ELSE hurt
  /\ UNCHANGED <<skills, cache, codex, seeder, runs, sideSeeded, signed>>
WriteKey ==
  /\ EditFile("claude") /\ UNCHANGED broken
  /\ file' = [file EXCEPT !["claude"] = WithKey(Parsed("claude"), "own", {})]
DeleteMarker ==
  /\ EditFile("context") /\ broken' = TRUE
  /\ \E i \in DOMAIN Parsed("context") :
       /\ Parsed("context")[i] \in {"ctx]", "gd]"}
       /\ file' = [file EXCEPT !["context"] = SubSeq(@, 1, i - 1) \o SubSeq(@, i + 1, Len(@))]
RemoveServer(i) ==
  /\ EditFile("claude") /\ UNCHANGED broken
  /\ Parsed("claude").mcp[i] = "http"
  /\ file' = [file EXCEPT !["claude"] = [WithKey(@, "own", {}) EXCEPT !.mcp[i] = "free"]]
WriteSkill(id) ==
  /\ Mishap /\ clean' = FALSE /\ skills' = [skills EXCEPT ![id] = "own"]
  /\ UNCHANGED <<file, cache, codex, seeder, runs, sideSeeded, own, hurt, broken, signed>>
SignIn ==
  /\ Mishap /\ clean' = FALSE /\ codex' = "own" /\ signed' = ("codex" \in sideSeeded)
  /\ UNCHANGED <<file, skills, cache, seeder, runs, sideSeeded, own, hurt, broken>>

SeedStep(p) == Start(p) \/ Read(p) \/ Cut(p) \/ Write(p) \/ CopySkills(p) \/ EnsureHome(p)
SeedNext ==
  \/ \E p \in Seeders : SeedStep(p) \/ SeedFails(p) \/ SeederKilled(p)
  \/ RootWrites \/ WriteKey \/ DeleteMarker \/ SignIn
  \/ \E kind \in SideKinds : SideSpawn(kind)
  \/ \E i \in Slots : RemoveServer(i)
  \/ \E id \in SkillIds : WriteSkill(id)

----------------------------------------------------------------------------
\* Properties.

OwnIn(f) ==
  ~Absent(f) /\ IF f = "context" THEN Places(file[f], "own") # {} ELSE "own" \in file[f].keys

(* What the user has written into a file the seeds share is still there
   ("never clobbers other keys", "preserving everything outside the block"),
   unless the file was written by two at once, a write of it broke off, or an end
   marker is gone. *)
OwnKept ==
  \A f \in own \ hurt :
    \/ OwnIn(f)
    \/ f = "context" /\ broken
    \/ \E p \in Seeders : seeder[p].phase = "cut" /\ FileOf[Seed(p)] = f

(* An agent whose launch ran alone, with nothing failing, starts with all of its
   configuration, whatever the launches, the breaks and the seeds that wrote at once
   before have left: its servers, its settings, one block of each kind, its skills
   (a bundled one is never the picked one of that id), a cache to write to. *)
Configured ==
  Done("launch") /\ clean =>
    /\ \A s \in {"auth", "servers", "playwright", "settings", "providers"} : ~Absent(FileOf[s])
    /\ "onboarded" \in file["claude"].keys /\ {"http", "stdio"} \subseteq {file["claude"].mcp[i] : i \in Slots}
    /\ {"bypass", "unrestricted"} \subseteq file["settings"].keys
    /\ "provider" \in file["opencode"].keys /\ "legacy" \notin file["opencode"].keys
    /\ ~Absent("context")
    /\ ~broken => \A b \in DOMAIN Markers : \A i \in 1..2 : Cardinality(Places(file["context"], Markers[b][i])) = 1
    /\ skills[BundledId] = "bundled" /\ skills["picked"] = "picked"
    /\ cache = "ours" \/ seeder["launch"].xdg

(* The browser's MCP server is configured once, however often it is seeded beside
   servers of its name ("a re-run that finds our exact entry is a no-op"), and
   whoever writes the file at once, until the user removes one of those. *)
StdioOnce ==
  ~Absent("claude") /\ "claude" \notin own =>
    Cardinality({i \in Slots : file["claude"].mcp[i] = "stdio"}) <= 1

(* A sign-in made after the credentials of its kind were seeded for a side engine
   stays until the next launch (which puts the injected ones back) or the next
   runtime: no later side engine of this one puts them back. *)
SignInKept == signed => codex = "own"

(* An agent whose launch ran alone starts with all of its configuration; the user's
   keys and texts stay in the files the seeds share, but for what two wrote at once
   or a write broke off; the browser's server is there once; and a sign-in outlives
   the side engines of its runtime. *)
SeedsSafe == SeedTypeOK /\ OwnKept /\ Configured /\ StdioOnce /\ SignInKept
================================================================================
