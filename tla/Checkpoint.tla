------------------------------- MODULE Checkpoint -------------------------------
(***************************************************************************)
(* Checkpointing one repository onto the session's shadow ref: a tick      *)
(* every two minutes (gitCheckpoint.js) and `oyren checkpoint`, another    *)
(* process with no memory (cli/checkpoint.js), run the same pass           *)
(* (checkpointRepo.js), which strips the blocks the runtime seeds into the *)
(* context file (checkpointContext.js).  The user edits and commits at any *)
(* time; any git command may fail.                                         *)
(*                                                                         *)
(* A file is its text and whether it has the seeded block; a tree is the   *)
(* code and the context file.                                              *)
(***************************************************************************)
EXTENDS Naturals, Sequences

CONSTANTS
  Ticks,      \* ticks that the timer could have running at once
  Cli,        \* `oyren checkpoint`
  Codes, Texts,
  Empty,      \* a file with nothing in it
  NoFile, None,
  MaxEdits,   \* bound: what the user does
  MaxFailures \* bound: git commands that fail, posts, restarts

ASSUME CheckpointAssumption == Cli \notin Ticks /\ Empty \notin Texts

Passes == Ticks \cup {Cli}
Files == [text : Texts \cup {Empty}, block : BOOLEAN]
Trees == [code : Codes, file : Files \cup {NoFile}]

VARIABLES
  commits, head, work,  \* the repository: trees of the commits, HEAD, the worktree
  shadow,               \* the remote's ref: its tree and the commit under it
  memory,               \* the runtime's { lastHead, lastTree }
  inFlight,
  pass,                 \* each pass: step, head, dirt, what it pushes
  edits, failures,
  moved,                \* history: HEAD moved between the pass's reads of HEAD and of its files
  covers,               \* history: every pass that found nothing to do was right
  cliPushed,            \* history: the last push was the command's, or its end was not seen
  passedOver            \* history: an "unchanged" pass noted a head whose content is not on the ref

checkVars == <<commits, head, work, shadow, memory, inFlight, pass, edits, failures,
               moved, covers, cliPushed, passedOver>>
userVars == <<commits, head, work, edits>>
checkHistory == <<moved, covers, cliPushed, passedOver>>

Nothing == [lastHead |-> 0, lastTree |-> None]
AtRest == [at |-> "idle", head |-> 0, dirt |-> None, tree |-> None]
PassSteps == {"idle", "head", "snapshot", "compare", "pushed", "report", "hung"}

CheckTypeOK ==
  /\ commits \in Seq(Trees) /\ head \in DOMAIN commits /\ work \in Trees
  /\ shadow \in [base : Nat, tree : Trees \cup {None}]
  /\ memory \in [lastHead : Nat, lastTree : Trees \cup {None}]
  /\ inFlight \in BOOLEAN /\ edits \in 0..MaxEdits /\ failures \in 0..MaxFailures
  /\ \A p \in Passes :
       /\ pass[p].at \in PassSteps /\ pass[p].head \in 0..Len(commits)
       /\ pass[p].dirt \in Files \cup {NoFile, None} /\ pass[p].tree \in Trees \cup {None}
  /\ moved \in [Passes -> BOOLEAN]
  /\ covers \in BOOLEAN /\ cliPushed \in BOOLEAN /\ passedOver \in BOOLEAN

\* A clone whose context file, if it has one, the runtime has seeded.
CheckInit ==
  /\ \E code \in Codes, file \in {NoFile} \cup [text : Texts, block : {FALSE}] :
       /\ commits = <<[code |-> code, file |-> file]>>
       /\ work = [code |-> code,
                  file |-> [text |-> IF file = NoFile THEN Empty ELSE file.text, block |-> TRUE]]
  /\ head = 1 /\ shadow = [base |-> 0, tree |-> None] /\ memory = Nothing /\ inFlight = FALSE
  /\ pass = [p \in Passes |-> AtRest] /\ edits = 0 /\ failures = 0
  /\ moved = [p \in Passes |-> FALSE] /\ covers = TRUE
  /\ cliPushed = FALSE /\ passedOver = FALSE

-----------------------------------------------------------------------------
Acts ==
  /\ edits < MaxEdits /\ edits' = edits + 1
  /\ UNCHANGED <<covers, shadow, memory, inFlight, pass, failures, cliPushed, passedOver>>
HeadMoves == moved' = [p \in Passes |-> moved[p] \/ pass[p].at = "head"]

\* The user edits code or the context file or takes an edit back, commits
\* everything, goes to a commit.
Edit ==
  /\ Acts /\ UNCHANGED <<commits, head, moved>>
  /\ \/ \E code \in Codes \ {work.code} : work' = [work EXCEPT !.code = code]
     \/ \E file \in {NoFile, [text |-> Empty, block |-> FALSE]} \cup [text : Texts, block : BOOLEAN] :
          file # work.file /\ work' = [work EXCEPT !.file = file]
CommitAll ==
  /\ Acts /\ HeadMoves /\ work # commits[head]
  /\ commits' = Append(commits, work) /\ head' = Len(commits) + 1 /\ UNCHANGED work
Checkout ==
  /\ Acts /\ HeadMoves /\ \E h \in DOMAIN commits : head' = h /\ work' = commits[h]
  /\ UNCHANGED commits

-----------------------------------------------------------------------------
(* checkpointContext.js. *)

\* A context file's content without the seeded blocks, as it is staged.
Strip(file) == [text |-> file.text, block |-> FALSE]

\* contextFileDirt against a HEAD: None when it is clean, else what to stage.
ContextDirt(base) ==
  IF work.file = NoFile THEN IF base # NoFile THEN NoFile ELSE None
  ELSE LET stripped == Strip(work.file) IN
       IF base = stripped \/ (base = NoFile /\ stripped.text = Empty) THEN None ELSE stripped

\* read-tree, add -A, the context file back to HEAD's, then its dirt on top.
ScratchIndex(h, dirt) ==
  [code |-> work.code, file |-> IF dirt = None THEN commits[h].file ELSE dirt]

-----------------------------------------------------------------------------
(* One pass, a git command or a few at a time. *)

To(p, at) == pass' = [pass EXCEPT ![p].at = at]
PassDone(p) == pass' = [pass EXCEPT ![p] = AtRest]
PassEnds(p) == pass' = [pass EXCEPT ![p] = [AtRest EXCEPT !.at = IF p = Cli THEN "idle" ELSE "report"]]

\* The memory the pass works with; the CLI's is empty.
Remembered(p) == IF p = Cli THEN Nothing ELSE memory
Remember(p, m) == memory' = IF p = Cli THEN memory ELSE m

FlightFree == ~inFlight

\* The timer's tick, or the command: the head is read.
BeginPass(p) ==
  /\ pass[p].at = "idle"
  /\ IF p = Cli THEN UNCHANGED inFlight
     ELSE FlightFree /\ inFlight' = TRUE /\ p = CHOOSE q \in Ticks : pass[q].at = "idle"
  /\ pass' = [pass EXCEPT ![p] = [AtRest EXCEPT !.at = "head", !.head = head]]
  /\ moved' = [moved EXCEPT ![p] = FALSE]
  /\ UNCHANGED <<userVars, shadow, memory, failures, covers, cliPushed, passedOver>>

\* status and the context's dirt, against HEAD as it is now.
Dirt == ContextDirt(commits[head].file)
Dirty == work.code # commits[head].code \/ Dirt # None
NothingNew(p) == ~Dirty /\ pass[p].head = Remembered(p).lastHead

\* history: what the pass found to be on the ref is, seeded blocks aside, the
\* content of its tip or of the commit under it.
WithoutBlock(tree) == IF tree.file = NoFile THEN tree ELSE [tree EXCEPT !.file = Strip(tree.file)]
IsSafe(tree) ==
  shadow.base # 0 /\ WithoutBlock(tree) \in {WithoutBlock(shadow.tree), WithoutBlock(commits[shadow.base])}
Covers(tree) == covers' = (covers /\ (cliPushed \/ passedOver \/ IsSafe(tree)))

Clean(p) ==
  /\ pass[p].at = "head" /\ NothingNew(p)
  /\ Covers(commits[pass[p].head]) /\ PassEnds(p)
  /\ UNCHANGED <<userVars, shadow, memory, inFlight, failures, moved, cliPushed, passedOver>>

NotClean(p) ==
  /\ pass[p].at = "head" /\ ~NothingNew(p)
  /\ pass' = [pass EXCEPT ![p] = [at |-> IF Dirty THEN "snapshot" ELSE "compare", head |-> @.head,
                                  dirt |-> Dirt, tree |-> commits[@.head]]]
  /\ UNCHANGED <<userVars, shadow, memory, inFlight, failures, checkHistory>>

Snapshot(p) ==
  /\ pass[p].at = "snapshot"
  /\ pass' = [pass EXCEPT ![p].at = "compare", ![p].tree = ScratchIndex(pass[p].head, pass[p].dirt)]
  /\ UNCHANGED <<userVars, shadow, memory, inFlight, failures, checkHistory>>

\* The same content was pushed last: nothing to do but note the head, which may
\* be a commit of other content that no push has carried.
Unchanged(p) ==
  /\ pass[p].at = "compare" /\ pass[p].tree = Remembered(p).lastTree
  /\ Remember(p, [memory EXCEPT !.lastHead = pass[p].head])
  /\ Covers(pass[p].tree) /\ PassEnds(p)
  /\ passedOver' = IF p = Cli THEN passedOver ELSE ~IsSafe(commits[pass[p].head])
  /\ UNCHANGED <<userVars, shadow, inFlight, failures, moved, cliPushed>>

\* push -f: the remote's ref moves, later the command's end is seen.
Push(p) ==
  /\ pass[p].at = "compare" /\ pass[p].tree # Remembered(p).lastTree /\ To(p, "pushed")
  /\ shadow' = [base |-> pass[p].head, tree |-> pass[p].tree]
  /\ cliPushed' = (p = Cli)
  /\ UNCHANGED <<userVars, memory, inFlight, failures, moved, covers, passedOver>>

Pushed(p) ==
  /\ pass[p].at = "pushed"
  /\ Remember(p, [lastHead |-> pass[p].head, lastTree |-> pass[p].tree])
  /\ passedOver' = (p = Cli /\ passedOver)
  /\ PassEnds(p)
  /\ UNCHANGED <<userVars, shadow, inFlight, failures, moved, covers, cliPushed>>

\* Any command fails or is killed after 60 s, a push even after it was done;
\* the memory is untouched.
GitFails(p) ==
  /\ pass[p].at \notin {"idle", "report", "hung"} /\ failures < MaxFailures
  /\ failures' = failures + 1 /\ PassEnds(p)
  /\ cliPushed' = (cliPushed \/ pass[p].at = "pushed")
  /\ UNCHANGED <<userVars, shadow, memory, inFlight, moved, covers, passedOver>>


Landed == inFlight' = FALSE

\* reportMeta, whatever comes of it, then `finally`; or a git or gh that it runs
\* hangs, which nothing kills.
ReportEnds(p) ==
  /\ pass[p].at = "report" /\ PassDone(p) /\ Landed
  /\ UNCHANGED <<userVars, shadow, memory, failures, checkHistory>>

ReportHangs(p) ==
  /\ pass[p].at = "report" /\ To(p, "hung")
  /\ failures < MaxFailures /\ failures' = failures + 1
  /\ UNCHANGED <<userVars, shadow, memory, inFlight, checkHistory>>

\* The runtime is restarted: its memory is gone.
RuntimeRestarts ==
  /\ failures < MaxFailures /\ failures' = failures + 1
  /\ pass' = [p \in Passes |-> IF p = Cli THEN pass[p] ELSE AtRest]
  /\ inFlight' = FALSE /\ memory' = Nothing /\ passedOver' = FALSE
  /\ UNCHANGED <<userVars, shadow, moved, covers, cliPushed>>

GitStep(p) ==
  Clean(p) \/ NotClean(p) \/ Snapshot(p) \/ Unchanged(p) \/ Push(p) \/ Pushed(p)

CheckNext ==
  \/ Edit \/ CommitAll \/ Checkout \/ RuntimeRestarts
  \/ \E p \in Passes : BeginPass(p) \/ GitStep(p) \/ GitFails(p) \/ ReportEnds(p) \/ ReportHangs(p)

-----------------------------------------------------------------------------
(* The seeded block never leaks onto the ref, even when it has been committed,
   unless HEAD moves between a pass's reads of HEAD and of the context file; an
   edit at any time, or a commit or checkout later in the pass, makes none leak. *)
NoBlockLeaks ==
  [][\A p \in Passes : Push(p) /\ ~moved[p] /\ pass[p].tree.file # NoFile
                         => ~pass[p].tree.file.block]_checkVars

(* A pass that says "clean" or "unchanged" tells the truth, whatever the user does
   while it runs: the content it compared is the ref's tip or the commit under it
   (so it is after an edit was taken back, whose snapshot remains the tip).
   Excepted: the other process has pushed since, a push that was done looked
   failed, or an "unchanged" pass has noted a head whose content is not on the ref. *)
SaysTrue == covers

(* Once the user and the failures stop, the ref or the commit under it holds what
   the user has, with the same exceptions, and unless a report hangs: it leaves
   inFlight set, and no tick saves anything before the next restart. *)
Hung == \E p \in Ticks : pass[p].at = "hung"
Saved == IsSafe(ScratchIndex(head, Dirt))
SavedInTheEnd == <>[](edits = 0 \/ Hung \/ cliPushed \/ passedOver \/ Saved)

===============================================================================
