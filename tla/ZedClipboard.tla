----------------------------- MODULE ZedClipboard -----------------------------
(***************************************************************************)
(* Images for the streamed editor (zedClipboard.js): a POST's body is read *)
(* in chunks up to a limit, xclip takes it as the display's clipboard, and *)
(* with ?autopaste=1 xdotool presses Ctrl+V into whatever has the focus.   *)
(* Requests that are no POST, or lack the token or the type, are answered  *)
(* before any of this and are left out.                                    *)
(***************************************************************************)
EXTENDS Naturals, Sequences

CONSTANTS
  Uploads,
  Autopaste, \* those with ?autopaste=1
  MaxSize,   \* MAX_BYTES, in chunks
  NoImage    \* nothing was copied

ASSUME ClipAssumption == Autopaste \subseteq Uploads /\ MaxSize \in Nat

VARIABLES
  upload,    \* each upload: its step, the chunks read, did it go over the limit?
  answers,   \* the answers each was given
  clipboard, \* whose image it is
  pasted,    \* whose image each upload's Ctrl+V pasted
  overtaken  \* history: uploads whose image another replaced before their Ctrl+V

clipVars == <<upload, answers, clipboard, pasted, overtaken>>

ClipTypeOK ==
  /\ upload \in [Uploads -> [step : {"new", "reading", "xclip", "xdotool", "over"},
                         size : 0..MaxSize + 1, aborted : BOOLEAN]]
  /\ clipboard \in Uploads \cup {NoImage}
  /\ pasted \in [Uploads -> Uploads \cup {NoImage}] /\ overtaken \subseteq Uploads

ClipInit ==
  /\ upload = [u \in Uploads |-> [step |-> "new", size |-> 0, aborted |-> FALSE]]
  /\ answers = [u \in Uploads |-> <<>>]
  /\ clipboard = NoImage /\ pasted = [u \in Uploads |-> NoImage] /\ overtaken = {}

To(u, step) == upload' = [upload EXCEPT ![u].step = step]
Answer(u, code) == answers' = [answers EXCEPT ![u] = Append(@, code)]

-----------------------------------------------------------------------------
Reading(u) ==
  upload[u].step = "new" /\ To(u, "reading") /\ UNCHANGED <<answers, clipboard, pasted, overtaken>>

\* A chunk; the first beyond the limit is answered, and the request destroyed.
Data(u) ==
  /\ upload[u].step = "reading" /\ upload[u].size <= MaxSize
  /\ upload' = [upload EXCEPT ![u] =
       [step |-> "reading", size |-> upload[u].size + 1, aborted |-> upload[u].size = MaxSize]]
  /\ IF upload[u].size = MaxSize THEN Answer(u, "413") ELSE answers' = answers
  /\ UNCHANGED <<clipboard, pasted, overtaken>>

\* The body is there: it is given to xclip, unless it is empty or was too large.
End(u) ==
  /\ upload[u].step = "reading"
  /\ IF upload[u].aborted THEN To(u, "over") /\ answers' = answers
     ELSE IF upload[u].size = 0 THEN To(u, "over") /\ Answer(u, "400")
     ELSE To(u, "xclip") /\ answers' = answers
  /\ UNCHANGED <<clipboard, pasted, overtaken>>

\* The client goes away.
ReadError(u) ==
  /\ upload[u].step = "reading" /\ To(u, "over")
  /\ IF upload[u].aborted THEN answers' = answers ELSE Answer(u, "400")
  /\ UNCHANGED <<clipboard, pasted, overtaken>>

\* Uploads that set the clipboard and have yet to paste.
Pasting == {v \in Uploads : upload[v].step = "xdotool"}

\* Variant: the keys are pressed while xclip still starts.
XclipAtOnce(u) ==
  /\ upload[u].step = "xclip" /\ To(u, "over")
  /\ clipboard' = u /\ overtaken' = overtaken \cup Pasting
  /\ pasted' = IF u \in Autopaste THEN [pasted EXCEPT ![u] = clipboard] ELSE pasted
  /\ Answer(u, "200")

\* xclip owns the selection; only then does xdotool run.
Xclip(u) ==
  /\ upload[u].step = "xclip"
  /\ clipboard' = u /\ overtaken' = overtaken \cup Pasting
  /\ IF u \in Autopaste THEN To(u, "xdotool") /\ answers' = answers
                        ELSE To(u, "over") /\ Answer(u, "200")
  /\ UNCHANGED pasted

XclipFails(u) ==
  upload[u].step = "xclip" /\ To(u, "over") /\ Answer(u, "502") /\ UNCHANGED <<clipboard, pasted, overtaken>>

\* A paste that fails fails nothing.
Xdotool(u) ==
  /\ upload[u].step = "xdotool" /\ To(u, "over") /\ Answer(u, "200")
  /\ pasted' \in {pasted, [pasted EXCEPT ![u] = clipboard]}
  /\ UNCHANGED <<clipboard, overtaken>>

ClipNext ==
  \E u \in Uploads :
    Reading(u) \/ Data(u) \/ End(u) \/ ReadError(u) \/ Xclip(u) \/ XclipFails(u) \/ Xdotool(u)

-----------------------------------------------------------------------------
(* An upload is answered once, whatever its body's events are after it was found
   too large and though xclip is not there, and with 200 only if its image came
   to the clipboard. *)
OneAnswer ==
  \A u \in Uploads :
    /\ Len(answers[u]) <= 1 /\ (upload[u].step = "over" => answers[u] # <<>>)
    /\ answers[u] = <<"200">> => upload[u].size \in 1..MaxSize

(* The Ctrl+V of an upload pastes its own image, unless another upload set the
   clipboard between (then it pastes that one, twice perhaps). *)
PastesOwn == \A u \in Uploads \ overtaken : pasted[u] \in {u, NoImage}

(* Uploads do not get in each other's way: each is answered once and truthfully,
   and pastes its own image unless another replaced it. *)
UploadsApart == ClipTypeOK /\ OneAnswer /\ PastesOwn
===============================================================================
