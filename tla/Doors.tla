-------------------------------- MODULE Doors --------------------------------
(***************************************************************************)
(* The doors of a session that carry the token in the URL (vncProxy.js,    *)
(* portProxy.js, ide.js, dshRouter.js): a browser asks for a page, follows *)
(* the redirects it is given, and ends at an upstream server, at the page  *)
(* that says it is not up yet, or with a refusal.                          *)
(*                                                                         *)
(* A URL is what the doors tell apart: the token, the port, what follows   *)
(* them, and the query, whose fields may be doubled: what matters is the   *)
(* order of the values of one field.  A folder is inside the workspace     *)
(* root, outside it, or the session's own ("workdir").                     *)
(***************************************************************************)
EXTENDS Naturals, Sequences

CONSTANT MaxHops  \* bound: redirects a browser follows

ASSUME DoorsAssumption == MaxHops \in Nat

Upstreams == {"zed", "editor", "app", "dsh"}

\* The values of folder, workspace, ew and token, in order, each of them as
\* often as the page named it; payload and one of the other fields.
Query(folders, workspaces, ew, tokens, other, payload) ==
  [folders |-> folders, workspaces |-> workspaces, ew |-> ew, tokens |-> tokens,
   other |-> other, payload |-> payload]
Other(o) == Query(<<>>, <<>>, <<>>, <<>>, o, FALSE)
NoQuery == Other("none")

\* token: the one in the path, or for dsh the cookie's; other: "path" is the
\* page's WebSocket, for the stream's client.
Url(door, token, port, rest, query) ==
  [door |-> door, token |-> token, port |-> port, rest |-> rest, query |-> query]

Tokens == {"good", "bad"}
Rests == {"bare", "slash", "page"}  \* .../token, .../token/, .../token/page
FolderPlaces == {"inside", "outside", "workdir"}

Once(S) == {<<>>} \cup {<<x>> : x \in S}
Twice(S) == Once(S) \cup {<<x, y>> : x \in S, y \in S}

EditorQueries ==
  {Query(f, w, <<>>, <<>>, "none", pl) : f \in Twice(FolderPlaces), w \in Once(FolderPlaces), pl \in BOOLEAN}
  \cup {Query(f, <<>>, e, <<>>, o, pl) : f \in Once(FolderPlaces), e \in Twice({"true", "false"}),
                                         o \in {"none", "any"}, pl \in BOOLEAN}
DshQueries == {Query(<<>>, <<>>, <<>>, k, o, FALSE) : k \in Twice(Tokens), o \in {"none", "any"}}

DoorUrls ==
  {Url("zed", t, "zed", r, Other(o)) : t \in Tokens, r \in Rests, o \in {"none", "path", "any"}}
  \cup {Url("port", t, p, r, Other(o)) : t \in Tokens, p \in {"app", "self", "invalid"}, r \in Rests,
                                         o \in {"none", "any"}}
  \cup {Url("editor", "good", "editor", r, q) : r \in Rests, q \in EditorQueries}
  \cup {Url("editor", "bad", "editor", r, NoQuery) : r \in Rests}
  \cup {Url("dsh", t, "dsh", "page", q) : t \in Tokens, q \in DshQueries}

VARIABLES
  url,     \* what the browser asks for
  method,  \* GET, another method, or a WebSocket upgrade
  hops,    \* redirects so far
  answer,  \* what it was given in the end
  up,      \* the upstreams that listen
  nested   \* is the session's folder inside the workspace root?

doorVars == <<url, method, hops, answer, up, nested>>

Waiting == [code |-> "asked", at |-> "none", url |-> NoQuery]

DoorsInit ==
  /\ url \in DoorUrls /\ method \in {"GET", "POST", "upgrade"} /\ hops = 0
  /\ answer = Waiting /\ up = Upstreams /\ nested \in BOOLEAN

-----------------------------------------------------------------------------
\* A field's value is its first one: URLSearchParams.get().
Names(values, x) == values # <<>> /\ Head(values) = x

\* What an upstream is asked: the door's prefix is stripped, but the editor is
\* served under its own; the query's tokens are taken out for dsh if they, not
\* the cookie, let the page in.
Downstream(u) ==
  CASE u.door = "editor" -> u
    [] u.door = "dsh" ->
         [u EXCEPT !.token = "stripped", !.query.tokens = IF Names(@, "good") THEN <<>> ELSE @]
    [] OTHER -> [u EXCEPT !.token = "stripped", !.rest = IF @ = "bare" THEN "slash" ELSE @]

\* A dsh page carries a token or the cookie; the others carry it in the path.
Admitted(u) == u.token = "good" \/ (u.door = "dsh" /\ Names(u.query.tokens, "good"))

Refused(u) ==
  IF ~Admitted(u) THEN {"401"}
  ELSE IF u.door = "port" /\ u.port \in {"invalid", "self"} THEN {"400"} ELSE {}

\* Bare load of a stream: the client is told where its WebSocket is.
BareLoad(u) == u.rest = "slash" /\ u.query = NoQuery

\* isWithin(): the root itself or below.
Within(folder) == folder = "inside" \/ (folder = "workdir" /\ nested)

\* The folder asked for: the first of the field's, or the first workspace.
Named(query) == query.folders \o query.workspaces

\* Variant: a window that names a folder is not asked whether it is empty.
PinnedEwLast(query) ==
  IF Named(query) # <<>> THEN ~Within(Head(Named(query)))
  ELSE Names(query.ew, "true") \/ ~query.payload

\* pinnedFolder(): does the session's folder replace what was asked for?
Pinned(query) ==
  \/ Names(query.ew, "true")
  \/ IF Named(query) = <<>> THEN ~query.payload ELSE ~Within(Head(Named(query)))

\* params.set and params.delete: of every value, not of the first.
PinFolder(query) == [query EXCEPT !.folders = <<"workdir">>, !.workspaces = <<>>, !.ew = <<>>]

\* Where a GET is redirected to.
Redirects(u) ==
  CASE u.door = "zed" /\ u.rest = "bare" /\ method = "GET" -> {[u EXCEPT !.rest = "slash"]}
    [] u.door = "zed" /\ BareLoad(u) /\ method = "GET" -> {[u EXCEPT !.query = Other("path")]}
    [] u.door = "port" /\ u.rest = "bare" /\ method = "GET" -> {[u EXCEPT !.rest = "slash"]}
    [] u.door = "editor" /\ u.rest # "page" /\ method # "upgrade" /\ Pinned(u.query) ->
         {[u EXCEPT !.rest = "slash", !.query = PinFolder(u.query)]}
    [] OTHER -> {}

-----------------------------------------------------------------------------
Redirect ==
  /\ answer = Waiting /\ Refused(url) = {} /\ hops < MaxHops
  /\ url' \in Redirects(url) /\ hops' = hops + 1
  /\ method' = "GET"
  /\ UNCHANGED <<answer, up, nested>>

Refuse ==
  /\ answer = Waiting
  /\ \E code \in Refused(url) : answer' = [code |-> code, at |-> "none", url |-> NoQuery]
  /\ UNCHANGED <<url, method, hops, up, nested>>

\* proxyHttp and proxyWs: to the upstream, or the page for one that is not up.
Proxy ==
  /\ answer = Waiting /\ Refused(url) = {} /\ Redirects(url) = {}
  /\ answer' = IF url.port \in up
               THEN [code |-> "200", at |-> url.port, url |-> Downstream(url)]
               ELSE [code |-> "not up", at |-> "none", url |-> NoQuery]
  /\ UNCHANGED <<url, method, hops, up, nested>>

\* The stack behind a door comes up or goes.
Restarts(upstream) ==
  /\ answer = Waiting /\ upstream \in Upstreams
  /\ up' = IF upstream \in up THEN up \ {upstream} ELSE up \cup {upstream}
  /\ UNCHANGED <<url, method, hops, answer, nested>>

DoorsNext == Redirect \/ Refuse \/ Proxy \/ Restarts(url.port)

DoorsTypeOK ==
  /\ url.rest \in Rests /\ hops \in 0..MaxHops /\ up \subseteq Upstreams
  /\ answer.code \in {"asked", "200", "not up", "400", "401"}
-----------------------------------------------------------------------------
(* Wherever a browser enters, it is redirected twice at most before it is served
   or refused: no door sends it round in a circle, if the session's folder is
   inside the workspace root (outside it, the editor's door does). *)
NoCircle == nested => hops <= 2

\* No field is named twice, and the folder in one way only.
Plain(query) == Len(Named(query)) <= 1 /\ Len(query.ew) <= 1 /\ Len(query.tokens) <= 1

(* A page that names no field twice, and not a folder beside a workspace, never
   opens the editor on an empty window or outside the workspace root, and what a
   redirect leaves is such a page, whatever the fields were (ideFolder.js:58-64,
   ide.js:76-80).  Of doubled fields the door judges the first only and passes the
   others on: what the editor makes of those is its own. *)
FolderStays ==
  answer.at = "editor" /\ url.rest # "page" /\ method # "upgrade" =>
    /\ hops > 0 => Plain(url.query)
    /\ Plain(url.query) =>
         /\ url.query.ew # <<"true">>
         /\ IF Named(url.query) = <<>> THEN url.query.payload ELSE Within(Named(url.query)[1])

\* Is the session's token in it, be it in the path, in the stream's WebSocket
\* path or in the query?
Carries(u) ==
  u.token = "good" \/ u.query.other = "path" \/ \E i \in DOMAIN u.query.tokens : u.query.tokens[i] = "good"

(* No upstream is the runtime itself, and none is given the session's token but
   the editor, which is served under the token's path, the stream, whose page is
   told its WebSocket's (vncProxy.js:71-75), and dsh if the cookie let the page in
   and the token stands behind a wrong one (dshRouter.js:52). *)
UpstreamsApart ==
  answer.code = "200" =>
    /\ answer.at \in Upstreams
    /\ Carries(answer.url) =>
         answer.at \in {"editor", "zed"} \/ (answer.at = "dsh" /\ Names(url.query.tokens, "bad"))

(* A door leads in: not round in a circle, not out of the workspace if the page's
   fields are plain, and with the token in hand only where the code sends it. *)
DoorsSafe == DoorsTypeOK /\ NoCircle /\ FolderStays /\ UpstreamsApart
===============================================================================
