------------------------------ MODULE ControlPlane ------------------------------
(***************************************************************************)
(* The runtime's front: the control API acting on the supervisor and the   *)
(* proxy routes (control.js), and the dispatch of requests and WebSocket   *)
(* upgrades to what they two say (router.js, routerApp.js, upgrade.js).    *)
(***************************************************************************)
EXTENDS Supervisor, ProxyRoutes

CONSTANT MaxOps  \* bound: control requests

ASSUME ControlAssumption == MaxOps \in Nat

VARIABLE ops
vars == <<supVars, routesVars, ops>>

TypeOK == SupTypeOK /\ RoutesTypeOK /\ ops \in 0..MaxOps

Init == SupInit /\ RoutesInit /\ ops = 0

\* handleControl: one request, to the supervisor or to the routes.
Control ==
  /\ ops < MaxOps /\ ops' = ops + 1
  /\ \/ SupRequest /\ UNCHANGED routesVars
     \/ RoutesRequest /\ UNCHANGED supVars

Next ==
  \/ Control
  \/ SupEvent /\ UNCHANGED <<routesVars, ops>>
  \/ RoutesEvent /\ UNCHANGED <<supVars, ops>>

Spec == Init /\ [][Next]_vars /\ RoutesFairness

-----------------------------------------------------------------------------
\* The reserved paths, in the order the code tests them.
Reserved(base, kind) == [base |-> base, exact |-> FALSE, kind |-> kind]
Exactly(base, kind) == [base |-> base, exact |-> TRUE, kind |-> kind]
Under(path, row) == IF row.exact THEN path = row.base ELSE IsPrefix(row.base, path)

HttpKinds == <<
  Exactly(<<"_oyren", "health">>, "health"), Reserved(<<"_oyren", "control">>, "control"),
  Reserved(<<"_oyren", "download">>, "download"), Reserved(<<"_oyren", "logs">>, "logs"),
  Exactly(<<"_oyren", "runs.html">>, "runs-page"), Reserved(<<"_oyren", "runs">>, "runs"),
  Reserved(<<"_oyren", "gateway">>, "gateway"), Reserved(<<"_oyren", "ide">>, "ide"),
  Reserved(<<"_oyren", "port">>, "port"), Reserved(<<"_oyren", "zed-clipboard">>, "zed-clipboard"),
  Reserved(<<"_oyren", "zed">>, "zed"), Reserved(<<"_oyren", "browser">>, "browser"),
  Reserved(<<"agent", "current">>, "agent-current"), Reserved(<<"agent", "stream">>, "agent-stream"),
  Reserved(<<"agent", "interrupt">>, "agent-interrupt"), Reserved(<<"agent", "models">>, "agent-models"),
  Reserved(<<"agent", "reset">>, "agent-reset"), Reserved(<<"agent", "model">>, "agent-model"),
  Reserved(<<"agent", "auth">>, "agent-auth"), Reserved(<<"agent", "message">>, "agent"),
  Reserved(<<"tmux">>, "tmux"), Reserved(<<"how-to-deploy">>, "static") >>

WsKinds == <<
  Reserved(<<"terminal">>, "terminal"), Reserved(<<"_oyren", "ide">>, "ide"),
  Reserved(<<"_oyren", "port">>, "port"), Reserved(<<"_oyren", "zed">>, "zed"),
  Reserved(<<"_oyren", "browser">>, "browser") >>

KindIn(kinds, path) ==
  LET hits == SelectSeq(kinds, LAMBDA row : Under(path, row))
  IN  IF hits = <<>> THEN "app" ELSE Head(hits).kind

routeFor == [path \in Paths |-> KindIn(HttpKinds, path)]
wsRouteFor == [path \in Paths |-> KindIn(WsKinds, path)]

\* Where the application's traffic goes: a route, else the exposed port, else
\* the gateway page (a WebSocket is dropped).  A route's prefix is stripped.
To(what, path) == [to |-> what, path |-> path]

AppTarget(path, otherwise) ==
  IF Match(path) # None THEN To(Match(path).port, Downstream(path, Match(path)))
  ELSE IF sup.exposedPort # NoPort THEN To(sup.exposedPort, path)
  ELSE To(otherwise, path)

\* upgrade.js picks the same upstream, and replays the request's own path.
WsTarget(path) ==
  IF Match(path) # None THEN To(Match(path).port, path)
  ELSE IF sup.exposedPort # NoPort THEN To(sup.exposedPort, path)
  ELSE To("dropped", path)

\* Variant: configured routes are looked at before the reserved paths.
HandleRoutesFirst(path) ==
  IF Match(path) # None THEN AppTarget(path, "gateway")
  ELSE IF routeFor[path] = "app" THEN AppTarget(path, "gateway") ELSE To(routeFor[path], path)

\* createRouter's handle.
Handle(path) == IF routeFor[path] = "app" THEN AppTarget(path, "gateway")
                ELSE To(routeFor[path], path)
HandleUpgrade(path) == IF wsRouteFor[path] = "app" THEN WsTarget(path)
                       ELSE To(wsRouteFor[path], path)

-----------------------------------------------------------------------------
(* Whatever routes are configured and whatever is exposed, a "/" route
   included, the reserved paths are answered by the runtime itself. *)
ReservedStays ==
  \A path \in Paths : routeFor[path] # "app" => Handle(path).to = routeFor[path]

(* A page and the WebSocket it opens on the same path reach the same server:
   the two dispatchers agree for every table and exposed port. *)
SameUpstream ==
  \A path \in Paths :
    routeFor[path] = "app" /\ wsRouteFor[path] = "app" =>
      \/ HandleUpgrade(path).to = Handle(path).to
      \/ HandleUpgrade(path).to = "dropped" /\ Handle(path).to = "gateway"

(* A request goes where the routes that were asked for say: the longest prefix
   decides, page and WebSocket alike, what was set is what is there, and no route
   hides the runtime's own paths. *)
RoutesHonest == TypeOK /\ LongestWins /\ NothingLost /\ ReservedStays /\ SameUpstream
===============================================================================
