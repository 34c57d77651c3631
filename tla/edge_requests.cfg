\* Requests one at a time or overlapping, crashes and failed reloads anywhere.
SPECIFICATION Spec
CONSTANTS
  Hosts = {h1, h2}
  Upstreams = {u1}
  None = None
  MaxRequests = 3
  MaxCrashes = 1
SYMMETRY HostsAndUpstreams
INVARIANTS RoutesSafe
CHECK_DEADLOCK FALSE
