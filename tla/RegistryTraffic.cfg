\* Two applications, a scoop and a domain, two workers. Every request; or requests that
\* do not overlap, with scoops that stay in place.
CONSTANTS
    Worker = {w1, w2}
    App = {a1, a2}
    Scoop = {s1}
    Domain = {d1}
    Default = Default
    None = None
    Requests = {"move", "force", "deleteApp", "override"}
SPECIFICATION TrafficSpec
SYMMETRY Interchangeable
VIEW Relevant
INVARIANTS TypeOK RowsRefer SerialDeadLeavesNothing
PROPERTY SerialRouteReachesScoop
CHECK_DEADLOCK FALSE
