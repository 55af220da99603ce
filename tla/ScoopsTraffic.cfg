\* Two scoops, two workers: creations, deploys and undeploys that overlap on a
\* pool of two ports, or every request, one after the other, on a pool of one.
CONSTANTS
    Worker = {w1, w2}
    Scoop = {s1, s2}
    Namespace = {n1}
    Port = {3020, 3021}
    None = None
    Requests = {"create", "update", "deploy", "undeploy", "delete", "status"}
SPECIFICATION TrafficSpec
CONSTRAINT Small
SYMMETRY Interchangeable
INVARIANTS TypeOK PortsDisjoint SerialUndeployedIsGone SerialNoOrphans
CHECK_DEADLOCK FALSE
