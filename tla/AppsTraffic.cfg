\* One slug, two creations; any service but the Kubernetes API may lose an
\* answer. Two workers that create all they can, or requests of every
\* body, one after the other.
CONSTANTS
    Worker = {w1, w2}
    w0 = w0
    Slug = {s1}
    Req = {r1, r2}
    None = None
    Lossy = {"github", "docker", "jenkins"}
    Bodies <- AllBodies
SPECIFICATION TrafficSpec
SYMMETRY Interchangeable
INVARIANTS CreationsAccounted DeletionLogged AuditTruthful SerialOkAppIsBacked
PROPERTY SerialRollbackRemovesOwn
CHECK_DEADLOCK FALSE
