\* One worker, two deliveries.
CONSTANTS
    Worker = {w1}
    Push = {p1, p2}
    Result = {"success", "failed"}
    None = None
SPECIFICATION Spec
SYMMETRY Interchangeable
INVARIANT FollowsOwnBuild
CHECK_DEADLOCK FALSE
