\* One worker, one creation, no answer is lost.
CONSTANTS
    Worker = {w1}
    Slug = {s1}
    Req = {r1}
    None = None
    Lossy = {}
    Bodies <- FullBody
SPECIFICATION Spec
INVARIANT DockerAccounted
CHECK_DEADLOCK FALSE
