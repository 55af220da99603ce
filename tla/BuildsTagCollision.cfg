\* Two workers that handle two deliveries.
CONSTANTS
    Worker = {w1, w2}
    Push = {p1, p2}
    Result = {"success", "failed"}
    None = None
SPECIFICATION Spec
SYMMETRY Interchangeable
PROPERTY TagsImmutable
CHECK_DEADLOCK FALSE
