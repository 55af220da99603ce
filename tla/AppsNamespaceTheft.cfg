\* Two workers, two creations of one slug, no answer is lost.
CONSTANTS
    Worker = {w1, w2}
    Slug = {s1}
    Req = {r1, r2}
    None = None
    Lossy = {}
    Bodies <- GivenBody
SPECIFICATION Spec
PROPERTY RollbackRemovesOwn
CHECK_DEADLOCK FALSE
