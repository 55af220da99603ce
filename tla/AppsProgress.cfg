\* Liveness: two workers that contend for one slug, or one worker and every body.
CONSTANTS
    Worker = {w1, w2}
    w0 = w1
    Slug = {s1}
    Req = {r1, r2}
    None = None
    Lossy = {"github", "docker", "jenkins"}
    Bodies <- AllBodies
SPECIFICATION ProgressSpec
INVARIANT TypeOK
PROPERTY RequestsFinish
CHECK_DEADLOCK FALSE
