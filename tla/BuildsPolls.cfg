\* Two workers, two deliveries: polls and webhooks overlap.
CONSTANTS
    Worker = {w1, w2}
    Push = {p1, p2}
    Result = {"success", "failed"}
    None = None
SPECIFICATION Spec
SYMMETRY Interchangeable
VIEW Relevant
INVARIANTS TypeOK OutcomeIsReal NeverOlder
CHECK_DEADLOCK FALSE
