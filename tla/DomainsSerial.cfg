\* Two workers whose requests do not overlap. One domain, which moves between two hosts;
\* or the catalogue of second-level domains.
CONSTANTS
    Worker = {w1, w2}
    Host = {h1, h2}
    Domain = {d1}
    None = None
    PoolDomain = {"lab.top", "top.io"}
    PoolHost = {"api.lab.top", "www.lab.top", "api.top.io", "elsewhere"}
    Under <- Suffixes
SPECIFICATION EitherSpec
INVARIANTS TypeOK DeletedIsGone UndeployTruthful
PROPERTIES OneHostAtATime PoolGoesUnused
CHECK_DEADLOCK FALSE
