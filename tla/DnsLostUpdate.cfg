\* Two workers register two hosts.
CONSTANTS
    Worker = {w1, w2}
    Host = {h1, h2}
    None = None
SPECIFICATION DnsSpec
PROPERTY OneHostAtATime
