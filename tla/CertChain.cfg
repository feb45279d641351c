SPECIFICATION Spec
CONSTANTS
    Hashes = {"h1", "h2", "h3"}
    peer = "h1"
    Certs <- MCCerts
    Sizes = {1, 2, 3}
    Widths = {32, 64}
INVARIANTS
    ChainReported
    DatesUntil2038
PROPERTY
    WalkEnds
