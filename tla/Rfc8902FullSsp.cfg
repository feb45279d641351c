SPECIFICATION Spec
CONSTANTS
    c1 = c1
    c2 = c2
    c3 = c3
    c4 = c4
    NoCert = NoCert
    Garbage = Garbage
    Certs <- MCCerts
    OwnCerts <- MCOwnCerts
    ValidCerts <- MCValidCerts
    SspLenOf <- MCSspLenOf
    Psids = {0, 36}
    MaxSspLen = 2
INVARIANT SspMatchesCert
CHECK_DEADLOCK FALSE
