SPECIFICATION Spec
CONSTANTS
    b1 = b1
    b2 = b2
    c1 = c1
    c2 = c2
    c3 = c3
    None = None
    Browser = {b1, b2}
    Connection = {c1, c2, c3}
    Owner <- MCOwner
    Ttl = 1
    CleanUp = 1
    SessionId = {1, 2}
INVARIANTS TypeOK SessionsApart ToldItsSession LostOnlyByExpiry
PROPERTIES SessionLifetime ExpiredSwept
