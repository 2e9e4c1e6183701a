SPECIFICATION EndsSpec
CONSTANTS
    a = a
    b = b
    c = c
    Old = a
    Synths = {a, b, c}
    command = command
    a2 = a2
    a3 = a3
    d1 = d1
    d2 = d2
    Owner = Owner
    Installer = Installer
    None = None
    Nobody = Nobody
INVARIANT TokenNotLost
PROPERTIES AsksEnd SessionsEnd
\* Asks and sessions run out.
CHECK_DEADLOCK FALSE
