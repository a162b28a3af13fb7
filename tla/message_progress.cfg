SPECIFICATION PlacedFairSpec
CONSTANTS
    Servers = {s1, s2}
    Users = {u1, u2}
    Conns = {c1, c2}
    Msgs = {m1}
    NoUser = NoUser
    NoConn = NoConn
    NoMsg = NoMsg
    Passwords = {"right"}
    MaxRead = 1
    MaxOutbox <- Once
    MaxCrashes = 0
    MaxDbFaults = 0
CHECK_DEADLOCK FALSE
PROPERTIES
    MessageSettles
