SPECIFICATION FairSpec
CONSTANTS
    Servers = {s1}
    Users = {u1}
    Conns = {c1}
    Msgs = {m1}
    NoUser = NoUser
    NoConn = NoConn
    NoMsg = NoMsg
    Passwords = {"right", "wrong"}
    MaxRead = 2
    MaxOutbox <- Twice
    MaxCrashes = 0
    MaxDbFaults = 0
CHECK_DEADLOCK FALSE
PROPERTY LoginAnswered
