SPECIFICATION Spec
CONSTANTS
    Servers = {s1, s2}
    Users = {u1}
    Conns = {c1, c2}
    Msgs = {m1}
    NoUser = NoUser
    NoConn = NoConn
    NoMsg = NoMsg
    Passwords = {"right", "wrong"}
    MaxRead = 1
    MaxOutbox <- Once
    MaxCrashes = 0
    MaxDbFaults = 0
CHECK_DEADLOCK FALSE
INVARIANT OneSession
