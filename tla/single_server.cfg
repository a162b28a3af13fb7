SPECIFICATION Spec
CONSTANTS
    Servers = {s1}
    Users = {u1, u2}
    Conns = {c1, c2}
    Msgs = {m1}
    NoUser = NoUser
    NoConn = NoConn
    NoMsg = NoMsg
    Passwords = {"right"}
    MaxRead = 1
    MaxOutbox <- FirstTwice
    MaxCrashes = 0
    MaxDbFaults = 0
CHECK_DEADLOCK FALSE
PROPERTY ImplementsService
SYMMETRY SymmetryOfUsers
INVARIANTS
    OneSession
    MessageKept
    AtMostOnce
    EntriesAreOpen
