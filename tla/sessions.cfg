SPECIFICATION Spec
CONSTANTS
    Servers = {s1, s2}
    Users = {u1, u2}
    Conns = {c1, c2}
    Msgs = {m1}
    NoUser = NoUser
    NoConn = NoConn
    NoMsg = NoMsg
    Passwords = {"right", "wrong"}
    MaxRead = 2
    MaxOutbox <- Once
    MaxCrashes = 1
    MaxDbFaults = 1
CHECK_DEADLOCK FALSE
CONSTRAINT OneFault
SYMMETRY Symmetry
INVARIANTS
    TypeOK
    SubscriptionsFollowMap
    OnlineRowsOwned
    AckBeforeChat
    NoSendAfterDestroy
