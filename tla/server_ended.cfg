SPECIFICATION Spec
CONSTANTS
    Clients = {a, b}
    Typed = {}
    Names = {1, 2}
    Registered = 1
    Groups = {1}
    Commands = {"login", "register", "logout", "chat", "addfriend", "creategroup", "joingroup", "groupchat"}
    Cuts = FALSE
    MaxRequests = 3
    MaxTyped = 0
    NoId = NoId
    MaxDbFaults = 0
CHECK_DEADLOCK FALSE
INVARIANT ServerSurvives
