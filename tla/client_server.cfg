SPECIFICATION FairSpec
CONSTANTS
    Clients = {a}
    Typed = {t}
    Names = {1, 2}
    Registered = 1
    Groups = {1}
    Commands = {"login", "register", "logout", "chat", "addfriend", "creategroup", "joingroup", "groupchat",
                "regack"}
    Cuts = TRUE
    MaxRequests = 4
    MaxTyped = 1
    NoId = NoId
    MaxDbFaults = 1
CHECK_DEADLOCK FALSE
INVARIANTS TypeOK SessionAgreement RegisteredAsAsked GroupHasCreator
PROPERTIES WaitEnds ClientsEnd
