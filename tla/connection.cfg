SPECIFICATION FairSpec
CONSTANTS
    Loops = {base, io1}
    Others = {observer}
    NoLoop = NoLoop
    BaseLoop = base
    Observer = observer
    Msgs = {1, 2}
    MaxIn = 2
    AppCalls = {"send", "shutdown", "forceClose"}
    CheapPrepend = 1
    InitialSize = 1
    ExtraSize = 2
    ZeroByte = 0
INVARIANTS TypeOK NoLostWakeup InputInOrder HalfCloseNotForgotten PointersLive AssertsHold
PROPERTIES OutStream ConnectionFreed
