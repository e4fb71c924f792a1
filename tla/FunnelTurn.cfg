\* Three turns, one expiry or one reset, one crash.
SPECIFICATION FairSpec
CONSTANTS
    t1 = t1
    t2 = t2
    t3 = t3
    hello = hello
    need = need
    offer = offer
    faq = faq
    None = None
    Turn = {t1, t2, t3}
    Stage <- MCStage
    First = hello
    Anytime <- MCAnytime
    Confirm <- MCConfirm
    NextOf <- MCNext
    Order <- MCOrder
    Exit <- MCExit
    Threshold = 2
    MaxDepth = 1
    MaxDisturbances = 1
    MaxCrashes = 1
INVARIANTS TypeOK TurnsAreSerial
PROPERTIES ImplementsWalk AskedIsSettled Unlocks
CHECK_DEADLOCK FALSE
