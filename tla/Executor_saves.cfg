\* Two saves of a configuration and any deletion.
CONSTANTS
    t1 = t1  t2 = t2  p1 = p1  p2 = p2  a = a  b = b  k1 = k1  k2 = k2
    sA = sA  sB = sB  nameA = nameA  nameB = nameB
    Scope = {p1, p2, a, b}
    Conf = {k1, k2}
    Stored = {a, p2}
    Saver = {w1, w2}
    MaxRows = 1
    MaxVersion = 1
    NoRow = NoRow
    AnyVersion = AnyVersion
    Turn = {t1, t2}
    PersonaOf <- MCPersonaOf
    TenantOf <- MCTenantOf
    Entry = {sA, sB}
    EntryTenant <- MCEntryTenant
    NameOf <- OwnNames
    BoundTo <- MCBoundTo
    MaxPool = 1
    Platform = Platform
    None = None
    SaveWindow = {"idle"}
SPECIFICATION Spec
ACTION_CONSTRAINT SavesMeetOneTurn
PROPERTY OptimisticSaves
CHECK_DEADLOCK FALSE
