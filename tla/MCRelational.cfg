SPECIFICATION Spec
CONSTANTS
    Half = 3
    Pks <- MCPks
    KeyVals = {x, y}
    Tokens = {t, u}
    Texts <- MCTexts
    Unkeyable <- MCUnkeyable
    AFirst = FALSE
    Vecs <- MCVecs
    Cosine = TRUE
    x = x
    y = y
    t = t
    u = u
    Null = Null
    Absent = Absent
    None = None
    ByName = ByName
    AutoIncrement = TRUE
    Schemas <- MCSchemas
    Batches <- MCBatches
    Changes <- MCChanges
    MaxStmts = 4
CHECK_DEADLOCK FALSE
INVARIANT TypeOK
INVARIANT LookupExact
INVARIANT UniqueHolds
INVARIANT SearchAgrees
INVARIANT FreshKeys
