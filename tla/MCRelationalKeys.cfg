SPECIFICATION Spec
CONSTANTS
    Half = 100
    Pks <- MCPks
    KeyVals = {x, y}
    Tokens = {t, u}
    Texts <- MCTexts
    Unkeyable <- MCUnkeyable
    AFirst = FALSE
    Vecs <- MCVecs
    Cosine = TRUE
    x = x
    y = y
    t = t
    u = u
    Null = Null
    Absent = Absent
    None = None
    ByName = ByName
    AutoIncrement = TRUE
    Schemas <- MCSchemas
    Batches <- MCKeyBatches
    Changes <- MCChanges
    MaxStmts = 1
CHECK_DEADLOCK FALSE
INVARIANT AutoKeyFree
