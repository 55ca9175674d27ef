SPECIFICATION Spec
CONSTANTS
    NodeIds <- MCNodeIds
    EdgeIds <- MCEdgeIds
    Labels = {a, long}
    LongLabels = {long}
    Types = {"t"}
    Vals = {int, str, bool}
    Keyable = {int, str}
    PrefixOf <- MCPrefixOf
    a = a
    long = long
    int = int
    str = str
    bool = bool
    Absent = Absent
    None = None
    KvTables = {"meta", "mine"}
    Reserved = {"meta"}
    KvVals = {"x"}
    NodeBatches <- MCNodeBatches
    EdgeBatches <- MCEdgeBatches
    LinkBatches <- MCLinkBatches
    OldFiles <- MCOldFiles
    MaxStmts = 4
CHECK_DEADLOCK FALSE
INVARIANT TypeOK
INVARIANT AdjacencyExact
INVARIANT NoDangling
INVARIANT IndexesExact
PROPERTY IdsNeverReused
