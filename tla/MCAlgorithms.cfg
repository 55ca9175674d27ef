SPECIFICATION Spec
CONSTANTS
    Base = 4
    Width = 2
    IntMax = 7
    Seeds <- MCSeeds
    GraphQueries <- MCGraphQueries
    TableQueries <- MCTableQueries
    VectorIndexes <- MCVectorIndexes
    Likings <- MCLikings
    ValueKeys <- MCValueKeys
    EdgeKeys <- MCEdgeKeys
    PropKeys <- MCPropKeys
    TableKeys <- MCTableKeys
    BloomBits = 16
    BloomProbes = 2
    BaseHashes <- MCBaseHashes
    Snapshots <- MCSnapshots
    CCalls <- MCCCalls
    Props <- MCProps
    MatchInputs <- MCMatchInputs
    JoinInputs <- MCJoinInputs
    SqlInputs <- MCSqlInputs
CHECK_DEADLOCK FALSE
INVARIANTS TraversalExact QueriesExact VectorsSound KeysExact StoreReadsExact ApiContract AnswersExact
