SPECIFICATION Spec
CONSTANTS
    Null = Null
    NotAPath = NotAPath
    Names <- MCNames
    ValidNames <- MCValidNames
    Filters <- MCFilters
    OtherMatches <- MCOtherMatches
    PropertyNames <- MCPropertyNames
    Functions <- MCFunctions
    Calls <- MCCalls
    Matches <- MCMatches
    Globs <- MCGlobs
    Remote <- MCRemote
    Files <- MCFiles
    Stages <- MCStages
    ThreadCount = 2
    MorselSize = 4
    VectorSize = 3
INVARIANT TypeOK
INVARIANT BindsEveryReadableFile
INVARIANT PushdownKeepsProperties
INVARIANT OthersSeeNamedProperties
INVARIANT RowsAreFresh
INVARIANT CachesStayInBounds
INVARIANT ArcsAreTheirOwn
INVARIANT RootOnlySelects
INVARIANT EqualScansAnswerBoth
