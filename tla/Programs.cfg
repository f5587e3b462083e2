SPECIFICATION ProgramsSpec
CONSTANTS
    Thread = {t1, t2}
    Users = 2
    Count = 2
    Nothing = Nothing
    Mappers = 3
    Capacity = 2
    MaxData = 2
INVARIANTS OneUserAtATime SummariesAreRight OutputIsComplete
PROPERTIES CrackersJoin PipelineEnds
CHECK_DEADLOCK FALSE
