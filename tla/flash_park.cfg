SPECIFICATION FairSpec
CONSTANT MaxPages = 2
INVARIANTS ParkedDuringAccess NothingLeftOver BusyCoversSave
PROPERTIES OperationEnds Core1Resumes SaveCompletes
