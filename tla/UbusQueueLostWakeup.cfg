SPECIFICATION FairSpec
CONSTANTS
    Interactive = {i1, i2}
    Collectors = {c1}
    MaxWaiting = 1
    MaxCalls = 1
PROPERTIES
    CollectionResumes
CHECK_DEADLOCK FALSE
