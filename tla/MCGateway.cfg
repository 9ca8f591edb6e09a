SPECIFICATION FairSpec
CONSTANTS
    technician = technician
    manager = manager
    Users = {technician, manager}
    RoleOf <- MCRoleOf
    InboundIds = {used}
    Scenarios <- MCScenarios
    Limit = 2
    None = None
    InitialRows = 3
    MaxIntents = 2
    MaxAttempts = 2
INVARIANTS
    TypeOK
    
    AnswersAreHonest
    
    MissesHaveACause
    RepeatsHaveACause
PROPERTIES
    EveryRequestIsAnswered
\* Once everybody has what he asked for there is nothing left to do.
CHECK_DEADLOCK FALSE
