\* Both servers: two registrations, of two urls or of one that comes back under a
\* new id while requests of the old one still run, and three requests.
SPECIFICATION FairSpec
CONSTANTS
    Urls = {"a", "b"}
    Requests = {"r1", "r2", "r3"}
    MaxIds = 2
    Modes = {"slime", "vime"}
INVARIANTS TypeOK CountsMatchRequests DecisionsSeeDispatches
PROPERTIES EveryRequestEnds NewWorkersArePolled
\* A server whose requests are all answered may rest.
CHECK_DEADLOCK FALSE
