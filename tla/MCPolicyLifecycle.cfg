SPECIFICATION Spec
CONSTANTS
    Issues = {1}
    PullRequests = {2, 3}
    Organization = TRUE
    AllowUnassignedOwner = TRUE
    Statuses <- MCStatuses
    Forms <- MCForms
    Moves = {"Done", "In review"}
    Priorities = {"urgent"}
    Bodies <- MCBodies
    PageSize = 1
    MaxActs = 3
    MaxFailures = 1
\* All events handled and all acts done: nothing is left to do.
CHECK_DEADLOCK FALSE
INVARIANTS TypeOK AuditIsCurrent BoardMatchesIssue VisibleTextIsOutsideDetails
PROPERTIES PlansStand
