CONSTANT Objects <- Families
SPECIFICATION Spec
INVARIANTS VerdictIsRight AcceptedRunsToTheEnd RunsAfter ManagersAgree 
CHECK_DEADLOCK FALSE
