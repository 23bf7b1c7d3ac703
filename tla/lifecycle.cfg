\* A client, a worker and calls of the application; a workflow may crash, calls and
\* conversions may fail.
CONSTANTS
  Callers = {"main", "workflow", "act", "activity", "client", "user"}
  Nobody = Nobody
  NoDelivery = NoDelivery
  Fails = {"create_worker", "poll_activity_task", "complete_activation",
           "complete_activity_task"}
  Env = {"crash", "convert", "calls"}
SPECIFICATION FairSpec
INVARIANTS
  TasksInHand
PROPERTIES
  RunEnds
  CloseEnds
  CallsEnd
\* The surroundings may fall silent, and the client may be closed.
CHECK_DEADLOCK FALSE
