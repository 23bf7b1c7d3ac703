\* Two tasks may close the client at any time; the worker's task may be cancelled.
CONSTANTS
  Callers = {"main", "workflow", "act", "activity", "client", "user"}
  Nobody = Nobody
  NoDelivery = NoDelivery
  Fails = {"create_worker", "poll_activation", "poll_activity_task"}
  Env = {"overlap", "crash", "cancel"}
SPECIFICATION Spec
INVARIANTS
  OwedWhileOpen
  CompletionsFindWorker
  WorkerReleased
\* The surroundings may fall silent, and the client may be closed.
CHECK_DEADLOCK FALSE
