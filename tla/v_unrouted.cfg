SPECIFICATION PublisherSpec
CONSTANTS
  Callers = {worker, loop}
  Nobody = nobody
  PublishFnSet = TRUE
  MaxPublishes = 2
INVARIANTS ProgressIsRouted
CHECK_DEADLOCK FALSE
