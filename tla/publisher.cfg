SPECIFICATION FairPublisherSpec
CONSTANTS
  Callers = {worker, loop}
  Nobody = nobody
  PublishFnSet = FALSE
  MaxPublishes = 3
INVARIANTS PublisherTypeOK MandatoryIsRouted ReturnIsOwn OutcomeIsConfirmed
PROPERTIES PublishReturns
CHECK_DEADLOCK FALSE
