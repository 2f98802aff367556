\* Two messages of the client, two listeners of different versions, one
\* approval.
CONSTANTS
  MaxRequests = 2
  new = new
  old = old
  Listeners = {new, old}
  V1 = {old}
  MaxAsks = 1
SPECIFICATION FairSpec
INVARIANTS
  TypeOK
  AnswersMatch
  ClientIsHeard
  AnswersAreComing
PROPERTIES
  RequestsAnswered
\* The session may end, and a client need not send anything.
CHECK_DEADLOCK FALSE
