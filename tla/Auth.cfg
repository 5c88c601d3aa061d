SPECIFICATION FairSpec
CONSTANTS
  Clients = {x1, x2}
  Services = {"auth"}
  Always = "always"
  Backends <- TheBackends
  MaxEndpoints = 2
  MaxCommands = 1
  MaxAge = 3
PROPERTIES
  AddressesFresh
  AnswersLikeAuthority
  EntriesExpire
CHECK_DEADLOCK FALSE
