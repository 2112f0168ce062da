SPECIFICATION FairSpec
CONSTANTS
  main = main
  worker = worker
  sip = sip
  media = media
  NoDomain = NoDomain
  NoThread = NoThread
  Threads <- MCThreads
  LogThread = main
  Domains <- MCDomains
  Handlers <- MCHandlers
  MaxMessages <- MCMaxMessages
  MaxSwitches = 3
INVARIANTS OutputInOrder NothingLost
PROPERTY StoredIsOutput
CHECK_DEADLOCK FALSE
