SPECIFICATION ServerSpec
CONSTANTS
  a1 = a1  a2 = a2  b1 = b1  b2 = b2
  A = A  B = B
  psk = psk  EN = EN  ZH = ZH
  Channels <- FourChannels
  Agents = {A, B}
  AgentOf <- AgentOfFour
  Processes <- TwoEach
  DefaultSuite = EN
  Initiators = {a1, a2}
  Faulty = {}
  Psks = {psk}
  Psk <- SamePsk
  Suites = {EN, ZH}
  Suite <- MixedSuite
  RekeyAfterMessages <- SecondMessage
  RekeyAfterSeconds <- NeverSeconds
  MessageTTL = 1
  Window = 0
  NoAgent = NoAgent  NoKeys = NoKeys  NoRequest = NoRequest
  MaxSends = 1
  MaxDraws = 3
  MaxClock = 1
CONSTRAINT
  FewMessagesAge
INVARIANTS
  ServersTypeOK
  DeliveredInOrderOnce
  EachEndRotatesOnce
PROPERTIES
  SplitIsSilent
  StuckUntilRestart
CHECK_DEADLOCK FALSE
