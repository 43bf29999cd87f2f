SPECIFICATION Spec
CONSTANTS
  a1 = a1  a2 = a2  b1 = b1  b2 = b2
  A = A  B = B
  psk = psk  otherPsk = otherPsk  EN = EN  ZH = ZH
  Channels <- TwoChannels
  Agents = {A, B}
  AgentOf <- AgentOfTwo
  Initiators = {a1}
  Faulty = {a1}
  Psks = {psk}
  Psk <- SamePsk
  Suites = {EN}
  Suite <- SameSuite
  RekeyAfterMessages <- NeverMessages
  RekeyAfterSeconds <- OneSidedSeconds
  MessageTTL = 1
  Window = 0
  NoAgent = NoAgent  NoKeys = NoKeys  NoRequest = NoRequest
  MaxSends = 2
  MaxDraws = 3
  MaxClock = 2
INVARIANTS
  KeysMatchState
  KeysAgreeOrRecoverable
CHECK_DEADLOCK FALSE
