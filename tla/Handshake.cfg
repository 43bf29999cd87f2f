SPECIFICATION Spec
CONSTANTS
  a1 = a1  a2 = a2  b1 = b1  b2 = b2
  A = A  B = B
  psk = psk  otherPsk = otherPsk  EN = EN  ZH = ZH
  Channels <- FourChannels
  Agents = {A, B}
  AgentOf <- AgentOfFour
  Initiators = {a1, a2}
  Faulty = {a1, b1}
  Psks = {psk, otherPsk}
  Psk <- MixedPsk
  Suites = {EN, ZH}
  Suite <- MixedSuite
  RekeyAfterMessages <- NeverMessages
  RekeyAfterSeconds <- NeverSeconds
  MessageTTL = 1
  Window = 1
  NoAgent = NoAgent  NoKeys = NoKeys  NoRequest = NoRequest
  MaxSends = 0
  MaxDraws = 1
  MaxClock = 2
INVARIANTS
  HandshakeAgreement
CHECK_DEADLOCK FALSE
