SPECIFICATION Spec
CONSTANTS
  a1 = a1  a2 = a2  b1 = b1  b2 = b2
  A = A  B = B
  psk = psk  otherPsk = otherPsk  EN = EN  ZH = ZH
  Channels <- TwoChannels
  Agents = {A, B}
  AgentOf <- AgentOfTwo
  Initiators = {a1}
  Faulty = {}
  Psks = {psk}
  Psk <- SamePsk
  Suites = {EN}
  Suite <- SameSuite
  RekeyAfterMessages <- OneSidedMessages
  RekeyAfterSeconds <- NeverSeconds
  MessageTTL = 0
  Window = 0
  NoAgent = NoAgent  NoKeys = NoKeys  NoRequest = NoRequest
  MaxSends = 3
  MaxDraws = 3
  MaxClock = 0
INVARIANTS
  TypeOK
  EstablishedPeersAgree
  KeysAgreeOrRecoverable
PROPERTIES
  KeyChainOnlyExtends
  TerminalStatesStay
  AgreementRefined
CHECK_DEADLOCK FALSE
