SPECIFICATION FairSpec
CONSTANTS
  c = c
  d = d
  a1 = a1
  a2 = a2
  a3 = a3
  a4 = a4
  Node = {c, d, a1}
  Client = {c, d}
  SessionId = {s}
  Sid = s
  Caller = c
  Answerer = d
  Proxy <- ProxySame
  Peers <- PeersAll
  Stream <- Streams2
  NoNode = NoNode
  NoSid = NoSid
  NotHeld = NotHeld
  MailCap = 3
  WireCap = 8
  RetryTimes = 3
  MayHangUp = {c, d}
  FaultKinds = {"crash", "reset", "lost", "future", "gossip", "command", "ack", "answer", "expend"}
  MaxFaults = 2
INVARIANTS
  HandshakeInOrder
PROPERTIES
  DialReturns
  TornDown
  RelaySpec
CHECK_DEADLOCK FALSE
