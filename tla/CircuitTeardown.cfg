SPECIFICATION FairSpec
CONSTANTS
  c = c
  d = d
  a1 = a1
  a2 = a2
  a3 = a3
  a4 = a4
  Node = {c, d, a1, a2}
  Client = {c, d}
  SessionId = {s}
  Sid = s
  Caller = c
  Answerer = d
  Proxy <- ProxyTwo
  Peers <- PeersAll
  Stream <- Streams5
  NoNode = NoNode
  NoSid = NoSid
  NotHeld = NotHeld
  MailCap = 3
  WireCap = 8
  RetryTimes = 3
  MayHangUp = {c, d}
  FaultKinds = {"crash", "gossip", "answer"}
  MaxFaults = 1
INVARIANTS
  HandshakeInOrder
PROPERTIES
  TornDown
CHECK_DEADLOCK FALSE
