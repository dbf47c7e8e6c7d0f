SPECIFICATION CircuitSpec
CONSTANTS
  c = c
  d = d
  a1 = a1
  a2 = a2
  a3 = a3
  a4 = a4
  Node = {c, d, a1, a2, a3, a4}
  Client = {c, d}
  SessionId = {s}
  Sid = s
  Caller = c
  Answerer = d
  Proxy <- ProxyTwo
  Peers <- PeersBack
  Stream <- Streams6
  NoNode = NoNode
  NoSid = NoSid
  NotHeld = NotHeld
  MailCap = 3
  WireCap = 8
  RetryTimes = 3
  MayHangUp = {}
  FaultKinds = {"lost", "command", "expend"}
  MaxFaults = 1
INVARIANTS
  HandshakeInOrder
CHECK_DEADLOCK FALSE
