SPECIFICATION MCSpec
CONSTANTS
  Node = {c1, a1, a2}
  Client = {c1}
  SessionId = {s1, s2}
  Stream <- MCStream
  NoNode = NoNode
  NoSid = NoSid
  NotHeld = NotHeld
  MailCap = 1
  WireCap = 2
  MaxInputs = 2
  MaxFaults = 1
SYMMETRY MCSymmetry
INVARIANTS
  
  
  OneCircuitPerStream
CHECK_DEADLOCK FALSE
