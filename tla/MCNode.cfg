SPECIFICATION MCSpec
CONSTANTS
  \* SecureFraming
  Writer = {w1, w2}
  Reader = {r1, r2}
  NoOne = NoOne
  MaxTransportMsgLength = 4
  TagSize = 1
  Totals = {0, 1, 3, 4, 7}
  BufLens = {1, 2, 3, 4, 5}
  MaxBytes = 7
  \* ProxyRegistry
  Client = {c1, c2}
  MaxCalls = 4
  MaxFailures = 1
  \* CircuitBuffer
  MsgLens = {1, 3}
  ReadLens = {1, 2}
  MaxInbound = 5
  MaxReads = 4
  MaxTimeouts = 2
  \* Handshake
  Identity = {p, q}
  \* Startup
  Process = {p1, p2}
  KeyType = {"ed25519", "ecdsa"}
  FileType = "ecdsa"
  NoAccount = NoAccount
  NoProcess = NoProcess
  MaxStarts = 4
  MaxErrors = 1
  \* NodeStart
  Dialer = {p, q, b}
  Listed = {p}
  Bootstrap = b
  MaxConns = 3
  \* Discovery
  Lookup = {k1, k2}
  MaxWanted = {1, 2}
  Table = {x, y}
  MaxLookups = 2
  MaxDelays = 2
  \* Negotiation
  Circuit = {s1, s2, s3}
  Destination = {d, e}
  Registered = {d}
  JointNode = {j1, j2}
  NoGossip = NoGossip
SYMMETRY MCSymmetry
INVARIANTS
  StreamIntact
  AllDecrypt
  RegisteredFound
  StuckOnlyAfterTimeout
  
  
  
  RunsAsStored
  
  AddressesBacked
  WithinMax
  TasksBelong
  OrderlyLookupsSurvive
  
  RightNegotiation
PROPERTIES
  IsByteStream
  IdentityKept
CHECK_DEADLOCK FALSE
