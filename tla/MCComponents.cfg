CONSTANTS
  letter = letter
  nl = nl
  z = z
  unknown = unknown
  null = null
  noname = noname
  inert = inert
  n1 = n1
  c1 = c1
  c2 = c2
  s1 = s1
  m1 = m1
  m2 = m2
  v1 = v1
  v2 = v2
  r1 = r1
  sp = sp
  nul = nul
  cr = cr
  slash = slash
  fullstop = fullstop
  tilde = tilde
  b1 = b1
  b2 = b2
  k1 = k1
  k2 = k2
  k3 = k3
  Sizes = {2, 3}
  SegData = 2
  MaxSegs = 2
  WireRoom = 3
  Retries = 1
  Servers = {c1, c2}
  RouterSenders = {s1}
  Names = {m1, m2}
  Broadcast = broadcast
  Stale = outdated
  MaxAddr = 3
  Depth = 1
  MaxMsgs = 2
  MsgKinds = {"Shutdown", "FlushAddr", "StartSync", "Reply"}
  Reply = 1
  Threads <- MCThreads
  NodeDepth = 1
  StopEvent = halt
  NoOne = null
  PerSec <- MCPerSec
  SecsPer <- MCSecsPer
  Modulus = 10
  Periods = {1, 7, 12, 17, 25}
  MaxPending = 1
  Buffers = {b1, b2}
  Size <- MCSize
  Sources <- MCSources
  Lengths = {0, 2, 3}
  Zero = z
  Fresh = fresh
  NoMemory = null
  Writes <- MCWrites
  Counts = {0, 1, 2, 3}
  Term = nl
  Null = null
  Unknown = unknown
  MinBlock = 2
  Cap = 2
  FragLimit = 3
  MaxLen = 5
  Owner = owner1
  Waiters = {client1}
  MaxWrites = 2
SYMMETRY MCSymmetry
INIT Init
NEXT Next
INVARIANTS
  SegmentsNumbered
  WalkIsPreorder
  DecodedIsEncoded
  DeliveredIsSent
  NamesReachTheirNodes
  ControlIsActedOn
  ArmedIsPeriod
  BufferKeepsData
  ToolsAreExact
  CompletedIsCollected
PROPERTY StreamIsFile
CHECK_DEADLOCK FALSE
