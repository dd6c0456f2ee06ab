SPECIFICATION RoomSpec
CONSTANTS
  Host = "host"
  Members = {"ann", "oda"}
  Federated = {"oda"}
  Tokens = {1, 2, 3}
  Bearer <- MCBearer
  f1 = f1
  f2 = f2
  p1 = p1
  Frames = {f1, f2}
  Blank = 0
  Proposals = {p1}
  MaxGeneration = 2
PROPERTY LeaseIsKept
CHECK_DEADLOCK FALSE
