SPECIFICATION MCSpec
CONSTANTS
  Server = {s1, s2}
  MaxIndex = 5
  NoBatch = NoBatch
  NoUpdate = NoUpdate
  FirstIndex = 1
  ConfigRequest = {r1, r2}
  MaxWrites = 4
  Upload = {"u1", "u2", "u3"}
  ImageOf <- MCImageOf
  NotJpeg = {"dog"}
  Process = {p1, p2}
  Goroutine = {g1, g2}
  Sizes <- MCSizes
  Prefetch = 1
  MaxResizeFaults = 1
  Player = {player1, player2}
  NoPlayer = NoPlayer
  StartBid = 1
  AvgBidStep = 3
  MaxPrice = 6
  MaxBids = 3
  Worker = {w1, w2, w3, w4}
  iterationsNum = 4
  quotaLimit = 2
  Gophers = {"g1", "g2", "g3"}
  Rounds = 2
  MaxLimit = 2
  Limits <- MCLimits
  Offsets <- MCOffsets
  MaxUsers = 8
  MaxChanges = 2
  ApiCaller = {a1, a2}
  RuneLen <- MCRuneLen
  Forms <- MCForms
  NotInt = NotInt
  NoWriter = NoWriter
INVARIANT MaxIsAllowed
CHECK_DEADLOCK FALSE
