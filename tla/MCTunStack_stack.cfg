SPECIFICATION StackSpec

CONSTANTS
  near = near
  any = any
  wide = wide
  narrow = narrow
  bad = bad
  proxyIf = proxyIf
  otherIf = otherIf
  Addresses = {near}
  Unparsable = junk
  Networks = {any, wide, narrow}
  Prefix <- Lengths
  Covers <- Nets
  Configs <- RouteLists
  Proxy = proxyIf
  UserRoutes <- Added
  QueueCap = 1
  MaxPackets = 2
  MaxChanges = 2

INVARIANT AllOrNothing
INVARIANT PacketsRouted
INVARIANT FirstLifeIsSafe
PROPERTY StopHolds
CHECK_DEADLOCK FALSE
