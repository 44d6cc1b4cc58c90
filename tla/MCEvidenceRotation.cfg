SPECIFICATION FairSpec
CONSTANTS
  d = d
  s = s
  a = a
  c = c
  e = e
  x = x
  Listing <- Flat
  Above <- FlatAbove
  Contents = {x, y}
  Starts <- Scattered
  Retained <- Scattered
  Staging = {}
  Local = {l}
  Missing = Missing
  Dir = Dir
  Special = Special
  None = None
  Nonces = {n1, n2}
  Room = 1
  Capacity = 3
  MaxChanges = 2
  MaxFaults = 0
PROPERTY FrontierNeverMonopolizes
