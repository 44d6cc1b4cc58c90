SPECIFICATION FairSpec
CONSTANTS
  d = d
  s = s
  a = a
  c = c
  e = e
  x = x
  Listing <- Tree
  Above <- Nested
  Contents = {x, y}
  Starts <- Origins
  Retained <- Earlier
  Staging = {s}
  Local = {l}
  Missing = Missing
  Dir = Dir
  Special = Special
  None = None
  Nonces = {n1, n2}
  Room = 1
  Capacity = 3
  MaxChanges = 2
  MaxFaults = 1
INVARIANTS TypeOK AckedIsDurable ReceiptsAdoptable
PROPERTIES ForeignPreserved OnlyAckedReplaced UnrelatedAdvance
