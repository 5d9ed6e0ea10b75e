SPECIFICATION FairSpec
CONSTANTS
  a1 = a1
  a2 = a2
  p1 = p1
  p2 = p2
  Arms = {a1, a2}
  Order <- MCOrder
  Cabling <- MCCabling
  Booting = {a1}
  n1 = n1
  n2 = n2
  Nics = {n1, n2}
  Stray = {}
  q1 = q1
  Profiles = {p1, p2, q1}
  Fresh = {p1, q1}
  Mapped = {p1, p2}
  Of <- MCOf
  Hung = {a1}
  None = None
  MaxEvents = 1
PROPERTIES
  FrozenUndisturbed
  Converges
  Rematches
CHECK_DEADLOCK FALSE
