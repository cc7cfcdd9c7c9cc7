SPECIFICATION Spec
CONSTANTS
  r1 = r1
  r2 = r2
  r3 = r3
  t1 = t1
  t2 = t2
  k1 = k1
  k2 = k2
  x = x
  y = y
  z = z
  v1 = v1
  v2 = v2
  None = None
  Null = Null
  Keep = Keep
  Resources = {r1, r2, r3}
  PatchesOf <- Layers
  Below <- Stacked
  ActionPatches <- ActionApart
  Leaves = {t1, t2, k1, k2}
  Nested = {k1, k2}
  Required = {t1}
  Vals = {v1, v2}
  Items = {x, y, z}
  Whole = {}
  Legacy = {}
  Originals <- WithItem
  MayVanish = FALSE
  Serial = FALSE
  OutsideLeaves = {k2}
  MaxEdits = 8
  MaxFaults = 0
  MaxOutside = 3
INVARIANTS
  RevertIsAccepted
PROPERTIES
  OverlayKept
\* Everything is as the configuration asks: nothing more may happen.
CHECK_DEADLOCK FALSE
