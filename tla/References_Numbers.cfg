SPECIFICATION Spec
CONSTANTS
  projA = projA
  projB = projB
  None = None
  Items = {i1, i2}
  Projects <- TwoProjects
  Kinds = {"epic", "story"}
  MaxNumber <- LastNumbers
SYMMETRY AnyItem
INVARIANTS
  NumbersAreUnique
  LinksLeadHome
  RefusedOnlyAfterRace
CHECK_DEADLOCK FALSE
