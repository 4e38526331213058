SPECIFICATION Spec
CONSTANTS
  ARC_GEO_EPSILON = 1
  ARC_GEO_MAX_CIRCLES = 3
  ARC_GEO_MAX_NODES = 4
  ARC_CYCLIC_MAX_MEMBERS = 3
  ARC_ARCH_MAX_REGIONS = 2
  ARC_ARCH_MAX_CHANNELS = 1
  AngleCotangent = 4
  Texts <- AllTexts
  Deformations <- Redrawn
  Collect <- collect_region_effects
CHECK_DEADLOCK FALSE
INVARIANTS
  MembersMatch
  ParsedValidates
  InnermostOwner
  OrderFromAngles
  StableSound
  SealsExact
