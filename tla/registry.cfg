SPECIFICATION Spec
CONSTANTS
  NumVersions = 2
  RoleOrder <- MCRoleOrder
  Windows = 1
  Recovery = 2
  Required = 2
  Cap = 3
  Overlap = FALSE
  MaxKills = 1
INVARIANTS TypeOK OneActivePerRole
PROPERTIES ActiveOnEvidence ChampionLeavesForCause QuarantineLands ShadowIsDecided
