SPECIFICATION Spec
CONSTANTS
  NumVersions = 2
  RoleOrder <- MCRoleOrder
  Windows = 2
  Recovery = 2
  Required = 2
  Cap = 3
  Overlap = FALSE
  MaxKills = 0
PROPERTIES QuarantineIsEarnedBack
