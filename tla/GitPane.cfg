SPECIFICATION Spec

CONSTANTS
  Token = {t1, t2}
  None = None
  MaxProjects = 2
  MaxPresses = 3
  MaxKills = 1

INVARIANTS
  AccountAgrees
  SealedAgrees
  CommitsWhereAimed
  SecretsStayApart

CHECK_DEADLOCK FALSE
