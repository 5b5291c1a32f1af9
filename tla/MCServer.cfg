SPECIFICATION FairSpec
CONSTANTS
  Settings = {"db.name", "log_level", "kubeconfig"}
  Unset = unset
  Conns = {c1, c2, c3}
INVARIANTS
  TypeOK
  EnvironmentWins
  PoolOutlivesRequests
  ExitCodeTells
PROPERTY
  StopsUnlessHeld
