SPECIFICATION Spec
CONSTANTS
  Thread = {t1, t2}
  Handle = {h1, h2, h3, h4}
  PoolSize = 1
  Retries = 2
  Margin = 2
  Life = 4
  Delay = 1
  Timeout = 1
  MaxNow = 4
  Roles = {"none", "service", "file"}
  InitMayFail = FALSE
  NoHandle = NoHandle
  NoObject = NoObject
INVARIANTS TypeOK HandlesAddUp TimersAreFair SignedWithOneCredential KeysAreValid LockIsGivenBack
SYMMETRY Symmetry
