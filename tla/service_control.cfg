\* Every command; a service outside the service_control list is stopped.
CONSTANTS
  None = None
  k1 = k1
  u1 = u1
  u2 = u2
  rules = rules
  badRules = badRules
  ldapConf = ldapConf
  web = web
  box = box
  some = some
  Users = {u1, u2}
  Root = root
  Policies <- McPolicies
  ValidRules = {rules}
  Frames <- McFrames
  Configs <- McConfigs
  SvcKind <- McKinds
  Desk <- McDesk
  MaxFrames = 1
  MaxUpsets = 0
SPECIFICATION Spec
CHECK_DEADLOCK FALSE
INVARIANTS
  ServiceControlContract
