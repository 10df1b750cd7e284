SPECIFICATION Spec
CONSTANTS
  Envs <- const_Envs
  Groups <- const_Groups
INVARIANTS
  TypeOK
  SettingsGuarantee
  SameDoor
  EarlyRejection
CHECK_DEADLOCK FALSE
