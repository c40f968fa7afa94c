CONSTANTS
  N = 1
  Vals = {}
  Ghost = Ghost
  MAILBOX_CAP = 2
  MaxDms <- MCOneDm
  PatientVMs = {0}
SPECIFICATION Spec
PROPERTIES LeftOnReadIsHonest
