CONSTANTS
  N = 2
  Vals = {}
  Ghost = Ghost
  MAILBOX_CAP = 2
  MaxDms <- MCOneDm
  PatientVMs = {0}
SPECIFICATION FairSpec
PROPERTIES MailAnswered ProcessExits
