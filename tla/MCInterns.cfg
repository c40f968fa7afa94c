CONSTANTS
  N = 2
  Vals = {v1}
  Ghost = Ghost
  MAILBOX_CAP = 2
  MaxDms <- MCMaxDms
  PatientVMs = {0}
SPECIFICATION Spec
INVARIANTS TypeOK JoinedOnce NoOrphans MailboxesSafe HandsBack PendingHasIntern FifoOnce ReplyAddress NoMissedMail NothingLeft
