CONSTANTS
  T = 1
  Timers = {}
  Sockets = {sk}
  Mails = {ml}
  Deadlines = {}
  Interrupts = {}
  Jobs = {jb}
  Dippers = {1}
  MaxMail = 1
  InWorker = TRUE
SPECIFICATION FairSpec
PROPERTIES Resumes NoStarvation
