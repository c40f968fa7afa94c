CONSTANTS
  T = 1
  Timers = {}
  Sockets = {}
  Mails = {ml}
  Deadlines = {}
  Interrupts = {}
  Jobs = {jb}
  Dippers = {}
  MaxMail = 1
  InWorker = FALSE
SPECIFICATION Spec
INVARIANTS HearsItsMail
