CONSTANTS
  T = 1
  Timers = {}
  Sockets = {sk}
  Mails = {ml}
  Deadlines = {ml, sk}
  Interrupts = {cc}
  Jobs = {jb}
  Dippers = {}
  MaxMail = 1
  InWorker = FALSE
SPECIFICATION Spec
INVARIANTS TypeOK
PROPERTIES NoMailLost
