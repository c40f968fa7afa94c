CONSTANTS
  T = 2
  Timers = {tm}
  Sockets = {}
  Mails = {ml}
  Deadlines = {}
  Interrupts = {}
  Jobs = {jb}
  Dippers = {1}
  MaxMail = 1
  InWorker = FALSE
SPECIFICATION Spec
INVARIANTS BlocksOnlyWhenIdle StrandsOnlyTheStuck LeavesNothing
PROPERTIES SettledOnce
