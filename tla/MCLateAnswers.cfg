CONSTANTS
  Folders = {f1}
  None = None
  RetryLimit = 2
  MaxForced = 0
  MaxDelayed = 2
  MaxEtagJobs = 0
  Troubles = {"late answer"}
SPECIFICATION Spec
PROPERTY StaleAnswersIgnored
