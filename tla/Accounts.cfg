SPECIFICATION Spec
CONSTANTS
  p1 = p1
  p2 = p2
  r1 = r1
  r2 = r2
  Procs = {p1, p2}
  Nobody = Nobody
  Releases <- MCReleases
  MaxUnidentified = 2
  Modes <- MCModes
  MaxFaults = 2
  Emails = {"new", "old"}
  LegacyEmails = {"old"}
  Requests = {r1, r2}
  CaptchaLimit = 2
  VerifyLimit = 1
  LoginLimit = 1
  InsertAttempts = 2
  Script <- MCScript
  MaxWindowEnds = 1
INVARIANTS ServesOnItsSchema ReportedCaptchaIsGood PendingUntilMailed
PROPERTIES RegisteredIsMailed
