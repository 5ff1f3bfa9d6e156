SPECIFICATION Spec
CONSTANTS
  Levels = {"warning"}
  Kde = "kde"
  Webhooks = {"slack"}
  DesktopCooldown = 0
  WebhookCooldown = 1
  SnoozedUntil = {0}
  Cooldown <- MCCooldown
  Initial <- MCInitial
  RetryAfters = {0}
  PeriodLen = 5
  Modes = {"none"}
  MaxTime = 4
  MaxCrashes = 1
  MaxApplies = 0
  LateReplies = FALSE
INVARIANTS
  TypeOK
  SettledEventsAreQuiet
  VerdictMatchesReceipts
PROPERTIES
  SettledStaysSettled
  
CHECK_DEADLOCK FALSE
