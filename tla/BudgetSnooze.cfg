SPECIFICATION Spec
CONSTANTS
  Levels = {"warning"}
  Kde = "kde"
  Webhooks = {}
  DesktopCooldown = 0
  WebhookCooldown = 1
  SnoozedUntil = {0}
  Cooldown <- MCCooldown
  Initial <- MCInitial
  RetryAfters = {0}
  PeriodLen = 3
  Modes = {"none"}
  MaxTime = 2
  MaxCrashes = 0
  MaxApplies = 1
  LateReplies = FALSE
PROPERTIES
  SnoozeRespected
CHECK_DEADLOCK FALSE
