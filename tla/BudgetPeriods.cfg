SPECIFICATION FairSpec
CONSTANTS
  Levels = {"warning", "critical"}
  Kde = "kde"
  Webhooks = {}
  DesktopCooldown = 0
  WebhookCooldown = 1
  SnoozedUntil = {2}
  Cooldown <- MCCooldown
  Initial <- MCInitial
  RetryAfters = {0}
  PeriodLen = 2
  Modes = {"none", "dnd"}
  MaxTime = 2
  MaxCrashes = 1
  MaxApplies = 1
  LateReplies = FALSE
INVARIANTS
  OneOpenAnnouncement
PROPERTIES
  SnoozeRespectedUnedited
  PastPeriodsSettle
CHECK_DEADLOCK FALSE
