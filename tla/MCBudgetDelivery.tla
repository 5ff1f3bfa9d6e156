-------------------------- MODULE MCBudgetDelivery --------------------------
(* Instances of BudgetDelivery for TLC. *)
EXTENDS BudgetDelivery

CONSTANTS
  DesktopCooldown, WebhookCooldown,   \* minutes
  SnoozedUntil                        \* values of the initial row's snooze

MCCooldown == [c \in Channels |-> IF c = Kde THEN DesktopCooldown ELSE WebhookCooldown]
MCInitial == [notify : {TRUE}, snooze : SnoozedUntil]
=============================================================================
