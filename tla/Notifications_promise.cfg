CONSTANTS
  published = published
  app = app
  hook = hook
  mail = mail
  ep1 = ep1
  EventTypes = {published}
  Apps = {app}
  NoApp = NoApp
  Subs = {hook}
  SubType <- MCSubType
  SubApp <- MCSubApp
  SubEndpoint <- MCSubEndpoint
  Endpoints = {ep1}
  NoEndpoint = NoEndpoint
  BatchSize = 1
  MaxAttempts = 2
  MaxEvents = 1
  MaxManual = 2
  MaxFaults = 2
SPECIFICATION FairSpec
INVARIANTS BudgetRespected FailingStreakIsUnbroken
PROPERTIES EventsAreDispatched DeliveriesSettle SettledStaysSettled PromiseIsKept
