CONSTANTS
  published = published
  app = app
  hook = hook
  mail = mail
  ep1 = ep1
  EventTypes = {published}
  Apps = {app}
  NoApp = NoApp
  Subs = {hook, mail}
  SubType <- MCSubType
  SubApp <- MCSubApp
  SubEndpoint <- MCSubEndpoint
  Endpoints = {ep1}
  NoEndpoint = NoEndpoint
  BatchSize = 2
  MaxAttempts = 2
  MaxEvents = 1
  MaxManual = 0
  MaxFaults = 2
SPECIFICATION Spec
INVARIANTS TypeOK HistoryIsExact FanoutOnce NoEventLost
