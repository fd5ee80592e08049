SPECIFICATION FairSpec
CONSTANTS
  Workers = {w1, w2}
  Commands = {c1, c2}
  NoOne = NoOne
  Dispatch = Dispatch
  MailboxSize = 1
  MaxTransientDeliveries = 2
  MaxEnds = 1
  MaxErrors = 1
  MaxTimeouts = 1
  MaxCrashes = 1
  MaxFaults = 1
INVARIANTS TypeOK OneHandlerPerWorker EffectIsNotRepeated
PROPERTY CommandsAreAnswered
CHECK_DEADLOCK FALSE
