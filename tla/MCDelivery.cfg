CONSTANTS
  StartUp = 3
  Period = 3
  BatchSize = 2
  MaxFunctions = 2
  MaxBacklog = 5
  PeerSends = {TRUE, FALSE}
SPECIFICATION Spec
INVARIANTS TypeOK WriteWillComplete ActiveMeansSending LostWakeupBounded
PROPERTY PacketsAreSent
