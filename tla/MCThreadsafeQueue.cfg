CONSTANTS
  Values = {v1, v2}
  Producers = {p1, p2}
  Consumers = {c1, c2}
  Observers = {o1}
  Owner = owner
  MaxPush = 3
SPECIFICATION FairSpec
INVARIANTS NoLostWakeup
PROPERTIES ImplementsChannel ShutdownReleasesAll
