SPECIFICATION PartSpec
CONSTANTS
  a1 = a1  a2 = a2  b = b
  actA = actA  actB = actB
  channel = channel  port = port  topic = topic
  m1 = m1  m2 = m2  q1 = q1  q2 = q2
  Registration = {a1, a2, b}
  Activation = {actA, actB}
  Endpoint = {channel, port, topic}
  Message = {m1, m2, q1, q2}
  ActivationOf <- MCActivationOf
  Handles <- MCHandles
  Ports <- MCPorts
  Publishes <- MCPublishes
  Subscribes <- MCSubscribes
  Compatible <- MCCompatible
  Target <- MCTarget
  Request = {q1, q2}
  Valid = {m1, m2, q1, q2}
  Capacity = 1
  MaxGeneration = 2
  ScheduleId = {daily}
  Digest = {old, new}
  Source = {first}
  None = None
  Triggered = {daily}
  MaxVersion = 2
  MaxRoutes = 1
CHECK_DEADLOCK FALSE
INVARIANTS
  TypeOK
  CurrentRoutesServed
  DeliveredByStampedOwner
  DisposedIsQuiet
  JobsTypeOK
  OneOwnedJob
  JobsFollowSnapshot
  LastAttemptIsCurrent
PROPERTIES
  DeliveriesSettle
