SPECIFICATION Spec
CONSTANTS
  a = a
  b = b
  c = c
  s1 = s1
  s2 = s2
  k = k
  Requests <- Three
  Keys = {k}
  KeyOf <- ThreeKeyOf
  Sockets = {s1, s2}
  SocketOf <- ThreeSocketOf
  MethodOf <- ThreeMethodOf
  MaxEvents = 3
INVARIANTS
  DeliveryIsOrdered
  ResolveAgrees
PROPERTIES
  EventsReachTheirClient
CHECK_DEADLOCK FALSE
