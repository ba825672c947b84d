CONSTANTS
  l1 = l1
  l2 = l2
  p1 = p1
  p2 = p2
  Listeners = {l1, l2}
  Threads = {t1, t2}
  Ports = {p1, p2}
  PortOf <- TwoPorts
  Requests <- AllRequests
  MaxConns = 2
  NONE = NONE
SPECIFICATION MCSpec
CHECK_DEADLOCK FALSE
INVARIANTS TypeOK AnsweredOnce AtMostOneLate DeliveredInOrder
PROPERTIES DeliverySpec StopQuiesces PostsDelivered
