SPECIFICATION Spec
CONSTANTS
  Customer = {c1}
  Deleted = Deleted
  Turn = {t1}
  Clerk = {k1}
  e1 = e1
  Delivery = {d1, d2}
  Event = {e1}
  Carries <- MCCarries
  Bill <- MCBill
  Settling = {e1}
  MaxOrders = 1
  MaxIncidents = 1
INVARIANTS OrdersAgree CustomersAreTold
PROPERTIES OrdersComplete
