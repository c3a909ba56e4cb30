\* One buyer, two polls that overlap, a crash, and no webhook that can be relied on.
SPECIFICATION FairSpec
CONSTANTS
  bob = bob
  Users <- Alone
  Invoices = {i1}
  Requests = {q1}
  Pollers = {k1, k2}
  NoUser = NoUser
  NoInvoice = NoInvoice
  ReferredBy <- BobByNobody
  Price = 200
  Discount = 50
  MaxUses = 1
  CommissionPct = 50
  Gifts = {}
  MaxEarned = 0
  MaxCrashes = 2

PROPERTY PollingDelivers
CHECK_DEADLOCK FALSE
