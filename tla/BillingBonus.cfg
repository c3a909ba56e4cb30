\* "Bonus days on first" against a poll that is answered late.
SPECIFICATION Spec
CONSTANTS
  ann = ann
  bob = bob
  Users <- Pair
  Invoices = {i1, i2}
  Requests = {q1}
  Pollers = {k1}
  NoUser = NoUser
  NoInvoice = NoInvoice
  ReferredBy <- BobByAnn
  Price = 200
  Discount = 0
  MaxUses = 1
  CommissionPct = 50
  Gifts = {}
  MaxEarned = 0
  MaxCrashes = 0

INVARIANT BonusOnFirstOnly
CHECK_DEADLOCK FALSE
