\* Two invoices of a buyer and the referrer, a crash, a promo code of half the price.
SPECIFICATION Spec
CONSTANTS
  ann = ann
  bob = bob
  Users <- Pair
  Invoices = {i1, i2}
  Requests = {q1}
  Pollers = {k1}
  NoUser = NoUser
  NoInvoice = NoInvoice
  ReferredBy <- BobByAnn
  Price = 200
  Discount = 50
  MaxUses = 1
  CommissionPct = 50
  Gifts = {}
  MaxEarned = 0
  MaxCrashes = 1
SYMMETRY Symmetry
INVARIANTS PaidIsDelivered GrantsExplained
CHECK_DEADLOCK FALSE
