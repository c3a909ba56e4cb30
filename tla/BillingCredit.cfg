\* One buyer whom an administrator gives credit, two invoices open together.
SPECIFICATION Spec
CONSTANTS
  ann = ann
  bob = bob
  Users <- Alone
  Invoices = {i1, i2}
  Requests = {q1}
  Pollers = {k1}
  NoUser = NoUser
  NoInvoice = NoInvoice
  ReferredBy <- BobByNobody
  Price = 200
  Discount = 50
  MaxUses = 1
  CommissionPct = 50
  Gifts = {100}
  MaxEarned = 200
  MaxCrashes = 1
SYMMETRY Symmetry
INVARIANTS CreditPaidFor LedgerFollowsCredit
CHECK_DEADLOCK FALSE
