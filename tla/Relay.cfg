\* Two calls at a time, two changes, a quota of one slot.
SPECIFICATION Spec
CONSTANTS
  Calls = {c1, c2}
  NoCall = NoCall
  NoSlot = NoSlot
  Slots = {s1, s2, s3}
  Quota = 1
  Retries = 2
  MaxChanges = 2
  MaxLeaked = 1
SYMMETRY Symmetry
INVARIANTS QuotaKept ConnectionsAccounted StaleOnlyFromInFlight
