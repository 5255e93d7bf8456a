SPECIFICATION Spec
CONSTANTS
  OrderIds = {o1, o2, o3}
  Users = {u1, u2}
  Markets = {m1, m2}
  Prices = {1, 2}
  Quantities = {1, 2, 3}
SYMMETRY Symmetric
INVARIANTS QtyConserved LegalTrades BooksConsistent NeverCrossed
PROPERTIES PriceTimePriority CancelIsFinal
CHECK_DEADLOCK FALSE
