CONSTANTS
  o1 = o1  o2 = o2  k1 = k1  p1 = p1  p2 = p2  c1 = c1  c2 = c2
  Orders <- MCOrders
  ClickTxns <- MCClick
  PaymeTxns <- MCPayme
  OrderOf <- MCOrderOf
  Granting <- MCGranting
  Calls <- MCCalls
  MaxRevokes = 1
SPECIFICATION Spec
INVARIANTS GrantedOnce PaidIsGranted GrantHasMoney
PROPERTIES CancelIsFinal
