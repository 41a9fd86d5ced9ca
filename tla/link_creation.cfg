SPECIFICATION Spec
CONSTANTS
  l1 = l1
  l2 = l2
  l3 = l3
  l4 = l4
  l5 = l5
  Links = {l1, l2, l3, l4}
  NetworkOf <- MCNetworkOf
  Sweepers = {s1}
  MaxFaults = 1
INVARIANTS
  AddressIsOwn
  HandedOutIsLive
SYMMETRY MCSymmetry
CHECK_DEADLOCK FALSE
