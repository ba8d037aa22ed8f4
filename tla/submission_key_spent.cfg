SPECIFICATION Spec
CONSTANTS
  Wishes = {one, two}
  Batches = {}
  Orders = {}
  Blockings = {TRUE}
  MaxRequests = 2
  MaxReloads = 0
  MaxRestarts = 0
PROPERTY KeyUnspent
CHECK_DEADLOCK FALSE
