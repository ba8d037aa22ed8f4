SPECIFICATION Spec
CONSTANTS
  Wishes = {one, two, order}
  Batches = {two}
  Orders = {order}
  Blockings = {TRUE, FALSE}
  MaxRequests = 3
  MaxReloads = 1
  MaxRestarts = 1
INVARIANTS ChargedOnce DispatchedOnce WishedOnce ShownTrue
CHECK_DEADLOCK FALSE
