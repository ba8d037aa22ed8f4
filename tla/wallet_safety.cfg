SPECIFICATION FairSpec
CONSTANTS
  user = user
  qq = qq
  webOrder = webOrder
  botOrder = botOrder
  Users = {user}
  Qqs = {qq}
  Orders = {webOrder, botOrder}
  Payer <- MCPayer
  Price <- MCPrice
  Daily = 1
  Legacy = {0, 1}
  Amounts = {1}
  MaxChanges = 2
  MaxDays = 2
  BadDays = {1}
INVARIANTS TypeOK PaidConserved ChargeExact PaidMirrored
PROPERTY ResetEachDay
