SPECIFICATION ListFairSpec
CONSTANTS
  UstavkaObject = {u1, u2, u3, u4}
  MaxLen = 2
  TotalUstavki = 2
  NumChannel = 2
INVARIANTS
  ListTypeOK
  AddedConnected
  DialogOnListed
 
