SPECIFICATION Spec
CONSTANTS
  seller = seller
  buyer = buyer
  rich = rich
  Users = {seller, buyer, rich}
  Handlers = {h1, h2}
  Anyone = Anyone
  StartCoins <- MCStartCoins
  StartRows <- MCStartRows
  Quantities = {1, 2}
  Prices = {0, 20}
  MaxListings = 1
  MaxPosts = 2
INVARIANTS TypeOK EscrowHoldsUncontested  
SYMMETRY Symmetry
CHECK_DEADLOCK FALSE
