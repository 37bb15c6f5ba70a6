\* One wallet, one hold of up to two minor units, and two clients.
SPECIFICATION Spec
CONSTANTS
  main = main
  Wallet = {main}
  WalletOf <- OneWallet
  Hold = {h1, h2}
  Key = {k1}
  Whole = whole
  Credit = {d1}
  Client = {c1, c2}
  NoCommand = none
  MaxAmount = 2
SYMMETRY Symm
INVARIANTS HoldsAreFunded
