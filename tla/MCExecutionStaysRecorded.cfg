\* One funded order, two workers and one payment API call.
SPECIFICATION Spec
CONSTANTS
  h1 = h1
  Hold = {h1}
  Key = {k1}
  Whole = whole
  MaxAmount = 2
  Order = {o1}
  HoldOf <- OneHold
  Unfunded = unfunded
  Job = {j1}
  NoJob = nojob
  Worker = {w1, w2}
  NoCommand = none
  MaxFaults = 0
  MaxDirect = 0
SYMMETRY Symm
PROPERTIES ExecutionStaysRecorded
