SPECIFICATION Spec
CONSTANTS
  Versions = {1, 2, 3}
  Good = {1, 3}
  First = 1
  Servers = {a, b}
INVARIANTS
  ConfirmedTwice
