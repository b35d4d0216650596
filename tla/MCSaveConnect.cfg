SPECIFICATION Spec
CONSTANTS
  Credentials = {1, 2}
  Volumes = {60}
  MaxForms = 3
  FormQueue = 2
INVARIANTS
  ConnectsAsSaved
