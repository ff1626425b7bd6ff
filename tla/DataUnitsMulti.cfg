SPECIFICATION Spec
CONSTANTS
  KeyfileLength <- Lengths
  MAX_READ = 6
  Creations <- Volumes
  Attempts <- Tries
  NewCredentials <- Changes
  NSectors = 2
  Values = {"v"}
  MaxRun = 2
  MaxChanges = 1
INVARIANT
  ReadsBack
