CONSTANTS
  Programs <- StructuredPrograms
  PreSwitchRoom = 3
SPECIFICATION Spec
INVARIANTS DoesWhatItMeans StacksAgree
