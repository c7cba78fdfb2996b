SPECIFICATION FairSpec
CONSTANTS
  NUM_THREAD = 3
  SelectionLines = 2
  Files <- MCFiles
  Launchers = {1, 2}
  Modes <- MCModes
  Switches <- MCSwitches
  MaxAsked = 2
  MaxSeq = 2
INVARIANTS TypeOK StartsSelected ConfirmsSelected
PROPERTIES EverySelectionServed
CHECK_DEADLOCK FALSE
