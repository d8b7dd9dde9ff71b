SPECIFICATION FairSpec
CONSTANTS
  Crowds = { {"correction", "changes", "failures"}, {"native", "exit", "export"}, {"toolbar", "changes"}, {"toolbar", "failures"},
             {"exit", "export"}, {"export", "toolbar"}, {"exit", "changes"} }
  MaxChanges = 2
  MaxActions = 1
  MaxSaves = 1
INVARIANTS DataOfDocument CleanMeansSaved
PROPERTIES WaitsEnd
CHECK_DEADLOCK FALSE
