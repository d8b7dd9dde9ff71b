SPECIFICATION Spec
CONSTANTS
  Templates = {"notes", "padded", "lists", "blank", "days", "loose", "thai", "checks", "pictures", "apart", "named", "copied", "twice", "nested", "chosen", "fallback", "second", "same", "untagged", "retagged", "mixed", "grouped", "empty", "equal", "without"}
  MaxEdits = 1
  MaxSaves = 2
INVARIANTS
  DocumentTellsData
  SubmittedComplete
CHECK_DEADLOCK FALSE
