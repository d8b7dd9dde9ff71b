SPECIFICATION Spec
CONSTANTS
  Starts = {s1, s2}
  Attempts = {a1, a2, a3}
  Editors = {e1, e2}
  Amendments = {c1, c2}
  Template = Template
  None = None
SYMMETRY Symmetry
INVARIANTS SubmissionLock CorrectionsChained
PROPERTIES NoDraftLost NoCorrectionWhileEditing
