SPECIFICATION Spec
CONSTANTS
  Starts = {s1, s2}
  Attempts = {a1, a2}
  Editors = {e1}
  Amendments = {c1}
  Template = Template
  None = None
INVARIANTS ResultsShowReceipt
