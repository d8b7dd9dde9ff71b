SPECIFICATION Spec
CONSTANTS
  Starts = {s1, s2, s3}
  Attempts = {a1, a2}
  Editors = {}
  Amendments = {}
  Template = Template
  None = None
INVARIANTS DraftSeededFromLatest
