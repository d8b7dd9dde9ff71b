\* Two administrators, two openings of the editor and a correction.
SPECIFICATION FairWorkspaceSpec
CONSTANTS
  Sessions = {s1, s2}
  Openings = {w1, w2}
  Corrections = {c1}
  None = None
INVARIANTS
  WorkspaceStored
  OwnWorkspace
  HeldWhileProcessed
PROPERTIES
  WorkspacesTracked
  IntentsHonoured
