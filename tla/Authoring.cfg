\* A creation, a revision and their owner's end; and overlapping sign-outs on a
\* file system that may refuse to remove the directory of c3.
SPECIFICATION FairSpec
CONSTANTS
  Owners = {owner}
  Creations = {c1, c2, c3}
  Revisions = {r1}
  SignOuts = {out, out2}
  Revocations = {revoke}
  Stuck = {c3}
  Crowds = { {c1, c2, r1, revoke}, {c1, c2, r1, out}, {c1, r1, out, revoke}, {c3, r1, out, out2} }
  None = None
INVARIANTS OneWorkspace ErasedUnused NothingAfterEnd NoStrayFiles
PROPERTIES NothingWhileEnding EndingsReturn CopiesDeleted
