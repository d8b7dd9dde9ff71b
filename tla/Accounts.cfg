\* Two administrators against each other; two servers on a new database; an
\* administrator, a sign-in and a change of password; two logins from the legacy
\* provider and a review; one with an administrator's mutation.
SPECIFICATION Spec
CONSTANTS
  Users = {a, b, u, w}
  Emails = {a, b, u}
  Subjects = {x}
  Admins = {a, b}
  Members = {u}
  Mutations = {m1, m2}
  Reviews = {v}
  SignIns = {i}
  Changes = {c}
  Attempts = {t1, t2}
  Servers = {b1, b2}
  Crowds = {
    {a, b, m1, m2}, {b1, b2}, {a, u, m1, i, c}, {a, u, t1, t2, v}, {a, u, t1, m1, v} }
  None = None
INVARIANTS EnabledAdmin
PROPERTIES AuthorizedMutation ResetStands LinkedAsApproved
SYMMETRY Symmetry
CHECK_DEADLOCK FALSE
