SPECIFICATION Spec
CONSTANTS
  Forms = {F, c1, c2}
  Creations = {c1, c2}
  Saves = {o1, o2}
  Configurations = {r1}
  Edits = {t}
  Discards = {g}
  Reapers = {w}
  Sessions = {a1, a2}
  Clients = {c1, c2, o1, o2, r1, t, g, w, h1, h2, s1, s2, x, y, d, m}
  Crowds = { {F, u, h1, h2, s1, s2}, {F, u, h1, s1, s2, m, d}, {F, u, v, h1, s1, s2, d}, {F, u, h1, s1, s2, x, d},
             {F, u, s1, s2, x, y, d}, {F, u, h1, s1, d, t}, {c1, r1, o1, g}, {c1, r1, c2}, {F, c1, r1, o1}, {c1, o1, o2, r1} }
  Tags = {t1, t2}
  Pointers = {p}
  Form = F
  Users = {u, v}
  Emails = {u, v}
  References = {k1, k2}
  Handoffs = {h1, h2}
  Starts = {s1, s2}
  Submissions = {x, y}
  Removals = {d}
  Sweeps = {z}
  Moves = {m}
  None = None
INVARIANTS ErasedForGood
CHECK_DEADLOCK FALSE
