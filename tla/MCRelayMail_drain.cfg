SPECIFICATION DeskSpec
CONSTANTS
  w1 = w1
  w2 = w2
  u1 = u1
  u2 = u2
  p = p
  q = q
  a = a
  b = b
  MailMembers = {a, b}
  MailOwner = a
  MailAdmins = {a}
  Names = {x}
  Writers = {w1, w2}
  MaxMail = 2
  Absent = Absent
  Unbound = Unbound
  Tasks = {t}
  Principals = {a, b}
  Updates = {u1, u2}
  Posts = {p, q}
  MaxLife = 2
  Nil = Nil
  Shifts = {w1, w2}
  Sessions = {s1}
  Skills = {sk}
  Pairs = {pair}
  MaxPosted = 2
  MaxTasks = 2
  MaxStored = 2
  Lost = {"lease", "write", "update"}
  NoOne = NoOne
SYMMETRY MCSymmetry
CHECK_DEADLOCK FALSE
INVARIANTS
  DrainedOnce
