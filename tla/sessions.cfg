CONSTANTS
  s1 = s1
  s2 = s2
  Users = {adm, bob}
  Admins = {adm}
  FirstAdmin = adm
  Passwords = {p1, p2}
  NewPasswords = {p1}
  FirstPassword = p1
  Sites = {s1, s2}
  DefaultSite = s1
  Assignments <- NewUserSites
  SessionIds = {i1, i2}
  Tickets = {t1}
  Requests = {r1, r2}
  Managed = {bob}
  FailLimit = 2
  None = None
SPECIFICATION Spec
SYMMETRY Alike
INVARIANTS
  TypeOK
  RevokedUserIsOut
  ActiveSiteIsAssigned
  GuessesBounded
  ClosedTicketIsAnswered
PROPERTIES
  EndedSessionNeverReturns
CHECK_DEADLOCK FALSE
