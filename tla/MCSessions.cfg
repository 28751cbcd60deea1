\* Two requests over two sessions and two states; time outlasts every deadline.
SPECIFICATION Spec
CONSTANTS
  Req = {r1, r2}
  Sid = {s1, s2}
  State = {t1, t2}
  SessionTTL = 2
  PendingTTL = 2
  ReapEvery = 2
  MaxTime = 6
  NoSid = NoSid
  NoState = NoState
SYMMETRY Symmetry
INVARIANTS
  TypeOK
  StateUsedOnce
  LogoutFinal
  MapsAreReaped
