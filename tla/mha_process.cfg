SPECIFICATION FairProcessSpec
CONSTANTS
  Headers <- SomeHeaders
  Entries <- SomeEntries
  MaxNodes = 3
  Followed <- JustOne
  m = m
  f = f
  s = s
  u = u
  controller = controller
  rival = rival
  Nobody = Nobody
  Tasks = {m, f, s, u}
  Command <- Calls
  Owner <- OneRival
INVARIANTS SpecRelyOn DefaultsFillGaps RefusedForCause LeaseTypeOK NoLeak RunsClosed
PROPERTIES LeaseReturned
CHECK_DEADLOCK FALSE
