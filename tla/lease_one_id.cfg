SPECIFICATION ProcessSpec
CONSTANTS
  Headers <- LegalHeader
  Entries <- LegalEntries
  MaxNodes = 2
  Followed <- JustOne
  m = m
  f = f
  s = s
  u = u
  controller = controller
  rival = rival
  Nobody = Nobody
  Tasks = {m, f, s, u}
  Command <- Calls
  Owner <- OneID
INVARIANTS OneHolder
CHECK_DEADLOCK FALSE
