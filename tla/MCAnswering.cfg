CONSTANTS
  q1 = q1
  q2 = q2
  q3 = q3
  q4 = q4
  s1 = s1
  s2 = s2
  Questions = {q1, q2, q3}
  Sessions = {s1, s2}
  SessionOf <- SpreadOut
  TextOf <- Asked
  Data = {"none", "d1", "d2"}
  Nothing = "none"
  FirstData = "d1"
  Links = {"m1", "m2"}
  FirstLinks = "m1"
  Glossaries = {"g1", "g2"}
  FirstGlossary = "g1"
  AtOnce = 3
  CacheMax = 2
  MaxTurns = 1
  Prompted = 1
  Operations <- OneChange
SPECIFICATION Spec
CHECK_DEADLOCK FALSE
INVARIANTS CatalogMatchesDatabase QuietEntriesHonest QuietTurnsCurrent
