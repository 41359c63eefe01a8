\* Two uploads to one session, one of two files, and a sample that waits for the same slot.
SPECIFICATION Spec
CONSTANTS
  u1 = u1
  u2 = u2
  u3 = u3
  s1 = s1
  s2 = s2
  Uploaders = {u1, u2, u3}
  SessionOf <- MCSessionOf
  Files <- MCFiles
  WaitS = 2
  MayCrash = FALSE
INVARIANT FilesStay
CHECK_DEADLOCK FALSE
