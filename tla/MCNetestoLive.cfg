SPECIFICATION FairSpec
CONSTANTS
  c1 = c1
  c2 = c2
  c3 = c3
  h1 = h1
  h2 = h2
  s1 = s1
  s2 = s2
  s3 = s3
  None = None
  Controllers = {c1, c2, c3}
  Allowed = {c1, c2}
  NoRun = {c2}
  Hosts = {h1}
  Exps = {1}
  Slots = {s1, s2}
  Chunks = 2
  Window = 1
  Commands = {"GET_DATA", "SET_SYSCTL", "EXIT"}
  Bare = TRUE
  MaxCmds = 2
  Patient = TRUE
PROPERTY Answered
CONSTRAINT OthersOnce
