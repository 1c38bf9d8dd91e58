SPECIFICATION Spec
CONSTANTS
  c1 = c1
  c2 = c2
  s1 = s1
  s2 = s2
  Cmds = {c1}
  Servers = {s1}
  Fallback = Fallback
  NoServer = NoServer
  MaxCopies = 4
  Collections = TRUE
  Removable = {}
INVARIANT OpPktValid
CHECK_DEADLOCK FALSE
