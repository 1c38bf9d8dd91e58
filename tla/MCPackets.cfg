SPECIFICATION FairSpec
CONSTANTS
  c1 = c1
  c2 = c2
  s1 = s1
  s2 = s2
  Cmds = {c1}
  Servers = {s1, s2}
  Fallback = Fallback
  NoServer = NoServer
  MaxCopies = 5
  Collections = TRUE
  Removable = {s1}
INVARIANT ExactlyOnce
INVARIANT OneHolder
INVARIANT QueuedAreLive
PROPERTY EventuallyCalled
CHECK_DEADLOCK FALSE
