\* A request panics while alerts are off, the default.
CONSTANTS
  Callers = {c1}
  Loops = {w1}
  Main = main
  Settings = {FALSE}
  Cooldown = 2
  SendTimeout = 1
  Grace = 1
SPECIFICATION ServiceSpec
INVARIANT PanicAnswered
