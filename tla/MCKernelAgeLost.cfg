SPECIFICATION Spec
CONSTANTS
  CLOCK = CLOCK
  SYSTASK = SYSTASK
  MM = MM
  FS = FS
  u1 = u1
  u2 = u2
  u3 = u3
  IDLE = IDLE
  HARDWARE = HARDWARE
  ANY = ANY
  NIL = NIL
  Tasks <- TwoTasks
  Servers <- OneServer
  Users <- TwoUsers
  Calls = {"SETGROUP", "KILL", "ENDSIG"}
  Groups = {2}
  Estimates = {1}
  Signals = {"SIGALRM"}
  Targets = {"self"}
  RR_QUANTUM = 1
  AGING_TICK = 1
  MAX_WAIT_TICKS = 1
  SCHED_RATE = 1
PROPERTIES AgeKept
