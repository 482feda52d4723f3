SPECIFICATION FairSpec
CONSTANTS
  CLOCK = CLOCK
  SYSTASK = SYSTASK
  MM = MM
  FS = FS
  u1 = u1
  u2 = u2
  u3 = u3
  IDLE = IDLE
  HARDWARE = HARDWARE
  ANY = ANY
  NIL = NIL
  Tasks <- TwoTasks
  Servers <- OneServer
  Users <- ThreeUsers
  Calls = {"SETGROUP"}
  Groups = {1}
  Estimates = {1}
  Signals = {}
  Targets = {"self"}
  RR_QUANTUM = 2
  AGING_TICK = 1
  MAX_WAIT_TICKS = 1
  SCHED_RATE = 1
PROPERTIES RoundRobin
