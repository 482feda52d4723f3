SPECIFICATION Spec
CONSTANTS
  CLOCK = CLOCK
  SYSTASK = SYSTASK
  MM = MM
  FS = FS
  u1 = u1
  u2 = u2
  u3 = u3
  IDLE = IDLE
  HARDWARE = HARDWARE
  ANY = ANY
  NIL = NIL
  Tasks <- TwoTasks
  Servers <- OneServer
  Users <- ThreeUsers
  Calls = {"SETGROUP"}
  Groups = {0, 1, 2, 3, 4}
  Estimates = {0, 1, 2}
  Signals = {}
  Targets = {"self"}
  RR_QUANTUM = 2
  AGING_TICK = 1
  MAX_WAIT_TICKS = 2
  SCHED_RATE = 1
INVARIANTS TypeOK RunnableIffQueued Dispatched ShortestJobFirst
PROPERTIES AgeKept
VIEW View
