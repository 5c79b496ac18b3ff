SPECIFICATION Spec
CONSTANTS
  c1 = c1
  py1 = py1
  py2 = py2
  Clients = {c1, py1, py2}
  PythonClients = {py1, py2}
  MaxCalls = 5
  MaxRaised = 2
INVARIANTS FailureTold ExceptionOfThisCall ErrorKept ClosedOnce
CHECK_DEADLOCK FALSE
