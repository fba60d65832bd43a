\* Two requests at the same time.
CONSTANTS
  cpuavg = cpuavg
  cpumax = cpumax
  memavg = memavg
  memmax = memmax
  Reqs = {a, b}
  Lines = {a}
  Ported = {a}
  Filtered = {a}
  Malformed = {}
  Raw = {}
  CpuFields = {cpuavg, cpumax}
  MemFields = {memavg, memmax}
  data = data
  len = len
  Words = {data, len}
  Default = Default
  Boot = Boot
  Library = Library
SPECIFICATION Spec
INVARIANTS OwnFilter
\* Every request is made once, so the system may stop.
CHECK_DEADLOCK FALSE
