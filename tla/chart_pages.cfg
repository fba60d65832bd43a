\* Two line pages, and a request in the same form that is answered with the record
\* file and has a malformed filter; one threshold.
CONSTANTS
  cpuavg = cpuavg
  cpumax = cpumax
  memavg = memavg
  memmax = memmax
  Reqs = {a, b, c}
  Lines = {a, b, c}
  Ported = {a, b, c}
  Filtered = {a}
  Malformed = {c}
  Raw = {c}
  CpuFields = {cpuavg}
  MemFields = {}
  data = data
  len = len
  Words = {data, len}
  Default = Default
  Boot = Boot
  Library = Library
SYMMETRY AlikeWords
SPECIFICATION Spec
INVARIANTS IInv ThresholdsFromOverlapping LinksFromOverlapping
\* Every request is made once, so the system may stop.
CHECK_DEADLOCK FALSE
