SPECIFICATION Spec
CONSTANTS
  Files = {a, b}
  Writers = {b}
  MaxEvents = 2
  MaxToken = 4
  MaxLevel = 1
  MayFail = TRUE
  NoFile = none
INVARIANTS EventsNameTheirFile ReadinessKept
PROPERTIES Served Watches
