SPECIFICATION Spec
CONSTANTS
    Prices = {0, 1, 3}
    Halves = {1}
    MaxZones = 2
    MaxEntries = 3
    MaxFaults = 1
INVARIANTS
    OneEntryPerZone
PROPERTIES
    EntryOnlyOnRetest
CHECK_DEADLOCK FALSE
