SPECIFICATION Spec
CONSTANTS
  Threads = {t1, t2}
  MaxFailures = 2
  HalfOpenMaxReqs = 1
  Width = 16
INVARIANTS TypeOK HalfOpenHasProbe NoLostTrip
PROPERTIES HalfOpenDecided RecoversWithService
