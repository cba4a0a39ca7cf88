SPECIFICATION ValuesSpec
CONSTANTS
  o1 = o1
  o2 = o2
  Object <- Objects
  Domain <- Domains
  Given <- Givens
  Address <- Addresses
  Alarm <- Alarms
  Key <- Keys
  BlobKey = {"x", "y"}
  Blob = {s1, s2}
  Foreign <- Foreigns
  Nothing = Nothing
  MaxAlarm = 2
  MaxEdit = 2
  MaxHeld = 1
  MaxWire = 1
  Proxy = {p1, p2, p3}
  MallocArea = {m1}
  ShmArea = {s1, s2}
  Id = {i1}
  MaxKept = 1
  Careful = TRUE
  NoArea = NoArea
  Nobody = Nobody
  MaxLen = 5
  Thread = {t1, t2}
  Level = {0, 1}
  MaxCall = 2
  MaxSet = 1
  Width = 1
  Second = 10
  Base <- Bases
  Step <- Steps
  Span = 173664000
  Shift <- Shifts
  Format <- Formats
  Offset <- Offsets
INVARIANTS
  NamesAreFull RefsAgree
  CounterAgrees BlobAlive OneMapping NoLeak NoPanic
  UrlReadsBack
  StampsFollowTheOutput
  DaysReadBack CalendarAdds ClockAgrees TextReadsBack
PROPERTIES
  RemovesOwnBlob ImplementsAbstractBlob
  MadeFaithfully NextDayFollows StampsSort
SYMMETRY Symmetry
CHECK_DEADLOCK FALSE
