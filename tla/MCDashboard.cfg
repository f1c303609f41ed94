\* Each page in turn, over channels of one: two conversations; two launch
\* groups, one of a console host; another client of the live channel; two
\* videos at one quality, a conversion and the one it superseded.
SPECIFICATION DashboardSpec
CONSTANTS
  CommandCap = 1
  EventCap = 1
  MaxChats = 2
  MaxSessions = 2
  Groups = {1, 2}
  Consoles = {1}
  Rates = {0, 30}
  MaxLoops = 2
  Windows = {w1}
  Videos = {v1, v2}
  Qualities = 1
  Slots = 2
  ReportCap = 1
  Scopes = {"chat", "launches", "live", "background"}
CHECK_DEADLOCK FALSE
INVARIANTS
  DashboardTypeOK
  OneQuestionInFlight
  RenameAimsAtItsChat
  OccurrencesAreSelected
  OneLoopServes
  BackgroundExplained
PROPERTIES
  RunsEnd
  SelectionLoads
  LiveStops
  SupersededEnd
