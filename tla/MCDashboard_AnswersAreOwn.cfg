\* Two conversations, the vault focused while the question is out.
SPECIFICATION DashboardSpec
CONSTANTS
  CommandCap = 1
  EventCap = 1
  MaxChats = 2
  MaxSessions = 2
  Groups = {}
  Consoles = {}
  Rates = {0}
  MaxLoops = 0
  Windows = {}
  Videos = {}
  Qualities = 1
  Slots = 0
  ReportCap = 1
  Scopes = {"chat"}
CHECK_DEADLOCK FALSE
INVARIANTS
  AnswersAreOwn
