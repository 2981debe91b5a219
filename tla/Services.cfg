SPECIFICATION ServicesSpec
CONSTANTS
  c1 = c1
  c2 = c2
  p1 = p1
  r1 = r1
  publisher1 = publisher1
  publisher2 = publisher2
  viewer1 = viewer1
  q1 = q1
  Clients = {c1, c2}
  Plans = {p1}
  Runs = {r1}
  Steps = 2
  MaxRequests = 2
  MaxConnects = 2
  MaxCrashes = 1
  Publishers = {publisher1, publisher2}
  Viewers = {viewer1}
  Questions = {q1}
  BufferSize = 1
  ChannelSize = 1
  MaxEvents = 2
  MaxLinks = 2
  MaxDays = 2
  MaxSchedulers = 3
  MaxKills = 1
  Frontends = {"f1", "f2"}
  HandFiles <- MCHandFiles
  Keys = {"k1", "k2"}
  Settings = {"s1", "s2"}
  MaxWrites = 2
  MaxSegments = 3
  MaxAppends = 4
  MaxDeaths = 2
  Processes = {"sa1", "sa2"}
  Stores = 2
  MaxOpens = 3
  MaxMishaps = 1
  Generations <- MCGenerations
  MaxItems = 3
  MaxTurns = 2
  MaxPosts = 2
  w1 = w1
  w2 = w2
  cp = cp
  Workers = {w1, w2}
  Paths = {cp}
  Checkpoint = cp
  MaxBatch = 2
  MaxQuanta = 2
  MaxVersions = 3
  MaxOutside = 1
  Shelves <- MCShelves
  Prompts <- MCPrompts
  Permissions <- MCPermissions
  ToolCalls <- MCToolCalls
  SkillTool = "Skill"
  Controls = {"Finish"}
  Touchable = {"f"}
  NoModel = "none"
  MaxSkillQuanta = 2
  MaxTold = 2
INVARIANTS
  ServicesTypeOK
  
  MissesOnlyOvertaken
  PendingQuestionsAreKnown
  
  
  CrashKeepsLog
  SharedOnlyUnseen
  EveryWireIsPaired
  AnswerIsGeneration
  EditIsOfWhatWasRead
  QuantumHonoursItsSkills

  
CHECK_DEADLOCK FALSE
