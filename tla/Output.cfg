SPECIFICATION OutputSpec
CONSTANTS
  c1 = c1
  c2 = c2
  Calls = {c1, c2}
  Artifacts = {"first", "second"}
  FirstArtifact = "first"
  Scenarios <- MCScenarios
  MaxAttempts = 2
  StatusPolls = 2
  Parts = 2
  MaxPasses = 2
  MaxStrays = 1
  MaxRenders = 2
  SourcePool <- MCSourcePool
  MaxSources = 4
  Orders <- MCOrders
  MaxSupporting = 3
  Narrations <- MCNarrations
  PerMs = 2
  Briefs <- MCBriefs
  Owners = {o1, o2}
  StoryNarrations <- MCStoryNarrations
  MaxDocuments = 4
  RenderFiles <- MCRenderFiles
  NarrationLengths = {36, 110, 125, 17900, 18005, 23700, 23885, 23990, 24010, 24200, 29840, 30005}
  LibraryPlans <- MCLibraryPlans
  EpisodeLengths = {18000, 24000, 30000}
  RendersOrdered = 2
  GenerationDirectors = {d1, d2}
  GenerationRequests = {g1}
  EpisodePasses = {1, 2}
  Takes = {1, 2}
INVARIANTS
  OutputTypeOK
  RendersHold
  PackageSound
  PublicationBacked
  KeptReceiptReplayed
  PlansHold
  CuesHold
PROPERTIES
  PublishContractKept
  CallsAnswer
\* Calls and passes end, and no more come.
CHECK_DEADLOCK FALSE
