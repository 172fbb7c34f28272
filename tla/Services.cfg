SPECIFICATION MCSpec
CONSTANTS
  Focus = {"catalog", "config", "harness", "grouping", "selection", "inference", "policy",
           "store", "backend", "document", "benchmark", "audit", "labels", "local", "library", "thumbs", "entry", "comments"}
  Models = {"laion", "detector"}
  RoleOf <- MCRoleOf
  NoModel = "none"
  Bundled = {"detector"}
  Callers = {"a", "b"}
  MaxCrashes = 1
  Requests = {"p", "q"}
  Secrets = {"s1", "s2"}
  MaxPuts = 2
  MaxKills = 1
  Candidates <- MCCandidates
  Original = {"qwen"}
  Samples = 2
  MaxTroubles = 2
  Photos = {1, 2, 3}
  Times = {0, 1, 2}
  Hashes = {0, 2}
  Gap = 1
  Threshold = 1
  BatchSize = 2
  MaxMishaps = 1
  MaxGroupings = 2
  Shoot = {1, 2}
  SceneOf <- MCSceneOf
  Partitions <- MCPartitions
  Scores = {1, 2}
  Ceiling = 9
  Policies <- MCPolicies
  MaxRounds = 2
  Pictures = {1, 2, 3, 4}
  Batches <- MCBatches
  Capacity = 2
  Chunk = 3
  Batch = 2
  Digests = {1, 2}
  MaxSwaps = 2
  MaxCalls = 2
  MaxBroken = 1
  Files = {1, 2}
  MaxWrites = 2
  MaxErrors = 1
  MaxDeaths = 1
  Dims <- MCDims
  Measurements <- MCMeasurements
  Settings <- MCSettings
  Criteria <- MCCriteria
  Replies <- MCReplies
  Retries = 2
  Configs <- MCConfigs
  Revisions <- MCRevisions
  Choices = {"none", "selected", "foreign"}
  Bundles = {"bytes1", "bytes2", "missing", "unreadable"}
  BenchRuns = {1, 2}
  BenchModels <- MCBenchModels
  Trials <- MCTrials
  FewestSamples = 2
  MostSamples = 2
  SampleSets = {1, 4}
  BenchRepeats = {0, 1}
  BenchReplies <- MCBenchReplies
  Supports <- MCSupports
  MaxStops = 1
  Readers = {1, 2}
  JobIds = {1, 2}
  Recorded <- MCRecorded
  Stored <- MCStored
  JobRoots <- MCJobRoots
  Outputs <- MCOutputs
  Database <- MCDatabase
  Requested <- MCRequested
  Sampled = {3, 8}
  MostQuantiles = 2
  MostRows = 4
  HashBucket <- MCHashBucket
  LabelFiles <- MCLabelFiles
  Percents = {20, 50, 70}
  PivotScore = 5
  FewestLabels = 2
  LeastSpan = 1
  MaxImports = 3
  Manifests <- MCManifests
  Answers <- MCAnswers
  Repetitions = 2
  RejectBelow = 4
  PriorRejectBelow = 5
  Shelf = {1, 2}
  RootHolds <- MCRootHolds
  Visitors = {"v", "w"}
  Labels = {"keep"}
  Marks = {1}
  PageSizes = {1}
  MaxReplaced = 1
  MaxScored = 1
  MaxStarts = 1
  MaxScans = 2
  AskedFor <- MCAsked
  BootsWith <- MCStarts
  RealPath <- MCRealPath
  LinkNames <- MCLinkNames
  Account0 <- MCAccount0
  DeviceGids = {0, 1, 7}
  Places <- MCPlaces
  MaxBoots = 2
  Posted <- MCPosted
  SetOf <- MCSetOf
  Sights <- MCSights
  KeyHash <- MCKeyHash
  NamesHash <- MCNamesHash
  GroupAnswers <- MCGroupAnswers
  PostAnswers <- MCPostAnswers
  MaxRejudged = 1
INVARIANTS
  ServicesTypeOK
  ConfigIsAccepted
  ReportIsTrue
  GroupsHold
  DecisionsHold
  StoreIsWhole
  AnswersHold
  ResultsFollowInputs
  EntryHolds
  RecordsHold
PROPERTIES
  RegistryStep
CHECK_DEADLOCK FALSE
