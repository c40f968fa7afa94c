CONSTANTS
    Parts = {"bundle", "jumps", "sketchy", "expressions", "groupchat", "stash", "imports", "files", "mailbox", "portable", "numbas"}
    StringKeys = {"k1", "k2", "k3", "k4"}
    OtherKeys = {"seven"}
    Vals = {"x"}
    Batches <- SomeBatches
    Hash <- SomeHash
    IndexMin = 2
    SmallestIndex = 4
    LoadNum = 7
    LoadDen = 10
    ClearFrom = 1
    NotThere = "none"
    Liberties = {}
    Bundle <- SmallBundle
    EntryModule <- TheEntry
    Paths <- SomePaths
    MaxFrames = 5
    MaxSegments = 4
    Writers = {"w1", "w2"}
    Readers = {"r"}
    Torn = "torn"
    Dms = {"d1", "d2"}
    Cap = 5
    FirstCapacity = 2
    None = "none"
    Containers = {"c1", "c2", "c3"}
    Scalars = {"x"}
    Foreign = {"bet"}
    Heaps <- SomeHeaps
    Elements = {"0", "0.0", "1"}
    Results = {"0", "bet", "squad"}
    Numbas = {"-1", "-0.5", "0", "0.0", "1"}
    Rank <- SomeRank
    Boolskis = {"bet"}
    TruthyOnes = {"-1", "-0.5", "1", "bet", "squad"}
    Verdicts <- SomeVerdicts
    WholeNumbas = {"-1", "0", "1"}
    AboveZero = {"1"}
    Nothing = "none"
    InitialCapacity = 2
    MaxCount = 3
    Changers <- SomeChangers
    Chuckers <- SomeChuckers
    Forgetters <- SomeForgetters
    Codes <- LongCodes
    MaxShorts = {20, 33, 47, 63, 80}
SPECIFICATION Spec
INVARIANTS ChatIndexIsSound KeepsItsPromises ModulesRunOnce ReadersSeeWhole AnsweredSurvives PortableCrossesWhole NumbasAreExact SketchyMeansWhatItSays ExpressionsMeanWhatTheySay SparedJumpsLand BundleWalkIsTheVisit BundleIsClosed
PROPERTIES ChatIsAnOrderedMap IsABoundedFifo
