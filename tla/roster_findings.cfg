SPECIFICATION FindingSpec
CONSTANTS
    claude = claude
    codex = codex
    none = none
    c = c
    k = k
    src = src
    shared = shared
    lib = lib
    n = n
    m = m
    one = one
    two = two
    three = three
    one1 = one1
    two1 = two1
    two2 = two2
    three1 = three1
    NoPackage = NoPackage
    NoName = NoName
    MaxHops = 4
    PackageName <- ThePackageNames
    Explicit = {}
    OtherPlatform = {}
    Conditional = {}
    CodexRoots = {k, shared}
    Agents = {claude, codex}
    NoAgent = none
    RootsOf <- TheRoots
    Semantics <- TheSemantics
    Shared = shared
    Durable = {}
    Providers = {}
    SkillOf <- TheSkillOf
    Library = lib
    Identified = {}
    NameOf <- TheNames
    Skills = {one, two, three}
    Worlds <- TheWorlds
    MaxPlans = 1
    MaxChanges = 1
    MaxCore = 1
    Bootstrap = {}
    SkillOrder <- TheOrder
    Evidence <- TheEvidence
    StoredRosters <- TheRosters
INVARIANTS
    OffersStandSoFar
    NoSharedConflict
    DuplicatesGone
CHECK_DEADLOCK FALSE
