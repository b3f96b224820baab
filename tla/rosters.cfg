SPECIFICATION RosterSpec
CONSTANTS
    claude = claude
    codex = codex
    hermes = hermes
    none = none
    c = c
    k = k
    h = h
    src = src
    shared = shared
    lib = lib
    plug = plug
    far = far
    n = n
    m = m
    one = one
    two = two
    one1 = one1
    one2 = one2
    two1 = two1
    NoPackage = NoPackage
    NoName = NoName
    MaxHops = 6
    PackageName <- ThePackageNames
    Explicit = {}
    OtherPlatform = {}
    Conditional = {}
    CodexRoots = {k, shared}
    Agents = {claude, codex, hermes}
    NoAgent = none
    RootsOf <- TheRoots
    Semantics <- TheSemantics
    Shared = shared
    Durable = {far}
    Providers = {plug}
    SkillOf <- TheSkillOf
    Library = lib
    Identified = {}
    NameOf <- TheNames
    Skills = {one, two}
    Worlds <- TheWorlds
    MaxPlans = 1
    MaxChanges = 2
INVARIANTS
    PreparedPlansApply
    ContentStays
    BystandersUndisturbed
    ReadOnlyUntouched
CHECK_DEADLOCK FALSE
