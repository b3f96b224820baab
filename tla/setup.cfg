SPECIFICATION SetupSpec
CONSTANTS
    codex = codex
    hermes = hermes
    shared = shared
    entry = entry
    reference = reference
    Agents = {codex, hermes}
    Hermes = hermes
    Shared = shared
    Managed = {entry, reference}
    Entry = entry
    Own = {"mine", "yours"}
    Layouts <- MCLayouts
    MaxEdits = 1
    MaxScans = 2
    MaxPlans = 2
INVARIANTS
    SetupSettles
PROPERTIES
    LocalEditsKept
CHECK_DEADLOCK FALSE
