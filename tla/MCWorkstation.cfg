SPECIFICATION Spec
CONSTANTS
    Targets = {".mcp.json", ".vscode/mcp.json", ".gitignore", ".codex/hooks.json", ".cursor/hooks.json"}
    Installed = {"cursor", "vscode", "codex"}
    Missing = Missing
    Spoilt = Spoilt
    Mishaps = {"kill", "fail"}
    MaxEdits = 1
    claude = claude
    codex = codex
    h1 = h1
    h2 = h2
    Sessions = {claude, codex}
    Inline = {codex}
    Hooks = {h1, h2}
    MaxTurns = 4
    DropOldest = 3
    MaxExchanges <- MCMaxExchanges
    Shapes <- MCShapes
    MaxParts = 1
    Killed = {codex}
    Overlapping = {codex}
    Twice = {codex}
    MaxPushes = 1
    Earlier <- MCEarlier
SYMMETRY HookProcesses
INVARIANTS
    WiringSound
    BuffersSound
    NothingLost
    ReplyComplete
    GuardSound
PROPERTIES
    OthersKept
CHECK_DEADLOCK FALSE
