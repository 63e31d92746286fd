SPECIFICATION WorkspacesSpec
CONSTANTS
    HostCalls = {c, d}
    Paths = {p, q}
    Branches = {"branch"}
    MaxCommits = 2
    RefsMove = FALSE
    Remade = FALSE
    Kids = {k}
    Kills = {"first", "second"}
    MaxChunks = 3
    LeaderFirst = FALSE
    PortCalls = {"first", "second"}
    Ports = {1, 2, 3}
    MaxPorts = 2
    MaxChanges = 3
    Attachments = {"first", "second", "third"}
    AtOnce = FALSE
    Entries = {"one", "two"}
    UnderLinks = FALSE
    MaxFiles = 2
    MaxHunk = 2
    SkillCalls = {e, f}
    Skills = {"first", "second", "third"}
    NameOf <- MCNameOf
    KeptIn <- MCKeptIn
    Asked = {{"first"}, {"third"}}
    Replaced = FALSE
    Wanting = {{"claude"}, {"claude", "gemini"}}
    Tags = {t, u}
    Briefs = {"brief"}
    Lines = {"line"}
    MaxCalls = 3
    Meanwhile = FALSE
    DiesWriting = FALSE
    MaxDirs = 3
SYMMETRY WorkspacesSymmetry
INVARIANTS WorkspacesAreTrue ToolsAreTrue ReadsAreTrue
PROPERTIES WorkIsKept OthersSkillsStay
CHECK_DEADLOCK FALSE
