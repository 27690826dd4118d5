SPECIFICATION MCSpec
CONSTANTS
    None = None
    Broken = Broken
    Chars <- MCChars
    Files <- MCFiles
    Args <- MCArgs
    Protos <- MCProtos
    Flags <- MCFlags
    Settings <- MCSettings
INVARIANTS
    EnvironmentProxyUsed
