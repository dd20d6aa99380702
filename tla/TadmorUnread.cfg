SPECIFICATION Spec
CONSTANTS
    Characters <- MCCharacters
    Lines <- MCLines
    RawCommands <- MCRawCommands
    Outputs <- MCOutputs
    MaxArgs = 2
    MaxCommands = 2
    Limit = 160
INVARIANTS
    FilesReadBack
CHECK_DEADLOCK FALSE
