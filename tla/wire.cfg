SPECIFICATION ContractSpec
CONSTANTS
    Text <- MCText
    Broken <- MCBroken
    PythonBlank <- MCPythonBlank
    PythonLong <- MCPythonLong
    DotnetBlank <- MCDotnetBlank
    DotnetLong <- MCDotnetLong
    Escaped <- MCEscaped
    EventRoom <- MCEventRoom
    One = 4
    MaxInt64 = 8
    MaxDouble = 100
    MaxDigits = 200
    PythonNull = 5
    PythonLimit = 10000
    DotnetNull = 4
    DotnetLimit = 400
    Document <- MCDocument
    Dto <- MCDto
    Event <- MCEvent
INVARIANTS
    ReadAlike
    ClientIsUnderstood
    EventsAreUnderstood
    DifferencesAreKnown
