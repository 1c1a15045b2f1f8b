SPECIFICATION Spec
CONSTANTS
    Protocols <- MCProtocols
    Interfaces <- MCInterfaces
    parsed_version <- MCVersions
    Inputs <- MCInputs
    Display <- MCDisplay
    Callback <- MCCallback
    Absent = "absent"
    None = None
    Untyped = Untyped
    MaxLimit = 1
    MaxLines = 2
INVARIANTS
    TypeOK
    ResultIsReference
    SameVerdict
PROPERTIES
    Ends
