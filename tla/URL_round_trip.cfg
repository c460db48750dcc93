\* Every input of up to 6 characters, parsed, then its to_string() parsed again.
CONSTANTS
    NONE = NONE
    MaxLen = 6
    Hosts <- MCHosts
    Paths <- MCPaths
    Ports <- MCPorts
    Protocols <- MCProtocols
    DataMimes = {"text", ""}
    Refs <- MCRefs
SPECIFICATION Spec
PROPERTY RoundTrip
\* A complete_url that aborts ends the program: nothing follows it.
CHECK_DEADLOCK FALSE
