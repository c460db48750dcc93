\* As URL.cfg, checking what a failed parse leaves in the fields.
CONSTANTS
    NONE = NONE
    MaxLen = 11
    Hosts <- MCHosts
    Paths <- MCPaths
    Ports <- MCPorts
    Protocols <- MCProtocols
    DataMimes = {"text", ""}
    Refs <- MCRefs
SPECIFICATION Spec
PROPERTY FailedParseLeavesDefaults
\* A complete_url that aborts ends the program: nothing follows it.
CHECK_DEADLOCK FALSE
