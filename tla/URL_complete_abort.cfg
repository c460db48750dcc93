\* As URL.cfg with inputs of up to 6 characters (enough for "http://c:"):
\* does complete_url ever abort?
CONSTANTS
    NONE = NONE
    MaxLen = 6
    Hosts <- MCHosts
    Paths <- MCPaths
    Ports <- MCPorts
    Protocols <- MCProtocols
    DataMimes = {"text", ""}
    Refs <- MCRefs
SPECIFICATION Spec
INVARIANT CompleteNeverAborts
\* A complete_url that aborts ends the program: nothing follows it.
CHECK_DEADLOCK FALSE
