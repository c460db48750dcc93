\* Every input of up to 11 characters (enough for a 5-digit port that wraps past 2^16); the setters with the values their
\* code tells apart; create_with_data with an empty and a non-empty mime type.
CONSTANTS
    NONE = NONE
    MaxLen = 11
    Hosts <- MCHosts
    Paths <- MCPaths
    Ports <- MCPorts
    Protocols <- MCProtocols
    DataMimes = {"text", ""}
    Refs <- MCRefs
SPECIFICATION Spec
INVARIANT TypeOK
PROPERTY ValidityPreserved
PROPERTY CompleteResolvesAgainstBase
PROPERTY ParseTerminates
\* A complete_url that aborts ends the program: nothing follows it.
CHECK_DEADLOCK FALSE
