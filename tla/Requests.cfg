\* Instance of Requests; see MCRequests.tla.
SPECIFICATION Spec
CONSTANTS
  None = None
  Text <- MCText
  Generated = Generated
  Absent = Absent
  Flags <- MCFlags
  PathLike <- MCPathLike
  DerivedName <- MCDerivedName
  BadNames = {"no name"}
  Libraries <- MCLibraries
  GatewayRequests <- MCGatewayRequests
  Addresses = {"127.0.0.1", "0.0.0.0"}
  MaxReplaced = 1
CHECK_DEADLOCK FALSE
INVARIANT TypeOK
INVARIANT EndpointIsPublished
INVARIANT PasswordWorks
INVARIANT AskedAsDockerTakes
INVARIANT FlagsWin
INVARIANT UserTemplatesShadow
