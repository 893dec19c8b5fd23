\* Instance of GatewayConfig; see MCGatewayConfig.tla.
SPECIFICATION Spec
CONSTANTS
  None = None
  Names = {"corp"}
  SourceDirs = {"home"}
  Files = {"client", "other"}
  Listing <- MCListing
  Routes = {"lab"}
  Pushed = "pushed"
  Texts <- MCTexts
  Asked <- MCAsked
  MaxCommands = 2
  MaxEdits = 1
CHECK_DEADLOCK FALSE
INVARIANT TypeOK
INVARIANT SplitTakesNoDefault
INVARIANT PushedDefaultIsRefused
INVARIANT RoutesAreShown
