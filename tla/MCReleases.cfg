SPECIFICATION Spec
CONSTANTS
  n1 = n1
  n2 = n2
  n3 = n3
  None = None
  Error = Error
  Link = Link
  Open = Open
  Refused = Refused
  MaxArguments = 2
  MaxBuffer = 1
  Pascal <- MCPascal
  Camel <- MCCamel
  Versions <- MCVersions
  Calls <- MCCalls
  Clients <- MCClients
  Mappings <- MCMappings
  ApiPath <- MCApi
  MetadataPath <- MCMetadata
  MaxLifetime = 3
  Skew = 1
  MaxRollbacks = 1
  Stagings <- MCStagings
  Publications <- MCPublications
  Offers <- MCOffers
  Refusals <- MCRefusals
  Handovers <- MCHandovers
  Projects <- MCProjects
  Exports <- MCExports
  Imports <- MCImports
  Tolerance = 1
  MaxCheckAge = 2
  MaxDecisionAge = 5
  MaxInputs = 3
  MaxFiles = 3
  Sites <- MCSites
  Intakes <- MCIntakes
  Drafts <- MCDrafts
  Wildcard = Wildcard
  Placeholder = Placeholder
  MaxDepth = 2
  Excluded = {n3}
  MaxSafe = 2
  Edits <- MCEdits
  Promoted <- MCPromoted
  Worlds <- MCWorlds
  Others <- MCOthers
  MaxChanges = 2
CHECK_DEADLOCK FALSE
INVARIANTS CompatibleVersionsServeOldPages DeclarationsAreServed PublishedIsInstallable AcceptedIsWhatRuns SignedRoutesKeepAnOrigin
INVARIANTS DeliveryIsReady PilotReportsHold GoldenCasesCoverTheRelease HonestRunsAreGo OnlyTheApprovedReleaseGoes
