SPECIFICATION CreateSpecification
CONSTANTS
  Requests <- TheRequests
  Flags <- TheFlags
  Hosts <- TheHosts
  Trees <- TheTrees
  Cwd <- TheCwd
  LinkTarget <- TheLinkTarget
  MaxChanges = 1
  RetryLimit = 65536
  DurationLimit = 1048576
  GPUGroups = {44, 226}
  ExecLog = TRUE
INVARIANTS
  RunsWhatWasAsked
  AcceptedIsBuildable
  NothingIsShared
  WaitOutlastsChecks
  ArchiveFaithful
  CopiedWhole
PROPERTY CopiesEnd
