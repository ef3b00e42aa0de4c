SPECIFICATION MCSpec
CONSTANTS
  Null = Null
  Catalog <- MCCatalog
  Input <- MCInput
  Data <- MCData
  Sources <- MCSources
  ServerFile <- MCServerFile
  Request <- MCRequest
  Call <- MCCall
  Reply <- MCReply
  MaxBatch = 3
  Row <- MCRow
  MaxRows = 2
  Query <- MCQuery
  SeedMaxDistance = 2
  MaxDistance = 4
INVARIANTS
  DisabledGateIsNamed
  BatchTellsOutage
  PreviewIsCanonical
  PromptIsTrue
  CapsToldAgree
  ToldIsVetted
PROPERTIES
  RepairNeverHurts
  BuildsFaithfully
