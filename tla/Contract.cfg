SPECIFICATION Spec
CONSTANTS
  Malformed <- MCMalformed
  Quantities <- MCQuantities
  Durations <- MCDurations
  NameOrder <- MCNameOrder
  Catalogues <- MCCatalogues
  CreateRequests <- MCCreateRequests
  UpdateRequests <- MCUpdateRequests
  Names <- MCNames
  StorageNames <- MCStorageNames
  Invocations <- MCInvocations
  WorkerConfigs <- MCWorkerConfigs
  MaxUnits = 2
  MaxEdits = 2
INVARIANTS TypeOK StoredSpecsRender PackagedUnitsMatchCatalog ClaimsAreExclusive RenderedConfigSurvives
PROPERTIES RetryIsRecognised CloneIsFaithful
