SPECIFICATION MCSpec
CONSTANTS
  r1 = r1
  Doc <- MCDoc
  Kind <- MCKind
  Docs <- MCDocs
  Foreign <- MCForeign
  GraphOf <- MCGraphOf
  KindOf <- MCKindOf
  Definition <- MCDefinition
  Manifests <- MCManifests
  ForeignManifests <- MCForeignManifests
  Reader = {r1}
  Queries <- MCQueries
  PageLimit = 1
INVARIANTS
  GraphClosed
  CountsAddUp
  CatalogComplete
  AdaptersAgree
PROPERTIES
  ImplementsLinked
