SPECIFICATION FairSpec
CONSTANTS
  Batches = {b1}
  Docs = {d1, d2, d3}
  DocsOf <- MCDocsOf
  Text <- MCText
  Collections = {"hivemind", "knowledge_graph"}
  Stock <- MCStock
  IngestInto = "hivemind"
  Consumers = {app}
  Confs <- MCConfs
  Default = Default
  Off = Off
  Requests = {r1}
  Bodies <- MCBodies
  TopK = 3
  MaxContext = 6
  MinBody = 3
  MaxPosts = 2
  b1 = b1
  d1 = d1
  d2 = d2
  d3 = d3
  app = app
INVARIANTS
  TypeOK
  WholeBatches
  ContextSealed
PROPERTIES
  EveryCallEnds
