SPECIFICATION Spec
CONSTANTS
  Consumers <- DeployedConsumers
  LimitConfigs <- DeployedConfigs
  Handlers = {h1, h2}
  NoConsumer = NoConsumer
  MaxTime = 4
  MaxLimiters = 1
  MaxBuckets = 2
PROPERTIES
  ZeroMeansUnlimited
