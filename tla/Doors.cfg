SPECIFICATION SpecWithTools
CONSTANTS
  TTL = 1
  None = None
  Docs = {"d1", "d2", "d3"}
  Slugs = {"s1", "s2"}
  Keys = {"k1", "k2"}
  Scenes <- Instances
  Paths <- SomePaths
  Origins <- SomeOrigins
  Nothing = None
  MaxMemberRefs = 3
INVARIANTS AnswersAreTrue RefusalsAreOpaque ToolsTellTheTruth CorsOpensOnlyTokenDoors PacksAccountForEveryMember
PROPERTY OnlyTheOperatorActs
CHECK_DEADLOCK FALSE
