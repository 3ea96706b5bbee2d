SPECIFICATION WSpec
CONSTANTS
  Root = Root
  Package = Package
  Setup = Setup
  Suites = {"xsd11"}
  Catalogs <- MCCatalogs
INVARIANT
  NeverReadsCleanAndEmpty
CHECK_DEADLOCK FALSE
