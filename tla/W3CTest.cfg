SPECIFICATION WSpec
CONSTANTS
  Root = Root
  Package = Package
  Setup = Setup
  Suites = {"xsd10", "xsd11", "xml"}
  Catalogs <- MCCatalogs
INVARIANTS
  TypeOK
  ReportsAgree
  GreenRunIsComplete
  PassIsEarned
  MissingFixtureNeverFails
PROPERTY
  Terminates
CHECK_DEADLOCK FALSE
