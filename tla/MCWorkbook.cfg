CONSTANTS
  FileNames <- AllFiles
  Contents <- AllContents
  Stem <- Stems
  Readable <- CanBeRead
  ColumnsOf <- Columns
  TypeOf <- ValueTypes
  KeysOf <- Keys
  UniqueIn <- OneRowPerKey
  Sourced <- HaveSource
  HeadersAgree <- SameHeaders
  Batches <- Uploads
  MaxTables = 3
  MaxVersion = 6
  NoValues = "no values"
  EmptyType = "text"
SPECIFICATION BookSpec
CHECK_DEADLOCK FALSE
INVARIANTS CatalogIsDatabase LinksStand
PROPERTY DecisionsKept
