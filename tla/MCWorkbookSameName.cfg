CONSTANTS
  FileNames <- AllFiles
  Contents <- AllContents
  Stem <- Stems
  Readable <- CanBeRead
  ColumnsOf <- Columns
  TypeOf <- ValueTypes
  KeysOf <- Keys
  UniqueIn <- OneRowPerKey
  Sourced <- HaveSource
  HeadersAgree <- SameHeaders
  Batches <- SameName
  MaxTables = 3
  MaxVersion = 5
  NoValues = "no values"
  EmptyType = "text"
SPECIFICATION BookSpec
INVARIANT BothKept
CHECK_DEADLOCK FALSE
