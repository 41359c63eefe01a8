SPECIFICATION Spec
CONSTANTS 
  MaxRows = 2 MaxSent = 2 MaxBars = 2 MaxSeries = 2 MaxSlices = 2
  ReadableGroups = 2 QueryBudget = 3 MinScore = 5 MaxCategoryValues = 2 MaxMappings = 1 Catalog <- MCCatalog
  Inputs <- MCInputs Cells <- MCSheetCells Written <- MCValues Words <- MCWords
CHECK_DEADLOCK FALSE
INVARIANTS TablesHold MemoryHolds ConversionsHold PeopleHold JoinsHold ChecksHold ReadsHold SentencesHold ShownHolds OverviewHolds FactsHold QuestionsHold
