SPECIFICATION Spec
CONSTANTS
  Cols = 3
  Rows = 3
  FontBits <- MCFontBits
  MaxEscValues = 5
  TabSize = 2
  Cp437 <- MCCp437
  Combining <- MCCombining
  PoolSizes = {5, 12}
  Requests <- MCRequests
  Pieces <- MCPieces
  MaxWrites <- MCMaxWrites
  NoContext = NoContext
INVARIANTS SetupIsAllOrNothing ScreenShowsGrid EditsAreExact TextAfterCancel
PROPERTIES RenditionIsKept
CHECK_DEADLOCK FALSE
