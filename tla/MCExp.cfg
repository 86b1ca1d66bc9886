CONSTANTS
  Files <- MCFiles
  IterName = "exp"
  HasText <- MCHasText
  Begins <- MCBegins
  Selections <- MCSelections
  RowLists <- MCRowLists
  ColLists <- MCColLists
  Averages <- MCAverages
  NewCols <- MCNewCols
  Plots <- MCPlots
  WithParens <- MCWithParens
  MaxCommands = 4
SPECIFICATION Spec
INVARIANT RowsFound
PROPERTIES ImplementsTable PlotPairs
CHECK_DEADLOCK FALSE
