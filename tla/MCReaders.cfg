CONSTANT MaxTokens <- MCMaxTokens
SPECIFICATION Spec
INVARIANTS IntegersAsMeant CellsAsMeant RowsAsMeant SumsRates ReportsEnded AxisFits
CHECK_DEADLOCK FALSE
