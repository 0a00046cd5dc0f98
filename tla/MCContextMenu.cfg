\* Two handlers in one window and one in another, three menus.
CONSTANTS
  h1 = h1
  h2 = h2
  h3 = h3
  w1 = w1
  w2 = w2
  report = report
  makefile = makefile
  Handlers = {h1, h2, h3}
  WindowOf <- MCWindowOf
  Paths = {report, makefile}
  PatternsOf <- MCPatternsOf
  Selections <- MCSelections
  Statuses <- MCStatuses
  FirstIds = {1, 40}
  MaxMenus = 2
  MaxClicks = 2
SPECIFICATION Spec
INVARIANTS ShownRunsItself VerbRunsItsItem OnePopup ClickDoesWhatItSays
\* No menu open, and no more to be built.
CHECK_DEADLOCK FALSE
