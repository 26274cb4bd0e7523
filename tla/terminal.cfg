SPECIFICATION Spec
CONSTANTS
  Width = 12
  Height = 8
  FontWidth = 2
  FontHeight = 2
  U16 = 64
  Task = {"a", "b"}
  Plans <- Programs
  Keys = {"k"}
  LineLength = 2
  MaxStopped = 1
  Handler = "handler"
INVARIANTS InputLineShown GlyphsStayAligned UndisturbedCallShows
