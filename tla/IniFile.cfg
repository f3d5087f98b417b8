SPECIFICATION Spec
CONSTANTS
  Structures <- MCStructures
  Groups = {"G", "H"}
  Items = {"size", "name"}
  NoGroup = ""
  Values = {"0", "2", " 2"}
  Trim <- MCTrim
  Zero = "0"
  Garbage = "x"
  Nothing = Nothing
  Stars = Stars
  MaxEdits = 1
INVARIANTS TypeOK RoundTrip ForeignKept PrintsTheStructure TornIsNew
