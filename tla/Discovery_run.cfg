SPECIFICATION Spec
CONSTANTS
  Pages = {"p.dk", "p.com"}
  Relative = "relative"
  Countries = {"DE", "GB", "NO", "DK"}
  NoCountry = ""
  HostCountry <- MCHostCountry
  Allowed = {"DE", "GB", "DK"}
  Excluded = {"GB"}
  Feeds <- MCFeeds
  Keys = {"brave", "tavily", "groq", "hf", "gemini"}
  MinResults = 2
  NeedFloor = 1
  FetchLimit = 2
  Known <- MCKnown
  MaxCards = 2
  MaxHits = 2
INVARIANTS InsertsAreDistinct KeptIsFound SameYardstick
PROPERTY PaidOnlyWhenThin
CHECK_DEADLOCK FALSE
