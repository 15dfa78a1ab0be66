CONSTANTS
  WeightVotes = 2
  WeightBookmarks = 1
  WeightComments = 1
  WeightViews = 2
  NoRow = NoRow
  Articles = {1, 2, 3}
  Counts = {0, 1}
  Days = {0, 1, 2}
  Limits = {1, 2}
  UShortMax = 3
  UIntMax = 7
  ULongMax = 31
  PrefetchMax = 2
  Default <- MCDefault
  Unset = Unset
  Garbage = Garbage
  BaseUrl <- MCBaseUrl
  Kilo = 20
  Mega = 60
  MantissaBits = 14
  MaxWhole = 12
  MaxNodes = 2
  Beyond = Beyond
  NoNode = NoNode
  Unreadable = Unreadable
  MaxText = 3
  NoPart = NoPart
  Characters = {"&", "<", ">", "quote", "apostrophe",
                "amp;", "lt;", "gt;", "quot;", "#39;", "a"}
SPECIFICATION Spec
INVARIANTS
  DigestIsTop
  SettingsAreSound
  CountIsClose
  PageIsAccounted
  MessagesAgree
  TextStaysText
CHECK_DEADLOCK FALSE
