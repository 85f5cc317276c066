SPECIFICATION Spec
CONSTANTS
  Keys = {k1}
  Sizes = {1}
  Capacity = 5
  EntrySizeLimit = 3
  None = None
  Texts = {"", "a", "b", "c", "m", "src", "t1", "t2", "index", "own"}
  Empty = ""
  IndexUrl = "index"
  MainUrls = {"index", "own"}
  Torrents <- MCTorrents
  MaxTrips = 1
  Catalog <- MCCatalog
  Categories = {"c1", "c2"}
  Tags = {"x", "y"}
  Requests <- MCRequests
  DefaultPageSize = 2
  MaxPageSize = 3
  Unset = Unset
  U32 = 8
  MaxPages = 5
  Nothing = Nothing
  Lost = Lost
  NotUtf8 = NotUtf8
  Forms <- MCForms
  TagLists <- MCTagLists
  TorrentsOf <- MCTorrentsOf
  KnownCategories <- MCKnownCategories
  KnownTags = {1, 2}
  MIN_TORRENT_TITLE_LENGTH = 3
  MaxShelf = 1
  NotSet = NotSet
  Garbage = Garbage
  Documents <- MCDocuments
  Overrides = {"env token", "env key"}
  Paths = {"index.toml", "default.toml"}
  DefaultPath = "default.toml"
  UserIds = {u1, u2}
  MaxRuns = 1
INVARIANT StandardTorrentsKeepTheirHash
CHECK_DEADLOCK FALSE
