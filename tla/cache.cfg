SPECIFICATION CacheSpec
CONSTANTS
  Threads = {t1, t2, t3}
  NoThread = NoThread
  p1 = p1
  p2 = p2
  Paths = {p1, p2}
  RawPaths <- MCRawPaths
  Clean <- MCClean
  NoPath = NoPath
  PostImages <- MCPostImages
  NoContent = NoContent
INVARIANTS
  TypeOK
  MapsAgree
  ReadersSeeWholeEntries
  ReturnedIdResolves
  CacheTypeOK
  LoadedOnce
  CachedPageResolves
PROPERTIES
  CallsReturn
  CachedStays
  CacheCallsReturn
