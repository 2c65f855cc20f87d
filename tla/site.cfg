SPECIFICATION SiteSpec
CONSTANTS
  admin = admin
  ada = ada
  bob = bob
  ADMIN = ADMIN
  s1 = s1
  s2 = s2
  t1 = t1
  i1 = i1
  i2 = i2
  longname = longname
  h1 = h1
  text1 = text1
  Names = {admin, ADMIN, ada, bob, longname}
  Fold <- MCFold
  BadNames = {longname}
  AdminName = admin
  NoName = NoName
  Passwords = {h1}
  DefaultPassword = h1
  BlogSlugs = {s1, s2}
  BadSlug = BadSlug
  PostSlugs = {t1}
  PublicIds = {i1, i2, t1}
  NoSlug = NoSlug
  Modes = {"open", "limited"}
  Limits = {0, 1}
  NoLimit = NoLimit
  MaxLimit = 1
  Texts = {text1}
  MaxRows = 3
  Clients = {c1, c2}
  InitialTables <- MCInitial
  MaxWrites = 3
SYMMETRY Symmetry
INVARIANTS
  TypeOK
  ListedLinksOpen
  S3KeysUnique
  ShownDeleteIsOwn
  CommentsOnListedPosts
  ValidatorCoversCheck
  OnlyDeletedAdminStopsStart
PROPERTIES
  FrozenRows
