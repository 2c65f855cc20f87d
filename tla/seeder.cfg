SPECIFICATION Spec
CONSTANTS
  b1 = b1
  b2 = b2
  d1 = d1
  d2 = d2
  d3 = d3
  Blogs = {b1, b2}
  Docs = {d1, d2, d3}
  Ids = {n1, n2, n3}
  BlogOf <- MCBlogOf
  Slug <- MCSlug
  None = None
SYMMETRY Symmetry
INVARIANTS
  TypeOK
  OneRowPerPost
  DirectoryNamesRow
  ObjectsHaveRows
  BlogsAtHome
  CleanRunSeeds
