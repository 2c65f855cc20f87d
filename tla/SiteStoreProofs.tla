---------------------------- MODULE SiteStoreProofs ----------------------------
(***************************************************************************)
(* Theorems about the tables of SiteStore, for any number of rows, names   *)
(* and slugs: from the empty database, and in any use of the interface.    *)
(*                                                                         *)
(* The inductive invariant StoreInv adds to the types what the unique      *)
(* indexes keep true: the property about links follows from the indexes    *)
(* on the slugs, the one about keys from the index on the public ids.      *)
(***************************************************************************)
EXTENDS SiteStore, SequenceTheorems, TLAPS

-----------------------------------------------------------------------------
(* Tables.                                                                 *)

(* INSERT: the new row comes last, the others stay.                        *)
LEMMA InsertedRow ==
  ASSUME NEW S, NEW t \in Seq(S), NEW row \in S
  PROVE  /\ Append(t, row) \in Seq(S)
         /\ DOMAIN t = 1..Len(t) /\ Len(t) \in Nat
         /\ DOMAIN Append(t, row) = DOMAIN t \cup {Len(t) + 1}
         /\ Len(t) + 1 \notin DOMAIN t
         /\ Append(t, row)[Len(t) + 1] = row
         /\ \A i \in DOMAIN t : Append(t, row)[i] = t[i]
<1>1. /\ Append(t, row) \in Seq(S) /\ Len(Append(t, row)) = Len(t) + 1
      /\ \A i \in 1..Len(t) : Append(t, row)[i] = t[i]
      /\ Append(t, row)[Len(t) + 1] = row
  BY AppendProperties
<1>2. /\ Len(t) \in Nat /\ DOMAIN t = 1..Len(t)
      /\ DOMAIN Append(t, row) = 1..(Len(t) + 1)
  BY <1>1, LenProperties
<1>3. 1..(Len(t) + 1) = 1..Len(t) \cup {Len(t) + 1} /\ Len(t) + 1 \notin 1..Len(t)
  BY <1>2
<1> QED BY <1>1, <1>2, <1>3

(* UPDATE: the row changes, the others stay.                               *)
LEMMA UpdatedRow ==
  ASSUME NEW S, NEW t \in Seq(S), NEW i \in DOMAIN t, NEW row \in S
  PROVE  /\ [t EXCEPT ![i] = row] \in Seq(S)
         /\ DOMAIN [t EXCEPT ![i] = row] = DOMAIN t
         /\ [t EXCEPT ![i] = row][i] = row
         /\ \A j \in DOMAIN t : j # i => [t EXCEPT ![i] = row][j] = t[j]
<1>1. DOMAIN t = 1..Len(t)
  BY LenProperties
<1>2. [t EXCEPT ![i] = row] \in Seq(S)
  BY <1>1, ExceptSeq
<1> QED BY <1>1, <1>2

(* The rows of a table are of its type, and their ids are numbers.         *)
LEMMA TableRows ==
  ASSUME NEW S, NEW t \in Seq(S), NEW i \in DOMAIN t
  PROVE  t[i] \in S /\ i \in Nat \ {0}
<1>1. DOMAIN t = 1..Len(t) /\ Len(t) \in Nat
  BY LenProperties
<1> QED BY <1>1, ElementOfSeq

-----------------------------------------------------------------------------
(* The inductive invariant.                                                *)

\* users.username is UNIQUE COLLATE NOCASE, the deleted users included.
NamesUnique == \A u, v \in Users : Fold[users[u].name] = Fold[users[v].name] => u = v

\* idx_blogs_slug_active.
ActiveSlugsUnique == \A b, d \in LiveBlogs : blogs[b].slug = blogs[d].slug => b = d

\* UNIQUE(public_id) and the unique index on (blog_id, slug).
PostsUnique ==
  \A p, q \in Posts :
    /\ posts[p].publicId = posts[q].publicId => p = q
    /\ posts[p].blog = posts[q].blog /\ posts[p].slug # NoSlug
         /\ posts[p].slug = posts[q].slug => p = q

KeysNameIds == \A p \in Posts : posts[p].key[2] = posts[p].publicId

StoreInv == StoreTypeOK /\ NamesUnique /\ ActiveSlugsUnique /\ PostsUnique /\ KeysNameIds

-----------------------------------------------------------------------------
(* What the calls do to each table.  A table either stays, or:             *)

\* No name changes.
UsersKept ==
  /\ users' \in Seq(UserRow) /\ NamesUnique'
  /\ Frozen(users, users')
  /\ \A u \in Users : users'[u].name = users[u].name

BlogsKept ==
  /\ blogs' \in Seq(BlogRow) /\ ActiveSlugsUnique'
  /\ Frozen(blogs, blogs')
  /\ \A b \in Blogs' : blogs'[b].owner \in Users

PostsKept ==
  /\ posts' \in Seq(PostRow) /\ PostsUnique' /\ KeysNameIds'
  /\ Posts \subseteq Posts'
  /\ \A p \in Posts' : posts'[p].blog \in Blogs
  /\ \A p \in ListedPosts : p \in ListedPosts'

CommentsKept ==
  /\ comments' \in Seq(CommentRow)
  /\ Frozen(comments, comments')
  /\ \A k \in Comments' : comments'[k].post \in Posts /\ comments'[k].user \in Users

LEMMA InsertedUser ==
  ASSUME StoreInv, NEW row \in UserRow, ~NameTaken(row.name), users' = Append(users, row)
  PROVE  UsersKept
<1> DEFINE new == Len(users) + 1
<1>1. /\ users' \in Seq(UserRow) /\ Users' = Users \cup {new} /\ new \notin Users
      /\ users'[new] = row /\ \A u \in Users : users'[u] = users[u]
  <2>1. users \in Seq(UserRow)
    BY DEF StoreInv, StoreTypeOK
  <2> QED BY <2>1, InsertedRow DEF Users
<1>2. \A u \in Users : Fold[users[u].name] # Fold[row.name]
  BY DEF NameTaken
<1>3. NamesUnique'
  <2> SUFFICES ASSUME NEW u \in Users', NEW v \in Users',
                      Fold[users'[u].name] = Fold[users'[v].name]
               PROVE  u = v
    BY DEF NamesUnique
  <2>1. CASE u \in Users /\ v \in Users
    BY <1>1, <2>1 DEF StoreInv, NamesUnique
  <2>2. CASE u = new \/ v = new
    BY <1>1, <1>2, <2>2
  <2> QED BY <1>1, <2>1, <2>2
<1> QED BY <1>1, <1>3 DEF UsersKept, Frozen, Users

LEMMA UpdatedUser ==
  ASSUME StoreInv, NEW u \in LiveUsers, NEW row \in UserRow, row.name = users[u].name,
         users' = [users EXCEPT ![u] = row]
  PROVE  UsersKept
<1>1. /\ users' \in Seq(UserRow) /\ Users' = Users /\ u \in Users /\ ~users[u].deleted
      /\ users'[u] = row /\ \A v \in Users : v # u => users'[v] = users[v]
  <2>1. users \in Seq(UserRow) /\ u \in DOMAIN users /\ ~users[u].deleted
    BY DEF StoreInv, StoreTypeOK, LiveUsers, Users
  <2> QED BY <2>1, UpdatedRow DEF Users
<1>2. \A v \in Users : users'[v].name = users[v].name
  BY <1>1
<1>3. NamesUnique'
  BY <1>1, <1>2 DEF StoreInv, NamesUnique
<1> QED BY <1>1, <1>2, <1>3 DEF UsersKept, Frozen, Users

LEMMA InsertedBlog ==
  ASSUME StoreInv, NEW row \in BlogRow, row.owner \in Users, ~SlugTaken(row.slug, NoRow),
         blogs' = Append(blogs, row)
  PROVE  BlogsKept
<1> DEFINE new == Len(blogs) + 1
<1>1. /\ blogs' \in Seq(BlogRow) /\ Blogs' = Blogs \cup {new} /\ new \notin Blogs
      /\ blogs'[new] = row /\ \A b \in Blogs : blogs'[b] = blogs[b]
  <2>1. blogs \in Seq(BlogRow)
    BY DEF StoreInv, StoreTypeOK
  <2> QED BY <2>1, InsertedRow DEF Blogs
<1>2. NoRow \notin Blogs
  <2>1. blogs \in Seq(BlogRow)
    BY DEF StoreInv, StoreTypeOK
  <2> QED BY <2>1, TableRows DEF Blogs, NoRow
<1>3. \A b \in LiveBlogs : blogs[b].slug # row.slug
  BY <1>2 DEF SlugTaken, LiveBlogs
<1>4. LiveBlogs' \subseteq LiveBlogs \cup {new} /\ LiveBlogs \subseteq Blogs
  BY <1>1 DEF LiveBlogs
<1>5. ActiveSlugsUnique'
  <2> SUFFICES ASSUME NEW b \in LiveBlogs', NEW d \in LiveBlogs', blogs'[b].slug = blogs'[d].slug
               PROVE  b = d
    BY DEF ActiveSlugsUnique
  <2> HIDE DEF new
  <2>1. b \in LiveBlogs \cup {new} /\ d \in LiveBlogs \cup {new}
    BY <1>4
  <2>2. /\ \A e \in LiveBlogs : blogs'[e] = blogs[e] /\ blogs[e].slug # row.slug
        /\ blogs'[new] = row
    BY <1>1, <1>3, <1>4
  <2>3. \A e, f \in LiveBlogs : blogs[e].slug = blogs[f].slug => e = f
    BY DEF StoreInv, ActiveSlugsUnique
  <2> QED BY <2>1, <2>2, <2>3
<1>6. \A b \in Blogs' : blogs'[b].owner \in Users
  BY <1>1 DEF StoreInv, StoreTypeOK
<1> QED BY <1>1, <1>5, <1>6 DEF BlogsKept, Frozen, Blogs

LEMMA UpdatedBlog ==
  ASSUME StoreInv, NEW b \in LiveBlogs, NEW row \in BlogRow, row.owner = blogs[b].owner,
         row.slug = blogs[b].slug \/ ~SlugTaken(row.slug, b),
         blogs' = [blogs EXCEPT ![b] = row]
  PROVE  BlogsKept
<1>1. /\ blogs' \in Seq(BlogRow) /\ Blogs' = Blogs /\ b \in Blogs /\ ~blogs[b].deleted
      /\ blogs'[b] = row /\ \A d \in Blogs : d # b => blogs'[d] = blogs[d]
  <2>1. blogs \in Seq(BlogRow) /\ b \in DOMAIN blogs /\ ~blogs[b].deleted
    BY DEF StoreInv, StoreTypeOK, LiveBlogs, Blogs
  <2> QED BY <2>1, UpdatedRow DEF Blogs
<1>2. LiveBlogs' \subseteq LiveBlogs /\ LiveBlogs \subseteq Blogs
  BY <1>1 DEF LiveBlogs
<1>3. \A d \in LiveBlogs : d # b => blogs[d].slug # row.slug
  BY DEF StoreInv, ActiveSlugsUnique, SlugTaken
<1>4. ActiveSlugsUnique'
  BY <1>1, <1>2, <1>3 DEF StoreInv, ActiveSlugsUnique
<1>5. \A d \in Blogs' : blogs'[d].owner \in Users
  BY <1>1 DEF StoreInv, StoreTypeOK
<1> QED BY <1>1, <1>4, <1>5 DEF BlogsKept, Frozen, Blogs

LEMMA InsertedPost ==
  ASSUME StoreInv, NEW row \in PostRow, row.blog \in Blogs, row.key[2] = row.publicId,
         Insertable(row), posts' = Append(posts, row)
  PROVE  PostsKept
<1> DEFINE new == Len(posts) + 1
<1>1. /\ posts' \in Seq(PostRow) /\ Posts' = Posts \cup {new} /\ new \notin Posts
      /\ posts'[new] = row /\ \A p \in Posts : posts'[p] = posts[p]
  <2>1. posts \in Seq(PostRow)
    BY DEF StoreInv, StoreTypeOK
  <2> QED BY <2>1, InsertedRow DEF Posts
<1>2. PostsUnique'
  <2> SUFFICES ASSUME NEW p \in Posts', NEW q \in Posts'
               PROVE  /\ posts'[p].publicId = posts'[q].publicId => p = q
                      /\ posts'[p].blog = posts'[q].blog /\ posts'[p].slug # NoSlug
                           /\ posts'[p].slug = posts'[q].slug => p = q
    BY DEF PostsUnique
  <2>1. CASE p \in Posts /\ q \in Posts
    BY <1>1, <2>1 DEF StoreInv, PostsUnique
  <2>2. CASE p = new /\ q \in Posts
    BY <1>1, <2>2 DEF Insertable
  <2>3. CASE p \in Posts /\ q = new
    BY <1>1, <2>3 DEF Insertable
  <2>4. CASE p = new /\ q = new
    BY <2>4
  <2> QED BY <1>1, <2>1, <2>2, <2>3, <2>4
<1>3. KeysNameIds'
  BY <1>1 DEF StoreInv, KeysNameIds
<1>4. \A p \in Posts' : posts'[p].blog \in Blogs
  BY <1>1 DEF StoreInv, StoreTypeOK
<1>5. \A p \in ListedPosts : p \in ListedPosts'
  BY <1>1 DEF ListedPosts
<1> QED BY <1>1, <1>2, <1>3, <1>4, <1>5 DEF PostsKept

LEMMA PostFallsDue ==
  ASSUME StoreInv, NEW p, FallDue(p)
  PROVE  PostsKept
<1> DEFINE row == [posts[p] EXCEPT !.published = "now"]
<1>1. posts \in Seq(PostRow) /\ p \in DOMAIN posts /\ posts' = [posts EXCEPT ![p] = row]
  BY DEF StoreInv, StoreTypeOK, FallDue, Posts
<1>2. posts[p] \in PostRow /\ row \in PostRow
  <2>1. posts[p] \in PostRow
    BY <1>1, TableRows
  <2> QED BY <2>1 DEF PostRow, Published
<1>3. /\ posts' \in Seq(PostRow) /\ Posts' = Posts
      /\ posts'[p] = row /\ \A q \in Posts : q # p => posts'[q] = posts[q]
  BY <1>1, <1>2, UpdatedRow DEF Posts
<1>4. \A q \in Posts :
        /\ posts'[q].blog = posts[q].blog /\ posts'[q].publicId = posts[q].publicId
        /\ posts'[q].slug = posts[q].slug /\ posts'[q].key = posts[q].key
        /\ posts'[q].listed = posts[q].listed
        /\ posts[q].published = "now" => posts'[q].published = "now"
  BY <1>2, <1>3 DEF PostRow
<1>5. PostsUnique' /\ KeysNameIds'
  BY <1>3, <1>4 DEF StoreInv, PostsUnique, KeysNameIds
<1>6. \A q \in Posts' : posts'[q].blog \in Blogs
  BY <1>3, <1>4 DEF StoreInv, StoreTypeOK
<1>7. \A q \in ListedPosts : q \in ListedPosts'
  BY <1>3, <1>4 DEF ListedPosts
<1> QED BY <1>3, <1>5, <1>6, <1>7 DEF PostsKept

LEMMA InsertedComment ==
  ASSUME StoreInv, NEW row \in CommentRow, row.post \in Posts, row.user \in Users,
         comments' = Append(comments, row)
  PROVE  CommentsKept
<1> DEFINE new == Len(comments) + 1
<1>1. /\ comments' \in Seq(CommentRow) /\ Comments' = Comments \cup {new}
      /\ comments'[new] = row /\ \A k \in Comments : comments'[k] = comments[k]
  <2>1. comments \in Seq(CommentRow)
    BY DEF StoreInv, StoreTypeOK
  <2> QED BY <2>1, InsertedRow DEF Comments
<1> QED BY <1>1 DEF StoreInv, StoreTypeOK, CommentsKept, Frozen, Comments

LEMMA UpdatedComment ==
  ASSUME StoreInv, NEW k \in LiveComments, NEW row \in CommentRow,
         row.post = comments[k].post, row.user = comments[k].user,
         comments' = [comments EXCEPT ![k] = row]
  PROVE  CommentsKept
<1>1. /\ comments' \in Seq(CommentRow) /\ Comments' = Comments /\ k \in Comments
      /\ ~comments[k].deleted
      /\ comments'[k] = row /\ \A j \in Comments : j # k => comments'[j] = comments[j]
  <2>1. comments \in Seq(CommentRow) /\ k \in DOMAIN comments /\ ~comments[k].deleted
    BY DEF StoreInv, StoreTypeOK, LiveComments, Comments
  <2> QED BY <2>1, UpdatedRow DEF Comments
<1> QED BY <1>1 DEF StoreInv, StoreTypeOK, CommentsKept, Frozen, Comments

-----------------------------------------------------------------------------
(* The steps.                                                              *)

\* What a call leaves of the four tables; the draft is of its type.
StoreKept ==
  /\ UsersKept \/ users' = users
  /\ BlogsKept \/ blogs' = blogs
  /\ PostsKept \/ posts' = posts
  /\ CommentsKept \/ comments' = comments
  /\ draft' # NoDraft => draft' \in Blogs \X BlogSlugs

LEMMA CreateUserKeeps ==
  ASSUME StoreInv, NEW n \in Names, NEW pw \in Passwords, CreateUser(n, pw)
  PROVE  StoreKept
<1> DEFINE row == [name |-> n, pass |-> pw, deleted |-> FALSE]
<1>1. row \in UserRow /\ ~NameTaken(row.name) /\ users' = Append(users, row)
  BY DEF UserRow, CreateUser
<1>2. UsersKept
  BY <1>1, InsertedUser
<1> QED BY <1>2 DEF CreateUser, StoreKept, StoreInv, StoreTypeOK

LEMMA AccountCallKeeps ==
  ASSUME StoreInv, AccountCall
  PROVE  StoreKept
<1>1. ASSUME NEW u \in Users, NEW row \in UserRow, u \in LiveUsers, row.name = users[u].name,
             users' = [users EXCEPT ![u] = row], UNCHANGED <<blogs, posts, comments, draft>>
      PROVE  StoreKept
  <2>1. UsersKept
    BY <1>1, UpdatedUser
  <2> QED BY <1>1, <2>1 DEF StoreKept, StoreInv, StoreTypeOK
<1>2. \A u \in Users : users[u] \in UserRow
  BY TableRows DEF StoreInv, StoreTypeOK, Users
<1>3. ASSUME NEW u \in Users, DeleteUser(u)
      PROVE  StoreKept
  <2>1. [users[u] EXCEPT !.deleted = TRUE] \in UserRow
    BY <1>2 DEF UserRow
  <2>2. [users[u] EXCEPT !.deleted = TRUE].name = users[u].name
    BY <1>2 DEF UserRow
  <2> QED BY <1>1, <1>3, <2>1, <2>2 DEF DeleteUser
<1>4. ASSUME NEW u \in Users, NEW pw \in Passwords, ChangeUserPassword(u, pw)
      PROVE  StoreKept
  <2>1. [users[u] EXCEPT !.pass = pw] \in UserRow
    BY <1>2 DEF UserRow
  <2>2. [users[u] EXCEPT !.pass = pw].name = users[u].name
    BY <1>2 DEF UserRow
  <2> QED BY <1>1, <1>4, <2>1, <2>2 DEF ChangeUserPassword
<1> QED BY <1>3, <1>4 DEF AccountCall

LEMMA BlogCallKeeps ==
  ASSUME StoreInv, BlogCall
  PROVE  StoreKept
<1>1. ASSUME NEW b \in Blogs, NEW owner \in Users, NEW row \in BlogRow,
             b \in GetBlogsByUserID(owner), row.owner = blogs[b].owner,
             row.slug = blogs[b].slug \/ ~SlugTaken(row.slug, b),
             blogs' = [blogs EXCEPT ![b] = row], UNCHANGED <<users, posts, comments, draft>>
      PROVE  StoreKept
  <2>1. BlogsKept
    BY <1>1, UpdatedBlog DEF GetBlogsByUserID
  <2>2. draft # NoDraft => draft \in Blogs' \X BlogSlugs
    BY <1>1 DEF StoreInv, StoreTypeOK, Blogs
  <2> QED BY <1>1, <2>1, <2>2 DEF StoreKept, StoreInv, StoreTypeOK
<1>2. \A b \in Blogs : blogs[b] \in BlogRow
  BY TableRows DEF StoreInv, StoreTypeOK, Blogs
<1>3. ASSUME NEW owner \in Users, NEW slug \in BlogSlugs, NEW v \in Visibilities,
             NEW mode \in Modes, NEW limit \in Limits \cup {NoLimit},
             CreateBlog(owner, slug, v, mode, limit)
      PROVE  StoreKept
  <2> DEFINE row == [owner |-> owner, slug |-> slug, visibility |-> v,
                     mode |-> mode, limit |-> limit, deleted |-> FALSE]
  <2>1. owner \in Nat
    BY TableRows DEF StoreInv, StoreTypeOK, Users
  <2>2. row \in BlogRow /\ row.owner = owner /\ row.slug = slug
    BY <2>1 DEF BlogRow
  <2>3. BlogsKept
    BY <1>3, <2>2, InsertedBlog DEF CreateBlog
  <2> QED BY <1>3, <2>3 DEF CreateBlog, StoreKept, StoreInv, StoreTypeOK
<1>4. ASSUME NEW b \in Blogs, NEW owner \in Users, NEW slug \in BlogSlugs, UpdateBlog(b, owner, slug)
      PROVE  StoreKept
  <2> DEFINE row == [blogs[b] EXCEPT !.slug = slug]
  <2>1. row \in BlogRow /\ row.owner = blogs[b].owner /\ row.slug = slug
    BY <1>2 DEF BlogRow
  <2> QED BY <1>1, <1>4, <2>1 DEF UpdateBlog
<1>5. ASSUME NEW b \in Blogs, NEW owner \in Users, NEW v \in Visibilities,
             UpdateBlogVisibility(b, owner, v)
      PROVE  StoreKept
  <2> DEFINE row == [blogs[b] EXCEPT !.visibility = v]
  <2>1. row \in BlogRow /\ row.owner = blogs[b].owner /\ row.slug = blogs[b].slug
    BY <1>2 DEF BlogRow
  <2> QED BY <1>1, <1>5, <2>1 DEF UpdateBlogVisibility
<1>6. ASSUME NEW b \in Blogs, NEW owner \in Users, NEW mode \in Modes,
             NEW limit \in Limits \cup {NoLimit}, UpdateBlogRegistration(b, owner, mode, limit)
      PROVE  StoreKept
  <2> DEFINE row == [blogs[b] EXCEPT !.mode = mode, !.limit = limit]
  <2>1. row \in BlogRow /\ row.owner = blogs[b].owner /\ row.slug = blogs[b].slug
    BY <1>2 DEF BlogRow
  <2> QED BY <1>1, <1>6, <2>1 DEF UpdateBlogRegistration
<1>7. ASSUME NEW b \in Blogs, NEW owner \in Users, DeleteBlog(b, owner)
      PROVE  StoreKept
  <2> DEFINE row == [blogs[b] EXCEPT !.deleted = TRUE]
  <2>1. row \in BlogRow /\ row.owner = blogs[b].owner /\ row.slug = blogs[b].slug
    BY <1>2 DEF BlogRow
  <2> QED BY <1>1, <1>7, <2>1 DEF DeleteBlog
<1> QED BY <1>3, <1>4, <1>5, <1>6, <1>7 DEF BlogCall

LEMMA CreatePostKeyKeeps ==
  ASSUME StoreInv, NEW b \in Blogs, CreatePostKey(b)
  PROVE  StoreKept
<1>1. blogs[b] \in BlogRow
  BY TableRows DEF StoreInv, StoreTypeOK, Blogs
<1>2. draft' \in Blogs \X BlogSlugs
  BY <1>1 DEF CreatePostKey, BlogRow
<1> QED BY <1>2 DEF CreatePostKey, tables, StoreKept

LEMMA CreatePostInsertKeeps ==
  ASSUME StoreInv, NEW publicId \in PublicIds, NEW slug \in PostSlugs \cup {NoSlug},
         NEW listed \in BOOLEAN, NEW published \in Published,
         CreatePostInsert(publicId, slug, listed, published)
  PROVE  StoreKept
<1> DEFINE row == NewPost(publicId, slug, listed, published)
<1>1. draft \in Blogs \X BlogSlugs
  BY DEF CreatePostInsert, StoreInv, StoreTypeOK
<1>2. draft[1] \in Blogs /\ draft[2] \in BlogSlugs
  BY <1>1
<1>3. draft[1] \in Nat
  BY <1>2, TableRows DEF StoreInv, StoreTypeOK, Blogs
<1>4. row \in PostRow /\ row.blog \in Blogs /\ row.key[2] = row.publicId
  BY <1>2, <1>3 DEF NewPost, PostRow
<1>5. PostsKept
  <2> HIDE DEF row
  <2>1. Insertable(row) /\ posts' = Append(posts, row)
    BY DEF CreatePostInsert, row
  <2> QED BY <1>4, <2>1, InsertedPost
<1> QED BY <1>5 DEF CreatePostInsert, StoreKept

LEMMA PostCallKeeps ==
  ASSUME StoreInv, PostCall
  PROVE  StoreKept
<1>1. CreatePostFails => StoreKept
  BY DEF CreatePostFails, tables, StoreKept
<1>2. ASSUME NEW p \in Posts, FallDue(p)
      PROVE  StoreKept
  <2>1. PostsKept
    BY <1>2, PostFallsDue
  <2> QED BY <1>2, <2>1 DEF FallDue, StoreKept, StoreInv, StoreTypeOK
<1> QED BY <1>1, <1>2, CreatePostKeyKeeps, CreatePostInsertKeeps DEF PostCall

LEMMA CreateCommentKeeps ==
  ASSUME StoreInv, NEW p \in Posts, NEW u, NEW text \in Texts, CreateComment(p, u, text)
  PROVE  StoreKept
<1> DEFINE row == [post |-> p, user |-> u, text |-> text, deleted |-> FALSE]
<1>1. p \in Nat /\ u \in Users /\ u \in Nat
  BY TableRows DEF CreateComment, StoreInv, StoreTypeOK, Users, Posts
<1>2. row \in CommentRow /\ row.post = p /\ row.user = u
  BY <1>1 DEF CommentRow
<1>3. CommentsKept
  BY <1>1, <1>2, InsertedComment DEF CreateComment
<1> QED BY <1>3 DEF CreateComment, StoreKept, StoreInv, StoreTypeOK

LEMMA ChangedCommentKeeps ==
  ASSUME StoreInv, NEW k, NEW u, k \in GetCommentsForUserID(u), NEW row \in CommentRow,
         row.post = comments[k].post, row.user = comments[k].user,
         comments' = [comments EXCEPT ![k] = row], UNCHANGED <<users, blogs, posts, draft>>
  PROVE  StoreKept
<1>1. CommentsKept
  BY UpdatedComment DEF GetCommentsForUserID
<1> QED BY <1>1 DEF StoreKept, StoreInv, StoreTypeOK

LEMMA DeleteCommentKeeps ==
  ASSUME StoreInv, NEW k, NEW u, DeleteComment(k, u)
  PROVE  StoreKept
<1> DEFINE row == [comments[k] EXCEPT !.deleted = TRUE]
<1>1. k \in Comments
  BY DEF DeleteComment, GetCommentsForUserID, LiveComments
<1>2. comments[k] \in CommentRow
  BY <1>1, TableRows DEF StoreInv, StoreTypeOK, Comments
<1>3. row \in CommentRow /\ row.post = comments[k].post /\ row.user = comments[k].user
  BY <1>2 DEF CommentRow
<1> QED BY <1>3, ChangedCommentKeeps DEF DeleteComment

LEMMA EditCallKeeps ==
  ASSUME StoreInv, EditCall
  PROVE  StoreKept
<1> PICK k \in Comments, u \in Users, text \in Texts : UpdateComment(k, u, text)
  BY DEF EditCall
<1> DEFINE row == [comments[k] EXCEPT !.text = text]
<1>1. comments[k] \in CommentRow
  BY TableRows DEF StoreInv, StoreTypeOK, Comments
<1>2. row \in CommentRow /\ row.post = comments[k].post /\ row.user = comments[k].user
  BY <1>1 DEF CommentRow
<1> QED BY <1>2, ChangedCommentKeeps DEF UpdateComment

(* Every call leaves the tables as StoreKept says.                         *)
LEMMA StepKeeps ==
  ASSUME StoreInv, StoreNext
  PROVE  StoreKept
<1>1. HandlerCall => StoreKept
  BY CreateUserKeeps, CreateCommentKeeps, DeleteCommentKeeps DEF HandlerCall
<1> QED BY <1>1, AccountCallKeeps, BlogCallKeeps, PostCallKeeps, EditCallKeeps DEF StoreNext

LEMMA StutterKeeps ==
  ASSUME StoreInv, UNCHANGED storeVars
  PROVE  StoreKept
BY DEF storeVars, StoreKept, StoreInv, StoreTypeOK

(* StoreKept is all the invariant needs, and soft-deleted rows stay.       *)
LEMMA KeptInv ==
  ASSUME StoreInv, StoreKept
  PROVE  StoreInv'
<1>1. Users \subseteq Users' /\ Blogs \subseteq Blogs' /\ Posts \subseteq Posts'
  BY DEF StoreKept, UsersKept, BlogsKept, PostsKept, Frozen, Users, Blogs, Posts
<1>2. users' \in Seq(UserRow) /\ NamesUnique'
  BY DEF StoreInv, StoreTypeOK, StoreKept, UsersKept, NamesUnique, Users
<1>3. blogs' \in Seq(BlogRow) /\ ActiveSlugsUnique'
  BY DEF StoreInv, StoreTypeOK, StoreKept, BlogsKept, ActiveSlugsUnique, LiveBlogs, Blogs
<1>4. posts' \in Seq(PostRow) /\ PostsUnique' /\ KeysNameIds'
  BY DEF StoreInv, StoreTypeOK, StoreKept, PostsKept, PostsUnique, KeysNameIds, Posts
<1>5. comments' \in Seq(CommentRow)
  BY DEF StoreInv, StoreTypeOK, StoreKept, CommentsKept
<1>6. \A b \in Blogs' : blogs'[b].owner \in Users'
  BY <1>1 DEF StoreInv, StoreTypeOK, StoreKept, BlogsKept, Blogs
<1>7. \A p \in Posts' : posts'[p].blog \in Blogs'
  BY <1>1 DEF StoreInv, StoreTypeOK, StoreKept, PostsKept, Posts
<1>8. \A k \in Comments' : comments'[k].post \in Posts' /\ comments'[k].user \in Users'
  BY <1>1 DEF StoreInv, StoreTypeOK, StoreKept, CommentsKept, Comments
<1>9. draft' # NoDraft => draft' \in Blogs' \X BlogSlugs
  BY <1>1 DEF StoreKept
<1> QED BY <1>2, <1>3, <1>4, <1>5, <1>6, <1>7, <1>8, <1>9 DEF StoreInv, StoreTypeOK, NoDraft

LEMMA KeptFrozen ==
  ASSUME StoreKept
  PROVE  Frozen(users, users') /\ Frozen(blogs, blogs') /\ Frozen(comments, comments')
BY DEF StoreKept, UsersKept, BlogsKept, CommentsKept, Frozen

LEMMA StoreInitInv == StoreInit => StoreInv
<1> SUFFICES ASSUME StoreInit
             PROVE  StoreInv
  OBVIOUS
<1>1. \A S : <<>> \in Seq(S) /\ DOMAIN <<>> = {}
  OBVIOUS
<1> QED BY <1>1 DEF StoreInit, StoreInv, StoreTypeOK, NamesUnique, ActiveSlugsUnique, PostsUnique,
            KeysNameIds, Users, Blogs, Posts, Comments, LiveBlogs

-----------------------------------------------------------------------------
(* The theorems.                                                           *)

(* From any database that satisfies it, the invariant holds for ever: the  *)
(* form in which modules with more steps use it.                           *)
LEMMA StoreInvFrom == StoreInv /\ [][StoreNext]_storeVars => []StoreInv
<1>1. StoreInv /\ [StoreNext]_storeVars => StoreInv'
  BY StepKeeps, StutterKeeps, KeptInv
<1> QED BY <1>1, PTL

(* The tables hold rows of their types, and the ids in a row are those of  *)
(* rows that are there: soft deletion never leaves one dangling.           *)
THEOREM StoreTypes == StoreSpec => []StoreTypeOK
<1>1. StoreInv => StoreTypeOK
  BY DEF StoreInv
<1> QED BY <1>1, StoreInitInv, StoreInvFrom, PTL DEF StoreSpec

LEMMA KeysFromInv == StoreInv => S3KeysUnique
BY DEF StoreInv, PostsUnique, KeysNameIds, S3KeysUnique

(* No two posts share a key of the object store, whatever blogs are        *)
(* renamed or made again under an old slug.                                *)
THEOREM StoreKeys == StoreSpec => []S3KeysUnique
BY KeysFromInv, StoreInitInv, StoreInvFrom, PTL DEF StoreSpec

LEMMA LinksFromInv ==
  ASSUME StoreInv
  PROVE  ListedLinksOpen
<1>1. ASSUME NEW b \in PublicBlogs
      PROVE  GetBlogBySlug(blogs[b].slug) = {b}
  <2>1. b \in LiveBlogs
    BY <1>1 DEF PublicBlogs
  <2> QED BY <2>1 DEF StoreInv, ActiveSlugsUnique, GetBlogBySlug
<1>2. ASSUME NEW b \in Blogs, NEW p \in GetPostsByBlogID(b) \cup GetLatestPublicPosts,
             NEW found, found = GetPostBySlugOrPublicID(LinkBlog(p), LinkIdent(p))
      PROVE  /\ p \in found
             /\ \A q \in found \ {p} : NamedAlike(p, q)
             /\ \A q, other \in found \ {p} : q = other
  <2>1. p \in ListedPosts /\ p \in Posts /\ posts[p].blog \in LiveBlogs
    BY <1>2 DEF GetPostsByBlogID, GetLatestPublicPosts, PublicBlogs, ListedPosts
  <2>2. \A q \in Posts : posts[q].slug \in PostSlugs \cup {NoSlug} /\ posts[q].publicId \in PublicIds
    <3>1. \A q \in Posts : posts[q] \in PostRow
      BY TableRows DEF StoreInv, StoreTypeOK, Posts
    <3> QED BY <3>1 DEF PostRow
  <2>3. LinkIdent(p) \in {posts[p].slug, posts[p].publicId} /\ LinkIdent(p) # NoSlug
    BY <2>1, <2>2, NoSlugAssumption DEF LinkIdent
  <2>4. p \in found
    BY <1>2, <2>1, <2>3 DEF GetPostBySlugOrPublicID, LinkBlog
  <2>5. ASSUME NEW q \in found
        PROVE  /\ q \in Posts /\ posts[q].blog = posts[p].blog
               /\ LinkIdent(p) \in {posts[q].slug, posts[q].publicId}
    <3>1. /\ q \in Posts /\ posts[q].blog \in LiveBlogs
          /\ blogs[posts[q].blog].slug = blogs[posts[p].blog].slug
          /\ LinkIdent(p) \in {posts[q].slug, posts[q].publicId}
      BY <1>2, <2>5 DEF GetPostBySlugOrPublicID, ListedPosts, LinkBlog
    <3> QED BY <2>1, <3>1 DEF StoreInv, ActiveSlugsUnique
  <2>6. ASSUME NEW q \in found \ {p}
        PROVE  /\ posts[p].slug = NoSlug =>
                    LinkIdent(p) = posts[p].publicId /\ posts[q].slug = posts[p].publicId
               /\ posts[p].slug # NoSlug =>
                    LinkIdent(p) = posts[p].slug /\ posts[q].publicId = posts[p].slug
    <3>1. q \in Posts /\ posts[q].blog = posts[p].blog /\ q # p
          /\ LinkIdent(p) \in {posts[q].slug, posts[q].publicId}
      BY <2>5, <2>6
    <3>2. posts[q].publicId # posts[p].publicId
      BY <2>1, <3>1 DEF StoreInv, PostsUnique
    <3>3. posts[p].slug # NoSlug => posts[q].slug # posts[p].slug
      BY <2>1, <3>1 DEF StoreInv, PostsUnique
    <3> QED BY <3>1, <3>2, <3>3 DEF LinkIdent
  <2>7. \A q \in found \ {p} : NamedAlike(p, q)
    BY <2>5, <2>6 DEF NamedAlike
  <2>8. ASSUME NEW q \in found \ {p}, NEW other \in found \ {p}
        PROVE  q = other
    <3>1. /\ q \in Posts /\ other \in Posts
          /\ posts[q].blog = posts[p].blog /\ posts[other].blog = posts[p].blog
      BY <2>5, <2>8
    <3>2. CASE posts[p].slug = NoSlug
      <4>1. posts[q].slug = posts[other].slug /\ posts[q].slug # NoSlug
        BY <2>1, <2>2, <2>6, <2>8, <3>2, NoSlugAssumption
      <4> QED BY <3>1, <4>1 DEF StoreInv, PostsUnique
    <3>3. CASE posts[p].slug # NoSlug
      <4>1. posts[q].publicId = posts[other].publicId
        BY <2>6, <2>8, <3>3
      <4> QED BY <3>1, <4>1 DEF StoreInv, PostsUnique
    <3> QED BY <3>2, <3>3
  <2> QED BY <2>4, <2>7, <2>8
<1> QED BY <1>1, <1>2 DEF ListedLinksOpen

(* The address behind a listed post finds that post, and a public blog's   *)
(* address that blog alone: two live blogs never answer to one address,    *)
(* a deleted blog never to that of its successor, and of the posts of one  *)
(* blog a second one only when its id is the slug of the first, or the     *)
(* other way round.                                                        *)
THEOREM StoreLinks == StoreSpec => []ListedLinksOpen
BY LinksFromInv, StoreInitInv, StoreInvFrom, PTL DEF StoreSpec

(* No call changes a soft-deleted row, and no row goes away.               *)
THEOREM StoreFrozen == StoreSpec => FrozenRows
<1>1. StoreInv /\ [StoreNext]_storeVars =>
        [Frozen(users, users') /\ Frozen(blogs, blogs') /\ Frozen(comments, comments')]_storeVars
  BY StepKeeps, KeptFrozen
<1> QED BY <1>1, StoreInitInv, StoreInvFrom, PTL DEF StoreSpec, FrozenRows
================================================================================
