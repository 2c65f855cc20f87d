------------------------------ MODULE SiteStore ------------------------------
(***************************************************************************)
(* The tables of internal/storage/sqlite and the calls of storage.Store on *)
(* them.  A table is the sequence of its rows; the ids are AUTOINCREMENT,  *)
(* a delete only sets deleted_at, so a row keeps its place for ever.  The  *)
(* pool has one connection: a call is one statement and one step, except   *)
(* CreatePost, which reads the blog's slug and inserts in two.             *)
(*                                                                         *)
(* A query is an operator that gives the set of the ids of its rows; with  *)
(* LIMIT 1 or GetContext the caller gets any one of them, or ErrNoRows.  A *)
(* call that is refused or fails changes no table.                         *)
(*                                                                         *)
(* Titles, descriptions, encryption, authors of posts and time stamps are  *)
(* left out, and of published_at is kept how it compares to                *)
(* CURRENT_TIMESTAMP.  Nothing sets the deleted_at of a post: the posts    *)
(* have none here.                                                         *)
(*                                                                         *)
(* A definition whose name has a suffix _Mutant... is a plausible slip.    *)
(***************************************************************************)
EXTENDS Naturals, Sequences

CONSTANTS
  Names, Fold, BadNames,  \* user names, what COLLATE NOCASE makes of them, and
                          \* those outside the CHECK of 3 to 50 characters
  AdminName,              \* "admin"
  Passwords,              \* the password hashes
  BlogSlugs, PostSlugs,   \* the slugs validSlug accepts
  PublicIds,              \* the public ids of the posts; one may be a slug too,
                          \* since CreatePost takes the ids it is given
  NoSlug,                 \* the NULL slug
  Modes, Limits, NoLimit, MaxLimit,  \* registration modes and limits
  Texts,                  \* the contents of comments
  MaxRows                 \* bound of the model: rows in each table

ASSUME FoldAssumption == Fold \in [Names -> Names]
ASSUME NamesAssumption == AdminName \in Names \ BadNames
ASSUME NoSlugAssumption == NoSlug \notin PostSlugs \cup PublicIds
ASSUME NoLimitAssumption == Limits \subseteq Nat /\ NoLimit \notin Nat /\ MaxLimit \in Nat

VARIABLES users, blogs, posts, comments,
          draft    \* the CreatePost between its SELECT and its INSERT

tables == <<users, blogs, posts, comments>>
storeVars == <<users, blogs, posts, comments, draft>>

NoRow == 0     \* no id: AUTOINCREMENT starts at 1

Visibilities == {"public", "private"}
Published == {"never", "later", "now"}   \* NULL, in the future, in the past

UserRow == [name : Names, pass : Passwords, deleted : BOOLEAN]
BlogRow == [owner : Nat, slug : BlogSlugs, visibility : Visibilities,
            mode : Modes, limit : Limits \cup {NoLimit}, deleted : BOOLEAN]
PostRow == [blog : Nat, publicId : PublicIds,
            slug : PostSlugs \cup {NoSlug}, key : BlogSlugs \X PublicIds,
            listed : BOOLEAN, published : Published]
CommentRow == [post : Nat, user : Nat, text : Texts, deleted : BOOLEAN]

Users == DOMAIN users
Blogs == DOMAIN blogs
Posts == DOMAIN posts
Comments == DOMAIN comments
NoDraft == <<>>

StoreInit ==
  /\ users = <<>> /\ blogs = <<>> /\ posts = <<>> /\ comments = <<>>
  /\ draft = NoDraft

-----------------------------------------------------------------------------
(* users.go.                                                               *)

\* Slip: a UNIQUE index on the names of the users that are not deleted.
NameTaken_MutantActive(n) ==
  \E u \in Users : Fold[users[u].name] = Fold[n] /\ ~users[u].deleted

\* UNIQUE COLLATE NOCASE over all the rows, the deleted ones too.
NameTaken(n) == \E u \in Users : Fold[users[u].name] = Fold[n]

CreateUser(n, pw) ==
  /\ ~NameTaken(n) /\ n \notin BadNames
  /\ Len(users) < MaxRows
  /\ users' = Append(users, [name |-> n, pass |-> pw, deleted |-> FALSE])
  /\ UNCHANGED <<blogs, posts, comments, draft>>

\* What GetUserByID finds.
LiveUsers == {u \in Users : ~users[u].deleted}

GetUserByUsername(n) == {u \in LiveUsers : Fold[users[u].name] = Fold[n]}

ChangeUserPassword(u, pw) ==
  /\ u \in LiveUsers
  /\ users' = [users EXCEPT ![u].pass = pw]
  /\ UNCHANGED <<blogs, posts, comments, draft>>

DeleteUser(u) ==
  /\ u \in LiveUsers
  /\ users' = [users EXCEPT ![u].deleted = TRUE]
  /\ UNCHANGED <<blogs, posts, comments, draft>>

-----------------------------------------------------------------------------
(* blogs.go.                                                               *)

\* What GetBlogByID finds.
LiveBlogs == {b \in Blogs : ~blogs[b].deleted}

\* Slip: no limit is asked for.
ValidRegistration_MutantNoLimit(mode, limit) ==
  mode = "limited" => (limit # NoLimit => limit <= MaxLimit)

\* validateBlogRegistration.
ValidRegistration(mode, limit) ==
  IF mode = "limited" THEN limit \in 1..MaxLimit ELSE limit = NoLimit

\* The CHECK of the table on the same two columns.
RegistrationCheck(mode, limit) ==
  \/ mode = "limited" /\ limit # NoLimit /\ limit > 0
  \/ mode # "limited" /\ limit = NoLimit

\* The partial unique index: another blog that is not deleted has the slug.
SlugTaken(slug, b) == \E other \in LiveBlogs \ {b} : blogs[other].slug = slug

\* Slip: no index.
CreateBlog_MutantNoIndex(owner, slug, visibility, mode, limit) ==
  /\ ValidRegistration(mode, limit)
  /\ owner \in Users
  /\ Len(blogs) < MaxRows
  /\ blogs' = Append(blogs, [owner |-> owner, slug |-> slug, visibility |-> visibility,
                             mode |-> mode, limit |-> limit, deleted |-> FALSE])
  /\ UNCHANGED <<users, posts, comments, draft>>

\* The owner is a foreign key: a deleted user's row is still there.
CreateBlog(owner, slug, visibility, mode, limit) ==
  /\ ValidRegistration(mode, limit)
  /\ RegistrationCheck(mode, limit)
  /\ owner \in Users
  /\ ~SlugTaken(slug, NoRow)
  /\ Len(blogs) < MaxRows
  /\ blogs' = Append(blogs, [owner |-> owner, slug |-> slug, visibility |-> visibility,
                             mode |-> mode, limit |-> limit, deleted |-> FALSE])
  /\ UNCHANGED <<users, posts, comments, draft>>

PublicBlogs == {b \in LiveBlogs : blogs[b].visibility = "public"}

GetBlogBySlug(slug) == {b \in LiveBlogs : blogs[b].slug = slug}

\* What the updates ask for: WHERE id = ? AND owner_id = ? AND deleted_at IS
\* NULL takes one of these or none.
GetBlogsByUserID(owner) == {b \in LiveBlogs : blogs[b].owner = owner}

\* Slip: the update finds a deleted blog too.
UpdateBlog_MutantDeleted(b, owner, slug) ==
  /\ b \in Blogs /\ blogs[b].owner = owner
  /\ ~SlugTaken(slug, b)
  /\ blogs' = [blogs EXCEPT ![b].slug = slug]
  /\ UNCHANGED <<users, posts, comments, draft>>

UpdateBlog(b, owner, slug) ==
  /\ b \in GetBlogsByUserID(owner)
  /\ ~SlugTaken(slug, b)
  /\ blogs' = [blogs EXCEPT ![b].slug = slug]
  /\ UNCHANGED <<users, posts, comments, draft>>

UpdateBlogVisibility(b, owner, visibility) ==
  /\ b \in GetBlogsByUserID(owner)
  /\ blogs' = [blogs EXCEPT ![b].visibility = visibility]
  /\ UNCHANGED <<users, posts, comments, draft>>

UpdateBlogRegistration(b, owner, mode, limit) ==
  /\ ValidRegistration(mode, limit)
  /\ RegistrationCheck(mode, limit)
  /\ b \in GetBlogsByUserID(owner)
  /\ blogs' = [blogs EXCEPT ![b].mode = mode, ![b].limit = limit]
  /\ UNCHANGED <<users, posts, comments, draft>>

DeleteBlog(b, owner) ==
  /\ b \in GetBlogsByUserID(owner)
  /\ blogs' = [blogs EXCEPT ![b].deleted = TRUE]
  /\ UNCHANGED <<users, posts, comments, draft>>

-----------------------------------------------------------------------------
(* posts.go.                                                               *)

\* genPostS3Key: the key begins with the slug the blog has at this moment.
\* What else the caller of CreatePost asked for is chosen at the INSERT.
CreatePostKey(b) ==
  /\ draft = NoDraft
  /\ b \in LiveBlogs
  /\ draft' = <<b, blogs[b].slug>>
  /\ UNCHANGED tables

\* Slip: the public id is unique within a blog.
Insertable_MutantPerBlog(p) ==
  \A q \in Posts : posts[q].blog = p.blog =>
     posts[q].publicId # p.publicId /\ (p.slug # NoSlug => posts[q].slug # p.slug)

\* UNIQUE(public_id), and the unique index on (blog_id, slug), where NULLs
\* differ.
Insertable(p) ==
  /\ \A q \in Posts : posts[q].publicId # p.publicId
  /\ p.slug # NoSlug =>
       \A q \in Posts : posts[q].blog = p.blog => posts[q].slug # p.slug

NewPost(publicId, slug, listed, published) ==
  [blog |-> draft[1], publicId |-> publicId, slug |-> slug,
   key |-> <<draft[2], publicId>>, listed |-> listed, published |-> published]

\* CreatePost's INSERT; a deleted blog's row still is a foreign key.
CreatePostInsert(publicId, slug, listed, published) ==
  /\ draft # NoDraft
  /\ Insertable(NewPost(publicId, slug, listed, published))
  /\ Len(posts) < MaxRows
  /\ posts' = Append(posts, NewPost(publicId, slug, listed, published))
  /\ draft' = NoDraft
  /\ UNCHANGED <<users, blogs, comments>>

\* CreatePost ends without a post.
CreatePostFails ==
  /\ draft # NoDraft
  /\ draft' = NoDraft
  /\ UNCHANGED tables

\* published_at comes to pass.
FallDue(p) ==
  /\ p \in Posts /\ posts[p].published = "later"
  /\ posts' = [posts EXCEPT ![p].published = "now"]
  /\ UNCHANGED <<users, blogs, comments, draft>>

\* The conditions on the post that the three queries share.
ListedPosts == {p \in Posts : posts[p].listed /\ posts[p].published = "now"}

GetLatestPublicPosts == {p \in ListedPosts : posts[p].blog \in PublicBlogs}

GetPostsByBlogID(b) == {p \in ListedPosts : posts[p].blog = b /\ b \in LiveBlogs}

\* Slip: the query for one post does not ask whether it is published.
GetPostBySlugOrPublicID_MutantUnpublished(blogSlug, ident) ==
  {p \in Posts :
     /\ posts[p].blog \in LiveBlogs /\ blogs[posts[p].blog].slug = blogSlug
     /\ ident \in {posts[p].slug, posts[p].publicId}}

GetPostBySlugOrPublicID(blogSlug, ident) ==
  {p \in ListedPosts :
     /\ posts[p].blog \in LiveBlogs /\ blogs[posts[p].blog].slug = blogSlug
     /\ ident \in {posts[p].slug, posts[p].publicId}}

-----------------------------------------------------------------------------
(* comments.go.                                                            *)

\* What GetCommentByID finds.
LiveComments == {k \in Comments : ~comments[k].deleted}

GetCommentsForPost(p) == {k \in LiveComments : comments[k].post = p}

GetCommentsForUserID(u) == {k \in LiveComments : comments[k].user = u}

\* author_name: the join takes the deleted users too.
AuthorName(k) == users[comments[k].user].name

\* post_id is no foreign key.
CreateComment(p, u, text) ==
  /\ u \in Users
  /\ Len(comments) < MaxRows
  /\ comments' = Append(comments, [post |-> p, user |-> u, text |-> text, deleted |-> FALSE])
  /\ UNCHANGED <<users, blogs, posts, draft>>

UpdateComment(k, u, text) ==
  /\ k \in GetCommentsForUserID(u)
  /\ comments' = [comments EXCEPT ![k].text = text]
  /\ UNCHANGED <<users, blogs, posts, draft>>

DeleteComment(k, u) ==
  /\ k \in GetCommentsForUserID(u)
  /\ comments' = [comments EXCEPT ![k].deleted = TRUE]
  /\ UNCHANGED <<users, blogs, posts, draft>>

-----------------------------------------------------------------------------
(* The calls of any user of the interface.                                 *)

AccountCall ==
  \E u \in Users : DeleteUser(u) \/ \E pw \in Passwords : ChangeUserPassword(u, pw)

BlogCall ==
  \/ \E owner \in Users, slug \in BlogSlugs, v \in Visibilities,
        mode \in Modes, limit \in Limits \cup {NoLimit} :
       CreateBlog(owner, slug, v, mode, limit)
  \/ \E b \in Blogs, owner \in Users :
       \/ \E slug \in BlogSlugs : UpdateBlog(b, owner, slug)
       \/ \E v \in Visibilities : UpdateBlogVisibility(b, owner, v)
       \/ \E mode \in Modes, limit \in Limits \cup {NoLimit} :
            UpdateBlogRegistration(b, owner, mode, limit)
       \/ DeleteBlog(b, owner)

PostCall ==
  \/ \E b \in Blogs : CreatePostKey(b)
  \/ \E publicId \in PublicIds, slug \in PostSlugs \cup {NoSlug},
        listed \in BOOLEAN, published \in Published :
       CreatePostInsert(publicId, slug, listed, published)
  \/ CreatePostFails
  \/ \E p \in Posts : FallDue(p)

EditCall == \E k \in Comments, u \in Users, text \in Texts : UpdateComment(k, u, text)

\* The calls the handlers make too.
HandlerCall ==
  \/ \E n \in Names, pw \in Passwords : CreateUser(n, pw)
  \/ \E p \in Posts, u \in Users, text \in Texts : CreateComment(p, u, text)
  \/ \E k \in Comments, u \in Users : DeleteComment(k, u)

StoreNext == AccountCall \/ BlogCall \/ PostCall \/ EditCall \/ HandlerCall

StoreSpec == StoreInit /\ [][StoreNext]_storeVars

-----------------------------------------------------------------------------
(* Properties.                                                             *)

\* Types, and rows that refer to rows.
StoreTypeOK ==
  /\ users \in Seq(UserRow) /\ blogs \in Seq(BlogRow)
  /\ posts \in Seq(PostRow) /\ comments \in Seq(CommentRow)
  /\ \A b \in Blogs : blogs[b].owner \in Users
  /\ \A p \in Posts : posts[p].blog \in Blogs
  /\ \A k \in Comments : comments[k].post \in Posts /\ comments[k].user \in Users
  /\ draft # NoDraft => draft \in Blogs \X BlogSlugs

(* derefString(p.Slug, p.PublicID): the address the templates link to.     *)
LinkIdent(p) == IF posts[p].slug = NoSlug THEN posts[p].publicId ELSE posts[p].slug
LinkBlog(p) == blogs[posts[p].blog].slug

(* What a listing shows can be opened: the address behind a post of the    *)
(* home page or of a blog's page finds that post, and with it at most one  *)
(* other, of the same blog, whose public id is the slug of the first, or   *)
(* the other way round; and the address of a public blog finds that blog   *)
(* alone: whatever blogs were deleted, renamed or made again under the     *)
(* same slug.                                                              *)
NamedAlike(p, q) ==
  /\ posts[p].blog = posts[q].blog
  /\ posts[p].slug = posts[q].publicId \/ posts[p].publicId = posts[q].slug

ListedLinksOpen ==
  /\ \A b \in Blogs : \A p \in GetPostsByBlogID(b) \cup GetLatestPublicPosts :
       LET found == GetPostBySlugOrPublicID(LinkBlog(p), LinkIdent(p)) IN
       /\ p \in found
       /\ \A q \in found \ {p} : NamedAlike(p, q)
       /\ \A q, other \in found \ {p} : q = other
  /\ \A b \in PublicBlogs : GetBlogBySlug(blogs[b].slug) = {b}

(* No two posts have their text under the same key of the object store,    *)
(* although the key holds the slug the blog had when the post was made,    *)
(* and another blog may have that slug now.                                *)
S3KeysUnique == \A p, q \in Posts : posts[p].key = posts[q].key => p = q

(* A soft-deleted row is never changed again, and no row goes away.        *)
Frozen(old, new) ==
  /\ DOMAIN old \subseteq DOMAIN new
  /\ \A i \in DOMAIN old : old[i].deleted => new[i] = old[i]
FrozenRows ==
  [][Frozen(users, users') /\ Frozen(blogs, blogs') /\ Frozen(comments, comments')]_storeVars

=============================================================================
