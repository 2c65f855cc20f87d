-------------------------------- MODULE Seeder --------------------------------
(***************************************************************************)
(* internal/seeder/seeder.go: at every start of the program the files      *)
(* under the sources directory are brought into the database and the       *)
(* object store.  A run first seeds the blogs, from their manifests, then  *)
(* the posts: a loose markdown file in a blog's directory gets a database  *)
(* row, a directory named by the row's public id, and an object with its   *)
(* text; a post that lies in such a directory already keeps the directory's*)
(* name as its id.  The three stores are changed one after the other with  *)
(* no transaction around them, every step may fail, a failure is logged    *)
(* and the next file taken, and the process may stop between any two steps *)
(* and seed again at its next start.                                       *)
(*                                                                         *)
(* A post is known by its file (Docs).  A manifest is "home" in the        *)
(* directory of its blog's slug and "away" in the sources directory; a     *)
(* directory with another name than its blog's slug is left out.  So is a  *)
(* post directory with no file in it, which the code passes over.  A       *)
(* definition whose name has a suffix _Mutant... is a plausible slip; no   *)
(* action uses it.                                                         *)
(***************************************************************************)
EXTENDS FiniteSets

CONSTANTS
  Blogs,      \* blogs, each with one manifest and the directory of its slug
  Docs,       \* the markdown files of posts
  BlogOf,     \* the blog directory a file lies in
  Slug,       \* the slug of a file, given or derived from its title
  Ids,        \* public ids, the names of post directories
  None        \* no blog, file or id

ASSUME BlogOfAssumption == BlogOf \in [Docs -> Blogs]
ASSUME NoneAssumption == None \notin Blogs \cup Docs \cup Ids
ASSUME IdsAssumption == Ids \cap {"none", "loose"} = {}
ASSUME FilesAssumption == Blogs \cap Docs = {}

VARIABLES
  manifest,   \* files: where each blog's manifest is
  file,       \* files: each post's place, "loose" or the id of its directory
  owners,     \* database: the blogs whose manifest names a registered user
  blogRows,   \* database: the blogs
  rows,       \* database: the posts, by id and file
  objects,    \* object store: the texts, by id and file
  loop,       \* the loop the run is in, "off" when the process is not up
  step,       \* "next" between two files, else the step of the current one
  todo,       \* blogs or posts the current loop has still to take
  processed,  \* blogs the first loop of SeedBlogs has seeded
  dirs,       \* blog directories SeedPosts has still to take
  cur,        \* the blog and the post being seeded, and the id of that post
  existing,   \* ids in the database when SeedPosts began
  clean,      \* history: no step of this run has failed
  due,        \* history: the blogs and posts this run is to seed
  skipped     \* history: ids this run has skipped as existing

fileVars == <<manifest, file>>
dbVars == <<owners, blogRows, rows>>
loopVars == <<todo, processed, dirs, existing>>
histVars == <<due, skipped>>
pcVars == <<loop, step, clean>>
vars == <<fileVars, dbVars, objects, pcVars, loopVars, cur, histVars>>

Nothing == [blog |-> None, doc |-> None, id |-> None]
Taken == {r.id : r \in rows} \cup {file[d] : d \in Docs}
BlogLoops == {"away", "home"}
PostLoops == {"loose", "structured"}

Init ==
  /\ manifest = [b \in Blogs |-> "none"]
  /\ file = [d \in Docs |-> "none"]
  /\ owners = {} /\ blogRows = {} /\ rows = {} /\ objects = {}
  /\ loop = "off" /\ step = "next"
  /\ todo = {} /\ processed = {} /\ dirs = {} /\ existing = {}
  /\ cur = Nothing
  /\ clean = TRUE /\ due = {} /\ skipped = {}

At(l, s) == loop = l /\ step = s

Go(s) == step' = s /\ UNCHANGED <<loop, clean>>

GoTo(l) == loop' = l /\ step' = "next" /\ UNCHANGED clean

\* A step fails: the error is logged and the current loop takes the next file.
Fail == step' = "next" /\ clean' = FALSE /\ UNCHANGED loop

\* A listing fails: what is left of the loop is given up for l.
GiveUp(l) == loop' = l /\ step' = "next" /\ clean' = FALSE

Leave == cur' = [cur EXCEPT !.doc = None, !.id = None]

-----------------------------------------------------------------------------
(* SeedBlogs: first the manifests away from home, then those at home whose *)
(* blog the first loop has not seeded.                                     *)

SeedBlogs ==
  /\ loop = "off"
  /\ \/ loop' = "away" /\ clean' = TRUE
     \/ loop' = "done" /\ clean' = FALSE
  /\ todo' = {b \in Blogs : manifest[b] = "away" /\ loop' = "away"}
  /\ due' = {b \in owners : manifest[b] # "none"}
  /\ UNCHANGED <<fileVars, dbVars, objects, step, processed, dirs, existing, cur, skipped>>

\* Slip: the second loop leaves out every blog the first loop tried.
SeedHomeBlogs_MutantNoRetry ==
  /\ At("away", "next") /\ todo = {}
  /\ todo' = {b \in Blogs : manifest[b] = "home" /\ b \in blogRows}
  /\ GoTo("home")
  /\ UNCHANGED <<fileVars, dbVars, objects, processed, dirs, existing, cur, histVars>>

SeedHomeBlogs ==
  /\ At("away", "next") /\ todo = {}
  /\ \/ /\ todo' = {b \in Blogs : manifest[b] = "home"} \ processed
        /\ GoTo("home")
     \/ GiveUp("done") /\ UNCHANGED todo
  /\ UNCHANGED <<fileVars, dbVars, objects, processed, dirs, existing, cur, histVars>>

\* seedBlog up to GetBlogBySlug: a blog without an owner is refused.
SeedBlog(b) ==
  /\ loop \in BlogLoops /\ step = "next" /\ b \in todo
  /\ todo' = todo \ {b}
  /\ \/ /\ b \in owners
        /\ cur' = [cur EXCEPT !.blog = b]
        /\ Go(IF b \in blogRows THEN "update" ELSE "move")
     \/ b \notin owners /\ Go("next") /\ UNCHANGED cur
     \/ Fail /\ UNCHANGED cur
  /\ UNCHANGED <<fileVars, dbVars, objects, processed, dirs, existing, histVars>>

\* Only the first loop remembers what it has seeded.
BlogSeeded ==
  /\ Go("next")
  /\ cur' = Nothing
  /\ processed' = IF loop = "away" THEN processed \cup {cur.blog} ELSE processed

BlogFailed == Fail /\ cur' = Nothing /\ UNCHANGED processed

\* An existing blog is updated; then a manifest away from home is moved there.
UpdateBlog ==
  /\ loop \in BlogLoops /\ step = "update"
  /\ \/ manifest' = [manifest EXCEPT ![cur.blog] = "home"] /\ BlogSeeded
     \/ BlogFailed /\ UNCHANGED manifest
  /\ UNCHANGED <<file, dbVars, objects, todo, dirs, existing, histVars>>

\* Slip: the error of the rename is not looked at.
MoveManifest_MutantUnchecked ==
  /\ loop \in BlogLoops /\ step = "move"
  /\ manifest' \in {manifest, [manifest EXCEPT ![cur.blog] = "home"]}
  /\ Go("create")
  /\ UNCHANGED <<file, dbVars, objects, loopVars, cur, histVars>>

\* A new blog: its manifest is moved before the row is made.
MoveManifest ==
  /\ loop \in BlogLoops /\ step = "move"
  /\ \/ /\ manifest' = [manifest EXCEPT ![cur.blog] = "home"]
        /\ Go("create") /\ UNCHANGED <<cur, processed>>
     \/ BlogFailed /\ UNCHANGED manifest
  /\ UNCHANGED <<file, dbVars, objects, todo, dirs, existing, histVars>>

CreateBlog ==
  /\ loop \in BlogLoops /\ step = "create"
  /\ \/ blogRows' = blogRows \cup {cur.blog} /\ BlogSeeded
     \/ BlogFailed /\ UNCHANGED blogRows
  /\ UNCHANGED <<fileVars, owners, rows, objects, todo, dirs, existing, histVars>>

-----------------------------------------------------------------------------
(* SeedPosts and the two loops over a blog's directory.                    *)

\* The ids in the database are read once, before the first post.
SeedPosts ==
  /\ At("home", "next") /\ todo = {}
  /\ \/ /\ GoTo("dirs")
        /\ existing' = {r.id : r \in rows}
        /\ dirs' = {BlogOf[d] : d \in {e \in Docs : file[e] # "none"}}
        /\ due' = due \cup {d \in Docs : file[d] # "none" /\ \A r \in rows : r.doc # d}
     \/ GiveUp("done") /\ UNCHANGED <<existing, dirs, due>>
  /\ UNCHANGED <<fileVars, dbVars, objects, todo, processed, cur, skipped>>

\* The loose files of one blog directory, listed before the first is seeded.
SeedLoosePosts(b) ==
  /\ loop = "dirs" /\ b \in dirs
  /\ dirs' = dirs \ {b}
  /\ \/ /\ cur' = [cur EXCEPT !.blog = b]
        /\ todo' = {d \in Docs : BlogOf[d] = b /\ file[d] = "loose"}
        /\ GoTo("loose")
     \/ GiveUp("dirs") /\ UNCHANGED <<cur, todo>>
  /\ UNCHANGED <<fileVars, dbVars, objects, processed, existing, histVars>>

\* Then its post directories, also those the first loop has just made.
SeedStructuredPosts ==
  /\ At("loose", "next") /\ todo = {}
  /\ \/ /\ todo' = {d \in Docs : BlogOf[d] = cur.blog /\ file[d] \in Ids}
        /\ GoTo("structured") /\ UNCHANGED cur
     \/ GiveUp("dirs") /\ cur' = Nothing /\ UNCHANGED todo
  /\ UNCHANGED <<fileVars, dbVars, objects, processed, dirs, existing, histVars>>

BlogDirDone ==
  /\ At("structured", "next") /\ todo = {}
  /\ cur' = Nothing
  /\ GoTo("dirs")
  /\ UNCHANGED <<fileVars, dbVars, objects, loopVars, histVars>>

SeedDone ==
  /\ loop = "dirs" /\ dirs = {}
  /\ GoTo("done")
  /\ UNCHANGED <<fileVars, dbVars, objects, loopVars, cur, histVars>>

\* A directory whose id was in the database when SeedPosts began is skipped.
SkipExisting(d) ==
  /\ At("structured", "next") /\ d \in todo
  /\ file[d] \in existing
  /\ todo' = todo \ {d}
  /\ skipped' = skipped \cup {file[d]}
  /\ UNCHANGED <<fileVars, dbVars, objects, pcVars, processed, dirs, existing, cur, due>>

\* Slip: the name of the post's directory is not used as its id.
SeedPost_MutantNewId(d) ==
  /\ loop \in PostLoops /\ step = "next" /\ d \in todo
  /\ loop = "structured" => file[d] \notin existing
  /\ todo' = todo \ {d}
  /\ \/ /\ cur.blog \in blogRows
        /\ cur' = [cur EXCEPT !.doc = d, !.id = None]
        /\ Go("row")
     \/ cur.blog \notin blogRows /\ Go("next") /\ UNCHANGED cur
     \/ Fail /\ UNCHANGED cur
  /\ UNCHANGED <<fileVars, dbVars, objects, processed, dirs, existing, histVars>>

\* seedPost up to GetBlogBySlug: a post of an unknown blog is passed over.
SeedPost(d) ==
  /\ loop \in PostLoops /\ step = "next" /\ d \in todo
  /\ loop = "structured" => file[d] \notin existing
  /\ todo' = todo \ {d}
  /\ \/ /\ cur.blog \in blogRows
        /\ cur' = [cur EXCEPT !.doc = d, !.id = IF loop = "loose" THEN None ELSE file[d]]
        /\ Go("row")
     \/ cur.blog \notin blogRows /\ Go("next") /\ UNCHANGED cur
     \/ Fail /\ UNCHANGED cur
  /\ UNCHANGED <<fileVars, dbVars, objects, processed, dirs, existing, histVars>>

NewIds == IF cur.id = None THEN Ids \ Taken ELSE {cur.id}

\* Slip: no index on the slugs of a blog.
Unique_MutantNoSlugIndex(n, d) == \A r \in rows : r.id # n

\* The unique indexes of the posts table: public_id, and (blog_id, slug).
Unique(n, d) ==
  \A r \in rows : r.id # n /\ (BlogOf[r.doc] = BlogOf[d] => Slug[r.doc] # Slug[d])

\* Slip: the text is uploaded before the row is made.
CreatePost_MutantUploadFirst ==
  /\ loop \in PostLoops /\ step = "row"
  /\ \E n \in NewIds :
       /\ objects' = objects \cup {[id |-> n, doc |-> cur.doc]}
       /\ \/ /\ Unique(n, cur.doc)
             /\ rows' = rows \cup {[id |-> n, doc |-> cur.doc]}
             /\ cur' = [cur EXCEPT !.id = n]
             /\ Go(IF loop = "loose" THEN "file" ELSE "save")
          \/ Fail /\ Leave /\ UNCHANGED rows
  /\ UNCHANGED <<fileVars, owners, blogRows, loopVars, histVars>>

(* CreatePost: the row is inserted, under a new random id if none is given *)
(* (taken to be new: the code draws 12 of 62 characters).  An index        *)
(* refuses the row, or the insert fails for another reason.                *)
CreatePost ==
  /\ loop \in PostLoops /\ step = "row"
  /\ \/ \E n \in NewIds :
          /\ Unique(n, cur.doc)
          /\ rows' = rows \cup {[id |-> n, doc |-> cur.doc]}
          /\ cur' = [cur EXCEPT !.id = n]
          /\ Go(IF loop = "loose" THEN "file" ELSE "save")
     \/ \E n \in NewIds : ~Unique(n, cur.doc) /\ Go("next") /\ Leave /\ UNCHANGED rows
     \/ Fail /\ Leave /\ UNCHANGED rows
  /\ UNCHANGED <<fileVars, owners, blogRows, objects, loopVars, histVars>>

\* Slip: the error of the rename is not looked at.
MoveFile_MutantUnchecked ==
  /\ At("loose", "file")
  /\ file' \in {file, [file EXCEPT ![cur.doc] = cur.id]}
  /\ Go("save")
  /\ UNCHANGED <<manifest, dbVars, objects, loopVars, cur, histVars>>

\* Only a loose file is moved, into the new directory named by the row's id.
MoveFile ==
  /\ At("loose", "file")
  /\ \/ /\ file' = [file EXCEPT ![cur.doc] = cur.id]
        /\ Go("save") /\ UNCHANGED cur
     \/ Fail /\ Leave /\ UNCHANGED file
  /\ UNCHANGED <<manifest, dbVars, objects, loopVars, histVars>>

\* The text is uploaded last; a failed upload may have taken effect.
SavePost ==
  /\ loop \in PostLoops /\ step = "save"
  /\ LET stored == objects \cup {[id |-> cur.id, doc |-> cur.doc]} IN
       \/ objects' = stored /\ Go("next")
       \/ objects' \in {objects, stored} /\ Fail
  /\ Leave
  /\ UNCHANGED <<fileVars, dbVars, loopVars, histVars>>

-----------------------------------------------------------------------------
(* The process stops, also in the middle of a run; authors write manifests *)
(* and posts, or copy in a post directory; owners register.                *)

Stop ==
  /\ loop # "off"
  /\ loop' = "off" /\ step' = "next"
  /\ todo' = {} /\ processed' = {} /\ dirs' = {} /\ existing' = {}
  /\ cur' = Nothing
  /\ clean' = TRUE /\ due' = {} /\ skipped' = {}
  /\ UNCHANGED <<fileVars, dbVars, objects>>

WriteManifest(b) ==
  /\ loop = "off" /\ manifest[b] = "none"
  /\ \E place \in {"away", "home"} : manifest' = [manifest EXCEPT ![b] = place]
  /\ UNCHANGED <<file, dbVars, objects, pcVars, loopVars, cur, histVars>>

WriteDoc(d) ==
  /\ loop = "off" /\ file[d] = "none"
  /\ \E place \in {"loose"} \cup (Ids \ Taken) : file' = [file EXCEPT ![d] = place]
  /\ UNCHANGED <<manifest, dbVars, objects, pcVars, loopVars, cur, histVars>>

RegisterOwner(b) ==
  /\ loop = "off"
  /\ owners' = owners \cup {b}
  /\ UNCHANGED <<fileVars, blogRows, rows, objects, pcVars, loopVars, cur, histVars>>

-----------------------------------------------------------------------------
Next ==
  \/ SeedBlogs \/ SeedHomeBlogs
  \/ \E b \in Blogs : SeedBlog(b)
  \/ UpdateBlog \/ MoveManifest \/ CreateBlog
  \/ SeedPosts \/ SeedStructuredPosts \/ BlogDirDone \/ SeedDone
  \/ \E b \in Blogs : SeedLoosePosts(b)
  \/ \E d \in Docs : SkipExisting(d) \/ SeedPost(d)
  \/ CreatePost \/ MoveFile \/ SavePost
  \/ Stop
  \/ \E b \in Blogs : WriteManifest(b) \/ RegisterOwner(b)
  \/ \E d \in Docs : WriteDoc(d)

Spec == Init /\ [][Next]_vars

-----------------------------------------------------------------------------
(* Properties.                                                             *)

Posts == [id : Ids, doc : Docs]

\* Types, and what the code between two steps relies on: the post being
\* moved or uploaded has its row, and a moved post's directory has its id.
TypeOK ==
  /\ manifest \in [Blogs -> {"none", "away", "home"}]
  /\ file \in [Docs -> {"none", "loose"} \cup Ids]
  /\ owners \subseteq Blogs /\ blogRows \subseteq Blogs
  /\ rows \subseteq Posts /\ objects \subseteq Posts
  /\ loop \in {"off", "dirs", "done"} \cup BlogLoops \cup PostLoops
  /\ step \in {"next", "update", "move", "create", "row", "file", "save"}
  /\ todo \subseteq Blogs \cup Docs /\ due \subseteq Blogs \cup Docs
  /\ processed \subseteq Blogs /\ dirs \subseteq Blogs
  /\ cur \in [blog : Blogs \cup {None}, doc : Docs \cup {None}, id : Ids \cup {None}]
  /\ existing \subseteq Ids /\ skipped \subseteq Ids
  /\ clean \in BOOLEAN
  /\ step \in {"file", "save"} => [id |-> cur.id, doc |-> cur.doc] \in rows
  /\ step = "save" => file[cur.doc] = cur.id

\* However often the program stops and seeds again, a file has at most one
\* row: seedPost gives a loose file a new id at every try, and only the
\* index on the slugs stands between a retry and a second copy of the post.
OneRowPerPost == \A r, q \in rows : r.doc = q.doc => r = q

\* A post's directory is named by the id of its row, so that the next run
\* finds the id in the database and readers and files mean the same post.
DirectoryNamesRow == \A r \in rows : file[r.doc] \in Ids => r.id = file[r.doc]

\* An object's key is derived from a row: no text is stored that no row
\* names (post.go reads a text only by the key of a row).
ObjectsHaveRows == objects \subseteq rows

\* A blog is made from a manifest that is at home by then, so that every
\* later start finds it there: seedBlog moves the manifest before the insert.
BlogsAtHome == \A b \in blogRows : manifest[b] = "home"

\* What a run that met no failure has seeded: the blogs whose owner was
\* registered, and every post that had no row, unless its blog is unknown
\* or another post of the blog already has its slug.
CleanRunSeeds ==
  loop = "done" /\ clean =>
    /\ due \cap Blogs \subseteq blogRows
    /\ \A d \in due \cap Docs :
         \/ BlogOf[d] \notin blogRows
         \/ \E r \in rows : r.doc # d /\ BlogOf[r.doc] = BlogOf[d] /\ Slug[r.doc] = Slug[d]
         \/ file[d] \in Ids /\ [id |-> file[d], doc |-> d] \in objects

\* A post that the run skipped as existing can be read: it has its text.
\* The code does not keep this: the row that makes it skip the post is made
\* before the file is moved and the text uploaded, so a stop or a failed
\* upload between them leaves a post no later start completes.
SkippedPostExists == \A n \in skipped : \E o \in objects : o.id = n
=============================================================================
