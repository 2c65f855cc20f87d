----------------------------- MODULE SeederProofs -----------------------------
(***************************************************************************)
(* Proofs about Seeder, for any blogs, posts, slugs and ids.               *)
(*                                                                         *)
(* IInv says how files, database and object store fit together, and is     *)
(* kept by every step, failure and stop.  RunInv, which is inductive with  *)
(* it, says what a run without a failure still has to seed, so that at its *)
(* end nothing is left.                                                    *)
(***************************************************************************)
EXTENDS Seeder, TLAPS

-----------------------------------------------------------------------------
(* What a run knows in the middle of a file, and what the stores keep when *)
(* it stops there.                                                         *)

Cur == [blog : Blogs \cup {None}, doc : Docs \cup {None}, id : Ids \cup {None}]

\* The post being seeded has left todo, lies where the loop found it, and
\* takes its id from the directory it lies in.
PostInHand ==
  step \in {"row", "file", "save"} =>
    /\ loop \in PostLoops
    /\ cur.doc \in Docs \ todo
    /\ step = "row" => IF loop = "loose"
                         THEN file[cur.doc] = "loose"
                         ELSE file[cur.doc] \in Ids /\ cur.id = file[cur.doc]

\* What a post loop has listed stays where it was listed.
ListedPlaces ==
  /\ loop = "loose" => \A d \in todo \cap Docs : file[d] = "loose"
  /\ loop = "structured" => \A d \in todo \cap Docs : file[d] \in Ids

\* The blog being seeded; a manifest is moved before its blog is made.
BlogInHand ==
  /\ step \in {"update", "move", "create"} => cur.blog \in Blogs
  /\ step = "create" => manifest[cur.blog] = "home"

\* The index on the slugs, and that only a file that is there is given a row.
SlugsUnique ==
  \A r, q \in rows : BlogOf[r.doc] = BlogOf[q.doc] /\ Slug[r.doc] = Slug[q.doc] => r = q

RowsHaveFiles == \A r \in rows : file[r.doc] # "none"

IInv ==
  /\ TypeOK /\ PostInHand /\ ListedPlaces /\ BlogInHand
  /\ SlugsUnique /\ RowsHaveFiles
  /\ DirectoryNamesRow /\ ObjectsHaveRows /\ BlogsAtHome

-----------------------------------------------------------------------------
LEMMA InitIInv == Init => IInv
<1> SUFFICES ASSUME Init
             PROVE  IInv
  OBVIOUS
<1>1. TypeOK
  BY DEF Init, TypeOK, Nothing, BlogLoops, PostLoops
<1> QED
  BY <1>1, IdsAssumption
  DEF Init, IInv, PostInHand, ListedPlaces, BlogInHand, SlugsUnique, RowsHaveFiles,
      DirectoryNamesRow, ObjectsHaveRows, BlogsAtHome

(* A step that changes no post, no object and no place of a file keeps     *)
(* what is said of them.                                                   *)
LEMMA StoresKeep ==
  ASSUME IInv, UNCHANGED <<file, rows, objects>>
  PROVE  SlugsUnique' /\ RowsHaveFiles' /\ DirectoryNamesRow' /\ ObjectsHaveRows'
BY DEF IInv, SlugsUnique, RowsHaveFiles, DirectoryNamesRow, ObjectsHaveRows

(* The steps of SeedBlogs, and every other step between two posts.         *)
LEMMA BlogStepsKeep ==
  ASSUME IInv,
         \/ SeedBlogs \/ SeedHomeBlogs \/ \E b \in Blogs : SeedBlog(b)
         \/ UpdateBlog \/ MoveManifest \/ CreateBlog
  PROVE  IInv'
<1> USE DEF IInv, Go, GoTo, Fail, GiveUp, BlogSeeded, BlogFailed, Nothing, BlogLoops, PostLoops,
            fileVars, dbVars, histVars, loopVars
<1>1. UNCHANGED <<file, rows, objects>>
  BY DEF SeedBlogs, SeedHomeBlogs, SeedBlog, UpdateBlog, MoveManifest, CreateBlog
<1>2. SlugsUnique' /\ RowsHaveFiles' /\ DirectoryNamesRow' /\ ObjectsHaveRows'
  BY <1>1, StoresKeep
<1>3. TypeOK' /\ PostInHand' /\ ListedPlaces' /\ BlogInHand' /\ BlogsAtHome'
  <2> USE DEF TypeOK, PostInHand, ListedPlaces, BlogInHand, BlogsAtHome
  <2>1. CASE SeedBlogs
    BY <2>1 DEF SeedBlogs
  <2>2. CASE SeedHomeBlogs
    BY <2>2 DEF SeedHomeBlogs
  <2>3. ASSUME NEW b \in Blogs, SeedBlog(b)
        PROVE  TypeOK' /\ PostInHand' /\ ListedPlaces' /\ BlogInHand' /\ BlogsAtHome'
    <3>1. TypeOK'
      BY <2>3 DEF SeedBlog
    <3>2. PostInHand' /\ ListedPlaces' /\ BlogInHand' /\ BlogsAtHome'
      BY <2>3 DEF SeedBlog
    <3> QED
      BY <3>1, <3>2
  <2>4. CASE UpdateBlog
    <3>1. TypeOK'
      <4>1. cur.blog \in Blogs /\ step' \in {"next", "create"}
        BY <2>4 DEF UpdateBlog
      <4>2. manifest' \in [Blogs -> {"none", "away", "home"}]
        BY <2>4 DEF UpdateBlog
      <4>3. processed' \subseteq Blogs /\ blogRows' \subseteq Blogs /\ clean' \in BOOLEAN
        BY <2>4, <4>1 DEF UpdateBlog
      <4>4. cur' \in Cur
        BY <2>4 DEF UpdateBlog, Cur
      <4> QED
        BY <2>4, <4>1, <4>2, <4>3, <4>4 DEF UpdateBlog, Cur
    <3>2. PostInHand' /\ ListedPlaces' /\ BlogInHand' /\ BlogsAtHome'
      BY <2>4 DEF UpdateBlog
    <3> QED
      BY <3>1, <3>2
  <2>5. CASE MoveManifest
    <3>1. TypeOK'
      <4>1. cur.blog \in Blogs /\ step' \in {"next", "create"}
        BY <2>5 DEF MoveManifest
      <4>2. manifest' \in [Blogs -> {"none", "away", "home"}]
        BY <2>5 DEF MoveManifest
      <4>3. processed' \subseteq Blogs /\ blogRows' \subseteq Blogs /\ clean' \in BOOLEAN
        BY <2>5, <4>1 DEF MoveManifest
      <4>4. cur' \in Cur
        BY <2>5 DEF MoveManifest, Cur
      <4> QED
        BY <2>5, <4>1, <4>2, <4>3, <4>4 DEF MoveManifest, Cur
    <3>2. PostInHand' /\ ListedPlaces' /\ BlogInHand' /\ BlogsAtHome'
      BY <2>5 DEF MoveManifest
    <3> QED
      BY <3>1, <3>2
  <2>6. CASE CreateBlog
    <3>1. TypeOK'
      <4>1. cur.blog \in Blogs /\ step' \in {"next", "create"}
        BY <2>6 DEF CreateBlog
      <4>2. manifest' \in [Blogs -> {"none", "away", "home"}]
        BY <2>6 DEF CreateBlog
      <4>3. processed' \subseteq Blogs /\ blogRows' \subseteq Blogs /\ clean' \in BOOLEAN
        BY <2>6, <4>1 DEF CreateBlog
      <4>4. cur' \in Cur
        BY <2>6 DEF CreateBlog, Cur
      <4> QED
        BY <2>6, <4>1, <4>2, <4>3, <4>4 DEF CreateBlog, Cur
    <3>2. PostInHand' /\ ListedPlaces' /\ BlogInHand' /\ BlogsAtHome'
      BY <2>6 DEF CreateBlog
    <3> QED
      BY <3>1, <3>2
  <2> QED
    BY <2>1, <2>2, <2>3, <2>4, <2>5, <2>6
<1> QED
  BY <1>2, <1>3

LEMMA PostLoopsKeep ==
  ASSUME IInv,
         \/ SeedPosts \/ SeedStructuredPosts \/ BlogDirDone \/ SeedDone
         \/ \E b \in Blogs : SeedLoosePosts(b)
         \/ \E d \in Docs : SkipExisting(d) \/ SeedPost(d)
  PROVE  IInv'
<1> USE DEF IInv, At, Go, GoTo, Fail, GiveUp, Nothing, BlogLoops, PostLoops,
            fileVars, dbVars, histVars, loopVars, pcVars
<1>1. UNCHANGED <<manifest, file, owners, blogRows, rows, objects>>
  BY DEF SeedPosts, SeedStructuredPosts, BlogDirDone, SeedDone, SeedLoosePosts, SkipExisting,
         SeedPost
<1>2. /\ SlugsUnique' /\ RowsHaveFiles' /\ DirectoryNamesRow' /\ ObjectsHaveRows'
      /\ BlogsAtHome'
  BY <1>1, StoresKeep DEF BlogsAtHome
<1>3. TypeOK' /\ PostInHand' /\ ListedPlaces' /\ BlogInHand'
  <2> USE DEF TypeOK, PostInHand, ListedPlaces, BlogInHand
  <2>1. CASE SeedPosts
    <3>1. TypeOK'
      <4>0. {r.id : r \in rows} \subseteq Ids
        BY DEF Posts
      <4>1. existing' \subseteq Ids /\ clean' \in BOOLEAN
        BY <2>1, <4>0 DEF SeedPosts
      <4>2. dirs' \subseteq Blogs /\ due' \subseteq Blogs \cup Docs
        BY <2>1, BlogOfAssumption DEF SeedPosts
      <4> QED
        BY <2>1, <4>1, <4>2 DEF SeedPosts
    <3>2. PostInHand' /\ ListedPlaces' /\ BlogInHand'
      BY <2>1, BlogOfAssumption DEF SeedPosts, Posts
    <3> QED
      BY <3>1, <3>2
  <2>2. CASE SeedStructuredPosts
    <3>1. TypeOK'
      <4>1. cur' \in Cur
        BY <2>2 DEF SeedStructuredPosts, Cur
      <4>2. todo' \subseteq Blogs \cup Docs /\ clean' \in BOOLEAN
        BY <2>2 DEF SeedStructuredPosts
      <4> QED
        BY <2>2, <4>1, <4>2 DEF SeedStructuredPosts, Cur
    <3>2. PostInHand' /\ ListedPlaces' /\ BlogInHand'
      BY <2>2 DEF SeedStructuredPosts
    <3> QED
      BY <3>1, <3>2
  <2>3. CASE BlogDirDone
    BY <2>3 DEF BlogDirDone
  <2>4. CASE SeedDone
    BY <2>4 DEF SeedDone
  <2>5. ASSUME NEW b \in Blogs, SeedLoosePosts(b)
        PROVE  TypeOK' /\ PostInHand' /\ ListedPlaces' /\ BlogInHand'
    <3>1. TypeOK'
      <4>1. cur' \in Cur
        BY <2>5 DEF SeedLoosePosts, Cur
      <4>2. todo' \subseteq Blogs \cup Docs /\ clean' \in BOOLEAN
        BY <2>5 DEF SeedLoosePosts
      <4> QED
        BY <2>5, <4>1, <4>2 DEF SeedLoosePosts, Cur
    <3>2. PostInHand' /\ ListedPlaces' /\ BlogInHand'
      BY <2>5 DEF SeedLoosePosts
    <3> QED
      BY <3>1, <3>2
  <2>6. ASSUME NEW d \in Docs, SkipExisting(d)
        PROVE  TypeOK' /\ PostInHand' /\ ListedPlaces' /\ BlogInHand'
    <3>1. TypeOK'
      BY <2>6 DEF SkipExisting
    <3>2. PostInHand' /\ ListedPlaces' /\ BlogInHand'
      BY <2>6 DEF SkipExisting
    <3> QED
      BY <3>1, <3>2
  <2>7. ASSUME NEW d \in Docs, SeedPost(d)
        PROVE  TypeOK' /\ PostInHand' /\ ListedPlaces' /\ BlogInHand'
    <3>1. TypeOK'
      <4>1. cur' \in Cur
        BY <2>7 DEF SeedPost, Cur
      <4>2. todo' \subseteq Blogs \cup Docs /\ clean' \in BOOLEAN /\ step' \in {"row", "next"}
        BY <2>7 DEF SeedPost
      <4> QED
        BY <2>7, <4>1, <4>2 DEF SeedPost, Cur
    <3>2. ASSUME cur.blog \in blogRows, cur' = [cur EXCEPT !.doc = d, !.id = IF loop = "loose" THEN None ELSE file[d]],
                 Go("row")
          PROVE  PostInHand'
      BY <2>7, <3>2 DEF SeedPost
    <3>3. PostInHand'
      BY <2>7, <3>2 DEF SeedPost
    <3>4. ListedPlaces' /\ BlogInHand'
      BY <2>7 DEF SeedPost
    <3> QED
      BY <3>1, <3>3, <3>4
  <2> QED
    BY <2>1, <2>2, <2>3, <2>4, <2>5, <2>6, <2>7
<1> QED
  BY <1>2, <1>3

(* CreatePost: the new row is the file's first, since a row of the file    *)
(* would have its slug, and has the id of the file's directory, if any.    *)
LEMMA CreatePostKeeps == IInv /\ CreatePost => IInv'
<1> SUFFICES ASSUME IInv, CreatePost
             PROVE  IInv'
  OBVIOUS
<1> USE DEF IInv
<1>1. /\ cur.doc \in Docs \ todo /\ loop \in PostLoops
      /\ file[cur.doc] # "none"
      /\ cur \in Cur /\ file \in [Docs -> {"none", "loose"} \cup Ids]
      /\ UNCHANGED <<fileVars, owners, blogRows, objects, loopVars, histVars, loop>>
  BY IdsAssumption
  DEF CreatePost, TypeOK, PostInHand, PostLoops, Cur, Go, Fail
<1>2. ASSUME NEW n \in NewIds, Unique(n, cur.doc),
             rows' = rows \cup {[id |-> n, doc |-> cur.doc]},
             cur' = [cur EXCEPT !.id = n],
             Go(IF loop = "loose" THEN "file" ELSE "save")
      PROVE  IInv'
  <2>1. n \in Ids /\ (file[cur.doc] \in Ids => n = file[cur.doc])
    <3>1. CASE loop = "loose"
      BY <1>1, <3>1, IdsAssumption DEF NewIds, CreatePost, PostInHand, Cur
    <3>2. CASE loop = "structured"
      BY <1>1, <3>2, NoneAssumption DEF NewIds, CreatePost, PostInHand
    <3> QED
      BY <1>1, <3>1, <3>2 DEF PostLoops
  <2>2. cur'.id = n /\ cur'.doc = cur.doc /\ cur' \in Cur
    BY <1>1, <1>2, <2>1 DEF Cur
  <2>3. step' = "save" => file'[cur'.doc] = cur'.id
    BY <1>1, <1>2, <2>1, <2>2 DEF Go, PostInHand, CreatePost, PostLoops, fileVars
  <2>4. TypeOK'
    BY <1>1, <1>2, <2>1, <2>2, <2>3
    DEF TypeOK, Cur, Posts, Go, fileVars, loopVars, histVars
  <2>5. SlugsUnique' /\ RowsHaveFiles'
    BY <1>1, <1>2 DEF SlugsUnique, RowsHaveFiles, Unique, fileVars
  <2>6. DirectoryNamesRow' /\ ObjectsHaveRows' /\ BlogsAtHome'
    BY <1>1, <1>2, <2>1 DEF DirectoryNamesRow, ObjectsHaveRows, BlogsAtHome, fileVars
  <2>7. PostInHand' /\ ListedPlaces' /\ BlogInHand'
    BY <1>1, <1>2, <2>2
    DEF PostInHand, ListedPlaces, BlogInHand, Go, fileVars, loopVars
  <2> QED
    BY <2>4, <2>5, <2>6, <2>7
<1>3. CASE step' = "next" /\ clean' \in BOOLEAN /\ Leave /\ UNCHANGED rows
  <2>1. TypeOK'
    BY <1>1, <1>3 DEF TypeOK, Leave, Cur, fileVars, loopVars, histVars
  <2>2. PostInHand' /\ ListedPlaces' /\ BlogInHand' /\ BlogsAtHome'
    BY <1>1, <1>3 DEF PostInHand, ListedPlaces, BlogInHand, BlogsAtHome, fileVars, loopVars
  <2> QED
    BY <1>1, <1>3, <2>1, <2>2, StoresKeep DEF fileVars
<1> QED
  BY <1>2, <1>3 DEF CreatePost, Go, Fail, TypeOK

(* MoveFile: the file's one row is the one just made, so that the new      *)
(* directory has the id of the file's row.                                 *)
LEMMA MoveFileKeeps == IInv /\ MoveFile => IInv'
<1> SUFFICES ASSUME IInv, MoveFile
             PROVE  IInv'
  OBVIOUS
<1> USE DEF IInv
<1>1. /\ cur.doc \in Docs \ todo /\ [id |-> cur.id, doc |-> cur.doc] \in rows /\ cur.id \in Ids
      /\ loop = "loose" /\ cur \in Cur
      /\ UNCHANGED <<manifest, dbVars, objects, loopVars, histVars, loop>>
  BY DEF MoveFile, At, TypeOK, PostInHand, Cur, Posts, Go, Fail
<1>2. CASE /\ file' = [file EXCEPT ![cur.doc] = cur.id]
           /\ Go("save") /\ UNCHANGED cur
  <2>1. \A r \in rows : r.doc = cur.doc => r.id = cur.id
    BY <1>1 DEF SlugsUnique
  <2>2. TypeOK'
    BY <1>1, <1>2 DEF TypeOK, Go, dbVars, loopVars, histVars
  <2>3. DirectoryNamesRow' /\ RowsHaveFiles'
    BY <1>1, <1>2, <2>1, IdsAssumption
    DEF TypeOK, Posts, DirectoryNamesRow, RowsHaveFiles, dbVars
  <2>4. SlugsUnique' /\ ObjectsHaveRows' /\ BlogsAtHome'
    BY <1>1 DEF SlugsUnique, ObjectsHaveRows, BlogsAtHome, dbVars
  <2>5. PostInHand' /\ ListedPlaces' /\ BlogInHand'
    BY <1>1, <1>2 DEF TypeOK, PostInHand, ListedPlaces, BlogInHand, Go, PostLoops, loopVars
  <2> QED
    BY <2>2, <2>3, <2>4, <2>5
<1>3. CASE Fail /\ Leave /\ UNCHANGED file
  <2>1. TypeOK'
    BY <1>1, <1>3 DEF TypeOK, Fail, Leave, Cur, dbVars, loopVars, histVars
  <2>2. PostInHand' /\ ListedPlaces' /\ BlogInHand' /\ BlogsAtHome'
    BY <1>1, <1>3
    DEF PostInHand, ListedPlaces, BlogInHand, BlogsAtHome, Fail, dbVars, loopVars
  <2> QED
    BY <1>1, <1>3, <2>1, <2>2, StoresKeep DEF dbVars
<1> QED
  BY <1>2, <1>3 DEF MoveFile

LEMMA SavePostKeeps == IInv /\ SavePost => IInv'
<1> SUFFICES ASSUME IInv, SavePost
             PROVE  IInv'
  OBVIOUS
<1> USE DEF IInv
<1>1. /\ objects \subseteq objects' /\ objects' \subseteq objects \cup {[id |-> cur.id, doc |-> cur.doc]}
      /\ [id |-> cur.id, doc |-> cur.doc] \in rows
      /\ step' = "next" /\ clean' \in BOOLEAN /\ Leave
      /\ UNCHANGED <<fileVars, dbVars, loopVars, histVars, loop>>
  BY DEF SavePost, TypeOK, Go, Fail
<1>2. TypeOK'
  BY <1>1 DEF TypeOK, Leave, Cur, Posts, fileVars, dbVars, loopVars, histVars
<1>3. SlugsUnique' /\ RowsHaveFiles' /\ DirectoryNamesRow' /\ ObjectsHaveRows' /\ BlogsAtHome'
  BY <1>1
  DEF SlugsUnique, RowsHaveFiles, DirectoryNamesRow, ObjectsHaveRows, BlogsAtHome, fileVars, dbVars
<1>4. PostInHand' /\ ListedPlaces' /\ BlogInHand'
  BY <1>1 DEF PostInHand, ListedPlaces, BlogInHand, fileVars, loopVars
<1> QED
  BY <1>2, <1>3, <1>4

(* The environment writes only files that were not there, and nothing      *)
(* while a run goes on; a stop forgets the post in hand.                   *)
LEMMA EnvironmentKeeps ==
  ASSUME IInv,
         \/ Stop \/ UNCHANGED vars
         \/ \E b \in Blogs : WriteManifest(b) \/ RegisterOwner(b)
         \/ \E d \in Docs : WriteDoc(d)
  PROVE  IInv'
<1> USE DEF IInv, fileVars, dbVars, loopVars, histVars, pcVars, PostLoops, BlogLoops
<1>1. CASE Stop
  <2>1. TypeOK'
    BY <1>1 DEF Stop, TypeOK, Nothing
  <2>2. PostInHand' /\ ListedPlaces' /\ BlogInHand' /\ BlogsAtHome'
    BY <1>1 DEF Stop, PostInHand, ListedPlaces, BlogInHand, BlogsAtHome
  <2> QED
    BY <1>1, <2>1, <2>2, StoresKeep DEF Stop
<1>2. CASE UNCHANGED vars
  BY <1>2
  DEF vars, TypeOK, PostInHand, ListedPlaces, BlogInHand, SlugsUnique, RowsHaveFiles,
      DirectoryNamesRow, ObjectsHaveRows, BlogsAtHome
<1>3. ASSUME NEW b \in Blogs, WriteManifest(b) \/ RegisterOwner(b)
      PROVE  IInv'
  <2>1. UNCHANGED <<file, rows, objects, blogRows, pcVars, loopVars, cur, histVars>>
    BY <1>3 DEF WriteManifest, RegisterOwner
  <2>2. /\ manifest' \in [Blogs -> {"none", "away", "home"}]
        /\ owners' \subseteq Blogs
        /\ \A c \in Blogs : manifest[c] = "home" => manifest'[c] = "home"
    BY <1>3 DEF WriteManifest, RegisterOwner, TypeOK
  <2>3. TypeOK'
    BY <2>1, <2>2 DEF TypeOK
  <2>4. PostInHand' /\ ListedPlaces' /\ BlogInHand' /\ BlogsAtHome'
    BY <2>1, <2>2 DEF TypeOK, PostInHand, ListedPlaces, BlogInHand, BlogsAtHome
  <2> QED
    BY <2>1, <2>3, <2>4, StoresKeep
<1>4. ASSUME NEW d \in Docs, WriteDoc(d)
      PROVE  IInv'
  <2>1. /\ UNCHANGED <<manifest, dbVars, objects, pcVars, loopVars, cur, histVars>>
        /\ loop = "off" /\ file[d] = "none"
        /\ \A e \in Docs \ {d} : file'[e] = file[e]
        /\ file' \in [Docs -> {"none", "loose"} \cup Ids]
    BY <1>4 DEF WriteDoc, TypeOK
  <2>2. \A r \in rows : r.doc \in Docs \ {d}
    BY <2>1 DEF TypeOK, Posts, RowsHaveFiles
  <2>3. step \notin {"row", "file", "save"}
    BY <2>1 DEF PostInHand
  <2>4. TypeOK'
    BY <2>1, <2>3 DEF TypeOK
  <2>5. /\ SlugsUnique' /\ RowsHaveFiles' /\ DirectoryNamesRow'
        /\ ObjectsHaveRows' /\ BlogsAtHome'
    BY <2>1, <2>2
    DEF SlugsUnique, RowsHaveFiles, DirectoryNamesRow, ObjectsHaveRows, BlogsAtHome
  <2>6. PostInHand' /\ ListedPlaces' /\ BlogInHand'
    BY <2>1, <2>3 DEF PostInHand, ListedPlaces, BlogInHand
  <2> QED
    BY <2>4, <2>5, <2>6
<1> QED
  BY <1>1, <1>2, <1>3, <1>4

LEMMA StepIInv == IInv /\ [Next]_vars => IInv'
BY BlogStepsKeep, PostLoopsKeep, CreatePostKeeps, MoveFileKeeps, SavePostKeeps, EnvironmentKeeps
DEF Next

-----------------------------------------------------------------------------
(* What a clean run still owes, from its start on.                         *)

\* An id is of one row, and a directory of one file, which has the row.
IdsApart ==
  /\ \A r, q \in rows : r.id = q.id => r = q
  /\ \A r \in rows, d \in Docs : file[d] = r.id => r.doc = d
  /\ \A d, e \in Docs : file[d] \in Ids /\ file[d] = file[e] => d = e

\* What the run has read of the stores still holds of them.
ReadBefore ==
  /\ existing \subseteq {r.id : r \in rows}
  /\ processed \subseteq blogRows
  /\ step = "update" => cur.blog \in blogRows
  /\ due \cap Blogs \subseteq owners
  /\ \A b \in due \cap Blogs : manifest[b] # "none"
  /\ \A d \in due \cap Docs : file[d] # "none"
  /\ loop \in BlogLoops \cup {"off"} => due \cap Docs = {}
  /\ loop \in PostLoops => \A d \in todo \cap Docs : BlogOf[d] = cur.blog
  /\ At("loose", "row") => cur.id = None

\* A blog without a row: in hand, listed, or with a manifest the second loop
\* of SeedBlogs will list.
BlogOwed(b) ==
  \/ step \in {"move", "create"} /\ cur.blog = b
  \/ b \in todo
  \/ loop = "away" /\ manifest[b] = "home"

BlogsOwed ==
  clean /\ loop # "off" => \A b \in (due \cap Blogs) \ blogRows : loop \in BlogLoops /\ BlogOwed(b)

\* A post of an unknown blog, of a slug that is taken, or with its text.
Settled(d) ==
  \/ BlogOf[d] \notin blogRows
  \/ \E r \in rows : r.doc # d /\ BlogOf[r.doc] = BlogOf[d] /\ Slug[r.doc] = Slug[d]
  \/ file[d] \in Ids /\ [id |-> file[d], doc |-> d] \in objects

\* A post without a row: its directory is still to be taken, it is listed, or
\* it lies where the second loop over the directory will list it.
Unseeded(d) ==
  /\ \A r \in rows : r.doc # d
  /\ \/ BlogOf[d] \in dirs
     \/ loop \in PostLoops /\ d \in todo
     \/ loop = "loose" /\ cur.blog = BlogOf[d] /\ file[d] \in Ids
     \/ step = "row" /\ cur.doc = d

Uploading(d) == step \in {"file", "save"} /\ cur.doc = d

PostsOwed ==
  clean => \A d \in due \cap Docs : Settled(d) \/ Unseeded(d) \/ Uploading(d)

\* A clean run ends only when every directory has been taken.
DirsTaken == clean /\ loop = "done" => dirs = {}

RunInv == IdsApart /\ ReadBefore /\ BlogsOwed /\ PostsOwed /\ DirsTaken

LEMMA InitRunInv == Init => RunInv
BY IdsAssumption
DEF Init, RunInv, DirsTaken, IdsApart, ReadBefore, BlogsOwed, PostsOwed, BlogLoops, PostLoops, Nothing

\* The steps that change neither a post's row nor the place of a file.
LEMMA SamePlaces ==
  ASSUME IdsApart, UNCHANGED <<file, rows>>
  PROVE  IdsApart'
BY DEF IdsApart

LEMMA IdsStayApart ==
  ASSUME IInv, RunInv, [Next]_vars
  PROVE  IdsApart'
<1> USE DEF RunInv, IInv
<1>1. CASE UNCHANGED <<file, rows>>
  BY <1>1, SamePlaces
<1>2. CASE CreatePost
  <2>1. /\ cur.doc \in Docs /\ loop \in PostLoops /\ UNCHANGED file
        /\ file \in [Docs -> {"none", "loose"} \cup Ids] /\ rows \subseteq Posts
        /\ loop = "structured" => file[cur.doc] \in Ids /\ cur.id = file[cur.doc]
    BY <1>2 DEF CreatePost, PostInHand, TypeOK, PostLoops, fileVars
  <2>2. ASSUME NEW n \in NewIds, Unique(n, cur.doc),
               rows' = rows \cup {[id |-> n, doc |-> cur.doc]}
        PROVE  IdsApart'
    <3>1. \A d \in Docs : file[d] = n => d = cur.doc
      <4>1. CASE loop = "loose"
        <5>1. cur.id = None
          BY <1>2, <4>1 DEF ReadBefore, CreatePost, At
        <5>2. n \in Ids \ Taken
          BY <5>1 DEF NewIds
        <5> QED BY <2>1, <5>2 DEF Taken
      <4>2. CASE loop = "structured"
        BY <2>1, <4>2, NoneAssumption DEF NewIds, IdsApart
      <4> QED BY <2>1, <4>1, <4>2 DEF PostLoops
    <3>2. \A r \in rows : r.id # n
      BY <2>2 DEF Unique
    <3> QED BY <2>1, <2>2, <3>1, <3>2 DEF IdsApart
  <2>3. CASE UNCHANGED rows
    BY <2>1, <2>3, SamePlaces
  <2> QED BY <1>2, <2>2, <2>3 DEF CreatePost
<1>3. CASE MoveFile
  <2>1. /\ [id |-> cur.id, doc |-> cur.doc] \in rows /\ UNCHANGED rows
        /\ rows \subseteq Posts /\ file \in [Docs -> {"none", "loose"} \cup Ids]
    BY <1>3 DEF MoveFile, At, TypeOK, dbVars
  <2>2. CASE file' = [file EXCEPT ![cur.doc] = cur.id]
    <3>1. cur.doc \in Docs /\ cur.id \in Ids
      BY <2>1 DEF Posts
    <3>2. \A d \in Docs : file'[d] = IF d = cur.doc THEN cur.id ELSE file[d]
      BY <2>1, <2>2
    <3>3. \A d \in Docs : file[d] = cur.id => d = cur.doc
      BY <2>1 DEF IdsApart
    <3>4. \A r \in rows, d \in Docs : file'[d] = r.id => r.doc = d
      BY <2>1, <3>2 DEF IdsApart
    <3>5. \A d, e \in Docs : file'[d] \in Ids /\ file'[d] = file'[e] => d = e
      BY <3>2, <3>3 DEF IdsApart
    <3> QED BY <2>1, <3>4, <3>5 DEF IdsApart
  <2>3. CASE UNCHANGED file
    BY <2>1, <2>3, SamePlaces
  <2> QED BY <1>3, <2>2, <2>3 DEF MoveFile
<1>4. ASSUME NEW d \in Docs, WriteDoc(d)
      PROVE  IdsApart'
  <2>1. PICK place \in {"loose"} \cup (Ids \ Taken) : file' = [file EXCEPT ![d] = place]
    BY <1>4 DEF WriteDoc
  <2>2. UNCHANGED rows /\ \A e \in Docs : file'[e] = IF e = d THEN place ELSE file[e]
    BY <1>4, <2>1 DEF WriteDoc, TypeOK, dbVars
  <2>3. /\ \A r \in rows : r.id # place
        /\ \A e \in Docs : place \in Ids => file[e] # place
    BY IdsAssumption DEF TypeOK, Posts, Taken
  <2> QED BY <2>2, <2>3 DEF IdsApart
<1> QED
  BY <1>1, <1>2, <1>3, <1>4
  DEF Next, vars, SeedBlogs, SeedHomeBlogs, SeedBlog, UpdateBlog, MoveManifest, CreateBlog,
      SeedPosts, SeedStructuredPosts, BlogDirDone, SeedDone, SeedLoosePosts, SkipExisting, SeedPost,
      SavePost, Stop, WriteManifest, RegisterOwner, fileVars, dbVars

LEMMA ReadBeforeStays ==
  ASSUME IInv, RunInv, [Next]_vars
  PROVE  ReadBefore'
<1> USE DEF RunInv, IInv, ReadBefore, At, Go, GoTo, Fail, GiveUp, BlogSeeded, BlogFailed, Nothing,
            BlogLoops, PostLoops, fileVars, dbVars, histVars, loopVars, pcVars
<1>1. CASE SeedBlogs
  BY <1>1, FilesAssumption DEF SeedBlogs, TypeOK
<1>2. CASE SeedHomeBlogs
  BY <1>2 DEF SeedHomeBlogs
<1>3. ASSUME NEW b \in Blogs, SeedBlog(b)
      PROVE  ReadBefore'
  BY <1>3 DEF SeedBlog, TypeOK
<1>4. CASE UpdateBlog
  <2>1. /\ loop \in BlogLoops /\ UNCHANGED <<loop, blogRows, owners, file, rows, existing, due>>
        /\ \A b \in Blogs : manifest'[b] = manifest[b] \/ manifest'[b] = "home"
        /\ processed' \subseteq blogRows /\ step' = "next"
    BY <1>4 DEF UpdateBlog, TypeOK
  <2> QED BY <2>1
<1>5. CASE MoveManifest
  <2>1. /\ loop \in BlogLoops /\ UNCHANGED <<loop, blogRows, owners, file, rows, existing, due>>
        /\ \A b \in Blogs : manifest'[b] = manifest[b] \/ manifest'[b] = "home"
        /\ UNCHANGED processed /\ step' \in {"next", "create"}
    BY <1>5 DEF MoveManifest, TypeOK
  <2> QED BY <2>1
<1>6. CASE CreateBlog
  <2>1. /\ loop \in BlogLoops /\ UNCHANGED <<loop, manifest, owners, file, rows, existing, due>>
        /\ blogRows \subseteq blogRows' /\ processed' \subseteq blogRows' /\ step' = "next"
    BY <1>6 DEF CreateBlog
  <2> QED BY <2>1
<1>7. CASE SeedPosts
  <2>1. /\ UNCHANGED <<blogRows, owners, manifest, file, rows, processed>> /\ step' = "next"
        /\ existing' \subseteq {r.id : r \in rows} /\ loop' \in {"dirs", "done"}
        /\ \A d \in due' : d \in due \/ (d \in Docs /\ file[d] # "none")
    BY <1>7 DEF SeedPosts
  <2> QED BY <2>1, FilesAssumption
<1>8. ASSUME NEW b \in Blogs, SeedLoosePosts(b)
      PROVE  ReadBefore'
  BY <1>8 DEF SeedLoosePosts, TypeOK
<1>9. CASE SeedStructuredPosts
  BY <1>9 DEF SeedStructuredPosts, TypeOK
<1>10. CASE BlogDirDone \/ SeedDone
  BY <1>10 DEF BlogDirDone, SeedDone
<1>11. ASSUME NEW d \in Docs, SkipExisting(d)
       PROVE  ReadBefore'
  BY <1>11 DEF SkipExisting
<1>12. ASSUME NEW d \in Docs, SeedPost(d)
       PROVE  ReadBefore'
  BY <1>12 DEF SeedPost, TypeOK
<1>13. CASE CreatePost
  <2>1. /\ UNCHANGED <<loop, blogRows, owners, manifest, file, existing, processed, due, todo>>
        /\ rows \subseteq rows' /\ step' \in {"next", "file", "save"}
        /\ cur \in Cur /\ cur'.blog = cur.blog
    BY <1>13 DEF CreatePost, Leave, TypeOK, Cur
  <2> QED BY <2>1
<1>14. CASE MoveFile
  <2>1. /\ UNCHANGED <<loop, blogRows, owners, manifest, rows, existing, processed, due, todo>>
        /\ \A d \in Docs : file'[d] = file[d] \/ file'[d] \in Ids
        /\ step' \in {"next", "save"} /\ cur'.blog = cur.blog
    BY <1>14 DEF MoveFile, Leave, TypeOK, Posts
  <2> QED BY <2>1, IdsAssumption
<1>15. CASE SavePost
  BY <1>15 DEF SavePost, Leave, TypeOK
<1>16. CASE Stop
  BY <1>16 DEF Stop
<1>17. ASSUME NEW b \in Blogs, WriteManifest(b) \/ RegisterOwner(b)
       PROVE  ReadBefore'
  BY <1>17 DEF WriteManifest, RegisterOwner, TypeOK
<1>18. ASSUME NEW d \in Docs, WriteDoc(d)
       PROVE  ReadBefore'
  BY <1>18 DEF WriteDoc, TypeOK
<1>19. CASE UNCHANGED vars
  BY <1>19 DEF vars
<1> QED
  BY <1>1, <1>2, <1>3, <1>4, <1>5, <1>6, <1>7, <1>8, <1>9, <1>10, <1>11, <1>12, <1>13, <1>14,
     <1>15, <1>16, <1>17, <1>18, <1>19
  DEF Next

LEMMA BlogsStayOwed ==
  ASSUME IInv, RunInv, [Next]_vars
  PROVE  BlogsOwed'
<1> USE DEF RunInv, IInv, BlogsOwed, BlogOwed, At, Go, GoTo, Fail, GiveUp, BlogSeeded, BlogFailed,
            Nothing, BlogLoops, PostLoops, fileVars, dbVars, histVars, loopVars, pcVars
<1>1. CASE SeedBlogs
  <2>1. manifest \in [Blogs -> {"none", "away", "home"}]
    BY DEF TypeOK
  <2> QED BY <1>1, <2>1 DEF SeedBlogs
<1>2. CASE SeedHomeBlogs
  BY <1>2 DEF SeedHomeBlogs, ReadBefore
<1>3. ASSUME NEW b \in Blogs, SeedBlog(b)
      PROVE  BlogsOwed'
  BY <1>3 DEF SeedBlog, ReadBefore, TypeOK, Cur
<1>4. CASE UpdateBlog
  <2>1. cur.blog \in blogRows /\ UNCHANGED <<blogRows, due, todo, loop>> /\ step' = "next"
    BY <1>4 DEF UpdateBlog, ReadBefore
  <2>2. \A b \in Blogs : manifest[b] = "home" => manifest'[b] = "home"
    BY <1>4 DEF UpdateBlog, TypeOK
  <2> QED BY <1>4, <2>1, <2>2 DEF UpdateBlog
<1>5. CASE MoveManifest
  <2>1. UNCHANGED <<blogRows, due, todo, loop>>
    BY <1>5 DEF MoveManifest
  <2>2. \A b \in Blogs : manifest[b] = "home" => manifest'[b] = "home"
    BY <1>5 DEF MoveManifest, TypeOK
  <2> QED BY <1>5, <2>1, <2>2 DEF MoveManifest
<1>6. CASE CreateBlog
  BY <1>6 DEF CreateBlog
<1>7. CASE SeedPosts
  <2>1. due' \cap Blogs \subseteq due
    BY <1>7, FilesAssumption DEF SeedPosts
  <2> QED BY <1>7, <2>1 DEF SeedPosts, BlogInHand, PostInHand
<1>8. ASSUME \/ SeedStructuredPosts \/ BlogDirDone \/ SeedDone
             \/ \E b \in Blogs : SeedLoosePosts(b)
             \/ \E d \in Docs : SkipExisting(d) \/ SeedPost(d)
             \/ CreatePost \/ MoveFile \/ SavePost
      PROVE  BlogsOwed'
  <2>1. CASE SeedStructuredPosts \/ BlogDirDone \/ SeedDone
    BY <2>1 DEF SeedStructuredPosts, BlogDirDone, SeedDone
  <2>2. ASSUME NEW b \in Blogs, SeedLoosePosts(b)
        PROVE  BlogsOwed'
    BY <2>2 DEF SeedLoosePosts
  <2>3. ASSUME NEW d \in Docs, SkipExisting(d) \/ SeedPost(d)
        PROVE  BlogsOwed'
    BY <2>3 DEF SkipExisting, SeedPost
  <2>4. CASE CreatePost
    BY <2>4 DEF CreatePost
  <2>5. CASE MoveFile \/ SavePost
    BY <2>5 DEF MoveFile, SavePost
  <2> QED BY <1>8, <2>1, <2>2, <2>3, <2>4, <2>5
<1>9. ASSUME Stop \/ \E b \in Blogs : WriteManifest(b) \/ RegisterOwner(b)
      PROVE  BlogsOwed'
  BY <1>9 DEF Stop, WriteManifest, RegisterOwner
<1>10. ASSUME NEW d \in Docs, WriteDoc(d)
       PROVE  BlogsOwed'
  BY <1>10 DEF WriteDoc
<1>11. CASE UNCHANGED vars
  BY <1>11 DEF vars
<1> QED
  BY <1>1, <1>2, <1>3, <1>4, <1>5, <1>6, <1>7, <1>8, <1>9, <1>10, <1>11 DEF Next

\* In the loops over the posts a settled post stays settled.
LEMMA SettledStays ==
  ASSUME NEW d \in Docs, Settled(d), UNCHANGED blogRows, rows \subseteq rows',
         objects \subseteq objects', file[d] \in Ids => file'[d] = file[d]
  PROVE  Settled(d)'
BY DEF Settled

LEMMA PostsStayOwed ==
  ASSUME IInv, RunInv, [Next]_vars
  PROVE  PostsOwed'
<1> USE DEF RunInv, IInv, PostsOwed, At, Go, GoTo, Fail, GiveUp, PostLoops
<1>1. ASSUME UNCHANGED <<file, rows, objects>>,
             \/ due' \cap Docs = {}
             \/ UNCHANGED <<due, todo, dirs, loop, cur, step, clean, blogRows>>
      PROVE  PostsOwed'
  <2>1. CASE due' \cap Docs = {}
    BY <2>1
  <2>2. CASE UNCHANGED <<due, todo, dirs, loop, cur, step, clean, blogRows>>
    BY <1>1, <2>2 DEF Settled, Unseeded, Uploading
  <2> QED BY <1>1, <2>1, <2>2
<1>2. ASSUME \/ SeedBlogs \/ SeedHomeBlogs \/ \E b \in Blogs : SeedBlog(b)
             \/ UpdateBlog \/ MoveManifest \/ CreateBlog
      PROVE  PostsOwed'
  <2>1. loop \in BlogLoops \cup {"off"} => due \cap Docs = {}
    BY DEF ReadBefore
  <2>2. UNCHANGED <<file, rows, objects>> /\ due' \cap Docs = {}
    BY <1>2, <2>1, FilesAssumption
    DEF SeedBlogs, SeedHomeBlogs, SeedBlog, UpdateBlog, MoveManifest, CreateBlog, BlogLoops, TypeOK,
        fileVars, dbVars, histVars
  <2> QED BY <1>1, <2>2
<1>3. CASE SeedPosts
  <2>1. clean' => \A d \in due' \cap Docs : \A r \in rows' : r.doc # d
    <3>1. due \cap Docs = {}
      BY <1>3 DEF SeedPosts, ReadBefore, BlogLoops
    <3> QED BY <1>3, <3>1, FilesAssumption DEF SeedPosts, dbVars
  <2>2. clean' => \A d \in due' \cap Docs : BlogOf[d] \in dirs'
    <3>1. due \cap Docs = {}
      BY <1>3 DEF SeedPosts, ReadBefore, BlogLoops
    <3> QED BY <1>3, <3>1, FilesAssumption DEF SeedPosts
  <2> QED BY <2>1, <2>2 DEF Unseeded
<1>4. ASSUME NEW b \in Blogs, SeedLoosePosts(b)
      PROVE  PostsOwed'
  <2> SUFFICES ASSUME clean', NEW d \in due \cap Docs
               PROVE  (Settled(d) \/ Unseeded(d) \/ Uploading(d))'
    BY <1>4 DEF SeedLoosePosts, histVars
  <2>1. /\ loop = "dirs" /\ loop' = "loose" /\ step' = "next" /\ dirs' = dirs \ {b}
        /\ cur' = [cur EXCEPT !.blog = b] /\ cur \in Cur /\ clean
        /\ todo' = {e \in Docs : BlogOf[e] = b /\ file[e] = "loose"}
        /\ UNCHANGED <<file, rows, objects, blogRows>>
    BY <1>4 DEF SeedLoosePosts, TypeOK, Cur, fileVars, dbVars
  <2>2. CASE Settled(d)
    BY <2>1, <2>2, SettledStays
  <2>3. CASE Unseeded(d)
    <3>1. step # "row" /\ file[d] \in {"loose"} \cup Ids
      BY <2>1 DEF PostInHand, ReadBefore, TypeOK
    <3>2. cur'.blog = b
      BY <2>1 DEF Cur
    <3> QED BY <2>1, <2>3, <3>1, <3>2 DEF Unseeded
  <2>4. ~Uploading(d)
    BY <2>1 DEF Uploading, PostInHand
  <2> QED BY <2>1, <2>2, <2>3, <2>4
<1>5. ASSUME SeedStructuredPosts
      PROVE  PostsOwed'
  <2> SUFFICES ASSUME clean', NEW d \in due \cap Docs
               PROVE  (Settled(d) \/ Unseeded(d) \/ Uploading(d))'
    BY <1>5 DEF SeedStructuredPosts, histVars
  <2>1. /\ loop = "loose" /\ step = "next" /\ todo = {} /\ loop' = "structured" /\ clean
        /\ todo' = {e \in Docs : BlogOf[e] = cur.blog /\ file[e] \in Ids}
        /\ UNCHANGED <<file, rows, objects, blogRows, dirs>>
    BY <1>5 DEF SeedStructuredPosts, fileVars, dbVars
  <2> QED BY <2>1, SettledStays DEF Unseeded, Uploading
<1>6. ASSUME BlogDirDone \/ SeedDone
      PROVE  PostsOwed'
  <2>1. /\ UNCHANGED <<file, rows, objects, blogRows, dirs, due>> /\ (clean' => clean)
        /\ \/ At("structured", "next") /\ todo = {}
           \/ loop = "dirs" /\ dirs = {}
    BY <1>6 DEF BlogDirDone, SeedDone, fileVars, dbVars, histVars, loopVars
  <2>2. step \notin {"row", "file", "save"}
    BY <2>1 DEF PostInHand
  <2> QED BY <2>1, <2>2, SettledStays DEF Unseeded, Uploading
<1>7. ASSUME NEW e \in Docs, SkipExisting(e)
      PROVE  PostsOwed'
  <2>1. /\ UNCHANGED <<file, rows, objects, blogRows, dirs, due, loop, step, clean, cur>>
        /\ todo' = todo \ {e} /\ At("structured", "next")
    BY <1>7 DEF SkipExisting, fileVars, dbVars, pcVars
  <2>2. PICK r \in rows : r.id = file[e]
    BY <1>7 DEF SkipExisting, ReadBefore
  <2>3. r.doc = e
    BY <2>2 DEF IdsApart
  <2>4. ~Unseeded(e)
    BY <2>2, <2>3 DEF Unseeded
  <2>5. \A d \in Docs \ {e} : Unseeded(d) => Unseeded(d)'
    BY <2>1 DEF Unseeded
  <2>6. \A d \in Docs : (Settled(d) => Settled(d)') /\ (Uploading(d) => Uploading(d)')
    BY <2>1 DEF Settled, Uploading
  <2> QED BY <2>1, <2>4, <2>5, <2>6
<1>8. ASSUME NEW e \in Docs, SeedPost(e)
      PROVE  PostsOwed'
  <2>1. /\ UNCHANGED <<file, rows, objects, blogRows, dirs, due, loop>>
        /\ todo' = todo \ {e} /\ loop \in PostLoops /\ step = "next" /\ (clean' => clean)
        /\ e \in todo /\ BlogOf[e] = cur.blog
    BY <1>8 DEF SeedPost, ReadBefore, fileVars, dbVars, histVars
  <2>2. \A d \in Docs : Settled(d) => Settled(d)'
    BY <2>1, SettledStays
  <2>3. \A d \in Docs : ~Uploading(d)
    BY <2>1 DEF Uploading
  <2>4. \A d \in Docs \ {e} : Unseeded(d) => Unseeded(d)'
    <3>1. cur'.blog = cur.blog
      BY <1>8 DEF SeedPost, TypeOK, Cur
    <3> QED BY <2>1, <3>1 DEF Unseeded
  <2>5. clean' /\ Unseeded(e) => Unseeded(e)' \/ Settled(e)'
    <3>1. CASE step' = "row"
      <4>1. cur'.doc = e
        BY <1>8, <3>1, <2>1 DEF SeedPost, TypeOK, Cur
      <4> QED BY <2>1, <3>1, <4>1 DEF Unseeded
    <3>2. CASE cur.blog \notin blogRows
      BY <2>1, <3>2 DEF Settled
    <3> QED BY <1>8, <3>1, <3>2 DEF SeedPost
  <2> QED BY <2>1, <2>2, <2>3, <2>4, <2>5
<1>9. CASE CreatePost
  <2> PICK e : e = cur.doc
    OBVIOUS
  <2>1. /\ UNCHANGED <<file, objects, blogRows, dirs, due, loop, todo>> /\ cur \in Cur
        /\ loop \in PostLoops /\ step = "row" /\ e \in Docs \ todo
    BY <1>9 DEF CreatePost, PostInHand, TypeOK, fileVars, loopVars, histVars, Cur
  <2>2. ASSUME clean', NEW n \in NewIds, Unique(n, cur.doc),
               rows' = rows \cup {[id |-> n, doc |-> cur.doc]},
               cur' = [cur EXCEPT !.id = n],
               Go(IF loop = "loose" THEN "file" ELSE "save")
        PROVE  PostsOwed'
    <3>1. \A d \in Docs : Settled(d) => Settled(d)'
      BY <2>1, <2>2, SettledStays
    <3>2. Uploading(e)'
      BY <2>1, <2>2 DEF Uploading, Cur
    <3>3. \A d \in Docs \ {e} : Unseeded(d) => Unseeded(d)'
      <4>1. cur'.blog = cur.blog
        BY <2>1, <2>2 DEF Cur
      <4> QED BY <2>1, <2>2, <4>1 DEF Unseeded
    <3>4. \A d \in Docs : ~Uploading(d)
      BY <2>1 DEF Uploading
    <3> QED BY <2>1, <2>2, <3>1, <3>2, <3>3, <3>4
  <2>3. ASSUME clean', NEW n \in NewIds, ~Unique(n, cur.doc), Go("next"), Leave, UNCHANGED rows
        PROVE  PostsOwed'
    <3>1. \A d \in Docs : Settled(d) => Settled(d)'
      BY <2>1, <2>3, SettledStays
    <3>2. \A d \in Docs \ {e} : Unseeded(d) => Unseeded(d)'
      <4>1. cur'.blog = cur.blog
        BY <2>1, <2>3 DEF Leave, Cur
      <4> QED BY <2>1, <2>3, <4>1 DEF Unseeded
    <3>3. Unseeded(e) => Settled(e)'
      <4> SUFFICES ASSUME \A r \in rows : r.doc # e
                   PROVE  Settled(e)'
        BY DEF Unseeded
      <4>1. PICK r \in rows : \/ r.id = n
                              \/ BlogOf[r.doc] = BlogOf[e] /\ Slug[r.doc] = Slug[e]
        BY <2>3 DEF Unique
      <4>2. r.id # n
        <5>1. CASE cur.id = None
          BY <5>1 DEF NewIds, Taken
        <5>2. CASE cur.id # None
          <6>1. n = file[e]
            BY <2>1, <5>2 DEF NewIds, PostInHand, ReadBefore
          <6> QED BY <2>1, <6>1 DEF IdsApart
        <5> QED BY <5>1, <5>2
      <4>3. Settled(e)
        BY <4>1, <4>2 DEF Settled
      <4> QED BY <2>1, <3>1, <4>3
    <3>4. \A d \in Docs : ~Uploading(d)
      BY <2>1 DEF Uploading
    <3>5. cur'.doc = None /\ clean
      BY <2>1, <2>3 DEF Leave, Cur
    <3> QED BY <2>1, <2>3, <3>1, <3>2, <3>3, <3>4, <3>5
  <2> QED BY <1>9, <2>2, <2>3 DEF CreatePost
<1>10. CASE MoveFile
  <2> SUFFICES ASSUME clean', NEW d \in due \cap Docs
               PROVE  (Settled(d) \/ Unseeded(d) \/ Uploading(d))'
    BY <1>10 DEF MoveFile, histVars
  <2>1. /\ UNCHANGED <<rows, objects, blogRows, dirs, loop, todo, cur, clean>>
        /\ loop = "loose" /\ step = "file" /\ step' = "save"
        /\ file' = [file EXCEPT ![cur.doc] = cur.id]
        /\ [id |-> cur.id, doc |-> cur.doc] \in rows
    BY <1>10 DEF MoveFile, TypeOK, dbVars, loopVars
  <2>2. CASE d = cur.doc
    BY <2>1, <2>2 DEF Uploading
  <2>3. CASE d # cur.doc
    <3>1. file'[d] = file[d]
      BY <2>1, <2>3 DEF TypeOK
    <3> QED BY <2>1, <2>3, <3>1 DEF Settled, Unseeded, Uploading
  <2> QED BY <2>2, <2>3
<1>11. CASE SavePost
  <2> SUFFICES ASSUME clean', NEW d \in due \cap Docs
               PROVE  (Settled(d) \/ Unseeded(d) \/ Uploading(d))'
    BY <1>11 DEF SavePost, histVars
  <2>1. /\ UNCHANGED <<file, rows, blogRows, dirs, loop, todo, clean>>
        /\ step = "save" /\ file[cur.doc] = cur.id /\ cur.id \in Ids
        /\ objects' = objects \cup {[id |-> cur.id, doc |-> cur.doc]}
        /\ cur'.blog = cur.blog
    BY <1>11 DEF SavePost, Leave, TypeOK, Posts, Cur, fileVars, dbVars, loopVars
  <2>2. CASE d = cur.doc
    BY <2>1, <2>2 DEF Settled
  <2>3. CASE d # cur.doc
    <3>1. Settled(d) => Settled(d)'
      BY <2>1, SettledStays
    <3>2. Unseeded(d) => Unseeded(d)'
      BY <2>1 DEF Unseeded
    <3> QED BY <2>1, <2>3, <3>1, <3>2 DEF Uploading
  <2> QED BY <2>2, <2>3
<1>12. CASE Stop
  BY <1>12 DEF Stop
<1>13. ASSUME NEW b \in Blogs, WriteManifest(b) \/ RegisterOwner(b)
       PROVE  PostsOwed'
  <2>1. UNCHANGED <<file, rows, objects, due, todo, dirs, loop, cur, step, clean, blogRows>>
    BY <1>13 DEF WriteManifest, RegisterOwner, fileVars, dbVars, loopVars, pcVars, histVars
  <2> QED BY <1>1, <2>1
<1>14. ASSUME NEW d \in Docs, WriteDoc(d)
       PROVE  PostsOwed'
  BY <1>14 DEF WriteDoc, ReadBefore, histVars
<1>15. CASE UNCHANGED vars
  BY <1>1, <1>15 DEF vars, fileVars, dbVars, loopVars, pcVars, histVars
<1> QED
  BY <1>2, <1>3, <1>4, <1>5, <1>6, <1>7, <1>8, <1>9, <1>10, <1>11, <1>12, <1>13, <1>14, <1>15
  DEF Next

LEMMA DirsStayTaken ==
  ASSUME RunInv, [Next]_vars
  PROVE  DirsTaken'
<1> USE DEF RunInv, DirsTaken, At, Go, GoTo, Fail, GiveUp, BlogLoops, PostLoops, loopVars, pcVars
<1>1. ASSUME \/ SeedBlogs \/ SeedHomeBlogs \/ SeedPosts \/ SeedStructuredPosts \/ BlogDirDone
             \/ SeedDone \/ \E b \in Blogs : SeedLoosePosts(b)
      PROVE  DirsTaken'
  BY <1>1 DEF SeedBlogs, SeedHomeBlogs, SeedPosts, SeedStructuredPosts, BlogDirDone, SeedDone,
              SeedLoosePosts
<1>2. ASSUME \/ \E b \in Blogs : SeedBlog(b)
             \/ UpdateBlog \/ MoveManifest \/ CreateBlog
             \/ \E d \in Docs : SeedPost(d)
             \/ CreatePost \/ MoveFile \/ SavePost
      PROVE  loop' # "done"
  BY <1>2 DEF SeedBlog, UpdateBlog, MoveManifest, CreateBlog, SeedPost, CreatePost, MoveFile,
              SavePost, BlogSeeded, BlogFailed
<1>3. ASSUME \/ Stop \/ UNCHANGED vars
             \/ \E b \in Blogs : WriteManifest(b) \/ RegisterOwner(b)
             \/ \E d \in Docs : WriteDoc(d) \/ SkipExisting(d)
      PROVE  DirsTaken'
  BY <1>3 DEF Stop, WriteManifest, RegisterOwner, WriteDoc, SkipExisting, vars
<1> QED
  BY <1>1, <1>2, <1>3 DEF Next

-----------------------------------------------------------------------------
(* The stores fit together, and the run knows where it is, at every moment *)
(* of any sequence of runs, failures and stops.                            *)
THEOREM Inductive == Spec => []IInv
<1>1. Init => IInv
  BY InitIInv
<1>2. IInv /\ [Next]_vars => IInv'
  BY StepIInv
<1> QED
  BY <1>1, <1>2, PTL DEF Spec

(* The types, and that a post being moved or uploaded has its row.         *)
THEOREM TypeCorrect == Spec => []TypeOK
<1>1. IInv => TypeOK
  BY DEF IInv
<1> QED
  BY <1>1, Inductive, PTL

(* No sequence of stops and starts makes a second row of a file: two rows  *)
(* of one file would share the blog and the slug.                          *)
THEOREM NeverSeededTwice == Spec => []OneRowPerPost
<1>1. IInv => OneRowPerPost
  BY DEF IInv, SlugsUnique, OneRowPerPost
<1> QED
  BY <1>1, Inductive, PTL

(* A post's directory always has the id of its row.                        *)
THEOREM DirectoriesNamed == Spec => []DirectoryNamesRow
<1>1. IInv => DirectoryNamesRow
  BY DEF IInv
<1> QED
  BY <1>1, Inductive, PTL

(* No object is stored that no row names.                                  *)
THEOREM NoStrayObject == Spec => []ObjectsHaveRows
<1>1. IInv => ObjectsHaveRows
  BY DEF IInv
<1> QED
  BY <1>1, Inductive, PTL

(* A blog's manifest is at home wherever a run was stopped or failed.      *)
THEOREM ManifestsAtHome == Spec => []BlogsAtHome
<1>1. IInv => BlogsAtHome
  BY DEF IInv
<1> QED
  BY <1>1, Inductive, PTL

(* A run that met no failure has seeded every blog with an owner, also one *)
(* whose manifest an earlier run moved in vain, and every post that had no *)
(* row, but for one of an unknown blog or of a slug another post has.      *)
THEOREM CleanRunComplete == Spec => []CleanRunSeeds
<1>1. Init => IInv /\ RunInv
  BY InitIInv, InitRunInv
<1>2. IInv /\ RunInv /\ [Next]_vars => (IInv /\ RunInv)'
  <2> SUFFICES ASSUME IInv, RunInv, [Next]_vars
               PROVE  IInv' /\ RunInv'
    OBVIOUS
  <2>1. IInv'
    BY StepIInv
  <2> QED
    BY <2>1, IdsStayApart, ReadBeforeStays, BlogsStayOwed, PostsStayOwed, DirsStayTaken DEF RunInv
<1>3. IInv /\ RunInv => CleanRunSeeds
  <2> SUFFICES ASSUME IInv, RunInv, loop = "done", clean
               PROVE  /\ due \cap Blogs \subseteq blogRows
                      /\ \A d \in due \cap Docs : Settled(d)
    BY DEF CleanRunSeeds, Settled
  <2>1. due \cap Blogs \subseteq blogRows
    BY DEF RunInv, BlogsOwed, BlogLoops
  <2>2. \A d \in Docs : ~Unseeded(d) /\ ~Uploading(d)
    BY DEF IInv, PostInHand, RunInv, DirsTaken, Unseeded, Uploading, PostLoops
  <2> QED
    BY <2>1, <2>2 DEF RunInv, PostsOwed
<1> QED
  BY <1>1, <1>2, <1>3, PTL DEF Spec
=============================================================================
