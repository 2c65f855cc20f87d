------------------------------ MODULE SiteProofs ------------------------------
(***************************************************************************)
(* Theorems about Site, for any number of browsers and writes, on any      *)
(* database that is Consistent when the program is first started: the      *)
(* empty one is (StoreInitInv), and what StoreSpec makes of it.            *)
(*                                                                         *)
(* Each step of Site is a step of SiteStore or leaves the tables alone,    *)
(* so StoreInv is kept by the lemmas there.  SiteInv adds what a session   *)
(* and a handler between two calls know of the tables, and that it stays   *)
(* true: a name is never changed, a post that was listed stays listed.     *)
(***************************************************************************)
EXTENDS Site, SiteStoreProofs

Consistent == StoreInv /\ CommentsOnListedPosts

Named(u, n) == u \in Users /\ n \in Names /\ Fold[n] = Fold[users[u].name]

SessionsNamed == \A c \in Clients : sess[c] = NoSession \/ Named(sess[c].user, sess[c].name)

HeldTrue ==
  \A c \in Clients :
    /\ pc[c] = "login" => Named(arg[c].user, arg[c].name)
    /\ pc[c] = "comment" => arg[c].row \in ListedPosts /\ arg[c].user \in Users

Forms ==
  /\ phase \in {"down", "serving", "refused"} /\ pc \in [Clients -> PC]
  /\ sess \in [Clients -> [user : Nat, name : Names \cup {NoName}]]
  /\ arg \in [Clients -> [row : Nat, user : Nat, name : Names \cup {NoName}]]

SiteInv ==
  /\ StoreInv /\ CommentsOnListedPosts /\ OnlyDeletedAdminStopsStart
  /\ Forms /\ SessionsNamed /\ HeldTrue /\ writes \in 0..MaxWrites

-----------------------------------------------------------------------------
(* The tables.                                                             *)

\* No comment is new, and none has moved to another post.
CommentsOld == \A k \in Comments' : k \in Comments /\ comments'[k].post = comments[k].post

LEMMA DeleteCommentOld ==
  ASSUME StoreInv, NEW k, NEW u, DeleteComment(k, u)
  PROVE  CommentsOld
<1> DEFINE row == [comments[k] EXCEPT !.deleted = TRUE]
<1>1. k \in Comments /\ comments' = [comments EXCEPT ![k] = row]
  BY DEF DeleteComment, GetCommentsForUserID, LiveComments
<1>2. comments \in Seq(CommentRow) /\ comments[k] \in CommentRow
  BY <1>1, TableRows DEF StoreInv, StoreTypeOK, Comments
<1>3. row \in CommentRow /\ row.post = comments[k].post
  BY <1>2 DEF CommentRow
<1> QED BY <1>1, <1>2, <1>3, UpdatedRow DEF CommentsOld, Comments

LEMMA EditCallOld ==
  ASSUME StoreInv, EditCall
  PROVE  CommentsOld
<1> PICK k \in Comments, u \in Users, text \in Texts : UpdateComment(k, u, text)
  BY DEF EditCall
<1> DEFINE row == [comments[k] EXCEPT !.text = text]
<1>1. comments' = [comments EXCEPT ![k] = row]
  BY DEF UpdateComment
<1>2. comments \in Seq(CommentRow) /\ comments[k] \in CommentRow
  BY TableRows DEF StoreInv, StoreTypeOK, Comments
<1>3. row \in CommentRow /\ row.post = comments[k].post
  BY <1>2 DEF CommentRow
<1> QED BY <1>1, <1>2, <1>3, UpdatedRow DEF CommentsOld, Comments

LEMMA StoreCallOld ==
  ASSUME StoreInv, StoreCall
  PROVE  StoreKept /\ CommentsOld
<1>1. StoreKept
  BY AccountCallKeeps, BlogCallKeeps, PostCallKeeps, EditCallKeeps DEF StoreCall
<1>2. AccountCall \/ BlogCall \/ PostCall => comments' = comments
  BY DEF AccountCall, ChangeUserPassword, DeleteUser, BlogCall, CreateBlog, UpdateBlog,
         UpdateBlogVisibility, UpdateBlogRegistration, DeleteBlog, PostCall, CreatePostKey,
         CreatePostInsert, CreatePostFails, FallDue, tables
<1>3. comments' = comments => CommentsOld
  BY DEF CommentsOld, Comments
<1> QED BY <1>1, <1>2, <1>3, EditCallOld DEF StoreCall

(* What a session or a handler holds stays true of the tables.             *)
LEMMA StaysTrue ==
  ASSUME StoreInv, StoreKept
  PROVE  /\ Users \subseteq Users' /\ ListedPosts \subseteq ListedPosts'
         /\ \A u, n : Named(u, n) => Named(u, n)'
<1>1. Users \subseteq Users' /\ \A u \in Users : users'[u].name = users[u].name
  BY DEF StoreKept, UsersKept, Frozen, Users
<1>2. ListedPosts \subseteq ListedPosts'
  BY DEF StoreKept, PostsKept, ListedPosts, Posts
<1> QED BY <1>1, <1>2 DEF Named

LEMMA OldComments ==
  ASSUME SiteInv, StoreKept, CommentsOld
  PROVE  CommentsOnListedPosts'
BY StaysTrue DEF SiteInv, CommentsOld, CommentsOnListedPosts

LEMMA SameSessions ==
  ASSUME SiteInv, StoreKept, UNCHANGED sess
  PROVE  SessionsNamed'
BY StaysTrue DEF SiteInv, SessionsNamed

LEMMA SameHandlers ==
  ASSUME SiteInv, StoreKept, UNCHANGED <<pc, arg>>
  PROVE  HeldTrue'
BY StaysTrue DEF SiteInv, HeldTrue

LEMMA SameTables ==
  ASSUME SiteInv, UNCHANGED storeVars
  PROVE  StoreKept /\ CommentsOnListedPosts'
<1>1. StoreKept
  BY StutterKeeps DEF SiteInv
<1>2. CommentsOld
  BY DEF storeVars, CommentsOld, Comments
<1> QED BY <1>1, <1>2, OldComments

-----------------------------------------------------------------------------
(* The steps.                                                              *)

SiteKept ==
  /\ StoreKept /\ CommentsOnListedPosts' /\ OnlyDeletedAdminStopsStart'
  /\ Forms' /\ SessionsNamed' /\ HeldTrue'

LEMMA StartKeeps ==
  ASSUME SiteInv, Start
  PROVE  SiteKept
<1>1. StoreKept /\ CommentsOnListedPosts'
  <2>1. CASE CreateUser(AdminName, DefaultPassword)
    <3>1. StoreKept
      BY <2>1, CreateUserKeeps, NamesAssumption, DefaultPasswordAssumption DEF SiteInv
    <3>2. CommentsOld
      BY <2>1 DEF CreateUser, CommentsOld, Comments
    <3> QED BY <3>1, <3>2, OldComments
  <2>2. CASE UNCHANGED storeVars
    BY <2>2, SameTables
  <2> QED BY <2>1, <2>2 DEF Start
<1>2. OnlyDeletedAdminStopsStart'
  <2>1. CASE phase' # "refused"
    BY <2>1 DEF OnlyDeletedAdminStopsStart
  <2>2. CASE phase' = "refused"
    <3>1. NeedsAdmin /\ NameTaken(AdminName) /\ UNCHANGED users
      BY <2>2 DEF Start, storeVars
    <3>2. \E u \in Users : Fold[users[u].name] = Fold[AdminName] /\ users[u].deleted
      BY <3>1 DEF NeedsAdmin, NameTaken, GetUserByUsername, LiveUsers
    <3> QED BY <3>1, <3>2 DEF OnlyDeletedAdminStopsStart, Users
  <2> QED BY <2>1, <2>2
<1>3. Forms'
  BY DEF Start, clientVars, SiteInv, Forms
<1> QED BY <1>1, <1>2, <1>3, SameSessions, SameHandlers DEF SiteKept, Start, clientVars

LEMMA StopKeeps ==
  ASSUME SiteInv, Stop
  PROVE  SiteKept
<1>1. StoreKept
  BY DEF Stop, tables, StoreKept
<1>2. CommentsOld
  BY DEF Stop, tables, CommentsOld, Comments
<1>3. Forms'
  <2>1. [c \in Clients |-> "idle"] \in [Clients -> PC]
    BY DEF PC
  <2>2. [c \in Clients |-> NoArg] \in [Clients -> [row : Nat, user : Nat, name : Names \cup {NoName}]]
    BY DEF NoArg, NoRow
  <2> QED BY <2>1, <2>2 DEF Stop, SiteInv, Forms
<1>4. HeldTrue'
  BY DEF Stop, HeldTrue
<1>5. OnlyDeletedAdminStopsStart'
  BY DEF Stop, OnlyDeletedAdminStopsStart
<1> QED BY <1>1, <1>2, <1>3, <1>4, <1>5, OldComments, SameSessions DEF SiteKept, Stop

LEMMA StoreCallSiteKeeps ==
  ASSUME SiteInv, StoreCall
  PROVE  SiteKept
<1>1. StoreKept /\ CommentsOld
  BY StoreCallOld DEF SiteInv
<1>2. OnlyDeletedAdminStopsStart' /\ Forms'
  BY DEF StoreCall, clientVars, SiteInv, Forms, OnlyDeletedAdminStopsStart
<1> QED BY <1>1, <1>2, OldComments, SameSessions, SameHandlers DEF SiteKept, StoreCall, clientVars

LEMMA HandleRegisterKeeps ==
  ASSUME SiteInv, NEW c \in Clients, NEW n \in Names, NEW pw \in Passwords, HandleRegister(c, n, pw)
  PROVE  SiteKept
<1>1. StoreKept
  BY CreateUserKeeps DEF SiteInv, HandleRegister
<1>2. CommentsOld
  BY DEF HandleRegister, CreateUser, CommentsOld, Comments
<1>3. OnlyDeletedAdminStopsStart' /\ Forms'
  BY DEF HandleRegister, Idle, clientVars, SiteInv, Forms, OnlyDeletedAdminStopsStart
<1> QED BY <1>1, <1>2, <1>3, OldComments, SameSessions, SameHandlers DEF SiteKept, HandleRegister, clientVars

LEMMA HandleLoginKeeps ==
  ASSUME SiteInv, NEW c \in Clients, NEW n \in Names, NEW pw, HandleLogin(c, n, pw)
  PROVE  SiteKept
<1> PICK u \in GetUserByUsername(n) :
      /\ pc' = [pc EXCEPT ![c] = "login"]
      /\ arg' = [arg EXCEPT ![c] = [row |-> NoRow, user |-> u, name |-> n]]
  BY DEF HandleLogin
<1>1. StoreKept /\ CommentsOnListedPosts'
  BY SameTables DEF HandleLogin
<1>2. Named(u, n) /\ u \in Nat
  BY TableRows DEF GetUserByUsername, LiveUsers, Named, SiteInv, StoreInv, StoreTypeOK, Users
<1>3. Forms' /\ OnlyDeletedAdminStopsStart'
  BY <1>2 DEF HandleLogin, Idle, SiteInv, Forms, OnlyDeletedAdminStopsStart, PC, NoRow
<1>4. HeldTrue'
  BY <1>1, <1>2, StaysTrue DEF SiteInv, HeldTrue, Forms
<1> QED BY <1>1, <1>3, <1>4, SameSessions DEF SiteKept, HandleLogin

LEMMA LoginSessionKeeps ==
  ASSUME SiteInv, NEW c \in Clients, LoginSession(c)
  PROVE  SiteKept
<1> PICK u, n : u = arg[c].user /\ n = arg[c].name
  OBVIOUS
<1>1. StoreKept /\ CommentsOnListedPosts'
  BY SameTables DEF LoginSession
<1>2. Named(u, n) /\ Named(u, n)'
  BY <1>1, StaysTrue DEF LoginSession, SiteInv, HeldTrue
<1>3. u \in Nat /\ n \in Names
  BY <1>2, TableRows DEF Named, SiteInv, StoreInv, StoreTypeOK, Users
<1>4. Forms' /\ OnlyDeletedAdminStopsStart'
  BY <1>3 DEF LoginSession, SiteInv, Forms, OnlyDeletedAdminStopsStart, PC, NoArg, NoRow
<1>5. SessionsNamed'
  BY <1>1, <1>2, StaysTrue DEF LoginSession, SiteInv, SessionsNamed, Forms
<1>6. HeldTrue'
  BY <1>1, StaysTrue DEF LoginSession, SiteInv, HeldTrue, Forms
<1> QED BY <1>1, <1>4, <1>5, <1>6 DEF SiteKept

LEMMA EndSessionKeeps ==
  ASSUME SiteInv, NEW c \in Clients, EndSession(c)
  PROVE  SiteKept
<1>1. StoreKept /\ CommentsOnListedPosts'
  BY SameTables DEF EndSession
<1>2. Forms' /\ OnlyDeletedAdminStopsStart'
  BY DEF EndSession, SiteInv, Forms, OnlyDeletedAdminStopsStart, NoSession, NoRow
<1>3. SessionsNamed'
  BY <1>1, StaysTrue DEF EndSession, SiteInv, SessionsNamed, Forms
<1> QED BY <1>1, <1>2, <1>3, SameHandlers DEF SiteKept, EndSession

LEMMA HandleCommentKeeps ==
  ASSUME SiteInv, NEW c \in Clients, NEW blogSlug, NEW ident, HandleComment(c, blogSlug, ident)
  PROVE  SiteKept
<1> PICK p \in GetPostBySlugOrPublicID(blogSlug, ident) :
      /\ pc' = [pc EXCEPT ![c] = "comment"]
      /\ arg' = [arg EXCEPT ![c] = [row |-> p, user |-> sess[c].user, name |-> NoName]]
  BY DEF HandleComment
<1> PICK u : u = sess[c].user
  OBVIOUS
<1>1. StoreKept /\ CommentsOnListedPosts'
  BY SameTables DEF HandleComment
<1>2. p \in ListedPosts /\ p \in Nat /\ u \in Users /\ u \in Nat
  <2>1. p \in ListedPosts /\ p \in Posts
    BY DEF GetPostBySlugOrPublicID, ListedPosts
  <2>2. u \in Users
    BY DEF HandleComment, LoggedIn, SiteInv, SessionsNamed, Named, NoSession
  <2> QED BY <2>1, <2>2, TableRows DEF SiteInv, StoreInv, StoreTypeOK, Users, Posts
<1>3. Forms' /\ OnlyDeletedAdminStopsStart'
  BY <1>2 DEF HandleComment, Idle, SiteInv, Forms, OnlyDeletedAdminStopsStart, PC
<1>4. HeldTrue'
  BY <1>1, <1>2, StaysTrue DEF SiteInv, HeldTrue, Forms
<1> QED BY <1>1, <1>3, <1>4, SameSessions DEF SiteKept, HandleComment

LEMMA SaveCommentKeeps ==
  ASSUME SiteInv, NEW c \in Clients, NEW text \in Texts, SaveComment(c, text)
  PROVE  SiteKept
<1> PICK p, u : p = arg[c].row /\ u = arg[c].user
  OBVIOUS
<1>1. p \in ListedPosts /\ p \in Posts /\ u \in Users
  BY DEF SaveComment, SiteInv, HeldTrue, ListedPosts
<1>2. StoreKept /\ CommentsOnListedPosts'
  <2>1. CASE CreateComment(p, u, text)
    <3>1. StoreKept
      BY <1>1, <2>1, CreateCommentKeeps DEF SiteInv
    <3>2. \A k \in Comments' : comments'[k].post = p \/ (k \in Comments /\ comments'[k].post = comments[k].post)
      <4> DEFINE row == [post |-> p, user |-> u, text |-> text, deleted |-> FALSE]
      <4>1. p \in Nat /\ u \in Nat
        BY <1>1, TableRows DEF SiteInv, StoreInv, StoreTypeOK, Users, Posts
      <4>2. row \in CommentRow /\ row.post = p
        BY <4>1 DEF CommentRow
      <4>3. comments \in Seq(CommentRow) /\ comments' = Append(comments, row)
        BY <2>1 DEF SiteInv, StoreInv, StoreTypeOK, CreateComment
      <4> HIDE DEF row
      <4> QED BY <4>2, <4>3, InsertedRow DEF Comments
    <3> QED BY <1>1, <3>1, <3>2, StaysTrue DEF SiteInv, CommentsOnListedPosts
  <2>2. CASE UNCHANGED storeVars
    BY <2>2, SameTables
  <2> QED BY <2>1, <2>2 DEF SaveComment
<1>3. Forms' /\ OnlyDeletedAdminStopsStart'
  BY DEF SaveComment, SiteInv, Forms, OnlyDeletedAdminStopsStart, PC, NoArg, NoRow
<1>4. HeldTrue'
  BY <1>2, StaysTrue DEF SaveComment, SiteInv, HeldTrue, Forms
<1> QED BY <1>2, <1>3, <1>4, SameSessions DEF SiteKept, SaveComment

LEMMA HandleDeleteCommentKeeps ==
  ASSUME SiteInv, NEW c \in Clients, NEW k, HandleDeleteComment(c, k)
  PROVE  SiteKept
<1>1. StoreKept /\ CommentsOld
  BY DeleteCommentKeeps, DeleteCommentOld DEF HandleDeleteComment, SiteInv
<1>2. OnlyDeletedAdminStopsStart' /\ Forms'
  BY DEF HandleDeleteComment, Idle, clientVars, SiteInv, Forms, OnlyDeletedAdminStopsStart
<1> QED BY <1>1, <1>2, OldComments, SameSessions, SameHandlers DEF SiteKept, HandleDeleteComment, clientVars

LEMMA SiteStep ==
  ASSUME SiteInv, [SiteNext]_siteVars
  PROVE  SiteKept /\ SiteInv'
<1>1. ASSUME SiteNext
      PROVE  SiteKept /\ writes' \in 0..MaxWrites
  <2>1. SiteKept
    <3>1. ASSUME NEW c \in Clients, Account(c)
          PROVE  SiteKept
      BY <3>1, HandleRegisterKeeps, HandleLoginKeeps, LoginSessionKeeps, EndSessionKeeps DEF Account
    <3>2. ASSUME NEW c \in Clients, Commenting(c)
          PROVE  SiteKept
      BY <3>2, HandleCommentKeeps, SaveCommentKeeps, HandleDeleteCommentKeeps DEF Commenting
    <3> QED BY <1>1, <3>1, <3>2, StartKeeps, StopKeeps, StoreCallSiteKeeps DEF SiteNext, Request
  <2>2. writes' \in 0..MaxWrites
    BY <1>1, MaxWritesAssumption DEF SiteNext, SiteInv
  <2> QED BY <2>1, <2>2
<1>2. ASSUME UNCHANGED siteVars
      PROVE  SiteKept /\ writes' \in 0..MaxWrites
  <2>1. OnlyDeletedAdminStopsStart' /\ Forms' /\ writes' \in 0..MaxWrites
    BY <1>2 DEF siteVars, storeVars, clientVars, SiteInv, Forms, OnlyDeletedAdminStopsStart, Users
  <2> QED BY <1>2, <2>1, SameTables, SameSessions, SameHandlers DEF SiteKept, siteVars, clientVars
<1>3. SiteKept /\ writes' \in 0..MaxWrites
  BY <1>1, <1>2
<1>4. StoreInv'
  BY <1>3, KeptInv DEF SiteInv, SiteKept
<1> QED BY <1>3, <1>4 DEF SiteInv, SiteKept

LEMMA SiteStart == SiteInit /\ Consistent => SiteInv
BY MaxWritesAssumption DEF SiteInit, Consistent, SiteInv, OnlyDeletedAdminStopsStart, Forms,
   SessionsNamed, HeldTrue, NoSession, NoArg, NoRow, PC

LEMMA SiteInvariant == SiteSpec /\ Consistent => []SiteInv
<1>1. SiteInv /\ [SiteNext]_siteVars => SiteInv'
  BY SiteStep
<1> QED BY <1>1, SiteStart, PTL DEF SiteSpec

-----------------------------------------------------------------------------
(* The theorems.                                                           *)

(* Every row is of its type, and every id that a row, a session or a       *)
(* handler holds across a call is that of a row that is there.             *)
THEOREM SiteTypes == SiteSpec /\ Consistent => []TypeOK
<1>1. SiteInv => TypeOK
  BY DEF SiteInv, StoreInv, Forms, SessionsNamed, HeldTrue, Named, ListedPosts, TypeOK
<1> QED BY <1>1, SiteInvariant, PTL

(* The links of the pages lead where they say, in a public blog and in one *)
(* made again under its slug, whatever the owners do meanwhile.            *)
THEOREM SiteLinks == SiteSpec /\ Consistent => []ListedLinksOpen
<1>1. SiteInv => ListedLinksOpen
  BY LinksFromInv DEF SiteInv
<1> QED BY <1>1, SiteInvariant, PTL

(* CommentCard compares names where the store compares ids: whoever is     *)
(* shown the Delete button of a comment owns it.                           *)
THEOREM SiteDelete == SiteSpec /\ Consistent => []ShownDeleteIsOwn
<1>1. ASSUME SiteInv
      PROVE  ShownDeleteIsOwn
  <2> SUFFICES ASSUME NEW c \in Clients, NEW k \in LiveComments, ShowsDelete(c, k)
               PROVE  comments[k].user = sess[c].user
    BY DEF ShownDeleteIsOwn, GetCommentsForUserID
  <2>1. comments[k].user \in Users
    BY <1>1 DEF SiteInv, StoreInv, StoreTypeOK, LiveComments
  <2>2. users[comments[k].user].name \in Names
    <3>1. users[comments[k].user] \in UserRow
      BY <1>1, <2>1, TableRows DEF SiteInv, StoreInv, StoreTypeOK, Users
    <3> QED BY <3>1 DEF UserRow
  <2>3. Named(sess[c].user, sess[c].name)
    BY <1>1, <2>2, NoNameAssumption DEF SiteInv, SessionsNamed, ShowsDelete, AuthorName, NoSession
  <2> QED BY <1>1, <2>1, <2>3 DEF SiteInv, StoreInv, NamesUnique, Named, ShowsDelete, AuthorName
<1> QED BY <1>1, SiteInvariant, PTL

(* A comment only ever belongs to a post that readers could open, although *)
(* the post was read a step before the comment was written.                *)
THEOREM SiteComments == SiteSpec /\ Consistent => []CommentsOnListedPosts
<1>1. SiteInv => CommentsOnListedPosts
  BY DEF SiteInv
<1> QED BY <1>1, SiteInvariant, PTL

(* No request and no other call changes a soft-deleted row.                *)
THEOREM SiteFrozen == SiteSpec /\ Consistent => FrozenRows
<1>1. SiteInv /\ [SiteNext]_siteVars =>
        [Frozen(users, users') /\ Frozen(blogs, blogs') /\ Frozen(comments, comments')]_storeVars
  BY SiteStep, KeptFrozen DEF SiteKept
<1> QED BY <1>1, SiteInvariant, PTL DEF SiteSpec, FrozenRows

(* What the validator of a registration lets through, the table's CHECK    *)
(* does too: an update of a blog that is there meets no constraint error.  *)
THEOREM SiteRegistrations == SiteSpec => []ValidatorCoversCheck
<1>1. ASSUME NEW mode \in Modes, NEW limit \in Limits \cup {NoLimit},
             ValidRegistration(mode, limit)
      PROVE  RegistrationCheck(mode, limit)
  BY <1>1, NoLimitAssumption DEF ValidRegistration, RegistrationCheck
<1>2. ValidatorCoversCheck
  BY <1>1 DEF ValidatorCoversCheck
<1> QED BY <1>2, PTL

(* Bootstrap fails only on a soft-deleted admin.                           *)
THEOREM SiteStarts == SiteSpec /\ Consistent => []OnlyDeletedAdminStopsStart
<1>1. SiteInv => OnlyDeletedAdminStopsStart
  BY DEF SiteInv
<1> QED BY <1>1, SiteInvariant, PTL
==============================================================================
