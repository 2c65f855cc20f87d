-------------------------------- MODULE Site --------------------------------
(***************************************************************************)
(* The pages, accounts, sessions and comments: the handlers of             *)
(* internal/handlers over the tables of SiteStore, with the start of       *)
(* main.go that makes the admin.  A handler runs in several steps, one for *)
(* each call of the store or of the session manager, and everything else   *)
(* happens between them: other browsers' requests, and the calls of any    *)
(* other user of storage.Store (the seeder; for deletes, visibility and    *)
(* passwords the code has no caller of its own yet).                       *)
(*                                                                         *)
(* A client is a browser with one cookie and one request at a time.  Any   *)
(* call may fail and leave the tables alone: that is no step.  A page only *)
(* reads: its answer is a function of the tables and of what was asked.    *)
(***************************************************************************)
EXTENDS SiteStore

CONSTANTS
  Clients,        \* the browsers
  NoName,         \* "", the username of a session without one
  BadSlug,        \* a blog slug in an address that validSlug refuses
  DefaultPassword,\* the hash of "adminadmin"
  InitialTables,  \* the databases a run begins with
  MaxWrites       \* bound of the model: statements that change a table

ASSUME NoNameAssumption == NoName \notin Names
ASSUME BadSlugAssumption == BadSlug \notin BlogSlugs
ASSUME DefaultPasswordAssumption == DefaultPassword \in Passwords
ASSUME MaxWritesAssumption == MaxWrites \in Nat

VARIABLES
  phase,    \* "down", "serving", or "refused": Bootstrap failed
  sess,     \* the session of each client's cookie, kept in the database
  pc, arg,  \* where each client's request is, and what its handler holds
  writes    \* statements so far

clientVars == <<sess, pc, arg>>
siteVars == <<storeVars, phase, clientVars, writes>>

NoSession == [user |-> NoRow, name |-> NoName]
NoArg == [row |-> NoRow, user |-> NoRow, name |-> NoName]
PC == {"idle", "login", "comment"}

SiteInit ==
  /\ \E t \in InitialTables :
       users = t[1] /\ blogs = t[2] /\ posts = t[3] /\ comments = t[4]
  /\ draft = NoDraft
  /\ phase = "down"
  /\ sess = [c \in Clients |-> NoSession]
  /\ pc = [c \in Clients |-> "idle"]
  /\ arg = [c \in Clients |-> NoArg]
  /\ writes = 0

-----------------------------------------------------------------------------
(* The start of the program.                                               *)

\* Slip: the admin is created without looking.
NeedsAdmin_MutantUnchecked == TRUE

NeedsAdmin == GetUserByUsername(AdminName) = {}

\* The check of main and Bootstrap; nothing else runs yet.  A failed call ends
\* the process with the tables as they were.
Start ==
  /\ phase \in {"down", "refused"}
  /\ \/ ~NeedsAdmin /\ phase' = "serving" /\ UNCHANGED storeVars
     \/ NeedsAdmin /\ CreateUser(AdminName, DefaultPassword) /\ phase' = "serving"
     \/ NeedsAdmin /\ NameTaken(AdminName) /\ phase' = "refused" /\ UNCHANGED storeVars
     \/ phase' = "down" /\ UNCHANGED storeVars
  /\ UNCHANGED clientVars

\* The process ends; the database stays, and the sessions are in it.
Stop ==
  /\ phase = "serving"
  /\ phase' = "down"
  /\ draft' = NoDraft
  /\ pc' = [c \in Clients |-> "idle"]
  /\ arg' = [c \in Clients |-> NoArg]
  /\ UNCHANGED <<tables, sess>>

-----------------------------------------------------------------------------
(* auth.go.                                                                *)

Idle(c) == phase = "serving" /\ pc[c] = "idle"
LoggedIn(c) == sess[c].user # NoRow

HandleRegister(c, n, pw) ==
  /\ Idle(c) /\ ~LoggedIn(c)
  /\ CreateUser(n, pw)
  /\ UNCHANGED <<phase, clientVars>>

\* HandleLogin up to the comparison of the password with the row that was
\* read; only the outcome that goes on is a step.
HandleLogin(c, n, pw) ==
  /\ Idle(c) /\ ~LoggedIn(c)
  /\ \E u \in GetUserByUsername(n) :
       /\ users[u].pass = pw
       /\ pc' = [pc EXCEPT ![c] = "login"]
       /\ arg' = [arg EXCEPT ![c] = [row |-> NoRow, user |-> u, name |-> n]]
  /\ UNCHANGED <<storeVars, phase, sess>>

\* Slip: the Put of "userID" is forgotten.
LoginSession_MutantNoUser(c) ==
  /\ phase = "serving" /\ pc[c] = "login"
  /\ sess' = [sess EXCEPT ![c].name = arg[c].name]
  /\ pc' = [pc EXCEPT ![c] = "idle"]
  /\ arg' = [arg EXCEPT ![c] = NoArg]
  /\ UNCHANGED <<storeVars, phase>>

\* RenewToken and the two Puts; "username" is the name as it was typed.
LoginSession(c) ==
  /\ phase = "serving" /\ pc[c] = "login"
  /\ sess' = [sess EXCEPT ![c] = [user |-> arg[c].user, name |-> arg[c].name]]
  /\ pc' = [pc EXCEPT ![c] = "idle"]
  /\ arg' = [arg EXCEPT ![c] = NoArg]
  /\ UNCHANGED <<storeVars, phase>>

\* HandleLogout, or the end of the session's lifetime, which a handler that
\* has loaded the session does not see.
EndSession(c) ==
  /\ phase = "serving" /\ LoggedIn(c)
  /\ sess' = [sess EXCEPT ![c] = NoSession]
  /\ UNCHANGED <<storeVars, phase, pc, arg>>

-----------------------------------------------------------------------------
(* comment.go.                                                             *)

\* HandleComment up to the post; any error there answers 404.
HandleComment(c, blogSlug, ident) ==
  /\ Idle(c) /\ LoggedIn(c)
  /\ \E p \in GetPostBySlugOrPublicID(blogSlug, ident) :
       /\ pc' = [pc EXCEPT ![c] = "comment"]
       /\ arg' = [arg EXCEPT ![c] = [row |-> p, user |-> sess[c].user, name |-> NoName]]
  /\ UNCHANGED <<storeVars, phase, sess>>

SaveComment(c, text) ==
  /\ phase = "serving" /\ pc[c] = "comment"
  /\ \/ CreateComment(arg[c].row, arg[c].user, text)
     \/ UNCHANGED storeVars
  /\ pc' = [pc EXCEPT ![c] = "idle"]
  /\ arg' = [arg EXCEPT ![c] = NoArg]
  /\ UNCHANGED <<phase, sess>>

\* The address names the comment alone: its blog and post are not compared.
HandleDeleteComment(c, k) ==
  /\ Idle(c) /\ LoggedIn(c)
  /\ DeleteComment(k, sess[c].user)
  /\ UNCHANGED <<phase, clientVars>>

-----------------------------------------------------------------------------
(* post.go and blog.go: the code each page answers with when no call fails. *)

\* sql.ErrNoRows is not storage.ErrNotFound.
HandlePost(blogSlug, ident) ==
  IF GetPostBySlugOrPublicID(blogSlug, ident) = {} THEN 500 ELSE 200

\* GetBlogBySlug refuses a slug before it asks for it.
HandleBlog(blogSlug) ==
  IF blogSlug = BadSlug THEN 500
  ELSE IF GetBlogBySlug(blogSlug) = {} THEN 404 ELSE 200

-----------------------------------------------------------------------------
Idents == PostSlugs \cup PublicIds

Account(c) ==
  \/ \E n \in Names, pw \in Passwords : HandleRegister(c, n, pw) \/ HandleLogin(c, n, pw)
  \/ LoginSession(c)
  \/ EndSession(c)

Commenting(c) ==
  \/ \E blogSlug \in BlogSlugs, ident \in Idents : HandleComment(c, blogSlug, ident)
  \/ \E text \in Texts : SaveComment(c, text)
  \/ \E k \in Comments : HandleDeleteComment(c, k)

Request == \E c \in Clients : Account(c) \/ Commenting(c)

StoreCall ==
  /\ phase = "serving"
  /\ (AccountCall \/ BlogCall \/ PostCall \/ EditCall)
  /\ UNCHANGED <<phase, clientVars>>

SiteNext ==
  /\ (Start \/ Stop \/ Request \/ StoreCall)
  /\ writes' = IF tables' = tables THEN writes ELSE writes + 1
  /\ writes' <= MaxWrites

SiteSpec == SiteInit /\ [][SiteNext]_siteVars

-----------------------------------------------------------------------------
(* Properties.                                                             *)

\* Types; a session and a request refer to rows that are there.
TypeOK ==
  /\ StoreTypeOK
  /\ phase \in {"down", "serving", "refused"}
  /\ pc \in [Clients -> PC]
  /\ \A c \in Clients :
       /\ sess[c] = NoSession \/ (sess[c].user \in Users /\ sess[c].name \in Names)
       /\ pc[c] = "comment" => arg[c].row \in Posts
       /\ pc[c] \in {"comment", "login"} => arg[c].user \in Users
  /\ writes \in 0..MaxWrites

(* CommentCard compares names, DeleteComment compares ids: whoever is      *)
(* shown the Delete button of a comment owns it, whatever accounts were    *)
(* registered and deleted meanwhile and however the name was typed.        *)
ShowsDelete(c, k) == sess[c].name = AuthorName(k)
ShownDeleteIsOwn ==
  \A c \in Clients, k \in LiveComments : ShowsDelete(c, k) => k \in GetCommentsForUserID(sess[c].user)

(* A comment only ever belongs to a post that readers could open: listed   *)
(* and published, though its blog may have gone since.                     *)
CommentsOnListedPosts == \A k \in Comments : comments[k].post \in ListedPosts

(* No update of a blog that is there meets a constraint error: what the    *)
(* validator of the registration lets through, the table's CHECK does too. *)
ValidatorCoversCheck ==
  \A b \in LiveBlogs, mode \in Modes, limit \in Limits \cup {NoLimit} :
    ValidRegistration(mode, limit) => RegistrationCheck(mode, limit)

(* Bootstrap fails, and every later start with it, only if the admin was   *)
(* soft-deleted: the lookup skips the row, the unique name does not.       *)
OnlyDeletedAdminStopsStart ==
  phase = "refused" =>
    \E u \in Users : Fold[users[u].name] = Fold[AdminName] /\ users[u].deleted

(* What the error page says: "The page you are looking for doesn't exist"  *)
(* answers a request for a page that does not exist.  HandlePost and, for  *)
(* a slug the validator refuses, HandleBlog answer 500: violated.          *)
Addresses == BlogSlugs \cup {BadSlug}
MissingPageIs404 ==
  phase = "serving" => \A blogSlug \in Addresses :
    /\ GetBlogBySlug(blogSlug) = {} => HandleBlog(blogSlug) = 404
    /\ \A ident \in Idents :
         GetPostBySlugOrPublicID(blogSlug, ident) = {} => HandlePost(blogSlug, ident) = 404
=============================================================================
