------------------------------- MODULE MCSite -------------------------------
(* Site on small instances.  ADMIN is admin for COLLATE NOCASE.  The       *)
(* second database has the admin, a deleted reader with a comment, and two *)
(* blogs of the same slug, each with a post of the same slug; the first    *)
(* blog was deleted.                                                       *)
EXTENDS Site, TLC

CONSTANTS admin, ADMIN, ada, bob, s1, s2, t1, i1, i2, longname, h1, text1

MCFold == [n \in Names |-> IF n = ADMIN THEN admin ELSE n]
MCEmpty == <<<<>>, <<>>, <<>>, <<>>>>
MCUser(n, deleted) == [name |-> n, pass |-> h1, deleted |-> deleted]
MCBlog(deleted) == [owner |-> 1, slug |-> s1, visibility |-> "public", mode |-> "open",
                    limit |-> NoLimit, deleted |-> deleted]
MCPost(b, i) == [blog |-> b, publicId |-> i, slug |-> t1, key |-> <<s1, i>>,
                 listed |-> TRUE, published |-> "now"]
MCReused == <<<<MCUser(admin, FALSE), MCUser(ada, TRUE)>>,
              <<MCBlog(TRUE), MCBlog(FALSE)>>,
              <<MCPost(1, i1), MCPost(2, i2)>>,
              <<[post |-> 2, user |-> 2, text |-> text1, deleted |-> FALSE]>>>>
MCInitial == {MCEmpty, MCReused}

Symmetry == Permutations(Clients)
=============================================================================
