---------------------------- MODULE MCPublishCreate ----------------------------
(***************************************************************************)
(* PublishCreate with two tasks of the plugin, each on a collection of its *)
(* own, of the same name, or both on one set; and what the slugs are for   *)
(* any short name.                                                         *)
(***************************************************************************)
EXTENDS PublishCreate, Slugs

CONSTANTS t1, t2, c1, c2, MaxNameLen, MaxTroubles, MaxPhotoTroubles

MCWork == {[sets |-> FALSE, of |-> (t1 :> c1) @@ (t2 :> c2), photos |-> {}, troubles |-> MaxTroubles],
           [sets |-> TRUE, of |-> (t1 :> c1) @@ (t2 :> c1), photos |-> {}, troubles |-> MaxTroubles],
           [sets |-> FALSE, of |-> (t1 :> c1) @@ (t2 :> None), photos |-> Photo, troubles |-> MaxPhotoTroubles]}

\* The slugs of PublishCreate that are valid ones whatever the common name is.
MCServed == {s \in Slug : \A name \in BoundedSeq(Class, MaxNameLen) :
               ValidSlug(IF s = 0 THEN Slugify(name) ELSE Suffixed(Slugify(name)))}

\* Whatever the user called an album, the slug it has got, at once or after a
\* collision, is one that requests are routed by ("validSlug reports whether s
\* could have been produced by slugify", access.go:12): no album is created that
\* nobody can open.
SlugsAreServed == \A i \in Live : rows[i].slug \in MCServed
=============================================================================
