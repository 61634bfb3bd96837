-------------------------- MODULE MCSchemaMigrations --------------------------
(* Instances of SchemaMigrations for TLC. *)
EXTENDS SchemaMigrations, TLC

CONSTANTS older, newer, edited, s1, s2, s3, s4

\* The newer release has a script more than the older; in the edited one the
\* second script has been changed.
Releases ==
  [m \in Migrators |->
    CASE m = older  -> (1 :> s1) @@ (2 :> s2)
      [] m = newer  -> (1 :> s1) @@ (2 :> s2) @@ (3 :> s3)
      [] m = edited -> (1 :> s1) @@ (2 :> s4)]
=============================================================================
