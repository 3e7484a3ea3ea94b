---------------------------- MODULE MCMigrations ------------------------------
(***************************************************************************)
(* An instance of Migrations for TLC: a release, one that appends a file   *)
(* and one in which a file was changed.                                    *)
(***************************************************************************)
EXTENDS Migrations

CONSTANTS init, initChanged, keys, indexes

MCContents == {init, initChanged, keys, indexes}

MCReleases == { << init, keys >>, << init, keys, indexes >>, << initChanged, keys >> }

ASSUME MCReleasesAppend == ReleasesAppend

MCStatements == [c \in MCContents |-> IF c = keys THEN 1 ELSE 2]
=============================================================================
