------------------------------ MODULE MCMigrations ------------------------------
(***************************************************************************)
(* Two instances of the newest release, with the three files of the        *)
(* repository, and one of an older release that had only the first.        *)
(***************************************************************************)
EXTENDS Migrations, TLC

CONSTANTS old, a, b

MCInstances == {old, a, b}
MCRelease == old :> 1 @@ a :> 3 @@ b :> 3

=============================================================================
