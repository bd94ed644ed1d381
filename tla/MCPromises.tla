----------------------------- MODULE MCPromises -----------------------------
(***************************************************************************)
(* A small program: an executor, an async frame and one combinator.        *)
(***************************************************************************)
EXTENDS Promises

CONSTANTS e, f, c

Three == {e, f, c}
ThreeKinds == (e :> "executor") @@ (f :> "frame") @@ (c :> "combinator")

=============================================================================
