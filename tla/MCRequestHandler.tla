-------------------------- MODULE MCRequestHandler --------------------------
(***************************************************************************)
(* Instances of RequestHandler for TLC: one user, two paths and the temp   *)
(* names of their updates.                                                 *)
(***************************************************************************)
EXTENDS StoreRefinement, TLC

CONSTANTS c1, c2, u1, a, b, at, bt, x

MCNames == {a, b, at, bt}
MCPaths == {a, b}

\* The temp names are nobody's paths ...
MCTemp == (a :> at @@ b :> bt)
\* ... or the user also has a file that is called a.temp.
MCTempTaken == (a :> b @@ b :> bt)

\* No action reads the last reply.
MCView == <<disk, conn, view, streams>>

MCPieces  == {<<x>>}
MCDigests == {<<x>>, <<x, x>>}
=============================================================================
