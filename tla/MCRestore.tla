----------------------------- MODULE MCRestore -----------------------------
(***************************************************************************)
(* The instance of Restore for TLC: one path and the temp name of its      *)
(* update, files of no symbol or one.                                      *)
(***************************************************************************)
EXTENDS Restore, TLC

CONSTANTS c1, c2, u1, a, at1, x

MCTemp    == (a :> at1)
MCPieces  == {<<>>, <<x>>}
MCDigests == {<<>>, <<x>>}
\* There may be an old file of the path, or a part of one.
MCBefore  == {(a :> old @@ at1 :> None) : old \in {None, <<>>, <<x>>}}
MCView    == <<disk, conn, view, streams, client, hindered>>
=============================================================================
