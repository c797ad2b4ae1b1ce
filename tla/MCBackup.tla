------------------------------ MODULE MCBackup ------------------------------
(***************************************************************************)
(* Instances of Backup for TLC: one user, one or two paths.                *)
(***************************************************************************)
EXTENDS Backup

CONSTANTS c1, u1, a, b, at, bt, x, y

MCNames1 == {a, at}
MCPaths1 == {a}
MCTemp1  == (a :> at)
MCNames2 == {a, b, at, bt}
MCPaths2 == {a, b}
MCTemp2  == (a :> at @@ b :> bt)

\* Files of one message ...
MCShort == {<<x>>, <<y>>}
\* ... of two, and the empty one.
MCLong  == {<<>>, <<y>>, <<x, y>>}
=============================================================================
