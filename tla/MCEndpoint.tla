----------------------------- MODULE MCEndpoint -----------------------------
(***************************************************************************)
(* Instances of IpcEndpoint for TLC: three processes, two inode numbers    *)
(* for sockets and one that belongs to something else.                     *)
(***************************************************************************)
EXTENDS IpcEndpoint, TLC

CONSTANTS p1, p2, p3, n1, n2, n3

=============================================================================
