-------------------------- MODULE MCBlockDownload ---------------------------
(***************************************************************************)
(* BlockDownload with two peers, one of them local, and two blocks.        *)
(***************************************************************************)
EXTENDS BlockDownload

CONSTANTS p, q, x, y

=============================================================================
