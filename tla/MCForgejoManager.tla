--------------------------- MODULE MCForgejoManager ---------------------------
(* The host manager of Forgejo on small instances. *)
EXTENDS ForgejoManager, TLC

ReleaseOrder == <<"v1", "v2">>
=============================================================================
