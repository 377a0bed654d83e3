---------------------------- MODULE MCFriendManager ----------------------------
(* The host manager of Imaginary Friend on small instances. *)
EXTENDS FriendManager, TLC

ReleaseOrder == <<"v1", "v2">>
=============================================================================
