--------------------------- MODULE MCInvitations ---------------------------
(***************************************************************************)
(* Small instances of Invitations.                                         *)
(***************************************************************************)
EXTENDS Invitations

CONSTANTS i1, i2, w1, w2, u1
=============================================================================
