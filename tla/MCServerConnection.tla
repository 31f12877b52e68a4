------------------------ MODULE MCServerConnection ------------------------
(***************************************************************************)
(* Bounds of ServerConnection for TLC.  The smallest buffer makes records   *)
(* of 8 bytes at most: out() fills more than one, and what is left of it,   *)
(* like what err() writes, has to be padded.                                *)
(***************************************************************************)
EXTENDS ServerConnection

MCMaxBytes == [out |-> 11, err |-> 5]
MCFewBytes == [out |-> 8, err |-> 3]

=============================================================================
