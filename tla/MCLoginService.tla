--------------------------- MODULE MCLoginService ---------------------------
(***************************************************************************)
(* Instances of LoginService for TLC: every client may ask for every ID.   *)
(***************************************************************************)
EXTENDS LoginService

Anyone == Conns \X IDs
=============================================================================
