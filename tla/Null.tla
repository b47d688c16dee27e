-------------------------------- MODULE Null --------------------------------
(* What the services' rows and answers hold where there is nothing. *)
CONSTANT None   \* null, undefined, a missing row
=============================================================================
