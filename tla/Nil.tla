--------------------------------- MODULE Nil ---------------------------------
(* What the modules about requests and scores share.                       *)

CONSTANT Null   \* the nil pointer, the value that is absent
=============================================================================
