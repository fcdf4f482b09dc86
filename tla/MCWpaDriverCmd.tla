--------------------------- MODULE MCWpaDriverCmd ---------------------------
(* Instances of WpaDriverCmd for model checking.                            *)
EXTENDS WpaDriverCmd

(* Three lines, of five characters together.                                *)
Lines == <<2, 1, 2>>
=============================================================================
