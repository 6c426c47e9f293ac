--------------------------- MODULE MCAdminConsole ----------------------------
(* AdminConsole on a small instance. *)
EXTENDS AdminConsole, TLC

Interchangeable == Permutations(Workers)
=============================================================================
