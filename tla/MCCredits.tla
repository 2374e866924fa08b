----------------------------- MODULE MCCredits -----------------------------
(* The model-checking instance of Credits; values are in the .cfg file.      *)
EXTENDS Credits
=============================================================================
