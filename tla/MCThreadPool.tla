---------------------------- MODULE MCThreadPool -----------------------------
(* Model-checking instance of ThreadPool; the bounds are in the .cfg.      *)
EXTENDS ThreadPool

CONSTANTS w1, w2, w3

=============================================================================
