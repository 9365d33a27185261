------------------------------ MODULE MCApiCache ------------------------------
(* An instance of ApiCache; its bounds are in the .cfg.                        *)
EXTENDS ApiCache
===============================================================================
