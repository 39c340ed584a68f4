----------------------------- MODULE MCRegistry -----------------------------
(* Registry with one configured service and one administrator.               *)
EXTENDS Registry, TLC

OneConfigured == ("p" :> "n")
=============================================================================
