---------------------------- MODULE MCComposerService --------------------------
(* The composer with a complete vendor library, or one that lacks a function *)
(* the service needs.                                                        *)
EXTENDS ComposerService, TLC

MCLibraries == {Required \cup Optional, (Required \cup Optional) \ {"CreateLayer"}}

ClientSymmetry == Permutations(Clients)
================================================================================
