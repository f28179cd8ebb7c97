----------------------------- MODULE MCWebClient -----------------------------
(* Instance of WebClient for TLC: tabs and calls are interchangeable,       *)
(* requests are not, as they are numbered in the order they are sent.       *)
EXTENDS WebClient, TLC

ClientSymmetry == Permutations(Tabs) \cup Permutations(Calls)
=============================================================================
