---------------------------- MODULE MCEmailLogin ----------------------------
(* An instance of EmailLogin for TLC: two tabs of one browser.              *)
EXTENDS EmailLogin, TLC

OneBrowser == [t \in Tabs |-> CHOOSE b \in Browsers : TRUE]

TabSymmetry == Permutations(Tabs)
=============================================================================
