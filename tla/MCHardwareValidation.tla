------------------------ MODULE MCHardwareValidation ------------------------
(* Two nodes of two templates, and a stranger with the account of one. *)
EXTENDS HardwareValidation, TLC

MCAccount == [t \in Templates |-> t]
MCTakes == [h \in Hosts |-> IF h = "n2" THEN {"t2"} ELSE {"t1"}]

\* All runs check invariants only, and no address is special.
Symmetry == Permutations(Pool)
=============================================================================
