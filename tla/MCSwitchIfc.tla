---------------------------- MODULE MCSwitchIfc ----------------------------
(* Instances of SwitchIfc.  Interface 1 is the one of the documented setup *)
(* of a Lenovo switch (docs/Setup.rst), the one the ssh sessions use.      *)
EXTENDS SwitchIfc, TLC

Conf(h, v) == [op |-> "configure", host |-> h, vlan |-> v]
Rem(h, v) == [op |-> "remove", host |-> h, vlan |-> v]
Ifc(h, v) == [host |-> h, vlan |-> v]

\* interfaces 1, 2 and 5 exist: 3 and 4 are the numbers to hand out, and 2
\* when its interface has been removed
Gap == 1 :> Ifc("m", 1) @@ 2 :> Ifc("x", 2) @@ 5 :> Ifc("y", 1)
\* both processes configure an interface and remove the same one, in the
\* opposite order: they can choose one number, and remove a number in which
\* the other has since configured its interface
Pair == "p" :> <<Conf("a", 2), Rem("x", 2)>> @@ "q" :> <<Rem("x", 2), Conf("c", 3)>>
=============================================================================
