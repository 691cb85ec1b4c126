----------------------------- MODULE SwitchTable -----------------------------
(***************************************************************************)
(* What the lock of send_cmd promises the callers of a switch: its table   *)
(* of in-band interfaces is changed by one whole command after the other.  *)
(* Nobody sees, or leaves, an interface with the address of one call and   *)
(* the vlan of another.  SwitchIfc, where a session sends line after line  *)
(* and processes come and go between lines, implements this.               *)
(***************************************************************************)
CONSTANTS Slot,     \* interface numbers
          Wish,     \* the interfaces some caller may ask for
          Unused,   \* what a number holds that is not configured
          First     \* the table at the start

VARIABLE table

TableInit == table = First

(* CREATE_INTERFACE, address and vlan together. *)
Create(s, ifc) == table' = [table EXCEPT ![s] = ifc]

(* REMOVE_IFC. *)
Delete(s) == table' = [table EXCEPT ![s] = Unused]

TableNext == \E s \in Slot : Delete(s) \/ \E ifc \in Wish : Create(s, ifc)

TableSpec == TableInit /\ [][TableNext]_table
=============================================================================
