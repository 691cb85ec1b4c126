-------------------------- MODULE IpReserveProofs --------------------------
(***************************************************************************)
(* Theorems about IpReserve, for any number of nodes and any network size. *)
(*                                                                         *)
(* The argument rests on a closed form of the addresses a run hands out    *)
(* (IpmiAddr, PxeAddr).  AddrInv says that the counters, the template,     *)
(* what dnsmasq has loaded and the inventory follow it; LeaseInv says      *)
(* where the BMCs can be while the addresses change.                       *)
(***************************************************************************)
EXTENDS IpReserve, TLAPS

(* The assumption on the constants, in the form the provers need.          *)
LEMMA ConstantsTyped ==
  /\ N \in Nat /\ N >= 1 /\ Start \in Nat /\ Start >= 1
  /\ Shared \in BOOLEAN
  /\ Size["ipmi"] \in Nat /\ Size["pxe"] \in Nat
  /\ Start <= Size["ipmi"] /\ Start <= Size["pxe"]
  /\ Flaky \subseteq Nodes /\ Early \subseteq Nodes
  /\ Nodes \subseteq Nat /\ 1 \in Nodes
BY IpReserveAssumption DEF Nodes, Kinds

(* TypeOK is not inductive: the loop index is a node while the loop runs.  *)
TypeInv == TypeOK /\ (Writing => cur \in Nodes)

LEMMA TypeInit == Init => TypeInv
BY ConstantsTyped, SMTT(30)
DEF Init, TypeInv, TypeOK, Locations, Reservations, NoReservations, Nodes, Kinds,
    Unset, Writing

LEMMA TypeStep == TypeInv /\ [Next]_vars => TypeInv'
<1> SUFFICES ASSUME TypeInv, [Next]_vars PROVE TypeInv'
  OBVIOUS
<1> USE ConstantsTyped DEF TypeInv, TypeOK, Locations, Writing, inv
<1>net. \A k \in Kinds : Net(k) \in Kinds
  BY DEF Net, Kinds
<1>1. CASE ReserveIpmi
  <2>1. PICK net \in Kinds : net = Net("ipmi")
    BY <1>net DEF Kinds
  <2>2. cur \in Nodes
    BY <1>1 DEF ReserveIpmi, Taken, Adjusted
  <2>3. /\ [tmpl.host EXCEPT ![cur] = next[net]] \in [Nodes -> Nat]
        /\ [tmpl.pool EXCEPT ![net] = next[net] + 1] \in [Kinds -> Nat]
        /\ tmpl.pool \in [Kinds -> Nat]
        /\ [next EXCEPT ![net] = next[net] + 1] \in [Kinds -> Nat]
    BY <2>2 DEF Reservations
  <2>4. next' \in [Kinds -> Nat] /\ tmpl' \in Reservations
    BY <1>1, <2>1, <2>3 DEF ReserveIpmi, Taken, Adjusted, Reservations
  <2> QED BY <1>1, <2>2, <2>4 DEF ReserveIpmi, Taken, Adjusted, bmcs
<1>2. CASE ReservePxe
  <2>1. PICK net \in Kinds : net = Net("pxe")
    BY <1>net DEF Kinds
  <2>2. cur \in Nodes
    BY <1>2 DEF ReservePxe, Taken, Adjusted
  <2>3. /\ [tmpl.pool EXCEPT ![net] = next[net] + 1] \in [Kinds -> Nat]
        /\ [next EXCEPT ![net] = next[net] + 1] \in [Kinds -> Nat]
        /\ [pxe EXCEPT ![cur] = next[net]] \in [Nodes -> Nat]
    BY <2>2 DEF Reservations
  <2>8. next' \in [Kinds -> Nat] /\ tmpl' \in Reservations /\ dhcp' \in Reservations
    BY <1>2, <2>1, <2>3 DEF ReservePxe, Taken, Adjusted, Reservations
  <2>4. pxe' \in [Nodes -> Nat]
    BY <1>2, <2>1, <2>3 DEF ReservePxe, Taken, Adjusted
  <2>5. pend' \subseteq Nodes /\ todo' \subseteq Nodes
    BY <1>2, <2>2 DEF ReservePxe, Taken, Adjusted
  <2>6. cur' \in 1 .. N + 1 /\ (pc' = "reserve" => cur' \in Nodes) /\ pc' # "pxe"
    <3>1. \/ pc' = "failed" /\ cur' = cur
          \/ pc' = "reset" /\ cur = N /\ cur' = cur + 1
          \/ pc' = "reserve" /\ cur # N /\ cur' = cur + 1
      BY <1>2 DEF ReservePxe, Taken, Adjusted
    <3>2. /\ cur \in 1 .. N + 1
          /\ cur + 1 \in 1 .. N + 1
          /\ cur # N => cur + 1 \in Nodes
      BY <2>2 DEF Nodes
    <3> HIDE DEF TypeInv, TypeOK
    <3> QED BY <2>2, <3>1, <3>2
  <2>7. pc' \in Locations
    BY <1>2 DEF ReservePxe, Taken, Adjusted
  <2> QED BY <1>2, <2>8, <2>4, <2>5, <2>6, <2>7 DEF ReservePxe, Taken, Adjusted, bmcs
<1>3. ASSUME NEW n \in Nodes, ColdReset(n) PROVE TypeInv'
  BY <1>3 DEF ColdReset, Answers, files
<1>4. ASSUME NEW n \in Nodes, Probe(n) PROVE TypeInv'
  <2>1. ipmi' \in [Nodes -> Nat]
    BY <1>4 DEF Probe, Reservations
  <2> QED BY <1>4, <2>1 DEF Probe, files, bmcs
<1>5. CASE EndResets \/ EndPause \/ NextPass \/ Timeout
  BY <1>5 DEF EndResets, EndPause, NextPass, Timeout, files, loopVar, bmcs
<1>6. CASE Rerun
  BY <1>6 DEF Rerun, bmcs, Kinds
<1>7. ASSUME NEW m \in Nodes, BeginReset(m) PROVE TypeInv'
  BY <1>7 DEF BeginReset, files, loopVar
<1>8. ASSUME NEW m \in Nodes, Dhcp(m) PROVE TypeInv'
  <2>1. Offer(m) \subseteq Nat
    BY DEF Offer, Reservations, Net, Kinds
  <2> QED BY <1>8, <2>1 DEF Dhcp, files, loopVar
<1>9. CASE UNCHANGED vars
  BY <1>9 DEF vars
<1> QED
  BY <1>1, <1>2, <1>3, <1>4, <1>5, <1>6, <1>7, <1>8, <1>9
  DEF Next, Command, Environment

(* Every variable keeps its type: the loop index never leaves the node     *)
(* list by more than one, the bookkeeping names nodes only.                *)
THEOREM TypeCorrect == Spec => []TypeOK
<1>1. TypeInv => TypeOK
  BY DEF TypeInv
<1> QED BY <1>1, TypeInit, TypeStep, PTL DEF Spec

-----------------------------------------------------------------------------
IpmiAddr(n) == IF Shared THEN Start + 2 * n - 2 ELSE Start + n - 1
PxeAddr(n) == IF Shared THEN Start + 2 * n - 1 ELSE Start + n - 1

(* The networks have an address for every node, and one left for the pool. *)
Fits == IF Shared THEN Start + 2 * N < Size["ipmi"]
        ELSE \A k \in Kinds : Start + N < Size[k]

AllWritten == {"reset", "pause", "pass", "done"}

Offsets ==
  /\ Writing => cur \in Nodes /\ (~Shared => next["pxe"] = PxeAddr(cur))
  /\ pc = "reserve" => next["ipmi"] = IpmiAddr(cur)
  /\ pc = "pxe" => next["ipmi"] = IpmiAddr(cur) + 1
  /\ pc \in AllWritten => cur = N + 1

Written ==
  /\ \A n \in Served : /\ tmpl.host[n] = IpmiAddr(n)
                       /\ dhcp.host[n] = IpmiAddr(n)
                       /\ pxe[n] = PxeAddr(n)
  /\ pc = "pxe" => /\ tmpl.host[cur] = IpmiAddr(cur)
                   /\ tmpl.pool["ipmi"] = IpmiAddr(cur) + 1
  /\ cur > 1 => /\ dhcp.pool["ipmi"] = IpmiAddr(cur)
                /\ ~Shared => dhcp.pool["pxe"] = PxeAddr(cur)

Room ==
  /\ Writing => /\ next["ipmi"] <= Size["ipmi"]
                /\ ~Shared => next["pxe"] <= Size["pxe"]
  /\ pc = "pxe" => next["ipmi"] < Size["ipmi"]
  /\ pc \in AllWritten => Fits
  /\ pc = "failed" /\ Fits => cur = N + 1

AddrInv == TypeInv /\ Offsets /\ Written /\ Room

Recorded(n) == ipmi[n] = IpmiAddr(n)

(* Nodes not on nodes_list, or already a success of this pass, are at the  *)
(* address the inventory records.                                          *)
RecordInv ==
  /\ Writing => \A n \in Served : n \in pend \/ Recorded(n)
  /\ pc \in {"reset", "pause"} => \A n \in Nodes : n \in pend \/ Recorded(n)
  /\ pc = "pass" => \A n \in Nodes : n \in pend \ hits \/ Recorded(n)
  /\ pc = "done" => \A n \in Nodes : Recorded(n)

(* A BMC whose lease is neither its reservation nor past all reservations  *)
(* is still where the inventory says, and its reset is ahead of it.        *)
Unmoved(m) ==
  /\ lease[m] = ipmi[m]
  /\ \/ Writing
     \/ pc = "reset" /\ m \in todo
     \/ pc \in {"reset", "pause"} /\ m \in ordered

Settled(m) == lease[m] = IpmiAddr(m) \/ lease[m] >= IpmiAddr(N + 1)

(* BMCs that do what they are told and keep their lease while the          *)
(* reservations are written.                                               *)
Punctual == Nodes \ (Flaky \cup Early)

LeaseInv ==
  /\ \A m, n \in Nodes : m # n => lease[m] # lease[n]
  /\ Fits => \A m \in Punctual : up[m] => Settled(m) \/ Unmoved(m)


(* What the two halves of one round of the reservation loop do, with the   *)
(* network resolved.                                                       *)
IpmiEffect ==
  /\ pc = "reserve" /\ cur \in Nodes /\ cur' = cur
  /\ dhcp' = dhcp /\ pxe' = pxe /\ ipmi' = ipmi
  /\ pend' = pend /\ todo' = todo /\ hits' = hits
  /\ up' = up /\ lease' = lease /\ ordered' = ordered
  /\ \A n \in Nodes : n # cur => tmpl'.host[n] = tmpl.host[n]
  /\ \/ /\ pc' = "failed"
        /\ next["ipmi"] = Size["ipmi"] \/ next["ipmi"] + 1 = Size["ipmi"]
     \/ /\ pc' = "pxe"
        /\ next["ipmi"] # Size["ipmi"] /\ next["ipmi"] + 1 # Size["ipmi"]
        /\ next'["ipmi"] = next["ipmi"] + 1 /\ next'["pxe"] = next["pxe"]
        /\ tmpl'.host[cur] = next["ipmi"]
        /\ tmpl'.pool["ipmi"] = next["ipmi"] + 1
        /\ tmpl'.pool["pxe"] = tmpl.pool["pxe"]

LEMMA ReserveIpmiStep == TypeInv /\ ReserveIpmi => IpmiEffect
<1> SUFFICES ASSUME TypeInv, ReserveIpmi PROVE IpmiEffect
  OBVIOUS
<1> USE DEF IpmiEffect, TypeInv, TypeOK, Writing, Reservations
<1>1. Net("ipmi") = "ipmi"
  BY DEF Net
<1>2. cur \in Nodes /\ pc = "reserve"
  BY DEF ReserveIpmi, Taken, Adjusted
<1>3. \A n \in Nodes : n # cur => tmpl'.host[n] = tmpl.host[n]
  BY <1>2 DEF ReserveIpmi, Taken, Adjusted
<1>4. CASE Exhausted("ipmi", next["ipmi"]) \/ Exhausted("ipmi", next["ipmi"] + 1)
  BY <1>1, <1>2, <1>3, <1>4 DEF ReserveIpmi, Taken, Adjusted, Exhausted, inv, bmcs
<1>5. CASE ~(Exhausted("ipmi", next["ipmi"]) \/ Exhausted("ipmi", next["ipmi"] + 1))
  <2>1. /\ next' = [next EXCEPT !["ipmi"] = next["ipmi"] + 1]
        /\ tmpl' = [host |-> [tmpl.host EXCEPT ![cur] = next["ipmi"]],
                    pool |-> [tmpl.pool EXCEPT !["ipmi"] = next["ipmi"] + 1]]
        /\ pc' = "pxe"
    BY <1>1, <1>5 DEF ReserveIpmi, Taken, Adjusted
  <2>2. /\ next'["ipmi"] = next["ipmi"] + 1 /\ next'["pxe"] = next["pxe"]
        /\ tmpl'.host[cur] = next["ipmi"]
        /\ tmpl'.pool["ipmi"] = next["ipmi"] + 1
        /\ tmpl'.pool["pxe"] = tmpl.pool["pxe"]
    BY <1>2, <2>1 DEF Kinds
  <2> QED BY <1>2, <1>3, <1>5, <2>1, <2>2 DEF ReserveIpmi, Taken, Adjusted, Exhausted, inv, bmcs
<1> QED BY <1>4, <1>5

PxeEffect(k) ==
  /\ pc = "pxe" /\ cur \in Nodes
  /\ ipmi' = ipmi /\ hits' = hits
  /\ up' = up /\ lease' = lease /\ ordered' = ordered
  /\ tmpl'.host = tmpl.host
  /\ \A n \in Nodes : n # cur => pxe'[n] = pxe[n]
  /\ \/ /\ pc' = "failed" /\ cur' = cur
        /\ dhcp' = dhcp /\ pend' = pend /\ todo' = todo
        /\ next[k] = Size[k] \/ next[k] + 1 = Size[k]
     \/ /\ pc' = IF cur = N THEN "reset" ELSE "reserve"
        /\ cur' = cur + 1
        /\ next[k] # Size[k] /\ next[k] + 1 # Size[k]
        /\ next'[k] = next[k] + 1
        /\ \A j \in Kinds \ {k} : next'[j] = next[j]
        /\ pxe'[cur] = next[k]
        /\ dhcp' = tmpl'
        /\ tmpl'.pool[k] = next[k] + 1
        /\ \A j \in Kinds \ {k} : tmpl'.pool[j] = tmpl.pool[j]
        /\ pend' = IF tmpl.host[cur] # ipmi[cur] THEN pend \cup {cur} ELSE pend
        /\ cur = N => todo' = pend'

LEMMA ReservePxeStep ==
  ASSUME TypeInv, ReservePxe, NEW k \in Kinds, k = Net("pxe")
  PROVE  PxeEffect(k)
<1> USE DEF PxeEffect, TypeInv, TypeOK, Writing, Reservations
<1>1. cur \in Nodes /\ pc = "pxe"
  BY DEF ReservePxe, Taken, Adjusted
<1>2. \A n \in Nodes : n # cur => pxe'[n] = pxe[n]
  BY <1>1 DEF ReservePxe, Taken, Adjusted
<1>3. CASE Exhausted(k, next[k]) \/ Exhausted(k, next[k] + 1)
  BY <1>1, <1>2, <1>3 DEF ReservePxe, Taken, Adjusted, Exhausted, inv, bmcs
<1>4. CASE ~(Exhausted(k, next[k]) \/ Exhausted(k, next[k] + 1))
  <2>1. /\ next' = [next EXCEPT ![k] = next[k] + 1]
        /\ pxe' = [pxe EXCEPT ![cur] = next[k]]
        /\ tmpl' = [tmpl EXCEPT !.pool = [tmpl.pool EXCEPT ![k] = next[k] + 1]]
    BY <1>4 DEF ReservePxe, Taken, Adjusted
  <2>2. /\ next'[k] = next[k] + 1
        /\ \A j \in Kinds \ {k} : next'[j] = next[j]
        /\ pxe'[cur] = next[k]
        /\ tmpl'.pool[k] = next[k] + 1
        /\ \A j \in Kinds \ {k} : tmpl'.pool[j] = tmpl.pool[j]
        /\ tmpl'.host = tmpl.host
    BY <1>1, <2>1
  <2> QED BY <1>1, <1>2, <1>4, <2>2 DEF ReservePxe, Taken, Adjusted, Exhausted, inv, bmcs
<1> QED BY <1>3, <1>4

LEMMA AddrInit == Init => AddrInv
<1> SUFFICES ASSUME Init PROVE AddrInv
  OBVIOUS
<1>1. TypeInv
  BY TypeInit
<1>2. cur = 1 /\ pc = "reserve" /\ next["ipmi"] = Start /\ next["pxe"] = Start
  BY DEF Init, Kinds
<1>3. Offsets
  BY <1>2, ConstantsTyped DEF Offsets, Writing, AllWritten, IpmiAddr, PxeAddr
<1>4. Served = {}
  BY <1>2, ConstantsTyped DEF Served, Nodes
<1>5. Written
  BY <1>2, <1>4 DEF Written
<1>6. Room
  BY <1>2, ConstantsTyped DEF Room, Writing, AllWritten
<1> QED BY <1>1, <1>3, <1>5, <1>6 DEF AddrInv

LEMMA AddrStep == AddrInv /\ [Next]_vars => AddrInv'
<1> SUFFICES ASSUME AddrInv, [Next]_vars PROVE AddrInv'
  OBVIOUS
<1>type. TypeInv /\ TypeInv'
  BY TypeStep DEF AddrInv
<1>1. CASE ReserveIpmi
  <2>0. IpmiEffect
    BY <1>1, <1>type, ReserveIpmiStep
  <2>1. /\ cur' = cur /\ cur \in Nodes /\ cur \in Nat
        /\ Served' = Served /\ Served \subseteq Nodes /\ cur \notin Served
    BY <2>0, ConstantsTyped DEF IpmiEffect, Served
  <2>2. /\ next["ipmi"] \in Nat /\ next["pxe"] \in Nat
        /\ cur >= 1 /\ cur <= N
        /\ next["ipmi"] = IpmiAddr(cur) /\ next["ipmi"] <= Size["ipmi"]
        /\ ~Shared => next["pxe"] = PxeAddr(cur) /\ next["pxe"] <= Size["pxe"]
    BY <2>0, <2>1, <1>type
    DEF AddrInv, Offsets, Room, Writing, IpmiEffect, TypeInv, TypeOK, Nodes, Kinds
  <2>3. pc' = "failed" => ~Fits
    BY <2>0, <2>2, ConstantsTyped DEF IpmiEffect, Fits, IpmiAddr, PxeAddr, Kinds
  <2>4. Offsets'
    BY <2>0, <2>1, <2>2 DEF IpmiEffect, Offsets, Writing, AllWritten
  <2>5. Room'
    <3>1. CASE pc' = "failed"
      BY <2>3, <3>1 DEF Room, Writing, AllWritten
    <3>2. CASE pc' = "pxe"
      <4>1. /\ next'["ipmi"] \in Nat /\ next'["ipmi"] < Size["ipmi"]
            /\ next'["pxe"] = next["pxe"]
        BY <2>0, <2>2, <3>2, ConstantsTyped DEF IpmiEffect
      <4> QED BY <2>2, <3>2, <4>1, ConstantsTyped DEF Room, Writing, AllWritten
    <3> QED BY <2>0, <3>1, <3>2 DEF IpmiEffect
  <2>6. Written'
    BY <2>0, <2>1, <2>2 DEF IpmiEffect, AddrInv, Written
  <2> QED BY <1>type, <2>4, <2>5, <2>6 DEF AddrInv
<1>2. CASE ReservePxe
  <2> DEFINE k == Net("pxe")
  <2>1. k \in Kinds /\ k = (IF Shared THEN "ipmi" ELSE "pxe")
    BY DEF Net, Kinds
  <2>0. PxeEffect(k)
    BY <1>2, <1>type, <2>1, ReservePxeStep
  <2>2. cur \in Nodes /\ cur \in Nat /\ cur \notin Served /\ Served \subseteq Nodes
    BY <2>0, ConstantsTyped DEF PxeEffect, Served
  <2> HIDE DEF k
  <2>3. /\ next["ipmi"] \in Nat /\ next["pxe"] \in Nat
        /\ cur >= 1 /\ cur <= N
        /\ next["ipmi"] = IpmiAddr(cur) + 1 /\ next["ipmi"] < Size["ipmi"]
        /\ ~Shared => next["pxe"] = PxeAddr(cur) /\ next["pxe"] <= Size["pxe"]
        /\ tmpl.host[cur] = IpmiAddr(cur) /\ tmpl.pool["ipmi"] = IpmiAddr(cur) + 1
    BY <2>0, <2>2, <1>type
    DEF AddrInv, Offsets, Written, Room, Writing, PxeEffect, TypeInv, TypeOK, Nodes, Kinds
  <2>4. next[k] = PxeAddr(cur)
    BY <2>1, <2>2, <2>3, ConstantsTyped DEF IpmiAddr, PxeAddr
  <2>5. CASE pc' = "failed" /\ cur' = cur
    <3>1. ~Fits
      BY <2>0, <2>1, <2>3, <2>5, ConstantsTyped DEF PxeEffect, Fits, IpmiAddr, PxeAddr, Kinds
    <3>2. Served' = Served
      BY <2>5 DEF Served
    <3>3. dhcp' = dhcp /\ \A n \in Served : pxe'[n] = pxe[n] /\ tmpl'.host[n] = tmpl.host[n]
      BY <2>0, <2>2, <2>5 DEF PxeEffect
    <3>4. Written'
      BY <2>5, <3>2, <3>3 DEF AddrInv, Written
    <3>5. Offsets' /\ Room'
      BY <2>5, <3>1 DEF Offsets, Room, Writing, AllWritten
    <3> QED BY <1>type, <3>4, <3>5 DEF AddrInv
  <2>6. CASE cur' = cur + 1
    <3>0. cur' # cur
      BY <2>2, <2>6
    <3>1. /\ pc' = IF cur = N THEN "reset" ELSE "reserve"
          /\ next[k] # Size[k] /\ next[k] + 1 # Size[k]
          /\ next'[k] = next[k] + 1
          /\ \A j \in Kinds \ {k} : next'[j] = next[j]
          /\ pxe'[cur] = next[k]
          /\ dhcp' = tmpl'
          /\ tmpl'.pool[k] = next[k] + 1
          /\ \A j \in Kinds \ {k} : tmpl'.pool[j] = tmpl.pool[j]
          /\ tmpl'.host = tmpl.host
          /\ \A n \in Nodes : n # cur => pxe'[n] = pxe[n]
      BY <2>0, <3>0 DEF PxeEffect
    <3>2. /\ next'["ipmi"] = IpmiAddr(cur + 1)
          /\ ~Shared => next'["pxe"] = PxeAddr(cur + 1)
          /\ tmpl'.pool["ipmi"] = IpmiAddr(cur + 1)
          /\ ~Shared => tmpl'.pool["pxe"] = PxeAddr(cur + 1)
      BY <2>1, <2>2, <2>3, <2>4, <3>1, ConstantsTyped DEF IpmiAddr, PxeAddr, Kinds
    <3>3. /\ next'["ipmi"] < Size["ipmi"]
          /\ ~Shared => next'["pxe"] < Size["pxe"]
      BY <2>1, <2>3, <2>4, <3>1, ConstantsTyped DEF Kinds
    <3>4. cur # N => cur + 1 \in Nodes
      BY <2>2, <2>3, ConstantsTyped DEF Nodes
    <3>5. Offsets'
      BY <2>6, <3>1, <3>2, <3>4 DEF Offsets, Writing, AllWritten
    <3>6. cur = N => Fits
      BY <2>3, <3>2, <3>3, ConstantsTyped DEF Fits, IpmiAddr, PxeAddr, Kinds
    <3>7. Room'
      BY <2>6, <3>1, <3>2, <3>3, <3>6, ConstantsTyped, <1>type
      DEF Room, Writing, AllWritten, TypeInv, TypeOK, Kinds
    <3>8. Served' = Served \cup {cur}
      BY <2>2, <2>3, <2>6, ConstantsTyped DEF Served, Nodes
    <3>9. Written'
      BY <2>2, <2>3, <2>4, <2>6, <3>1, <3>2, <3>8 DEF AddrInv, Written
    <3> QED BY <1>type, <3>5, <3>7, <3>9 DEF AddrInv
  <2> QED BY <2>0, <2>5, <2>6 DEF PxeEffect
<1>3. ASSUME NEW n \in Nodes, ColdReset(n) PROVE AddrInv'
  BY <1>3, <1>type
  DEF ColdReset, files, inv, AddrInv, Offsets, Written, Room, Served, Writing, AllWritten
<1>4. ASSUME NEW n \in Nodes, Probe(n) PROVE AddrInv'
  BY <1>4, <1>type
  DEF Probe, files, AddrInv, Offsets, Written, Room, Served, Writing, AllWritten
<1>5. CASE EndResets \/ EndPause \/ NextPass \/ Timeout
  BY <1>5, <1>type
  DEF EndResets, EndPause, NextPass, Timeout, files, inv, loopVar,
      AddrInv, Offsets, Written, Room, Served, Writing, AllWritten
<1>6. CASE Rerun
  <2>1. cur' = 1 /\ pc' = "reserve" /\ next'["ipmi"] = Start /\ next'["pxe"] = Start
    BY <1>6 DEF Rerun, Kinds
  <2>2. Served' = {}
    BY <2>1, ConstantsTyped DEF Served, Nodes
  <2>3. Offsets' /\ Written' /\ Room'
    BY <2>1, <2>2, ConstantsTyped
    DEF Offsets, Written, Room, Writing, AllWritten, IpmiAddr, PxeAddr
  <2> QED BY <1>type, <2>3 DEF AddrInv
<1>7. ASSUME NEW m \in Nodes, BeginReset(m) \/ Dhcp(m) PROVE AddrInv'
  BY <1>7, <1>type
  DEF BeginReset, Dhcp, files, inv, loopVar,
      AddrInv, Offsets, Written, Room, Served, Writing, AllWritten
<1>8. CASE UNCHANGED vars
  BY <1>8, <1>type
  DEF vars, AddrInv, Offsets, Written, Room, Served, Writing, AllWritten
<1> QED
  BY <1>1, <1>2, <1>3, <1>4, <1>5, <1>6, <1>7, <1>8 DEF Next, Command, Environment

LEMMA AddrInvariant == Spec => []AddrInv
BY AddrInit, AddrStep, PTL DEF Spec

(* No address is handed out twice, whatever the number of nodes and        *)
(* whether the networks share one IPManager: the closed forms are          *)
(* injective and, on one network, interleave without meeting.              *)
THEOREM AddressesDisjoint == Spec => []ReservationsDisjoint
<1>1. AddrInv => ReservationsDisjoint
  BY ConstantsTyped, SMTT(30)
  DEF AddrInv, Written, ReservationsDisjoint, Served, Nodes, IpmiAddr, PxeAddr
<1> QED BY <1>1, AddrInvariant, PTL

(* The pool dnsmasq has loaded starts past every address assigned, also    *)
(* while the run goes on and after it stopped at a full network.           *)
THEOREM PoolNeverOverlaps == Spec => []PoolExcludesAssigned
<1>1. AddrInv => PoolExcludesAssigned
  <2> SUFFICES ASSUME AddrInv, NEW n \in Served
               PROVE  /\ dhcp.host[n] < dhcp.pool[Net("ipmi")]
                      /\ pxe[n] < dhcp.pool[Net("pxe")]
    BY DEF PoolExcludesAssigned
  <2>1. n \in Nat /\ n >= 1 /\ n < cur /\ cur \in Nat /\ cur > 1
    BY ConstantsTyped DEF AddrInv, TypeInv, TypeOK, Served, Nodes
  <2>2. /\ dhcp.host[n] = IpmiAddr(n) /\ pxe[n] = PxeAddr(n)
        /\ dhcp.pool["ipmi"] = IpmiAddr(cur)
        /\ ~Shared => dhcp.pool["pxe"] = PxeAddr(cur)
    BY <2>1 DEF AddrInv, Written
  <2> QED BY <2>1, <2>2, ConstantsTyped DEF Net, IpmiAddr, PxeAddr
<1> QED BY <1>1, AddrInvariant, PTL

-----------------------------------------------------------------------------
(* When all addresses are written the template has the reservation of      *)
(* every node.                                                             *)
LEMMA AllAssigned ==
  ASSUME AddrInv, cur = N + 1, NEW n \in Nodes
  PROVE  tmpl.host[n] = IpmiAddr(n) /\ dhcp.host[n] = IpmiAddr(n)
BY ConstantsTyped DEF AddrInv, Written, Served, Nodes

LEMMA RecordStep == AddrInv /\ RecordInv /\ [Next]_vars => RecordInv'
<1> SUFFICES ASSUME AddrInv, RecordInv, [Next]_vars PROVE RecordInv'
  OBVIOUS
<1>type. TypeInv /\ AddrInv'
  BY AddrStep DEF AddrInv
<1>1. CASE ReserveIpmi
  <2>1. IpmiEffect
    BY <1>1, <1>type, ReserveIpmiStep
  <2> QED BY <2>1 DEF IpmiEffect, RecordInv, Recorded, Served, Writing
<1>2. CASE ReservePxe
  <2> DEFINE k == Net("pxe")
  <2>1. k \in Kinds
    BY DEF Net, Kinds
  <2>2. PxeEffect(k)
    BY <1>2, <1>type, <2>1, ReservePxeStep
  <2> HIDE DEF k
  <2>3. CASE pc' = "failed"
    BY <2>3 DEF RecordInv, Writing
  <2>4. CASE cur' = cur + 1
    <3>1. cur \in Nodes /\ cur \in 1 .. N
      BY <2>2 DEF PxeEffect, Nodes
    <3>2. tmpl.host[cur] = IpmiAddr(cur)
      BY <2>2 DEF PxeEffect, AddrInv, Written
    <3>3. cur + 1 # cur
      BY <3>1, ConstantsTyped
    <3>4. /\ ipmi' = ipmi
          /\ pc' = IF cur = N THEN "reset" ELSE "reserve"
          /\ pend' = IF tmpl.host[cur] # ipmi[cur] THEN pend \cup {cur} ELSE pend
      BY <2>2, <2>4, <3>3 DEF PxeEffect
    <3>5. \A n \in Served \cup {cur} : n \in pend' \/ ipmi'[n] = IpmiAddr(n)
      BY <2>2, <3>2, <3>4 DEF PxeEffect, RecordInv, Recorded, Writing
    <3>6. Served' = Served \cup {cur} /\ (cur = N => Nodes \subseteq Served \cup {cur})
      BY <2>4, <3>1, ConstantsTyped DEF Served, Nodes
    <3> QED BY <3>4, <3>5, <3>6 DEF RecordInv, Recorded, Writing
  <2> QED BY <2>2, <2>3, <2>4 DEF PxeEffect
<1>3. ASSUME NEW n \in Nodes, ColdReset(n) PROVE RecordInv'
  BY <1>3 DEF ColdReset, files, inv, RecordInv, Recorded, Writing
<1>4. ASSUME NEW n \in Nodes, Probe(n) PROVE RecordInv'
  <2>1. tmpl.host[n] = IpmiAddr(n)
    BY <1>4, AllAssigned DEF Probe, AddrInv, Offsets, AllWritten
  <2>2. \/ ipmi' = ipmi /\ hits' = hits
        \/ ipmi' = [ipmi EXCEPT ![n] = IpmiAddr(n)] /\ hits' = hits \cup {n}
    BY <1>4, <2>1 DEF Probe
  <2>3. \A m \in Nodes : m \in pend \ hits' \/ ipmi'[m] = IpmiAddr(m)
    BY <1>4, <1>type, <2>2 DEF Probe, RecordInv, Recorded, TypeInv, TypeOK
  <2> QED BY <1>4, <2>3 DEF Probe, RecordInv, Recorded, Writing
<1>5. CASE EndResets \/ EndPause \/ NextPass \/ Timeout
  BY <1>5
  DEF EndResets, EndPause, NextPass, Timeout, files, inv, loopVar,
      RecordInv, Recorded, Writing
<1>6. CASE Rerun
  <2>1. pc' = "reserve" /\ cur' = 1
    BY <1>6 DEF Rerun
  <2>2. Served' = {}
    BY <2>1, ConstantsTyped DEF Served, Nodes
  <2> QED BY <2>1, <2>2 DEF RecordInv, Writing
<1>7. ASSUME NEW m \in Nodes, BeginReset(m) \/ Dhcp(m) PROVE RecordInv'
  BY <1>7 DEF BeginReset, Dhcp, files, inv, loopVar, RecordInv, Recorded, Served, Writing
<1>8. CASE UNCHANGED vars
  BY <1>8 DEF vars, RecordInv, Recorded, Served, Writing
<1> QED
  BY <1>1, <1>2, <1>3, <1>4, <1>5, <1>6, <1>7, <1>8 DEF Next, Command, Environment

LEMMA RecordInit == Init => RecordInv
<1> SUFFICES ASSUME Init PROVE RecordInv
  OBVIOUS
<1>1. pc = "reserve" /\ Served = {}
  BY ConstantsTyped DEF Init, Served, Nodes
<1> QED BY <1>1 DEF RecordInv, Writing

(* A run that ends well leaves the inventory and dnsmasq in agreement on   *)
(* every BMC, however many passes the polling took and in whatever order   *)
(* the BMCs answered.                                                      *)
THEOREM DoneIsRecorded == Spec => []DoneRecordsAll
<1>1. AddrInv /\ RecordInv => DoneRecordsAll
  <2> SUFFICES ASSUME AddrInv, RecordInv, pc = "done", NEW n \in Nodes
               PROVE  ipmi[n] = dhcp.host[n]
    BY DEF DoneRecordsAll
  <2>1. cur = N + 1
    BY DEF AddrInv, Offsets, AllWritten
  <2> QED BY <2>1, AllAssigned DEF RecordInv, Recorded
<1> QED BY <1>1, AddrInit, AddrStep, RecordInit, RecordStep, PTL DEF Spec

-----------------------------------------------------------------------------
(* The address recorded for a node is its own BMC's.                       *)
LEMMA LeaseInit == Init => LeaseInv
BY ConstantsTyped DEF Init, LeaseInv, Unmoved, Writing, Punctual

LEMMA LeaseStep == AddrInv /\ RecordInv /\ LeaseInv /\ [Next]_vars => LeaseInv'
<1> SUFFICES ASSUME AddrInv, RecordInv, LeaseInv, [Next]_vars PROVE LeaseInv'
  OBVIOUS
<1>type. TypeInv /\ AddrInv' /\ RecordInv'
  BY AddrStep, RecordStep DEF AddrInv
<1>p. Punctual \subseteq Nodes
  BY DEF Punctual
<1>1. CASE ReserveIpmi
  <2>1. IpmiEffect
    BY <1>1, <1>type, ReserveIpmiStep
  <2>2. cur' = cur /\ cur # N + 1
    BY <2>1, ConstantsTyped DEF IpmiEffect, Nodes
  <2>3. pc' = "failed" => ~Fits
    BY <1>type, <2>2 DEF AddrInv, Room
  <2> QED BY <2>1, <2>3 DEF IpmiEffect, LeaseInv, Settled, Unmoved, Writing
<1>2. CASE ReservePxe
  <2> DEFINE k == Net("pxe")
  <2>1. k \in Kinds
    BY DEF Net, Kinds
  <2>2. PxeEffect(k)
    BY <1>2, <1>type, <2>1, ReservePxeStep
  <2> HIDE DEF k
  <2>3. cur # N + 1
    BY <2>2, ConstantsTyped DEF PxeEffect, Nodes
  <2>4. CASE pc' = "failed"
    <3>1. cur' = cur
      BY <2>2, <2>4 DEF PxeEffect
    <3>2. ~Fits
      BY <1>type, <2>3, <2>4, <3>1 DEF AddrInv, Room
    <3> QED BY <2>2, <3>2 DEF PxeEffect, LeaseInv
  <2>5. CASE pc' = "reserve"
    BY <2>2, <2>5 DEF PxeEffect, LeaseInv, Settled, Unmoved, Writing
  <2>6. CASE pc' = "reset"
    <3>1. cur = N /\ todo' = pend'
      BY <2>2, <2>6 DEF PxeEffect
    <3>2. \A m \in Nodes : m \in todo' \/ ipmi'[m] = IpmiAddr(m)
      BY <1>type, <2>6, <3>1 DEF RecordInv, Recorded
    <3> QED BY <1>p, <2>2, <2>6, <3>2 DEF PxeEffect, LeaseInv, Settled, Unmoved, Writing
  <2> QED BY <2>2, <2>4, <2>5, <2>6 DEF PxeEffect
<1>3. ASSUME NEW n \in Nodes, ColdReset(n) PROVE LeaseInv'
  <2>1. /\ pc = "reset" /\ pc' = pc /\ todo' = todo \ {n}
        /\ ipmi' = ipmi /\ up' = up /\ lease' = lease
    BY <1>3 DEF ColdReset, inv
  <2>2. ordered \subseteq ordered'
    BY <1>3 DEF ColdReset
  <2>3. ASSUME n \in Punctual, up[n], lease[n] = ipmi[n] PROVE n \in ordered'
    <3>1. n \in Answers(ipmi[n], n)
      BY <2>3 DEF Answers
    <3>2. PICK m \in Answers(ipmi[n], n) : ordered' = ordered \cup {m}
      BY <1>3, <2>3, <3>1 DEF ColdReset, Punctual
    <3>3. m = n
      BY <2>3, <3>2 DEF Answers, LeaseInv
    <3> QED BY <3>2, <3>3
  <2> QED BY <2>1, <2>2, <2>3 DEF LeaseInv, Settled, Unmoved, Writing
<1>4. ASSUME NEW n \in Nodes, Probe(n) PROVE LeaseInv'
  BY <1>4 DEF Probe, bmcs, LeaseInv, Settled, Unmoved, Writing
<1>5. CASE EndResets \/ EndPause \/ NextPass \/ Timeout \/ Rerun
  BY <1>5
  DEF EndResets, EndPause, NextPass, Timeout, Rerun, inv, loopVar, bmcs,
      LeaseInv, Settled, Unmoved, Writing, Punctual
<1>6. ASSUME NEW m \in Nodes, BeginReset(m) PROVE LeaseInv'
  BY <1>6, <1>type
  DEF BeginReset, inv, loopVar, LeaseInv, Settled, Unmoved, Writing, TypeInv, TypeOK
<1>7. ASSUME NEW m \in Nodes, Dhcp(m) PROVE LeaseInv'
  <2>1. ~Writing \/ m \notin Punctual
    BY <1>7 DEF Dhcp, Punctual
  <2>2. PICK a \in Offer(m) : lease' = [lease EXCEPT ![m] = a]
    BY <1>7 DEF Dhcp
  <2>3. a = lease[m] \/ Free(a, m)
    BY <2>2 DEF Offer
  <2>4. \A i, j \in Nodes : i # j => lease'[i] # lease'[j]
    BY <1>type, <2>2, <2>3 DEF LeaseInv, Free, TypeInv, TypeOK
  <2>5. ASSUME Fits, m \in Punctual PROVE a = IpmiAddr(m) \/ a >= IpmiAddr(N + 1)
    <3>1. cur = N + 1 /\ cur > 1
      BY <1>type, <2>1, <2>5, ConstantsTyped
      DEF AddrInv, Offsets, Room, Writing, AllWritten, TypeInv, TypeOK, Locations
    <3>2. dhcp.host[m] = IpmiAddr(m) /\ dhcp.pool["ipmi"] = IpmiAddr(N + 1)
      BY <3>1, AllAssigned DEF AddrInv, Written
    <3>3. IpmiAddr(N + 1) \in Nat
      BY ConstantsTyped DEF IpmiAddr
    <3>4. Net("ipmi") = "ipmi"
      BY DEF Net
    <3>5. a = IpmiAddr(m) \/ a \in dhcp.pool["ipmi"] .. Size["ipmi"] - 1
      BY <2>2, <3>2, <3>4 DEF Offer, InPool
    <3> QED BY <3>2, <3>3, <3>5, ConstantsTyped
  <2>6. /\ lease'[m] = a
        /\ \A n \in Nodes \ {m} : lease'[n] = lease[n] /\ up'[n] = up[n]
        /\ pc' = pc /\ ipmi' = ipmi /\ todo' = todo /\ ordered' = ordered
    BY <1>7, <1>type, <2>2 DEF Dhcp, inv, loopVar, TypeInv, TypeOK
  <2> QED BY <1>p, <2>4, <2>5, <2>6 DEF LeaseInv, Settled, Unmoved, Writing
<1>8. CASE UNCHANGED vars
  BY <1>8 DEF vars, LeaseInv, Settled, Unmoved, Writing
<1> QED
  BY <1>1, <1>2, <1>3, <1>4, <1>5, <1>6, <1>7, <1>8 DEF Next, Command, Environment

(* Whatever the logins are, as a rule those of a template are one: if each *)
(* BMC that fails what it is asked or moves while the reservations are     *)
(* written has a login no other has, the polling never takes one BMC for   *)
(* another, although the new address of a node is the present one of       *)
(* another BMC.                                                            *)
THEOREM PunctualRecordsOwn ==
  ASSUME \A m \in Flaky \cup Early : \A n \in Nodes \ {m} : Cred[n] # Cred[m]
  PROVE  Spec => RecordsOwnBmc
<1>1. AddrInv /\ RecordInv /\ LeaseInv /\ [Next]_vars =>
        [\A n \in Nodes : ipmi'[n] # ipmi[n] => up[n] /\ lease[n] = ipmi'[n]]_vars
  <2> SUFFICES ASSUME AddrInv, LeaseInv, [Next]_vars,
                      NEW n \in Nodes, ipmi'[n] # ipmi[n]
               PROVE  up[n] /\ lease[n] = ipmi'[n]
    OBVIOUS
  <2>1. ASSUME NEW m \in Nodes, Probe(m) PROVE up[n] /\ lease[n] = ipmi'[n]
    <3>1. /\ pc = "pass"
          /\ ipmi' = [ipmi EXCEPT ![m] = tmpl.host[m]]
          /\ Answers(tmpl.host[m], m) # {}
      BY <2>1 DEF Probe
    <3>2. m = n /\ ipmi'[n] = tmpl.host[n]
      BY <3>1 DEF AddrInv, TypeInv, TypeOK
    <3>3. Fits /\ cur = N + 1
      BY <3>1 DEF AddrInv, Offsets, Room, AllWritten
    <3>4. tmpl.host[n] = IpmiAddr(n)
      BY <3>3, AllAssigned
    <3>5. PICK b \in Nodes : up[b] /\ lease[b] = IpmiAddr(n) /\ Cred[b] = Cred[n]
      BY <3>1, <3>2, <3>4 DEF Answers
    <3>6. ASSUME b \in Punctual PROVE b = n
      <4>1. Settled(b)
        BY <3>1, <3>3, <3>5, <3>6 DEF LeaseInv, Unmoved, Writing
      <4>2. b = n
        BY <3>5, <4>1, ConstantsTyped DEF Settled, IpmiAddr, Nodes
      <4> QED BY <4>2
    <3>7. b = n
      BY <3>5, <3>6 DEF Punctual
    <3> QED BY <3>2, <3>4, <3>5, <3>7
  <2> QED
    BY <2>1
    DEF Next, Command, Environment, vars, inv, ReserveIpmi, ReservePxe, Taken, Adjusted, ColdReset,
        EndResets, EndPause, NextPass, Timeout, Rerun, BeginReset, Dhcp
<1> QED
  BY <1>1, AddrInit, AddrStep, RecordInit, RecordStep, LeaseInit, LeaseStep, PTL
  DEF Spec, RecordsOwnBmc
=============================================================================
