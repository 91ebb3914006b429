---------------------------- MODULE AztLaneLedger ----------------------------
(***************************************************************************)
(* The AZT lane implements the sale ledger: the meter of a sale is the     *)
(* pump's register, its bill the rows the service wrote for it.            *)
(***************************************************************************)
EXTENDS AztLane

(* The register of the arm while the pump keeps it, then what it was when it  *)
(* was given up.                                                              *)
Metered(a) ==
    IF \E c \in cleared : c.arm = a
    THEN (CHOOSE c \in cleared : c.arm = a).volume
    ELSE IF \E h \in Hose : arm[h] = a
    THEN pump[CHOOSE h \in Hose : arm[h] = a].volume
    ELSE 0

Billed(a) ==
    LET rows == {r \in recorded : r.arm = a /\ r.volume > 0}
    IN  IF rows = {} THEN 0 ELSE (CHOOSE r \in rows : TRUE).volume

SL == INSTANCE SaleLedger WITH
          Sale   <- Arm,
          meter  <- [a \in Arm |-> Metered(a)],
          bill   <- [a \in Arm |-> Billed(a)],
          gone   <- {c.arm : c \in cleared}

(* Every step of the pump, the wire, the service and its crashes is a step of the
   ledger or none: no sale is lost, billed twice, billed short or credited apart
   from its bill. *)
LedgerSpec == SL!Spec
=============================================================================
