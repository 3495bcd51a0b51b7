--------------------------- MODULE MCIrohAdmission ---------------------------
(***************************************************************************)
(* Instances of IrohAdmission for TLC: a phone that dials twice.            *)
(***************************************************************************)
EXTENDS IrohAdmission, TLC

CONSTANTS c1, c2, phone

TwoConns == {c1, c2}
Redials  == c1 :> phone @@ c2 :> phone
OnePeer  == {phone}
=============================================================================
