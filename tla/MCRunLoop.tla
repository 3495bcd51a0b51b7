----------------------------- MODULE MCRunLoop -----------------------------
(* Instances of RunLoop for TLC.                                           *)
EXTENDS RunLoop, TLC

CONSTANTS act, note, ask

AllTools  == {act, note, ask}
TwoTools  == {act, ask}
Acting    == {act}
Asking    == {ask}
=============================================================================
