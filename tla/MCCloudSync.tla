----------------------------- MODULE MCCloudSync -----------------------------
(* Small instances of CloudSync for TLC. *)
EXTENDS CloudSync, TLC

CONSTANTS laptop, desktop, p1, p2

OneEach == p1 :> laptop @@ p2 :> desktop

\* A device is exchanged together with its process.
Names == {p1 :> p1 @@ p2 :> p2 @@ laptop :> laptop @@ desktop :> desktop,
          p1 :> p2 @@ p2 :> p1 @@ laptop :> desktop @@ desktop :> laptop}
=============================================================================
