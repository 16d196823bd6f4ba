------------------------- MODULE MCPaymentReceipts -------------------------
(* PaymentReceipts on a small instance. *)
EXTENDS PaymentReceipts
CONSTANTS e1, e2, t1

(* e1 pays t1; e2 is each thing the chain may show the listener. *)
MCSays ==
    [e \in Receipts |->
        IF e = e1 THEN {<<t1, "exact">>}
        ELSE {<<t1, f>> : f \in Forms \ {"misaddressed"}}
             \cup {<<Nobody, "exact">>, <<Nobody, "misaddressed">>}]
============================================================================
