----------------------------- MODULE MCCheckout -----------------------------
(* Small instances of Checkout: one or two references and ticket types. *)
EXTENDS Checkout, TLC

CONSTANTS w1, w2, r1, r2, std, vip, ann, bob

AllStd == [r \in Refs |-> std]
OneOfEach == [r \in Refs |-> IF r = r1 THEN std ELSE vip]
TwoBuyers == [r \in Refs |-> IF r = r1 THEN ann ELSE bob]
OneEach == [r \in Refs |-> 1]
TwoEach == [r \in Refs |-> 2]
OnePlace == [ty \in Types |-> 1]
TwoPlaces == [ty \in Types |-> 2]
FourPlaces == [ty \in Types |-> 4]

(* Workers are interchangeable. *)
WorkerSymmetry == Permutations(Workers)
=============================================================================
