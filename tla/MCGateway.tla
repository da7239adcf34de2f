----------------------------- MODULE MCGateway -----------------------------
(* An instance of Gateway for TLC.  The hash functions put the key between *)
(* points, or past the last one; Tied gives two nodes a point of one hash. *)
EXTENDS Gateway, TLC

CONSTANTS n1, n2, n3, k1

Past == [label |-> (n1 :> <<4, 2, 3, 7>>) @@ (n2 :> <<5, 0>>) @@ (n3 :> <<1, 6>>),
         key   |-> (k1 :> 8)]
Tied == [label |-> (n1 :> <<3, 1, 7, 4>>) @@ (n2 :> <<3, 5>>) @@ (n3 :> <<6, 0>>),
         key   |-> (k1 :> 2)]

HashFunctions == {Past, Tied}

Configurations == {(n1 :> 1) @@ (n3 :> 1), (n2 :> 1) @@ (n3 :> 1),
                   (n1 :> 2) @@ (n2 :> 1) @@ (n3 :> 1)}
=============================================================================
