------------------------------ MODULE MCIssuer ------------------------------
(***************************************************************************)
(* Model values for Issuer: the calls ask for one asset over and over, a   *)
(* retry's situation, except the last, which asks for another.             *)
(***************************************************************************)
EXTENDS Issuer

CONSTANT Odd  \* the calls that ask for another asset

MCSpecOf == [a \in Assets |-> IF a \in Odd THEN "silver" ELSE "gold"]
=============================================================================
