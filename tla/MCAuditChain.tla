---------------------------- MODULE MCAuditChain ----------------------------
(* Instances of AuditChain for TLC. *)
EXTENDS AuditChain

ThreeEvents == {"e1", "e2", "e3"}
TwoTenants == [e \in ThreeEvents |-> IF e = "e3" THEN "beta" ELSE "acme"]
OneTenant == [e \in ThreeEvents |-> "acme"]
=============================================================================
