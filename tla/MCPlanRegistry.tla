---------------------------- MODULE MCPlanRegistry ----------------------------
(***************************************************************************)
(* Small instances of PlanRegistry: an XRDConversionConfig and a           *)
(* CRDConversionConfig of the same name, two target names, two rule sets.  *)
(***************************************************************************)
EXTENDS PlanRegistry

MCConfigs == {"x", "c"}
MCKindOf == [x |-> "xrd", c |-> "crd"]
MCNameOf == [x |-> "a", c |-> "a"]
MCTargets == {"t1", "t2"}
MCRules == {"r1", "r2"}
MCPool == {"w1"}
=============================================================================
