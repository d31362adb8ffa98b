--------------------------- MODULE MCServiceRegistry ---------------------------
(***************************************************************************)
(* Instances of the registry for TLC: each name has one registration,      *)
(* but for that of Newer, which overrides another's.                       *)
(***************************************************************************)
EXTENDS ServiceRegistry

CONSTANTS Newer, Older

MCName == [r \in Regs |-> IF r = Newer THEN Older ELSE r]
=============================================================================
