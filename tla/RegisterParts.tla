--------------------------- MODULE RegisterParts ---------------------------
(***************************************************************************)
(* The REGISTER breaker beside the location table, and what it promises,   *)
(* named once for the model checker and for the proofs.                    *)
(***************************************************************************)
EXTENDS Naturals

CONSTANTS Nodes, Users, Hash(_), Threshold, Windows, Budget, Cooldown

VARIABLES up, cool, fails, level, opened, window, probeBy, regPc, order, node, probe, dialed, left,
          current, result

Breaker == INSTANCE RegisterBreaker WITH open <- opened, pc <- regPc

ASSUME BreakerAssumption == Breaker!ConstantsOK

\* A half-open breaker has one probe out (see RegisterBreaker).
OneProbe == Breaker!TypeOK /\ Breaker!OneProbe
=============================================================================
