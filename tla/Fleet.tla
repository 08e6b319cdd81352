-------------------------------- MODULE Fleet --------------------------------
(***************************************************************************)
(* The hub's two kinds of signed documents over one membership and one     *)
(* clock: the manifest (RegistryManifest) and the handoff (Handoff).       *)
(***************************************************************************)
EXTENDS RegistryManifest, Handoff

fleetVars == <<clockVars, memberVars, manifestVars, handoffVars>>

FleetInit == ClockInit /\ MemberInit /\ ManifestInit /\ HandoffInit

ClockMoves ==
  /\ Advance(Horizon) \/ StepBack
  /\ UNCHANGED <<memberVars, manifestVars, handoffVars>>

FleetNext ==
  \/ ClockMoves
  \/ MemberStep /\ UNCHANGED <<manifestVars, handoffVars>>
  \/ ManifestStep /\ UNCHANGED handoffVars
  \/ HandoffStep /\ UNCHANGED manifestVars

FleetSpec == FleetInit /\ [][FleetNext]_fleetVars

FleetTypeOK == ClockOK /\ MemberOK /\ ManifestOK /\ HandoffOK
=============================================================================
