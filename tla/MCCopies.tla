------------------------------ MODULE MCCopies ------------------------------
(***************************************************************************)
(* The parts that follow a copy of a reed: the relay inside one server,    *)
(* the border with the reed's home, removals, the keys it is verified      *)
(* with, blocks, the run that brings a device's copies back to a rebuilt   *)
(* server, and the peering without which nothing crosses.  Their models    *)
(* share no state, so each is worked on its own: the run starts in the     *)
(* part it will work, and its state space is the sum of theirs.            *)
(***************************************************************************)
EXTENDS MCRelay, Border, Removals, Keys, Blocks, RecoveryRun, Mesh, TLC

CONSTANTS
    alice, bob,         \* Border
    rv,                 \* Removals
    vl, vr,             \* Keys
    rp, ru, rr, rg,     \* RecoveryRun
    sa, sb, ida, ned, boss      \* Mesh

VARIABLE worked     \* the part this behaviour is about

RelayOnly ==
    /\ worked = "relay"
    /\ UNCHANGED <<borderVars, removalVars, keyVars, blockVars, runVars, meshVars>>
    /\ Next
BorderOnly ==
    /\ worked = "border"
    /\ UNCHANGED <<vars, removalVars, keyVars, blockVars, runVars, meshVars>>
    /\ BorderNext
RemovalsOnly ==
    /\ worked = "removals"
    /\ UNCHANGED <<vars, borderVars, keyVars, blockVars, runVars, meshVars>>
    /\ RemovalsNext
KeysOnly ==
    /\ worked = "keys"
    /\ UNCHANGED <<vars, borderVars, removalVars, blockVars, runVars, meshVars>>
    /\ KeysNext
BlocksOnly ==
    /\ worked = "blocks"
    /\ UNCHANGED <<vars, borderVars, removalVars, keyVars, runVars, meshVars>>
    /\ BlocksNext
RecoveryOnly ==
    /\ worked = "recovery"
    /\ UNCHANGED <<vars, borderVars, removalVars, keyVars, blockVars, meshVars>>
    /\ RunNext
MeshOnly ==
    /\ worked = "mesh"
    /\ UNCHANGED <<vars, borderVars, removalVars, keyVars, blockVars, runVars>>
    /\ MeshNext

CopiesInit ==
    /\ worked \in {"relay", "border", "removals", "keys", "blocks", "recovery", "mesh"}
    /\ Init /\ BorderInit /\ RemovalsInit /\ KeysInit /\ BlocksInit /\ RunInit /\ MeshInit

CopiesNext ==
    /\ UNCHANGED worked
    /\ \/ RelayOnly
       \/ BorderOnly
       \/ RemovalsOnly
       \/ KeysOnly
       \/ BlocksOnly
       \/ RecoveryOnly
       \/ MeshOnly

CopiesSpec ==
    CopiesInit /\ [][CopiesNext]_<<worked, vars, borderVars, removalVars, keyVars, blockVars,
                                    runVars, meshVars>>

\* Every row of the part that is worked keeps its shape.
CopiesTypeOK ==
    /\ worked = "relay" => TypeOK
    /\ worked = "border" => BorderTypeOK
    /\ worked = "removals" => RemovalsTypeOK
    /\ worked = "keys" => KeysTypeOK
    /\ worked = "blocks" => BlocksTypeOK
    /\ worked = "recovery" => RunTypeOK
    /\ worked = "mesh" => MeshTypeOK
=============================================================================
