------------------------------ MODULE MCStorage ------------------------------
(***************************************************************************)
(* Storage for TLC in one run: blob reference counting, the migration      *)
(* between policies, and the bindings of remote nodes.  The three modules  *)
(* have no state in common: a behaviour is one module's, and the others    *)
(* stay as they begin.                                                     *)
(***************************************************************************)
EXTENDS MCBlobLifecycle, MCStorageMigration, MCBindingSync

\* The hypothesis of the theorems about migrations.
ASSUME TameMigrations == TameScenes

VARIABLE system

storageVars == <<system, vars, mgVars, bsVars>>

StorageInit ==
    /\ system \in {"blobs", "migration", "nodes"}
    /\ Init /\ MigrationInit /\ BindingInit
    /\ system # "migration" => scene = Twins(TRUE, FALSE, FALSE)

BlobStep == system = "blobs" /\ Next /\ UNCHANGED <<system, mgVars, bsVars>>
MigrationStep == system = "migration" /\ MigrationNext /\ UNCHANGED <<system, vars, bsVars>>
NodeStep == system = "nodes" /\ BindingNext /\ UNCHANGED <<system, vars, mgVars>>

StorageSpec ==
    StorageInit /\ [][BlobStep \/ MigrationStep \/ NodeStep]_storageVars /\ BindingFair
=============================================================================
