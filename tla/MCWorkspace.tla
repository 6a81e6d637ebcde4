----------------------------- MODULE MCWorkspace -----------------------------
(***************************************************************************)
(* The folder tree and the revisions of files for TLC in one run.  The two *)
(* modules have no state in common: a behaviour is the one's or the        *)
(* other's, which then stays as it begins.                                 *)
(***************************************************************************)
EXTENDS MCFolderTree, MCFileRevisions

\* The companies of actors are ones that the proofs are about.
ASSUME CompaniesMayMeet == TameCasts /\ SteadyCasts

VARIABLE system

workspaceVars == <<system, treeVars, rvVars>>

WorkspaceInit ==
    /\ system \in {"tree", "revisions"}
    /\ TreeInit /\ RevisionInit
    /\ system = "revisions" => cast = Uploading /\ \A n \in Items : ~Live(n)

TreeStep == system = "tree" /\ TreeNext /\ UNCHANGED <<system, rvVars>>
RevisionStep == system = "revisions" /\ RevisionNext /\ UNCHANGED <<system, treeVars>>

WorkspaceSpec == WorkspaceInit /\ [][TreeStep \/ RevisionStep]_workspaceVars

WorkspaceAlike == Alike \cup RevisionAlike
=============================================================================
