-------------------------- MODULE MCWorkspaceLoad --------------------------
(* Instances of WorkspaceLoad for TLC. *)
EXTENDS WorkspaceLoad, TLC

CONSTANTS maven, eclipse

TwoFolders == <<"app", "lib">>
TwoSystems == {maven, eclipse}
OneKnown == {maven}

(* One folder of any kind that changes, and one with or without a build.   *)
SomeBuildFiles ==
    {"app" :> files @@ "lib" :> libFiles :
        files \in SUBSET TwoSystems, libFiles \in {{}, {maven}}}
AppEdits == "app" :> 2 @@ "lib" :> 0
=============================================================================
