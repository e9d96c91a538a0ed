------------------------------- MODULE MCParts -------------------------------
(***************************************************************************)
(* Five components that share no state, checked in one run: "part" is the  *)
(* one that moves, the others stay as they are pinned.                     *)
(***************************************************************************)
EXTENDS ThreadHistory, ArtifactWorkspace, ModelRoles, ExperienceRetrieval, AttachmentAnalysis

VARIABLE part

mcFileAble == ("able" :> Abilities \ {"images"}) @@ ("plain" :> {"text", "images"})

\* Bindings that lead to a model that is able, to one that is not, to a borrowed one, round
\* in a circle (small and memory), or that are not valid; with fallbacks that fit their own
\* role but not another one that inherits them, that replace inherited ones, or do not exist.
Unnamed == [by |-> "none", name |-> "none", fallback |-> {}]

mcBindings ==
  [main : {Unnamed, ByModel("able", {}), ByRole("small", {})},
   structured : {Unnamed, ByModel("able", {})},
   small : {Unnamed, ByModel("able", {"plain"}), ByModel("plain", {}), ByRole("memory", {})},
   structured_fast : {Unnamed, ByModel("able", {}), ByRole("small", {})},
   memory : {Unnamed, Unclear, ByRole("main", {}), ByRole("small", {"able"}),
             ByRole("structured_fast", {"none"})},
   compression : {Unnamed, Off, ByRole("memory", {})},
   video_vision : {Unnamed, ByModel("plain", {})}]

mcFiles == {Restrict(b, {r \in Roles : b[r] # Unnamed}) : b \in mcBindings}

Identities(whole, incomplete) ==
  [r \in Roles |-> IF r \in whole THEN "whole" ELSE IF r \in incomplete THEN "part" ELSE "none"]

mcSettings ==
  [identity : {Identities({}, {}), Identities({"main", "structured", "small"}, {}),
               Identities({"main", "structured", "small", "structured_fast"}, {}),
               Identities({"main", "memory", "compression", "video_vision"}, {}),
               Identities({"main", "structured", "small"}, {"compression"})},
   structured : {0, 5}, compression : {30}, compress : BOOLEAN, vision : {TRUE}]
  \cup
  [identity : {Identities({"main", "structured", "small"}, {})},
   structured : {5}, compression : {0}, compress : {TRUE}, vision : BOOLEAN]

mcSymmetry == Permutations(Ids)

-----------------------------------------------------------------------------
Parts == {"history", "workspace", "roles", "retrieval", "analysis"}

InitParts ==
  /\ part \in Parts
  /\ HistoryInit
  /\ IF part = "workspace" THEN WorkspaceInit ELSE backend = "local" /\ WorkspaceInit
  /\ IF part = "roles" THEN RolesInit
     ELSE /\ file = <<>> /\ settings = (CHOOSE s \in Settings : TRUE) /\ secrets = TRUE
          /\ started = "no" /\ published = <<>>
  /\ IF part = "retrieval" THEN RetrievalInit
     ELSE store = [id \in Ids |-> Item("new", 0)] /\ semantic = TRUE /\ RetrievalInit
  /\ IF part = "analysis" THEN AnalysisInit
     ELSE documents = TRUE /\ videos = 0 /\ vision = TRUE /\ AnalysisInit

Still(p) ==
  CASE p = "history" -> UNCHANGED historyVars
    [] p = "workspace" -> UNCHANGED workspaceVars
    [] p = "roles" -> UNCHANGED rolesVars
    [] p = "retrieval" -> UNCHANGED retrievalVars
    [] p = "analysis" -> UNCHANGED analysisVars

NextParts ==
  /\ \/ part = "history" /\ HistoryNext
     \/ part = "workspace" /\ WorkspaceNext
     \/ part = "roles" /\ RolesNext
     \/ part = "retrieval" /\ RetrievalNext
     \/ part = "analysis" /\ AnalysisNext
  /\ \A p \in Parts \ {part} : Still(p)
  /\ UNCHANGED part
=============================================================================
