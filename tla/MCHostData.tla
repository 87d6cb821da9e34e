--------------------------- MODULE MCHostData ---------------------------
(***************************************************************************)
(* Shared data of the host and the engine; the parts share no state, so that*)
(* a behaviour is one of one part, chosen in the initial state, and the      *)
(* variables of the others stay as they are.                               *)
(***************************************************************************)
EXTENDS CancellationTree, PagedKvCache, MultiTabKv, ModelCatalog, ConversationMemory, CodeGraph, FusionPipeline, GhostText

CONSTANTS x1, x2, x3, d1, d2, d3, d4, qwen

(* One text calls into the other two, which define one name, and one of them  *)
(* calls back; a request indexes both files or a part of the tree.          *)
MCDefs == x1 :> {"f"} @@ x2 :> {"g"} @@ x3 :> {"g"}
MCUses == x1 :> {"g"} @@ x2 :> {} @@ x3 :> {"f"}
MCWorkspaces == {{"p", "q"}, {"q"}}

(* Fusion runs: of the command line with a token, without, or with a local  *)
(* backend; with nothing in the catalogue; and of the server, which is       *)
(* always local and whose Ollama may have models of its own.               *)
MCRun ==
  [mode |-> "multi-model", forced |-> NoModel, glm |-> FALSE,
   ranked |-> <<FlintRepo, d1, d2, d3, d4>>, cached |-> <<>>, judges |-> {qwen},
   textgen |-> d1, batch |-> 1, token |-> FALSE, noSim |-> TRUE, flags |-> {}]
MCModes == {"multi-model", "multi-sample"}
MCOnline ==
  {[MCRun EXCEPT !.mode = m, !.token = t, !.forced = f] :
     m \in MCModes, t \in BOOLEAN, f \in {NoModel, d1}}
MCLocal ==
  {[MCRun EXCEPT !.mode = m, !.flags = {b}, !.forced = f, !.ranked = <<d2, d1, d3>>] :
     m \in MCModes, b \in {"openvino", "onnx", "transformers"}, f \in {NoModel, d1}}
MCBare ==
  {[MCRun EXCEPT !.mode = m, !.ranked = <<>>, !.textgen = t] : m \in MCModes, t \in {NoModel, d1}}
MCServed ==
  {[MCRun EXCEPT !.flags = {"ollama"}, !.noSim = FALSE, !.cached = k, !.batch = b,
                 !.forced = f, !.glm = g, !.ranked = r] :
     k \in {<<>>, <<FlintTag, qwen>>}, b \in {1, 2}, f \in {NoModel, d1, FlintRepo},
     g \in BOOLEAN, r \in {<<>>, <<FlintRepo, GlmRepo, d1, d2>>}}
MCSettings == MCOnline \cup MCLocal \cup MCBare \cup MCServed

VARIABLE part

vars == <<treeVars, pageVars, tabVars, catalogVars, memoryVars, graphVars, fusionVars, ghostVars, part>>

Init ==
  /\ part \in {"tree", "page", "tab", "catalog", "memory", "graph", "fusion", "ghost"}
  /\ TreeInit /\ PageInit /\ TabInit /\ CatalogInit /\ MemoryInit /\ GraphInit /\ FusionInit /\ GhostInit
  /\ part # "memory" => ~session
  /\ part # "graph" => disk = [p \in Paths |-> "none"]

Next ==
  /\ part' = part
  /\ \/ /\ part = "tree" /\ TreeNext
        /\ UNCHANGED <<pageVars, tabVars, catalogVars, memoryVars, graphVars, fusionVars, ghostVars>>
     \/ /\ part = "page" /\ PageNext
        /\ UNCHANGED <<treeVars, tabVars, catalogVars, memoryVars, graphVars, fusionVars, ghostVars>>
     \/ /\ part = "tab" /\ TabNext
        /\ UNCHANGED <<treeVars, pageVars, catalogVars, memoryVars, graphVars, fusionVars, ghostVars>>
     \/ /\ part = "catalog" /\ CatalogNext
        /\ UNCHANGED <<treeVars, pageVars, tabVars, memoryVars, graphVars, fusionVars, ghostVars>>
     \/ /\ part = "memory" /\ MemoryNext
        /\ UNCHANGED <<treeVars, pageVars, tabVars, catalogVars, graphVars, fusionVars, ghostVars>>
     \/ /\ part = "graph" /\ GraphNext
        /\ UNCHANGED <<treeVars, pageVars, tabVars, catalogVars, memoryVars, fusionVars, ghostVars>>
     \/ /\ part = "fusion" /\ FusionNext
        /\ UNCHANGED <<treeVars, pageVars, tabVars, catalogVars, memoryVars, graphVars, ghostVars>>
     \/ /\ part = "ghost" /\ GhostNext
        /\ UNCHANGED <<treeVars, pageVars, tabVars, catalogVars, memoryVars, graphVars, fusionVars>>

(* Only a run of fusion that has returned stops; the other parts may stop anywhere.  *)
Rest == (part = "fusion" => at \in {"done", "failed"}) /\ UNCHANGED vars

Spec == Init /\ [][Next \/ Rest]_vars

=============================================================================
