--------------------------- MODULE MCPreviewModel ---------------------------
(***************************************************************************)
(* A preview and the way it comes: PreviewModel with three widgets, one in *)
(* two versions, one filled from the data of the preview, and              *)
(* PreviewPipeline with two middleware threads.  Each is by itself: the    *)
(* initial state chooses one of them and only that one takes steps.        *)
(***************************************************************************)
EXTENDS PreviewModel, PreviewPipeline

VARIABLE component \* the one that takes steps

MCDefinitions == {[id |-> "a", version |-> 1, mapped |-> FALSE],
                  [id |-> "a", version |-> 2, mapped |-> FALSE],
                  [id |-> "b", version |-> 1, mapped |-> TRUE],
                  [id |-> "c", version |-> 1, mapped |-> FALSE]}
MCLayouts == {[n \in {2} |-> <<<<"b">>, <<"c", "a">>>>],
              [n \in {1} |-> <<<<"b", "a">>>>]}

PreviewInit == component \in {"model", "pipeline"} /\ Init /\ PipelineInit

OnlyModel == component = "model" /\ Next /\ UNCHANGED <<component, pipelineVars>>
OnlyPipeline == component = "pipeline" /\ PipelineNext /\ UNCHANGED <<component, vars>>

PreviewNext == OnlyModel \/ OnlyPipeline
PreviewSpec == PreviewInit /\ [][PreviewNext]_<<component, vars, pipelineVars>>
=============================================================================
