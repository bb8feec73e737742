-------------------------- MODULE MCBatchAlgorithms --------------------------
(***************************************************************************)
(* The instances of BatchProcessor and of the algorithms for TLC, which    *)
(* share no state: a run studies one of them.  For the batch, one permit   *)
(* fewer than the longer list has tasks, an item named twice in each list, *)
(* and one the shorter list leaves out.                                    *)
(***************************************************************************)
EXTENDS BatchProcessor, MCAlgorithms

CONSTANTS x, y

MCItems == {x, y}
MCBatches == {<<x, y, x>>, <<y, y>>}

BatchInitAlone ==
  /\ studied = "batch" /\ BatchInit
  /\ job = "idle" /\ start = 0 /\ windows = <<>> /\ open = FALSE
  /\ plan = "idle" /\ loop = "idle" /\ pieces = <<>>
  /\ graph = "idle" /\ ask = "idle" /\ rows = {} /\ level = 0 /\ reply = "idle" /\ at = "idle"
  /\ stamp = "idle" /\ vectors = "idle" /\ inquiry = "idle" /\ told = "idle"
  /\ seen = {} /\ where = "idle" /\ raced = {} /\ writes = 0
  /\ corpus = "idle" /\ defs = <<>> /\ indexed = {} /\ resolved = {} /\ edges = {}

\* An algorithm may end; a batch that stands still would be a deadlock.
BothInit == BatchInitAlone \/ (Init /\ BatchInit)
BothNext ==
  \/ studied = "batch" /\ BatchNext /\ UNCHANGED algorithmVars
  \/ studied # "batch" /\ Next /\ UNCHANGED vars
  \/ studied # "batch" /\ UNCHANGED <<vars, algorithmVars>>
BothSpec ==
  /\ BothInit /\ [][BothNext]_<<vars, algorithmVars>>
  /\ WF_vars(RunStep) /\ WF_vars(\E i \in DOMAIN tasks : FinishTask(i))
=============================================================================
