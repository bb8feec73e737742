----------------------------- MODULE MCServices -----------------------------
(***************************************************************************)
(* The two services an ingest calls on, a language server and the          *)
(* embedder.  They share no state, so the run starts one or the other and  *)
(* checks each alone.                                                      *)
(***************************************************************************)
EXTENDS LspSession, Embedding

MCDocs == <<"a", "b">>
\* An ingest, and beside it a call that embeds one text.
MCAsking == {[c \in Callers |-> IF c = "p" THEN "ingest" ELSE verb] : verb \in {"query", "text"}}

VARIABLE calling
servicesVars == <<calling, lspVars, embVars>>

\* The service that does not run starts one way.
Init ==
  /\ calling \in {"lsp", "embedder"} /\ LspInit /\ EmbInit
  /\ calling = "lsp" => \A c \in Callers : caller[c].verb # "query" /\ caller[c].per = 1
  /\ calling = "embedder" => ~task.preload

Next ==
  /\ UNCHANGED calling
  /\ \/ calling = "lsp" /\ LspNext /\ UNCHANGED embVars
     \/ calling = "embedder" /\ EmbNext /\ UNCHANGED lspVars

\* LspFairness and EmbFairness, each for the service that runs.
Fairness ==
  /\ WF_lspVars(calling = "lsp" /\ Client)
  /\ WF_lspVars(calling = "lsp" /\ Reader)
  /\ WF_lspVars(calling = "lsp" /\ ServerTakes)
  /\ \A c \in Callers : WF_embVars(calling = "embedder" /\ Caller(c))
  /\ WF_embVars(calling = "embedder" /\ Accept)
  /\ WF_embVars(calling = "embedder" /\ Serve)

Spec == Init /\ [][Next]_servicesVars /\ Fairness

\* Every variable of both stays in its type.
ServicesTypeOK == LspTypeOK /\ EmbTypeOK

(***************************************************************************)
(* An extraction ends, however its server fails to answer, garbles or      *)
(* dies: no request waits for ever, not one filed after the reader had     *)
(* told everyone that the server is gone.  And no connection keeps the     *)
(* embedder's one worker, so whoever waits for it is taken or turned away. *)
(*                                                                         *)
(* Both rest on the far end moving bytes.  A language server that lives    *)
(* and no longer reads its stdin holds the write of a request, which the   *)
(* request's deadline does not cover (send_message); a peer of the         *)
(* embedder that sends a byte within every receive timeout holds the       *)
(* worker for as long as it likes.                                         *)
(***************************************************************************)
EveryCallEnds ==
  /\ calling = "lsp" ~> task.step = "end"
  /\ WaitingIsServed
=============================================================================
