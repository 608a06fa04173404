--------------------------- MODULE MCWorkflowSession ---------------------------
(* One or two workspaces and five or six operations besides the shutdown: a    *)
(* startup, a listing, a selection, an import and a question fill five.        *)
EXTENDS WorkflowSession
================================================================================
