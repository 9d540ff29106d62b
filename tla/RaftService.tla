------------------------------ MODULE RaftService ------------------------------
(***************************************************************************)
(* The replicated service that the servers of Raft implement together: the *)
(* refinement mapping from their logs to one CommitLog.                    *)
(***************************************************************************)
EXTENDS Raft

(* The commit log the servers implement: what the server with the largest  *)
(* commit_idx has committed, what each has applied, what clients were told.*)
Log == INSTANCE CommitLog WITH
    chosen <- Reqs(Furthest, commit_idx[Furthest]),
    executed <- [s \in Servers |-> Reqs(s, applied[s])],
    acked <- acked

(* The service is one log: chosen requests are never replaced or repeated, *)
(* every server executes them in that order, and a client is told of       *)
(* success only for a request that its server has executed (the end of     *)
(* server_func).                                                           *)
ImplementsCommitLog == Log!Spec
===============================================================================
