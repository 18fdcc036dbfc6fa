---------------------------- MODULE MCRootPrepare ----------------------------
(* Instances of RootPrepare: where an open may be interrupted.             *)
EXTENDS RootPrepare

AllSources == {"Template", "FreshInitdb", "DataDirArchive"}
Running == Stages \ {"idle", "failed"}

(* An open of an overlay anywhere; initdb and the load of an archive       *)
(* outside the stages that take a cluster apart or make one in place.      *)
WhereRecovered ==
    {w \in AllSources \X Running : w[1] # "Template" => w[2] \notin {"remove", "initdb", "unpack"}}

Anywhere == AllSources \X Running
=============================================================================
