------------------------------- MODULE MCProxy -------------------------------
(* The clients of the proxy, which differ in the kinds of messages they    *)
(* use, and in whether their startup packet is already there.              *)
EXTENDS Proxy

(* Startup, control packets, simple and extended queries.                  *)
Session ==
    [kinds |-> {"Ssl", "Startup", "Query", "Ext", "Sync", "Terminate"},
     prelude |-> <<>>, max |-> 4, recv |-> 4, extra |-> 2, patient |-> TRUE]

(* A session that copies in, and one that copies out as well.              *)
CopyIn ==
    [kinds |-> {"CopyInExec", "CopyData", "CopyDone", "Sync", "Query"},
     prelude |-> <<"Startup">>, max |-> 5, recv |-> 5, extra |-> 1, patient |-> TRUE]

CopyOut ==
    [kinds |-> {"CopyInExec", "CopyOutQuery", "CopyDone", "Ext", "Sync", "Query"},
     prelude |-> <<"Startup">>, max |-> 4, recv |-> 4, extra |-> 1, patient |-> TRUE]

(* Pipelining and misuse, with a small receive buffer.                     *)
Wild ==
    [kinds |-> {"Malformed", "BadCode", "Cancel", "Flush", "CopyInQuery", "CopyInExec",
                "CopyOutExec", "Query"},
     prelude |-> <<"Startup">>, max |-> 4, recv |-> 2, extra |-> 1, patient |-> FALSE]

(* COPY data right behind the COPY command.                                *)
Pipelined ==
    [kinds |-> {"CopyData", "CopyDone"},
     prelude |-> <<"Startup", "CopyInQuery">>,
     max |-> 4, recv |-> 4, extra |-> 1, patient |-> FALSE]

AllClients == {Session, CopyIn, CopyOut, Wild}
PipelinedClient == {Pipelined}
=============================================================================
