----------------------------- MODULE DirectDump -----------------------------
(***************************************************************************)
(* dump_sql of a direct instance (client.rs, pg_dump.rs): pg_dump runs as  *)
(* a second WebAssembly program on a thread of its own and speaks the wire *)
(* protocol over an in-memory socket to the thread that called, which      *)
(* feeds it to the instance's one session.                                 *)
(*                                                                         *)
(* The runner hands the socket over through a channel that holds one; the  *)
(* caller waits for it, with a timeout, then serves it, joins the runner   *)
(* and cleans the session up.  pg_dump itself is outside src/: it begins a *)
(* read-only transaction, asks, writes its file and leaves with Terminate. *)
(***************************************************************************)
EXTENDS Naturals

CONSTANT MaxQueries   \* bound: queries of one pg_dump

ASSUME DumpAssumption == MaxQueries \in Nat

VARIABLES
    caller, \* "idle", "accept", "serve", "join", "cleanup"
    runner, \* "none", "loading", "asking", "waiting", "ok", "error"
    host,   \* the caller's end of the socket: "none", "channel", "held", "dropped"
    sent,   \* the message in the socket: "none", or what pg_dump sent last
    asked,  \* queries pg_dump has sent
    block   \* of the session: "idle", "readonly" or "failed"

dumpVars == <<caller, runner, host, sent, asked, block>>

DumpInit ==
    /\ caller = "idle" /\ runner = "none" /\ host = "none"
    /\ sent = "none" /\ asked = 0 /\ block = "idle"

(* The channel, the socket and the thread are gone.                        *)
NoDump ==
    /\ caller' = "idle" /\ runner' = "none" /\ host' = "none"
    /\ sent' = "none" /\ asked' = 0

Finished == runner \in {"ok", "error"}

-----------------------------------------------------------------------------
(* The runner: dump_sql_with_networking and the program it runs.           *)

RunnerFails ==
    /\ runner = "loading" /\ runner' = "error"
    /\ UNCHANGED <<caller, host, sent, asked, block>>

(* connect_tcp: the receiver lives until the caller returns, so the send   *)
(* succeeds whether or not anybody is still waiting.                       *)
Connect ==
    /\ runner = "loading" /\ runner' = "asking" /\ host' = "channel"
    /\ UNCHANGED <<caller, sent, asked, block>>

(* Startup, BEGIN READ ONLY, then queries; each waits for its answer.      *)
Ask ==
    /\ runner = "asking" /\ asked < MaxQueries
    /\ asked' = asked + 1 /\ runner' = "waiting"
    /\ sent' = CASE asked = 0 -> "startup" [] asked = 1 -> "begin" [] OTHER -> "query"
    /\ UNCHANGED <<caller, host, block>>

(* pg_dump leaves: with Terminate when all is written, or without a word   *)
(* when it traps; its end of the socket is dropped.                        *)
Leave ==
    /\ runner = "asking" /\ host # "dropped"
    /\ \/ runner' = "ok" /\ asked = MaxQueries /\ sent' = "terminate"
       \/ runner' = "error" /\ sent' \in {"terminate", "eof"}
    /\ UNCHANGED <<caller, host, asked, block>>

(* The other end is gone: the read fails, and so does pg_dump.             *)
PeerGone ==
    /\ runner \in {"asking", "waiting"} /\ host = "dropped"
    /\ runner' = "error"
    /\ UNCHANGED <<caller, host, sent, asked, block>>

RunnerStep == RunnerFails \/ Connect \/ Ask \/ Leave \/ PeerGone

-----------------------------------------------------------------------------
(* The caller.                                                             *)

(* dump_sql: the CHECKPOINT fails in a failed block, and the call with it. *)
DumpSql ==
    /\ caller = "idle" /\ block # "failed"
    /\ caller' = "accept" /\ runner' = "loading"
    /\ host' = "none" /\ sent' = "none" /\ asked' = 0
    /\ UNCHANGED block

(* receive_direct_pg_dump_socket                                           *)
Accept ==
    /\ caller = "accept" /\ host = "channel"
    /\ host' = "held" /\ caller' = "serve"
    /\ UNCHANGED <<runner, sent, asked, block>>

(* The runner has exited before it connected, or 30 seconds have passed.   *)
AcceptFails ==
    /\ caller = "accept" /\ host = "none"
    /\ caller' = "join"
    /\ UNCHANGED <<runner, host, sent, asked, block>>

(* serve returns, well or not, and the socket is dropped with it.          *)
ServeEnds ==
    /\ caller' = "join" /\ host' = "dropped"
    /\ UNCHANGED <<runner, asked, block>>

(* Mutant: the end of the conversation is not looked for.                  *)
ServeTerminate_GoesOn ==
    /\ caller = "serve" /\ sent \in {"terminate", "eof"}
    /\ sent' = "none" /\ UNCHANGED <<caller, runner, host, asked, block>>

(* Terminate, or the end of what the program wrote.                        *)
ServeTerminate ==
    /\ caller = "serve" /\ sent \in {"terminate", "eof"}
    /\ sent' = "none" /\ ServeEnds

(* The answer goes back to pg_dump, which reads it.                        *)
Answers == sent' = "none" /\ runner' = "asking" /\ UNCHANGED <<caller, host, asked>>

(* A statement of pg_dump may be refused.                                  *)
ServeMessage ==
    /\ caller = "serve" /\ sent \in {"startup", "begin", "query"}
    /\ Answers
    /\ \/ sent = "startup" /\ UNCHANGED block
       \/ sent = "begin" /\ block' = IF block = "failed" THEN block ELSE "readonly"
       \/ sent = "query" /\ block' \in {block, IF block = "readonly" THEN "failed" ELSE block}

(* A round trip to the backend fails, or a write to the socket.            *)
ServeFails ==
    /\ caller = "serve" /\ sent \notin {"none", "terminate"}
    /\ ServeEnds /\ UNCHANGED sent

(* runner.join()                                                           *)
Join ==
    /\ caller = "join" /\ Finished
    /\ caller' = "cleanup"
    /\ UNCHANGED <<runner, host, sent, asked, block>>

(* cleanup_after_direct_pg_dump_session: DEALLOCATE ALL and the search     *)
(* path; no ROLLBACK.  The call returns.                                   *)
CleanUp ==
    /\ caller = "cleanup" /\ NoDump
    /\ UNCHANGED block

CallerStep ==
    \/ Accept \/ AcceptFails \/ ServeTerminate \/ ServeMessage \/ ServeFails
    \/ Join \/ CleanUp

(* The program ends the block itself.                                      *)
Rollback ==
    /\ caller = "idle" /\ block # "idle" /\ block' = "idle"
    /\ UNCHANGED <<caller, runner, host, sent, asked>>

-----------------------------------------------------------------------------
(* Every variable has its type.                                            *)
DumpTypeOK ==
    /\ caller \in {"idle", "accept", "serve", "join", "cleanup"}
    /\ runner \in {"none", "loading", "asking", "waiting", "ok", "error"}
    /\ host \in {"none", "channel", "held", "dropped"}
    /\ sent \in {"none", "startup", "begin", "query", "terminate", "eof"}
    /\ asked \in 0 .. MaxQueries /\ block \in {"idle", "readonly", "failed"}

(* The socket came after the caller had given up on it: it lies in the     *)
(* channel, open and served by nobody.                                     *)
Orphaned == caller = "join" /\ host = "channel"

(* dump_sql returns, whatever fails in the runner, in pg_dump or in a      *)
(* round trip, unless pg_dump connects after the timeout.                  *)
DumpReturns == (caller # "idle") ~> (caller = "idle" \/ Orphaned)
=============================================================================
