-------------------------------- MODULE Client --------------------------------
(***************************************************************************)
(* One Pglite instance (client.rs) and its backend session (backend.rs):   *)
(* the direct API, its round trips to the single PostgreSQL session, and   *)
(* what the client believes of that session.  A call borrows the instance  *)
(* mutably, so calls do not overlap; but a query makes other queries of    *)
(* its own (array type discovery), a physical dump replaces the session,   *)
(* and any round trip may fail.                                            *)
(*                                                                         *)
(* The session is modelled from how the client uses it: transaction block, *)
(* LISTEN (which takes effect at commit) and the unnamed statement, which  *)
(* every simple query drops.  Type OIDs are those without a built-in       *)
(* parser or serializer.                                                   *)
(***************************************************************************)
EXTENDS Naturals

CONSTANTS
    Channels,
    MaxListeners,  \* bound: calls of listen
    ArrayTypes,    \* array types made at run time
    OtherTypes,    \* types that are no arrays and are given a JSON array
    NoType,
    ListenInBlock, \* the program calls listen inside a BEGIN of its own
    RawWhenClosed  \* the program sends raw protocol through a closed instance

ASSUME ClientAssumption ==
    /\ MaxListeners \in Nat
    /\ NoType \notin ArrayTypes \cup OtherTypes
    /\ ListenInBlock \in BOOLEAN /\ RawWhenClosed \in BOOLEAN

VARIABLES
    flags,     \* ready, closed, in_transaction, and whether the root lock is held
    tx,        \* the Transaction handle of a running closure: "none", "open", "closed"
    listeners, \* notify_listeners
    nextId,    \* next_listener_id
    known,     \* types with a parser and a serializer
    misses,    \* array_type_lookup_misses
    call,      \* where a call of several round trips is
    arg,       \* the type it has to know, and whether it was given a blob
    blob,      \* dev/blob: "none", "input" or "output"
    provided,  \* blob_input_provided
    backend,   \* "up", "stopped", or "broken" by a shutdown that failed
    session,   \* the transaction block, who began it, and the channels listened to
    stmt       \* the session has an unnamed statement

types == <<known, misses>>
registry == <<listeners, nextId>>
running == <<call, arg>>
dev == <<blob, provided>>
pg == <<backend, session, stmt>>
vars == <<flags, tx, registry, types, running, dev, pg>>

Ids == 1 .. MaxListeners
Types == ArrayTypes \cup OtherTypes
NoArg == [type |-> NoType, blob |-> FALSE]
NewSession == [block |-> "idle", by |-> "nobody", listening |-> {}, pending |-> {}]

Init ==
    /\ flags = [ready |-> TRUE, closed |-> FALSE, inTransaction |-> FALSE, lock |-> TRUE]
    /\ tx = "none"
    /\ listeners = [c \in Channels |-> {}] /\ nextId = 1
    /\ known = {} /\ misses = {}
    /\ call = "none" /\ arg = NoArg
    /\ blob = "none" /\ provided = FALSE
    /\ backend = "up" /\ session = NewSession /\ stmt = FALSE

-----------------------------------------------------------------------------
(* The session.  `pending' is what it listens to once the block commits.   *)

Failed(s) == IF s.block = "idle" THEN s ELSE [s EXCEPT !.block = "failed"]

Ended(channels) ==
    [block |-> "idle", by |-> "nobody", listening |-> channels, pending |-> channels]

Begun(s, who) == IF s.block = "idle" THEN [s EXCEPT !.block = "open", !.by = who] ELSE s

Hears(s, channels) ==
    IF s.block = "idle" THEN Ended(channels) ELSE [s EXCEPT !.pending = channels]

(* The outcomes of a round trip, as sets of answers.  A statement that is  *)
(* to make s into t may fail, and fails in a failed block.                 *)
Ok(s) == [ok |-> TRUE, s |-> s]
Err(s) == [ok |-> FALSE, s |-> s]

Tries(s, t) == IF s.block = "failed" THEN {Err(s)} ELSE {Ok(t), Err(Failed(s))}

(* COMMIT of a failed block is a rollback that succeeds; a deferred        *)
(* constraint may fail the COMMIT of an open one, which ends it as well.   *)
Commits(s) ==
    CASE s.block = "idle" -> {Ok(s)}
      [] s.block = "open" -> {Ok(Ended(s.pending)), Err(Ended(s.listening))}
      [] s.block = "failed" -> {Ok(Ended(s.listening))}

Rolls(s) == {Ok(Ended(s.listening))}

(* send_protocol: a backend that was shut down is started again, if that   *)
(* works, before the message is sent; a broken one answers nothing.        *)
From(b, outcomes) == {[ok |-> r.ok, s |-> r.s, backend |-> b] : r \in outcomes}

Answers(outcomes) ==
    CASE backend = "up" -> From("up", outcomes)
      [] backend = "stopped" -> From("up", outcomes) \cup From("stopped", {Err(session)})
      [] backend = "broken" -> From("broken", {Err(session)})

Answered(r) == session' = r.s /\ backend' = r.backend

-----------------------------------------------------------------------------
(* check_ready.  No other call is in progress.                             *)
CheckReady == flags.ready /\ ~flags.closed /\ call = "none"

(* A statement is executed through the instance or, in a closure, through  *)
(* a handle that is still open (ensure_open).                              *)
MayExecute == CheckReady /\ tx \in {"none", "open"}

(* Mutant: a call without a blob leaves the file.                          *)
HandleBlobInput_Keeps(given) == blob' = (IF given THEN "input" ELSE blob) /\ provided' = given

(* handle_blob_input: a call without a blob removes the file.              *)
HandleBlobInput(given) == blob' = (IF given THEN "input" ELSE "none") /\ provided' = given

(* get_written_blob: the output is read; the file is removed either way.   *)
GetWrittenBlob == blob' = "none" /\ provided' = FALSE

(* exec_internal with no blob: one simple query, which drops the unnamed   *)
(* statement.                                                              *)
ExecInternal(r) ==
    /\ Answered(r) /\ stmt' = FALSE
    /\ HandleBlobInput(FALSE)

(* The types of a result that have no parser are looked up when the rows   *)
(* are there (ensure_array_types_for_result_messages).                     *)
Unknown(t) == t \in Types /\ t \notin known \cup misses

Finish(t) ==
    IF Unknown(t)
    THEN call' = "results" /\ arg' = [type |-> t, blob |-> FALSE]
    ELSE call' = "none" /\ arg' = NoArg

(* The statements of a program, BEGIN, COMMIT and ROLLBACK among them, but *)
(* not LISTEN and UNLISTEN, which are left to listen and unlisten.         *)
Statements ==
    Tries(session, session) \cup Tries(session, Begun(session, "program"))
    \cup Commits(session) \cup Rolls(session)

(* exec.  A statement that fails may have written a part of its output to  *)
(* the blob file.                                                          *)
Exec(given) ==
    /\ MayExecute
    /\ \E r \in Answers(Statements) :
        /\ Answered(r) /\ stmt' = FALSE
        /\ IF r.ok
           THEN /\ GetWrittenBlob
                /\ \E t \in Types \cup {NoType} : Finish(t)
           ELSE /\ blob' \in {IF given THEN "input" ELSE "none", "output"} /\ provided' = given
                /\ UNCHANGED running
    /\ UNCHANGED <<flags, tx, registry, types>>

(* exec_protocol and its raw forms: the program's own messages, sent       *)
(* without check_ready and without a look at the blob.                     *)
ExecProtocol ==
    /\ call = "none" /\ tx = "none"
    /\ flags.closed => RawWhenClosed
    /\ \E r \in Answers(Statements) : Answered(r)
    /\ stmt' \in BOOLEAN
    /\ UNCHANGED <<flags, tx, registry, types, running, dev>>

-----------------------------------------------------------------------------
(* query: Parse, Describe and Sync of the unnamed statement.               *)
QueryParses(t, given) ==
    /\ MayExecute
    /\ HandleBlobInput(given)
    /\ \E r \in Answers(Tries(session, session)) :
        /\ Answered(r) /\ stmt' = r.ok
        /\ IF r.ok
           THEN call' = "parsed" /\ arg' = [type |-> t, blob |-> given]
           ELSE UNCHANGED running
    /\ UNCHANGED <<flags, tx, registry, types>>

(* describe_query: the same messages, then the lookup of a type.           *)
DescribeQuery(t) ==
    /\ CheckReady /\ tx = "none"
    /\ \E r \in Answers(Tries(session, session)) :
        /\ Answered(r) /\ stmt' = r.ok
        /\ IF r.ok THEN Finish(t) ELSE UNCHANGED running
    /\ UNCHANGED <<flags, tx, registry, types, dev>>

(* A parameter that is a JSON array, of a type without a serializer: look  *)
(* the type up with a query of its own.                                    *)
Discovered(t) ==
    IF t \in ArrayTypes
    THEN known' = known \cup {t} /\ UNCHANGED misses
    ELSE misses' = misses \cup {t} /\ UNCHANGED known

QueryDiscovers ==
    /\ call = "parsed" /\ Unknown(arg.type)
    /\ \E r \in Answers(Tries(session, session)) :
        /\ ExecInternal(r)
        /\ IF r.ok
           THEN /\ Discovered(arg.type)
                /\ call' = IF arg.type \in ArrayTypes THEN "registered" ELSE "bind"
                /\ UNCHANGED arg
           ELSE call' = "none" /\ arg' = NoArg /\ UNCHANGED types
    /\ UNCHANGED <<flags, tx, registry>>

(* Mutant: the statement is not prepared again.                            *)
QueryParsesAgain_Not ==
    /\ call = "registered"
    /\ call' = "bind"
    /\ UNCHANGED <<arg, flags, tx, registry, types, dev, pg>>

(* When the lookup registered the type, the statement is prepared again.   *)
QueryParsesAgain ==
    /\ call = "registered"
    /\ \E r \in Answers(Tries(session, session)) :
        /\ Answered(r) /\ stmt' = r.ok
        /\ IF r.ok
           THEN call' = "bind" /\ UNCHANGED arg
           ELSE call' = "none" /\ arg' = NoArg
    /\ UNCHANGED <<flags, tx, registry, types, dev>>

(* Bind, Describe, Execute and Sync, for which the statement must be       *)
(* there; then the rows.                                                   *)
Binding == call = "bind" \/ (call = "parsed" /\ ~Unknown(arg.type))

QueryExecutes ==
    /\ Binding
    /\ \E r \in Answers(IF stmt THEN Tries(session, session) ELSE {Err(Failed(session))}) :
        /\ Answered(r)
        /\ IF r.ok
           THEN /\ GetWrittenBlob
                /\ \E t \in Types \cup {NoType} : Finish(t)
           ELSE /\ blob' \in {blob, "output"} /\ UNCHANGED provided
                /\ call' = "none" /\ arg' = NoArg
    /\ UNCHANGED <<flags, tx, registry, types, stmt>>

(* The lookup of a result type.                                            *)
ResultDiscovers ==
    /\ call = "results"
    /\ \E r \in Answers(Tries(session, session)) :
        /\ ExecInternal(r)
        /\ IF r.ok THEN Discovered(arg.type) ELSE UNCHANGED types
    /\ call' = "none" /\ arg' = NoArg
    /\ UNCHANGED <<flags, tx, registry>>

(* refresh_array_types: one query finds every array type.                  *)
RefreshArrayTypes ==
    /\ MayExecute
    /\ \E r \in Answers(Tries(session, session)) :
        /\ ExecInternal(r)
        /\ IF r.ok
           THEN known' = ArrayTypes /\ misses' = misses \ ArrayTypes
           ELSE UNCHANGED types
    /\ UNCHANGED <<flags, tx, registry, running>>

-----------------------------------------------------------------------------
(* transaction: BEGIN, then the closure runs.                              *)
TransactionBegins ==
    /\ CheckReady /\ tx = "none"
    /\ \E r \in Answers(Tries(session, Begun(session, "transaction"))) :
        /\ ExecInternal(r)
        /\ IF r.ok
           THEN flags' = [flags EXCEPT !.inTransaction = TRUE] /\ tx' = "open"
           ELSE UNCHANGED <<flags, tx>>
    /\ UNCHANGED <<registry, types, running>>

(* commit and rollback of the handle, called by the closure: the handle is *)
(* closed only if the statement succeeded.                                 *)
HandleEnds ==
    /\ CheckReady /\ tx = "open"
    /\ \E r \in Answers(Commits(session) \cup Rolls(session)) :
        /\ ExecInternal(r)
        /\ tx' = IF r.ok THEN "closed" ELSE tx
    /\ UNCHANGED <<flags, registry, types, running>>

(* Mutant: an error of the closure is returned at once.                    *)
TransactionReturns_NoRollback(committing) ==
    /\ CheckReady /\ tx # "none"
    /\ tx' = "none"
    /\ flags' = [flags EXCEPT !.inTransaction = FALSE]
    /\ IF tx = "closed" \/ ~committing
       THEN UNCHANGED <<dev, pg>>
       ELSE \E r \in Answers(Commits(session)) : ExecInternal(r)
    /\ UNCHANGED <<registry, types, running>>

(* The closure returns Ok, and COMMIT follows, or Err, and ROLLBACK; if    *)
(* that fails transaction returns at once and leaves in_transaction set.   *)
TransactionReturns(committing) ==
    /\ CheckReady /\ tx # "none"
    /\ tx' = "none"
    /\ IF tx = "closed"
       THEN /\ flags' = [flags EXCEPT !.inTransaction = FALSE]
            /\ UNCHANGED <<dev, pg>>
       ELSE \E r \in Answers(IF committing THEN Commits(session) ELSE Rolls(session)) :
            /\ ExecInternal(r)
            /\ flags' = [flags EXCEPT !.inTransaction = ~r.ok]
    /\ UNCHANGED <<registry, types, running>>

-----------------------------------------------------------------------------
(* listen runs LISTEN for the first listener of a channel only, and        *)
(* registers the listener if that succeeded.                               *)
Register(c) ==
    /\ listeners' = [listeners EXCEPT ![c] = @ \cup {nextId}]
    /\ nextId' = nextId + 1

Listen(c) ==
    /\ CheckReady /\ tx = "none" /\ nextId <= MaxListeners
    /\ session.block # "idle" => ListenInBlock
    /\ IF listeners[c] # {}
       THEN Register(c) /\ UNCHANGED <<dev, pg>>
       ELSE \E r \in Answers(Tries(session, Hears(session, session.pending \cup {c}))) :
            /\ ExecInternal(r)
            /\ IF r.ok THEN Register(c) ELSE UNCHANGED registry
    /\ UNCHANGED <<flags, tx, types, running>>

(* unlisten (one listener) and unlisten_channel (all of them): they are    *)
(* removed first, and UNLISTEN is run when none is left; whether that      *)
(* succeeds, only the caller learns.  Neither checks readiness.            *)
Unlisten(c, ids) ==
    /\ call = "none" /\ tx = "none" /\ ids # {}
    /\ ids = listeners[c] \/ \E i \in listeners[c] : ids = {i}
    /\ listeners' = [listeners EXCEPT ![c] = @ \ ids]
    /\ IF listeners[c] = ids
       THEN \E r \in Answers(Tries(session, Hears(session, session.pending \ {c}))) :
                ExecInternal(r)
       ELSE UNCHANGED <<dev, pg>>
    /\ UNCHANGED <<nextId, flags, tx, types, running>>

-----------------------------------------------------------------------------
(* shutdown_backend.  One that fails has already deactivated the backend   *)
(* and run some of its exit functions.                                     *)
Shutdown(result) == backend' = result /\ session' = NewSession /\ stmt' = FALSE

(* archive_quiesced_pgdata: refused while in_transaction; CHECKPOINT, and  *)
(* the backend is shut down.                                               *)
DumpQuiesces ==
    /\ CheckReady /\ tx = "none" /\ ~flags.inTransaction
    /\ HandleBlobInput(FALSE)
    /\ \E r \in Answers(Tries(session, session)) :
        \/ /\ ~r.ok
           /\ Answered(r) /\ stmt' = FALSE
           /\ UNCHANGED call
        \/ r.ok /\ Shutdown("stopped") /\ call' = "restart"
        \/ r.ok /\ Shutdown("broken") /\ UNCHANGED call
    /\ UNCHANGED <<flags, tx, registry, types, arg>>

(* The archive is written, or not, and a new backend is started.  If that  *)
(* fails the instance is closed, with its lock.                            *)
DumpRestarts ==
    /\ call = "restart"
    /\ \/ /\ backend' = "up"
          /\ call' = "restore"
          /\ UNCHANGED flags
       \/ /\ call' = "none"
          /\ flags' = [flags EXCEPT !.ready = FALSE, !.closed = TRUE]
          /\ UNCHANGED backend
    /\ UNCHANGED <<tx, registry, types, arg, dev, session, stmt>>

Registered == {c \in Channels : listeners[c] # {}}

(* Mutant: the new session listens to nothing.                             *)
DumpRestores_RoleOnly ==
    /\ call = "restore"
    /\ call' = "none"
    /\ UNCHANGED <<flags, tx, registry, types, arg, dev, pg>>

(* restore_session_state_after_backend_restart: SET ROLE, and LISTEN for   *)
(* every channel with a listener; one that fails closes the instance.      *)
DumpRestores ==
    /\ call = "restore"
    /\ \E heard \in SUBSET Registered :
        /\ session' = Ended(heard)
        /\ \/ heard = Registered /\ UNCHANGED flags
           \/ flags' = [flags EXCEPT !.ready = FALSE, !.closed = TRUE]
    /\ HandleBlobInput(FALSE)
    /\ call' = "none" /\ stmt' = FALSE
    /\ UNCHANGED <<tx, registry, types, arg, backend>>

-----------------------------------------------------------------------------
(* Mutant: the lock is given back whether or not the backend stopped.      *)
CloseBackend_Unlocks ==
    /\ call = "none" /\ tx = "none" /\ ~flags.closed
    /\ Shutdown("stopped") \/ UNCHANGED pg
    /\ flags' = [flags EXCEPT !.ready = FALSE, !.closed = TRUE, !.lock = FALSE]
    /\ listeners' = [c \in Channels |-> {}]
    /\ UNCHANGED <<tx, nextId, types, running, dev>>

(* close_backend: on success the listeners and the lock are given up; when *)
(* the shutdown fails the instance stays as it was.                        *)
CloseBackend ==
    /\ call = "none" /\ tx = "none" /\ ~flags.closed
    /\ \/ /\ Shutdown("stopped")
          /\ flags' = [flags EXCEPT !.ready = FALSE, !.closed = TRUE, !.lock = FALSE]
          /\ listeners' = [c \in Channels |-> {}]
       \/ Shutdown("broken") /\ UNCHANGED <<flags, listeners>>
    /\ UNCHANGED <<tx, nextId, types, running, dev>>

(* Drop: an instance that is not closed is closed, whatever comes of it;   *)
(* then its fields are dropped in the order they are declared, the backend *)
(* before the lock.                                                        *)
DropBackend ==
    /\ call = "none" /\ tx = "none"
    /\ Shutdown("stopped")
    /\ call' = "dropping"
    /\ flags' = [flags EXCEPT !.ready = FALSE, !.closed = TRUE]
    /\ UNCHANGED <<tx, registry, types, arg, dev>>

DropLock ==
    /\ call = "dropping"
    /\ flags' = [flags EXCEPT !.lock = FALSE]
    /\ UNCHANGED <<tx, registry, types, running, dev, pg>>

-----------------------------------------------------------------------------
Query ==
    \/ \E t \in Types \cup {NoType}, given \in BOOLEAN : QueryParses(t, given)
    \/ QueryDiscovers \/ QueryParsesAgain \/ QueryExecutes \/ ResultDiscovers
    \/ \E t \in Types \cup {NoType} : DescribeQuery(t)
    \/ RefreshArrayTypes

Execute == ExecProtocol \/ \E given \in BOOLEAN : Exec(given)

Transaction ==
    TransactionBegins \/ HandleEnds \/ \E committing \in BOOLEAN : TransactionReturns(committing)

Listening ==
    \E c \in Channels : Listen(c) \/ \E ids \in SUBSET Ids : Unlisten(c, ids)

Dump == DumpQuiesces \/ DumpRestarts \/ DumpRestores

Next ==
    Execute \/ Query \/ Transaction \/ Listening \/ Dump
    \/ CloseBackend \/ DropBackend \/ DropLock

Spec == Init /\ [][Next]_vars

-----------------------------------------------------------------------------
(* Properties.                                                             *)

(* Every variable has its type, and listeners have ids that were issued.   *)
TypeOK ==
    /\ flags \in [ready : BOOLEAN, closed : BOOLEAN, inTransaction : BOOLEAN, lock : BOOLEAN]
    /\ tx \in {"none", "open", "closed"}
    /\ listeners \in [Channels -> SUBSET Ids] /\ nextId \in 1 .. (MaxListeners + 1)
    /\ \A c \in Channels : \A i \in listeners[c] : i < nextId
    /\ known \subseteq ArrayTypes /\ misses \subseteq OtherTypes
    /\ call \in {"none", "parsed", "registered", "bind", "results", "restart", "restore", "dropping"}
    /\ arg \in [type : Types \cup {NoType}, blob : BOOLEAN]
    /\ blob \in {"none", "input", "output"} /\ provided \in BOOLEAN
    /\ backend \in {"up", "stopped", "broken"} /\ stmt \in BOOLEAN
    /\ session \in [block : {"idle", "open", "failed"},
                    by : {"nobody", "program", "transaction"},
                    listening : SUBSET Channels, pending : SUBSET Channels]

(* A backend never runs, nor remains half shut down, on a root whose lock  *)
(* this instance has given up: through close, a failed close, a dump that  *)
(* cannot restart or restore the session, an unlisten that starts the      *)
(* backend again, and drop (and as long as no raw protocol goes through a  *)
(* closed instance).                                                       *)
LockCoversBackend == backend \in {"up", "broken"} => flags.lock

(* A registered listener is heard: between calls the session listens to    *)
(* every channel that has one, also after a dump has replaced the session  *)
(* (and as long as listen is not called in a BEGIN of the program).        *)
ListenersHeard ==
    flags.ready /\ backend = "up" /\ call = "none" =>
        \A c \in Channels : listeners[c] # {} => c \in session.listening

(* When transaction has returned and the client counts no transaction, the *)
(* session is not in a block that transaction began, however the closure   *)
(* ended and whatever it executed.                                         *)
TransactionEnds ==
    tx = "none" /\ ~flags.inTransaction => session.by # "transaction"

(* The statement that is bound is there, although the queries a client     *)
(* makes while it prepares a query drop the unnamed statement: after a     *)
(* lookup that registered a type it is parsed again, also when that lookup *)
(* or the statement before it failed.  The one case in which the code does *)
(* not parse again, a lookup by this call of a type that turned out to be  *)
(* no array, is excluded: Bind then finds nothing and the query fails.     *)
BindFindsStatement == Binding => stmt \/ (call = "bind" /\ arg.type \in OtherTypes)

(* While a query runs, dev/blob holds exactly what this call was given and *)
(* nothing of an earlier call or of one that failed; a call that had to    *)
(* look up a type has lost its own blob and runs without one.              *)
BlobOfThisCall ==
    Binding => blob = IF arg.blob /\ call = "parsed" THEN "input" ELSE "none"
=============================================================================
