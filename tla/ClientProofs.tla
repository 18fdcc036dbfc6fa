----------------------------- MODULE ClientProofs -----------------------------
(***************************************************************************)
(* Proofs about Client for any channels, any number of listeners and any   *)
(* types: the root lock covers the backend, listeners are heard, a query   *)
(* finds its statement and no other blob than its own, transaction leaves  *)
(* no block behind, and every variable keeps its type.                     *)
(***************************************************************************)
EXTENDS Client, TLAPS

Backends == {"up", "stopped", "broken"}
Flags == [ready : BOOLEAN, closed : BOOLEAN, inTransaction : BOOLEAN, lock : BOOLEAN]

(* A message never breaks a backend, stops one, or mends a broken one.     *)
LEMMA AnswersBackend ==
    ASSUME NEW O, backend \in Backends, NEW r \in Answers(O)
    PROVE  /\ r.backend \in Backends
           /\ backend # "stopped" => r.backend = backend
  BY DEF Answers, From, Backends

(* A lock that was given up belongs to a closed instance whose backend is  *)
(* stopped and that has no listener left whose removal would start it.     *)
Unlocked ==
    ~flags.lock =>
        /\ flags.closed /\ backend = "stopped"
        /\ call = "dropping" \/ (call = "none" /\ \A c \in Channels : listeners[c] = {})

LockInv ==
    /\ flags \in Flags
    /\ backend \in Backends
    /\ listeners \in [Channels -> SUBSET Nat] /\ nextId \in Nat
    /\ call = "dropping" => flags.closed /\ backend = "stopped"
    /\ Unlocked

LEMMA LockInit == Init => LockInv
  BY DEF Init, LockInv, Flags, Backends, Unlocked

LEMMA LockStep ==
    ASSUME ~RawWhenClosed, LockInv, [Next]_vars
    PROVE  LockInv'
  <1> USE DEF LockInv, Unlocked
  <1>1. ASSUME NEW given \in BOOLEAN, Exec(given) PROVE LockInv'
    BY <1>1, AnswersBackend DEF Exec, MayExecute, CheckReady, Answered, registry, Finish, Flags, running
  <1>2. CASE ExecProtocol
    BY <1>2, AnswersBackend DEF ExecProtocol, Answered, registry, running, Flags
  <1>3. ASSUME NEW t, NEW given \in BOOLEAN, QueryParses(t, given) PROVE LockInv'
    BY <1>3, AnswersBackend DEF QueryParses, MayExecute, CheckReady, Answered, registry, running, Flags
  <1>4. ASSUME NEW t, DescribeQuery(t) PROVE LockInv'
    BY <1>4, AnswersBackend DEF DescribeQuery, CheckReady, Answered, registry, Finish, running, Flags
  <1>5. CASE QueryDiscovers
    BY <1>5, AnswersBackend DEF QueryDiscovers, ExecInternal, Answered, registry, Flags
  <1>6. CASE QueryParsesAgain
    BY <1>6, AnswersBackend DEF QueryParsesAgain, Answered, registry, Flags
  <1>7. CASE QueryExecutes
    BY <1>7, AnswersBackend DEF QueryExecutes, Binding, Answered, registry, Finish, Flags
  <1>8. CASE ResultDiscovers
    BY <1>8, AnswersBackend DEF ResultDiscovers, ExecInternal, Answered, registry, Flags
  <1>9. CASE RefreshArrayTypes
    BY <1>9, AnswersBackend
    DEF RefreshArrayTypes, MayExecute, CheckReady, ExecInternal, Answered, registry, running, Flags
  <1>10. CASE TransactionBegins
    BY <1>10, AnswersBackend
    DEF TransactionBegins, CheckReady, ExecInternal, Answered, registry, running, Flags
  <1>11. CASE HandleEnds
    BY <1>11, AnswersBackend DEF HandleEnds, CheckReady, ExecInternal, Answered, registry, running, Flags
  <1>12. ASSUME NEW committing \in BOOLEAN, TransactionReturns(committing) PROVE LockInv'
    <2>1. /\ call' = call /\ listeners' = listeners /\ nextId' = nextId
          /\ flags.lock /\ ~flags.closed /\ call = "none"
      BY <1>12 DEF TransactionReturns, CheckReady, registry, running, Flags
    <2>2. backend' \in Backends
      BY <1>12, AnswersBackend DEF TransactionReturns, ExecInternal, Answered, pg
    <2>3. flags' \in Flags /\ flags'.lock
      <3>1. \A r : flags' = [flags EXCEPT !.inTransaction = r] /\ r \in BOOLEAN
                      => flags' \in Flags /\ flags'.lock
        BY <2>1 DEF Flags
      <3> QED  BY <1>12, <3>1 DEF TransactionReturns
    <2> QED  BY <2>1, <2>2, <2>3
  <1>13. ASSUME NEW c \in Channels, Listen(c) PROVE LockInv'
    <2>1. /\ flags' = flags /\ call' = call
          /\ flags.lock /\ ~flags.closed /\ call = "none"
      BY <1>13 DEF Listen, CheckReady, running, Flags
    <2>2. backend' \in Backends
      BY <1>13, AnswersBackend DEF Listen, ExecInternal, Answered, pg
    <2>3. Register(c) => listeners' \in [Channels -> SUBSET Nat] /\ nextId' \in Nat
      BY DEF Register
    <2>4. listeners' \in [Channels -> SUBSET Nat] /\ nextId' \in Nat
      BY <1>13, <2>3 DEF Listen, registry
    <2> QED  BY <2>1, <2>2, <2>4
  <1>14. ASSUME NEW c \in Channels, NEW ids \in SUBSET Ids, Unlisten(c, ids) PROVE LockInv'
    BY <1>14, AnswersBackend
    DEF Unlisten, ExecInternal, Answered, running, pg, Flags
  <1>15. CASE DumpQuiesces
    BY <1>15, AnswersBackend
    DEF DumpQuiesces, CheckReady, Shutdown, Answered, registry, Flags, Backends
  <1>16. CASE DumpRestarts
    BY <1>16 DEF DumpRestarts, registry, Flags, Backends
  <1>17. CASE DumpRestores
    BY <1>17 DEF DumpRestores, registry, Flags
  <1>18. CASE CloseBackend
    BY <1>18 DEF CloseBackend, Shutdown, running, Flags, Backends
  <1>19. CASE DropBackend
    BY <1>19 DEF DropBackend, Shutdown, registry, Flags, Backends
  <1>20. CASE DropLock
    BY <1>20 DEF DropLock, registry, running, pg, Flags
  <1>21. CASE UNCHANGED vars
    BY <1>21 DEF vars, registry, running, pg
  <1> QED
    BY <1>1, <1>2, <1>3, <1>4, <1>5, <1>6, <1>7, <1>8, <1>9, <1>10, <1>11, <1>12, <1>13, <1>14,
       <1>15, <1>16, <1>17, <1>18, <1>19, <1>20, <1>21
    DEF Next, Execute, Query, Transaction, Listening, Dump

(* The root lock is held as long as a backend runs or is half shut down,   *)
(* for any program that sends no raw protocol through a closed instance:   *)
(* close_backend, drop and the failures of a dump give the lock back last. *)
THEOREM LockHeld == ASSUME ~RawWhenClosed PROVE Spec => []LockCoversBackend
  <1>1. LockInv => LockCoversBackend
    BY DEF LockInv, Unlocked, LockCoversBackend
  <1> QED  BY <1>1, LockInit, LockStep, PTL DEF Spec
-----------------------------------------------------------------------------
(* Listeners.  What a statement other than UNLISTEN leaves in the session: *)
(* a channel that is listened to now and after a commit stays so.          *)

Sessions ==
    [block : {"idle", "open", "failed"}, by : {"nobody", "program", "transaction"},
     listening : SUBSET Channels, pending : SUBSET Channels]

Kept(c) == c \in session.listening /\ c \in session.pending

Keeps(t) ==
    /\ t \in Sessions
    /\ \A c \in Channels : Kept(c) => c \in t.listening /\ c \in t.pending

LEMMA FailedKeeps == ASSUME session \in Sessions PROVE Keeps(Failed(session))
  BY DEF Sessions, Keeps, Kept, Failed

LEMMA EndedKeeps ==
    ASSUME session \in Sessions PROVE Keeps(Ended(session.listening)) /\ Keeps(Ended(session.pending))
  BY DEF Sessions, Keeps, Kept, Ended

LEMMA BegunKeeps ==
    ASSUME session \in Sessions, NEW who \in {"program", "transaction"} PROVE Keeps(Begun(session, who))
  BY DEF Sessions, Keeps, Kept, Begun

LEMMA TriesKeep ==
    ASSUME session \in Sessions, NEW t, Keeps(t), NEW r \in Tries(session, t)
    PROVE  Keeps(r.s)
  <1>1. Keeps(session)  BY DEF Keeps, Kept
  <1> QED  BY <1>1, FailedKeeps DEF Tries, Ok, Err

LEMMA EndingsKeep ==
    ASSUME session \in Sessions, NEW r \in Commits(session) \cup Rolls(session)
    PROVE  Keeps(r.s)
  <1>1. Keeps(session)  BY DEF Keeps, Kept
  <1>2. session.block \in {"idle", "open", "failed"}  BY DEF Sessions
  <1> QED  BY <1>1, <1>2, EndedKeeps DEF Commits, Rolls, Ok, Err

LEMMA StatementsKeep ==
    ASSUME session \in Sessions, NEW r \in Statements PROVE Keeps(r.s)
  <1>1. Keeps(session)  BY DEF Keeps, Kept
  <1> QED  BY <1>1, BegunKeeps, TriesKeep, EndingsKeep DEF Statements

LEMMA AnswersFrom ==
    ASSUME backend \in Backends, NEW O, NEW r \in Answers(O)
    PROVE  \/ ~r.ok /\ r.s = session
           \/ \E q \in O : r.ok = q.ok /\ r.s = q.s
  BY DEF Answers, From, Err, Backends

LEMMA TriedAnswers ==
    ASSUME backend \in Backends, NEW t, NEW r \in Answers(Tries(session, t))
    PROVE  (r.ok => r.s = t) /\ r.s \in {session, Failed(session), t}
  <1>1. \A q \in Tries(session, t) : (q.ok => q.s = t) /\ q.s \in {session, Failed(session), t}
    BY DEF Tries, Ok, Err
  <1> QED  BY <1>1, AnswersFrom

LEMMA AnswersKeep ==
    ASSUME session \in Sessions, backend \in Backends, NEW O, \A r \in O : Keeps(r.s),
           NEW r \in Answers(O)
    PROVE  Keeps(r.s)
  <1>1. Keeps(session)  BY DEF Keeps, Kept
  <1> QED  BY <1>1, AnswersFrom

Replacing == {"restart", "restore", "dropping"}

(* While an instance is ready its session can hear every channel with a    *)
(* listener, inside a block and after it, except while a dump replaces the *)
(* session.                                                                *)
Heard ==
    flags.ready /\ backend = "up" /\ call \notin Replacing =>
        \A c \in Channels : listeners[c] # {} => Kept(c)

HeardInv ==
    /\ flags \in Flags
    /\ backend \in Backends
    /\ session \in Sessions
    /\ listeners \in [Channels -> SUBSET Nat] /\ nextId \in Nat
    /\ flags.closed => ~flags.ready
    /\ flags.ready /\ backend = "stopped" => call = "restart"
    /\ Heard

LEMMA HeardInit == Init => HeardInv
  BY DEF Init, HeardInv, Heard, Flags, Backends, Sessions, NewSession

(* A step that only sends statements.                                      *)
Sending ==
    /\ call \notin Replacing /\ call' \notin Replacing
    /\ flags' \in Flags /\ flags'.ready = flags.ready /\ flags'.closed = flags.closed
    /\ UNCHANGED registry
    /\ backend' \in Backends /\ (backend # "stopped" => backend' = backend)
    /\ Keeps(session')

LEMMA SendingStep == ASSUME HeardInv, Sending PROVE HeardInv'
  BY DEF HeardInv, Heard, Sending, Replacing, Keeps, Kept, registry, Flags

LEMMA HeardStep ==
    ASSUME ~ListenInBlock, HeardInv, [Next]_vars
    PROVE  HeardInv'
  <1>0. Keeps(session) /\ session \in Sessions /\ backend \in Backends /\ flags \in Flags
    BY DEF HeardInv, Keeps, Kept
  <1>a. \A t, r : Keeps(t) /\ r \in Answers(Tries(session, t)) => Keeps(r.s)
    BY <1>0, TriesKeep, AnswersKeep
  <1>b. \A r : r \in Answers(Statements) => Keeps(r.s)
    BY <1>0, StatementsKeep, AnswersKeep
  <1>c. \A O, r : r \in Answers(O) =>
            r.backend \in Backends /\ (backend # "stopped" => r.backend = backend)
    BY <1>0, AnswersBackend
  <1>d. \A O, r : /\ O \subseteq Commits(session) \cup Rolls(session)
                  /\ r \in Answers(O)
                => Keeps(r.s)
    BY <1>0, EndingsKeep, AnswersKeep
  <1>1. ASSUME NEW given \in BOOLEAN, Exec(given) PROVE HeardInv'
    <2>1. Sending
      BY <1>0, <1>b, <1>c, <1>1
      DEF Sending, Exec, MayExecute, CheckReady, Answered, Finish, running, Replacing
    <2> QED  BY <2>1, SendingStep
  <1>2. CASE ExecProtocol
    <2>1. Sending
      BY <1>0, <1>b, <1>c, <1>2 DEF Sending, ExecProtocol, Answered, running, Replacing
    <2> QED  BY <2>1, SendingStep
  <1>3. ASSUME NEW t, NEW given \in BOOLEAN, QueryParses(t, given) PROVE HeardInv'
    <2>1. Sending
      BY <1>0, <1>a, <1>c, <1>3
      DEF Sending, QueryParses, MayExecute, CheckReady, Answered, running, Replacing
    <2> QED  BY <2>1, SendingStep
  <1>4. ASSUME NEW t, DescribeQuery(t) PROVE HeardInv'
    <2>1. Sending
      BY <1>0, <1>a, <1>c, <1>4
      DEF Sending, DescribeQuery, CheckReady, Answered, Finish, running, Replacing
    <2> QED  BY <2>1, SendingStep
  <1>5. CASE QueryDiscovers
    <2>1. Sending
      BY <1>0, <1>a, <1>c, <1>5 DEF Sending, QueryDiscovers, ExecInternal, Answered, Replacing
    <2> QED  BY <2>1, SendingStep
  <1>6. CASE QueryParsesAgain
    <2>1. Sending
      BY <1>0, <1>a, <1>c, <1>6 DEF Sending, QueryParsesAgain, Answered, Replacing
    <2> QED  BY <2>1, SendingStep
  <1>7. CASE QueryExecutes
    <2>1. \A r : r \in Answers({Err(Failed(session))}) => Keeps(r.s)
      BY <1>0, FailedKeeps, AnswersKeep DEF Err
    <2>2. Sending
      BY <1>0, <1>a, <1>c, <1>7, <2>1
      DEF Sending, QueryExecutes, Binding, Answered, Finish, Replacing
    <2> QED  BY <2>2, SendingStep
  <1>8. CASE ResultDiscovers
    <2>1. Sending
      BY <1>0, <1>a, <1>c, <1>8 DEF Sending, ResultDiscovers, ExecInternal, Answered, Replacing
    <2> QED  BY <2>1, SendingStep
  <1>9. CASE RefreshArrayTypes
    <2>1. Sending
      BY <1>0, <1>a, <1>c, <1>9
      DEF Sending, RefreshArrayTypes, MayExecute, CheckReady, ExecInternal, Answered, running, Replacing
    <2> QED  BY <2>1, SendingStep
  <1>e. \A b \in BOOLEAN : /\ [flags EXCEPT !.inTransaction = b] \in Flags
                           /\ [flags EXCEPT !.inTransaction = b].ready = flags.ready
                           /\ [flags EXCEPT !.inTransaction = b].closed = flags.closed
    BY <1>0 DEF Flags
  <1>10. CASE TransactionBegins
    <2>1. Keeps(Begun(session, "transaction"))  BY <1>0, BegunKeeps
    <2>2. Sending
      BY <1>0, <1>a, <1>c, <1>e, <1>10, <2>1
      DEF Sending, TransactionBegins, CheckReady, ExecInternal, Answered, running, Replacing
    <2> QED  BY <2>2, SendingStep
  <1>11. CASE HandleEnds
    <2>1. Sending
      BY <1>0, <1>c, <1>d, <1>11
      DEF Sending, HandleEnds, CheckReady, ExecInternal, Answered, running, Replacing
    <2> QED  BY <2>1, SendingStep
  <1>12. ASSUME NEW committing \in BOOLEAN, TransactionReturns(committing) PROVE HeardInv'
    <2>1. call \notin Replacing /\ call' = call /\ UNCHANGED registry
      BY <1>12 DEF TransactionReturns, CheckReady, running, Replacing
    <2>2. /\ backend' \in Backends /\ (backend # "stopped" => backend' = backend)
          /\ Keeps(session')
      BY <1>0, <1>c, <1>d, <1>12 DEF TransactionReturns, ExecInternal, Answered, pg
    <2>3. \E b \in BOOLEAN : flags' = [flags EXCEPT !.inTransaction = b]
      BY <1>12 DEF TransactionReturns
    <2> QED  BY <1>e, <2>1, <2>2, <2>3, SendingStep DEF Sending
  <1>13. ASSUME NEW c \in Channels, Listen(c) PROVE HeardInv'
    <2>1. /\ flags' = flags /\ call' = call /\ flags.ready /\ call = "none"
          /\ session.block = "idle"
      BY <1>13 DEF Listen, CheckReady, running
    <2>2. Register(c) =>
            /\ listeners' \in [Channels -> SUBSET Nat] /\ nextId' \in Nat
            /\ \A d \in Channels : d # c => listeners'[d] = listeners[d]
      BY DEF Register, HeardInv
    <2>3. CASE listeners[c] # {}
      BY <1>13, <2>1, <2>2, <2>3 DEF Listen, HeardInv, Heard, Kept, pg
    <2>4. CASE listeners[c] = {}
      <3> DEFINE H == Hears(session, session.pending \cup {c})
      <3>1. PICK r \in Answers(Tries(session, H)) :
                ExecInternal(r) /\ IF r.ok THEN Register(c) ELSE UNCHANGED registry
        BY <1>13, <2>4 DEF Listen
      <3>2. Keeps(H) /\ c \in H.listening /\ c \in H.pending
        BY <1>0, <2>1 DEF Hears, Ended, Keeps, Kept, Sessions
      <3>3. Keeps(r.s) /\ r.backend \in Backends /\ (backend # "stopped" => r.backend = backend)
        BY <1>a, <1>c, <3>2
      <3>4. r.ok => r.s = H
        BY <1>0, TriedAnswers
      <3>5. session' = r.s /\ backend' = r.backend
        BY <3>1 DEF ExecInternal, Answered
      <3>6. CASE r.ok
        BY <2>1, <2>2, <3>1, <3>2, <3>3, <3>4, <3>5, <3>6 DEF HeardInv, Heard, Keeps, Kept, Replacing
      <3>7. CASE ~r.ok
        <4>1. Sending
          BY <1>0, <2>1, <3>1, <3>3, <3>5, <3>7 DEF Sending, Replacing
        <4> QED  BY <4>1, SendingStep
      <3> QED  BY <3>6, <3>7
    <2> QED  BY <2>3, <2>4
  <1>14. ASSUME NEW c \in Channels, NEW ids \in SUBSET Ids, Unlisten(c, ids) PROVE HeardInv'
    <2>1. /\ flags' = flags /\ call' = call /\ call = "none" /\ nextId' = nextId
          /\ listeners' = [listeners EXCEPT ![c] = @ \ ids]
      BY <1>14 DEF Unlisten, running
    <2>2. /\ listeners' \in [Channels -> SUBSET Nat]
          /\ \A d \in Channels : listeners'[d] # {} => listeners[d] # {}
          /\ listeners[c] = ids => listeners'[c] = {}
      BY <2>1 DEF HeardInv
    <2>3. CASE listeners[c] # ids
      BY <1>14, <2>1, <2>2, <2>3 DEF Unlisten, HeardInv, Heard, Kept, pg
    <2>4. CASE listeners[c] = ids
      <3> DEFINE H == Hears(session, session.pending \ {c})
      <3>1. PICK r \in Answers(Tries(session, H)) : ExecInternal(r)
        BY <1>14, <2>4 DEF Unlisten
      <3>2. /\ H \in Sessions
            /\ \A d \in Channels : d # c /\ Kept(d) => d \in H.listening /\ d \in H.pending
        BY <1>0 DEF Hears, Ended, Kept, Sessions
      <3>3. r.s \in {session, Failed(session), H}
        BY <1>0, TriedAnswers
      <3>4. /\ r.s \in Sessions
            /\ \A d \in Channels : d # c /\ Kept(d) => d \in r.s.listening /\ d \in r.s.pending
        BY <1>0, <3>2, <3>3, FailedKeeps DEF Keeps
      <3>5. /\ session' = r.s /\ backend' = r.backend
            /\ r.backend \in Backends /\ (backend # "stopped" => r.backend = backend)
        BY <1>c, <3>1 DEF ExecInternal, Answered
      <3> QED
        BY <2>1, <2>2, <2>4, <3>4, <3>5 DEF HeardInv, Heard, Kept, Replacing
    <2> QED  BY <2>3, <2>4
  <1>15. CASE DumpQuiesces
    <2>1. \A r : ~r.ok /\ Answered(r) /\ r \in Answers(Tries(session, session)) /\ UNCHANGED call
                  => Sending
      BY <1>0, <1>a, <1>c, <1>15 DEF Sending, DumpQuiesces, CheckReady, Answered, Replacing
    <2>2. ASSUME NEW result \in {"stopped", "broken"}, Shutdown(result),
                 IF result = "stopped" THEN call' = "restart" ELSE UNCHANGED call
          PROVE  HeardInv'
      BY <1>15, <2>2
      DEF DumpQuiesces, Shutdown, HeardInv, Heard, registry, Backends, Sessions, NewSession
    <2> QED  BY <1>15, <2>1, <2>2, SendingStep DEF DumpQuiesces
  <1>16. CASE DumpRestarts
    BY <1>16 DEF DumpRestarts, HeardInv, Heard, registry, Flags, Backends, Replacing
  <1>f. LET closed == [flags EXCEPT !.ready = FALSE, !.closed = TRUE]
        IN  closed \in Flags /\ ~closed.ready
    BY <1>0 DEF Flags
  <1>17. CASE DumpRestores
    <2>1. PICK heard \in SUBSET Registered :
            /\ session' = Ended(heard)
            /\ \/ heard = Registered /\ UNCHANGED flags
               \/ flags' = [flags EXCEPT !.ready = FALSE, !.closed = TRUE]
      BY <1>17 DEF DumpRestores
    <2>2. /\ UNCHANGED registry /\ backend' = backend /\ call = "restore" /\ call' = "none"
      BY <1>17 DEF DumpRestores
    <2>3. session' \in Sessions /\ session'.listening = heard /\ session'.pending = heard
      BY <2>1 DEF Registered, Ended, Sessions
    <2>4. CASE heard = Registered /\ UNCHANGED flags
      BY <2>2, <2>3, <2>4 DEF HeardInv, Heard, Kept, Registered, registry
    <2>5. CASE flags' = [flags EXCEPT !.ready = FALSE, !.closed = TRUE]
      BY <1>f, <2>2, <2>3, <2>5 DEF HeardInv, Heard, registry
    <2> QED  BY <2>1, <2>4, <2>5
  <1>18. CASE CloseBackend
    <2>1. session' \in Sessions /\ nextId' = nextId /\ call' = call
      BY <1>18 DEF CloseBackend, Shutdown, NewSession, Sessions, running
    <2>2. CASE /\ backend' = "stopped" /\ listeners' = [c \in Channels |-> {}]
               /\ flags' = [flags EXCEPT !.ready = FALSE, !.closed = TRUE, !.lock = FALSE]
      <3>1. flags' \in Flags /\ ~flags'.ready  BY <1>0, <2>2 DEF Flags
      <3> QED  BY <2>1, <2>2, <3>1 DEF HeardInv, Heard, Backends
    <2>3. CASE backend' = "broken" /\ UNCHANGED <<flags, listeners>>
      BY <2>1, <2>3 DEF HeardInv, Heard, Backends
    <2> QED  BY <1>18, <2>2, <2>3 DEF CloseBackend, Shutdown
  <1>19. CASE DropBackend
    BY <1>19
    DEF DropBackend, Shutdown, HeardInv, Heard, registry, Flags, Backends, Sessions, NewSession
  <1>20. CASE DropLock
    BY <1>20 DEF DropLock, HeardInv, Heard, Kept, registry, running, pg, Flags, Replacing
  <1>21. CASE UNCHANGED vars
    BY <1>21 DEF vars, HeardInv, Heard, Kept, registry, running, pg
  <1> QED
    BY <1>1, <1>2, <1>3, <1>4, <1>5, <1>6, <1>7, <1>8, <1>9, <1>10, <1>11, <1>12, <1>13, <1>14,
       <1>15, <1>16, <1>17, <1>18, <1>19, <1>20, <1>21
    DEF Next, Execute, Query, Transaction, Listening, Dump

(* Between calls the session of a ready instance listens to every channel  *)
(* that has a listener, for any program that does not call listen in a     *)
(* BEGIN of its own: through failed statements, rolled back transactions   *)
(* and dumps that replace the session.                                     *)
THEOREM HeardAlways == ASSUME ~ListenInBlock PROVE Spec => []ListenersHeard
  <1>1. HeardInv => ListenersHeard
    BY DEF HeardInv, Heard, Kept, ListenersHeard, Replacing
  <1> QED  BY <1>1, HeardInit, HeardStep, PTL DEF Spec
-----------------------------------------------------------------------------
(* Prepared statements: every step that makes a query ready to bind leaves *)
(* its statement in the session, but for the lookup of a type that is no   *)
(* array, and an array type is the only one the client parses again for.   *)
StmtInv ==
    /\ call = "parsed" => stmt
    /\ call = "bind" => stmt \/ arg.type \in OtherTypes

LEMMA StmtStep ==
    ASSUME StmtInv, [Next]_vars
    PROVE  StmtInv'
  <1> USE DEF StmtInv
  <1>1. ASSUME Execute PROVE StmtInv'
    BY <1>1 DEF Execute, Exec, ExecProtocol, MayExecute, CheckReady, Finish, running
  <1>2. ASSUME NEW t, NEW given, QueryParses(t, given) PROVE StmtInv'
    BY <1>2 DEF QueryParses, MayExecute, CheckReady, running
  <1>3. ASSUME NEW t, DescribeQuery(t) PROVE StmtInv'
    BY <1>3 DEF DescribeQuery, CheckReady, Finish, running
  <1>4. CASE QueryDiscovers
    BY <1>4 DEF QueryDiscovers, Unknown, Types
  <1>5. CASE QueryParsesAgain
    BY <1>5 DEF QueryParsesAgain
  <1>6. CASE QueryExecutes
    BY <1>6 DEF QueryExecutes, Finish
  <1>7. CASE ResultDiscovers \/ RefreshArrayTypes
    BY <1>7 DEF ResultDiscovers, RefreshArrayTypes, MayExecute, CheckReady, running
  <1>8. CASE Transaction
    BY <1>8 DEF Transaction, TransactionBegins, HandleEnds, TransactionReturns, CheckReady, running
  <1>9. CASE Listening
    BY <1>9 DEF Listening, Listen, Unlisten, CheckReady, running
  <1>10. CASE Dump
    BY <1>10 DEF Dump, DumpQuiesces, DumpRestarts, DumpRestores, CheckReady
  <1>11. CASE CloseBackend \/ DropBackend \/ DropLock \/ UNCHANGED vars
    BY <1>11 DEF CloseBackend, DropBackend, DropLock, running, pg, vars
  <1> QED
    BY <1>1, <1>2, <1>3, <1>4, <1>5, <1>6, <1>7, <1>8, <1>9, <1>10, <1>11 DEF Next, Query

(* The statement a query binds is there, whatever lookups it made since it *)
(* parsed it, for any types; only a call that itself looked up a type that *)
(* is no array may find it gone.                                           *)
THEOREM StatementFound == Spec => []BindFindsStatement
  <1>1. Init => StmtInv
    BY DEF Init, StmtInv
  <1>2. StmtInv => BindFindsStatement
    BY DEF StmtInv, BindFindsStatement, Binding
  <1> QED  BY <1>1, <1>2, StmtStep, PTL DEF Spec
-----------------------------------------------------------------------------
(* Transactions.  A statement of the program never makes a block one of    *)
(* transaction's; ending a block leaves none.                              *)

Tidy(t) == t \in Sessions /\ (t.block = "idle" => t.by = "nobody")
Others(t) == Tidy(t) /\ (t.by = "transaction" => session.by = "transaction")

LEMMA OthersTried ==
    ASSUME Tidy(session), backend \in Backends, NEW t, Others(t),
           NEW r \in Answers(Tries(session, t))
    PROVE  Others(r.s)
  <1>1. Others(session) /\ Others(Failed(session))
    BY DEF Others, Tidy, Sessions, Failed
  <1> QED  BY <1>1, TriedAnswers

LEMMA EndedAnswers ==
    ASSUME Tidy(session), backend \in Backends, NEW O \in SUBSET (Commits(session) \cup Rolls(session)),
           NEW r \in Answers(O)
    PROVE  Others(r.s) /\ (r.ok => r.s.by = "nobody")
  <1>1. session.block \in {"idle", "open", "failed"} /\ Others(session)
    BY DEF Others, Tidy, Sessions
  <1>2. \A x \in SUBSET Channels : Others(Ended(x)) /\ Ended(x).by = "nobody"
    BY DEF Others, Tidy, Sessions, Ended
  <1>3. session.listening \in SUBSET Channels /\ session.pending \in SUBSET Channels
    BY DEF Tidy, Sessions
  <1>4. \A q \in Commits(session) \cup Rolls(session) : Others(q.s) /\ (q.ok => q.s.by = "nobody")
    BY <1>1, <1>2, <1>3 DEF Commits, Rolls, Ok, Err, Tidy
  <1> QED  BY <1>1, <1>4, AnswersFrom

LEMMA OthersStated ==
    ASSUME Tidy(session), backend \in Backends, NEW r \in Answers(Statements)
    PROVE  Others(r.s)
  <1>1. Others(session) /\ Others(Failed(session)) /\ Others(Begun(session, "program"))
    BY DEF Others, Tidy, Sessions, Failed, Begun
  <1>2. \A q \in Tries(session, session) \cup Tries(session, Begun(session, "program")) : Others(q.s)
    BY <1>1 DEF Tries, Ok, Err
  <1>3. session.block \in {"idle", "open", "failed"}
        /\ session.listening \in SUBSET Channels /\ session.pending \in SUBSET Channels
    BY DEF Tidy, Sessions
  <1>4. \A x \in SUBSET Channels : Others(Ended(x))
    BY DEF Others, Tidy, Sessions, Ended
  <1>5. \A q \in Commits(session) \cup Rolls(session) : Others(q.s)
    BY <1>1, <1>3, <1>4 DEF Commits, Rolls, Ok, Err
  <1> QED  BY <1>1, <1>2, <1>5, AnswersFrom DEF Statements

(* The flag is set whenever transaction's block may be open, and a handle  *)
(* that was closed has ended it; no call is made through a closed handle.  *)
TxInv ==
    /\ flags \in Flags /\ backend \in Backends /\ Tidy(session)
    /\ session.by = "transaction" => flags.inTransaction
    /\ tx = "closed" => session.by # "transaction" /\ call = "none"

(* A step that does not end or begin a transaction.                        *)
Beside ==
    /\ flags' \in Flags /\ flags'.inTransaction = flags.inTransaction
    /\ backend' \in Backends /\ Others(session')
    /\ tx' = tx /\ (tx = "closed" => call' = "none")

LEMMA BesideStep == ASSUME TxInv, Beside PROVE TxInv'
  BY DEF TxInv, Beside, Others

LEMMA TxStep == ASSUME TxInv, [Next]_vars PROVE TxInv'
  <1>0. /\ Tidy(session) /\ backend \in Backends /\ flags \in Flags
        /\ tx = "closed" => call = "none"
    BY DEF TxInv
  <1>a. Others(session) /\ \A x \in SUBSET Channels : Others(Ended(x)) /\ Others(NewSession)
    BY <1>0 DEF Others, Tidy, Sessions, Ended, NewSession
  <1>b. \A t, r : Others(t) /\ r \in Answers(Tries(session, t)) => Others(r.s)
    BY <1>0, OthersTried
  <1>c. \A r : r \in Answers(Statements) => Others(r.s)
    BY <1>0, OthersStated
  <1>d. \A O, r : r \in Answers(O) => r.backend \in Backends
    BY <1>0, AnswersBackend
  <1>1. ASSUME NEW given, Exec(given) PROVE Beside
    BY <1>0, <1>c, <1>d, <1>1 DEF Beside, Exec, MayExecute, Answered
  <1>2. CASE ExecProtocol
    <2>1. Beside
      BY <1>0, <1>c, <1>d, <1>2 DEF Beside, ExecProtocol, Answered
    <2> QED  BY <2>1, BesideStep
  <1>3. CASE Query
    <2>1. \A r : r \in Answers({Err(Failed(session))}) => Others(r.s)
      <3>1. Others(Failed(session))  BY <1>0 DEF Others, Tidy, Sessions, Failed
      <3> QED  BY <1>0, <1>a, <3>1, AnswersFrom DEF Err
    <2>2. ASSUME NEW t, NEW given, QueryParses(t, given) PROVE Beside
      BY <1>0, <1>a, <1>b, <1>d, <2>2 DEF Beside, QueryParses, MayExecute, Answered
    <2>3. ASSUME NEW t, DescribeQuery(t) PROVE Beside
      BY <1>0, <1>a, <1>b, <1>d, <2>3 DEF Beside, DescribeQuery, Answered
    <2>4. ASSUME QueryDiscovers PROVE Beside
      BY <1>0, <1>a, <1>b, <1>d, <2>4 DEF Beside, QueryDiscovers, ExecInternal, Answered
    <2>5. ASSUME QueryParsesAgain PROVE Beside
      BY <1>0, <1>a, <1>b, <1>d, <2>5 DEF Beside, QueryParsesAgain, Answered
    <2>6. ASSUME QueryExecutes PROVE Beside
      BY <1>0, <1>a, <1>b, <1>d, <2>1, <2>6 DEF Beside, QueryExecutes, Binding, Answered
    <2>7. ASSUME ResultDiscovers PROVE Beside
      BY <1>0, <1>a, <1>b, <1>d, <2>7 DEF Beside, ResultDiscovers, ExecInternal, Answered
    <2>8. ASSUME RefreshArrayTypes PROVE Beside
      BY <1>0, <1>a, <1>b, <1>d, <2>8
      DEF Beside, RefreshArrayTypes, MayExecute, ExecInternal, Answered, running
    <2> QED
      BY <1>3, <2>2, <2>3, <2>4, <2>5, <2>6, <2>7, <2>8, BesideStep DEF Query, Beside
  <1>4. CASE TransactionBegins
    <2>1. PICK r \in Answers(Tries(session, Begun(session, "transaction"))) :
            /\ ExecInternal(r)
            /\ IF r.ok
               THEN flags' = [flags EXCEPT !.inTransaction = TRUE] /\ tx' = "open"
               ELSE UNCHANGED <<flags, tx>>
      BY <1>4 DEF TransactionBegins
    <2>2. session' = r.s /\ backend' \in Backends
      BY <1>d, <2>1 DEF ExecInternal, Answered
    <2>3. Tidy(Begun(session, "transaction")) /\ Others(Failed(session))
      BY <1>0 DEF Others, Tidy, Sessions, Begun, Failed
    <2>4. CASE r.ok
      <3>1. session' = Begun(session, "transaction")
        BY <1>0, <2>2, <2>4, TriedAnswers
      <3>2. flags' \in Flags /\ flags'.inTransaction /\ tx' = "open"
        BY <1>0, <2>1, <2>4 DEF Flags
      <3> QED  BY <2>2, <2>3, <3>1, <3>2 DEF TxInv
    <2>5. CASE ~r.ok
      <3>1. \A q \in Tries(session, Begun(session, "transaction")) : ~q.ok => Others(q.s)
        BY <1>a, <2>3 DEF Tries, Ok, Err
      <3>2. Others(session')
        BY <1>0, <1>a, <2>2, <2>5, <3>1, AnswersFrom
      <3>3. Beside
        BY <1>0, <1>4, <2>1, <2>2, <2>5, <3>2 DEF Beside, TransactionBegins, CheckReady, running
      <3> QED  BY <3>3, BesideStep
    <2> QED  BY <2>4, <2>5
  <1>5. CASE HandleEnds
    <2>1. PICK r \in Answers(Commits(session) \cup Rolls(session)) :
            ExecInternal(r) /\ tx' = IF r.ok THEN "closed" ELSE tx
      BY <1>5 DEF HandleEnds
    <2>2. session' = r.s /\ backend' \in Backends /\ flags' = flags /\ call' = "none"
      BY <1>5, <1>d, <2>1 DEF HandleEnds, CheckReady, ExecInternal, Answered, running
    <2>3. Others(r.s) /\ (r.ok => r.s.by = "nobody")
      BY <1>0, EndedAnswers
    <2> QED  BY <2>1, <2>2, <2>3 DEF TxInv, Others
  <1>6. ASSUME NEW committing \in BOOLEAN, TransactionReturns(committing) PROVE TxInv'
    <2>1. tx' = "none"
      BY <1>6 DEF TransactionReturns
    <2>2. CASE tx = "closed"
      <3>1. flags' = [flags EXCEPT !.inTransaction = FALSE] /\ UNCHANGED pg
        BY <1>6, <2>2 DEF TransactionReturns
      <3>2. flags' \in Flags  BY <1>0, <3>1 DEF Flags
      <3> QED  BY <2>1, <2>2, <3>1, <3>2 DEF TxInv, Tidy, pg
    <2>3. CASE tx # "closed"
      <3> DEFINE O == IF committing THEN Commits(session) ELSE Rolls(session)
      <3>1. PICK r \in Answers(O) :
                ExecInternal(r) /\ flags' = [flags EXCEPT !.inTransaction = ~r.ok]
        BY <1>6, <2>3 DEF TransactionReturns
      <3>2. O \in SUBSET (Commits(session) \cup Rolls(session))
        OBVIOUS
      <3>3. Others(r.s) /\ (r.ok => r.s.by = "nobody")
        BY <1>0, <3>2, EndedAnswers
      <3>4. session' = r.s /\ backend' \in Backends
        BY <1>d, <3>1 DEF ExecInternal, Answered
      <3>5. flags' \in Flags /\ (flags'.inTransaction <=> ~r.ok)
        BY <1>0, <3>1 DEF Flags
      <3> QED  BY <2>1, <3>3, <3>4, <3>5 DEF TxInv, Others
    <2> QED  BY <2>2, <2>3
  <1>7. ASSUME NEW c \in Channels, Listen(c) PROVE Beside
    <2>1. Others(Hears(session, session.pending \cup {c}))
      BY <1>0 DEF Others, Tidy, Sessions, Hears, Ended
    <2> QED
      BY <1>0, <1>a, <1>b, <1>d, <1>7, <2>1 DEF Beside, Listen, ExecInternal, Answered, running, pg
  <1>8. ASSUME NEW c \in Channels, NEW ids \in SUBSET Ids, Unlisten(c, ids) PROVE Beside
    <2>1. Others(Hears(session, session.pending \ {c}))
      BY <1>0 DEF Others, Tidy, Sessions, Hears, Ended
    <2> QED
      BY <1>0, <1>a, <1>b, <1>d, <1>8, <2>1 DEF Beside, Unlisten, ExecInternal, Answered, running, pg
  <1>9. CASE Dump
    <2>1. ASSUME DumpQuiesces PROVE Beside
      BY <1>0, <1>a, <1>b, <1>d, <2>1
      DEF Beside, DumpQuiesces, CheckReady, Shutdown, Answered, Backends
    <2>2. ASSUME DumpRestarts PROVE Beside
      BY <1>0, <1>a, <2>2 DEF Beside, DumpRestarts, Flags, Backends
    <2>3. ASSUME DumpRestores PROVE Beside
      <3>1. Others(session')
        BY <1>a, <2>3 DEF DumpRestores, Registered
      <3>2. flags' \in Flags /\ flags'.inTransaction = flags.inTransaction
        BY <1>0, <2>3 DEF DumpRestores, Flags
      <3> QED  BY <1>0, <2>3, <3>1, <3>2 DEF Beside, DumpRestores
    <2> QED  BY <1>9, <2>1, <2>2, <2>3, BesideStep DEF Dump
  <1>10. CASE CloseBackend
    <2>1. flags' \in Flags /\ flags'.inTransaction = flags.inTransaction
      BY <1>0, <1>10 DEF CloseBackend, Flags
    <2>2. Beside
      BY <1>0, <1>a, <1>10, <2>1 DEF Beside, CloseBackend, Shutdown, Backends, running
    <2> QED  BY <2>2, BesideStep
  <1>11. CASE DropBackend
    <2>1. flags' \in Flags /\ flags'.inTransaction = flags.inTransaction
      BY <1>0, <1>11 DEF DropBackend, Flags
    <2>2. Beside
      BY <1>0, <1>a, <1>11, <2>1 DEF Beside, DropBackend, Shutdown, Backends
    <2> QED  BY <2>2, BesideStep
  <1>12. CASE DropLock
    <2>1. flags' \in Flags /\ flags'.inTransaction = flags.inTransaction
      BY <1>0, <1>12 DEF DropLock, Flags
    <2>2. Beside
      BY <1>0, <1>a, <1>12, <2>1 DEF Beside, DropLock, running, pg
    <2> QED  BY <2>2, BesideStep
  <1>13. CASE UNCHANGED vars
    BY <1>13 DEF vars, TxInv, Tidy, running, pg
  <1> QED
    BY <1>1, <1>2, <1>3, <1>4, <1>5, <1>6, <1>7, <1>8, <1>9, <1>10, <1>11, <1>12, <1>13, BesideStep
    DEF Next, Execute, Transaction, Listening

(* When transaction has returned, and the client counts no transaction,    *)
(* the session is not in a block of transaction's: whatever the closure    *)
(* executed, however it ended, and whichever statements failed.            *)
THEOREM NoBlockLeft == Spec => []TransactionEnds
  <1>1. Init => TxInv
    BY DEF Init, TxInv, Tidy, Sessions, Flags, Backends, NewSession
  <1>2. TxInv => TransactionEnds
    BY DEF TxInv, TransactionEnds
  <1> QED  BY <1>1, <1>2, TxStep, PTL DEF Spec
-----------------------------------------------------------------------------
(* The blob file.  From Parse to Bind it holds what the call was given;    *)
(* once a lookup has run it is gone.                                       *)
BlobInv ==
    /\ call = "parsed" => blob = IF arg.blob THEN "input" ELSE "none"
    /\ call \in {"registered", "bind"} => blob = "none"

LEMMA BlobStep == ASSUME BlobInv, [Next]_vars PROVE BlobInv'
  <1> USE DEF BlobInv, HandleBlobInput
  <1>1. CASE Execute
    BY <1>1 DEF Execute, Exec, GetWrittenBlob, ExecProtocol, MayExecute, CheckReady, Finish, running, dev
  <1>2. ASSUME NEW t, NEW given \in BOOLEAN, QueryParses(t, given) PROVE BlobInv'
    BY <1>2 DEF QueryParses, MayExecute, CheckReady, running
  <1>3. ASSUME NEW t, DescribeQuery(t) PROVE BlobInv'
    BY <1>3 DEF DescribeQuery, CheckReady, Finish, running
  <1>4. CASE QueryDiscovers
    BY <1>4, ClientAssumption DEF QueryDiscovers, ExecInternal, Unknown, Types
  <1>5. CASE QueryParsesAgain
    BY <1>5 DEF QueryParsesAgain, dev
  <1>6. CASE QueryExecutes
    BY <1>6 DEF QueryExecutes, GetWrittenBlob, Finish
  <1>7. CASE ResultDiscovers \/ RefreshArrayTypes
    BY <1>7 DEF ResultDiscovers, RefreshArrayTypes, MayExecute, CheckReady, running
  <1>8. CASE Transaction
    BY <1>8 DEF Transaction, TransactionBegins, HandleEnds, TransactionReturns, CheckReady, running
  <1>9. CASE Listening
    BY <1>9 DEF Listening, Listen, Unlisten, CheckReady, running
  <1>10. CASE Dump
    BY <1>10 DEF Dump, DumpQuiesces, DumpRestarts, DumpRestores, CheckReady
  <1>11. CASE CloseBackend \/ DropBackend \/ DropLock \/ UNCHANGED vars
    BY <1>11 DEF CloseBackend, DropBackend, DropLock, running, dev, vars
  <1> QED
    BY <1>1, <1>2, <1>3, <1>4, <1>5, <1>6, <1>7, <1>8, <1>9, <1>10, <1>11 DEF Next, Query

(* A query that looked up no type runs with exactly the blob it was given, *)
(* one that did runs with none; neither ever with a blob of an earlier or  *)
(* a failed call.  For any types, arrays or not.                           *)
THEOREM OwnBlob == Spec => []BlobOfThisCall
  <1>1. Init => BlobInv
    BY DEF Init, BlobInv
  <1>2. BlobInv => BlobOfThisCall
    BY DEF BlobInv, BlobOfThisCall, Binding
  <1> QED  BY <1>1, <1>2, BlobStep, PTL DEF Spec
-----------------------------------------------------------------------------
(* Type correctness.  The flags, the backend and the session are those of  *)
(* TxInv; what is left are the listeners, the types and the files.         *)
ListenersOK ==
    /\ listeners \in [Channels -> SUBSET Ids] /\ nextId \in 1 .. (MaxListeners + 1)
    /\ \A c \in Channels : \A i \in listeners[c] : i < nextId

Calls == {"none", "parsed", "registered", "bind", "results", "restart", "restore", "dropping"}

(* Only a call that has a type to look up reads its argument.              *)
CallOK ==
    /\ tx \in {"none", "open", "closed"}
    /\ known \subseteq ArrayTypes /\ misses \subseteq OtherTypes
    /\ call \in Calls /\ arg \in [type : Types \cup {NoType}, blob : BOOLEAN]
    /\ call = "results" => arg.type \in Types
    /\ blob \in {"none", "input", "output"} /\ provided \in BOOLEAN /\ stmt \in BOOLEAN

LEMMA ListenersStep == ASSUME ListenersOK, [Next]_vars PROVE ListenersOK'
  <1> USE ClientAssumption
  <1>1. ASSUME NEW c \in Channels, Register(c), nextId <= MaxListeners PROVE ListenersOK'
    BY <1>1 DEF ListenersOK, Register, Ids
  <1>2. ASSUME NEW c \in Channels, Listen(c) PROVE ListenersOK'
    <2>1. Register(c) \/ UNCHANGED registry
      BY <1>2 DEF Listen
    <2>2. nextId <= MaxListeners
      BY <1>2 DEF Listen
    <2> QED  BY <1>1, <2>1, <2>2 DEF ListenersOK, registry
  <1>3. ASSUME NEW c \in Channels, NEW ids \in SUBSET Ids, Unlisten(c, ids) PROVE ListenersOK'
    BY <1>3 DEF Unlisten, ListenersOK
  <1>4. CASE CloseBackend
    BY <1>4 DEF CloseBackend, ListenersOK
  <1>5. CASE Execute \/ Query \/ Transaction \/ Dump \/ DropBackend \/ DropLock \/ UNCHANGED vars
    <2>1. UNCHANGED registry
      BY <1>5
      DEF Execute, Exec, GetWrittenBlob, ExecProtocol, Query, QueryParses, QueryDiscovers, QueryParsesAgain,
          QueryExecutes, ResultDiscovers, DescribeQuery, RefreshArrayTypes, Transaction,
          TransactionBegins, HandleEnds, TransactionReturns, Dump, DumpQuiesces, DumpRestarts,
          DumpRestores, DropBackend, DropLock, vars
    <2> QED  BY <2>1 DEF ListenersOK, registry
  <1> QED  BY <1>2, <1>3, <1>4, <1>5 DEF Next, Listening

LEMMA TriedOk ==
    ASSUME backend \in Backends, NEW r \in Answers(Tries(session, session)) PROVE r.ok \in BOOLEAN
  <1>1. \A t : Ok(t).ok = TRUE /\ Err(t).ok = FALSE
    BY DEF Ok, Err
  <1>2. \A q \in Tries(session, session) : q.ok = TRUE \/ q.ok = FALSE
    BY <1>1 DEF Tries
  <1>3. \E q \in Tries(session, session) \cup {Err(session)} : r.ok = q.ok
    BY DEF Answers, From, Backends
  <1>4. r.ok = TRUE \/ r.ok = FALSE
    BY <1>1, <1>2, <1>3
  <1> QED  BY <1>4

LEMMA CallStep == ASSUME CallOK, backend \in Backends, [Next]_vars PROVE CallOK'
  <1> USE DEF CallOK, Calls
  <1>a. \A r \in Answers(Tries(session, session)) : r.ok \in BOOLEAN
    BY TriedOk
  <1>b. NoArg \in [type : Types \cup {NoType}, blob : BOOLEAN]
    BY DEF NoArg
  <1>c. \A t \in Types \cup {NoType} :
            Finish(t) => /\ call' \in Calls /\ arg' \in [type : Types \cup {NoType}, blob : BOOLEAN]
                         /\ call' = "results" => arg'.type \in Types
    <2> SUFFICES ASSUME NEW t \in Types \cup {NoType}, Finish(t)
                 PROVE  /\ call' \in Calls /\ arg' \in [type : Types \cup {NoType}, blob : BOOLEAN]
                        /\ call' = "results" => arg'.type \in Types
      OBVIOUS
    <2>1. CASE Unknown(t)
      <3>1. call' = "results" /\ arg' = [type |-> t, blob |-> FALSE] /\ t \in Types
        BY <2>1 DEF Finish, Unknown
      <3>2. [type |-> t, blob |-> FALSE] \in [type : Types \cup {NoType}, blob : BOOLEAN]
        OBVIOUS
      <3>3. [type |-> t, blob |-> FALSE].type = t
        OBVIOUS
      <3> QED  BY <3>1, <3>2, <3>3
    <2>2. CASE ~Unknown(t)
      BY <1>b, <2>2 DEF Finish
    <2> QED  BY <2>1, <2>2
  <1>d. arg.type \in Types /\ Discovered(arg.type) =>
            known' \subseteq ArrayTypes /\ misses' \subseteq OtherTypes
    BY DEF Discovered, Types
  <1>1. CASE Execute
    <2>1. CASE ExecProtocol
      BY <2>1 DEF ExecProtocol, running, types, dev
    <2>2. ASSUME NEW given \in BOOLEAN, Exec(given) PROVE CallOK'
      <3>1. /\ call' \in Calls /\ arg' \in [type : Types \cup {NoType}, blob : BOOLEAN]
            /\ call' = "results" => arg'.type \in Types
        BY <1>c, <2>2 DEF Exec, GetWrittenBlob, running
      <3>2. /\ tx' = tx /\ UNCHANGED types
            /\ blob' \in {"none", "input", "output"} /\ provided' \in BOOLEAN /\ stmt' \in BOOLEAN
        BY <2>2 DEF Exec, GetWrittenBlob
      <3> QED  BY <3>1, <3>2 DEF types
    <2> QED  BY <1>1, <2>1, <2>2 DEF Execute
  <1>2. ASSUME NEW t \in Types \cup {NoType}, NEW given \in BOOLEAN, QueryParses(t, given)
        PROVE  CallOK'
    BY <1>2, <1>a DEF QueryParses, HandleBlobInput, MayExecute, CheckReady, running, types
  <1>3. ASSUME NEW t \in Types \cup {NoType}, DescribeQuery(t) PROVE CallOK'
    <2>1. /\ call' \in Calls /\ arg' \in [type : Types \cup {NoType}, blob : BOOLEAN]
          /\ call' = "results" => arg'.type \in Types
      BY <1>c, <1>3 DEF DescribeQuery, running
    <2>2. tx' = tx /\ UNCHANGED <<types, dev>> /\ stmt' \in BOOLEAN
      BY <1>a, <1>3 DEF DescribeQuery
    <2> QED  BY <2>1, <2>2 DEF types, dev
  <1>4. CASE QueryDiscovers
    <2>1. known' \subseteq ArrayTypes /\ misses' \subseteq OtherTypes
      BY <1>d, <1>4 DEF QueryDiscovers, Unknown, types
    <2>2. /\ tx' = tx /\ blob' = "none" /\ provided' = FALSE /\ stmt' = FALSE
      BY <1>4 DEF QueryDiscovers, ExecInternal, HandleBlobInput
    <2>3. /\ call' \in {"registered", "bind", "none"}
          /\ arg' = arg \/ arg' = NoArg
      BY <1>4 DEF QueryDiscovers
    <2> QED  BY <1>b, <2>1, <2>2, <2>3
  <1>5. CASE QueryParsesAgain
    <2>1. call' \in {"bind", "none"} /\ (arg' = arg \/ arg' = NoArg) /\ stmt' \in BOOLEAN
      BY <1>a, <1>5 DEF QueryParsesAgain
    <2>2. tx' = tx /\ UNCHANGED <<types, dev>>
      BY <1>5 DEF QueryParsesAgain
    <2> QED  BY <1>b, <2>1, <2>2 DEF types, dev
  <1>6. CASE QueryExecutes
    <2>1. /\ call' \in Calls /\ arg' \in [type : Types \cup {NoType}, blob : BOOLEAN]
          /\ call' = "results" => arg'.type \in Types
      BY <1>b, <1>c, <1>6 DEF QueryExecutes, GetWrittenBlob
    <2>2. /\ tx' = tx /\ stmt' = stmt /\ UNCHANGED types
          /\ blob' \in {"none", "output", blob} /\ provided' \in {FALSE, provided}
      BY <1>6 DEF QueryExecutes, GetWrittenBlob
    <2> QED  BY <2>1, <2>2 DEF types
  <1>7. CASE ResultDiscovers
    <2>1. known' \subseteq ArrayTypes /\ misses' \subseteq OtherTypes
      BY <1>d, <1>7 DEF ResultDiscovers, types
    <2> QED  BY <1>b, <1>7, <2>1 DEF ResultDiscovers, ExecInternal, HandleBlobInput
  <1>8. CASE RefreshArrayTypes
    BY <1>8 DEF RefreshArrayTypes, ExecInternal, HandleBlobInput, running, types
  <1>9. CASE Transaction
    BY <1>9
    DEF Transaction, TransactionBegins, HandleEnds, TransactionReturns, ExecInternal,
        HandleBlobInput, running, types, dev, pg
  <1>10. CASE Listening
    BY <1>10 DEF Listening, Listen, Unlisten, ExecInternal, HandleBlobInput, running, types, dev, pg
  <1>11. CASE Dump
    BY <1>11
    DEF Dump, DumpQuiesces, DumpRestarts, DumpRestores, Shutdown, HandleBlobInput, CheckReady,
        running, types, dev
  <1>12. CASE CloseBackend \/ DropBackend \/ DropLock \/ UNCHANGED vars
    BY <1>12 DEF CloseBackend, DropBackend, DropLock, Shutdown, vars, running, types, dev, pg
  <1> QED
    BY <1>1, <1>2, <1>3, <1>4, <1>5, <1>6, <1>7, <1>8, <1>9, <1>10, <1>11, <1>12 DEF Next, Query

(* Type correctness: every variable keeps its type, for any channels,      *)
(* types and number of listeners; a listener has an id that was issued.    *)
THEOREM ClientTypeCorrect == Spec => []TypeOK
  <1> USE ClientAssumption
  <1>1. Init => TxInv /\ ListenersOK /\ CallOK
    <2>1. Init => TxInv
      BY DEF Init, TxInv, Tidy, Sessions, Flags, Backends, NewSession
    <2>2. Init => ListenersOK
      BY DEF Init, ListenersOK
    <2>3. ASSUME Init PROVE CallOK
      <3>1. arg \in [type : Types \cup {NoType}, blob : BOOLEAN]
        BY <2>3 DEF Init, NoArg
      <3>2. provided \in BOOLEAN /\ stmt \in BOOLEAN
        BY <2>3 DEF Init
      <3> QED  BY <2>3, <3>1, <3>2 DEF Init, CallOK, Calls
    <2> QED  BY <2>1, <2>2, <2>3
  <1>2. TxInv /\ ListenersOK /\ CallOK /\ [Next]_vars => (TxInv /\ ListenersOK /\ CallOK)'
    BY TxStep, ListenersStep, CallStep DEF TxInv
  <1>3. TxInv /\ ListenersOK /\ CallOK => TypeOK
    BY DEF TypeOK, TxInv, ListenersOK, CallOK, Calls, Tidy, Sessions, Flags, Backends
  <1> QED  BY <1>1, <1>2, <1>3, PTL DEF Spec
=============================================================================
