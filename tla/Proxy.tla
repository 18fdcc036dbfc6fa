-------------------------------- MODULE Proxy --------------------------------
(***************************************************************************)
(* One connection of the wire proxy: PgliteProxy::handle_stream            *)
(* (proxy.rs), the frame reader (wire.rs) and the protocol pump            *)
(* (postgres_mod.rs) with the guest bridge it drives.                      *)
(*                                                                         *)
(* The handler reads the socket, cuts the bytes into frontend messages and *)
(* collects backend messages in a batch that it flushes at protocol        *)
(* boundaries.  When a flushed batch makes PostgreSQL start a COPY, the    *)
(* bridge switches from the buffers to the attached socket and the backend *)
(* reads the client directly until the connection ends.  The client acts   *)
(* concurrently: it may send at any time, in any order, and go away.       *)
(*                                                                         *)
(* Message i of the client is the two units 2i-1 and 2i (WireChannel).  A  *)
(* client that goes away may have written its last message in part.        *)
(***************************************************************************)
EXTENDS Naturals, Sequences, FiniteSets

CONSTANT Profiles   \* the clients, and the sizes that bound them: records with
                    \*   kinds    the kinds of messages the client uses
                    \*   prelude  messages already sent when it is accepted
                    \*   max      bound: messages it sends
                    \*   recv     messages PostgreSQL's 8 KiB buffer takes at once
                    \*   extra    max_attempts, less the entries the batch needs
                    \*   patient  COPY data is sent only after CopyInResponse

AllKinds ==
    {"Ssl", "Cancel", "Terminate", "Startup",
     "Malformed",                               \* a length out of range
     "BadCode",                                 \* an unknown control packet
     "Query", "CopyInQuery", "CopyOutQuery",    \* tag Q
     "Flush", "CopyData", "CopyDone",           \* tags H, d, c and f
     "Sync",                                    \* tag S
     "Ext", "CopyInExec", "CopyOutExec"}        \* Parse, Bind, ..., Execute

ASSUME ProxyAssumption ==
    \A p \in Profiles :
        /\ p.kinds \subseteq AllKinds
        /\ p.max \in Nat
        /\ p.prelude \in Seq(AllKinds) /\ Len(p.prelude) <= p.max
        /\ p.recv \in Nat \ {0}
        /\ p.extra \in Nat
        /\ p.patient \in BOOLEAN

VARIABLES
    \* the client and its socket
    profile,    \* the kind of client, the same all along
    sent,       \* kinds of the messages sent so far
    socket,     \* units sent and not yet read by anyone
    lost,       \* how many units at its end never arrive: the client left
    client,     \* "here", or gone: "closed" orderly or "reset"
    \* locals of handle_stream
    stage,      \* where the handler is
    pending,    \* FrontendFrameReader.buffer: a message's first unit, or empty
    todo,       \* messages of the current read not yet handled
    batch,      \* protocol_batch
    backend,    \* the connection's WireBackend; "failed": it did not start, or
                \* a call into it returned an error
    closeAfter, \* close_after_flush
    result,     \* what handle_stream returned, or will return
    \* the protocol pump and the guest bridge
    prefix,     \* ProtocolStdioFile.prefix
    hostInput,  \* pgl_wasix_input bytes the backend has not received
    entries,    \* main-loop entries up to the one that exceeds max_attempts;
                \* 0: nothing was received from the socket to enter it for
    copying,    \* PostgreSQL is in COPY FROM STDIN
    \* what the two ends have seen
    delivered,  \* units received by the backend, in order
    answered,   \* messages answered, in order
    copyReady   \* CopyInResponse messages the client has been sent

clientVars == <<profile, sent, socket, lost, client>>
handlerVars == <<stage, pending, todo, batch, backend, closeAfter, result>>
pumpVars == <<prefix, hostInput, entries, copying>>
seenVars == <<delivered, answered, copyReady>>
vars == <<clientVars, handlerVars, pumpVars, seenVars>>

-----------------------------------------------------------------------------
(* A write to it, or a read from it, fails or meets the end of the stream. *)
ClientGone == client # "here"

(* Messages and units.                                                     *)
Kind(i) == sent[i]
MessageOf(u) == (u + 1) \div 2
Last(u) == u % 2 = 0

UnitsOf(ms) ==
    [j \in 1 .. 2 * Len(ms) |->
        IF j % 2 = 1 THEN 2 * ms[(j + 1) \div 2] - 1 ELSE 2 * ms[j \div 2]]

(* FrontendFrameReader::push: the complete messages of a byte string, and  *)
(* what remains in the buffer.                                             *)
CompleteMessages(buf) == [j \in 1 .. Len(buf) \div 2 |-> MessageOf(buf[2 * j])]
Remainder(buf) == IF Len(buf) % 2 = 1 THEN <<buf[Len(buf)]>> ELSE <<>>

(* frontend_message_len_if_complete refuses the length in its header.      *)
BadLength(u) == Kind(MessageOf(u)) = "Malformed"

(* Mutant: only the last message of a read is a boundary.                  *)
ShouldFlush_OnlySync(i, lastInRead) == Kind(i) = "Sync" /\ lastInRead

(* should_flush_protocol_batch                                             *)
ShouldFlush(i, lastInRead) ==
    \/ Kind(i) \in {"Query", "CopyInQuery", "CopyOutQuery", "Flush",
                    "CopyData", "CopyDone"}
    \/ Kind(i) = "Sync" /\ lastInRead

(* Messages whose processing completes with an answer the client waits for *)
(* (ReadyForQuery), and those among ms, in order (SelectSeq, written so    *)
(* that it can be proved about).                                           *)
Answering == {"Query", "CopyOutQuery", "Sync"}
Answers(ms) ==
    LET at == {j \in DOMAIN ms : Kind(ms[j]) \in Answering}
        nth(k) == CHOOSE j \in at : Cardinality({h \in at : h <= j}) = k
    IN  [k \in 1 .. Cardinality(at) |-> ms[nth(k)]]

(* Messages that PostgreSQL tolerates while it waits for COPY data.        *)
CopyTolerates == {"CopyData", "Sync", "Flush"}

Has(ms, ks) == \E j \in DOMAIN ms : Kind(ms[j]) \in ks
FirstOf(ms, ks) ==
    CHOOSE j \in DOMAIN ms :
        Kind(ms[j]) \in ks /\ \A h \in 1 .. (j - 1) : Kind(ms[h]) \notin ks

(* backend is Some(..): its startup was accepted.                          *)
Started == backend = "open"

Init ==
    /\ profile \in Profiles
    /\ sent = profile.prelude /\ socket = [u \in 1 .. 2 * Len(sent) |-> u]
    /\ client = "here" /\ lost = 0
    /\ stage = "read" /\ pending = <<>> /\ todo = <<>> /\ batch = <<>>
    /\ backend = "none" /\ closeAfter = FALSE /\ result = "running"
    /\ prefix = <<>> /\ hostInput = <<>> /\ entries = 0 /\ copying = FALSE
    /\ delivered = <<>> /\ answered = <<>> /\ copyReady = 0

-----------------------------------------------------------------------------
(* The client.                                                             *)

CopyStarts(s) ==
    Cardinality({i \in DOMAIN s : s[i] \in {"CopyInQuery", "CopyInExec"}})

(* A patient client that has started a COPY sends nothing until it has     *)
(* seen CopyInResponse, but for the Sync or Flush that pushes an Execute.  *)
ClientWaits(k) ==
    /\ profile.patient
    /\ CopyStarts(sent) > copyReady
    /\ ~(k \in {"Sync", "Flush"} /\ sent[Len(sent)] = "CopyInExec")

(* What is sent to a finished connection is never read, and left out.      *)
ClientSend ==
    /\ client = "here" /\ stage # "done" /\ Len(sent) < profile.max
    /\ \E k \in profile.kinds :
        /\ ~ClientWaits(k)
        /\ sent' = Append(sent, k)
    /\ socket' = socket \o UnitsOf(<<Len(sent) + 1>>)
    /\ UNCHANGED <<profile, lost, client, handlerVars, pumpVars, seenVars>>

(* The end of the stream may fall inside the message that the client was   *)
(* writing.  A reset that takes more with it leaves what a client leaves   *)
(* that has sent less.                                                     *)
ClientClose ==
    /\ client = "here"
    /\ client' \in {"closed", "reset"}
    /\ lost' \in 0 .. (IF socket = <<>> THEN 0 ELSE 1)
    /\ UNCHANGED <<profile, sent, socket, handlerVars, pumpVars, seenVars>>

-----------------------------------------------------------------------------
(* How handle_stream ends.  `?' and bail! return at once: the backend, if  *)
(* there is one, is dropped without rollback and without shutdown.         *)
Abort(b) ==
    /\ stage' = "done" /\ result' = "err" /\ backend' = b
    /\ todo' = <<>> /\ batch' = <<>> /\ pending' = <<>>
    /\ UNCHANGED closeAfter

ReturnErr == Abort(IF backend = "open" THEN "dropped" ELSE backend)

(* The connection_cleanup block: rollback_connection_state, close.         *)
Cleanup ==
    /\ stage = "cleanup"
    /\ stage' = "done" /\ result' = "ok"
    /\ backend' = IF backend = "open" THEN "closed" ELSE backend
    /\ UNCHANGED <<clientVars, pending, todo, batch, closeAfter, pumpVars, seenVars>>

(* The bottom of the read loop.  Flushing a TCP or Unix socket does        *)
(* nothing and cannot fail, so only close_after_flush matters.             *)
EndOfRead ==
    /\ stage = "handle" /\ todo = <<>>
    /\ stage' = IF closeAfter THEN "cleanup" ELSE "read"
    /\ UNCHANGED <<clientVars, pending, todo, batch, backend, closeAfter, result,
                   pumpVars, seenVars>>

-----------------------------------------------------------------------------
(* flush_protocol_batch, and under it send_protocol_pump in hybrid mode.   *)

(* send_with_protocol_pump(..)? returns an error: a call into the backend  *)
(* or a write to the guest's memory failed, after part of the batch.       *)
FlushFails(b) ==
    /\ \E c \in 0 .. Len(b) : delivered' = delivered \o UnitsOf(SubSeq(b, 1, c))
    /\ Abort("failed")
    /\ UNCHANGED <<answered, copyReady, pumpVars>>

CopyInKinds == {"CopyInQuery", "CopyInExec"}
CopyKinds == CopyInKinds \cup {"CopyOutQuery", "CopyOutExec"}

(* No COPY: the batch is consumed and the response is the caller's to      *)
(* write.                                                                  *)
FlushBuffered(b) ==
    /\ ~Has(b, CopyKinds)
    /\ delivered' = delivered \o UnitsOf(b)
    /\ UNCHANGED <<pumpVars, copyReady>>

(* A COPY: the response goes to the socket and the bridge turns from the   *)
(* host input to the socket.  PostgreSQL has what its receive buffer took  *)
(* with the COPY; the rest of the batch is out of its reach.  It answers   *)
(* what it has, or stops in COPY FROM STDIN to wait for data.              *)
FlushHandoff(b) ==
    /\ Has(b, CopyKinds)
    /\ LET k == FirstOf(b, CopyKinds)
           full == ((k + profile.recv - 1) \div profile.recv) * profile.recv
           got == SubSeq(b, 1, IF full < Len(b) THEN full ELSE Len(b))
           start == FirstOf(got, CopyInKinds)
           waits == /\ Has(got, CopyInKinds)
                    /\ \A j \in (start + 1) .. Len(got) : Kind(got[j]) \in CopyTolerates
       IN  /\ delivered' = delivered \o UnitsOf(got)
           /\ hostInput' = SubSeq(b, Len(got) + 1, Len(b))
           /\ copying' = waits
           /\ answered' = answered \o Answers(IF waits THEN SubSeq(got, 1, start) ELSE got)
           /\ copyReady' = IF Has(got, CopyInKinds) THEN copyReady + 1 ELSE copyReady
           /\ entries' = IF waits THEN profile.extra + 1 ELSE 0
    /\ UNCHANGED prefix

-----------------------------------------------------------------------------
(* The read loop.                                                          *)

(* stream.read and reader.push: any non-empty part of what has arrived.  A *)
(* length out of range makes push fail as soon as the header is complete,  *)
(* and with it go the messages before it in the same read.                 *)
Read ==
    /\ stage = "read" /\ Len(socket) > lost
    /\ \E n \in 1 .. (Len(socket) - lost) :
        LET buf == pending \o SubSeq(socket, 1, n)
            messages == CompleteMessages(buf)
        IN  /\ socket' = SubSeq(socket, n + 1, Len(socket))
            /\ \/ /\ BadLength(buf[Len(buf)]) \/ Has(messages, {"Malformed"})
                  /\ ReturnErr
               \/ /\ ~Has(messages, {"Malformed"})
                  /\ todo' = messages
                  /\ pending' = Remainder(buf)
                  /\ closeAfter' = FALSE
                  /\ stage' = "handle"
                  /\ UNCHANGED <<batch, backend, result>>
    /\ UNCHANGED <<profile, sent, lost, client, pumpVars, seenVars>>

(* A reset connection: read fails, whatever had arrived.                   *)
ReadFails ==
    /\ stage = "read" /\ client = "reset"
    /\ ReturnErr
    /\ UNCHANGED <<clientVars, pumpVars, seenVars>>

(* write_backend_response: a client that is gone makes it fail, unless the *)
(* socket still takes the bytes.                                           *)
WriteResponse(b, after) ==
    \/ answered' = answered \o Answers(b) /\ after
    \/ ClientGone /\ answered' = answered /\ ReturnErr

(* Mutant: the missing backend is reported although there is no batch.     *)
FlushIfStarted_EmptyFails(after) ==
    \/ ~Started /\ ReturnErr /\ UNCHANGED <<pumpVars, seenVars>>
    \/ Started /\ batch = <<>> /\ after /\ UNCHANGED <<pumpVars, seenVars>>
    \/ Started /\ batch # <<>> /\ FlushBuffered(batch) /\ WriteResponse(batch, after)

(* flush_protocol_batch_if_started, used before control packets and at end *)
(* of file: an empty batch is fine and a batch without a backend an error; *)
(* after a flush the caller goes on, unless the batch starts a COPY: then  *)
(* the stream is served without a continuation and the result is an error. *)
FlushIfStarted(after) ==
    \/ /\ batch = <<>>
       /\ after
       /\ UNCHANGED <<pumpVars, seenVars>>
    \/ /\ batch # <<>> /\ ~Started
       /\ ReturnErr
       /\ UNCHANGED <<pumpVars, seenVars>>
    \/ /\ batch # <<>> /\ Started
       /\ FlushBuffered(batch)
       /\ WriteResponse(batch, after)
    \/ /\ batch # <<>> /\ Started
       /\ FlushHandoff(batch)
       /\ stage' = "drain" /\ result' = "err"
       /\ todo' = <<>> /\ pending' = <<>> /\ batch' = <<>>
       /\ UNCHANGED <<backend, closeAfter>>
    \/ /\ batch # <<>> /\ Started
       /\ FlushFails(batch)

(* read == 0                                                               *)
ReadEof ==
    /\ stage = "read" /\ client = "closed" /\ Len(socket) = lost
    /\ FlushIfStarted(/\ stage' = "cleanup"
                      /\ batch' = <<>>
                      /\ UNCHANGED <<pending, todo, backend, closeAfter, result>>)
    /\ UNCHANGED clientVars

Handling(ks) == stage = "handle" /\ todo # <<>> /\ Kind(Head(todo)) \in ks

(* Mutant: protocol_batch.clear() is missing.                              *)
Handled_NotCleared(close) ==
    /\ todo' = Tail(todo)
    /\ closeAfter' = (closeAfter \/ close)
    /\ UNCHANGED <<stage, pending, batch, backend, result>>

(* On to the next message, with the batch flushed.                         *)
Handled(close) ==
    /\ todo' = Tail(todo)
    /\ batch' = <<>>
    /\ closeAfter' = (closeAfter \/ close)
    /\ UNCHANGED <<stage, pending, backend, result>>

(* SSLRequest and GSSENCRequest: refuse with "N"; a gone client closes.    *)
HandleSsl ==
    /\ Handling({"Ssl"})
    /\ \/ FlushIfStarted(Handled(FALSE))
       \/ ClientGone /\ FlushIfStarted(Handled(TRUE))
    /\ UNCHANGED clientVars

(* CancelRequest and Terminate: flush, close after this read.  The later   *)
(* messages of the same read are still handled.                            *)
HandleClosing ==
    /\ Handling({"Cancel", "Terminate"})
    /\ FlushIfStarted(Handled(TRUE))
    /\ UNCHANGED clientVars

(* `break' out of the message loop: the rest of the read is not handled.   *)
BreakAndClose ==
    /\ todo' = <<>>
    /\ batch' = <<>>
    /\ closeAfter' = TRUE
    /\ UNCHANGED <<stage, pending, result>>

(* WireBackend::open fails: answered, then closed.                         *)
OpenFails == BreakAndClose /\ backend' = backend

(* The backend does not start, or enable_extensions, set_role or cloning   *)
(* the socket fails: `?'.                                                  *)
StartupFails == Abort("failed")

(* SET ROLE is rejected, or the client is not there to read the response.  *)
StartupRefused == BreakAndClose /\ backend' = "closed"

(* ProcessStartupPacket rejects the packet, which does not leave the       *)
(* message loop, or accepts it.                                            *)
StartupProcessed ==
    /\ todo' = Tail(todo)
    /\ \/ backend' = "closed" /\ closeAfter' = TRUE
       \/ backend' = "open" /\ UNCHANGED closeAfter
    /\ UNCHANGED <<stage, pending, batch, result>>

(* A startup packet; its outcome is the backend's.                         *)
HandleStartup ==
    /\ Handling({"Startup"})
    /\ IF Started \/ batch # <<>>
       THEN ReturnErr
       ELSE OpenFails \/ StartupFails \/ StartupRefused \/ StartupProcessed
    /\ UNCHANGED <<clientVars, pumpVars, seenVars>>

(* classify_frontend_message fails.                                        *)
HandleBadCode ==
    /\ Handling({"BadCode"})
    /\ ReturnErr
    /\ UNCHANGED <<clientVars, pumpVars, seenVars>>

BackendKinds ==
    AllKinds \ {"Ssl", "Cancel", "Terminate", "Startup", "Malformed", "BadCode"}

(* A backend message joins the batch; at a boundary the batch is flushed.  *)
HandleProtocol ==
    /\ Handling(BackendKinds)
    /\ LET rest == Tail(todo)
           b == Append(batch, Head(todo))
           boundary == ShouldFlush(Head(todo), rest = <<>>)
       IN  \/ /\ ~boundary
              /\ todo' = rest /\ batch' = b
              /\ UNCHANGED <<stage, pending, backend, closeAfter, result, pumpVars, seenVars>>
           \/ /\ boundary /\ ~Started
              /\ ReturnErr
              /\ UNCHANGED <<pumpVars, seenVars>>
           \/ /\ boundary /\ Started
              /\ FlushBuffered(b)
              /\ WriteResponse(b, Handled(FALSE))
           \/ /\ boundary /\ Started
              /\ FlushHandoff(b)
              /\ todo' = rest /\ batch' = <<>> /\ stage' = "drain"
              /\ UNCHANGED <<pending, backend, closeAfter, result>>
           \/ /\ boundary /\ Started
              /\ FlushFails(b)
    /\ UNCHANGED clientVars

-----------------------------------------------------------------------------
(* The backend on the socket.  While stage is "drain" the pump is still    *)
(* inside send_protocol_inner; in "stream" serve_protocol_stream_inner has *)
(* taken over, with the continuation as the prefix.                        *)

(* The transport is the socket (pgl_set_protocol_transport).               *)
Streaming == {"drain", "stream"}

(* One message received over the stream has its effect.                    *)
StreamMessage(i) ==
    IF copying
    THEN /\ copying' = (Kind(i) \in CopyTolerates)
         /\ answered' = IF Kind(i) \in CopyTolerates THEN answered ELSE Append(answered, i)
         /\ UNCHANGED copyReady
    ELSE /\ copying' = (Kind(i) \in CopyInKinds)
         /\ copyReady' = IF Kind(i) \in CopyInKinds THEN copyReady + 1 ELSE copyReady
         /\ answered' = IF Kind(i) \in Answering THEN Append(answered, i) ELSE answered

(* Packets that end a streaming backend: Terminate, and bytes PostgreSQL   *)
(* cannot take for a message.                                              *)
EndsBackend == {"Terminate", "Startup", "Ssl", "Cancel", "Malformed", "BadCode"}

(* ProtocolStdioFile::poll_read_ready                                      *)
ReadReady == prefix # <<>> \/ Len(socket) > lost

(* The end of the stream, as the backend sees it.                          *)
StreamOver == ClientGone /\ ~ReadReady

(* Mutant: the half message stays in the backend's buffer at its end.      *)
InputRemaining_HalfStays ==
    \/ hostInput # <<>>
    \/ ~Last(delivered[Len(delivered)])

(* protocol_input_remaining: in the host's buffer, or half a message in    *)
(* the backend's, which takes it out before it meets the end of the stream *)
(* in its place.                                                           *)
InputRemaining ==
    \/ hostInput # <<>>
    \/ ~Last(delivered[Len(delivered)]) /\ ~StreamOver

(* The dispatch loop enters the backend for a message behind the COPY.     *)
Dispatching == stage = "drain" /\ ~copying

(* ProtocolStdioFile::poll_read: the prefix first, then the socket.        *)
StreamRead ==
    /\ stage \in Streaming /\ ReadReady
    /\ Dispatching => entries > 1
    /\ LET u == Head(prefix \o socket)
       IN  /\ delivered' = Append(delivered, u)
           /\ \/ /\ ~Last(u)
                 /\ UNCHANGED <<stage, copying, answered, copyReady>>
              \/ /\ Last(u) /\ Kind(MessageOf(u)) \notin EndsBackend
                 /\ StreamMessage(MessageOf(u))
                 /\ UNCHANGED stage
              \/ /\ Last(u) /\ Kind(MessageOf(u)) \in EndsBackend
                 /\ stage' = "closing"
                 /\ UNCHANGED <<copying, answered, copyReady>>
           /\ entries' = IF Dispatching /\ Last(u) THEN entries - 1 ELSE entries
    /\ IF prefix # <<>>
       THEN prefix' = Tail(prefix) /\ UNCHANGED socket
       ELSE socket' = Tail(socket) /\ UNCHANGED prefix
    /\ UNCHANGED <<profile, sent, lost, client, pending, todo, batch, backend,
                   closeAfter, result, hostInput>>

(* The client is gone and what arrived has been read, be it in the middle  *)
(* of a message: PostgreSQL aborts a COPY, and an idle streaming backend   *)
(* exits.                                                                  *)
StreamEof ==
    /\ stage \in Streaming /\ StreamOver
    /\ \/ /\ copying
          /\ copying' = FALSE /\ UNCHANGED stage
       \/ /\ ~copying /\ stage = "stream"
          /\ stage' = "closing" /\ UNCHANGED copying
    /\ UNCHANGED <<clientVars, pending, todo, batch, backend, closeAfter, result,
                   prefix, hostInput, entries, seenVars>>

(* Mutant: the frame reader's remainder comes first.                       *)
ContinuationPrefix_PendingFirst == pending \o UnitsOf(todo)

(* What the handler has read beyond the flushed batch.                     *)
ContinuationPrefix == UnitsOf(todo) \o pending

(* send_protocol_inner returns once the backend is out of COPY and has no  *)
(* input left; only now does send_protocol_pump set the prefix.            *)
DrainReturns ==
    /\ Dispatching /\ ~InputRemaining
    /\ prefix' = ContinuationPrefix
    /\ todo' = <<>> /\ pending' = <<>> /\ stage' = "stream"
    /\ UNCHANGED <<clientVars, batch, backend, closeAfter, result, hostInput,
                   entries, copying, seenVars>>

(* The dispatch loop gives up after max_attempts entries: host input is    *)
(* left that the backend cannot reach, or the client put more messages     *)
(* behind the COPY than the loop has entries.                              *)
DrainGivesUp ==
    /\ Dispatching
    /\ hostInput # <<>> \/ (entries = 1 /\ Len(socket) > lost)
    /\ ReturnErr
    /\ UNCHANGED <<clientVars, pumpVars, seenVars>>

(* A call into the backend that reads the socket fails, in the dispatch    *)
(* loop or in serve_protocol_stream_inner: the same `?' as in FlushFails.  *)
StreamFails ==
    /\ stage \in Streaming \cup {"closing"}
    /\ Abort("failed")
    /\ UNCHANGED <<clientVars, pumpVars, seenVars>>

(* serve_protocol_stream_inner returned.  After a handoff from the message *)
(* loop the backend is closed; after one from a control packet it is just  *)
(* dropped with the error.                                                 *)
StreamEnds ==
    /\ stage = "closing"
    /\ stage' = "done"
    /\ result' = IF result = "err" THEN "err" ELSE "ok"
    /\ backend' = IF result = "err" THEN "dropped" ELSE "closed"
    /\ UNCHANGED <<clientVars, pending, todo, batch, closeAfter, pumpVars, seenVars>>

-----------------------------------------------------------------------------
Handler ==
    \/ Read \/ ReadFails \/ ReadEof \/ EndOfRead \/ Cleanup
    \/ HandleSsl \/ HandleClosing \/ HandleStartup \/ HandleBadCode \/ HandleProtocol
    \/ StreamRead \/ StreamEof \/ DrainReturns \/ DrainGivesUp \/ StreamEnds

(* A finished connection stays finished.                                   *)
Finished == stage = "done" /\ ClientGone /\ UNCHANGED vars

Next == ClientSend \/ ClientClose \/ Handler \/ StreamFails \/ Finished

(* The handler's thread is scheduled and never waits for anything but the  *)
(* socket; the client may stop or stay for ever, and no call has to fail.  *)
Spec == Init /\ [][Next]_vars /\ WF_vars(Handler)

-----------------------------------------------------------------------------
(* Properties.                                                             *)

Messages == 1 .. profile.max
Units == 1 .. (2 * profile.max)

(* The state of the connection, its buffers and the bridge is well formed. *)
TypeOK ==
    /\ profile \in Profiles
    /\ sent \in Seq(AllKinds) /\ Len(sent) <= profile.max
    /\ socket \in Seq(Units) /\ lost \in Nat /\ lost <= Len(socket)
    /\ client \in {"here", "closed", "reset"}
    /\ stage \in {"read", "handle", "cleanup", "drain", "stream", "closing", "done"}
    /\ pending \in Seq(Units) /\ Len(pending) <= 1
    /\ todo \in Seq(Messages) /\ batch \in Seq(Messages)
    /\ backend \in {"none", "open", "closed", "dropped", "failed"}
    /\ closeAfter \in BOOLEAN /\ result \in {"running", "ok", "err"}
    /\ prefix \in Seq(Units) /\ hostInput \in Seq(Messages)
    /\ entries \in 0 .. (profile.extra + 1) /\ copying \in BOOLEAN
    /\ delivered \in Seq(Units) /\ answered \in Seq(Messages)
    /\ copyReady \in 0 .. profile.max

(* What a client that does not send COPY data ahead of the CopyInResponse  *)
(* is promised (WireChannel).  To one that does the code keeps no promise  *)
(* about order (InOrder): it is a client that has sent nothing.            *)
Promised(x) == IF profile.patient THEN x ELSE <<>>

Channel == INSTANCE WireChannel WITH
    Kinds <- AllKinds, sent <- Promised(sent), delivered <- Promised(delivered),
    answered <- Promised(answered), ended <- (stage = "done")

(* The backend receives the client's bytes in order, without loss and      *)
(* without repetition, through batches, the frame reader's remainder, the  *)
(* continuation prefix and the socket alike.                               *)
InOrder == Channel!Faithful(delivered, sent)

(* The connection implements the channel: the backend receives the bytes   *)
(* in order, without loss or repetition; what was delivered and answered   *)
(* only grows, answers follow their requests in order, and nothing is      *)
(* delivered or answered once handle_stream has returned.                  *)
ImplementsChannel == Channel!Spec

InFlight ==
    UnitsOf(hostInput) \o prefix \o UnitsOf(batch) \o UnitsOf(todo) \o pending \o socket

(* Every unit sent is in exactly one place: delivered, held by the handler *)
(* or the bridge, or still in the socket or on its way there.  Until the   *)
(* connection ends no buffer drops a backend message or keeps a second     *)
(* copy of it.                                                             *)
NothingLost ==
    stage # "done" /\ ~closeAfter /\ result = "running" =>
        \A u \in 1 .. 2 * Len(sent) :
            sent[MessageOf(u)] \notin Channel!ControlKinds =>
                Cardinality({j \in DOMAIN delivered : delivered[j] = u})
                + Cardinality({j \in DOMAIN InFlight : InFlight[j] = u}) = 1

(* handle_stream returns an error, which ends the server thread, only for  *)
(* one of these causes: the client has left; the backend did not start, or *)
(* a call into it failed; the client talked to a backend it does not have  *)
(* (before its startup, or after that was rejected); a malformed message;  *)
(* a second startup packet; more messages behind a COPY than the dispatch  *)
(* loop takes; a batch with a COPY longer than the receive buffer; or a    *)
(* control packet behind a COPY.                                           *)
ErrHasCause ==
    result = "err" =>
        \/ ClientGone
        \/ backend = "failed"
        \/ backend \in {"none", "closed"} /\ \E i \in DOMAIN sent : sent[i] \in BackendKinds
        \/ Has([i \in DOMAIN sent |-> i], {"Malformed", "BadCode"})
        \/ Cardinality({i \in DOMAIN sent : sent[i] = "Startup"}) > 1
        \/ entries = 1
        \/ hostInput # <<>>
        \/ \E i, j \in DOMAIN sent :
            i < j /\ sent[i] \in CopyKinds /\ sent[j] \in {"Ssl", "Cancel", "Terminate"}

(* When the client has gone, the handler returns: no buffered batch, COPY  *)
(* or half message keeps the only serving thread for ever.                 *)
HandlerReturns == ClientGone ~> stage = "done"

Answered(i) == \E j \in DOMAIN answered : answered[j] = i

(* A simple query is answered, or the connection ends: again and again no  *)
(* query of a client that waits for CopyInResponse is open, so none is     *)
(* left waiting in a batch or behind a COPY.                               *)
QueryAnswered ==
    []<>(\/ stage = "done" \/ ~profile.patient
         \/ \A i \in DOMAIN sent : sent[i] = "Query" => Answered(i))
=============================================================================
