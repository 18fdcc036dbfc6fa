----------------------------- MODULE ProxyProofs -----------------------------
(***************************************************************************)
(* What is proved of one connection of the wire proxy, for any clients.    *)
(*                                                                         *)
(* The handler keeps no counters; where it is in the client's stream is    *)
(* told by its buffers together.  The invariant makes that position        *)
(* explicit: all units up to Taken have left the socket, and while the     *)
(* handler reads, the frame reader has cut r messages off them and the     *)
(* last Len(todo) of these are still to be handled (Reader).               *)
(*                                                                         *)
(* Four theorems rest on it.  ErrorsHaveCauses: handle_stream fails only   *)
(* for a cause.  NoUnitLost: each unit sent is in exactly one buffer or at *)
(* the backend.  ConnectionImplementsChannel: for a client that waits for  *)
(* CopyInResponse, a connection is a WireChannel.  ConnectionTypeCorrect:  *)
(* the variables keep their types.                                         *)
(***************************************************************************)
EXTENDS Proxy, Integers, FiniteSetTheorems, SequenceTheorems, TLAPS

SentMessages == 1 .. Len(sent)
SentUnits == 1 .. (2 * Len(sent))
Taken == 2 * Len(sent) - Len(socket)

Reading == {"read", "handle"}
Served == {"drain", "stream", "closing"}

(* Every variable has its type; units and messages are ones that were sent.*)
ClientFields ==
    /\ profile \in Profiles
    /\ sent \in Seq(AllKinds) /\ Len(sent) <= profile.max
    /\ client \in {"here", "closed", "reset"}
    /\ socket \in Seq(SentUnits)
    /\ lost \in Nat /\ lost <= Len(socket) /\ (client = "here" => lost = 0)

HandlerFields ==
    /\ stage \in Reading \cup Served \cup {"cleanup", "done"}
    /\ pending \in Seq(SentUnits) /\ Len(pending) <= 1
    /\ todo \in Seq(SentMessages) /\ batch \in Seq(SentMessages)
    /\ backend \in {"none", "open", "closed", "dropped", "failed"}
    /\ closeAfter \in BOOLEAN /\ result \in {"running", "ok", "err"}

PumpFields ==
    /\ prefix \in Seq(SentUnits) /\ hostInput \in Seq(SentMessages)
    /\ entries \in 0 .. (profile.extra + 1) /\ copying \in BOOLEAN

SeenFields ==
    /\ delivered \in Seq(SentUnits) /\ answered \in Seq(SentMessages)
    /\ copyReady \in Nat

(* What a stage says about the buffers and the backend.                    *)
StageInv ==
    /\ stage \in Reading \cup {"drain"} => prefix = <<>>
    /\ stage \in Reading =>
        /\ hostInput = <<>> /\ copying = FALSE /\ entries = 0 /\ copyReady = 0
        /\ backend \in {"none", "open", "closed"}
        /\ result = "running"
    /\ stage = "read" => todo = <<>> /\ closeAfter = FALSE
    /\ stage \in Served => backend = "open" /\ batch = <<>> /\ result \in {"running", "err"}
    /\ stage = "cleanup" => result = "running"
    /\ stage = "drain" => delivered # <<>> /\ (entries = 0 => copying = FALSE)
    /\ stage = "stream" => todo = <<>> /\ pending = <<>> /\ hostInput = <<>>

(* The socket holds the last units, in order.                              *)
SocketInv ==
    /\ Len(socket) <= 2 * Len(sent)
    /\ \A j \in 1 .. Len(socket) : socket[j] = Taken + j

(* r messages were cut off what was read; the batch has backend messages   *)
(* among those that were handled, and a startup packet is one of these if  *)
(* there is a backend.                                                     *)
Reader(r) ==
    /\ 2 * r + Len(pending) = Taken
    /\ pending # <<>> => pending[1] = 2 * r + 1
    /\ Len(todo) <= r
    /\ \A j \in 1 .. Len(todo) : todo[j] = r - Len(todo) + j
    /\ \A j \in 1 .. Len(batch) :
        batch[j] <= r - Len(todo) /\ Kind(batch[j]) \in BackendKinds
    /\ backend = "open" => \E i \in 1 .. (r - Len(todo)) : sent[i] = "Startup"

ReaderInv == stage \in Reading => \E r \in Nat : Reader(r)

Inv ==
    /\ ClientFields /\ HandlerFields /\ PumpFields /\ SeenFields
    /\ StageInv /\ SocketInv /\ ReaderInv

-----------------------------------------------------------------------------
(* Halves and doubles.                                                     *)

(* A number is even or odd, and the two units of a message give it back.   *)
LEMMA Halves ==
    \A n \in Nat :
        /\ n \div 2 \in Nat
        /\ n % 2 = 0 => n = 2 * (n \div 2)
        /\ n % 2 # 0 => n % 2 = 1 /\ n = 2 * (n \div 2) + 1
  OBVIOUS

(* Halves and remainders of 2n and 2n + 1.                                 *)
LEMMA Doubles ==
    \A n \in Nat :
        /\ (2 * n) \div 2 = n /\ (2 * n + 1) \div 2 = n
        /\ (2 * n) % 2 = 0 /\ (2 * n + 1) % 2 = 1
  OBVIOUS

(* The message of a unit that was sent was sent.                           *)
LEMMA MessageSent ==
    ASSUME NEW n \in Nat, NEW u \in 1 .. (2 * n)
    PROVE  MessageOf(u) \in 1 .. n
  <1>1. PICK q \in Nat : q = (u + 1) \div 2 /\ (u + 1 = 2 * q \/ u + 1 = 2 * q + 1)
    BY Halves
  <1> QED BY <1>1 DEF MessageOf

(* Units 2m - 1 and 2m are those of message m.                             *)
LEMMA MessageOfUnits ==
    ASSUME NEW m \in Nat, m > 0
    PROVE  MessageOf(2 * m) = m /\ MessageOf(2 * m - 1) = m
  <1>1. (2 * m + 1) \div 2 = m /\ (2 * m - 1 + 1) \div 2 = m
    BY Doubles
  <1> QED BY <1>1 DEF MessageOf

(* The units of a sequence of messages: two for each, in order.            *)
LEMMA UnitsOfSeq ==
    ASSUME NEW n \in Nat, NEW ms \in Seq(1 .. n)
    PROVE  /\ UnitsOf(ms) \in Seq(1 .. (2 * n))
           /\ Len(UnitsOf(ms)) = 2 * Len(ms)
           /\ \A k \in 1 .. Len(ms) :
                UnitsOf(ms)[2 * k - 1] = 2 * ms[k] - 1 /\ UnitsOf(ms)[2 * k] = 2 * ms[k]
  <1> DEFINE unit(j) == IF j % 2 = 1 THEN 2 * ms[(j + 1) \div 2] - 1 ELSE 2 * ms[j \div 2]
  <1>1. ASSUME NEW j \in 1 .. (2 * Len(ms))
        PROVE  unit(j) \in 1 .. (2 * n)
    <2>1. CASE j % 2 = 1
      <3>1. PICK k \in Nat : k = (j + 1) \div 2 /\ j = 2 * k - 1
        BY <2>1, Halves
      <3>2. k \in 1 .. Len(ms)
        BY <3>1
      <3>3. ms[k] \in 1 .. n
        BY <3>2
      <3> QED BY <2>1, <3>1, <3>3
    <2>2. CASE j % 2 # 1
      <3>1. PICK k \in Nat : k = j \div 2 /\ j = 2 * k
        BY <2>2, Halves
      <3>2. k \in 1 .. Len(ms)
        BY <3>1
      <3>3. ms[k] \in 1 .. n
        BY <3>2
      <3> QED BY <2>2, <3>1, <3>3
    <2> QED BY <2>1, <2>2
  <1>2. UnitsOf(ms) = [j \in 1 .. (2 * Len(ms)) |-> unit(j)]
    BY DEF UnitsOf
  <1>3. UnitsOf(ms) \in [1 .. (2 * Len(ms)) -> 1 .. (2 * n)]
    BY <1>1, <1>2
  <1>4. UnitsOf(ms) \in Seq(1 .. (2 * n)) /\ Len(UnitsOf(ms)) = 2 * Len(ms)
    BY <1>3
  <1>5. ASSUME NEW k \in 1 .. Len(ms)
        PROVE  UnitsOf(ms)[2 * k - 1] = 2 * ms[k] - 1 /\ UnitsOf(ms)[2 * k] = 2 * ms[k]
    <2>1. (2 * k - 1) % 2 = 1 /\ (2 * k - 1 + 1) \div 2 = k
      <3>1. PICK q \in Nat : k = q + 1
        OBVIOUS
      <3>2. 2 * k - 1 = 2 * q + 1 /\ 2 * k - 1 + 1 = 2 * k
        BY <3>1
      <3> QED BY <3>2, Doubles
    <2>2. (2 * k) % 2 = 0 /\ (2 * k) \div 2 = k
      BY Doubles
    <2> QED BY <1>2, <2>1, <2>2
  <1> QED BY <1>4, <1>5

(* FrontendFrameReader::push of a buffer that starts at a message.         *)
LEMMA CutMessages ==
    ASSUME NEW n \in Nat, NEW buf \in Seq(1 .. (2 * n)),
           NEW a \in Nat, \A k \in 1 .. Len(buf) : buf[k] = 2 * a + k
    PROVE  /\ CompleteMessages(buf) \in Seq(1 .. n)
           /\ \A j \in 1 .. Len(CompleteMessages(buf)) : CompleteMessages(buf)[j] = a + j
           /\ Remainder(buf) \in Seq(1 .. (2 * n)) /\ Len(Remainder(buf)) <= 1
           /\ Remainder(buf) # <<>> => Remainder(buf)[1] = 2 * a + Len(buf)
           /\ 2 * Len(CompleteMessages(buf)) + Len(Remainder(buf)) = Len(buf)
  <1>1. PICK h \in Nat : h = Len(buf) \div 2
    BY Halves
  <1>2. \/ Len(buf) = 2 * h /\ Len(buf) % 2 # 1
        \/ Len(buf) = 2 * h + 1 /\ Len(buf) % 2 = 1
    BY <1>1, Halves
  <1>3. ASSUME NEW j \in 1 .. h PROVE MessageOf(buf[2 * j]) = a + j /\ a + j \in 1 .. n
    <2>1. 2 * j \in 1 .. Len(buf)
      BY <1>2
    <2>2. buf[2 * j] = 2 * (a + j) /\ buf[2 * j] \in 1 .. (2 * n)
      BY <2>1
    <2> QED BY <2>2, MessageOfUnits
  <1>4. CompleteMessages(buf) = [j \in 1 .. h |-> MessageOf(buf[2 * j])]
    BY <1>1 DEF CompleteMessages
  <1>5. CompleteMessages(buf) = [j \in 1 .. h |-> a + j]
    BY <1>3, <1>4
  <1>6. CompleteMessages(buf) \in Seq(1 .. n) /\ Len(CompleteMessages(buf)) = h
    BY <1>3, <1>5
  <1>7. Len(buf) > 0 => buf[Len(buf)] = 2 * a + Len(buf) /\ buf[Len(buf)] \in 1 .. (2 * n)
    OBVIOUS
  <1>8. CASE Len(buf) = 2 * h /\ Len(buf) % 2 # 1
    BY <1>5, <1>6, <1>8 DEF Remainder
  <1>9. CASE Len(buf) = 2 * h + 1 /\ Len(buf) % 2 = 1
    <2>1. Remainder(buf) = <<buf[Len(buf)]>>
      BY <1>9 DEF Remainder
    <2>2. Remainder(buf) \in Seq(1 .. (2 * n)) /\ Len(Remainder(buf)) = 1
      BY <1>7, <1>9, <2>1
    <2> QED BY <1>5, <1>6, <1>7, <1>9, <2>1, <2>2
  <1> QED BY <1>2, <1>8, <1>9

(* The k-th of finitely many numbers is the one with k numbers up to it.   *)
LEMMA Ranks ==
    ASSUME NEW at, IsFiniteSet(at), at \subseteq Nat,
           NEW k \in 1 .. Cardinality(at)
    PROVE  \E j \in at : Cardinality({h \in at : h <= j}) = k
  <1> DEFINE upTo(j) == {h \in at : h <= j}
             rank == [j \in at |-> Cardinality(upTo(j))]
             ranks == {rank[j] : j \in at}
  <1>1. Cardinality(at) \in Nat
    BY FS_CardinalityType
  <1>2. ASSUME NEW j \in at
        PROVE  IsFiniteSet(upTo(j)) /\ Cardinality(upTo(j)) \in 1 .. Cardinality(at)
    <2>1. IsFiniteSet(upTo(j)) /\ Cardinality(upTo(j)) <= Cardinality(at)
      BY FS_Subset
    <2>2. upTo(j) # {}
      OBVIOUS
    <2> QED BY <1>1, <2>1, <2>2, FS_CardinalityType, FS_EmptySet
  <1>3. ASSUME NEW i \in at, NEW j \in at, i < j
        PROVE  Cardinality(upTo(i)) < Cardinality(upTo(j))
    <2>a. i \in Nat /\ j \in Nat /\ at \subseteq Nat
      OBVIOUS
    <2>b. \A h \in at : h <= i => h <= j
      BY <1>3, <2>a
    <2>c. j <= j /\ ~(j <= i)
      BY <1>3, <2>a
    <2>1. upTo(i) \subseteq upTo(j) /\ j \in upTo(j) /\ j \notin upTo(i)
      BY <2>b, <2>c
    <2>2. upTo(i) # upTo(j)
      BY <2>1
    <2>3. /\ Cardinality(upTo(i)) <= Cardinality(upTo(j))
          /\ Cardinality(upTo(i)) = Cardinality(upTo(j)) => upTo(i) = upTo(j)
      BY <1>2, <2>1, FS_Subset
    <2> QED BY <1>2, <2>2, <2>3
  <1>4. rank \in Bijection(at, ranks)
    <2>1. rank \in [at -> ranks]
      OBVIOUS
    <2>2. \A i, j \in at : i # j => rank[i] # rank[j]
      <3>1. ASSUME NEW i \in at, NEW j \in at, i # j PROVE rank[i] # rank[j]
        <4>1. i < j \/ j < i
          BY <3>1
        <4> QED BY <1>2, <1>3, <4>1
      <3> QED BY <3>1
    <2> QED BY <2>1, <2>2 DEF Bijection, Injection, Surjection, IsInjective
  <1>5. IsFiniteSet(ranks) /\ Cardinality(ranks) = Cardinality(at)
    BY <1>4, FS_Bijection DEF ExistsBijection
  <1>6. ranks \subseteq 1 .. Cardinality(at)
    BY <1>2
  <1>7. IsFiniteSet(1 .. Cardinality(at)) /\ Cardinality(1 .. Cardinality(at)) = Cardinality(at)
    BY <1>1, FS_Interval
  <1>8. ranks = 1 .. Cardinality(at)
    BY <1>5, <1>6, <1>7, FS_Subset
  <1> QED BY <1>8

(* The answers to a sequence of messages are some of them, in order.       *)
LEMMA AnswersSeq ==
    ASSUME NEW n \in Nat, NEW ms \in Seq(1 .. n)
    PROVE  /\ Answers(ms) \in Seq(1 .. n)
           /\ \A k \in 1 .. Len(Answers(ms)) :
                \E j \in 1 .. Len(ms) : Answers(ms)[k] = ms[j]
           /\ (\A i, j \in 1 .. Len(ms) : i < j => ms[i] < ms[j]) =>
                \A i, j \in 1 .. Len(Answers(ms)) : i < j => Answers(ms)[i] < Answers(ms)[j]
  <1> DEFINE at == {j \in DOMAIN ms : Kind(ms[j]) \in Answering}
             upTo(j) == {h \in at : h <= j}
             size == Cardinality(at)
             nth == [k \in 1 .. size |-> CHOOSE j \in at : Cardinality(upTo(j)) = k]
  <1>1. DOMAIN ms = 1 .. Len(ms) /\ Len(ms) \in Nat
    OBVIOUS
  <1>2. IsFiniteSet(at) /\ at \subseteq 1 .. Len(ms) /\ size \in Nat
    <2>1. IsFiniteSet(1 .. Len(ms))
      BY <1>1, FS_Interval
    <2>2. at \subseteq 1 .. Len(ms)
      BY <1>1
    <2> QED BY <1>1, <2>1, <2>2, FS_Subset, FS_CardinalityType
  <1>4. Answers(ms) = [k \in 1 .. size |-> ms[nth[k]]]
    BY DEF Answers
  <1>3. ASSUME NEW k \in 1 .. size
        PROVE  nth[k] \in at /\ Cardinality(upTo(nth[k])) = k
    <2> HIDE DEF at
    <2>1. at \subseteq Nat
      BY <1>2
    <2>2. \E j \in at : Cardinality(upTo(j)) = k
      BY <1>2, <2>1, Ranks
    <2>3. nth[k] = CHOOSE j \in at : Cardinality(upTo(j)) = k
      OBVIOUS
    <2> HIDE DEF nth, upTo
    <2> QED BY <2>2, <2>3
  <1> HIDE DEF nth, at, size
  <1>5. \A k \in 1 .. size : nth[k] \in 1 .. Len(ms) /\ ms[nth[k]] \in 1 .. n
    <2> TAKE k \in 1 .. size
    <2>1. nth[k] \in at
      BY <1>3
    <2>2. nth[k] \in 1 .. Len(ms)
      BY <1>2, <2>1
    <2> QED BY <2>2
  <1>6. Answers(ms) \in [1 .. size -> 1 .. n]
    BY <1>4, <1>5
  <1>7. Answers(ms) \in Seq(1 .. n) /\ Len(Answers(ms)) = size
    BY <1>2, <1>6
  <1>8. ASSUME NEW i \in 1 .. size, NEW k \in 1 .. size, i < k
        PROVE  nth[i] < nth[k]
    <2>1. nth[i] \in Nat /\ nth[k] \in Nat
      BY <1>5
    <2>2. SUFFICES ASSUME nth[k] <= nth[i] PROVE FALSE
      BY <2>1
    <2>a. at \subseteq Nat
      BY <1>2
    <2>b. \A h \in at : h <= nth[k] => h <= nth[i]
      BY <2>a, <2>1, <2>2
    <2>3. upTo(nth[k]) \subseteq upTo(nth[i])
      BY <2>b
    <2>4. IsFiniteSet(upTo(nth[i])) /\ IsFiniteSet(upTo(nth[k]))
      BY <1>2, FS_Subset
    <2>5. Cardinality(upTo(nth[k])) <= Cardinality(upTo(nth[i]))
      BY <2>3, <2>4, FS_Subset
    <2>6. Cardinality(upTo(nth[k])) = k /\ Cardinality(upTo(nth[i])) = i
      BY <1>3
    <2> QED BY <1>2, <1>8, <2>5, <2>6
  <1>9. ASSUME \A i, j \in 1 .. Len(ms) : i < j => ms[i] < ms[j],
               NEW i \in 1 .. Len(Answers(ms)), NEW k \in 1 .. Len(Answers(ms)), i < k
        PROVE  Answers(ms)[i] < Answers(ms)[k]
    <2>1. i \in 1 .. size /\ k \in 1 .. size
      BY <1>7
    <2>2. PICK p \in 1 .. Len(ms) : p = nth[i]
      BY <1>5, <2>1
    <2>3. PICK q \in 1 .. Len(ms) : q = nth[k]
      BY <1>5, <2>1
    <2>4. p < q
      BY <1>8, <1>9, <2>1, <2>2, <2>3
    <2>5. ms[p] < ms[q]
      BY <1>9, <2>4
    <2> QED BY <1>4, <2>1, <2>2, <2>3, <2>5
  <1>10. ASSUME NEW k \in 1 .. Len(Answers(ms))
         PROVE  \E j \in 1 .. Len(ms) : Answers(ms)[k] = ms[j]
    BY <1>4, <1>5, <1>7
  <1> QED BY <1>7, <1>9, <1>10

-----------------------------------------------------------------------------
(* The batch that a COPY is in.                                            *)

(* FirstOf finds the first message of these kinds.                         *)
LEMMA FirstFound ==
    ASSUME NEW n \in Nat, NEW ms \in Seq(1 .. n), NEW ks, Has(ms, ks)
    PROVE  /\ FirstOf(ms, ks) \in 1 .. Len(ms) /\ Kind(ms[FirstOf(ms, ks)]) \in ks
           /\ \A h \in 1 .. (FirstOf(ms, ks) - 1) : Kind(ms[h]) \notin ks
  <1> DEFINE at == {j \in DOMAIN ms : Kind(ms[j]) \in ks}
             Fits(j) == Kind(ms[j]) \in ks /\ \A h \in 1 .. (j - 1) : Kind(ms[h]) \notin ks
  <1>1. DOMAIN ms = 1 .. Len(ms) /\ Len(ms) \in Nat
    OBVIOUS
  <1>2. at \subseteq 1 .. Len(ms) /\ at # {}
    BY <1>1 DEF Has
  <1>3. IsFiniteSet(1 .. Len(ms))
    BY <1>1, FS_Interval
  <1>4. IsFiniteSet(at) /\ Cardinality(at) \in Nat /\ Cardinality(at) # 0
    BY <1>2, <1>3, FS_Subset, FS_CardinalityType, FS_EmptySet
  <1>5. 1 \in 1 .. Cardinality(at) /\ at \subseteq Nat
    BY <1>2, <1>4
  <1>6. PICK j \in at : Cardinality({h \in at : h <= j}) = 1
    <2> HIDE DEF at
    <2> QED BY <1>4, <1>5, Ranks
  <1>7. ASSUME NEW h \in 1 .. (j - 1), Kind(ms[h]) \in ks PROVE FALSE
    <2>a. j \in 1 .. Len(ms)
      BY <1>2
    <2>1. h \in at /\ h <= j /\ j <= j /\ h # j
      BY <1>1, <1>7, <2>a
    <2> HIDE DEF at
    <2>2. {h, j} \subseteq {i \in at : i <= j}
      BY <1>6, <2>1
    <2>3. IsFiniteSet({i \in at : i <= j})
      BY <1>4, FS_Subset
    <2>4. Cardinality({h, j}) <= 1
      BY <1>6, <2>2, <2>3, FS_Subset
    <2>5. Cardinality({h}) = 1 /\ IsFiniteSet({h})
      BY FS_Singleton
    <2>6. {h, j} = {h} \cup {j}
      OBVIOUS
    <2>7. j \notin {h}
      BY <2>1
    <2>8. Cardinality({h} \cup {j}) = Cardinality({h}) + 1
      BY <2>5, <2>7, FS_AddElement
    <2>9. Cardinality({h, j}) = 1 + 1
      BY <2>5, <2>6, <2>8, Zenon
    <2>10. 1 + 1 <= 1
      BY <2>4, <2>9, Zenon
    <2> QED BY <2>10
  <1>8. j \in DOMAIN ms /\ Fits(j)
    BY <1>7
  <1>9. FirstOf(ms, ks) = CHOOSE i \in DOMAIN ms : Fits(i)
    BY DEF FirstOf
  <1>10. FirstOf(ms, ks) \in DOMAIN ms /\ Fits(FirstOf(ms, ks))
    <2> HIDE DEF Fits
    <2> QED BY <1>8, <1>9
  <1> QED BY <1>1, <1>10

(* The receive buffer is filled in whole, and at least up to the COPY.     *)
LEMMA BufferFilled ==
    ASSUME NEW k \in Nat, k > 0, NEW recv \in Nat, recv > 0
    PROVE  /\ ((k + recv - 1) \div recv) * recv \in Nat
           /\ ((k + recv - 1) \div recv) * recv >= k
           /\ k <= recv => ((k + recv - 1) \div recv) * recv = recv
  <1> DEFINE q == (k + recv - 1) \div recv
  <1>1. q \in Nat /\ q * recv \in Nat /\ k + recv - 1 < q * recv + recv
    OBVIOUS
  <1>2. ASSUME k <= recv PROVE q = 1
    BY <1>2
  <1> QED BY <1>1, <1>2

(* A handoff delivers the batch up to some message c, all of it if it fits *)
(* the receive buffer or ends with the COPY, and leaves the rest in the    *)
(* host's input.                                                           *)
TakenWhole(b) ==
    \/ Len(b) <= profile.recv
    \/ \A j \in 1 .. (Len(b) - 1) : Kind(b[j]) \notin CopyKinds

HandoffOf(b, c, a) ==
    /\ delivered' = delivered \o UnitsOf(SubSeq(b, 1, c))
    /\ hostInput' = SubSeq(b, c + 1, Len(b))
    /\ answered' = answered \o Answers(SubSeq(b, 1, a))
    /\ \/ copying' = FALSE /\ entries' = 0 /\ copyReady' = copyReady
       \/ copying' = FALSE /\ entries' = 0 /\ copyReady' = copyReady + 1
       \/ copying' = TRUE /\ entries' = profile.extra + 1 /\ copyReady' = copyReady + 1
    /\ copyReady' # copyReady => Has(b, CopyInKinds)
    /\ TakenWhole(b) => c = Len(b)
    /\ prefix' = prefix

(* A handoff passes a first part of the batch, c messages, to the backend  *)
(* and leaves the rest in the host's input.                                *)
LEMMA HandoffEffect ==
    ASSUME NEW n \in Nat, NEW b \in Seq(1 .. n), profile.recv \in Nat \ {0},
           FlushHandoff(b)
    PROVE  \E c \in 1 .. Len(b) : \E a \in 1 .. c : HandoffOf(b, c, a)
  <1> DEFINE k == FirstOf(b, CopyKinds)
             full == ((k + profile.recv - 1) \div profile.recv) * profile.recv
             got == SubSeq(b, 1, IF full < Len(b) THEN full ELSE Len(b))
             start == FirstOf(got, CopyInKinds)
             waits == /\ Has(got, CopyInKinds)
                      /\ \A j \in (start + 1) .. Len(got) : Kind(got[j]) \in CopyTolerates
  <1>1. k \in 1 .. Len(b) /\ Kind(b[k]) \in CopyKinds
    BY FirstFound DEF FlushHandoff
  <1>2. full \in Nat /\ full >= k /\ (k <= profile.recv => full = profile.recv)
    <2>1. k \in Nat /\ k > 0 /\ profile.recv \in Nat /\ profile.recv > 0
      BY <1>1
    <2> HIDE DEF k
    <2> QED BY <2>1, BufferFilled
  <1>3. PICK c \in 1 .. Len(b) : c = IF full < Len(b) THEN full ELSE Len(b)
    <2> HIDE DEF full, k
    <2> QED BY <1>1, <1>2
  <1>4. TakenWhole(b) => c = Len(b)
    <2> HIDE DEF full, k
    <2>1. CASE Len(b) <= profile.recv
      BY <1>1, <1>2, <1>3, <2>1
    <2>2. CASE \A j \in 1 .. (Len(b) - 1) : Kind(b[j]) \notin CopyKinds
      <3>1. k = Len(b)
        BY <1>1, <2>2
      <3> QED BY <1>1, <1>2, <1>3, <3>1
    <2> QED BY <2>1, <2>2 DEF TakenWhole
  <1>5. got = SubSeq(b, 1, c)
    BY <1>3
  <1>6. got \in Seq(1 .. n) /\ Len(got) = c /\ \A j \in 1 .. c : got[j] = b[j]
    <2> HIDE DEF got
    <2> QED BY <1>5
  <1>7. Has(got, CopyInKinds) => start \in 1 .. c /\ Has(b, CopyInKinds)
    <2> HIDE DEF got
    <2>1. Has(got, CopyInKinds) => start \in 1 .. Len(got)
      BY <1>6, FirstFound
    <2>2. Has(got, CopyInKinds) => Has(b, CopyInKinds)
      BY <1>6 DEF Has
    <2> QED BY <1>6, <2>1, <2>2
  <1>8. /\ delivered' = delivered \o UnitsOf(got)
        /\ hostInput' = SubSeq(b, Len(got) + 1, Len(b))
        /\ copying' = waits
        /\ answered' = answered \o Answers(IF waits THEN SubSeq(got, 1, start) ELSE got)
        /\ copyReady' = IF Has(got, CopyInKinds) THEN copyReady + 1 ELSE copyReady
        /\ entries' = IF waits THEN profile.extra + 1 ELSE 0
        /\ prefix' = prefix
    BY DEF FlushHandoff
  <1> HIDE DEF k, full, got
  <1>9. CASE waits
    <2>1. Has(got, CopyInKinds) /\ copying' = TRUE
      BY <1>8, <1>9
    <2>2. PICK a \in 1 .. c : a = start
      BY <1>7, <2>1
    <2>3. SubSeq(got, 1, a) = SubSeq(b, 1, a)
      BY <1>5, <1>6, <2>2
    <2>4. answered' = answered \o Answers(SubSeq(b, 1, a))
      BY <1>8, <1>9, <2>2, <2>3
    <2> HIDE DEF start, waits
    <2> QED BY <1>4, <1>5, <1>6, <1>7, <1>8, <1>9, <2>1, <2>4 DEF HandoffOf
  <1>10. CASE ~waits
    <2>1. copying' = FALSE /\ answered' = answered \o Answers(SubSeq(b, 1, c))
      BY <1>5, <1>8, <1>10
    <2>2. c \in 1 .. c
      OBVIOUS
    <2> HIDE DEF start, waits
    <2>3. HandoffOf(b, c, c)
      BY <1>4, <1>5, <1>6, <1>7, <1>8, <1>10, <2>1 DEF HandoffOf
    <2> QED BY <2>2, <2>3
  <1> QED BY <1>9, <1>10

-----------------------------------------------------------------------------
(* The buffers hold what was sent, in every reachable state.               *)

(* What was in the set of messages or units sent stays in it.              *)
LEMMA SeqMono ==
    ASSUME NEW S, NEW T, S \subseteq T, NEW s \in Seq(S)
    PROVE  s \in Seq(T)
  <1>1. \A j \in 1 .. Len(s) : s[j] \in T
    OBVIOUS
  <1> QED BY <1>1

(* A sequence of at most one element has none or one.                      *)
LEMMA OneLong ==
    ASSUME NEW S, NEW s \in Seq(S), Len(s) <= 1, s # <<>>
    PROVE  Len(s) = 1
  <1>1. PICK p \in Nat : p = Len(s)
    OBVIOUS
  <1>2. p # 0
    BY <1>1, EmptySeq
  <1>3. p = 1
    BY <1>1, <1>2
  <1> QED BY <1>1, <1>3

(* A profile's sizes.                                                      *)
LEMMA ProfileSizes ==
    ASSUME ClientFields
    PROVE  /\ profile.max \in Nat /\ profile.extra \in Nat
           /\ profile.recv \in Nat \ {0} /\ profile.kinds \subseteq AllKinds
           /\ Len(sent) \in Nat
  BY ProxyAssumption DEF ClientFields

(* A step that leaves the client and the socket alone keeps what they are. *)
LEMMA ClientKept ==
    ASSUME Inv, UNCHANGED clientVars
    PROVE  /\ ClientFields' /\ SocketInv'
           /\ SentMessages' = SentMessages /\ SentUnits' = SentUnits /\ Taken' = Taken
           /\ sent' = sent /\ profile' = profile /\ socket' = socket /\ client' = client
           /\ lost' = lost
  BY DEF Inv, ClientFields, SocketInv, clientVars, SentMessages, SentUnits, Taken

(* The pump's fields keep their types when it does nothing.                *)
LEMMA PumpKept ==
    ASSUME Inv, UNCHANGED pumpVars, SentMessages' = SentMessages, SentUnits' = SentUnits,
           profile' = profile
    PROVE  /\ PumpFields'
           /\ prefix' = prefix /\ hostInput' = hostInput /\ entries' = entries
           /\ copying' = copying
  BY DEF Inv, PumpFields, pumpVars

(* So do delivered and answered when nothing is seen.                      *)
LEMMA SeenKept ==
    ASSUME Inv, UNCHANGED seenVars, SentMessages' = SentMessages, SentUnits' = SentUnits
    PROVE  /\ SeenFields'
           /\ delivered' = delivered /\ answered' = answered /\ copyReady' = copyReady
  BY DEF Inv, SeenFields, seenVars

(* Abort: whatever has become of the client, the connection is done.       *)
LEMMA AbortKeeps ==
    ASSUME Inv, ClientFields', SocketInv', PumpFields', SeenFields',
           SentMessages' = SentMessages, SentUnits' = SentUnits,
           NEW b \in {"none", "open", "closed", "dropped", "failed"}, Abort(b)
    PROVE  Inv'
  <1>1. HandlerFields'
    BY DEF Inv, HandlerFields, Abort
  <1>2. StageInv' /\ ReaderInv'
    BY DEF Abort, StageInv, ReaderInv, Reading, Served
  <1> QED BY <1>1, <1>2 DEF Inv

(* A call into the backend fails after part of the batch.                  *)
LEMMA FailedKeeps ==
    ASSUME Inv, UNCHANGED clientVars, NEW b \in Seq(SentMessages), FlushFails(b)
    PROVE  Inv'
  <1>1. /\ ClientFields' /\ SocketInv' /\ SentMessages' = SentMessages
        /\ SentUnits' = SentUnits /\ profile' = profile
    BY ClientKept
  <1>2. PICK c \in 0 .. Len(b) : delivered' = delivered \o UnitsOf(SubSeq(b, 1, c))
    BY DEF FlushFails
  <1>3. SubSeq(b, 1, c) \in Seq(SentMessages) /\ Len(sent) \in Nat
    BY ProfileSizes DEF Inv
  <1>4. UnitsOf(SubSeq(b, 1, c)) \in Seq(SentUnits)
    BY <1>3, UnitsOfSeq DEF SentMessages, SentUnits
  <1>5. delivered' \in Seq(SentUnits)
    BY <1>2, <1>4 DEF Inv, SeenFields
  <1>6. Abort("failed") /\ UNCHANGED <<answered, copyReady, pumpVars>>
    BY DEF FlushFails
  <1>7. SeenFields' /\ PumpFields'
    BY <1>1, <1>5, <1>6, PumpKept DEF Inv, SeenFields
  <1> QED BY <1>1, <1>6, <1>7, AbortKeeps

(* ReturnErr drops the backend.                                            *)
LEMMA ReturnErrEffect ==
    ASSUME Inv, ReturnErr
    PROVE  \E b \in {"none", "open", "closed", "dropped", "failed"} :
             Abort(b) /\ b = IF backend = "open" THEN "dropped" ELSE backend
  BY DEF Inv, HandlerFields, ReturnErr

(* FlushBuffered, and the response written or not.                         *)
LEMMA BufferedKeeps ==
    ASSUME Inv, UNCHANGED clientVars, NEW b \in Seq(SentMessages), FlushBuffered(b),
           answered' = answered \o Answers(b) \/ answered' = answered
    PROVE  /\ PumpFields' /\ SeenFields'
           /\ prefix' = prefix /\ hostInput' = hostInput /\ entries' = entries
           /\ copying' = copying /\ copyReady' = copyReady
  <1>1. SentMessages' = SentMessages /\ SentUnits' = SentUnits /\ profile' = profile
    BY ClientKept
  <1>2. UNCHANGED pumpVars /\ copyReady' = copyReady /\ delivered' = delivered \o UnitsOf(b)
    BY DEF FlushBuffered
  <1>3. Len(sent) \in Nat
    BY ProfileSizes DEF Inv
  <1>4. UnitsOf(b) \in Seq(SentUnits) /\ Answers(b) \in Seq(SentMessages)
    BY <1>3, UnitsOfSeq, AnswersSeq DEF SentMessages, SentUnits
  <1>5. delivered \in Seq(SentUnits) /\ answered \in Seq(SentMessages) /\ copyReady \in Nat
    BY DEF Inv, SeenFields
  <1>a. delivered \o UnitsOf(b) \in Seq(SentUnits) /\ answered \o Answers(b) \in Seq(SentMessages)
    BY <1>4, <1>5
  <1>6. delivered' \in Seq(SentUnits) /\ answered' \in Seq(SentMessages)
    BY <1>2, <1>5, <1>a, Zenon
  <1> QED BY <1>1, <1>2, <1>5, <1>6, PumpKept DEF SeenFields

(* FlushHandoff turns the handler into the drain.                          *)
LEMMA HandoffKeeps ==
    ASSUME Inv, UNCHANGED clientVars, NEW b \in Seq(SentMessages), FlushHandoff(b),
           stage \in Reading, backend = "open", stage' = "drain", batch' = <<>>,
           backend' = backend, closeAfter' = closeAfter, result' \in {"running", "err"},
           todo' \in Seq(SentMessages), pending' \in Seq(SentUnits), Len(pending') <= 1
    PROVE  Inv'
  <1>1. /\ ClientFields' /\ SocketInv' /\ SentMessages' = SentMessages
        /\ SentUnits' = SentUnits /\ profile' = profile
    BY ClientKept
  <1>2. Len(sent) \in Nat /\ profile.recv \in Nat \ {0} /\ profile.extra \in Nat
    BY ProfileSizes DEF Inv
  <1>3. PICK c \in 1 .. Len(b) : \E a \in 1 .. c : HandoffOf(b, c, a)
    BY <1>2, HandoffEffect DEF SentMessages
  <1>4. PICK a \in 1 .. c : HandoffOf(b, c, a)
    BY <1>3
  <1>5. /\ SubSeq(b, 1, c) \in Seq(SentMessages) /\ Len(SubSeq(b, 1, c)) = c
        /\ SubSeq(b, 1, a) \in Seq(SentMessages)
        /\ SubSeq(b, c + 1, Len(b)) \in Seq(SentMessages)
    OBVIOUS
  <1>6. /\ UnitsOf(SubSeq(b, 1, c)) \in Seq(SentUnits)
        /\ Len(UnitsOf(SubSeq(b, 1, c))) = 2 * c
        /\ Answers(SubSeq(b, 1, a)) \in Seq(SentMessages)
    BY <1>2, <1>5, UnitsOfSeq, AnswersSeq DEF SentMessages, SentUnits
  <1>7. delivered \in Seq(SentUnits) /\ answered \in Seq(SentMessages) /\ copyReady \in Nat
    BY DEF Inv, SeenFields
  <1>8. /\ delivered' = delivered \o UnitsOf(SubSeq(b, 1, c))
        /\ hostInput' = SubSeq(b, c + 1, Len(b))
        /\ answered' = answered \o Answers(SubSeq(b, 1, a))
        /\ copyReady' = copyReady \/ copyReady' = copyReady + 1
        /\ prefix' = prefix
    BY <1>4 DEF HandoffOf
  <1>9. SeenFields'
    BY <1>1, <1>6, <1>7, <1>8 DEF SeenFields
  <1>10. delivered' # <<>>
    BY <1>6, <1>7, <1>8
  <1>11. \/ copying' = FALSE /\ entries' = 0
         \/ copying' = TRUE /\ entries' = profile.extra + 1
    BY <1>4 DEF HandoffOf
  <1>a. entries' \in 0 .. (profile.extra + 1) /\ profile.extra + 1 # 0
    BY <1>2, <1>11
  <1>b. copying' \in BOOLEAN /\ (entries' = 0 => copying' = FALSE)
    BY <1>11, <1>a, Zenon
  <1>12. copying' \in BOOLEAN /\ entries' \in 0 .. (profile.extra + 1)
         /\ (entries' = 0 => copying' = FALSE)
    BY <1>a, <1>b
  <1>13. PumpFields'
    BY <1>1, <1>5, <1>8, <1>12 DEF PumpFields, Inv
  <1>14. HandlerFields'
    BY <1>1 DEF HandlerFields, Inv, Served
  <1>15. prefix = <<>>
    BY DEF Inv, StageInv
  <1>16. StageInv'
    BY <1>8, <1>10, <1>12, <1>15 DEF StageInv, Reading, Served
  <1>17. ReaderInv'
    BY DEF ReaderInv, Reading
  <1> QED BY <1>1, <1>9, <1>13, <1>14, <1>16, <1>17 DEF Inv

(* The first state.                                                        *)
LEMMA InitInv == Init => Inv
  <1> SUFFICES ASSUME Init PROVE Inv
    OBVIOUS
  <1> DEFINE n == Len(sent)
  <1>1. /\ profile \in Profiles /\ profile.max \in Nat /\ profile.extra \in Nat
        /\ sent \in Seq(AllKinds) /\ Len(sent) <= profile.max /\ Len(sent) \in Nat
    BY ProxyAssumption DEF Init
  <1>2. socket \in [1 .. (2 * Len(sent)) -> SentUnits] /\ \A u \in 1 .. (2 * Len(sent)) : socket[u] = u
    BY DEF Init, SentUnits
  <1>3. socket \in Seq(SentUnits) /\ Len(socket) = 2 * Len(sent)
    BY <1>1, <1>2
  <1>4. /\ stage = "read" /\ pending = <<>> /\ todo = <<>> /\ batch = <<>>
        /\ backend = "none" /\ result = "running"
        /\ prefix = <<>> /\ hostInput = <<>> /\ entries = 0
        /\ delivered = <<>> /\ answered = <<>> /\ copyReady = 0 /\ client = "here"
        /\ lost = 0
    BY DEF Init
  <1>5. closeAfter = FALSE /\ copying = FALSE
    BY DEF Init
  <1>6. ClientFields
    BY <1>1, <1>3, <1>4 DEF ClientFields
  <1>7. HandlerFields
    <2>1. closeAfter \in BOOLEAN
      BY <1>5
    <2> QED BY <1>4, <2>1 DEF HandlerFields, Reading
  <1>8. PumpFields
    <2>1. copying \in BOOLEAN
      BY <1>5
    <2> QED BY <1>1, <1>4, <2>1 DEF PumpFields
  <1>9. SeenFields
    BY <1>4 DEF SeenFields
  <1>10. StageInv
    BY <1>4, <1>5 DEF StageInv, Reading, Served
  <1>11. SocketInv /\ Taken = 0
    BY <1>1, <1>2, <1>3 DEF SocketInv, Taken
  <1>12. Reader(0)
    BY <1>4, <1>11 DEF Reader
  <1> QED BY <1>6, <1>7, <1>8, <1>9, <1>10, <1>11, <1>12 DEF Inv, ReaderInv

(* The handler goes on in the messages it has read.                        *)
LEMMA ReaderMoves ==
    ASSUME Inv, UNCHANGED clientVars, stage \in Reading, pending' = pending,
           todo' \in Seq(SentMessages), Len(todo') <= Len(todo),
           \A j \in 1 .. Len(todo') : todo'[j] = todo[Len(todo) - Len(todo') + j],
           \/ batch' = <<>>
           \/ batch' = batch
           \/ /\ batch' = Append(batch, Head(todo)) /\ Kind(Head(todo)) \in BackendKinds
              /\ Len(todo') < Len(todo),
           \/ backend' # "open"
           \/ backend = "open"
           \/ Kind(Head(todo)) = "Startup" /\ Len(todo') < Len(todo)
    PROVE  ReaderInv'
  <1>1. PICK r \in Nat : Reader(r)
    BY DEF Inv, ReaderInv
  <1>2. Taken' = Taken /\ sent' = sent
    BY ClientKept
  <1>3. /\ todo \in Seq(SentMessages) /\ batch \in Seq(SentMessages)
        /\ Len(todo) \in Nat /\ Len(todo') \in Nat /\ Len(todo) <= r
    BY <1>1 DEF Inv, HandlerFields, Reader
  <1>4. ASSUME NEW j \in 1 .. Len(todo') PROVE todo'[j] = r - Len(todo') + j
    <2>1. Len(todo) - Len(todo') + j \in 1 .. Len(todo)
      BY <1>3
    <2> QED BY <1>1, <1>3, <2>1 DEF Reader
  <1>5. Len(todo') < Len(todo) => /\ Head(todo) = r - Len(todo) + 1
                                  /\ r - Len(todo) + 1 \in 1 .. (r - Len(todo'))
    <2>1. Len(todo') < Len(todo) => Head(todo) = todo[1] /\ 1 \in 1 .. Len(todo)
      BY <1>3
    <2> QED BY <1>1, <1>3, <2>1 DEF Reader
  <1>6. ASSUME NEW j \in 1 .. Len(batch)
        PROVE  batch[j] <= r - Len(todo') /\ Kind(batch[j]) \in BackendKinds
    <2>1. batch[j] \in Nat /\ batch[j] <= r - Len(todo) /\ Kind(batch[j]) \in BackendKinds
      BY <1>1, <1>3, SMTT(20) DEF Reader, SentMessages
    <2> QED BY <1>3, <2>1
  <1>7. ASSUME NEW j \in 1 .. Len(batch')
        PROVE  batch'[j] <= r - Len(todo') /\ sent[batch'[j]] \in BackendKinds
    <2>1. CASE batch' = <<>>
      BY <2>1
    <2>2. CASE batch' = batch
      BY <1>6, <2>2 DEF Kind
    <2>3. CASE /\ batch' = Append(batch, Head(todo)) /\ Kind(Head(todo)) \in BackendKinds
               /\ Len(todo') < Len(todo)
      <3>1. CASE j \in 1 .. Len(batch)
        <4>1. batch'[j] = batch[j]
          BY <1>3, <2>3, <3>1
        <4> QED BY <1>6, <3>1, <4>1 DEF Kind
      <3>2. CASE j \notin 1 .. Len(batch)
        <4>1. j = Len(batch) + 1 /\ batch'[j] = Head(todo)
          BY <1>3, <2>3, <3>2
        <4> QED BY <1>3, <1>5, <2>3, <4>1 DEF Kind
      <3> QED BY <3>1, <3>2
    <2> QED BY <2>1, <2>2, <2>3
  <1>8. ASSUME backend' = "open"
        PROVE  \E i \in 1 .. (r - Len(todo')) : sent[i] = "Startup"
    <2>1. CASE backend = "open"
      <3>1. PICK i \in 1 .. (r - Len(todo)) : sent[i] = "Startup"
        BY <1>1, <2>1 DEF Reader
      <3>2. i \in 1 .. (r - Len(todo'))
        BY <1>3
      <3> QED BY <3>1, <3>2
    <2>2. CASE Kind(Head(todo)) = "Startup" /\ Len(todo') < Len(todo)
      BY <1>5, <2>2 DEF Kind
    <2> QED BY <1>8, <2>1, <2>2
  <1>9. Len(todo') <= r /\ 2 * r + Len(pending) = Taken
        /\ (pending # <<>> => pending[1] = 2 * r + 1)
    BY <1>1, <1>3 DEF Reader
  <1>10. Reader(r)'
    BY <1>2, <1>4, <1>7, <1>8, <1>9 DEF Reader, Kind
  <1> QED BY <1>10 DEF ReaderInv

(* The handler stays in its message loop.                                  *)
LEMMA LoopKeeps ==
    ASSUME Inv, UNCHANGED clientVars, ReaderInv', PumpFields', SeenFields',
           stage = "handle", stage' = "handle", pending' = pending,
           todo' \in Seq(SentMessages), batch' \in Seq(SentMessages),
           backend' \in {"none", "open", "closed"},
           closeAfter' = TRUE \/ closeAfter' = FALSE, result' = result,
           prefix' = prefix, hostInput' = hostInput, copying' = copying,
           entries' = entries, copyReady' = copyReady
    PROVE  Inv'
  <1>1. /\ ClientFields' /\ SocketInv' /\ SentMessages' = SentMessages
        /\ SentUnits' = SentUnits
    BY ClientKept
  <1>2. HandlerFields'
    <2>1. closeAfter' \in BOOLEAN
      OBVIOUS
    <2> QED BY <1>1, <2>1 DEF Inv, HandlerFields, Reading
  <1>3. StageInv'
    BY DEF Inv, StageInv, Reading, Served
  <1> QED BY <1>1, <1>2, <1>3 DEF Inv

(* The tail of the messages to handle.                                     *)
LEMMA TailOf ==
    ASSUME NEW S, NEW s \in Seq(S), s # <<>>
    PROVE  /\ Tail(s) \in Seq(S) /\ Len(Tail(s)) = Len(s) - 1 /\ Len(s) \in Nat /\ Len(s) > 0
           /\ \A j \in 1 .. Len(Tail(s)) : Tail(s)[j] = s[Len(s) - Len(Tail(s)) + j]
           /\ Head(s) = s[1] /\ s[1] \in S
  OBVIOUS

(* Another message in the socket.                                          *)
LEMMA SendEffect ==
    ASSUME Inv, ClientSend
    PROVE  /\ ClientFields' /\ SocketInv' /\ Taken' = Taken
           /\ Len(sent') = Len(sent) + 1
           /\ \A i \in 1 .. Len(sent) : sent'[i] = sent[i]
           /\ SentMessages \subseteq SentMessages' /\ SentUnits \subseteq SentUnits'
           /\ socket' = socket \o <<2 * Len(sent) + 1, 2 * Len(sent) + 2>>
  <1> DEFINE n == Len(sent)
             two == <<2 * n + 1, 2 * n + 2>>
  <1>1. /\ sent \in Seq(AllKinds) /\ n \in Nat /\ socket \in Seq(SentUnits)
        /\ profile \in Profiles /\ client \in {"here", "closed", "reset"}
        /\ profile.kinds \subseteq AllKinds /\ profile.max \in Nat
        /\ lost \in Nat /\ lost <= Len(socket) /\ (client = "here" => lost = 0)
    BY ProfileSizes DEF Inv, ClientFields
  <1>2. PICK k \in profile.kinds : sent' = Append(sent, k)
    BY DEF ClientSend
  <1>3. /\ sent' \in Seq(AllKinds) /\ Len(sent') = n + 1
        /\ \A i \in 1 .. n : sent'[i] = sent[i]
    BY <1>1, <1>2
  <1>4. UnitsOf(<<n + 1>>) = two
    <2>1. PICK q \in Nat : q = n + 1
      BY <1>1
    <2>2. <<q>> \in Seq(1 .. q) /\ Len(<<q>>) = 1 /\ <<q>>[1] = q /\ 1 \in 1 .. Len(<<q>>)
      BY <1>1, <2>1
    <2>3. /\ UnitsOf(<<q>>) \in Seq(1 .. (2 * q)) /\ Len(UnitsOf(<<q>>)) = 2 * Len(<<q>>)
          /\ UnitsOf(<<q>>)[2 * 1 - 1] = 2 * <<q>>[1] - 1
          /\ UnitsOf(<<q>>)[2 * 1] = 2 * <<q>>[1]
      BY <2>2, UnitsOfSeq
    <2> HIDE DEF n
    <2>4. UnitsOf(<<q>>) = <<2 * q - 1, 2 * q>>
      BY <2>2, <2>3
    <2>5. 2 * q - 1 = 2 * n + 1 /\ 2 * q = 2 * n + 2
      BY <1>1, <2>1
    <2> QED BY <2>1, <2>4, <2>5
  <1>5. socket' = socket \o two /\ profile' = profile /\ client' = client
        /\ lost' = lost
    BY <1>4 DEF ClientSend
  <1>6. SentMessages \subseteq SentMessages' /\ SentUnits \subseteq SentUnits'
    BY <1>1, <1>3 DEF SentMessages, SentUnits
  <1>7. two \in Seq(SentUnits')
    BY <1>1, <1>3 DEF SentUnits
  <1>8. socket \in Seq(SentUnits')
    BY <1>1, <1>6, SeqMono
  <1>9. socket' \in Seq(SentUnits') /\ Len(socket') = Len(socket) + 2
    BY <1>5, <1>7, <1>8
  <1>10. Taken' = Taken
    BY <1>1, <1>3, <1>9 DEF Taken
  <1>11. Len(sent) < profile.max
    BY DEF ClientSend
  <1>12. ClientFields'
    BY <1>1, <1>3, <1>5, <1>9, <1>11 DEF ClientFields
  <1>13. ASSUME NEW j \in 1 .. Len(socket') PROVE socket'[j] = Taken + j
    <2>1. CASE j \in 1 .. Len(socket)
      BY <1>1, <1>5, <2>1 DEF Inv, SocketInv
    <2>2. CASE j = Len(socket) + 1
      BY <1>1, <1>5, <2>2 DEF Taken
    <2>3. CASE j = Len(socket) + 2
      BY <1>1, <1>5, <2>3 DEF Taken
    <2> QED BY <1>1, <1>9, <2>1, <2>2, <2>3
  <1>14. SocketInv'
    <2>1. Len(socket') <= 2 * Len(sent')
      BY <1>1, <1>3, <1>9 DEF Inv, SocketInv
    <2> QED BY <1>10, <1>13, <2>1 DEF SocketInv
  <1> QED BY <1>3, <1>5, <1>6, <1>10, <1>12, <1>14

(* ClientSend: new units go to the end of the socket.                      *)
LEMMA SendKeeps ==
    ASSUME Inv, ClientSend
    PROVE  Inv'
  <1>1. /\ ClientFields' /\ SocketInv' /\ Taken' = Taken
        /\ Len(sent') = Len(sent) + 1
        /\ \A i \in 1 .. Len(sent) : sent'[i] = sent[i]
        /\ SentMessages \subseteq SentMessages' /\ SentUnits \subseteq SentUnits'
    BY SendEffect
  <1>2. UNCHANGED <<profile, lost, client, handlerVars, pumpVars, seenVars>>
    BY DEF ClientSend
  <1>3. /\ pending \in Seq(SentUnits') /\ todo \in Seq(SentMessages')
        /\ batch \in Seq(SentMessages') /\ prefix \in Seq(SentUnits')
        /\ hostInput \in Seq(SentMessages') /\ delivered \in Seq(SentUnits')
        /\ answered \in Seq(SentMessages')
    <2>1. /\ pending \in Seq(SentUnits) /\ todo \in Seq(SentMessages)
          /\ batch \in Seq(SentMessages) /\ prefix \in Seq(SentUnits)
          /\ hostInput \in Seq(SentMessages) /\ delivered \in Seq(SentUnits)
          /\ answered \in Seq(SentMessages)
      BY DEF Inv, HandlerFields, PumpFields, SeenFields
    <2> QED BY <1>1, <2>1, SeqMono
  <1>4. HandlerFields'
    BY <1>2, <1>3 DEF Inv, HandlerFields, handlerVars
  <1>5. PumpFields'
    BY <1>2, <1>3 DEF Inv, PumpFields, pumpVars
  <1>6. SeenFields'
    BY <1>2, <1>3 DEF Inv, SeenFields, seenVars
  <1>7. StageInv'
    BY <1>2 DEF Inv, StageInv, handlerVars, pumpVars, seenVars
  <1>8. ReaderInv'
    <2>1. SUFFICES ASSUME stage \in Reading PROVE \E r \in Nat : Reader(r)'
      BY <1>2 DEF ReaderInv, handlerVars
    <2>2. PICK r \in Nat : Reader(r)
      BY <2>1 DEF Inv, ReaderInv
    <2>3. /\ Len(sent) \in Nat /\ Len(socket) \in Nat /\ Len(todo) \in Nat /\ Len(pending) \in Nat
          /\ 2 * r <= 2 * Len(sent) /\ batch \in Seq(SentMessages)
      BY <2>2, ProfileSizes DEF Inv, ClientFields, HandlerFields, Reader, Taken
    <2>4. ASSUME NEW j \in 1 .. Len(batch) PROVE sent'[batch[j]] = sent[batch[j]]
      <3>1. batch[j] \in SentMessages
        BY <2>3
      <3> QED BY <1>1, <3>1 DEF SentMessages
    <2>5. backend = "open" => \E i \in 1 .. (r - Len(todo)) : sent'[i] = "Startup"
      <3>1. ASSUME backend = "open" PROVE \E i \in 1 .. (r - Len(todo)) : sent'[i] = "Startup"
        <4>1. PICK i \in 1 .. (r - Len(todo)) : sent[i] = "Startup"
          BY <2>2, <3>1 DEF Reader
        <4>2. i \in 1 .. Len(sent)
          BY <2>3
        <4> QED BY <1>1, <4>1, <4>2
      <3> QED BY <3>1
    <2>6. Reader(r)'
      BY <1>1, <1>2, <2>2, <2>4, <2>5 DEF Reader, handlerVars, Kind
    <2> QED BY <2>6
  <1> QED BY <1>1, <1>4, <1>5, <1>6, <1>7, <1>8 DEF Inv

(* ClientClose and reset: what never arrives stays at the socket's end.    *)
LEMMA CloseKeeps ==
    ASSUME Inv, ClientClose
    PROVE  Inv'
  <1>1. /\ UNCHANGED <<profile, sent, socket, handlerVars, pumpVars, seenVars>>
        /\ client' \in {"closed", "reset"} /\ lost' \in 0 .. (IF socket = <<>> THEN 0 ELSE 1)
    BY DEF ClientClose
  <1>2. SentMessages' = SentMessages /\ SentUnits' = SentUnits /\ Taken' = Taken
    BY <1>1 DEF SentMessages, SentUnits, Taken
  <1>a. socket \in Seq(SentUnits) /\ Len(socket) \in Nat /\ (socket # <<>> => Len(socket) # 0)
    BY EmptySeq DEF Inv, ClientFields
  <1>b. lost' \in Nat /\ lost' <= Len(socket)
    BY <1>1, <1>a
  <1>3. ClientFields' /\ SocketInv'
    BY <1>1, <1>2, <1>b DEF Inv, ClientFields, SocketInv
  <1>4. HandlerFields' /\ PumpFields' /\ SeenFields'
    BY <1>1, <1>2 DEF Inv, HandlerFields, PumpFields, SeenFields, handlerVars, pumpVars, seenVars
  <1>5. StageInv'
    BY <1>1 DEF Inv, StageInv, handlerVars, pumpVars, seenVars
  <1>6. ReaderInv'
    BY <1>1, <1>2 DEF Inv, ReaderInv, Reader, Kind, handlerVars
  <1> QED BY <1>3, <1>4, <1>5, <1>6 DEF Inv

(* What a read does to the buffers: n more units are taken, and the        *)
(* messages cut off start at the first that was not.                       *)
ReadOf(n, r, buf) ==
    /\ Reader(r) /\ todo = <<>> /\ n + lost <= Len(socket)
    /\ buf = pending \o SubSeq(socket, 1, n)
    /\ buf \in Seq(SentUnits) /\ Len(buf) = Len(pending) + n
    /\ \A k \in 1 .. Len(buf) : buf[k] = 2 * r + k
    /\ socket' = SubSeq(socket, n + 1, Len(socket))
    /\ \/ /\ BadLength(buf[Len(buf)]) \/ Has(CompleteMessages(buf), {"Malformed"})
          /\ ReturnErr
       \/ /\ todo' = CompleteMessages(buf) /\ pending' = Remainder(buf)
          /\ closeAfter' = FALSE /\ stage' = "handle"
          /\ UNCHANGED <<batch, backend, result>>

(* What a read does: n units leave the socket, and r messages are cut off  *)
(* what was left over and them.                                            *)
LEMMA ReadEffect ==
    ASSUME Inv, Read
    PROVE  \E n \in 1 .. Len(socket) : \E r \in Nat : \E buf \in Seq(SentUnits) :
             ReadOf(n, r, buf)
  <1>0. lost \in Nat /\ Len(socket) \in Nat
    BY DEF Inv, ClientFields
  <1>1. PICK n \in 1 .. (Len(socket) - lost) :
            LET b == pending \o SubSeq(socket, 1, n)
                messages == CompleteMessages(b)
            IN  /\ socket' = SubSeq(socket, n + 1, Len(socket))
                /\ \/ /\ BadLength(b[Len(b)]) \/ Has(messages, {"Malformed"})
                      /\ ReturnErr
                   \/ /\ ~Has(messages, {"Malformed"})
                      /\ todo' = messages
                      /\ pending' = Remainder(b)
                      /\ closeAfter' = FALSE
                      /\ stage' = "handle"
                      /\ UNCHANGED <<batch, backend, result>>
    BY DEF Read
  <1>b. n \in 1 .. Len(socket) /\ n + lost <= Len(socket)
    BY <1>0
  <1>2. /\ stage = "read" /\ socket \in Seq(SentUnits) /\ pending \in Seq(SentUnits)
        /\ Len(pending) <= 1 /\ todo = <<>> /\ Len(sent) \in Nat
        /\ \A j \in 1 .. Len(socket) : socket[j] = Taken + j
    BY ProfileSizes DEF Inv, ClientFields, HandlerFields, StageInv, SocketInv, Read
  <1>3. PICK r \in Nat : Reader(r)
    BY <1>2 DEF Inv, ReaderInv, Reading
  <1>4. 2 * r + Len(pending) = Taken /\ (pending # <<>> => pending[1] = 2 * r + 1)
    BY <1>3 DEF Reader
  <1>5. /\ SubSeq(socket, 1, n) \in Seq(SentUnits) /\ Len(SubSeq(socket, 1, n)) = n
        /\ \A j \in 1 .. n : SubSeq(socket, 1, n)[j] = socket[j]
    BY <1>2, <1>b
  <1>a. pending \o SubSeq(socket, 1, n) \in Seq(SentUnits)
    BY <1>2, <1>5
  <1>6. PICK buf \in Seq(SentUnits) : buf = pending \o SubSeq(socket, 1, n)
    BY <1>a
  <1>7. Len(buf) = Len(pending) + n
    BY <1>2, <1>5, <1>6
  <1>8. ASSUME NEW k \in 1 .. Len(buf) PROVE buf[k] = 2 * r + k
    <2>1. CASE k <= Len(pending)
      <3>a. Len(pending) \in Nat /\ Len(buf) \in Nat /\ pending \in Seq(SentUnits)
        BY <1>2
      <3>b. Len(pending) <= 1
        BY <1>2
      <3>1. k = 1
        BY <2>1, <3>a, <3>b
      <3>2. (pending \o SubSeq(socket, 1, n))[1] = pending[1] /\ pending # <<>>
        BY <1>5, <2>1, <3>1, <3>a
      <3> QED BY <1>4, <1>6, <3>1, <3>2
    <2>2. CASE k > Len(pending)
      <3>1. k - Len(pending) \in 1 .. n
        BY <1>2, <1>7, <1>b, <2>2
      <3>2. buf[k] = SubSeq(socket, 1, n)[k - Len(pending)]
        BY <1>2, <1>5, <1>6, <2>2, <3>1
      <3>3. buf[k] = Taken + (k - Len(pending))
        BY <1>2, <1>5, <1>b, <3>1, <3>2
      <3> QED BY <1>2, <1>4, <3>3
    <2> QED BY <1>2, <2>1, <2>2
  <1>9. ReadOf(n, r, buf)
    BY <1>1, <1>2, <1>3, <1>6, <1>7, <1>8, <1>b DEF ReadOf
  <1> QED BY <1>9, <1>b

(* Read: the frame reader's position moves with the socket.                *)
LEMMA ReadKeeps ==
    ASSUME Inv, Read
    PROVE  Inv'
  <1>1. PICK n \in 1 .. Len(socket), r \in Nat, buf \in Seq(SentUnits) : ReadOf(n, r, buf)
    BY ReadEffect
  <1>2. UNCHANGED <<profile, sent, lost, client, pumpVars, seenVars>> /\ stage = "read"
    BY DEF Read
  <1>3. SentMessages' = SentMessages /\ SentUnits' = SentUnits
    BY <1>2 DEF SentMessages, SentUnits
  <1>4. /\ socket \in Seq(SentUnits) /\ Len(sent) \in Nat /\ lost \in Nat
        /\ Len(socket) <= 2 * Len(sent)
        /\ \A j \in 1 .. Len(socket) : socket[j] = Taken + j
    BY ProfileSizes DEF Inv, ClientFields, SocketInv
  <1>5. socket' = SubSeq(socket, n + 1, Len(socket))
    BY <1>1 DEF ReadOf
  <1>6. /\ socket' \in Seq(SentUnits) /\ Len(socket') = Len(socket) - n
        /\ \A j \in 1 .. Len(socket') : socket'[j] = socket[n + j] /\ n + j \in 1 .. Len(socket)
    BY <1>4, <1>5
  <1>7. Taken' = Taken + n
    BY <1>2, <1>4, <1>6 DEF Taken
  <1>a. lost <= Len(socket')
    <2>1. n + lost <= Len(socket)
      BY <1>1 DEF ReadOf
    <2> QED BY <1>4, <1>6, <2>1
  <1>8. ClientFields'
    BY <1>2, <1>3, <1>6, <1>a DEF Inv, ClientFields
  <1>9. SocketInv'
    <2>1. Taken \in Int
      BY <1>4 DEF Taken
    <2>2. \A j \in 1 .. Len(socket') : socket'[j] = Taken + n + j
      BY <1>4, <1>6, <2>1
    <2>3. Len(socket') <= 2 * Len(sent)
      BY <1>4, <1>6
    <2> QED BY <1>2, <1>7, <2>2, <2>3 DEF SocketInv
  <1>10. PumpFields' /\ SeenFields'
    BY <1>2, <1>3, PumpKept, SeenKept
  <1>11. CASE ReturnErr
    BY <1>3, <1>8, <1>9, <1>10, <1>11, ReturnErrEffect, AbortKeeps
  <1>12. CASE /\ todo' = CompleteMessages(buf) /\ pending' = Remainder(buf)
              /\ closeAfter' = FALSE /\ stage' = "handle"
              /\ UNCHANGED <<batch, backend, result>>
    <2>1. buf \in Seq(1 .. (2 * Len(sent))) /\ \A k \in 1 .. Len(buf) : buf[k] = 2 * r + k
      BY <1>1 DEF ReadOf, SentUnits
    <2>2. /\ CompleteMessages(buf) \in Seq(1 .. Len(sent))
          /\ \A j \in 1 .. Len(CompleteMessages(buf)) : CompleteMessages(buf)[j] = r + j
          /\ Remainder(buf) \in Seq(1 .. (2 * Len(sent))) /\ Len(Remainder(buf)) <= 1
          /\ Remainder(buf) # <<>> => Remainder(buf)[1] = 2 * r + Len(buf)
          /\ 2 * Len(CompleteMessages(buf)) + Len(Remainder(buf)) = Len(buf)
      BY <1>4, <2>1, CutMessages
    <2>3. HandlerFields'
      <3>1. closeAfter' \in BOOLEAN
        BY <1>12
      <3> QED BY <1>3, <1>12, <2>2, <3>1 DEF Inv, HandlerFields, Reading, SentMessages, SentUnits
    <2>4. StageInv'
      BY <1>2, <1>12 DEF Inv, StageInv, Reading, Served, pumpVars, seenVars
    <2>5. PICK q \in Nat : q = r + Len(todo')
      BY <1>12, <2>2
    <2>6. Reader(r) /\ Len(buf) = Len(pending) + n /\ todo = <<>>
      BY <1>1 DEF ReadOf
    <2>7. 2 * q + Len(pending') = Taken' /\ (pending' # <<>> => pending'[1] = 2 * q + 1)
      <3>1. 2 * q + Len(pending') = 2 * r + Len(buf)
        BY <1>12, <2>2, <2>5
      <3>2. 2 * r + Len(pending) = Taken /\ Len(pending) \in Nat
        BY <2>6 DEF Reader, Inv, HandlerFields
      <3>3. pending' # <<>> => Len(pending') = 1
        <4>1. pending' \in Seq(1 .. (2 * Len(sent))) /\ Len(pending') <= 1
          BY <1>12, <2>2
        <4> QED BY <4>1, OneLong
      <3>4. Taken' = 2 * r + Len(buf)
        BY <1>7, <2>6, <3>2
      <3>5. pending' # <<>> => pending'[1] = 2 * r + Len(buf)
        BY <1>12, <2>2
      <3>6. pending' # <<>> => 2 * q + 1 = 2 * r + Len(buf)
        BY <3>1, <3>3
      <3> QED BY <3>1, <3>4, <3>5, <3>6
    <2>8. Len(todo') <= q /\ \A j \in 1 .. Len(todo') : todo'[j] = q - Len(todo') + j
      BY <1>12, <2>2, <2>5
    <2>9. q - Len(todo') = r /\ r - Len(todo) = r
      BY <1>12, <2>2, <2>5, <2>6
    <2>10. Reader(q)'
      BY <1>2, <1>12, <2>6, <2>7, <2>8, <2>9 DEF Reader, Kind
    <2>11. ReaderInv'
      BY <2>10 DEF ReaderInv
    <2> QED BY <1>8, <1>9, <1>10, <2>3, <2>4, <2>11 DEF Inv
  <1> QED BY <1>1, <1>11, <1>12 DEF ReadOf

(* `?' and bail! while the bridge is as it was.                            *)
LEMMA ErrKeeps ==
    ASSUME Inv, UNCHANGED clientVars, UNCHANGED <<pumpVars, seenVars>>, ReturnErr
    PROVE  Inv'
  BY ClientKept, PumpKept, SeenKept, ReturnErrEffect, AbortKeeps

(* The response cannot be written.                                         *)
LEMMA BrokenKeeps ==
    ASSUME Inv, UNCHANGED clientVars, NEW b \in Seq(SentMessages), FlushBuffered(b),
           answered' = answered, ReturnErr
    PROVE  Inv'
  BY ClientKept, BufferedKeeps, ReturnErrEffect, AbortKeeps

(* On to the next message, after a flush or without one.                   *)
LEMMA HandledKeeps ==
    ASSUME Inv, UNCHANGED clientVars, stage = "handle", todo # <<>>,
           NEW close \in BOOLEAN, Handled(close), PumpFields', SeenFields',
           prefix' = prefix, hostInput' = hostInput, copying' = copying,
           entries' = entries, copyReady' = copyReady
    PROVE  Inv'
  <1>1. /\ todo' = Tail(todo) /\ batch' = <<>> /\ stage' = stage /\ pending' = pending
        /\ backend' = backend /\ result' = result
    BY DEF Handled
  <1>2. closeAfter' = TRUE \/ closeAfter' = FALSE
    <2>1. closeAfter' = (closeAfter \/ close)
      BY DEF Handled
    <2> QED BY <2>1
  <1>3. todo \in Seq(SentMessages) /\ backend \in {"none", "open", "closed"}
    BY DEF Inv, HandlerFields, StageInv, Reading
  <1>4. /\ todo' \in Seq(SentMessages) /\ Len(todo') <= Len(todo)
        /\ \A j \in 1 .. Len(todo') : todo'[j] = todo[Len(todo) - Len(todo') + j]
    BY <1>1, <1>3, TailOf
  <1>5. ReaderInv'
    BY <1>1, <1>4, ReaderMoves DEF Reading
  <1>6. batch' \in Seq(SentMessages)
    BY <1>1
  <1> QED BY <1>1, <1>2, <1>3, <1>4, <1>5, <1>6, LoopKeeps

(* flush_protocol_batch_if_started before a control packet.                *)
LEMMA ControlKeeps ==
    ASSUME Inv, UNCHANGED clientVars, stage = "handle", todo # <<>>,
           NEW close \in BOOLEAN, FlushIfStarted(Handled(close))
    PROVE  Inv'
  <1>1. /\ batch \in Seq(SentMessages) /\ SentMessages' = SentMessages
        /\ SentUnits' = SentUnits /\ profile' = profile
    BY ClientKept DEF Inv, HandlerFields
  <1>2. CASE Handled(close) /\ UNCHANGED <<pumpVars, seenVars>>
    BY <1>1, <1>2, PumpKept, SeenKept, HandledKeeps
  <1>3. CASE ReturnErr /\ UNCHANGED <<pumpVars, seenVars>>
    BY <1>3, ErrKeeps
  <1>4. CASE FlushBuffered(batch) /\ WriteResponse(batch, Handled(close))
    <2>1. CASE answered' = answered \o Answers(batch) /\ Handled(close)
      BY <1>1, <1>4, <2>1, BufferedKeeps, HandledKeeps
    <2>2. CASE answered' = answered /\ ReturnErr
      BY <1>1, <1>4, <2>2, BrokenKeeps
    <2> QED BY <1>4, <2>1, <2>2 DEF WriteResponse
  <1>5. CASE /\ Started /\ FlushHandoff(batch)
             /\ stage' = "drain" /\ result' = "err"
             /\ todo' = <<>> /\ pending' = <<>> /\ batch' = <<>>
             /\ UNCHANGED <<backend, closeAfter>>
    <2>1. /\ todo' \in Seq(SentMessages) /\ pending' \in Seq(SentUnits) /\ Len(pending') <= 1
          /\ stage \in Reading /\ backend = "open" /\ result' \in {"running", "err"}
      BY <1>5 DEF Reading, Started
    <2> QED BY <1>1, <1>5, <2>1, HandoffKeeps
  <1>6. CASE FlushFails(batch)
    BY <1>1, <1>6, FailedKeeps
  <1> QED BY <1>2, <1>3, <1>4, <1>5, <1>6 DEF FlushIfStarted

(* An SSL or GSS request flushes and is answered by the handler.           *)
LEMMA SslKeeps ==
    ASSUME Inv, HandleSsl
    PROVE  Inv'
  <1>1. /\ UNCHANGED clientVars /\ stage = "handle" /\ todo # <<>>
        /\ FlushIfStarted(Handled(FALSE)) \/ FlushIfStarted(Handled(TRUE))
    BY DEF HandleSsl, Handling
  <1> QED BY <1>1, ControlKeeps

(* Cancel and Terminate flush and end the loop.                            *)
LEMMA ClosingKeeps ==
    ASSUME Inv, HandleClosing
    PROVE  Inv'
  <1>1. /\ UNCHANGED clientVars /\ stage = "handle" /\ todo # <<>>
        /\ FlushIfStarted(Handled(TRUE))
    BY DEF HandleClosing, Handling
  <1> QED BY <1>1, ControlKeeps

(* The end of the read loop: cleanup, or another read.                     *)
LEMMA CleanupKeeps ==
    ASSUME Inv, Cleanup
    PROVE  Inv'
  <1>1. /\ UNCHANGED clientVars /\ UNCHANGED <<pumpVars, seenVars>>
        /\ stage' = "done" /\ result' = "ok" /\ UNCHANGED <<pending, todo, batch, closeAfter>>
        /\ backend' = IF backend = "open" THEN "closed" ELSE backend
    BY DEF Cleanup
  <1>2. /\ ClientFields' /\ SocketInv' /\ PumpFields' /\ SeenFields'
        /\ SentMessages' = SentMessages /\ SentUnits' = SentUnits
    BY <1>1, ClientKept, PumpKept, SeenKept
  <1>3. HandlerFields'
    BY <1>1, <1>2 DEF Inv, HandlerFields
  <1>4. StageInv' /\ ReaderInv'
    BY <1>1 DEF StageInv, ReaderInv, Reading, Served
  <1> QED BY <1>2, <1>3, <1>4 DEF Inv

(* End of file: the batch is flushed and cleanup follows.                  *)
LEMMA EofKeeps ==
    ASSUME Inv, ReadEof
    PROVE  Inv'
  <1> DEFINE after == /\ stage' = "cleanup" /\ batch' = <<>>
                      /\ UNCHANGED <<pending, todo, backend, closeAfter, result>>
  <1>1. UNCHANGED clientVars /\ stage = "read"
    BY DEF ReadEof
  <1>2. /\ batch \in Seq(SentMessages) /\ SentMessages' = SentMessages
        /\ SentUnits' = SentUnits /\ profile' = profile
    BY <1>1, ClientKept DEF Inv, HandlerFields
  <1>3. ASSUME PumpFields', SeenFields', after PROVE Inv'
    <2>1. ClientFields' /\ SocketInv'
      BY <1>1, ClientKept
    <2>2. HandlerFields'
      BY <1>2, <1>3 DEF Inv, HandlerFields
    <2>3. result = "running"
      BY <1>1 DEF Inv, StageInv, Reading
    <2>4. StageInv' /\ ReaderInv'
      BY <1>3, <2>3 DEF StageInv, ReaderInv, Reading, Served
    <2> QED BY <1>3, <2>1, <2>2, <2>4 DEF Inv
  <1>4. CASE after /\ UNCHANGED <<pumpVars, seenVars>>
    BY <1>2, <1>3, <1>4, PumpKept, SeenKept
  <1>5. CASE ReturnErr /\ UNCHANGED <<pumpVars, seenVars>>
    BY <1>1, <1>5, ErrKeeps
  <1>6. CASE FlushBuffered(batch) /\ WriteResponse(batch, after)
    <2>1. CASE answered' = answered \o Answers(batch) /\ after
      BY <1>1, <1>2, <1>3, <1>6, <2>1, BufferedKeeps
    <2>2. CASE answered' = answered /\ ReturnErr
      BY <1>1, <1>2, <1>6, <2>2, BrokenKeeps
    <2> QED BY <1>6, <2>1, <2>2 DEF WriteResponse
  <1>7. CASE /\ Started /\ FlushHandoff(batch)
             /\ stage' = "drain" /\ result' = "err"
             /\ todo' = <<>> /\ pending' = <<>> /\ batch' = <<>>
             /\ UNCHANGED <<backend, closeAfter>>
    <2>1. /\ todo' \in Seq(SentMessages) /\ pending' \in Seq(SentUnits) /\ Len(pending') <= 1
          /\ stage \in Reading /\ backend = "open" /\ result' \in {"running", "err"}
      BY <1>1, <1>7 DEF Reading, Started
    <2> QED BY <1>1, <1>2, <1>7, <2>1, HandoffKeeps
  <1>8. CASE FlushFails(batch)
    BY <1>1, <1>2, <1>8, FailedKeeps
  <1> QED BY <1>4, <1>5, <1>6, <1>7, <1>8 DEF FlushIfStarted, ReadEof

(* All messages of a read are handled: read again or clean up.             *)
LEMMA EndOfReadKeeps ==
    ASSUME Inv, EndOfRead
    PROVE  Inv'
  <1>1. /\ UNCHANGED clientVars /\ UNCHANGED <<pumpVars, seenVars>> /\ todo = <<>>
        /\ UNCHANGED <<pending, todo, batch, backend, closeAfter, result>>
        /\ stage = "handle" /\ stage' = IF closeAfter THEN "cleanup" ELSE "read"
    BY DEF EndOfRead
  <1>2. /\ ClientFields' /\ SocketInv' /\ PumpFields' /\ SeenFields'
        /\ SentMessages' = SentMessages /\ SentUnits' = SentUnits
        /\ Taken' = Taken /\ sent' = sent
    BY <1>1, ClientKept, PumpKept, SeenKept
  <1>3. HandlerFields'
    BY <1>1, <1>2 DEF Inv, HandlerFields, Reading
  <1>4. closeAfter \in BOOLEAN
    BY DEF Inv, HandlerFields
  <1>5. StageInv'
    <2>1. CASE stage' = "cleanup"
      BY <1>1, <2>1 DEF Inv, StageInv, Reading, Served
    <2>2. CASE stage' = "read" /\ closeAfter' = FALSE
      BY <1>1, <2>2 DEF Inv, StageInv, Reading, Served, pumpVars, seenVars
    <2>3. stage' = "cleanup" \/ (stage' = "read" /\ ~closeAfter)
      BY <1>1
    <2>4. ~closeAfter => closeAfter' = FALSE
      BY <1>1, <1>4
    <2> QED BY <2>1, <2>2, <2>3, <2>4
  <1>6. ReaderInv'
    BY <1>1, <1>2 DEF Inv, ReaderInv, Reader, Kind, Reading
  <1> QED BY <1>2, <1>3, <1>5, <1>6 DEF Inv

(* A startup packet, in each of its outcomes.                              *)
LEMMA StartupKeeps ==
    ASSUME Inv, HandleStartup
    PROVE  Inv'
  <1>1. /\ UNCHANGED clientVars /\ UNCHANGED <<pumpVars, seenVars>>
        /\ stage = "handle" /\ todo # <<>> /\ Kind(Head(todo)) = "Startup"
        /\ ReturnErr \/ OpenFails \/ StartupFails \/ StartupRefused \/ StartupProcessed
    BY DEF HandleStartup, Handling
  <1>2. /\ todo \in Seq(SentMessages) /\ batch \in Seq(SentMessages)
        /\ backend \in {"none", "open", "closed"} /\ closeAfter \in BOOLEAN /\ stage \in Reading
    BY <1>1 DEF Inv, HandlerFields, StageInv, Reading
  <1>3. /\ ClientFields' /\ SocketInv' /\ PumpFields' /\ SeenFields'
        /\ SentMessages' = SentMessages /\ SentUnits' = SentUnits
        /\ prefix' = prefix /\ hostInput' = hostInput /\ copying' = copying
        /\ entries' = entries /\ copyReady' = copyReady
    BY <1>1, ClientKept, PumpKept, SeenKept
  <1>4. CASE ReturnErr
    BY <1>1, <1>4, ErrKeeps
  <1>5. CASE StartupFails
    BY <1>3, <1>5, AbortKeeps DEF StartupFails
  <1>6. CASE OpenFails \/ StartupRefused
    <2>1. /\ todo' = <<>> /\ batch' = <<>> /\ stage' = stage /\ pending' = pending
          /\ result' = result /\ (backend' = backend \/ backend' = "closed")
      BY <1>6 DEF OpenFails, StartupRefused, BreakAndClose
    <2>2. closeAfter' = TRUE
      BY <1>6 DEF OpenFails, StartupRefused, BreakAndClose
    <2>3. /\ todo' \in Seq(SentMessages) /\ batch' \in Seq(SentMessages) /\ Len(todo') <= Len(todo)
          /\ Len(todo') = 0 /\ backend' \in {"none", "open", "closed"}
      BY <1>2, <2>1
    <2>4. ReaderInv'
      BY <1>1, <1>2, <2>1, <2>3, ReaderMoves
    <2> QED BY <1>1, <1>3, <2>1, <2>2, <2>3, <2>4, LoopKeeps
  <1>7. CASE StartupProcessed
    <2>1. /\ todo' = Tail(todo) /\ batch' = batch /\ stage' = stage /\ pending' = pending
          /\ result' = result /\ backend' \in {"open", "closed"}
      BY <1>7 DEF StartupProcessed
    <2>2. closeAfter' = TRUE \/ closeAfter' = FALSE
      <3>1. closeAfter' = TRUE \/ closeAfter' = closeAfter
        BY <1>7 DEF StartupProcessed
      <3> QED BY <1>2, <3>1
    <2>3. /\ todo' \in Seq(SentMessages) /\ Len(todo') < Len(todo) /\ Len(todo') <= Len(todo)
          /\ \A j \in 1 .. Len(todo') : todo'[j] = todo[Len(todo) - Len(todo') + j]
      BY <1>1, <1>2, <2>1, TailOf
    <2>4. ReaderInv'
      BY <1>1, <1>2, <2>1, <2>3, ReaderMoves
    <2> QED BY <1>1, <1>2, <1>3, <2>1, <2>2, <2>3, <2>4, LoopKeeps
  <1> QED BY <1>1, <1>4, <1>5, <1>6, <1>7

(* A protocol message: kept in the batch, flushed or handed off.           *)
LEMMA ProtocolKeeps ==
    ASSUME Inv, HandleProtocol
    PROVE  Inv'
  <1> DEFINE b == Append(batch, Head(todo))
  <1>1. /\ UNCHANGED clientVars /\ stage = "handle" /\ todo # <<>>
        /\ Kind(Head(todo)) \in BackendKinds /\ stage \in Reading
    BY DEF HandleProtocol, Handling, Reading
  <1>2. /\ todo \in Seq(SentMessages) /\ batch \in Seq(SentMessages)
        /\ backend \in {"none", "open", "closed"} /\ closeAfter \in BOOLEAN
        /\ pending \in Seq(SentUnits) /\ Len(pending) <= 1 /\ result = "running"
    BY <1>1 DEF Inv, HandlerFields, StageInv
  <1>3. /\ Tail(todo) \in Seq(SentMessages) /\ Len(Tail(todo)) < Len(todo)
        /\ Len(Tail(todo)) <= Len(todo)
        /\ \A j \in 1 .. Len(Tail(todo)) : Tail(todo)[j] = todo[Len(todo) - Len(Tail(todo)) + j]
        /\ Head(todo) \in SentMessages
    BY <1>1, <1>2, TailOf
  <1>4. b \in Seq(SentMessages)
    BY <1>2, <1>3
  <1>5. /\ ClientFields' /\ SocketInv' /\ SentMessages' = SentMessages
        /\ SentUnits' = SentUnits /\ profile' = profile
    BY <1>1, ClientKept
  <1>6. CASE /\ todo' = Tail(todo) /\ batch' = b
             /\ UNCHANGED <<stage, pending, backend, closeAfter, result, pumpVars, seenVars>>
    <2>1. /\ PumpFields' /\ SeenFields'
          /\ prefix' = prefix /\ hostInput' = hostInput /\ copying' = copying
          /\ entries' = entries /\ copyReady' = copyReady
      BY <1>5, <1>6, PumpKept, SeenKept
    <2>2. closeAfter' = TRUE \/ closeAfter' = FALSE
      BY <1>2, <1>6
    <2>3. ReaderInv'
      <3>1. \/ batch' = <<>>
            \/ batch' = batch
            \/ /\ batch' = Append(batch, Head(todo)) /\ Kind(Head(todo)) \in BackendKinds
               /\ Len(todo') < Len(todo)
        BY <1>1, <1>3, <1>6
      <3>2. backend' # "open" \/ backend = "open"
        BY <1>6
      <3> HIDE DEF b
      <3> QED BY <1>1, <1>3, <1>6, <3>1, <3>2, ReaderMoves
    <2> HIDE DEF b
    <2> QED BY <1>1, <1>2, <1>3, <1>4, <1>6, <2>1, <2>2, <2>3, LoopKeeps
  <1>7. CASE ReturnErr /\ UNCHANGED <<pumpVars, seenVars>>
    BY <1>1, <1>7, ErrKeeps
  <1>8. CASE FlushBuffered(b) /\ WriteResponse(b, Handled(FALSE))
    <2>0. FALSE \in BOOLEAN
      OBVIOUS
    <2>1. CASE answered' = answered \o Answers(b) /\ Handled(FALSE)
      <3> HIDE DEF b
      <3> QED BY <1>1, <1>4, <1>8, <2>0, <2>1, BufferedKeeps, HandledKeeps
    <2>2. CASE answered' = answered /\ ReturnErr
      <3> HIDE DEF b
      <3> QED BY <1>1, <1>4, <1>8, <2>2, BrokenKeeps
    <2> QED BY <1>8, <2>1, <2>2 DEF WriteResponse
  <1>9. CASE /\ Started /\ FlushHandoff(b)
             /\ todo' = Tail(todo) /\ batch' = <<>> /\ stage' = "drain"
             /\ UNCHANGED <<pending, backend, closeAfter, result>>
    <2>1. backend = "open" /\ result' \in {"running", "err"}
      BY <1>2, <1>9 DEF Started
    <2> HIDE DEF b
    <2> QED BY <1>1, <1>2, <1>3, <1>4, <1>9, <2>1, HandoffKeeps
  <1>10. CASE FlushFails(b)
    <2> HIDE DEF b
    <2> QED BY <1>1, <1>4, <1>10, FailedKeeps
  <1> QED BY <1>6, <1>7, <1>8, <1>9, <1>10 DEF HandleProtocol

(* One unit goes from the prefix or the socket to the backend.             *)
StreamOf(u) ==
    /\ u \in SentUnits /\ delivered' = Append(delivered, u)
    /\ \/ prefix # <<>> /\ u = Head(prefix) /\ prefix' = Tail(prefix) /\ socket' = socket
       \/ prefix = <<>> /\ prefix' = prefix /\ socket # <<>> /\ u = Head(socket)
          /\ socket' = Tail(socket) /\ Len(socket) > lost

(* The backend reads the prefix before the socket.                         *)
LEMMA StreamEffect ==
    ASSUME Inv, StreamRead
    PROVE  StreamOf(Head(prefix \o socket))
  <1>1. prefix \in Seq(SentUnits) /\ socket \in Seq(SentUnits) /\ lost \in Nat
    BY DEF Inv, PumpFields, ClientFields
  <1>2. /\ prefix # <<>> \/ Len(socket) > lost
        /\ delivered' = Append(delivered, Head(prefix \o socket))
    BY DEF StreamRead, ReadReady
  <1>3. CASE prefix # <<>>
    <2>1. Head(prefix \o socket) = Head(prefix) /\ Head(prefix) \in SentUnits
      BY <1>1, <1>3
    <2> QED BY <1>2, <1>3, <2>1 DEF StreamRead, StreamOf
  <1>4. CASE prefix = <<>>
    <2>1. prefix \o socket = socket
      BY <1>1, <1>4
    <2>2. socket # <<>> /\ Head(socket) \in SentUnits /\ Len(socket) > lost
      BY <1>1, <1>2, <1>4
    <2> QED BY <1>2, <1>4, <2>1, <2>2 DEF StreamRead, StreamOf
  <1> QED BY <1>3, <1>4

(* StreamRead: one unit reaches the backend.                               *)
LEMMA StreamReadKeeps ==
    ASSUME Inv, StreamRead
    PROVE  Inv'
  <1>1. PICK u \in SentUnits : u = Head(prefix \o socket) /\ StreamOf(u)
    BY StreamEffect DEF StreamOf
  <1>2. /\ UNCHANGED <<profile, sent, lost, client, pending, todo, batch, backend,
                       closeAfter, result, hostInput>>
        /\ stage \in {"drain", "stream"} /\ (Dispatching => entries > 1)
        /\ entries' = IF Dispatching /\ Last(u) THEN entries - 1 ELSE entries
        /\ \/ ~Last(u) /\ UNCHANGED <<stage, copying, answered, copyReady>>
           \/ StreamMessage(MessageOf(u)) /\ UNCHANGED stage
           \/ stage' = "closing" /\ UNCHANGED <<copying, answered, copyReady>>
    BY <1>1 DEF StreamRead, Streaming
  <1>3. SentMessages' = SentMessages /\ SentUnits' = SentUnits
    BY <1>2 DEF SentMessages, SentUnits
  <1>4. /\ socket \in Seq(SentUnits) /\ Len(sent) \in Nat /\ prefix \in Seq(SentUnits)
        /\ Len(socket) <= 2 * Len(sent) /\ delivered \in Seq(SentUnits)
        /\ \A j \in 1 .. Len(socket) : socket[j] = Taken + j
        /\ profile.extra \in Nat /\ entries \in 0 .. (profile.extra + 1)
        /\ copyReady \in Nat /\ answered \in Seq(SentMessages) /\ lost \in Nat
    BY ProfileSizes DEF Inv, ClientFields, SocketInv, PumpFields, SeenFields
  <1>5. ClientFields' /\ SocketInv' /\ prefix' \in Seq(SentUnits)
    <2>1. CASE prefix # <<>> /\ prefix' = Tail(prefix) /\ socket' = socket
      <3>1. Taken' = Taken
        BY <1>2, <2>1 DEF Taken
      <3> QED BY <1>2, <1>3, <1>4, <2>1, <3>1, TailOf DEF Inv, ClientFields, SocketInv
    <2>2. CASE socket # <<>> /\ socket' = Tail(socket) /\ prefix' = prefix
               /\ Len(socket) > lost
      <3>1. /\ socket' \in Seq(SentUnits) /\ Len(socket') = Len(socket) - 1 /\ Len(socket) \in Nat
            /\ \A j \in 1 .. Len(socket') : socket'[j] = socket[j + 1] /\ j + 1 \in 1 .. Len(socket)
        BY <1>4, <2>2
      <3>2. Taken' = Taken + 1 /\ Taken \in Int
        BY <1>2, <1>4, <3>1 DEF Taken
      <3>3. \A j \in 1 .. Len(socket') : socket'[j] = Taken + 1 + j
        BY <1>4, <3>1, <3>2
      <3>4. SocketInv'
        BY <1>2, <1>4, <3>1, <3>2, <3>3 DEF SocketInv
      <3>5. lost <= Len(socket')
        BY <1>4, <2>2, <3>1
      <3> QED BY <1>2, <1>3, <1>4, <2>2, <3>1, <3>4, <3>5 DEF Inv, ClientFields
    <2> QED BY <1>1, <2>1, <2>2 DEF StreamOf
  <1>6. HandlerFields'
    BY <1>2, <1>3 DEF Inv, HandlerFields, Served
  <1>7. copying \in BOOLEAN /\ (stage = "drain" /\ entries = 0 => copying = FALSE)
    BY DEF Inv, PumpFields, StageInv
  <1>8. copying' \in BOOLEAN
    <2>1. \/ copying' = copying
          \/ copying' = (Kind(MessageOf(u)) \in CopyTolerates)
          \/ copying' = (Kind(MessageOf(u)) \in CopyInKinds)
      BY <1>2, Zenon DEF StreamMessage
    <2>2. copying' = copying => copying' \in BOOLEAN
      BY <1>7
    <2>3. copying' = (Kind(MessageOf(u)) \in CopyTolerates) => copying' \in BOOLEAN
      OBVIOUS
    <2>4. copying' = (Kind(MessageOf(u)) \in CopyInKinds) => copying' \in BOOLEAN
      OBVIOUS
    <2> QED BY <2>1, <2>2, <2>3, <2>4
  <1>9. entries' \in 0 .. (profile.extra + 1) /\ (stage = "drain" => entries' # 0)
    <2>1. CASE Dispatching /\ Last(u)
      BY <1>2, <1>4, <2>1
    <2>2. CASE ~(Dispatching /\ Last(u))
      <3>1. entries' = entries
        BY <1>2, <2>2
      <3>2. stage = "drain" /\ entries = 0 => Dispatching
        BY <1>7 DEF Dispatching
      <3> QED BY <1>2, <1>4, <3>1, <3>2
    <2> QED BY <2>1, <2>2
  <1>10. PumpFields'
    BY <1>2, <1>3, <1>5, <1>8, <1>9 DEF Inv, PumpFields
  <1>11. MessageOf(u) \in SentMessages
    BY <1>4, MessageSent DEF SentUnits, SentMessages
  <1>12. SeenFields'
    <2>1. answered' \in Seq(SentMessages)
      <3>1. answered' = answered \/ answered' = Append(answered, MessageOf(u))
        BY <1>2 DEF StreamMessage
      <3>2. Append(answered, MessageOf(u)) \in Seq(SentMessages)
        BY <1>4, <1>11
      <3> QED BY <1>4, <3>1, <3>2
    <2>2. copyReady' \in Nat
      <3>1. copyReady' = copyReady \/ copyReady' = copyReady + 1
        BY <1>2 DEF StreamMessage
      <3> QED BY <1>4, <3>1
    <2>3. delivered' \in Seq(SentUnits)
      BY <1>1, <1>4, SMTT(20) DEF StreamOf
    <2> QED BY <1>3, <2>1, <2>2, <2>3 DEF SeenFields
  <1>13. StageInv'
    <2>1. delivered' # <<>>
      BY <1>1, <1>4 DEF StreamOf
    <2>2. stage = "drain" => prefix' = <<>>
      BY <1>1 DEF Inv, StageInv, StreamOf
    <2>3. stage' = stage \/ stage' = "closing"
      BY <1>2
    <2>4. backend = "open" /\ batch = <<>> /\ result \in {"running", "err"}
      BY <1>2 DEF Inv, StageInv, Served
    <2>5. stage = "stream" => todo = <<>> /\ pending = <<>> /\ hostInput = <<>>
      BY DEF Inv, StageInv
    <2> QED BY <1>2, <1>9, <2>1, <2>2, <2>3, <2>4, <2>5 DEF StageInv, Reading, Served
  <1>14. ReaderInv'
    BY <1>2 DEF ReaderInv, Reading
  <1> QED BY <1>5, <1>6, <1>10, <1>12, <1>13, <1>14 DEF Inv

(* StreamEof: the COPY or the stream ends, and no buffer changes.          *)
LEMMA StreamEofKeeps ==
    ASSUME Inv, StreamEof
    PROVE  Inv'
  <1>1. /\ UNCHANGED clientVars /\ UNCHANGED seenVars
        /\ UNCHANGED <<pending, todo, batch, backend, closeAfter, result, prefix,
                       hostInput, entries>>
        /\ stage \in {"drain", "stream"}
        /\ \/ copying' = FALSE /\ stage' = stage
           \/ copying' = copying /\ stage = "stream" /\ stage' = "closing"
    BY DEF StreamEof, Streaming
  <1>2. /\ ClientFields' /\ SocketInv' /\ SeenFields'
        /\ SentMessages' = SentMessages /\ SentUnits' = SentUnits
        /\ delivered' = delivered /\ copyReady' = copyReady /\ profile' = profile
    BY <1>1, ClientKept, SeenKept
  <1>3. copying' \in BOOLEAN
    BY <1>1 DEF Inv, PumpFields
  <1>4. PumpFields'
    BY <1>1, <1>2, <1>3 DEF Inv, PumpFields
  <1>5. HandlerFields'
    BY <1>1, <1>2 DEF Inv, HandlerFields, Served
  <1>6. StageInv'
    <2>1. CASE copying' = FALSE /\ stage' = stage
      BY <1>1, <1>2, <2>1 DEF Inv, StageInv, Reading, Served
    <2>2. CASE stage = "stream" /\ stage' = "closing"
      BY <1>1, <1>2, <2>2 DEF Inv, StageInv, Reading, Served
    <2> QED BY <1>1, <2>1, <2>2
  <1>7. ReaderInv'
    BY <1>1 DEF ReaderInv, Reading
  <1> QED BY <1>2, <1>4, <1>5, <1>6, <1>7 DEF Inv

(* DrainReturns: what was read behind the COPY becomes the prefix.         *)
LEMMA DrainReturnsKeeps ==
    ASSUME Inv, DrainReturns
    PROVE  Inv'
  <1>1. /\ UNCHANGED clientVars /\ UNCHANGED seenVars /\ stage = "drain" /\ stage' = "stream"
        /\ prefix' = UnitsOf(todo) \o pending /\ todo' = <<>> /\ pending' = <<>>
        /\ UNCHANGED <<batch, backend, closeAfter, result, hostInput, entries, copying>>
        /\ hostInput = <<>>
    BY DEF DrainReturns, Dispatching, ContinuationPrefix, InputRemaining
  <1>2. /\ ClientFields' /\ SocketInv' /\ SeenFields'
        /\ SentMessages' = SentMessages /\ SentUnits' = SentUnits /\ profile' = profile
    BY <1>1, ClientKept, SeenKept
  <1>3. todo \in Seq(SentMessages) /\ pending \in Seq(SentUnits) /\ Len(sent) \in Nat
    BY ProfileSizes DEF Inv, HandlerFields
  <1>4. UnitsOf(todo) \in Seq(SentUnits)
    BY <1>3, UnitsOfSeq DEF SentMessages, SentUnits
  <1>5. prefix' \in Seq(SentUnits)
    BY <1>1, <1>3, <1>4
  <1>6. PumpFields'
    BY <1>1, <1>2, <1>5 DEF Inv, PumpFields
  <1>7. HandlerFields'
    BY <1>1, <1>2 DEF Inv, HandlerFields, Served
  <1>8. StageInv'
    BY <1>1 DEF Inv, StageInv, Reading, Served
  <1>9. ReaderInv'
    BY <1>1 DEF ReaderInv, Reading
  <1> QED BY <1>2, <1>6, <1>7, <1>8, <1>9 DEF Inv

(* StreamEnds: handle_stream returns.                                      *)
LEMMA StreamEndsKeeps ==
    ASSUME Inv, StreamEnds
    PROVE  Inv'
  <1>1. /\ UNCHANGED clientVars /\ UNCHANGED <<pumpVars, seenVars>> /\ stage' = "done"
        /\ UNCHANGED <<pending, todo, batch, closeAfter>>
        /\ result' \in {"ok", "err"} /\ backend' \in {"dropped", "closed"}
    BY DEF StreamEnds
  <1>2. /\ ClientFields' /\ SocketInv' /\ PumpFields' /\ SeenFields'
        /\ SentMessages' = SentMessages /\ SentUnits' = SentUnits
    BY <1>1, ClientKept, PumpKept, SeenKept
  <1>3. HandlerFields'
    BY <1>1, <1>2 DEF Inv, HandlerFields
  <1>4. StageInv' /\ ReaderInv'
    BY <1>1 DEF StageInv, ReaderInv, Reading, Served
  <1> QED BY <1>2, <1>3, <1>4 DEF Inv

(* A stuttering step.                                                      *)
LEMMA StutterKeeps ==
    ASSUME Inv, UNCHANGED vars
    PROVE  Inv'
  <1>1. /\ UNCHANGED clientVars /\ UNCHANGED handlerVars /\ UNCHANGED pumpVars
        /\ UNCHANGED seenVars
    BY DEF vars
  <1>2. /\ ClientFields' /\ SocketInv' /\ PumpFields' /\ SeenFields'
        /\ SentMessages' = SentMessages /\ SentUnits' = SentUnits
        /\ Taken' = Taken /\ sent' = sent
    BY <1>1, ClientKept, PumpKept, SeenKept
  <1>3. HandlerFields'
    BY <1>1, <1>2 DEF Inv, HandlerFields, handlerVars
  <1>4. StageInv'
    BY <1>1 DEF Inv, StageInv, handlerVars, pumpVars, seenVars
  <1>5. ReaderInv'
    BY <1>1, <1>2 DEF Inv, ReaderInv, Reader, Kind, handlerVars
  <1> QED BY <1>2, <1>3, <1>4, <1>5 DEF Inv

(* Every step keeps the buffers in order.                                  *)
LEMMA NextInv == Inv /\ [Next]_vars => Inv'
  <1> SUFFICES ASSUME Inv, [Next]_vars PROVE Inv'
    OBVIOUS
  <1>1. CASE ReadFails
    BY <1>1, ErrKeeps DEF ReadFails
  <1>2. CASE HandleBadCode
    BY <1>2, ErrKeeps DEF HandleBadCode
  <1>3. CASE DrainGivesUp
    BY <1>3, ErrKeeps DEF DrainGivesUp
  <1>4. CASE Finished \/ UNCHANGED vars
    BY <1>4, StutterKeeps DEF Finished
  <1>5. CASE StreamFails
    BY <1>5, ClientKept, PumpKept, SeenKept, AbortKeeps DEF StreamFails
  <1> QED
    BY <1>1, <1>2, <1>3, <1>4, <1>5, SendKeeps, CloseKeeps, ReadKeeps, EofKeeps, EndOfReadKeeps,
       CleanupKeeps, SslKeeps, ClosingKeeps, StartupKeeps, ProtocolKeeps, StreamReadKeeps,
       StreamEofKeeps, DrainReturnsKeeps, StreamEndsKeeps
    DEF Next, Handler

(* The invariant holds in every state of a connection.                     *)
LEMMA Invariance == Spec => []Inv
  <1> QED BY InitInv, NextInv, PTL DEF Spec

-----------------------------------------------------------------------------
(* Why handle_stream fails.                                                *)

(* The causes that nothing takes back while the backend is on the socket:  *)
(* handle_stream will return an error, whatever the stream still brings.   *)
StandingCause ==
    \/ ClientGone
    \/ \E i, j \in DOMAIN sent :
        i < j /\ sent[i] \in CopyKinds /\ sent[j] \in {"Ssl", "Cancel", "Terminate"}

ErrInv == ErrHasCause /\ (result = "err" /\ stage # "done" => StandingCause)

(* Of the messages read, the batch is before the next to handle, and so is *)
(* the startup packet of an open backend.                                  *)
LEMMA NextInLine ==
    ASSUME Inv, stage \in Reading, todo # <<>>
    PROVE  /\ Head(todo) \in DOMAIN sent
           /\ \A j \in 1 .. Len(batch) : batch[j] \in DOMAIN sent /\ batch[j] < Head(todo)
           /\ backend = "open" => \E i \in DOMAIN sent : i < Head(todo) /\ sent[i] = "Startup"
  <1>1. PICK r \in Nat : Reader(r)
    BY DEF Inv, ReaderInv
  <1>2. /\ todo \in Seq(SentMessages) /\ batch \in Seq(SentMessages)
        /\ sent \in Seq(AllKinds) /\ DOMAIN sent = 1 .. Len(sent) /\ Len(sent) \in Nat
    BY DEF Inv, HandlerFields, ClientFields
  <1>3. /\ Head(todo) = todo[1] /\ todo[1] \in SentMessages /\ 1 \in 1 .. Len(todo)
        /\ Len(todo) \in Nat
    BY <1>2, TailOf
  <1>4. Len(todo) <= r /\ Head(todo) = r - Len(todo) + 1 /\ Head(todo) \in 1 .. Len(sent)
    BY <1>1, <1>3 DEF Reader, SentMessages
  <1>5. ASSUME NEW j \in 1 .. Len(batch) PROVE batch[j] \in DOMAIN sent /\ batch[j] < Head(todo)
    <2>1. batch[j] \in 1 .. Len(sent)
      BY <1>2 DEF SentMessages
    <2>2. batch[j] <= r - Len(todo)
      BY <1>1 DEF Reader
    <2> QED BY <1>2, <1>3, <1>4, <2>1, <2>2
  <1>6. ASSUME backend = "open"
        PROVE  \E i \in DOMAIN sent : i < Head(todo) /\ sent[i] = "Startup"
    <2>1. PICK i \in 1 .. (r - Len(todo)) : sent[i] = "Startup"
      BY <1>1, <1>6 DEF Reader
    <2>2. i \in DOMAIN sent /\ i < Head(todo)
      BY <1>2, <1>3, <1>4
    <2> QED BY <2>1, <2>2
  <1> QED BY <1>2, <1>4, <1>5, <1>6

(* A batch that is not empty has a backend message.                        *)
LEMMA BatchSent ==
    ASSUME Inv, stage \in Reading, batch # <<>>
    PROVE  \E i \in DOMAIN sent : sent[i] \in BackendKinds
  <1>1. PICK r \in Nat : Reader(r)
    BY DEF Inv, ReaderInv
  <1>2. batch \in Seq(SentMessages) /\ DOMAIN sent = SentMessages
    BY DEF Inv, HandlerFields, ClientFields, SentMessages
  <1>3. 1 \in 1 .. Len(batch) /\ batch[1] \in SentMessages
    BY <1>2
  <1>4. Kind(batch[1]) \in BackendKinds
    BY <1>1, <1>3 DEF Reader
  <1> QED BY <1>2, <1>3, <1>4 DEF Kind

(* An error of a step that keeps a standing cause.                         *)
LEMMA StandingErr ==
    ASSUME StandingCause' PROVE ErrInv'
  BY DEF ErrInv, ErrHasCause, StandingCause

(* A step that does not fail needs no cause.                               *)
LEMMA NoErr ==
    ASSUME result' # "err" PROVE ErrInv'
  BY DEF ErrInv, ErrHasCause

(* A call into the backend failed.                                         *)
LEMMA FailedErr ==
    ASSUME Abort("failed") PROVE ErrInv'
  BY DEF Abort, ErrInv, ErrHasCause

(* A batch that nobody can take.                                           *)
LEMMA UnstartedErr ==
    ASSUME Inv, UNCHANGED clientVars, stage \in Reading, ~Started, ReturnErr,
           \E i \in DOMAIN sent : sent[i] \in BackendKinds
    PROVE  ErrInv'
  <1>1. backend' \in {"none", "closed"} /\ stage' = "done"
    BY DEF Inv, StageInv, Started, ReturnErr, Abort
  <1>2. sent' = sent
    BY DEF clientVars
  <1> QED BY <1>1, <1>2 DEF ErrInv, ErrHasCause

(* A control packet behind a COPY in the same batch.                       *)
LEMMA ControlErr ==
    ASSUME Inv, UNCHANGED clientVars, stage = "handle", todo # <<>>,
           Kind(Head(todo)) \in {"Ssl", "Cancel", "Terminate"},
           NEW close \in BOOLEAN, FlushIfStarted(Handled(close))
    PROVE  ErrInv'
  <1>1. stage \in Reading /\ result = "running"
    BY DEF Inv, StageInv, Reading
  <1>2. sent' = sent /\ client' = client
    BY DEF clientVars
  <1>3. CASE Handled(close)
    BY <1>1, <1>3, NoErr DEF Handled
  <1>4. CASE batch # <<>> /\ ~Started /\ ReturnErr
    BY <1>1, <1>4, BatchSent, UnstartedErr
  <1>5. CASE ClientGone
    BY <1>2, <1>5, StandingErr DEF StandingCause, ClientGone
  <1>6. CASE FlushHandoff(batch)
    <2>1. PICK j \in DOMAIN batch : Kind(batch[j]) \in CopyKinds
      BY <1>6 DEF FlushHandoff, Has
    <2>2. j \in 1 .. Len(batch)
      BY DEF Inv, HandlerFields
    <2>3. /\ batch[j] \in DOMAIN sent /\ batch[j] < Head(todo) /\ Head(todo) \in DOMAIN sent
      BY <1>1, <2>2, NextInLine
    <2>4. StandingCause'
      BY <1>2, <2>1, <2>3 DEF StandingCause, Kind
    <2> QED BY <2>4, StandingErr
  <1>7. CASE FlushFails(batch)
    BY <1>7, FailedErr DEF FlushFails
  <1> QED BY <1>3, <1>4, <1>5, <1>6, <1>7 DEF FlushIfStarted, WriteResponse

(* HandleStartup fails on a repeated startup packet or for the backend's   *)
(* own error.                                                              *)
LEMMA StartupErr ==
    ASSUME Inv, HandleStartup
    PROVE  ErrInv'
  <1>1. /\ UNCHANGED clientVars /\ stage = "handle" /\ todo # <<>>
        /\ Kind(Head(todo)) = "Startup" /\ stage \in Reading /\ result = "running"
    BY DEF HandleStartup, Handling, Inv, StageInv, Reading
  <1>2. sent' = sent /\ sent \in Seq(AllKinds)
    BY <1>1 DEF clientVars, Inv, ClientFields
  <1>3. CASE Started /\ ReturnErr
    <2>1. PICK i \in DOMAIN sent : i < Head(todo) /\ sent[i] = "Startup"
      BY <1>1, <1>3, NextInLine DEF Started
    <2>2. Head(todo) \in DOMAIN sent /\ sent[Head(todo)] = "Startup"
      BY <1>1, NextInLine DEF Kind
    <2> DEFINE ups == {h \in DOMAIN sent : sent[h] = "Startup"}
    <2>3. i \in ups /\ Head(todo) \in ups /\ i # Head(todo)
      <3>1. i \in Nat /\ Head(todo) \in Nat
        BY <1>2, <2>2
      <3> QED BY <2>1, <2>2, <3>1
    <2>4. IsFiniteSet(ups)
      <3>1. IsFiniteSet(1 .. Len(sent)) /\ ups \subseteq 1 .. Len(sent)
        BY <1>2, FS_Interval
      <3> QED BY <3>1, FS_Subset
    <2> HIDE DEF ups
    <2>5. Cardinality(ups) > 1
      <3>1. Cardinality({i}) = 1 /\ IsFiniteSet({i}) /\ Head(todo) \notin {i}
        BY <2>3, FS_Singleton
      <3>2. Cardinality({i} \cup {Head(todo)}) = Cardinality({i}) + 1
        BY <3>1, FS_AddElement
      <3>3. {i} \cup {Head(todo)} \subseteq ups
        BY <2>3
      <3>4. Cardinality({i} \cup {Head(todo)}) <= Cardinality(ups) /\ Cardinality(ups) \in Nat
        BY <2>4, <3>3, FS_Subset, FS_CardinalityType
      <3> QED BY <3>1, <3>2, <3>4
    <2>6. Cardinality({h \in DOMAIN sent' : sent'[h] = "Startup"}) > 1
      BY <1>2, <2>5 DEF ups
    <2>7. stage' = "done"
      BY <1>3 DEF ReturnErr, Abort
    <2> QED BY <2>6, <2>7 DEF ErrInv, ErrHasCause
  <1>4. CASE ~Started /\ batch # <<>> /\ ReturnErr
    BY <1>1, <1>4, BatchSent, UnstartedErr
  <1>5. CASE StartupFails
    BY <1>5 DEF StartupFails, Abort, ErrInv, ErrHasCause
  <1>6. CASE OpenFails \/ StartupRefused \/ StartupProcessed
    <2>1. result' = result
      BY <1>6 DEF OpenFails, StartupRefused, StartupProcessed, BreakAndClose
    <2> QED BY <1>1, <2>1, NoErr
  <1> QED BY <1>3, <1>4, <1>5, <1>6 DEF HandleStartup

(* HandleProtocol fails without a session, or for the backend's own error. *)
LEMMA ProtocolErr ==
    ASSUME Inv, HandleProtocol
    PROVE  ErrInv'
  <1>1. /\ UNCHANGED clientVars /\ stage = "handle" /\ todo # <<>>
        /\ Kind(Head(todo)) \in BackendKinds /\ stage \in Reading /\ result = "running"
    BY DEF HandleProtocol, Handling, Inv, StageInv, Reading
  <1>2. sent' = sent /\ client' = client
    BY <1>1 DEF clientVars
  <1>3. CASE result' = result
    BY <1>1, <1>3, NoErr
  <1>4. CASE ~Started /\ ReturnErr
    BY <1>1, <1>4, NextInLine, UnstartedErr DEF Kind
  <1>5. CASE ClientGone
    BY <1>2, <1>5, StandingErr DEF StandingCause, ClientGone
  <1>6. CASE FlushFails(Append(batch, Head(todo)))
    BY <1>6, FailedErr DEF FlushFails
  <1> QED BY <1>3, <1>4, <1>5, <1>6 DEF HandleProtocol, WriteResponse, Handled

(* Read fails on a bad length or a malformed packet that was sent.         *)
LEMMA ReadErr ==
    ASSUME Inv, Read
    PROVE  ErrInv'
  <1>1. PICK n \in 1 .. Len(socket), r \in Nat, buf \in Seq(SentUnits) : ReadOf(n, r, buf)
    BY ReadEffect
  <1>2. sent' = sent /\ result = "running" /\ Len(sent) \in Nat /\ DOMAIN sent = 1 .. Len(sent)
    BY DEF Read, Inv, StageInv, Reading, ClientFields
  <1>3. CASE result' = result
    BY <1>2, <1>3, NoErr
  <1>4. CASE /\ BadLength(buf[Len(buf)]) \/ Has(CompleteMessages(buf), {"Malformed"})
             /\ ReturnErr
    <2>1. \E i \in DOMAIN sent : sent[i] = "Malformed"
      <3>1. CASE BadLength(buf[Len(buf)])
        <4>1. Len(buf) > 0
          BY <1>1 DEF ReadOf, Inv, HandlerFields
        <4>2. buf[Len(buf)] \in SentUnits
          BY <4>1
        <4>3. MessageOf(buf[Len(buf)]) \in DOMAIN sent
          BY <1>2, <4>2, MessageSent DEF SentUnits
        <4> QED BY <3>1, <4>3 DEF BadLength, Kind
      <3>2. CASE Has(CompleteMessages(buf), {"Malformed"})
        <4>1. CompleteMessages(buf) \in Seq(1 .. Len(sent))
          <5>1. buf \in Seq(1 .. (2 * Len(sent))) /\ \A k \in 1 .. Len(buf) : buf[k] = 2 * r + k
            BY <1>1 DEF ReadOf, SentUnits
          <5> QED BY <1>2, <5>1, CutMessages
        <4>2. PICK j \in DOMAIN CompleteMessages(buf) : Kind(CompleteMessages(buf)[j]) = "Malformed"
          BY <3>2 DEF Has
        <4>3. CompleteMessages(buf)[j] \in DOMAIN sent
          BY <1>2, <4>1
        <4> QED BY <4>2, <4>3 DEF Kind
      <3> QED BY <1>4, <3>1, <3>2
    <2>2. PICK i \in DOMAIN sent : sent[i] = "Malformed"
      BY <2>1
    <2>3. Has([h \in DOMAIN sent |-> h], {"Malformed", "BadCode"})'
      BY <1>2, <2>2 DEF Has, Kind
    <2>4. stage' = "done"
      BY <1>4 DEF ReturnErr, Abort
    <2> QED BY <2>3, <2>4 DEF ErrInv, ErrHasCause
  <1> QED BY <1>1, <1>3, <1>4 DEF ReadOf

(* The remaining ways to fail, and the steps that find an error pending.   *)
LEMMA NextErr == Inv /\ ErrInv /\ [Next]_vars => ErrInv'
  <1> SUFFICES ASSUME Inv, ErrInv, [Next]_vars PROVE ErrInv'
    OBVIOUS
  <1>1. CASE ReadFails
    <2>1. client' = "reset"
      BY <1>1 DEF ReadFails, clientVars
    <2> QED BY <2>1, StandingErr DEF StandingCause, ClientGone
  <1>2. CASE ReadEof
    <2>1. client' = "closed"
      BY <1>2 DEF ReadEof, clientVars
    <2> QED BY <2>1, StandingErr DEF StandingCause, ClientGone
  <1>3. CASE HandleSsl \/ HandleClosing
    <2>1. /\ UNCHANGED clientVars /\ stage = "handle" /\ todo # <<>>
          /\ Kind(Head(todo)) \in {"Ssl", "Cancel", "Terminate"}
          /\ FlushIfStarted(Handled(FALSE)) \/ FlushIfStarted(Handled(TRUE))
      BY <1>3 DEF HandleSsl, HandleClosing, Handling
    <2> QED BY <2>1, ControlErr
  <1>4. CASE HandleBadCode
    <2>1. /\ stage \in Reading /\ todo # <<>> /\ Kind(Head(todo)) = "BadCode"
          /\ sent' = sent /\ stage' = "done"
      BY <1>4 DEF HandleBadCode, Handling, Reading, clientVars, ReturnErr, Abort
    <2>2. Head(todo) \in DOMAIN sent
      BY <2>1, NextInLine
    <2>3. Has([h \in DOMAIN sent |-> h], {"Malformed", "BadCode"})'
      BY <2>1, <2>2 DEF Has, Kind
    <2> QED BY <2>1, <2>3 DEF ErrInv, ErrHasCause
  <1>5. CASE DrainGivesUp
    <2>1. hostInput' # <<>> \/ entries' = 1
      BY <1>5 DEF DrainGivesUp, pumpVars
    <2>2. stage' = "done"
      BY <1>5 DEF DrainGivesUp, ReturnErr, Abort
    <2> QED BY <2>1, <2>2 DEF ErrInv, ErrHasCause
  <1>6. CASE EndOfRead \/ Cleanup
    <2>1. result' = "ok" \/ result' = "running"
      BY <1>6 DEF EndOfRead, Cleanup, Inv, StageInv, Reading
    <2> QED BY <2>1, NoErr
  <1>7. CASE StreamRead \/ StreamEof \/ DrainReturns \/ StreamEnds
    <2>1. CASE result = "err"
      <3>1. stage # "done" /\ sent' = sent /\ client' = client
        BY <1>7 DEF StreamRead, StreamEof, DrainReturns, StreamEnds, Dispatching, Streaming,
           clientVars
      <3>2. StandingCause
        BY <2>1, <3>1 DEF ErrInv
      <3>3. StandingCause'
        BY <3>1, <3>2 DEF StandingCause, ClientGone
      <3> QED BY <3>3, StandingErr
    <2>2. CASE result # "err"
      <3>1. result' = result \/ result' = "ok"
        BY <1>7, <2>2 DEF StreamRead, StreamEof, DrainReturns, StreamEnds
      <3> QED BY <2>2, <3>1, NoErr
    <2> QED BY <2>1, <2>2
  <1>8. CASE ClientSend
    <2>1. result' = result /\ client' = client /\ stage # "done"
      BY <1>8 DEF ClientSend, handlerVars
    <2>2. CASE result = "err"
      <3>1. StandingCause
        BY <2>1, <2>2 DEF ErrInv
      <3>2. /\ sent \in Seq(AllKinds) /\ sent' \in Seq(AllKinds) /\ Len(sent') = Len(sent) + 1
            /\ \A i \in 1 .. Len(sent) : sent'[i] = sent[i]
        BY <1>8, SendEffect DEF Inv, ClientFields
      <3>3. \A i \in DOMAIN sent : i \in DOMAIN sent' /\ sent'[i] = sent[i]
        BY <3>2
      <3>4. StandingCause'
        BY <2>1, <3>1, <3>3 DEF StandingCause, ClientGone
      <3> QED BY <3>4, StandingErr
    <2> QED BY <2>1, <2>2, NoErr
  <1>9. CASE ClientClose
    <2>1. client' # "here"
      BY <1>9 DEF ClientClose
    <2> QED BY <2>1, StandingErr DEF StandingCause, ClientGone
  <1>10. CASE Finished \/ UNCHANGED vars
    <2>1. UNCHANGED vars
      BY <1>10 DEF Finished
    <2> QED
      BY <2>1 DEF ErrInv, ErrHasCause, StandingCause, ClientGone, Has, Kind, vars, clientVars,
                  handlerVars, pumpVars
  <1>11. CASE StreamFails
    BY <1>11, FailedErr DEF StreamFails
  <1> QED BY <1>1, <1>2, <1>3, <1>4, <1>5, <1>6, <1>7, <1>8, <1>9, <1>10, <1>11, ReadErr,
             StartupErr, ProtocolErr
          DEF Next, Handler

(* handle_stream, whose error ends the thread that serves every later      *)
(* client, fails only if the client has left, the backend did not start or *)
(* a call into it failed, the client spoke to no backend, sent a malformed *)
(* message or a second startup packet, put more behind a COPY than the     *)
(* dispatch loop or the receive buffer takes, or a control packet there.   *)
THEOREM ErrorsHaveCauses == Spec => []ErrHasCause
  <1>1. Init => ErrInv
    BY DEF Init, ErrInv, ErrHasCause
  <1>2. ErrInv => ErrHasCause
    BY DEF ErrInv
  <1> QED BY <1>1, <1>2, Invariance, NextErr, PTL DEF Spec

-----------------------------------------------------------------------------
(* No buffer drops a unit or keeps a second copy of it.                    *)

(* How often u is in s.                                                    *)
Places(s, u) == {j \in DOMAIN s : s[j] = u}
Count(s, u) == Cardinality(Places(s, u))

(* Counts are natural numbers.                                             *)
LEMMA CountNat ==
    ASSUME NEW S, NEW s \in Seq(S), NEW u
    PROVE  IsFiniteSet(Places(s, u)) /\ Count(s, u) \in Nat
  <1>1. IsFiniteSet(1 .. Len(s)) /\ Places(s, u) \subseteq 1 .. Len(s)
    BY FS_Interval DEF Places
  <1> QED BY <1>1, FS_Subset, FS_CardinalityType DEF Count

(* What is not there is there zero times.                                  *)
LEMMA CountAbsent ==
    ASSUME NEW S, NEW s \in Seq(S), NEW u, \A j \in 1 .. Len(s) : s[j] # u
    PROVE  Count(s, u) = 0
  <1>1. Places(s, u) = {}
    BY DEF Places
  <1> QED BY <1>1, FS_EmptySet DEF Count

(* Nothing is in the empty sequence.                                       *)
LEMMA CountEmpty ==
    ASSUME NEW u PROVE Count(<<>>, u) = 0
  <1>1. Places(<<>>, u) = {}
    BY DEF Places
  <1> QED BY <1>1, FS_EmptySet DEF Count

(* Counts add up over concatenation.                                       *)
LEMMA CountConcat ==
    ASSUME NEW S, NEW s \in Seq(S), NEW t \in Seq(S), NEW u
    PROVE  Count(s \o t, u) = Count(s, u) + Count(t, u)
  <1> DEFINE a == Places(s, u)
             b == Places(t, u)
             n == Len(s)
             moved == [j \in b |-> n + j]
             c == {n + j : j \in b}
  <1>1. /\ n \in Nat /\ Len(t) \in Nat /\ DOMAIN s = 1 .. n /\ DOMAIN t = 1 .. Len(t)
        /\ DOMAIN (s \o t) = 1 .. (n + Len(t))
        /\ \A j \in 1 .. n : (s \o t)[j] = s[j]
        /\ \A j \in 1 .. Len(t) : (s \o t)[n + j] = t[j]
    OBVIOUS
  <1>2. /\ IsFiniteSet(a) /\ IsFiniteSet(b)
        /\ Cardinality(a) \in Nat /\ Cardinality(b) \in Nat
    BY CountNat DEF Count
  <1>3. a \subseteq 1 .. n /\ b \subseteq 1 .. Len(t)
    BY <1>1 DEF Places
  <1>4. Places(s \o t, u) = a \cup c
    <2>1. ASSUME NEW j \in Places(s \o t, u) PROVE j \in a \cup c
      <3>0. j \in 1 .. (n + Len(t)) /\ (s \o t)[j] = u
        BY <1>1 DEF Places
      <3>1. CASE j \in 1 .. n
        BY <1>1, <3>0, <3>1 DEF Places
      <3>2. CASE j \notin 1 .. n
        <4>1. PICK i \in 1 .. Len(t) : j = n + i
          <5>1. j - n \in 1 .. Len(t) /\ j = n + (j - n)
            BY <1>1, <3>0, <3>2
          <5> QED BY <5>1
        <4>2. i \in b
          BY <1>1, <3>0, <4>1 DEF Places
        <4> QED BY <4>1, <4>2
      <3> QED BY <3>1, <3>2
    <2>2. ASSUME NEW j \in a PROVE j \in Places(s \o t, u)
      <3>1. j \in 1 .. n /\ s[j] = u /\ j \in 1 .. (n + Len(t))
        BY <1>1 DEF Places
      <3> QED BY <1>1, <3>1 DEF Places
    <2>3. ASSUME NEW j \in b PROVE n + j \in Places(s \o t, u)
      <3>1. j \in 1 .. Len(t) /\ t[j] = u /\ n + j \in 1 .. (n + Len(t))
        BY <1>1 DEF Places
      <3> QED BY <1>1, <3>1 DEF Places
    <2> HIDE DEF a, b, n
    <2> QED BY <2>1, <2>2, <2>3
  <1> HIDE DEF a, b, n
  <1>5. moved \in Bijection(b, c)
    <2>1. moved \in [b -> c]
      OBVIOUS
    <2>2. \A i, j \in b : i # j => moved[i] # moved[j]
      BY <1>1, <1>3
    <2> QED BY <2>1, <2>2 DEF Bijection, Injection, Surjection, IsInjective
  <1>6. IsFiniteSet(c) /\ Cardinality(c) = Cardinality(b)
    BY <1>2, <1>5, FS_Bijection DEF ExistsBijection
  <1>7. a \cap c = {}
    <2>1. ASSUME NEW j \in b PROVE n + j \notin a
      BY <1>1, <1>3
    <2> QED BY <2>1
  <1>8. Cardinality(a \cup c) = Cardinality(a) + Cardinality(c)
    <2>1. Cardinality(a \cup c) = Cardinality(a) + Cardinality(c) - Cardinality(a \cap c)
      BY <1>2, <1>6, FS_Union
    <2>2. Cardinality(a \cap c) = 0
      BY <1>7, FS_EmptySet
    <2> QED BY <1>2, <1>6, <2>1, <2>2
  <1> QED BY <1>4, <1>6, <1>8 DEF Count, a, b

(* Sequences of equal length and elements are equal.                       *)
LEMMA SameSeq ==
    ASSUME NEW S, NEW s \in Seq(S), NEW t \in Seq(S), Len(s) = Len(t),
           \A j \in 1 .. Len(s) : s[j] = t[j]
    PROVE  s = t
  OBVIOUS

(* The parts of a concatenation.                                           *)
LEMMA ConcatOf ==
    ASSUME NEW S, NEW s \in Seq(S), NEW t \in Seq(S)
    PROVE  /\ s \o t \in Seq(S) /\ Len(s \o t) = Len(s) + Len(t)
           /\ Len(s) \in Nat /\ Len(t) \in Nat
           /\ \A j \in 1 .. Len(s) : (s \o t)[j] = s[j]
           /\ \A j \in 1 .. Len(t) : (s \o t)[Len(s) + j] = t[j]
  OBVIOUS

(* us is the units of the messages ms.                                     *)
AreUnits(us, ms) ==
    /\ Len(us) = 2 * Len(ms)
    /\ \A k \in 1 .. Len(ms) : us[2 * k - 1] = 2 * ms[k] - 1 /\ us[2 * k] = 2 * ms[k]

(* The units of messages are determined by their positions.                *)
LEMMA UnitsUnique ==
    ASSUME NEW n \in Nat, NEW ms \in Seq(1 .. n), NEW us \in Seq(1 .. (2 * n)),
           AreUnits(us, ms)
    PROVE  us = UnitsOf(ms)
  <1>1. PICK vs \in Seq(1 .. (2 * n)) : vs = UnitsOf(ms) /\ AreUnits(vs, ms)
    BY UnitsOfSeq DEF AreUnits
  <1>2. PICK m \in Nat : m = Len(ms)
    OBVIOUS
  <1>3. ASSUME NEW j \in 1 .. (2 * m) PROVE us[j] = vs[j]
    <2>1. PICK q \in Nat : j = 2 * q \/ j = 2 * q + 1
      <3>1. j \in Nat
        OBVIOUS
      <3> QED BY <3>1, Halves
    <2>2. CASE j = 2 * q
      <3>1. q \in 1 .. m
        BY <2>2
      <3> QED BY <1>1, <1>2, <2>2, <3>1 DEF AreUnits
    <2>3. CASE j = 2 * q + 1
      <3>1. PICK k \in 1 .. m : k = q + 1 /\ j = 2 * k - 1
        BY <2>3
      <3> QED BY <1>1, <1>2, <3>1 DEF AreUnits
    <2> QED BY <2>1, <2>2, <2>3
  <1>4. Len(us) = Len(vs) /\ Len(us) = 2 * m
    BY <1>1, <1>2 DEF AreUnits
  <1> QED BY <1>1, <1>3, <1>4, SameSeq

(* The units of messages, one sequence behind another.                     *)
LEMMA UnitsConcat ==
    ASSUME NEW n \in Nat, NEW s \in Seq(1 .. n), NEW t \in Seq(1 .. n)
    PROVE  UnitsOf(s \o t) = UnitsOf(s) \o UnitsOf(t)
  <1>1. PICK us \in Seq(1 .. (2 * n)) : us = UnitsOf(s) /\ AreUnits(us, s)
    BY UnitsOfSeq DEF AreUnits
  <1>2. PICK ut \in Seq(1 .. (2 * n)) : ut = UnitsOf(t) /\ AreUnits(ut, t)
    BY UnitsOfSeq DEF AreUnits
  <1>3a. PICK st \in Seq(1 .. n) : st = s \o t
    <2>1. s \o t \in Seq(1 .. n)
      BY ConcatOf
    <2> QED BY <2>1, Zenon
  <1>3. /\ Len(st) = Len(s) + Len(t)
        /\ \A j \in 1 .. Len(s) : st[j] = s[j]
        /\ \A j \in 1 .. Len(t) : st[Len(s) + j] = t[j]
    BY <1>3a, ConcatOf
  <1>4a. PICK ust \in Seq(1 .. (2 * n)) : ust = us \o ut
    <2>1. us \o ut \in Seq(1 .. (2 * n))
      BY ConcatOf
    <2> QED BY <2>1, Zenon
  <1>4. /\ Len(ust) = Len(us) + Len(ut)
        /\ \A j \in 1 .. Len(us) : ust[j] = us[j]
        /\ \A j \in 1 .. Len(ut) : ust[Len(us) + j] = ut[j]
    BY <1>4a, ConcatOf
  <1>5. PICK a \in Nat, b \in Nat : a = Len(s) /\ b = Len(t)
    OBVIOUS
  <1>6. Len(us) = 2 * a /\ Len(ut) = 2 * b /\ Len(st) = a + b /\ Len(ust) = 2 * (a + b)
    BY <1>1, <1>2, <1>3, <1>4, <1>5 DEF AreUnits
  <1>7. ASSUME NEW k \in 1 .. (a + b)
        PROVE  ust[2 * k - 1] = 2 * st[k] - 1 /\ ust[2 * k] = 2 * st[k]
    <2>1. CASE k \in 1 .. a
      <3>1. 2 * k - 1 \in 1 .. (2 * a) /\ 2 * k \in 1 .. (2 * a)
        BY <2>1
      <3>2. ust[2 * k - 1] = us[2 * k - 1] /\ ust[2 * k] = us[2 * k] /\ st[k] = s[k]
        BY <1>3, <1>4, <1>5, <1>6, <2>1, <3>1
      <3>3. us[2 * k - 1] = 2 * s[k] - 1 /\ us[2 * k] = 2 * s[k]
        BY <1>1, <1>5, <2>1 DEF AreUnits
      <3> QED BY <3>2, <3>3
    <2>2. CASE k \notin 1 .. a
      <3>1. PICK i \in 1 .. b : k = a + i
        <4>1. k - a \in 1 .. b /\ k = a + (k - a)
          BY <2>2
        <4> QED BY <4>1
      <3>2. /\ 2 * k - 1 = 2 * a + (2 * i - 1) /\ 2 * k = 2 * a + 2 * i
            /\ 2 * i - 1 \in 1 .. (2 * b) /\ 2 * i \in 1 .. (2 * b)
        BY <3>1
      <3>3. ust[2 * k - 1] = ut[2 * i - 1] /\ ust[2 * k] = ut[2 * i] /\ st[k] = t[i]
        BY <1>3, <1>4, <1>5, <1>6, <3>1, <3>2
      <3>4. ut[2 * i - 1] = 2 * t[i] - 1 /\ ut[2 * i] = 2 * t[i]
        BY <1>2, <1>5 DEF AreUnits
      <3> QED BY <3>3, <3>4
    <2> QED BY <2>1, <2>2
  <1>8. AreUnits(ust, st)
    BY <1>5, <1>6, <1>7 DEF AreUnits
  <1> QED BY <1>1, <1>2, <1>3a, <1>4a, <1>8, UnitsUnique

(* The frame reader neither loses nor repeats a unit.                      *)
LEMMA CutWhole ==
    ASSUME NEW n \in Nat, NEW buf \in Seq(1 .. (2 * n)),
           NEW a \in Nat, \A k \in 1 .. Len(buf) : buf[k] = 2 * a + k
    PROVE  buf = UnitsOf(CompleteMessages(buf)) \o Remainder(buf)
  <1>1. PICK ms \in Seq(1 .. n), rest \in Seq(1 .. (2 * n)) :
            /\ ms = CompleteMessages(buf) /\ rest = Remainder(buf)
            /\ \A j \in 1 .. Len(ms) : ms[j] = a + j
            /\ Len(rest) <= 1 /\ (rest # <<>> => rest[1] = 2 * a + Len(buf))
            /\ 2 * Len(ms) + Len(rest) = Len(buf)
    BY CutMessages
  <1>2. PICK m \in Nat : m = Len(ms)
    OBVIOUS
  <1>3. PICK cut \in Seq(1 .. (2 * n)) :
            /\ cut = SubSeq(buf, 1, 2 * m) /\ Len(cut) = 2 * m
            /\ \A j \in 1 .. (2 * m) : cut[j] = 2 * a + j
    <2>1. 2 * m <= Len(buf) /\ 2 * m \in Nat
      BY <1>1, <1>2
    <2>2. /\ SubSeq(buf, 1, 2 * m) \in Seq(1 .. (2 * n)) /\ Len(SubSeq(buf, 1, 2 * m)) = 2 * m
          /\ \A j \in 1 .. (2 * m) : SubSeq(buf, 1, 2 * m)[j] = buf[j]
      BY <2>1
    <2>3. \A j \in 1 .. (2 * m) : buf[j] = 2 * a + j
      BY <2>1
    <2> QED BY <2>2, <2>3
  <1>4. AreUnits(cut, ms)
    <2>1. ASSUME NEW k \in 1 .. m
          PROVE  cut[2 * k - 1] = 2 * ms[k] - 1 /\ cut[2 * k] = 2 * ms[k]
      <3>1. 2 * k - 1 \in 1 .. (2 * m) /\ 2 * k \in 1 .. (2 * m)
        OBVIOUS
      <3>2. cut[2 * k - 1] = 2 * a + (2 * k - 1) /\ cut[2 * k] = 2 * a + 2 * k /\ ms[k] = a + k
        BY <1>1, <1>2, <1>3, <3>1
      <3> QED BY <3>2
    <2> QED BY <1>2, <1>3, <2>1 DEF AreUnits
  <1>5. cut = UnitsOf(ms)
    BY <1>4, UnitsUnique
  <1>6a. PICK w \in Seq(1 .. (2 * n)) : w = cut \o rest
    <2>1. cut \o rest \in Seq(1 .. (2 * n))
      BY ConcatOf
    <2> QED BY <2>1, Zenon
  <1>6. /\ Len(w) = Len(cut) + Len(rest)
        /\ \A j \in 1 .. Len(cut) : w[j] = cut[j]
        /\ \A j \in 1 .. Len(rest) : w[Len(cut) + j] = rest[j]
    BY <1>6a, ConcatOf, SMTT(20)
  <1>7. ASSUME NEW j \in 1 .. Len(w) PROVE w[j] = 2 * a + j
    <2>1. CASE j \in 1 .. (2 * m)
      BY <1>3, <1>6, <2>1
    <2>2. CASE j \notin 1 .. (2 * m)
      <3>1. Len(w) = 2 * m + Len(rest) /\ Len(rest) \in Nat /\ Len(rest) <= 1
        BY <1>1, <1>3, <1>6
      <3>2. j = 2 * m + 1 /\ Len(rest) >= 1
        BY <2>2, <3>1
      <3>3. rest # <<>> /\ 1 \in 1 .. Len(rest)
        BY <3>1, <3>2
      <3>4. w[j] = rest[1] /\ rest[1] = 2 * a + Len(buf)
        BY <1>1, <1>3, <1>6, <3>2, <3>3
      <3>5. PICK e \in Nat : e = Len(buf)
        OBVIOUS
      <3>6. j = e
        <4>1. 2 * m + Len(rest) = e
          BY <1>1, <1>2, <3>5
        <4> QED BY <3>1, <3>2, <4>1
      <3> QED BY <3>4, <3>5, <3>6
    <2> QED BY <2>1, <2>2
  <1>8. Len(w) = Len(buf)
    BY <1>1, <1>2, <1>3, <1>6
  <1>9. w = buf
    BY <1>7, <1>8, SameSeq
  <1> QED BY <1>1, <1>5, <1>6a, <1>9

(* Where unit u is: with the backend or with one of the buffers before it. *)
Total(u) ==
    Count(delivered, u) + Count(UnitsOf(hostInput), u) + Count(prefix, u)
    + Count(UnitsOf(batch), u) + Count(UnitsOf(todo), u) + Count(pending, u)
    + Count(socket, u)

BackendUnits == {u \in SentUnits : sent[MessageOf(u)] \notin Channel!ControlKinds}

Balanced == \A u \in BackendUnits : Total(u) = 1

LossInv == stage # "done" /\ ~closeAfter /\ result = "running" => Balanced

(* The buffers as sequences of units.                                      *)
LEMMA Buffers ==
    ASSUME Inv
    PROVE  /\ Len(sent) \in Nat
           /\ UnitsOf(hostInput) \in Seq(SentUnits) /\ prefix \in Seq(SentUnits)
           /\ UnitsOf(batch) \in Seq(SentUnits) /\ UnitsOf(todo) \in Seq(SentUnits)
           /\ pending \in Seq(SentUnits) /\ socket \in Seq(SentUnits)
           /\ delivered \in Seq(SentUnits)
           /\ hostInput \in Seq(SentMessages) /\ batch \in Seq(SentMessages)
           /\ todo \in Seq(SentMessages)
  <1>1. /\ Len(sent) \in Nat /\ prefix \in Seq(SentUnits) /\ pending \in Seq(SentUnits)
        /\ socket \in Seq(SentUnits) /\ delivered \in Seq(SentUnits)
        /\ hostInput \in Seq(SentMessages) /\ batch \in Seq(SentMessages)
        /\ todo \in Seq(SentMessages)
    BY ProfileSizes DEF Inv, ClientFields, HandlerFields, PumpFields, SeenFields
  <1> QED BY <1>1, UnitsOfSeq DEF SentMessages, SentUnits

(* The same for the buffers of a connection.                               *)
LEMMA CountsNat ==
    ASSUME Inv, NEW u
    PROVE  /\ Count(delivered, u) \in Nat /\ Count(UnitsOf(hostInput), u) \in Nat
           /\ Count(prefix, u) \in Nat /\ Count(UnitsOf(batch), u) \in Nat
           /\ Count(UnitsOf(todo), u) \in Nat /\ Count(pending, u) \in Nat
           /\ Count(socket, u) \in Nat
  BY Buffers, CountNat

(* The total counts each buffer once.                                      *)
LEMMA InFlightCount ==
    ASSUME Inv, NEW u
    PROVE  Count(delivered, u) + Count(InFlight, u) = Total(u)
  <1> DEFINE a == UnitsOf(hostInput)
             c == UnitsOf(batch)
             d == UnitsOf(todo)
             x == a \o prefix
             y == x \o c
             z == y \o d
             w == z \o pending
  <1>1. /\ a \in Seq(SentUnits) /\ prefix \in Seq(SentUnits) /\ c \in Seq(SentUnits)
        /\ d \in Seq(SentUnits) /\ pending \in Seq(SentUnits) /\ socket \in Seq(SentUnits)
    BY Buffers
  <1>2. /\ Count(delivered, u) \in Nat /\ Count(a, u) \in Nat /\ Count(prefix, u) \in Nat
        /\ Count(c, u) \in Nat /\ Count(d, u) \in Nat /\ Count(pending, u) \in Nat
        /\ Count(socket, u) \in Nat
    BY CountsNat
  <1>3. InFlight = w \o socket
    BY DEF InFlight
  <1>4. Total(u) = Count(delivered, u) + Count(a, u) + Count(prefix, u) + Count(c, u)
                   + Count(d, u) + Count(pending, u) + Count(socket, u)
    BY DEF Total
  <1> HIDE DEF a, c, d
  <1>5. x \in Seq(SentUnits) /\ Count(x, u) = Count(a, u) + Count(prefix, u)
    BY <1>1, CountConcat, ConcatOf
  <1> HIDE DEF x
  <1>6. y \in Seq(SentUnits) /\ Count(y, u) = Count(x, u) + Count(c, u)
    BY <1>1, <1>5, CountConcat, ConcatOf
  <1> HIDE DEF y
  <1>7. z \in Seq(SentUnits) /\ Count(z, u) = Count(y, u) + Count(d, u)
    BY <1>1, <1>6, CountConcat, ConcatOf
  <1> HIDE DEF z
  <1>8. w \in Seq(SentUnits) /\ Count(w, u) = Count(z, u) + Count(pending, u)
    BY <1>1, <1>7, CountConcat, ConcatOf
  <1> HIDE DEF w
  <1>9. Count(InFlight, u) = Count(w, u) + Count(socket, u)
    BY <1>1, <1>3, <1>8, CountConcat
  <1> QED BY <1>2, <1>4, <1>5, <1>6, <1>7, <1>8, <1>9, SMTT(20)

(* Balanced is what NothingLost says.                                      *)
LEMMA LossInvSays ==
    ASSUME Inv, LossInv
    PROVE  NothingLost
  <1>1. SUFFICES ASSUME stage # "done", ~closeAfter, result = "running",
                        NEW u \in SentUnits, sent[MessageOf(u)] \notin Channel!ControlKinds
                 PROVE  Count(delivered, u) + Count(InFlight, u) = 1
    BY DEF NothingLost, Count, Places, SentUnits
  <1>2. Total(u) = 1
    BY <1>1 DEF LossInv, Balanced, BackendUnits
  <1> QED BY <1>2, InFlightCount

(* A step that moves units between buffers keeps the balance.              *)
LEMMA MovesKeep ==
    ASSUME Balanced, sent' = sent, \A u \in BackendUnits : Total(u)' = Total(u)
    PROVE  Balanced'
  <1>1. BackendUnits' = BackendUnits
    BY DEF BackendUnits, SentUnits
  <1> QED BY <1>1 DEF Balanced

(* The next message leaves the messages to handle.                         *)
LEMMA TodoCount ==
    ASSUME Inv, todo # <<>>, NEW u
    PROVE  /\ Count(UnitsOf(todo), u)
              = Count(UnitsOf(<<Head(todo)>>), u) + Count(UnitsOf(Tail(todo)), u)
           /\ Count(UnitsOf(<<Head(todo)>>), u) \in Nat
           /\ Count(UnitsOf(Tail(todo)), u) \in Nat
  <1>1. todo \in Seq(SentMessages) /\ Len(sent) \in Nat
    BY Buffers
  <1>2. PICK h \in SentMessages, t \in Seq(SentMessages) : h = Head(todo) /\ t = Tail(todo)
    BY <1>1, TailOf
  <1>3. <<h>> \in Seq(SentMessages) /\ todo = <<h>> \o t
    BY <1>1, <1>2
  <1>4. UnitsOf(<<h>> \o t) = UnitsOf(<<h>>) \o UnitsOf(t)
    BY <1>1, <1>3, UnitsConcat DEF SentMessages
  <1>5. UnitsOf(<<h>>) \in Seq(SentUnits) /\ UnitsOf(t) \in Seq(SentUnits)
    BY <1>1, <1>3, UnitsOfSeq DEF SentMessages, SentUnits
  <1>6. Count(UnitsOf(<<h>>) \o UnitsOf(t), u) = Count(UnitsOf(<<h>>), u) + Count(UnitsOf(t), u)
    BY <1>5, CountConcat
  <1>7. Count(UnitsOf(<<h>>), u) \in Nat /\ Count(UnitsOf(t), u) \in Nat
    BY <1>5, CountNat
  <1> QED BY <1>2, <1>3, <1>4, <1>6, <1>7

(* A control packet has no unit of a backend message.                      *)
LEMMA ControlCount ==
    ASSUME Inv, todo # <<>>, Kind(Head(todo)) \in Channel!ControlKinds, NEW u \in BackendUnits
    PROVE  Count(UnitsOf(todo), u) = Count(UnitsOf(Tail(todo)), u)
  <1>1. todo \in Seq(SentMessages) /\ Len(sent) \in Nat
    BY Buffers
  <1>2. PICK h \in SentMessages : h = Head(todo)
    BY <1>1, TailOf
  <1>3. <<h>> \in Seq(1 .. Len(sent)) /\ Len(<<h>>) = 1 /\ <<h>>[1] = h /\ h \in Nat /\ h > 0
    BY <1>1 DEF SentMessages
  <1>4. PICK us \in Seq(SentUnits) : us = UnitsOf(<<h>>) /\ AreUnits(us, <<h>>)
    BY <1>1, <1>3, UnitsOfSeq DEF AreUnits, SentUnits
  <1>5. Len(us) = 2 /\ us[1] = 2 * h - 1 /\ us[2] = 2 * h
    <2>1. 1 \in 1 .. Len(<<h>>)
      BY <1>3
    <2>2. us[2 * 1 - 1] = 2 * <<h>>[1] - 1 /\ us[2 * 1] = 2 * <<h>>[1]
      BY <1>4, <2>1 DEF AreUnits
    <2> QED BY <1>3, <1>4, <2>2 DEF AreUnits
  <1>6. MessageOf(2 * h) = h /\ MessageOf(2 * h - 1) = h
    BY <1>3, MessageOfUnits
  <1>7. MessageOf(u) # h
    BY <1>2 DEF BackendUnits, Kind
  <1>8. \A j \in 1 .. Len(us) : us[j] # u
    <2>1. \A j \in 1 .. Len(us) : j = 1 \/ j = 2
      BY <1>5
    <2>2. us[1] # u /\ us[2] # u
      BY <1>5, <1>6, <1>7
    <2> QED BY <2>1, <2>2
  <1>9. Count(us, u) = 0
    BY <1>8, CountAbsent
  <1> QED BY <1>2, <1>4, <1>9, TodoCount

(* A sequence is what it is cut into.                                      *)
LEMMA SplitOf ==
    ASSUME NEW S, NEW b \in Seq(S), NEW c \in 0 .. Len(b)
    PROVE  b = SubSeq(b, 1, c) \o SubSeq(b, c + 1, Len(b))
  <1>1. PICK s \in Seq(S), t \in Seq(S) : s = SubSeq(b, 1, c) /\ t = SubSeq(b, c + 1, Len(b))
    <2>1. SubSeq(b, 1, c) \in Seq(S) /\ SubSeq(b, c + 1, Len(b)) \in Seq(S)
      OBVIOUS
    <2> QED BY <2>1, Zenon
  <1>2. /\ Len(s) = c /\ Len(t) = Len(b) - c /\ Len(b) \in Nat
        /\ \A j \in 1 .. c : s[j] = b[j]
        /\ \A j \in 1 .. (Len(b) - c) : t[j] = b[c + j]
    BY <1>1
  <1>3. /\ s \o t \in Seq(S) /\ Len(s \o t) = Len(s) + Len(t)
        /\ \A j \in 1 .. Len(s) : (s \o t)[j] = s[j]
        /\ \A j \in 1 .. Len(t) : (s \o t)[Len(s) + j] = t[j]
    BY ConcatOf
  <1>4. Len(s \o t) = Len(b)
    BY <1>2, <1>3
  <1>5. ASSUME NEW j \in 1 .. Len(b) PROVE b[j] = (s \o t)[j]
    <2>1. CASE j \in 1 .. c
      BY <1>2, <1>3, <2>1
    <2>2. CASE j \notin 1 .. c
      <3>1. PICK i \in 1 .. (Len(b) - c) : j = c + i
        <4>1. j - c \in 1 .. (Len(b) - c) /\ j = c + (j - c)
          BY <1>2, <2>2
        <4> QED BY <4>1
      <3> QED BY <1>2, <1>3, <3>1
    <2> QED BY <2>1, <2>2
  <1>6. b = s \o t
    BY <1>3, <1>4, <1>5, SameSeq
  <1> QED BY <1>1, <1>6

(* A batch is delivered: in whole, or up to a message of it.               *)
LEMMA BatchCount ==
    ASSUME Inv, NEW b \in Seq(SentMessages), NEW c \in 0 .. Len(b), NEW u
    PROVE  /\ Count(delivered \o UnitsOf(SubSeq(b, 1, c)), u)
              + Count(UnitsOf(SubSeq(b, c + 1, Len(b))), u)
              = Count(delivered, u) + Count(UnitsOf(b), u)
           /\ Count(delivered \o UnitsOf(SubSeq(b, 1, c)), u) \in Nat
           /\ Count(UnitsOf(SubSeq(b, c + 1, Len(b))), u) \in Nat
           /\ Count(UnitsOf(b), u) \in Nat
  <1>1. Len(sent) \in Nat /\ delivered \in Seq(SentUnits)
    BY Buffers
  <1>2. PICK s \in Seq(SentMessages), t \in Seq(SentMessages) :
            s = SubSeq(b, 1, c) /\ t = SubSeq(b, c + 1, Len(b))
    <2>1. SubSeq(b, 1, c) \in Seq(SentMessages) /\ SubSeq(b, c + 1, Len(b)) \in Seq(SentMessages)
      OBVIOUS
    <2> QED BY <2>1, Zenon
  <1>3. b = s \o t
    BY <1>2, SplitOf
  <1>4. UnitsOf(b) = UnitsOf(s) \o UnitsOf(t)
    BY <1>1, <1>3, UnitsConcat DEF SentMessages
  <1>5. PICK us \in Seq(SentUnits), ut \in Seq(SentUnits) : us = UnitsOf(s) /\ ut = UnitsOf(t)
    BY <1>1, UnitsOfSeq DEF SentMessages, SentUnits
  <1>6. Count(us \o ut, u) = Count(us, u) + Count(ut, u)
    BY CountConcat
  <1>7. Count(delivered \o us, u) = Count(delivered, u) + Count(us, u)
    BY <1>1, CountConcat
  <1>8. Count(us, u) \in Nat /\ Count(ut, u) \in Nat /\ Count(delivered, u) \in Nat
    BY <1>1, CountNat
  <1> QED BY <1>2, <1>4, <1>5, <1>6, <1>7, <1>8

(* A flush moves the batch to the backend.                                 *)
LEMMA FlushCount ==
    ASSUME Inv, NEW b \in Seq(SentMessages), FlushBuffered(b), NEW u
    PROVE  /\ Count(delivered', u) = Count(delivered, u) + Count(UnitsOf(b), u)
           /\ Count(delivered', u) \in Nat /\ Count(UnitsOf(b), u) \in Nat
           /\ prefix' = prefix /\ hostInput' = hostInput
  <1>1. delivered' = delivered \o UnitsOf(b) /\ prefix' = prefix /\ hostInput' = hostInput
    BY DEF FlushBuffered, pumpVars
  <1>2. delivered \in Seq(SentUnits) /\ UnitsOf(b) \in Seq(SentUnits)
    BY Buffers, UnitsOfSeq DEF SentMessages, SentUnits
  <1>3. Count(delivered \o UnitsOf(b), u) = Count(delivered, u) + Count(UnitsOf(b), u)
    BY <1>2, CountConcat
  <1>4. Count(delivered, u) \in Nat /\ Count(UnitsOf(b), u) \in Nat
    BY <1>2, CountNat
  <1> QED BY <1>1, <1>3, <1>4

(* A handoff moves it to the backend and the host's input together.        *)
LEMMA HandoffCount ==
    ASSUME Inv, stage \in Reading, NEW b \in Seq(SentMessages), FlushHandoff(b), NEW u
    PROVE  /\ Count(delivered', u) + Count(UnitsOf(hostInput'), u)
              = Count(delivered, u) + Count(UnitsOf(hostInput), u) + Count(UnitsOf(b), u)
           /\ Count(delivered', u) \in Nat /\ Count(UnitsOf(hostInput'), u) \in Nat
           /\ Count(UnitsOf(b), u) \in Nat /\ prefix' = prefix
  <1>1. PICK c \in 1 .. Len(b) : \E a \in 1 .. c : HandoffOf(b, c, a)
    BY HandoffEffect, ProfileSizes DEF Inv, SentMessages
  <1>2. /\ delivered' = delivered \o UnitsOf(SubSeq(b, 1, c))
        /\ hostInput' = SubSeq(b, c + 1, Len(b)) /\ prefix' = prefix
    BY <1>1 DEF HandoffOf
  <1>3. hostInput = <<>>
    BY DEF Inv, StageInv
  <1>4. Count(UnitsOf(hostInput), u) = 0
    <2>1. UnitsOf(hostInput) \in Seq(SentUnits)
      BY Buffers
    <2>2. Len(UnitsOf(hostInput)) = 0
      <3>1. hostInput \in Seq(1 .. Len(sent)) /\ Len(sent) \in Nat
        BY Buffers DEF SentMessages
      <3>2. Len(UnitsOf(hostInput)) = 2 * Len(hostInput)
        BY <3>1, UnitsOfSeq
      <3> QED BY <1>3, <3>2
    <2>3. \A j \in 1 .. Len(UnitsOf(hostInput)) : UnitsOf(hostInput)[j] # u
      BY <2>2
    <2> QED BY <2>1, <2>3, CountAbsent
  <1>5. c \in 0 .. Len(b)
    OBVIOUS
  <1>6. Count(delivered, u) \in Nat
    BY CountsNat
  <1> QED BY <1>2, <1>4, <1>5, <1>6, BatchCount

(* An empty sequence of messages has no units.                             *)
LEMMA NoUnits ==
    ASSUME NEW u PROVE Count(UnitsOf(<<>>), u) = 0
  <1>1. <<>> \in Seq(1 .. 0) /\ Len(<<>>) = 0
    OBVIOUS
  <1>2. UnitsOf(<<>>) \in Seq(1 .. (2 * 0)) /\ Len(UnitsOf(<<>>)) = 2 * Len(<<>>)
    BY <1>1, UnitsOfSeq
  <1>3. \A j \in 1 .. Len(UnitsOf(<<>>)) : UnitsOf(<<>>)[j] # u
    BY <1>1, <1>2
  <1> QED BY <1>2, <1>3, CountAbsent

(* A message that joins the batch.                                         *)
LEMMA JoinCount ==
    ASSUME Inv, todo # <<>>, NEW u
    PROVE  /\ Append(batch, Head(todo)) \in Seq(SentMessages)
           /\ Count(UnitsOf(Append(batch, Head(todo))), u) + Count(UnitsOf(Tail(todo)), u)
              = Count(UnitsOf(batch), u) + Count(UnitsOf(todo), u)
           /\ Count(UnitsOf(Append(batch, Head(todo))), u) \in Nat
           /\ Count(UnitsOf(Tail(todo)), u) \in Nat
  <1>1. todo \in Seq(SentMessages) /\ batch \in Seq(SentMessages) /\ Len(sent) \in Nat
    BY Buffers
  <1>2. PICK h \in SentMessages : h = Head(todo)
    BY <1>1, TailOf
  <1>3. <<h>> \in Seq(SentMessages) /\ Append(batch, h) = batch \o <<h>>
        /\ Append(batch, h) \in Seq(SentMessages)
    BY <1>1
  <1>4. UnitsOf(batch \o <<h>>) = UnitsOf(batch) \o UnitsOf(<<h>>)
    BY <1>1, <1>3, UnitsConcat DEF SentMessages
  <1>5. UnitsOf(<<h>>) \in Seq(SentUnits) /\ UnitsOf(batch) \in Seq(SentUnits)
    BY <1>1, <1>3, UnitsOfSeq DEF SentMessages, SentUnits
  <1>6. Count(UnitsOf(batch) \o UnitsOf(<<h>>), u)
        = Count(UnitsOf(batch), u) + Count(UnitsOf(<<h>>), u)
    BY <1>5, CountConcat
  <1>7. Count(UnitsOf(Append(batch, Head(todo))), u)
        = Count(UnitsOf(batch), u) + Count(UnitsOf(<<Head(todo)>>), u)
    BY <1>2, <1>3, <1>4, <1>6
  <1>8. Count(UnitsOf(batch), u) \in Nat
    BY <1>5, CountNat
  <1> QED BY <1>2, <1>3, <1>7, <1>8, TodoCount

(* On to the next message, without a flush and with one.                   *)
LEMMA HandledBalance ==
    ASSUME Inv, LossInv, UNCHANGED clientVars, stage = "handle", todo # <<>>,
           Kind(Head(todo)) \in Channel!ControlKinds,
           NEW close \in BOOLEAN, FlushIfStarted(Handled(close))
    PROVE  LossInv'
  <1> SUFFICES ASSUME stage' # "done", ~closeAfter', result' = "running"
               PROVE  Balanced'
    BY DEF LossInv
  <1>1. sent' = sent /\ socket' = socket /\ result = "running"
    BY DEF clientVars, Inv, StageInv, Reading
  <1>2. Handled(close)
    BY DEF FlushIfStarted, FlushFails, WriteResponse, ReturnErr, Abort
  <1>3. ~closeAfter /\ todo' = Tail(todo) /\ batch' = <<>> /\ pending' = pending
    BY <1>2 DEF Handled
  <1>4. Balanced
    BY <1>1, <1>3 DEF LossInv
  <1>5. ASSUME NEW u \in BackendUnits PROVE Total(u)' = Total(u)
    <2>1. Count(UnitsOf(todo), u) = Count(UnitsOf(todo'), u)
      BY <1>3, ControlCount
    <2>2. Count(UnitsOf(batch'), u) = 0
      BY <1>3, NoUnits
    <2>3. CASE batch = <<>> /\ UNCHANGED <<pumpVars, seenVars>>
      <3>1. prefix' = prefix /\ hostInput' = hostInput /\ delivered' = delivered /\ batch' = batch
        BY <1>3, <2>3 DEF pumpVars, seenVars
      <3> QED BY <1>1, <1>3, <2>1, <3>1 DEF Total
    <2>4. CASE FlushBuffered(batch)
      <3>1. batch \in Seq(SentMessages)
        BY Buffers
      <3>2. /\ Count(delivered', u) = Count(delivered, u) + Count(UnitsOf(batch), u)
            /\ prefix' = prefix /\ hostInput' = hostInput
        BY <2>4, <3>1, FlushCount
      <3> QED BY <1>1, <1>3, <2>1, <2>2, <3>2, CountsNat DEF Total
    <2> QED BY <2>3, <2>4, <1>1, <1>2 DEF FlushIfStarted, FlushFails, WriteResponse, ReturnErr, Abort
  <1> QED BY <1>1, <1>4, <1>5, MovesKeep

(* End of file loses nothing that the balance counts.                      *)
LEMMA EofBalance ==
    ASSUME Inv, LossInv, ReadEof
    PROVE  LossInv'
  <1> SUFFICES ASSUME stage' # "done", ~closeAfter', result' = "running"
               PROVE  Balanced'
    BY DEF LossInv
  <1>1. /\ sent' = sent /\ socket' = socket /\ result = "running" /\ stage = "read"
        /\ closeAfter = FALSE
    BY DEF clientVars, Inv, StageInv, Reading, ReadEof
  <1>2. todo' = todo /\ batch' = <<>> /\ pending' = pending
    BY DEF FlushIfStarted, FlushFails, WriteResponse, ReturnErr, Abort, ReadEof
  <1>3. Balanced
    BY <1>1 DEF LossInv
  <1>4. ASSUME NEW u \in BackendUnits PROVE Total(u)' = Total(u)
    <2>1. Count(UnitsOf(batch'), u) = 0
      BY <1>2, NoUnits
    <2>2. CASE batch = <<>> /\ UNCHANGED <<pumpVars, seenVars>>
      <3>1. prefix' = prefix /\ hostInput' = hostInput /\ delivered' = delivered /\ batch' = batch
        BY <1>2, <2>2 DEF pumpVars, seenVars
      <3> QED BY <1>1, <1>2, <3>1 DEF Total
    <2>3. CASE FlushBuffered(batch)
      <3>1. batch \in Seq(SentMessages)
        BY Buffers
      <3>2. /\ Count(delivered', u) = Count(delivered, u) + Count(UnitsOf(batch), u)
            /\ prefix' = prefix /\ hostInput' = hostInput
        BY <2>3, <3>1, FlushCount
      <3> QED BY <1>1, <1>2, <2>1, <3>2, CountsNat DEF Total
    <2> QED BY <2>2, <2>3 DEF FlushIfStarted, FlushFails, WriteResponse, ReturnErr, Abort, ReadEof
  <1> QED BY <1>1, <1>3, <1>4, MovesKeep

(* A startup packet is a control packet, which is not counted.             *)
LEMMA StartupBalance ==
    ASSUME Inv, LossInv, HandleStartup
    PROVE  LossInv'
  <1> SUFFICES ASSUME stage' # "done", ~closeAfter', result' = "running"
               PROVE  Balanced'
    BY DEF LossInv
  <1>1. /\ sent' = sent /\ socket' = socket /\ result = "running" /\ stage = "handle"
        /\ todo # <<>> /\ Kind(Head(todo)) \in Channel!ControlKinds
        /\ UNCHANGED <<pumpVars, seenVars>>
    BY DEF clientVars, Inv, StageInv, Reading, HandleStartup, Handling, Channel!ControlKinds
  <1>2. /\ todo' = Tail(todo) /\ batch' = batch /\ pending' = pending /\ ~closeAfter
    BY DEF HandleStartup, ReturnErr, OpenFails, StartupFails, StartupRefused,
           StartupProcessed, BreakAndClose, Abort
  <1>3. Balanced
    BY <1>1, <1>2 DEF LossInv
  <1>4. ASSUME NEW u \in BackendUnits PROVE Total(u)' = Total(u)
    <2>1. Count(UnitsOf(todo), u) = Count(UnitsOf(todo'), u)
      BY <1>1, <1>2, ControlCount
    <2>2. prefix' = prefix /\ hostInput' = hostInput /\ delivered' = delivered
      BY <1>1 DEF pumpVars, seenVars
    <2> QED BY <1>1, <1>2, <2>1, <2>2 DEF Total
  <1> QED BY <1>1, <1>3, <1>4, MovesKeep

(* A protocol message goes from todo to the batch, the backend or the      *)
(* host's input.                                                           *)
LEMMA ProtocolBalance ==
    ASSUME Inv, LossInv, HandleProtocol
    PROVE  LossInv'
  <1> SUFFICES ASSUME stage' # "done", ~closeAfter', result' = "running"
               PROVE  Balanced'
    BY DEF LossInv
  <1> DEFINE b == Append(batch, Head(todo))
  <1>1. /\ sent' = sent /\ socket' = socket /\ result = "running" /\ stage = "handle"
        /\ todo # <<>> /\ stage \in Reading
    BY DEF clientVars, Inv, StageInv, Reading, HandleProtocol, Handling
  <1>2. todo' = Tail(todo) /\ pending' = pending /\ ~closeAfter
    <2>1. \/ todo' = Tail(todo) /\ UNCHANGED <<pending, closeAfter>>
          \/ Handled(FALSE)
          \/ ReturnErr \/ FlushFails(b)
      BY DEF HandleProtocol, WriteResponse
    <2>2. CASE Handled(FALSE)
      <3>1. closeAfter' = (closeAfter \/ FALSE) /\ todo' = Tail(todo) /\ pending' = pending
        BY <2>2 DEF Handled
      <3> QED BY <3>1, Zenon
    <2>3. CASE todo' = Tail(todo) /\ UNCHANGED <<pending, closeAfter>>
      <3>1. closeAfter' = closeAfter /\ todo' = Tail(todo) /\ pending' = pending
        BY <2>3
      <3> QED BY <3>1, Zenon
    <2>4. ~ReturnErr /\ ~FlushFails(b)
      BY DEF ReturnErr, FlushFails, Abort
    <2> QED BY <2>1, <2>2, <2>3, <2>4
  <1>3. Balanced
    BY <1>1, <1>2 DEF LossInv
  <1>4. ASSUME NEW u \in BackendUnits PROVE Total(u)' = Total(u)
    <2>1. /\ b \in Seq(SentMessages)
          /\ Count(UnitsOf(b), u) + Count(UnitsOf(todo'), u)
             = Count(UnitsOf(batch), u) + Count(UnitsOf(todo), u)
          /\ Count(UnitsOf(b), u) \in Nat /\ Count(UnitsOf(todo'), u) \in Nat
      BY <1>1, <1>2, JoinCount
    <2>2. batch' = <<>> => Count(UnitsOf(batch'), u) = 0
      BY NoUnits
    <2>3. PICK d \in Nat, h \in Nat, p \in Nat, g \in Nat, t \in Nat, e \in Nat, s \in Nat :
              /\ d = Count(delivered, u) /\ h = Count(UnitsOf(hostInput), u)
              /\ p = Count(prefix, u) /\ g = Count(UnitsOf(batch), u)
              /\ t = Count(UnitsOf(todo), u) /\ e = Count(pending, u) /\ s = Count(socket, u)
      BY CountsNat, Zenon
    <2>a. PICK x \in Nat, y \in Nat :
              x = Count(UnitsOf(b), u) /\ y = Count(UnitsOf(todo'), u) /\ x + y = g + t
      BY <2>1, <2>3
    <2>b. Total(u) = d + h + p + g + t + e + s
      BY <2>3 DEF Total
    <2>c. ASSUME NEW v \in Nat, NEW w \in Nat, NEW z \in Nat,
                 v = Count(delivered', u), w = Count(UnitsOf(hostInput'), u),
                 z = Count(UnitsOf(batch'), u), v + w + z + y = d + h + g + t, prefix' = prefix
          PROVE  Total(u)' = Total(u)
      <3>1. Total(u)' = v + w + p + z + y + e + s
        BY <1>1, <1>2, <2>3, <2>a, <2>c DEF Total
      <3>2. v + w + p + z + y + e + s = d + h + p + g + t + e + s
        BY <2>c
      <3> QED BY <2>b, <3>1, <3>2
    <2> HIDE DEF b
    <2>4. CASE batch' = b /\ UNCHANGED <<pumpVars, seenVars>>
      <3>1. prefix' = prefix /\ hostInput' = hostInput /\ delivered' = delivered
        BY <2>4 DEF pumpVars, seenVars
      <3>2. d = Count(delivered', u) /\ h = Count(UnitsOf(hostInput'), u)
            /\ x = Count(UnitsOf(batch'), u) /\ d + h + x + y = d + h + g + t
        BY <2>3, <2>4, <2>a, <3>1
      <3> QED BY <2>c, <3>1, <3>2
    <2>5. CASE FlushBuffered(b) /\ batch' = <<>>
      <3>1. /\ Count(delivered', u) = d + x
            /\ prefix' = prefix /\ hostInput' = hostInput
        BY <2>1, <2>3, <2>5, <2>a, FlushCount
      <3>2. 0 = Count(UnitsOf(batch'), u) /\ d + x \in Nat /\ (d + x) + h + 0 + y = d + h + g + t
        BY <2>2, <2>5, <2>a
      <3> QED BY <2>3, <2>c, <3>1, <3>2
    <2>6. CASE FlushHandoff(b) /\ batch' = <<>>
      <3>1. /\ Count(delivered', u) + Count(UnitsOf(hostInput'), u) = d + h + x
            /\ Count(delivered', u) \in Nat /\ Count(UnitsOf(hostInput'), u) \in Nat
            /\ prefix' = prefix
        BY <1>1, <2>1, <2>3, <2>6, <2>a, HandoffCount
      <3>2. PICK v \in Nat, w \in Nat :
                v = Count(delivered', u) /\ w = Count(UnitsOf(hostInput'), u) /\ v + w = d + h + x
        BY <3>1
      <3>3. 0 = Count(UnitsOf(batch'), u) /\ v + w + 0 + y = d + h + g + t
        <4>1. v + w = d + h + x /\ x + y = g + t
          BY <2>a, <3>2
        <4>2. v + w + 0 + y = d + h + g + t
          BY <4>1
        <4> QED BY <2>2, <2>6, <4>2
      <3> QED BY <2>c, <3>1, <3>2, <3>3
    <2> QED BY <2>4, <2>5, <2>6 DEF HandleProtocol, FlushFails, WriteResponse, Handled,
                                    ReturnErr, Abort, b
  <1> QED BY <1>1, <1>3, <1>4, MovesKeep

(* A read moves units from the socket to pending and todo.                 *)
LEMMA ReadBalance ==
    ASSUME Inv, LossInv, Read
    PROVE  LossInv'
  <1> SUFFICES ASSUME stage' # "done", ~closeAfter', result' = "running"
               PROVE  Balanced'
    BY DEF LossInv
  <1>1. PICK n \in 1 .. Len(socket), r \in Nat, buf \in Seq(SentUnits) : ReadOf(n, r, buf)
    BY ReadEffect
  <1>2. /\ sent' = sent /\ result = "running" /\ stage = "read" /\ closeAfter = FALSE
        /\ prefix' = prefix /\ hostInput' = hostInput /\ delivered' = delivered
    BY DEF Read, Inv, StageInv, Reading, pumpVars, seenVars
  <1>3. /\ todo = <<>> /\ buf = pending \o SubSeq(socket, 1, n)
        /\ socket' = SubSeq(socket, n + 1, Len(socket)) /\ batch' = batch
        /\ todo' = CompleteMessages(buf) /\ pending' = Remainder(buf)
        /\ \A k \in 1 .. Len(buf) : buf[k] = 2 * r + k
    BY <1>1 DEF ReadOf, ReturnErr, Abort
  <1>4. Balanced
    BY <1>2 DEF LossInv
  <1>5. Len(sent) \in Nat /\ pending \in Seq(SentUnits) /\ socket \in Seq(SentUnits)
    BY Buffers
  <1>6. buf = UnitsOf(todo') \o pending'
    BY <1>3, <1>5, CutWhole DEF SentUnits
  <1>7. UnitsOf(todo') \in Seq(SentUnits) /\ pending' \in Seq(SentUnits)
    <2>1. /\ CompleteMessages(buf) \in Seq(1 .. Len(sent))
          /\ Remainder(buf) \in Seq(1 .. (2 * Len(sent)))
      BY <1>3, <1>5, CutMessages DEF SentUnits
    <2> QED BY <1>3, <1>5, <2>1, UnitsOfSeq DEF SentUnits
  <1>8. /\ SubSeq(socket, 1, n) \in Seq(SentUnits) /\ socket' \in Seq(SentUnits)
        /\ socket = SubSeq(socket, 1, n) \o socket'
    <2>1. /\ SubSeq(socket, 1, n) \in Seq(SentUnits) /\ socket' \in Seq(SentUnits)
      BY <1>3, <1>5
    <2>2. socket = SubSeq(socket, 1, n) \o SubSeq(socket, n + 1, Len(socket))
      BY <1>5, SplitOf
    <2> QED BY <1>3, <2>1, <2>2
  <1>9. ASSUME NEW u \in BackendUnits PROVE Total(u)' = Total(u)
    <2> DEFINE head == SubSeq(socket, 1, n)
    <2>1. Count(buf, u) = Count(pending, u) + Count(head, u)
      <3>1. Count(pending \o head, u) = Count(pending, u) + Count(head, u)
        <4>1. head \in Seq(SentUnits) /\ pending \in Seq(SentUnits)
          BY <1>5, <1>8
        <4> HIDE DEF head
        <4> QED BY <4>1, CountConcat
      <3> QED BY <1>3, <3>1
    <2>2. Count(buf, u) = Count(UnitsOf(todo'), u) + Count(pending', u)
      BY <1>6, <1>7, CountConcat
    <2>3. Count(socket, u) = Count(head, u) + Count(socket', u)
      <3>1. Count(head \o socket', u) = Count(head, u) + Count(socket', u)
        BY <1>8, CountConcat
      <3> QED BY <1>8, <3>1
    <2>4. Count(UnitsOf(todo), u) = 0
      BY <1>3, NoUnits
    <2>5. PICK d \in Nat, h \in Nat, p \in Nat, g \in Nat, e \in Nat :
              /\ d = Count(delivered, u) /\ h = Count(UnitsOf(hostInput), u)
              /\ p = Count(prefix, u) /\ g = Count(UnitsOf(batch), u) /\ e = Count(pending, u)
      BY CountsNat, Zenon
    <2>6. PICK f \in Nat, s \in Nat, t \in Nat, i \in Nat :
              /\ f = Count(head, u) /\ s = Count(socket', u)
              /\ t = Count(UnitsOf(todo'), u) /\ i = Count(pending', u)
      BY <1>7, <1>8, CountNat, Zenon
    <2> HIDE DEF head
    <2>7. Total(u) = d + h + p + g + 0 + e + (f + s)
      BY <2>3, <2>4, <2>5, <2>6 DEF Total
    <2>8. Total(u)' = d + h + p + g + t + i + s
      BY <1>2, <1>3, <2>5, <2>6 DEF Total
    <2>9. t + i = e + f
      BY <2>1, <2>2, <2>5, <2>6
    <2>10. d + h + p + g + t + i + s = d + h + p + g + 0 + e + (f + s)
      BY <2>9
    <2> QED BY <2>7, <2>8, <2>10
  <1> QED BY <1>2, <1>4, <1>9, MovesKeep

(* The client puts two new units into the socket.                          *)
LEMMA SendBalance ==
    ASSUME Inv, LossInv, ClientSend
    PROVE  LossInv'
  <1> DEFINE n == Len(sent)
             two == <<2 * n + 1, 2 * n + 2>>
  <1>1. /\ SocketInv' /\ Len(sent') = n + 1 /\ \A i \in 1 .. n : sent'[i] = sent[i]
        /\ socket' = socket \o two
    BY SendEffect
  <1>2. UNCHANGED <<handlerVars, pumpVars, seenVars>>
    BY DEF ClientSend
  <1>3. SUFFICES ASSUME stage' # "done", ~closeAfter', result' = "running",
                        NEW u \in BackendUnits'
                 PROVE  Total(u)' = 1
    BY DEF LossInv, Balanced
  <1>4. Balanced
    <2>1. stage' = stage /\ result' = result /\ closeAfter' = closeAfter
      BY <1>2 DEF handlerVars
    <2>2. ~closeAfter
      BY <1>3, <2>1, Zenon
    <2> QED BY <1>3, <2>1, <2>2 DEF LossInv
  <1>5. /\ n \in Nat /\ socket \in Seq(SentUnits) /\ two \in Seq(Nat) /\ socket \in Seq(Nat)
        /\ u \in 1 .. (2 * (n + 1))
    <2>1. n \in Nat /\ socket \in Seq(SentUnits)
      BY Buffers
    <2>2. SentUnits \subseteq Nat
      BY <2>1 DEF SentUnits
    <2>3. socket \in Seq(Nat)
      BY <2>1, <2>2, SeqMono
    <2>4. two \in Seq(Nat)
      BY <2>1
    <2>5. u \in 1 .. (2 * (n + 1))
      BY <1>1 DEF BackendUnits, SentUnits
    <2> QED BY <2>1, <2>3, <2>4, <2>5
  <1>6. Count(socket', u) = Count(socket, u) + Count(two, u)
    BY <1>1, <1>5, CountConcat
  <1>7. /\ prefix' = prefix /\ hostInput' = hostInput /\ delivered' = delivered
        /\ batch' = batch /\ todo' = todo /\ pending' = pending
    BY <1>2 DEF handlerVars, pumpVars, seenVars
  <1>8. PICK d \in Nat, h \in Nat, p \in Nat, g \in Nat, t \in Nat, e \in Nat, s \in Nat :
            /\ d = Count(delivered, u) /\ h = Count(UnitsOf(hostInput), u)
            /\ p = Count(prefix, u) /\ g = Count(UnitsOf(batch), u)
            /\ t = Count(UnitsOf(todo), u) /\ e = Count(pending, u) /\ s = Count(socket, u)
    BY CountsNat, Zenon
  <1>9. Total(u) = d + h + p + g + t + e + s
    BY <1>8 DEF Total
  <1>10. CASE u \in 1 .. (2 * n)
    <2>1. \A j \in 1 .. Len(two) : two[j] # u
      BY <1>5, <1>10, SMTT(20)
    <2>2. Count(two, u) = 0
      BY <1>5, <2>1, CountAbsent
    <2>3. u \in BackendUnits
      <3>1. MessageOf(u) \in 1 .. n
        BY <1>5, <1>10, MessageSent
      <3> QED BY <1>1, <1>10, <3>1 DEF BackendUnits, SentUnits
    <2>4. Total(u) = 1
      BY <1>4, <2>3 DEF Balanced
    <2>5. Count(socket', u) = s
      BY <1>6, <1>8, <2>2
    <2>6. Total(u)' = d + h + p + g + t + e + s
      BY <1>7, <1>8, <2>5 DEF Total
    <2> QED BY <1>9, <2>4, <2>6
  <1>11. CASE u \notin 1 .. (2 * n)
    <2>1. u = 2 * n + 1 \/ u = 2 * n + 2
      BY <1>5, <1>11
    <2>2. Count(two, u) = 1
      <3>1. u = 2 * n + 1 => Places(two, u) = {1}
        BY <1>5 DEF Places
      <3>2. u = 2 * n + 2 => Places(two, u) = {2}
        BY <1>5 DEF Places
      <3> QED BY <2>1, <3>1, <3>2, FS_Singleton DEF Count
    <2>3. u \notin SentUnits
      BY <1>11 DEF SentUnits
    <2>4. d = 0 /\ h = 0 /\ p = 0 /\ g = 0 /\ t = 0 /\ e = 0 /\ s = 0
      <3>1. ASSUME NEW q \in Seq(SentUnits) PROVE Count(q, u) = 0
        <4>1. \A j \in 1 .. Len(q) : q[j] # u
          BY <2>3
        <4> QED BY <4>1, CountAbsent
      <3> QED BY <1>8, <3>1, Buffers
    <2>5. Count(socket', u) = 1
      BY <1>6, <1>8, <2>2, <2>4
    <2>6. Total(u)' = d + h + p + g + t + e + 1
      BY <1>7, <1>8, <2>5 DEF Total
    <2> QED BY <2>4, <2>6
  <1> QED BY <1>10, <1>11

(* The backend takes a unit off the prefix or the socket.                  *)
LEMMA StreamBalance ==
    ASSUME Inv, LossInv, StreamRead
    PROVE  LossInv'
  <1>1. PICK v \in SentUnits : StreamOf(v)
    BY StreamEffect DEF StreamOf
  <1>2. /\ sent' = sent /\ UNCHANGED <<pending, todo, batch, result, hostInput>>
        /\ closeAfter' = closeAfter /\ stage # "done"
    BY DEF StreamRead, Streaming
  <1>3. SUFFICES ASSUME ~closeAfter', result' = "running"
                 PROVE  Balanced'
    BY DEF LossInv
  <1>4. Balanced
    <2>1. ~closeAfter
      BY <1>2, <1>3, Zenon
    <2> QED BY <1>2, <1>3, <2>1 DEF LossInv
  <1>5. ASSUME NEW u \in BackendUnits PROVE Total(u)' = Total(u)
    <2>1. PICK d \in Nat, h \in Nat, p \in Nat, g \in Nat, t \in Nat, e \in Nat, s \in Nat :
              /\ d = Count(delivered, u) /\ h = Count(UnitsOf(hostInput), u)
              /\ p = Count(prefix, u) /\ g = Count(UnitsOf(batch), u)
              /\ t = Count(UnitsOf(todo), u) /\ e = Count(pending, u) /\ s = Count(socket, u)
      BY CountsNat, Zenon
    <2>2. /\ prefix \in Seq(SentUnits) /\ socket \in Seq(SentUnits)
          /\ delivered \in Seq(SentUnits) /\ <<v>> \in Seq(SentUnits)
      BY Buffers
    <2>3. PICK one \in Nat : one = Count(<<v>>, u)
      BY <2>2, CountNat
    <2>4. Count(delivered', u) = d + one
      <3>1. delivered' = delivered \o <<v>>
        BY <1>1, <2>2 DEF StreamOf
      <3>2. Count(delivered \o <<v>>, u) = Count(delivered, u) + Count(<<v>>, u)
        BY <2>2, CountConcat
      <3> QED BY <2>1, <2>3, <3>1, <3>2
    <2>5. ASSUME NEW q \in Seq(SentUnits), q # <<>>, v = Head(q)
          PROVE  Count(q, u) = one + Count(Tail(q), u) /\ Count(Tail(q), u) \in Nat
      <3>1. q = <<v>> \o Tail(q) /\ Tail(q) \in Seq(SentUnits)
        BY <2>5
      <3>2. Count(<<v>> \o Tail(q), u) = Count(<<v>>, u) + Count(Tail(q), u)
        BY <2>2, <3>1, CountConcat
      <3> QED BY <2>3, <3>1, <3>2, CountNat
    <2>6. Total(u) = d + h + p + g + t + e + s
      BY <2>1 DEF Total
    <2>7. CASE prefix # <<>> /\ v = Head(prefix) /\ prefix' = Tail(prefix) /\ socket' = socket
      <3>1. PICK q \in Nat : q = Count(prefix', u) /\ p = one + q
        BY <2>1, <2>2, <2>5, <2>7
      <3>2. Total(u)' = (d + one) + h + q + g + t + e + s
        BY <1>2, <2>1, <2>4, <2>7, <3>1 DEF Total
      <3>3. (d + one) + h + q + g + t + e + s = d + h + p + g + t + e + s
        BY <3>1
      <3> QED BY <2>6, <3>2, <3>3
    <2>8. CASE prefix' = prefix /\ socket # <<>> /\ v = Head(socket) /\ socket' = Tail(socket)
      <3>1. PICK q \in Nat : q = Count(socket', u) /\ s = one + q
        BY <2>1, <2>2, <2>5, <2>8
      <3>2. Total(u)' = (d + one) + h + p + g + t + e + q
        BY <1>2, <2>1, <2>4, <2>8, <3>1 DEF Total
      <3>3. (d + one) + h + p + g + t + e + q = d + h + p + g + t + e + s
        BY <3>1
      <3> QED BY <2>6, <3>2, <3>3
    <2> QED BY <1>1, <2>7, <2>8 DEF StreamOf
  <1> QED BY <1>2, <1>4, <1>5, MovesKeep

(* What the handler had read beyond the batch becomes the prefix.          *)
LEMMA DrainBalance ==
    ASSUME Inv, LossInv, DrainReturns
    PROVE  LossInv'
  <1>1. /\ sent' = sent /\ socket' = socket /\ delivered' = delivered
        /\ UNCHANGED <<batch, hostInput, result>> /\ closeAfter' = closeAfter
        /\ prefix' = UnitsOf(todo) \o pending /\ todo' = <<>> /\ pending' = <<>>
        /\ stage = "drain"
    BY DEF DrainReturns, ContinuationPrefix, clientVars, seenVars, Dispatching
  <1>2. SUFFICES ASSUME ~closeAfter', result' = "running"
                 PROVE  Balanced'
    BY DEF LossInv
  <1>3. Balanced
    <2>1. ~closeAfter
      BY <1>1, <1>2, Zenon
    <2> QED BY <1>1, <1>2, <2>1 DEF LossInv
  <1>4. ASSUME NEW u \in BackendUnits PROVE Total(u)' = Total(u)
    <2>1. PICK d \in Nat, h \in Nat, g \in Nat, t \in Nat, e \in Nat, s \in Nat :
              /\ d = Count(delivered, u) /\ h = Count(UnitsOf(hostInput), u)
              /\ g = Count(UnitsOf(batch), u)
              /\ t = Count(UnitsOf(todo), u) /\ e = Count(pending, u) /\ s = Count(socket, u)
      BY CountsNat, Zenon
    <2>2. Count(prefix', u) = t + e
      BY <1>1, <2>1, Buffers, CountConcat
    <2>3. Count(prefix, u) = 0
      BY <1>1, CountEmpty DEF Inv, StageInv
    <2>4. Count(UnitsOf(todo'), u) = 0 /\ Count(pending', u) = 0
      BY <1>1, NoUnits, CountEmpty
    <2>5. Total(u) = d + h + 0 + g + t + e + s
      BY <2>1, <2>3 DEF Total
    <2>6. Total(u)' = d + h + (t + e) + g + 0 + 0 + s
      BY <1>1, <2>1, <2>2, <2>4 DEF Total
    <2>7. d + h + (t + e) + g + 0 + 0 + s = d + h + 0 + g + t + e + s
      OBVIOUS
    <2> QED BY <2>5, <2>6, <2>7
  <1> QED BY <1>1, <1>3, <1>4, MovesKeep

(* Every step keeps the balance.                                           *)
LEMMA NextBalance == Inv /\ LossInv /\ [Next]_vars => LossInv'
  <1> SUFFICES ASSUME Inv, LossInv, [Next]_vars PROVE LossInv'
    OBVIOUS
  <1>1. CASE \/ ReadFails \/ HandleBadCode \/ DrainGivesUp \/ Cleanup \/ StreamFails
             \/ StreamEnds
    <2>1. stage' = "done"
      BY <1>1 DEF ReadFails, HandleBadCode, DrainGivesUp, Cleanup, StreamFails, StreamEnds,
         ReturnErr, Abort
    <2> QED BY <2>1 DEF LossInv
  <1>2. CASE HandleSsl \/ HandleClosing
    <2>1. /\ UNCHANGED clientVars /\ stage = "handle" /\ todo # <<>>
          /\ Kind(Head(todo)) \in Channel!ControlKinds
          /\ FlushIfStarted(Handled(FALSE)) \/ FlushIfStarted(Handled(TRUE))
      BY <1>2 DEF HandleSsl, HandleClosing, Handling, Channel!ControlKinds
    <2> QED BY <2>1, HandledBalance
  <1>3. CASE EndOfRead \/ StreamEof \/ ClientClose \/ Finished \/ UNCHANGED vars
    <2>1. /\ sent' = sent /\ socket' = socket /\ delivered' = delivered
          /\ hostInput' = hostInput /\ prefix' = prefix /\ result' = result
          /\ batch' = batch /\ todo' = todo /\ pending' = pending /\ closeAfter' = closeAfter
      BY <1>3 DEF EndOfRead, StreamEof, ClientClose, Finished, vars, clientVars, handlerVars,
         pumpVars, seenVars
    <2>2. stage' # "done" => stage # "done"
      BY <1>3 DEF EndOfRead, StreamEof, ClientClose, Finished, vars, handlerVars, Streaming
    <2>3. SUFFICES ASSUME stage' # "done", ~closeAfter', result' = "running"
                   PROVE  Balanced'
      BY DEF LossInv
    <2>4. ~closeAfter
      BY <2>1, <2>3, Zenon
    <2>5. Balanced
      BY <2>1, <2>2, <2>3, <2>4 DEF LossInv
    <2>6. \A u \in BackendUnits : Total(u)' = Total(u)
      BY <2>1 DEF Total
    <2> QED BY <2>1, <2>5, <2>6, MovesKeep
  <1> QED BY <1>1, <1>2, <1>3, ReadBalance, EofBalance, StartupBalance, ProtocolBalance,
             SendBalance, StreamBalance, DrainBalance
          DEF Next, Handler

(* The first state: everything sent is in the socket.                      *)
LEMMA InitBalance == Init => LossInv
  <1> SUFFICES ASSUME Init, NEW u \in SentUnits PROVE Total(u) = 1
    BY DEF LossInv, Balanced, BackendUnits
  <1>1. Inv
    BY InitInv
  <1>2. /\ delivered = <<>> /\ hostInput = <<>> /\ prefix = <<>> /\ batch = <<>>
        /\ todo = <<>> /\ pending = <<>>
        /\ socket = [j \in 1 .. (2 * Len(sent)) |-> j] /\ Len(sent) \in Nat
    BY <1>1, Buffers DEF Init
  <1>3. Places(socket, u) = {u}
    BY <1>2 DEF Places, SentUnits
  <1>4. Count(socket, u) = 1
    BY <1>3, FS_Singleton DEF Count
  <1> QED BY <1>2, <1>4, CountEmpty, NoUnits DEF Total

(* Until the connection ends, every unit of a backend message is with the  *)
(* backend or in exactly one of the buffers before it: cutting frames,     *)
(* batching, flushing, the COPY handoff and its continuation prefix move   *)
(* units and neither drop nor repeat one, for any client, read sizes and   *)
(* receive buffer.                                                         *)
THEOREM NoUnitLost == Spec => []NothingLost
  <1>1. Inv /\ LossInv => NothingLost
    BY LossInvSays
  <1> QED BY <1>1, InitBalance, NextBalance, Invariance, PTL DEF Spec

-----------------------------------------------------------------------------
(* The connection implements the channel.                                  *)

(* What the order of delivery rests on.  The prelude starts no COPY that   *)
(* its sender would have to wait for.  And a client that leaves a COPY TO  *)
(* unflushed in the batch sends no control packet behind it: the flush     *)
(* before that packet hands the socket over without what was read behind   *)
(* it.                                                                     *)
Uses(p) == p.kinds \cup {p.prelude[j] : j \in DOMAIN p.prelude}

WellBehaved(p) ==
    /\ \A j \in DOMAIN p.prelude : p.prelude[j] \notin CopyInKinds
    /\ "CopyOutExec" \in Uses(p) => Uses(p) \cap {"Ssl", "Cancel", "Terminate"} = {}

PatientBehave == \A p \in Profiles : p.patient => WellBehaved(p)

(* The receive buffer takes a COPY together with what is behind it in the  *)
(* batch: if the Sync were left in the host's input, the backend would get *)
(* the COPY data first.                                                    *)
CopyFits == profile.patient /\ Has(batch, CopyKinds) => Len(batch) < profile.recv

(* w is the units of the first n, in order, that are not control packets': *)
(* none of these is missing, and none comes twice.                         *)
Increasing(s) == \A i, j \in 1 .. Len(s) : i < j => s[i] < s[j]

Exact(w, n) ==
    /\ Increasing(w)
    /\ \A j \in 1 .. Len(w) : w[j] <= n
    /\ \A u \in 1 .. n :
        sent[MessageOf(u)] \notin Channel!ControlKinds => \E j \in 1 .. Len(w) : w[j] = u

(* How many units belong to handled messages; these are delivered or in    *)
(* the batch.  A query is a boundary, so none waits in the batch.          *)
HandledUnits == Taken - Len(pending) - 2 * Len(todo)

HandledInOrder ==
    /\ \A j \in 1 .. Len(batch) : Kind(batch[j]) \notin {"CopyInQuery", "CopyOutQuery"}
    /\ Exact(delivered \o UnitsOf(batch), HandledUnits)

(* Behind the units that were delivered comes the continuation, and then   *)
(* the socket.                                                             *)
Continuation == IF stage = "drain" THEN ContinuationPrefix ELSE prefix
StreamedUnits == Taken - Len(Continuation)

StreamedInOrder ==
    /\ StreamedUnits \in Nat
    /\ Exact(delivered, StreamedUnits)
    /\ \A j \in 1 .. Len(Continuation) : Continuation[j] = StreamedUnits + j
    /\ stage = "drain" /\ entries # 0 => Continuation = <<>>

(* Before the first CopyInResponse a patient client that started a COPY    *)
(* sent at most the Sync or Flush behind it.                               *)
Waiting ==
    copyReady = 0 =>
        \A i \in 1 .. Len(sent) : sent[i] \in CopyInKinds =>
            \/ i = Len(sent)
            \/ /\ i = Len(sent) - 1 /\ sent[i] = "CopyInExec"
               /\ sent[Len(sent)] \in {"Sync", "Flush"}

(* What the backend and the client have seen is as the channel promises.   *)
SeenInOrder == Channel!Faithful(delivered, sent) /\ Channel!AnswersFollow(answered, delivered)

ReadOrder == stage \in Reading /\ (todo # <<>> \/ ~closeAfter) => HandledInOrder

StreamOrder ==
    /\ stage \in {"drain", "stream"} /\ result = "running" =>
        hostInput = <<>> /\ StreamedInOrder
    /\ stage \in Served /\ result = "err" =>
        ClientGone /\ Len(socket) = lost /\ prefix = <<>> /\ todo = <<>> /\ pending = <<>>

PatientInv == SeenInOrder /\ Waiting /\ ReadOrder /\ StreamOrder

OrderInv ==
    /\ \A i \in 1 .. Len(sent) : sent[i] \in Uses(profile)
    /\ profile.patient => PatientInv

(* Lengths are natural numbers.                                            *)
LEMMA LenNat ==
    ASSUME NEW S, NEW s \in Seq(S) PROVE Len(s) \in Nat
  OBVIOUS

(* A sequence of numbers that is extended is one.                          *)
LEMMA AppendNat ==
    ASSUME NEW s \in Seq(Nat), NEW n \in Nat PROVE Append(s, n + 1) \in Seq(Nat)
  <1>1. n + 1 \in Nat
    OBVIOUS
  <1> QED BY <1>1

(* A unit that is n + 1 units from the start follows n exact ones.         *)
LEMMA ExactNext ==
    ASSUME NEW w \in Seq(Nat), NEW n \in Nat, Exact(w, n)
    PROVE  Exact(Append(w, n + 1), n + 1)
  <1>1. PICK m \in Nat, v \in Seq(Nat) : m = Len(w) /\ v = Append(w, n + 1)
    BY Zenon, LenNat, AppendNat
  <1>2. Len(v) = m + 1 /\ v[m + 1] = n + 1 /\ \A j \in 1 .. m : v[j] = w[j]
    BY <1>1
  <1>3. \A j \in 1 .. m : w[j] \in Nat /\ w[j] <= n
    BY <1>1 DEF Exact
  <1>4. \A j \in 1 .. (m + 1) : j \in 1 .. m \/ j = m + 1
    OBVIOUS
  <1>5. Increasing(v)
    <2>1. ASSUME NEW i \in 1 .. (m + 1), NEW j \in 1 .. (m + 1), i < j PROVE v[i] < v[j]
      <3>1. i \in 1 .. m
        BY <2>1
      <3>2. CASE j \in 1 .. m
        BY <1>1, <1>2, <2>1, <3>1, <3>2 DEF Exact, Increasing
      <3>3. CASE j = m + 1
        BY <1>2, <1>3, <3>1, <3>3
      <3> QED BY <1>4, <3>2, <3>3
    <2> QED BY <1>2, <2>1 DEF Increasing
  <1>6. \A j \in 1 .. Len(v) : v[j] <= n + 1
    BY <1>2, <1>3, <1>4, SMTT(20)
  <1>7. ASSUME NEW u \in 1 .. (n + 1), sent[MessageOf(u)] \notin Channel!ControlKinds
        PROVE  \E j \in 1 .. Len(v) : v[j] = u
    <2>1. CASE u \in 1 .. n
      <3>1. PICK j \in 1 .. m : w[j] = u
        BY <1>1, <1>7, <2>1 DEF Exact
      <3> QED BY <1>2, <3>1
    <2>2. CASE u = n + 1
      BY <1>2, <2>2
    <2> QED BY <2>1, <2>2
  <1> QED BY <1>1, <1>5, <1>6, <1>7 DEF Exact

(* A control packet need not be there.                                     *)
LEMMA ExactSkip ==
    ASSUME NEW w \in Seq(Nat), NEW q \in Nat, Exact(w, 2 * q),
           sent[q + 1] \in Channel!ControlKinds
    PROVE  Exact(w, 2 * (q + 1))
  <1>1. MessageOf(2 * q + 1) = q + 1 /\ MessageOf(2 * q + 2) = q + 1
    <2>1. PICK m \in Nat : m = q + 1
      OBVIOUS
    <2>a. m > 0
      BY <2>1
    <2>2. MessageOf(2 * m) = m /\ MessageOf(2 * m - 1) = m
      BY <2>a, MessageOfUnits
    <2>3. 2 * m = 2 * q + 2 /\ 2 * m - 1 = 2 * q + 1
      BY <2>1
    <2> QED BY <2>1, <2>2, <2>3
  <1>2. ASSUME NEW u \in 1 .. (2 * (q + 1)), sent[MessageOf(u)] \notin Channel!ControlKinds
        PROVE  \E j \in 1 .. Len(w) : w[j] = u
    <2>1. u \in 1 .. (2 * q) \/ u = 2 * q + 1 \/ u = 2 * q + 2
      OBVIOUS
    <2> QED BY <1>1, <1>2, <2>1 DEF Exact
  <1>3. \A j \in 1 .. Len(w) : w[j] <= 2 * (q + 1)
    <2>1. \A j \in 1 .. Len(w) : w[j] \in Nat /\ w[j] <= 2 * q
      BY DEF Exact
    <2> QED BY <2>1
  <1> QED BY <1>2, <1>3 DEF Exact

(* What was delivered of exact units is faithful to what was sent.         *)
LEMMA ExactFaithful ==
    ASSUME NEW w \in Seq(Nat), NEW d \in Seq(Nat), Len(d) <= Len(w),
           \A j \in 1 .. Len(d) : d[j] = w[j], \A j \in 1 .. Len(w) : w[j] > 0,
           NEW n \in Nat, Exact(w, n), Len(sent) \in Nat, n <= 2 * Len(sent)
    PROVE  Channel!Faithful(d, sent)
  <1>1. PICK k \in Nat, m \in Nat : k = Len(d) /\ m = Len(w)
    BY LenNat, Zenon
  <1>2. DOMAIN d = 1 .. k /\ k <= m
    BY <1>1
  <1>3. \A j \in 1 .. k : j \in 1 .. m /\ d[j] = w[j] /\ w[j] \in Nat /\ w[j] <= n
    BY <1>1, <1>2 DEF Exact
  <1>4. \A i, j \in 1 .. m : i < j => w[i] < w[j]
    BY <1>1 DEF Exact, Increasing
  <1>5. ASSUME NEW j \in 1 .. k, NEW u \in (IF j = 1 THEN 1 ELSE d[j - 1] + 1) .. (d[j] - 1)
        PROVE  sent[MessageOf(u)] \in Channel!ControlKinds
    <2>1. u \in 1 .. n /\ u < w[j]
      <3>1. CASE j = 1
        BY <1>3, <3>1
      <3>2. CASE j # 1
        <4>1. j - 1 \in 1 .. k
          BY <3>2
        <4>2. d[j - 1] \in Nat /\ d[j] \in Nat /\ d[j] <= n /\ d[j] = w[j]
          BY <1>3, <4>1
        <4>3. u \in (d[j - 1] + 1) .. (d[j] - 1)
          BY <3>2
        <4>4. PICK x \in Nat, y \in Nat : x = d[j - 1] /\ y = d[j]
          BY <4>2, Zenon
        <4>5. u \in (x + 1) .. (y - 1) /\ y <= n
          BY <4>2, <4>3, <4>4, Zenon
        <4>6. u \in 1 .. n /\ u < y
          BY <4>5
        <4> QED BY <4>2, <4>4, <4>6
      <3> QED BY <3>1, <3>2
    <2>2. SUFFICES ASSUME NEW i \in 1 .. m, w[i] = u PROVE FALSE
      BY <1>1, <2>1 DEF Exact
    <2>3. i < j
      <3>1. j \in 1 .. m /\ w[j] \in Nat
        BY <1>3
      <3>2. ~(j < i)
        BY <1>4, <2>1, <2>2, <3>1
      <3>3. i # j
        BY <2>1, <2>2, <3>1
      <3> QED BY <3>1, <3>2, <3>3
    <2>4. j # 1 /\ j - 1 \in 1 .. k /\ d[j - 1] = w[j - 1] /\ w[j - 1] \in Nat /\ j - 1 \in 1 .. m
      <3>1. j # 1 /\ j - 1 \in 1 .. k
        BY <2>3
      <3> QED BY <1>3, <3>1
    <2>5. u >= w[j - 1] + 1
      BY <2>4
    <2>6. i = j - 1 \/ i < j - 1
      BY <2>3
    <2>7. i < j - 1 => w[i] < w[j - 1]
      BY <1>4, <2>4
    <2> QED BY <2>1, <2>2, <2>4, <2>5, <2>6, <2>7, SMTT(20)
  <1>6. \A i, j \in 1 .. k : i < j => d[i] < d[j]
    BY <1>3, <1>4
  <1>7. \A j \in 1 .. k : d[j] <= 2 * Len(sent)
    BY <1>3
  <1> QED BY <1>2, <1>5, <1>6, <1>7 DEF Channel!Faithful, Channel!MessageOf, MessageOf

(* Later messages change nothing about earlier units.                      *)
LEMMA ExactSent ==
    ASSUME NEW w, NEW n \in Nat, Exact(w, n), Len(sent) \in Nat, n <= 2 * Len(sent),
           \A i \in 1 .. Len(sent) : sent'[i] = sent[i]
    PROVE  \A x : x = w => Exact(x, n)'
  <1>1. ASSUME NEW u \in 1 .. n PROVE sent'[MessageOf(u)] = sent[MessageOf(u)]
    <2>1. u \in 1 .. (2 * Len(sent))
      OBVIOUS
    <2>2. MessageOf(u) \in 1 .. Len(sent)
      BY <2>1, MessageSent
    <2> QED BY <2>2
  <1> QED BY <1>1 DEF Exact, Increasing, Channel!ControlKinds

(* What was delivered in order stays so when more is sent.                 *)
LEMMA FaithfulSent ==
    ASSUME Inv, ClientSend, Channel!Faithful(delivered, sent)
    PROVE  Channel!Faithful(delivered, sent)'
  <1>1. /\ Len(sent) \in Nat /\ Len(sent') = Len(sent) + 1
        /\ \A i \in 1 .. Len(sent) : sent'[i] = sent[i]
        /\ delivered' = delivered /\ delivered \in Seq(SentUnits)
    BY SendEffect, Buffers DEF ClientSend, seenVars
  <1>2. DOMAIN delivered = 1 .. Len(delivered)
        /\ \A j \in 1 .. Len(delivered) : delivered[j] \in 1 .. (2 * Len(sent))
    BY <1>1 DEF SentUnits
  <1>3. ASSUME NEW j \in DOMAIN delivered,
               NEW u \in (IF j = 1 THEN 1 ELSE delivered[j - 1] + 1) .. (delivered[j] - 1)
        PROVE  sent'[MessageOf(u)] = sent[MessageOf(u)]
    <2>1. u \in 1 .. (2 * Len(sent))
      <3>1. delivered[j] \in 1 .. (2 * Len(sent))
        BY <1>2
      <3>2. CASE j = 1
        BY <1>1, <3>1, <3>2
      <3>3. CASE j # 1
        <4>1. delivered[j - 1] \in 1 .. (2 * Len(sent))
          BY <1>2, <3>3
        <4>2. u \in (delivered[j - 1] + 1) .. (delivered[j] - 1)
          BY <3>3
        <4> QED BY <1>1, <3>1, <4>1, <4>2
      <3> QED BY <3>2, <3>3
    <2>2. MessageOf(u) \in 1 .. Len(sent)
      BY <1>1, <2>1, MessageSent
    <2> QED BY <1>1, <2>2
  <1>4. \A j \in DOMAIN delivered : delivered[j] <= 2 * Len(sent')
    BY <1>1, <1>2
  <1> QED BY <1>1, <1>3, <1>4 DEF Channel!Faithful, Channel!MessageOf, MessageOf, Channel!ControlKinds

(* The units of one more message come last.                                *)
LEMMA UnitsAfter ==
    ASSUME NEW n \in Nat, NEW d \in Seq(1 .. (2 * n)), NEW ms \in Seq(1 .. n), NEW m \in 1 .. n
    PROVE  d \o UnitsOf(Append(ms, m)) = Append(Append(d \o UnitsOf(ms), 2 * m - 1), 2 * m)
  <1>1. <<m>> \in Seq(1 .. n) /\ Append(ms, m) = ms \o <<m>>
    OBVIOUS
  <1>2. UnitsOf(Append(ms, m)) = UnitsOf(ms) \o UnitsOf(<<m>>)
    BY <1>1, UnitsConcat
  <1>3. 2 * m - 1 \in 1 .. (2 * n) /\ 2 * m \in 1 .. (2 * n)
    OBVIOUS
  <1>4. UnitsOf(<<m>>) = <<2 * m - 1, 2 * m>>
    <2>1. Len(<<m>>) = 1 /\ <<m>>[1] = m /\ 1 \in 1 .. Len(<<m>>)
      OBVIOUS
    <2>2. /\ UnitsOf(<<m>>) \in Seq(1 .. (2 * n)) /\ Len(UnitsOf(<<m>>)) = 2 * Len(<<m>>)
          /\ UnitsOf(<<m>>)[2 * 1 - 1] = 2 * <<m>>[1] - 1
          /\ UnitsOf(<<m>>)[2 * 1] = 2 * <<m>>[1]
      BY <1>1, <2>1, UnitsOfSeq
    <2> QED BY <2>1, <2>2
  <1>5. UnitsOf(ms) \in Seq(1 .. (2 * n)) /\ UnitsOf(<<m>>) \in Seq(1 .. (2 * n))
    BY <1>1, UnitsOfSeq
  <1>6. d \o (UnitsOf(ms) \o UnitsOf(<<m>>)) = (d \o UnitsOf(ms)) \o UnitsOf(<<m>>)
    BY <1>5, ConcatAssociative, SMTT(20)
  <1>7. PICK w \in Seq(1 .. (2 * n)) : w = d \o UnitsOf(ms)
    <2>1. d \o UnitsOf(ms) \in Seq(1 .. (2 * n))
      BY <1>5, ConcatOf
    <2> QED BY <2>1, Zenon
  <1>8. w \o <<2 * m - 1, 2 * m>> = Append(Append(w, 2 * m - 1), 2 * m)
    BY <1>3
  <1> QED BY <1>2, <1>4, <1>6, <1>7, <1>8

(* The whole next message follows exact ones.                              *)
LEMMA ExactMessage ==
    ASSUME NEW w \in Seq(Nat), NEW q \in Nat, Exact(w, 2 * q)
    PROVE  Exact(Append(Append(w, 2 * (q + 1) - 1), 2 * (q + 1)), 2 * (q + 1))
  <1>1. PICK n \in Nat, m \in Nat : n = 2 * q /\ m = n + 1
    OBVIOUS
  <1>2. 2 * (q + 1) - 1 = m /\ 2 * (q + 1) = m + 1
    BY <1>1
  <1>3. Exact(Append(w, m), m) /\ Append(w, m) \in Seq(Nat)
    BY <1>1, ExactNext, AppendNat
  <1>4. Exact(Append(Append(w, m), m + 1), m + 1)
    BY <1>3, ExactNext
  <1> QED BY <1>2, <1>4

(* Units that are in order say the messages are.                           *)
LEMMA InOrderMessages ==
    ASSUME NEW n \in Nat, NEW d \in Seq(1 .. (2 * n)), NEW ms \in Seq(1 .. n),
           Increasing(d \o UnitsOf(ms))
    PROVE  /\ \A i, j \in 1 .. Len(ms) : i < j => ms[i] < ms[j]
           /\ \A i \in 1 .. Len(d) : \A j \in 1 .. Len(ms) : d[i] < 2 * ms[j]
           /\ Increasing(d)
  <1>1. PICK x \in Nat, y \in Nat, us \in Seq(1 .. (2 * n)) :
            x = Len(d) /\ y = Len(ms) /\ us = UnitsOf(ms)
    BY LenNat, UnitsOfSeq, Zenon
  <1>2. Len(us) = 2 * y /\ \A k \in 1 .. y : us[2 * k] = 2 * ms[k]
    BY <1>1, UnitsOfSeq
  <1>3. PICK w \in Seq(1 .. (2 * n)) : w = d \o us
    <2>1. d \o us \in Seq(1 .. (2 * n))
      BY ConcatOf
    <2> QED BY <2>1, Zenon
  <1>4. /\ Len(w) = x + 2 * y /\ \A j \in 1 .. x : w[j] = d[j]
        /\ \A j \in 1 .. (2 * y) : w[x + j] = us[j]
    <2>1. /\ Len(d \o us) = Len(d) + Len(us) /\ \A j \in 1 .. Len(d) : (d \o us)[j] = d[j]
          /\ \A j \in 1 .. Len(us) : (d \o us)[Len(d) + j] = us[j]
      BY ConcatOf
    <2> QED BY <1>1, <1>2, <1>3, <2>1
  <1>5. \A i, j \in 1 .. (x + 2 * y) : i < j => w[i] < w[j]
    BY <1>1, <1>3, <1>4 DEF Increasing
  <1>6. ASSUME NEW k \in 1 .. y
        PROVE  w[x + 2 * k] = 2 * ms[k] /\ x + 2 * k \in 1 .. (x + 2 * y)
    <2>1. 2 * k \in 1 .. (2 * y)
      OBVIOUS
    <2> QED BY <1>2, <1>4, <2>1
  <1>7. \A k \in 1 .. y : ms[k] \in Nat
    BY <1>1
  <1>8. ASSUME NEW i \in 1 .. y, NEW j \in 1 .. y, i < j PROVE ms[i] < ms[j]
    <2>1. x + 2 * i < x + 2 * j
      BY <1>8
    <2>2. w[x + 2 * i] < w[x + 2 * j]
      BY <1>5, <1>6, <2>1
    <2>3. PICK a \in Nat, b \in Nat : a = ms[i] /\ b = ms[j]
      BY <1>7, Zenon
    <2>4. 2 * a < 2 * b
      BY <1>6, <2>2, <2>3
    <2>5. a < b
      BY <2>4
    <2> QED BY <2>3, <2>5
  <1>9. ASSUME NEW i \in 1 .. x, NEW j \in 1 .. y PROVE d[i] < 2 * ms[j]
    <2>1. i \in 1 .. (x + 2 * y) /\ i < x + 2 * j
      OBVIOUS
    <2> QED BY <1>4, <1>5, <1>6, <2>1
  <1>10. \A i, j \in 1 .. x : i < j => d[i] < d[j]
    <2>1. \A i \in 1 .. x : i \in 1 .. (x + 2 * y)
      OBVIOUS
    <2> QED BY <1>4, <1>5, <2>1
  <1> QED BY <1>1, <1>8, <1>9, <1>10 DEF Increasing

(* Answers to a flushed batch, or to its first c messages, come behind the *)
(* earlier ones and follow their requests.                                 *)
LEMMA AnswersGrow ==
    ASSUME NEW n \in Nat, NEW d \in Seq(1 .. (2 * n)), NEW ms \in Seq(1 .. n),
           NEW a \in Seq(1 .. n), NEW c \in 0 .. Len(ms),
           Increasing(d \o UnitsOf(ms)), Channel!AnswersFollow(a, d)
    PROVE  Channel!AnswersFollow(a \o Answers(SubSeq(ms, 1, c)), d \o UnitsOf(ms))
  <1>0. \A x \in Seq(1 .. n) : /\ Len(a \o x) = Len(a) + Len(x)
                               /\ \A j \in 1 .. Len(a) : (a \o x)[j] = a[j]
                               /\ \A j \in 1 .. Len(x) : (a \o x)[Len(a) + j] = x[j]
    BY ConcatOf
  <1>1. PICK x \in Nat, y \in Nat, us \in Seq(1 .. (2 * n)) :
            x = Len(d) /\ y = Len(ms) /\ us = UnitsOf(ms)
    BY LenNat, UnitsOfSeq, Zenon
  <1>2. Len(us) = 2 * y /\ \A k \in 1 .. y : us[2 * k] = 2 * ms[k]
    BY <1>1, UnitsOfSeq
  <1>3. PICK w \in Seq(1 .. (2 * n)) : w = d \o us
    <2>1. d \o us \in Seq(1 .. (2 * n))
      BY ConcatOf
    <2> QED BY <2>1, Zenon
  <1>4. /\ Len(w) = x + 2 * y /\ \A j \in 1 .. x : w[j] = d[j]
        /\ \A j \in 1 .. (2 * y) : w[x + j] = us[j]
    <2>1. /\ Len(d \o us) = Len(d) + Len(us) /\ \A j \in 1 .. Len(d) : (d \o us)[j] = d[j]
          /\ \A j \in 1 .. Len(us) : (d \o us)[Len(d) + j] = us[j]
      BY ConcatOf
    <2> QED BY <1>1, <1>2, <1>3, <2>1
  <1>5. /\ \A i, j \in 1 .. y : i < j => ms[i] < ms[j]
        /\ \A i \in 1 .. x : \A j \in 1 .. y : d[i] < 2 * ms[j]
    BY <1>1, InOrderMessages
  <1>6. PICK sub \in Seq(1 .. n) : sub = SubSeq(ms, 1, c)
    <2>1. SubSeq(ms, 1, c) \in Seq(1 .. n)
      OBVIOUS
    <2> QED BY <2>1, Zenon
  <1>7. /\ Len(sub) = c /\ c \in Nat /\ c <= y
        /\ \A j \in 1 .. c : j \in 1 .. y /\ sub[j] = ms[j]
    BY <1>1, <1>6
  <1>8. PICK s \in Seq(1 .. n) : s = Answers(sub)
    BY AnswersSeq, Zenon
  <1>9. PICK m \in Nat, k \in Nat : m = Len(a) /\ k = Len(s)
    BY LenNat, Zenon
  <1>10. ASSUME NEW i \in 1 .. k
         PROVE  \E j \in 1 .. y : s[i] = ms[j]
    <2>1. PICK j \in 1 .. Len(sub) : s[i] = sub[j]
      BY <1>8, <1>9, AnswersSeq
    <2> QED BY <1>7, <2>1
  <1>11. \A i, j \in 1 .. k : i < j => s[i] < s[j]
    <2>1. \A i, j \in 1 .. Len(sub) : i < j => sub[i] < sub[j]
      BY <1>5, <1>7
    <2> QED BY <1>8, <1>9, <2>1, AnswersSeq
  <1>12. PICK e \in Seq(1 .. n) : e = a \o s
    <2>1. a \o s \in Seq(1 .. n)
      BY ConcatOf
    <2> QED BY <2>1, Zenon
  <1>13. /\ Len(e) = m + k /\ \A j \in 1 .. m : e[j] = a[j] /\ a[j] \in Nat
         /\ \A j \in 1 .. k : e[m + j] = s[j] /\ s[j] \in Nat
    <2>1. Len(e) = Len(a) + Len(s)
      BY <1>0, <1>12, Zenon
    <2>2. \A j \in 1 .. Len(a) : e[j] = a[j]
      BY <1>0, <1>12, Zenon
    <2>3. \A j \in 1 .. Len(s) : e[Len(a) + j] = s[j]
      BY <1>0, <1>12, Zenon
    <2>4. (\A j \in 1 .. m : a[j] \in 1 .. n) /\ \A j \in 1 .. k : s[j] \in 1 .. n
      BY <1>9, ElementOfSeq, Zenon
    <2>5. (\A j \in 1 .. m : a[j] \in Nat) /\ \A j \in 1 .. k : s[j] \in Nat
      <3>1. \A i \in 1 .. n : i \in Nat
        OBVIOUS
      <3> QED BY <2>4, <3>1, Zenon
    <2> QED BY <1>9, <2>1, <2>2, <2>3, <2>5, Zenon
  <1>14. ASSUME NEW j \in 1 .. (m + k), j \notin 1 .. m
         PROVE  \E h \in 1 .. k : j = m + h
    <2>1. j - m \in 1 .. k /\ j = m + (j - m)
      BY <1>14
    <2> QED BY <2>1
  <1>a. DOMAIN a = 1 .. m /\ DOMAIN d = 1 .. x
    BY <1>1, <1>9
  <1>15. \A i \in 1 .. m : \E j \in 1 .. x : d[j] = 2 * a[i]
    BY <1>a, Zenon DEF Channel!AnswersFollow
  <1>16. \A i, j \in 1 .. m : i < j => a[i] < a[j]
    BY <1>a, Zenon DEF Channel!AnswersFollow
  <1>17. ASSUME NEW i \in 1 .. m, NEW h \in 1 .. k PROVE a[i] < s[h]
    <2>1. PICK j \in 1 .. x : d[j] = 2 * a[i]
      BY <1>15
    <2>2. PICK g \in 1 .. y : s[h] = ms[g]
      BY <1>10
    <2>3. PICK p \in Nat, q \in Nat : p = a[i] /\ q = s[h]
      BY <1>13, Zenon
    <2>4. 2 * p < 2 * q
      BY <1>5, <2>1, <2>2, <2>3
    <2>5. p < q
      BY <2>4
    <2> QED BY <2>3, <2>5
  <1>18. ASSUME NEW i \in 1 .. (m + k), NEW j \in 1 .. (m + k), i < j PROVE e[i] < e[j]
    <2>1. CASE i \in 1 .. m /\ j \in 1 .. m
      BY <1>13, <1>16, <1>18, <2>1
    <2>2. CASE i \in 1 .. m /\ j \notin 1 .. m
      BY <1>13, <1>14, <1>17, <2>2
    <2>3. CASE i \notin 1 .. m
      <3>1. j \notin 1 .. m
        BY <1>18, <2>3
      <3>2. PICK g \in 1 .. k, h \in 1 .. k : i = m + g /\ j = m + h
        BY <1>14, <2>3, <3>1
      <3>3. g < h
        BY <1>18, <3>2
      <3> QED BY <1>11, <1>13, <3>2, <3>3
    <2> QED BY <2>1, <2>2, <2>3
  <1>19. ASSUME NEW i \in 1 .. (m + k) PROVE \E j \in 1 .. (x + 2 * y) : w[j] = 2 * e[i]
    <2>1. CASE i \in 1 .. m
      <3>1. PICK j \in 1 .. x : d[j] = 2 * a[i]
        BY <1>15, <2>1
      <3>a. e[i] = a[i] /\ w[j] = d[j]
        BY <1>4, <1>13, <2>1
      <3>2. j \in 1 .. (x + 2 * y) /\ w[j] = 2 * e[i]
        BY <3>1, <3>a
      <3> QED BY <3>2
    <2>2. CASE i \notin 1 .. m
      <3>1. PICK h \in 1 .. k : i = m + h
        BY <1>14, <2>2
      <3>2. PICK g \in 1 .. y : s[h] = ms[g]
        BY <1>10
      <3>3. 2 * g \in 1 .. (2 * y) /\ x + 2 * g \in 1 .. (x + 2 * y)
        OBVIOUS
      <3>4. w[x + 2 * g] = 2 * e[i]
        BY <1>2, <1>4, <1>13, <3>1, <3>2, <3>3
      <3> QED BY <3>3, <3>4
    <2> QED BY <2>1, <2>2
  <1>20. DOMAIN e = 1 .. (m + k) /\ DOMAIN w = 1 .. (x + 2 * y)
    BY <1>4, <1>13
  <1> QED BY <1>1, <1>3, <1>6, <1>8, <1>12, <1>18, <1>19, <1>20 DEF Channel!AnswersFollow

(* A unit received over the stream is behind all that were delivered, and  *)
(* so is its message's answer.                                             *)
LEMMA AnswerNext ==
    ASSUME NEW n \in Nat, NEW d \in Seq(Nat), NEW a \in Seq(Nat), Exact(d, n),
           Channel!AnswersFollow(a, d)
    PROVE  /\ Channel!AnswersFollow(a, Append(d, n + 1))
           /\ \A m \in Nat : n + 1 = 2 * m =>
                Channel!AnswersFollow(Append(a, m), Append(d, n + 1))
  <1>1. PICK x \in Nat, y \in Nat : x = Len(d) /\ y = Len(a)
    BY LenNat, Zenon
  <1>2. PICK e \in Seq(Nat) : e = Append(d, n + 1)
    BY AppendNat, Zenon
  <1>3. /\ DOMAIN e = 1 .. (x + 1) /\ e[x + 1] = n + 1 /\ \A j \in 1 .. x : e[j] = d[j]
    BY <1>1, <1>2
  <1>a. DOMAIN a = 1 .. y /\ DOMAIN d = 1 .. x
    BY <1>1
  <1>4. ASSUME NEW i \in 1 .. y
        PROVE  (\E j \in 1 .. (x + 1) : e[j] = 2 * a[i]) /\ 2 * a[i] <= n /\ a[i] \in Nat
    <2>1. PICK j \in 1 .. x : d[j] = 2 * a[i]
      BY <1>a, Zenon DEF Channel!AnswersFollow
    <2>2. j \in 1 .. (x + 1) /\ e[j] = 2 * a[i] /\ 2 * a[i] <= n
      BY <1>1, <1>3, <2>1 DEF Exact
    <2> QED BY <1>1, <2>2, SMTT(20)
  <1>5. \A i, j \in 1 .. y : i < j => a[i] < a[j]
    BY <1>a, Zenon DEF Channel!AnswersFollow
  <1>6. Channel!AnswersFollow(a, e)
    BY <1>a, <1>3, <1>4, <1>5 DEF Channel!AnswersFollow
  <1>7. ASSUME NEW m \in Nat, n + 1 = 2 * m PROVE Channel!AnswersFollow(Append(a, m), e)
    <2>1. PICK b \in Seq(Nat) : b = Append(a, m)
      <3>1. Append(a, m) \in Seq(Nat)
        OBVIOUS
      <3> QED BY <3>1, Zenon
    <2>2. /\ DOMAIN b = 1 .. (y + 1) /\ b[y + 1] = m /\ \A j \in 1 .. y : b[j] = a[j]
      BY <1>1, <2>1
    <2>3. ASSUME NEW i \in 1 .. (y + 1), NEW j \in 1 .. (y + 1), i < j PROVE b[i] < b[j]
      <3>1. i \in 1 .. y
        BY <2>3
      <3>2. CASE j \in 1 .. y
        BY <1>5, <2>2, <2>3, <3>1, <3>2
      <3>3. CASE j = y + 1
        <4>1. 2 * a[i] <= n /\ a[i] \in Nat
          BY <1>4, <3>1
        <4>2. a[i] < m
          BY <1>7, <4>1
        <4> QED BY <2>2, <3>1, <3>3, <4>2
      <3> QED BY <3>2, <3>3
    <2>4. ASSUME NEW i \in 1 .. (y + 1) PROVE \E j \in 1 .. (x + 1) : e[j] = 2 * b[i]
      <3>1. CASE i \in 1 .. y
        BY <1>4, <2>2, <3>1
      <3>2. CASE i = y + 1
        BY <1>3, <1>7, <2>2, <3>2
      <3> QED BY <3>1, <3>2
    <2> QED BY <1>3, <2>1, <2>2, <2>3, <2>4 DEF Channel!AnswersFollow
  <1> QED BY <1>2, <1>6, <1>7

(* Where the handler is: q messages were handled, and the next is q + 1.   *)
LEMMA HandledPosition ==
    ASSUME Inv, stage \in Reading
    PROVE  \E q \in Nat :
             /\ HandledUnits = 2 * q /\ q <= Len(sent)
             /\ \A j \in 1 .. Len(batch) : batch[j] \in 1 .. q
             /\ todo # <<>> => Head(todo) = q + 1 /\ q + 1 <= Len(sent)
  <1>1. PICK r \in Nat : Reader(r)
    BY DEF Inv, ReaderInv
  <1>2. /\ todo \in Seq(SentMessages) /\ Len(pending) \in Nat /\ Len(socket) \in Nat
        /\ Len(sent) \in Nat /\ batch \in Seq(SentMessages)
    BY Buffers
  <1>3. PICK k \in Nat, q \in Nat : k = Len(todo) /\ q = r - k
    BY <1>1, <1>2 DEF Reader
  <1>4. HandledUnits = 2 * q
    BY <1>1, <1>2, <1>3 DEF Reader, HandledUnits
  <1>5. 2 * r <= 2 * Len(sent)
    BY <1>1, <1>2 DEF Reader, Taken
  <1>6. r <= Len(sent) /\ q <= Len(sent)
    BY <1>2, <1>3, <1>5
  <1>7. \A j \in 1 .. Len(batch) : batch[j] \in 1 .. q
    BY <1>1, <1>2, <1>3 DEF Reader, SentMessages
  <1>8. todo # <<>> => Head(todo) = q + 1 /\ q + 1 <= Len(sent)
    <2>1. SUFFICES ASSUME todo # <<>> PROVE Head(todo) = q + 1 /\ q + 1 <= Len(sent)
      OBVIOUS
    <2>2. Head(todo) = todo[1] /\ k > 0 /\ 1 \in 1 .. Len(todo)
      BY <1>2, <1>3, <2>1, TailOf
    <2>3. todo[1] = r - k + 1
      BY <1>1, <1>3, <2>2 DEF Reader
    <2> QED BY <1>2, <1>3, <1>6, <2>2, <2>3
  <1> QED BY <1>4, <1>6, <1>7, <1>8

(* A sequence of units is one of numbers.                                  *)
LEMMA UnitsNat ==
    ASSUME NEW n \in Nat, NEW s \in Seq(1 .. n) PROVE s \in Seq(Nat)
  <1>1. 1 .. n \subseteq Nat
    OBVIOUS
  <1> QED BY <1>1, SeqMono

(* What was handled is flushed, whole or to a client that is gone.         *)
LEMMA FlushSeen ==
    ASSUME Inv, NEW b \in Seq(SentMessages), NEW n \in Nat, n <= 2 * Len(sent), sent' = sent,
           Exact(delivered \o UnitsOf(b), n), SeenInOrder,
           delivered' = delivered \o UnitsOf(b),
           NEW c \in 0 .. Len(b), answered' = answered \o Answers(SubSeq(b, 1, c))
    PROVE  SeenInOrder'
  <1>1. /\ Len(sent) \in Nat /\ delivered \in Seq(1 .. (2 * Len(sent)))
        /\ UnitsOf(b) \in Seq(1 .. (2 * Len(sent))) /\ b \in Seq(1 .. Len(sent))
        /\ answered \in Seq(1 .. Len(sent))
    BY Buffers, UnitsOfSeq DEF SentUnits, SentMessages, Inv, SeenFields
  <1>2. PICK w \in Seq(1 .. (2 * Len(sent))) : w = delivered \o UnitsOf(b)
    <2>1. delivered \o UnitsOf(b) \in Seq(1 .. (2 * Len(sent)))
      BY <1>1, ConcatOf
    <2> QED BY <2>1, Zenon
  <1>3. w \in Seq(Nat) /\ \A j \in 1 .. Len(w) : w[j] > 0
    <2>1. 2 * Len(sent) \in Nat
      BY <1>1
    <2>2. w \in Seq(Nat)
      BY <2>1, UnitsNat, Zenon
    <2>3. \A j \in 1 .. Len(w) : w[j] \in 1 .. (2 * Len(sent))
      BY ElementOfSeq, Zenon
    <2>4. \A j \in 1 .. Len(w) : w[j] > 0
      BY <2>1, <2>3
    <2> QED BY <2>2, <2>4
  <1>4. Channel!Faithful(w, sent)
    <2>1. Exact(w, n) /\ Len(w) <= Len(w) /\ \A j \in 1 .. Len(w) : w[j] = w[j]
      BY <1>2, <1>3
    <2> QED BY <1>1, <1>3, <2>1, ExactFaithful
  <1>5. Channel!AnswersFollow(answered \o Answers(SubSeq(b, 1, c)), w)
    <2>1. Increasing(delivered \o UnitsOf(b)) /\ Channel!AnswersFollow(answered, delivered)
      BY DEF Exact, SeenInOrder
    <2> QED BY <1>1, <1>2, <2>1, AnswersGrow
  <1>6. Channel!Faithful(delivered', sent') /\ Channel!AnswersFollow(answered', delivered')
    BY <1>2, <1>4, <1>5
  <1> QED BY <1>6 DEF SeenInOrder, Channel!Faithful, Channel!AnswersFollow, Channel!MessageOf,
                      Channel!ControlKinds

(* No answers at all.                                                      *)
LEMMA NoAnswers ==
    ASSUME NEW n \in Nat, NEW b \in Seq(1 .. n), NEW a \in Seq(1 .. n)
    PROVE  /\ a \o Answers(SubSeq(b, 1, 0)) = a
           /\ SubSeq(b, 1, Len(b)) = b
  <1>1. SubSeq(b, 1, 0) = <<>> /\ <<>> \in Seq(1 .. n)
    OBVIOUS
  <1>2. Answers(<<>>) = <<>>
    <2>1. PICK s \in Seq(1 .. n) : s = Answers(<<>>)
      BY <1>1, AnswersSeq, Zenon
    <2>2. \A k \in 1 .. Len(s) : \E j \in 1 .. Len(<<>>) : s[k] = <<>>[j]
      BY <1>1, <2>1, AnswersSeq
    <2>3. Len(s) = 0
      BY <2>2
    <2> QED BY <2>1, <2>3
  <1>3. a \o <<>> = a
    OBVIOUS
  <1>4. SubSeq(b, 1, Len(b)) = b
    OBVIOUS
  <1> QED BY <1>1, <1>2, <1>3, <1>4

(* A step that shows neither end anything keeps the order.                 *)
LEMMA SeenSame ==
    ASSUME SeenInOrder, sent' = sent, delivered' = delivered, answered' = answered
    PROVE  SeenInOrder'
  BY DEF SeenInOrder, Channel!Faithful, Channel!AnswersFollow, Channel!MessageOf,
         Channel!ControlKinds

(* A client that waits for CopyInResponse waits on.                        *)
LEMMA WaitingKept ==
    ASSUME Waiting, sent' = sent, copyReady' = 0 => copyReady = 0
    PROVE  Waiting'
  BY DEF Waiting

(* Once the loop is left, its order is no longer spoken of.                *)
LEMMA ScopeLeft ==
    ASSUME stage' \in {"done", "cleanup"}
    PROVE  ReadOrder' /\ StreamOrder'
  BY DEF ReadOrder, StreamOrder, Reading, Served

(* Nor is that of the stream before there is one.                          *)
LEMMA LoopStays ==
    ASSUME stage' \in Reading PROVE StreamOrder'
  BY DEF StreamOrder, Reading, Served

(* Units may move from the batch to the backend.                           *)
LEMMA ExactMoved ==
    ASSUME sent' = sent, NEW w, NEW n, Exact(w, n),
           delivered' \o UnitsOf(batch') = w, HandledUnits' = n
    PROVE  Exact(delivered \o UnitsOf(batch), HandledUnits)'
  BY DEF Exact, Increasing, Channel!ControlKinds

(* A message that is not the backend's was handled, whatever was flushed   *)
(* before it.                                                              *)
LEMMA PassedOrder ==
    ASSUME Inv, HandledInOrder, UNCHANGED clientVars, stage = "handle", todo # <<>>,
           Kind(Head(todo)) \in Channel!ControlKinds,
           pending' = pending, todo' = Tail(todo), batch' = batch \/ batch' = <<>>,
           delivered' \o UnitsOf(batch') = delivered \o UnitsOf(batch)
    PROVE  HandledInOrder'
  <1>1. /\ sent' = sent /\ socket' = socket /\ stage \in Reading
        /\ todo \in Seq(SentMessages) /\ batch \in Seq(SentMessages)
        /\ Len(pending) \in Nat /\ Len(socket) \in Nat /\ Len(sent) \in Nat
    BY Buffers DEF clientVars, Reading
  <1>2. PICK q \in Nat : HandledUnits = 2 * q /\ q <= Len(sent) /\ Head(todo) = q + 1
    BY <1>1, HandledPosition
  <1>3. HandledUnits' = 2 * (q + 1)
    <2>1. Len(todo') = Len(todo) - 1 /\ Len(todo) \in Nat
      BY <1>1, TailOf
    <2>2. Taken' = Taken /\ Taken \in Int
      BY <1>1 DEF Taken
    <2> QED BY <1>1, <1>2, <2>1, <2>2 DEF HandledUnits
  <1>4. PICK w \in Seq(Nat) : w = delivered \o UnitsOf(batch)
    <2>1. delivered \o UnitsOf(batch) \in Seq(SentUnits)
      BY Buffers, ConcatOf
    <2>2. delivered \o UnitsOf(batch) \in Seq(Nat)
      BY <1>1, <2>1, UnitsNat DEF SentUnits
    <2> QED BY <2>2, Zenon
  <1>5. Exact(w, 2 * (q + 1))
    <2>1. Exact(w, 2 * q) /\ sent[q + 1] \in Channel!ControlKinds
      BY <1>2, <1>4 DEF HandledInOrder, Kind
    <2> QED BY <2>1, ExactSkip
  <1>6. Exact(delivered \o UnitsOf(batch), HandledUnits)'
    BY <1>1, <1>3, <1>4, <1>5, ExactMoved
  <1>8. \A j \in 1 .. Len(batch') : sent'[batch'[j]] \notin {"CopyInQuery", "CopyOutQuery"}
    BY <1>1 DEF HandledInOrder, Kind
  <1> QED BY <1>6, <1>8 DEF HandledInOrder, Kind

(* What is behind a sequence starts with what is behind it in part.        *)
LEMMA PartBehind ==
    ASSUME NEW S, NEW d \in Seq(S), NEW u \in Seq(S), NEW v \in Seq(S), Len(u) <= Len(v),
           \A j \in 1 .. Len(u) : v[j] = u[j]
    PROVE  Len(d \o u) <= Len(d \o v) /\ \A j \in 1 .. Len(d \o u) : (d \o u)[j] = (d \o v)[j]
  <1>1. PICK k \in Nat, m \in Nat, n \in Nat : k = Len(d) /\ m = Len(u) /\ n = Len(v)
    BY LenNat, Zenon
  <1>2. PICK e \in Seq(S) : /\ e = d \o u /\ Len(e) = k + m
                            /\ \A j \in 1 .. k : e[j] = d[j]
                            /\ \A j \in 1 .. m : e[k + j] = u[j]
    <2>1. /\ d \o u \in Seq(S) /\ Len(d \o u) = Len(d) + Len(u)
          /\ \A j \in 1 .. Len(d) : (d \o u)[j] = d[j]
          /\ \A j \in 1 .. Len(u) : (d \o u)[Len(d) + j] = u[j]
      BY ConcatOf
    <2> QED BY <1>1, <2>1, Zenon
  <1>3. PICK w \in Seq(S) : /\ w = d \o v /\ Len(w) = k + n
                            /\ \A j \in 1 .. k : w[j] = d[j]
                            /\ \A j \in 1 .. n : w[k + j] = v[j]
    <2>1. /\ d \o v \in Seq(S) /\ Len(d \o v) = Len(d) + Len(v)
          /\ \A j \in 1 .. Len(d) : (d \o v)[j] = d[j]
          /\ \A j \in 1 .. Len(v) : (d \o v)[Len(d) + j] = v[j]
      BY ConcatOf
    <2> QED BY <1>1, <2>1, Zenon
  <1>4. ASSUME NEW j \in 1 .. (k + m) PROVE e[j] = w[j]
    <2>1. CASE j \in 1 .. k
      BY <1>2, <1>3, <2>1
    <2>2. CASE j \notin 1 .. k
      <3>1. PICK i \in 1 .. m : j = k + i
        <4>1. j - k \in 1 .. m /\ j = k + (j - k)
          BY <2>2
        <4> QED BY <4>1, Zenon
      <3>2. i \in 1 .. n /\ v[i] = u[i]
        BY <1>1
      <3> QED BY <1>2, <1>3, <3>1, <3>2, Zenon
    <2> QED BY <2>1, <2>2
  <1>5. Len(e) <= Len(w)
    BY <1>1, <1>2, <1>3
  <1>6. \A j \in 1 .. Len(e) : e[j] = w[j]
    BY <1>2, <1>4, Zenon
  <1> QED BY <1>2, <1>3, <1>5, <1>6, Zenon

(* Part of the messages brings the first of their units.                   *)
LEMMA PartOfUnits ==
    ASSUME NEW n \in Nat, NEW d \in Seq(1 .. (2 * n)), NEW b \in Seq(1 .. n),
           NEW c \in 0 .. Len(b)
    PROVE  \E e \in Seq(1 .. (2 * n)), w \in Seq(1 .. (2 * n)) :
              /\ e = d \o UnitsOf(SubSeq(b, 1, c)) /\ w = d \o UnitsOf(b)
              /\ Len(e) <= Len(w) /\ \A j \in 1 .. Len(e) : e[j] = w[j]
              /\ Len(d) <= Len(e) /\ \A j \in 1 .. Len(d) : e[j] = d[j]
  <1>1. PICK s \in Seq(1 .. n), t \in Seq(1 .. n) : s = SubSeq(b, 1, c) /\ b = s \o t
    <2>1. SubSeq(b, 1, c) \in Seq(1 .. n) /\ SubSeq(b, c + 1, Len(b)) \in Seq(1 .. n)
      OBVIOUS
    <2>2. b = SubSeq(b, 1, c) \o SubSeq(b, c + 1, Len(b))
      BY SplitOf
    <2> QED BY <2>1, <2>2, Zenon
  <1>2. /\ UnitsOf(s) \in Seq(1 .. (2 * n)) /\ UnitsOf(t) \in Seq(1 .. (2 * n))
        /\ UnitsOf(b) \in Seq(1 .. (2 * n)) /\ UnitsOf(b) = UnitsOf(s) \o UnitsOf(t)
    BY <1>1, UnitsOfSeq, UnitsConcat
  <1>3. /\ Len(UnitsOf(s)) <= Len(UnitsOf(b))
        /\ \A j \in 1 .. Len(UnitsOf(s)) : UnitsOf(b)[j] = UnitsOf(s)[j]
    BY <1>2, ConcatOf
  <1>4. PICK u \in Seq(1 .. (2 * n)), v \in Seq(1 .. (2 * n)) :
            u = UnitsOf(s) /\ v = UnitsOf(b)
    BY <1>2, Zenon
  <1>5. Len(u) <= Len(v) /\ \A j \in 1 .. Len(u) : v[j] = u[j]
    BY <1>3, <1>4, Zenon
  <1>6. Len(d \o u) <= Len(d \o v) /\ \A j \in 1 .. Len(d \o u) : (d \o u)[j] = (d \o v)[j]
    BY <1>5, PartBehind
  <1>7. /\ d \o u \in Seq(1 .. (2 * n)) /\ d \o v \in Seq(1 .. (2 * n))
        /\ Len(d) <= Len(d \o u) /\ \A j \in 1 .. Len(d) : (d \o u)[j] = d[j]
    BY ConcatOf
  <1> QED BY <1>1, <1>4, <1>6, <1>7, Zenon

(* A call into the backend fails: it has part of what was handled.         *)
LEMMA FailedOrder ==
    ASSUME Inv, PatientInv, sent' = sent, NEW b \in Seq(SentMessages), NEW n \in Nat,
           n <= 2 * Len(sent), Exact(delivered \o UnitsOf(b), n), FlushFails(b)
    PROVE  PatientInv'
  <1>1. /\ Len(sent) \in Nat /\ delivered \in Seq(1 .. (2 * Len(sent)))
        /\ b \in Seq(1 .. Len(sent)) /\ SeenInOrder /\ Waiting
    BY Buffers DEF SentUnits, SentMessages, PatientInv
  <1>2. /\ stage' = "done" /\ answered' = answered /\ copyReady' = copyReady
    BY DEF FlushFails, Abort
  <1>3. PICK c \in 0 .. Len(b) : delivered' = delivered \o UnitsOf(SubSeq(b, 1, c))
    BY DEF FlushFails
  <1>4. PICK d \in Seq(1 .. (2 * Len(sent))), w \in Seq(1 .. (2 * Len(sent))) :
            /\ d = delivered \o UnitsOf(SubSeq(b, 1, c)) /\ w = delivered \o UnitsOf(b)
            /\ Len(d) <= Len(w) /\ \A j \in 1 .. Len(d) : d[j] = w[j]
            /\ Len(delivered) <= Len(d) /\ \A j \in 1 .. Len(delivered) : d[j] = delivered[j]
    BY <1>1, PartOfUnits
  <1>5. delivered \o UnitsOf(b) = w /\ delivered' = d
    BY <1>3, <1>4, Zenon
  <1>6. /\ Len(d) <= Len(w) /\ \A j \in 1 .. Len(d) : d[j] = w[j]
    BY <1>4, Zenon
  <1>7. /\ Len(delivered) \in Nat /\ Len(d) \in Nat /\ Len(delivered) <= Len(d)
         /\ \A j \in 1 .. Len(delivered) : d[j] = delivered[j]
    BY <1>1, <1>4, LenNat
  <1>8. Channel!Faithful(d, sent)
    <2>1. 2 * Len(sent) \in Nat
      BY <1>1
    <2>2. w \in Seq(Nat) /\ d \in Seq(Nat)
      BY <2>1, UnitsNat, Zenon
    <2>3. \A j \in 1 .. Len(w) : w[j] \in 1 .. (2 * Len(sent))
      BY ElementOfSeq, Zenon
    <2>4. \A j \in 1 .. Len(w) : w[j] > 0
      BY <2>1, <2>3
    <2> QED BY <1>1, <1>5, <1>6, <2>2, <2>4, ExactFaithful
  <1>9. Channel!AnswersFollow(answered, d)
    <2>1. Channel!AnswersFollow(answered, delivered)
      BY <1>1 DEF SeenInOrder
    <2>2. DOMAIN delivered = 1 .. Len(delivered) /\ DOMAIN d = 1 .. Len(d)
      BY <1>1
    <2>3. \A j \in DOMAIN delivered : j \in DOMAIN d /\ d[j] = delivered[j]
      BY <1>7, <2>2
    <2> QED BY <2>1, <2>3 DEF Channel!AnswersFollow
  <1>10. SeenInOrder'
    <2>1. Channel!Faithful(delivered', sent') /\ Channel!AnswersFollow(answered', delivered')
      BY <1>2, <1>5, <1>8, <1>9
    <2> QED BY <2>1 DEF SeenInOrder, Channel!Faithful, Channel!AnswersFollow, Channel!MessageOf,
                        Channel!ControlKinds
  <1> QED BY <1>1, <1>2, <1>10, WaitingKept, ScopeLeft DEF PatientInv

(* flush_protocol_batch_if_started before a control packet.                *)
LEMMA ControlOrder ==
    ASSUME Inv, PatientInv, WellBehaved(profile), UNCHANGED clientVars,
           \A i \in 1 .. Len(sent) : sent[i] \in Uses(profile),
           stage = "handle", todo # <<>>, Kind(Head(todo)) \in {"Ssl", "Cancel", "Terminate"},
           NEW close \in BOOLEAN, FlushIfStarted(Handled(close))
    PROVE  PatientInv'
  <1>1. /\ sent' = sent /\ socket' = socket /\ stage \in Reading /\ HandledInOrder
        /\ batch \in Seq(SentMessages) /\ delivered \in Seq(SentUnits)
        /\ UnitsOf(batch) \in Seq(SentUnits)
        /\ Len(sent) \in Nat /\ SeenInOrder /\ Waiting /\ copyReady = 0
        /\ Kind(Head(todo)) \in Channel!ControlKinds /\ answered \in Seq(SentMessages)
    BY Buffers DEF clientVars, Reading, PatientInv, ReadOrder, Channel!ControlKinds, Inv,
       StageInv, SeenFields
  <1>2. PICK q \in Nat : /\ HandledUnits = 2 * q /\ q <= Len(sent)
                         /\ Head(todo) = q + 1 /\ q + 1 <= Len(sent)
                         /\ \A j \in 1 .. Len(batch) : batch[j] \in 1 .. q
    BY <1>1, HandledPosition
  <1>3. ASSUME Handled(close), delivered' = delivered \o UnitsOf(batch) PROVE ReadOrder' /\ StreamOrder'
    <2>1. batch' = <<>> /\ todo' = Tail(todo) /\ pending' = pending /\ stage' = stage
      BY <1>3 DEF Handled
    <2>2. UnitsOf(batch') = <<>>
      BY <2>1 DEF UnitsOf
    <2>3. delivered' \o UnitsOf(batch') = delivered \o UnitsOf(batch)
      <3>1. delivered \o UnitsOf(batch) \in Seq(SentUnits)
        BY <1>1, ConcatOf
      <3>2. \A s \in Seq(SentUnits) : s \o <<>> = s
        OBVIOUS
      <3> QED BY <1>3, <2>2, <3>1, <3>2
    <2>4. HandledInOrder'
      BY <1>1, <2>1, <2>3, PassedOrder
    <2> QED BY <1>1, <2>1, <2>4, LoopStays DEF ReadOrder
  <1>4. CASE batch = <<>> /\ Handled(close) /\ UNCHANGED <<pumpVars, seenVars>>
    <2>1. delivered' = delivered /\ answered' = answered /\ copyReady' = copyReady
      BY <1>4 DEF seenVars
    <2>2. delivered' = delivered \o UnitsOf(batch)
      <3>1. UnitsOf(batch) = <<>>
        BY <1>4 DEF UnitsOf
      <3> QED BY <1>1, <2>1, <3>1
    <2> QED BY <1>1, <1>3, <1>4, <2>1, <2>2, SeenSame, WaitingKept DEF PatientInv
  <1>5. CASE ReturnErr /\ UNCHANGED <<pumpVars, seenVars>>
    <2>1. stage' = "done" /\ delivered' = delivered /\ answered' = answered /\ copyReady' = copyReady
      BY <1>5 DEF ReturnErr, Abort, seenVars
    <2> QED BY <1>1, <2>1, SeenSame, WaitingKept, ScopeLeft DEF PatientInv
  <1>6. CASE FlushBuffered(batch) /\ WriteResponse(batch, Handled(close))
    <2>1. delivered' = delivered \o UnitsOf(batch) /\ copyReady' = copyReady
      BY <1>6 DEF FlushBuffered
    <2>2. Waiting'
      BY <1>1, <2>1, WaitingKept
    <2>3. ASSUME NEW c \in 0 .. Len(batch), answered' = answered \o Answers(SubSeq(batch, 1, c))
          PROVE  SeenInOrder'
      <3>1. 2 * q \in Nat /\ 2 * q <= 2 * Len(sent) /\ Exact(delivered \o UnitsOf(batch), 2 * q)
        BY <1>1, <1>2 DEF HandledInOrder
      <3> QED BY <1>1, <2>1, <2>3, <3>1, FlushSeen
    <2>4. /\ answered \o Answers(SubSeq(batch, 1, 0)) = answered
          /\ SubSeq(batch, 1, Len(batch)) = batch
          /\ 0 \in 0 .. Len(batch) /\ Len(batch) \in 0 .. Len(batch)
      BY <1>1, NoAnswers DEF SentMessages
    <2>5. CASE answered' = answered \o Answers(batch) /\ Handled(close)
      BY <1>3, <2>1, <2>2, <2>3, <2>4, <2>5 DEF PatientInv
    <2>6. CASE answered' = answered /\ ReturnErr
      <3>1. stage' = "done"
        BY <2>6 DEF ReturnErr, Abort
      <3> QED BY <2>2, <2>3, <2>4, <2>6, <3>1, ScopeLeft DEF PatientInv
    <2> QED BY <1>6, <2>5, <2>6 DEF WriteResponse
  <1>7. ~Has(batch, CopyKinds)
    <2>1. SUFFICES ASSUME Has(batch, CopyKinds) PROVE FALSE
      OBVIOUS
    <2>2. PICK j \in 1 .. Len(batch) : Kind(batch[j]) \in CopyKinds
      BY <1>1, <2>1 DEF Has
    <2>3. PICK i \in 1 .. q : i = batch[j] /\ sent[i] \in {"CopyInExec", "CopyOutExec"}
      BY <1>1, <1>2, <2>2 DEF HandledInOrder, Kind, CopyKinds, CopyInKinds
    <2>4. i \in 1 .. Len(sent) /\ i < Len(sent) /\ q + 1 \in 1 .. Len(sent)
      BY <1>1, <1>2
    <2>5. CASE sent[i] = "CopyInExec"
      <3>1. i = Len(sent) - 1 /\ sent[Len(sent)] \in {"Sync", "Flush"}
        BY <1>1, <2>4, <2>5 DEF Waiting, CopyInKinds
      <3>2. q + 1 = Len(sent)
        BY <1>1, <1>2, <3>1
      <3> QED BY <1>2, <3>1, <3>2 DEF Kind
    <2>6. CASE sent[i] = "CopyOutExec"
      <3>1. "CopyOutExec" \in Uses(profile) /\ sent[q + 1] \in Uses(profile)
        BY <2>4, <2>6
      <3>2. sent[q + 1] \in {"Ssl", "Cancel", "Terminate"}
        BY <1>2 DEF Kind
      <3> QED BY <3>1, <3>2 DEF WellBehaved
    <2> QED BY <2>3, <2>5, <2>6
  <1>8. ~FlushHandoff(batch)
    BY <1>7 DEF FlushHandoff
  <1>9. CASE FlushFails(batch)
    <2>1. 2 * q \in Nat /\ 2 * q <= 2 * Len(sent) /\ Exact(delivered \o UnitsOf(batch), 2 * q)
      BY <1>1, <1>2 DEF HandledInOrder
    <2> QED BY <1>1, <1>9, <2>1, FailedOrder
  <1> QED BY <1>4, <1>5, <1>6, <1>8, <1>9 DEF FlushIfStarted

(* The read loop's order depends on these variables only.                  *)
LEMMA HandledSame ==
    ASSUME HandledInOrder, sent' = sent, delivered' = delivered, batch' = batch,
           HandledUnits' = HandledUnits
    PROVE  HandledInOrder'
  BY DEF HandledInOrder, Exact, Increasing, Channel!ControlKinds, Kind

(* A startup packet is passed, or the rest of the read is given up.        *)
LEMMA StartupOrder ==
    ASSUME Inv, PatientInv, HandleStartup
    PROVE  PatientInv'
  <1>1. /\ UNCHANGED clientVars /\ UNCHANGED <<pumpVars, seenVars>> /\ stage \in Reading
        /\ stage = "handle" /\ todo # <<>> /\ Kind(Head(todo)) \in Channel!ControlKinds
        /\ ReturnErr \/ OpenFails \/ StartupFails \/ StartupRefused \/ StartupProcessed
    BY DEF HandleStartup, Handling, Channel!ControlKinds, Reading
  <1>2. /\ sent' = sent /\ delivered' = delivered /\ answered' = answered
        /\ copyReady' = copyReady /\ HandledInOrder /\ SeenInOrder /\ Waiting
    BY <1>1 DEF PatientInv, ReadOrder, seenVars, clientVars
  <1>3. SeenInOrder' /\ Waiting'
    BY <1>2, SeenSame, WaitingKept
  <1>4. CASE ReturnErr \/ StartupFails
    <2>1. stage' = "done"
      BY <1>4 DEF ReturnErr, StartupFails, Abort
    <2> QED BY <1>3, <2>1, ScopeLeft DEF PatientInv
  <1>5. CASE OpenFails \/ StartupRefused
    <2>1. todo' = <<>> /\ stage' = stage
      BY <1>5 DEF OpenFails, StartupRefused, BreakAndClose
    <2>2. closeAfter' = TRUE
      BY <1>5 DEF OpenFails, StartupRefused, BreakAndClose
    <2>3. ReadOrder'
      BY <2>1, <2>2 DEF ReadOrder
    <2> QED BY <1>1, <1>3, <2>1, <2>3, LoopStays DEF PatientInv
  <1>6. CASE StartupProcessed
    <2>1. todo' = Tail(todo) /\ batch' = batch /\ stage' = stage /\ pending' = pending
      BY <1>6 DEF StartupProcessed
    <2>2. HandledInOrder'
      BY <1>1, <1>2, <2>1, PassedOrder
    <2> QED BY <1>1, <1>3, <2>1, <2>2, LoopStays DEF PatientInv, ReadOrder
  <1> QED BY <1>1, <1>4, <1>5, <1>6

(* The bottom of the read loop.                                            *)
LEMMA EndOfReadOrder ==
    ASSUME Inv, PatientInv, EndOfRead
    PROVE  PatientInv'
  <1>1. /\ sent' = sent /\ delivered' = delivered /\ answered' = answered
        /\ copyReady' = copyReady /\ stage = "handle" /\ stage \in Reading
        /\ todo' = todo /\ batch' = batch /\ pending' = pending /\ socket' = socket
        /\ stage' = IF closeAfter THEN "cleanup" ELSE "read"
    BY DEF EndOfRead, seenVars, clientVars, Reading
  <1>2. SeenInOrder' /\ Waiting'
    BY <1>1, SeenSame, WaitingKept DEF PatientInv
  <1>3. CASE closeAfter
    BY <1>1, <1>2, <1>3, ScopeLeft DEF PatientInv
  <1>4. CASE ~closeAfter
    <2>1. HandledInOrder
      BY <1>1, <1>4 DEF PatientInv, ReadOrder
    <2>2. HandledUnits' = HandledUnits /\ stage' = "read"
      BY <1>1, <1>4 DEF HandledUnits, Taken
    <2>3. HandledInOrder'
      BY <1>1, <2>1, <2>2, HandledSame
    <2> QED BY <1>2, <2>2, <2>3, LoopStays DEF PatientInv, ReadOrder, Reading
  <1> QED BY <1>3, <1>4

(* A read moves units from the socket to the messages to handle.           *)
LEMMA ReadInOrder ==
    ASSUME Inv, PatientInv, Read
    PROVE  PatientInv'
  <1>1. /\ sent' = sent /\ delivered' = delivered /\ answered' = answered
        /\ copyReady' = copyReady /\ stage = "read" /\ stage \in Reading
    BY DEF Read, seenVars, Reading
  <1>2. SeenInOrder' /\ Waiting'
    BY <1>1, SeenSame, WaitingKept DEF PatientInv
  <1>3. HandledInOrder
    <2>1. closeAfter = FALSE
      BY <1>1 DEF Inv, StageInv
    <2> QED BY <1>1, <2>1 DEF PatientInv, ReadOrder
  <1>4. PICK n \in 1 .. Len(socket), r \in Nat, buf \in Seq(SentUnits) : ReadOf(n, r, buf)
    BY ReadEffect
  <1>5. CASE ReturnErr
    <2>1. stage' = "done"
      BY <1>5 DEF ReturnErr, Abort
    <2> QED BY <1>2, <2>1, ScopeLeft DEF PatientInv
  <1>6. CASE /\ todo' = CompleteMessages(buf) /\ pending' = Remainder(buf)
             /\ stage' = "handle" /\ batch' = batch
    <2>1. /\ Len(socket) \in Nat /\ Len(pending) \in Nat /\ Len(sent) \in Nat
          /\ socket \in Seq(SentUnits)
      BY Buffers
    <2>2. 2 * Len(todo') + Len(pending') = Len(buf)
      <3>1. buf \in Seq(1 .. (2 * Len(sent))) /\ \A k \in 1 .. Len(buf) : buf[k] = 2 * r + k
        BY <1>4 DEF ReadOf, SentUnits
      <3> QED BY <1>6, <2>1, <3>1, CutMessages
    <2>3. Len(todo') \in Nat /\ Len(pending') \in Nat
      <3>1. todo' \in Seq(SentMessages') /\ pending' \in Seq(SentUnits')
        BY ReadKeeps DEF Inv, HandlerFields
      <3> QED BY <3>1
    <2>4. Len(buf) = Len(pending) + n /\ Len(todo) = 0
      BY <1>4 DEF ReadOf
    <2>5. Len(socket') = Len(socket) - n
      BY <1>4, <2>1 DEF ReadOf
    <2>6. HandledUnits' = HandledUnits
      BY <1>1, <2>1, <2>2, <2>3, <2>4, <2>5 DEF HandledUnits, Taken
    <2>7. HandledInOrder'
      BY <1>1, <1>3, <1>6, <2>6, HandledSame
    <2> QED BY <1>2, <1>6, <2>7, LoopStays DEF PatientInv, ReadOrder, Reading
  <1> QED BY <1>4, <1>5, <1>6 DEF ReadOf

(* A batch that is taken whole is delivered in order.                      *)
LEMMA WholeHandoff ==
    ASSUME Inv, stage \in Reading, UNCHANGED clientVars,
           NEW b \in Seq(SentMessages), TakenWhole(b), FlushHandoff(b), SeenInOrder,
           NEW n \in Nat, n <= 2 * Len(sent), Exact(delivered \o UnitsOf(b), n)
    PROVE  /\ delivered' = delivered \o UnitsOf(b) /\ hostInput' = <<>> /\ prefix' = prefix
           /\ entries' # 0 => Has(b, CopyInKinds)
           /\ SeenInOrder'
  <1>1. /\ Len(sent) \in Nat /\ profile.recv \in Nat \ {0} /\ Len(b) \in Nat
        /\ answered \in Seq(SentMessages) /\ b \in Seq(1 .. Len(sent)) /\ sent' = sent
        /\ profile.extra \in Nat /\ copyReady \in Nat
    BY ProfileSizes DEF Inv, ClientFields, SeenFields, SentMessages, clientVars
  <1>a. PICK c \in 1 .. Len(b) : \E a \in 1 .. c : HandoffOf(b, c, a)
    BY <1>1, HandoffEffect
  <1>2. PICK a \in 1 .. c : HandoffOf(b, c, a)
    BY <1>a
  <1>3. c = Len(b)
    BY <1>2 DEF HandoffOf
  <1>4. SubSeq(b, 1, c) = b /\ SubSeq(b, c + 1, Len(b)) = <<>>
    BY <1>1, <1>3
  <1>5. delivered' = delivered \o UnitsOf(b) /\ hostInput' = <<>> /\ prefix' = prefix
    BY <1>2, <1>4 DEF HandoffOf
  <1>6. entries' # 0 => Has(b, CopyInKinds)
    BY <1>1, <1>2 DEF HandoffOf
  <1>7. a \in 0 .. Len(b) /\ answered' = answered \o Answers(SubSeq(b, 1, a))
    BY <1>1, <1>2 DEF HandoffOf
  <1> QED BY <1>1, <1>5, <1>6, <1>7, FlushSeen

(* End of file: the last batch is flushed, or starts a COPY for a client   *)
(* that has gone.                                                          *)
LEMMA EofOrder ==
    ASSUME Inv, PatientInv, profile.patient, CopyFits, ReadEof
    PROVE  PatientInv'
  <1> DEFINE after == /\ stage' = "cleanup" /\ batch' = <<>>
                      /\ UNCHANGED <<pending, todo, backend, closeAfter, result>>
  <1>1. /\ UNCHANGED clientVars /\ sent' = sent /\ socket' = socket /\ stage \in Reading
        /\ batch \in Seq(SentMessages) /\ Len(sent) \in Nat /\ SeenInOrder /\ Waiting
        /\ copyReady = 0 /\ answered \in Seq(SentMessages) /\ prefix = <<>>
        /\ Len(socket) = lost /\ client = "closed" /\ client' = client /\ lost' = lost
    BY Buffers DEF clientVars, Reading, PatientInv, Inv, StageInv, SeenFields, ReadEof
  <1>2. HandledInOrder
    <2>1. closeAfter = FALSE
      BY DEF Inv, StageInv, ReadEof
    <2> QED BY <1>1, <2>1 DEF PatientInv, ReadOrder
  <1>3. PICK q \in Nat : HandledUnits = 2 * q /\ q <= Len(sent)
    BY <1>1, HandledPosition
  <1>4. /\ 2 * q \in Nat /\ 2 * q <= 2 * Len(sent) /\ Exact(delivered \o UnitsOf(batch), 2 * q)
    BY <1>1, <1>2, <1>3 DEF HandledInOrder
  <1>5. Waiting'
    BY <1>1, WaitingKept
  <1>6. CASE (after \/ ReturnErr) /\ UNCHANGED <<pumpVars, seenVars>>
    <2>1. stage' \in {"done", "cleanup"} /\ delivered' = delivered /\ answered' = answered
      BY <1>6 DEF ReturnErr, Abort, seenVars
    <2> QED BY <1>1, <1>5, <2>1, SeenSame, ScopeLeft DEF PatientInv
  <1>7. CASE FlushBuffered(batch) /\ WriteResponse(batch, after)
    <2>1. delivered' = delivered \o UnitsOf(batch)
      BY <1>7 DEF FlushBuffered
    <2>2. stage' \in {"done", "cleanup"}
          /\ (answered' = answered \o Answers(batch) \/ answered' = answered)
      BY <1>7 DEF WriteResponse, ReturnErr, Abort
    <2>3. /\ answered \o Answers(SubSeq(batch, 1, 0)) = answered
          /\ SubSeq(batch, 1, Len(batch)) = batch
          /\ 0 \in 0 .. Len(batch) /\ Len(batch) \in 0 .. Len(batch)
      BY <1>1, NoAnswers DEF SentMessages
    <2>4. SeenInOrder'
      BY <1>1, <1>4, <2>1, <2>2, <2>3, FlushSeen
    <2> QED BY <1>5, <2>2, <2>4, ScopeLeft DEF PatientInv
  <1>8. CASE /\ FlushHandoff(batch) /\ stage' = "drain" /\ result' = "err"
             /\ todo' = <<>> /\ pending' = <<>>
    <2>0. TakenWhole(batch)
      <3>1. Len(batch) < profile.recv
        BY <1>8 DEF FlushHandoff, CopyFits
      <3>2. Len(batch) \in Nat /\ profile.recv \in Nat
        BY <1>1, ProfileSizes DEF Inv
      <3> QED BY <3>1, <3>2 DEF TakenWhole
    <2>1. SeenInOrder' /\ prefix' = <<>>
      BY <1>1, <1>4, <1>8, <2>0, WholeHandoff
    <2>2. ReadOrder' /\ StreamOrder'
      BY <1>1, <1>8, <2>1 DEF ReadOrder, StreamOrder, Reading, Served, ClientGone
    <2> QED BY <1>5, <2>1, <2>2 DEF PatientInv
  <1>9. CASE FlushFails(batch)
    BY <1>1, <1>4, <1>9, FailedOrder
  <1> QED BY <1>6, <1>7, <1>8, <1>9 DEF ReadEof, FlushIfStarted

(* The messages to handle and the frame reader's remainder are the units   *)
(* behind the handled ones.                                                *)
LEMMA ContinuationUnits ==
    ASSUME Inv, stage \in Reading, todo # <<>>, NEW q \in Nat, HandledUnits = 2 * q
    PROVE  /\ UnitsOf(Tail(todo)) \o pending \in Seq(SentUnits)
           /\ Taken - Len(UnitsOf(Tail(todo)) \o pending) = 2 * (q + 1)
           /\ \A j \in 1 .. Len(UnitsOf(Tail(todo)) \o pending) :
                (UnitsOf(Tail(todo)) \o pending)[j] = 2 * (q + 1) + j
  <1>1. PICK r \in Nat : Reader(r)
    BY DEF Inv, ReaderInv
  <1>2. /\ todo \in Seq(1 .. Len(sent)) /\ Len(pending) \in Nat /\ Len(socket) \in Nat
        /\ Len(sent) \in Nat /\ pending \in Seq(1 .. (2 * Len(sent))) /\ Len(pending) <= 1
        /\ Taken \in Int
    BY Buffers DEF SentMessages, SentUnits, Inv, HandlerFields, Taken
  <1>3. /\ Tail(todo) \in Seq(1 .. Len(sent)) /\ Len(Tail(todo)) = Len(todo) - 1
        /\ Len(todo) \in Nat /\ Len(todo) > 0
        /\ \A j \in 1 .. Len(Tail(todo)) : Tail(todo)[j] = todo[Len(todo) - Len(Tail(todo)) + j]
    BY <1>2, TailOf
  <1>4. PICK t \in Seq(1 .. Len(sent)), k \in Nat : t = Tail(todo) /\ k = Len(t)
    BY <1>3, LenNat, Zenon
  <1>5. Len(todo) = k + 1 /\ r = q + 1 + k
    <2>1. 2 * r - 2 * Len(todo) = 2 * q
      <3>1. PICK e \in Nat, l \in Nat : e = Len(pending) /\ l = Len(todo)
        BY <1>2, <1>3
      <3>2. 2 * r + e = Taken /\ Taken - e - 2 * l = 2 * q
        BY <1>1, <3>1 DEF Reader, HandledUnits
      <3> QED BY <3>1, <3>2
    <2> QED BY <1>3, <1>4, <2>1, SMTT(20)
  <1>6. \A j \in 1 .. k : t[j] = q + 1 + j
    <2>1. \A j \in 1 .. (k + 1) : todo[j] = r - (k + 1) + j
      BY <1>1, <1>5 DEF Reader
    <2>2. ASSUME NEW j \in 1 .. k PROVE t[j] = q + 1 + j
      <3>1. t[j] = todo[(k + 1) - k + j]
        BY <1>3, <1>4, <1>5
      <3>2. (k + 1) - k + j = j + 1 /\ j + 1 \in 1 .. (k + 1)
        OBVIOUS
      <3>3. todo[j + 1] = r - (k + 1) + (j + 1)
        BY <2>1, <3>2
      <3>4. r - (k + 1) + (j + 1) = q + 1 + j
        BY <1>5
      <3> QED BY <3>1, <3>2, <3>3, <3>4
    <2> QED BY <2>2
  <1>7. PICK us \in Seq(1 .. (2 * Len(sent))) : us = UnitsOf(t)
    BY <1>2, UnitsOfSeq, Zenon
  <1>8. /\ Len(us) = 2 * k
        /\ \A h \in 1 .. k : us[2 * h - 1] = 2 * t[h] - 1 /\ us[2 * h] = 2 * t[h]
    BY <1>2, <1>4, <1>7, UnitsOfSeq
  <1>9. ASSUME NEW j \in 1 .. (2 * k) PROVE us[j] = 2 * (q + 1) + j
    <2>1. PICK h \in Nat : j = 2 * h \/ j = 2 * h + 1
      <3>1. j \in Nat /\ (j % 2 = 0 \/ j % 2 # 0)
        OBVIOUS
      <3>2. j \div 2 \in Nat /\ (j = 2 * (j \div 2) \/ j = 2 * (j \div 2) + 1)
        BY <3>1, Halves
      <3> QED BY <3>2, Zenon
    <2>2. CASE j = 2 * h
      <3>1. h \in 1 .. k
        BY <2>2
      <3>2. us[2 * h] = 2 * t[h] /\ t[h] = q + 1 + h
        BY <1>6, <1>8, <3>1
      <3> QED BY <2>2, <3>2
    <2>3. CASE j = 2 * h + 1
      <3>1. h + 1 \in 1 .. k /\ 2 * (h + 1) - 1 = j
        BY <2>3
      <3>2. us[2 * (h + 1) - 1] = 2 * t[h + 1] - 1 /\ t[h + 1] = q + 1 + (h + 1)
        BY <1>6, <1>8, <3>1
      <3>3. us[j] = 2 * (q + 1 + (h + 1)) - 1
        BY <3>1, <3>2
      <3> QED BY <2>3, <3>3
    <2> QED BY <2>1, <2>2, <2>3
  <1>10. PICK w \in Seq(1 .. (2 * Len(sent))) : w = us \o pending
    <2>1. us \o pending \in Seq(1 .. (2 * Len(sent)))
      BY <1>2, ConcatOf
    <2> QED BY <2>1, Zenon
  <1>11. /\ Len(w) = 2 * k + Len(pending) /\ \A j \in 1 .. (2 * k) : w[j] = us[j]
         /\ \A j \in 1 .. Len(pending) : w[2 * k + j] = pending[j]
    <2>1. /\ Len(us \o pending) = Len(us) + Len(pending)
          /\ \A j \in 1 .. Len(us) : (us \o pending)[j] = us[j]
          /\ \A j \in 1 .. Len(pending) : (us \o pending)[Len(us) + j] = pending[j]
      BY <1>2, ConcatOf
    <2> QED BY <1>8, <1>10, <2>1
  <1>12. ASSUME NEW j \in 1 .. Len(w) PROVE w[j] = 2 * (q + 1) + j
    <2>1. CASE j \in 1 .. (2 * k)
      BY <1>9, <1>11, <2>1
    <2>2. CASE j \notin 1 .. (2 * k)
      <3>1. PICK e \in Nat : e = Len(pending)
        BY <1>2
      <3>2. e = 1 /\ j = 2 * k + 1
        BY <1>2, <1>11, <2>2, <3>1, SMTT(20)
      <3>3. pending # <<>>
        <4>1. pending = <<>> => e = 0
          BY <3>1
        <4> QED BY <3>2, <4>1
      <3>4. pending[1] = 2 * r + 1
        BY <1>1, <3>3 DEF Reader
      <3>5. w[2 * k + 1] = pending[1]
        BY <1>11, <3>1, <3>2
      <3> QED BY <1>5, <3>2, <3>4, <3>5
    <2> QED BY <2>1, <2>2
  <1>13. Taken - Len(w) = 2 * (q + 1)
    BY <1>1, <1>2, <1>5, <1>11 DEF Reader
  <1> QED BY <1>4, <1>7, <1>10, <1>12, <1>13 DEF SentUnits

(* A backend message joins the batch; at a boundary the batch goes to the  *)
(* backend, and with a COPY in it so does the stream.                      *)
LEMMA ProtocolOrder ==
    ASSUME Inv, PatientInv, profile.patient, CopyFits, HandleProtocol
    PROVE  PatientInv'
  <1>1. /\ UNCHANGED clientVars /\ sent' = sent /\ socket' = socket /\ stage \in Reading
        /\ batch \in Seq(SentMessages) /\ Len(sent) \in Nat /\ SeenInOrder /\ Waiting
        /\ copyReady = 0 /\ answered \in Seq(SentMessages) /\ prefix = <<>>
        /\ todo # <<>> /\ stage = "handle" /\ HandledInOrder /\ result = "running"
        /\ todo \in Seq(SentMessages) /\ delivered \in Seq(SentUnits)
        /\ Len(pending) \in Nat /\ Len(socket) \in Nat
    <2>1. UNCHANGED clientVars /\ todo # <<>> /\ stage = "handle"
      BY DEF HandleProtocol, Handling
    <2>2. sent' = sent /\ socket' = socket /\ stage \in Reading
      BY <2>1 DEF clientVars, Reading
    <2>3. SeenInOrder /\ Waiting /\ HandledInOrder
      BY <2>1, <2>2 DEF PatientInv, ReadOrder
    <2>4. /\ copyReady = 0 /\ answered \in Seq(SentMessages) /\ prefix = <<>>
          /\ result = "running"
      BY <2>1, <2>2 DEF Inv, StageInv, SeenFields
    <2> QED BY <2>1, <2>2, <2>3, <2>4, Buffers
  <1>2. PICK q \in Nat : /\ HandledUnits = 2 * q /\ q <= Len(sent)
                         /\ Head(todo) = q + 1 /\ q + 1 <= Len(sent)
                         /\ \A j \in 1 .. Len(batch) : batch[j] \in 1 .. q
    BY <1>1, HandledPosition
  <1>3. PICK b \in Seq(SentMessages) : b = Append(batch, q + 1)
    <2>1. Append(batch, q + 1) \in Seq(SentMessages)
      BY <1>1, <1>2 DEF SentMessages
    <2> QED BY <2>1, Zenon
  <1>4. /\ Len(b) = Len(batch) + 1 /\ b[Len(b)] = q + 1 /\ Len(batch) \in Nat
        /\ \A j \in 1 .. Len(batch) : b[j] = batch[j]
    BY <1>1, <1>3
  <1>5. TakenWhole(b)
    <2>1. CASE Has(batch, CopyKinds)
      <3>1. Len(batch) < profile.recv
        BY <2>1 DEF CopyFits
      <3>2. profile.recv \in Nat
        BY ProfileSizes DEF Inv
      <3> QED BY <1>4, <3>1, <3>2 DEF TakenWhole
    <2>2. CASE ~Has(batch, CopyKinds)
      <3>1. \A j \in 1 .. Len(batch) : Kind(batch[j]) \notin CopyKinds
        BY <1>1, <2>2 DEF Has
      <3>2. Len(b) - 1 = Len(batch)
        BY <1>4
      <3> QED BY <1>4, <3>1, <3>2 DEF TakenWhole
    <2> QED BY <2>1, <2>2
  <1>6. Exact(delivered \o UnitsOf(b), 2 * (q + 1)) /\ delivered \o UnitsOf(b) \in Seq(SentUnits)
    <2>1. PICK w \in Seq(SentUnits) : w = delivered \o UnitsOf(batch)
      <3>1. delivered \o UnitsOf(batch) \in Seq(SentUnits)
        BY Buffers, ConcatOf
      <3> QED BY <3>1, Zenon
    <2>2. w \in Seq(Nat) /\ Exact(w, 2 * q)
      BY <1>1, <1>2, <2>1, UnitsNat DEF SentUnits, HandledInOrder
    <2>3. Exact(Append(Append(w, 2 * (q + 1) - 1), 2 * (q + 1)), 2 * (q + 1))
      BY <2>2, ExactMessage
    <2>4. delivered \o UnitsOf(b) = Append(Append(w, 2 * (q + 1) - 1), 2 * (q + 1))
      <3>1. q + 1 \in 1 .. Len(sent)
        BY <1>1, <1>2
      <3> QED BY <1>1, <1>3, <2>1, <3>1, UnitsAfter DEF SentMessages, SentUnits
    <2>5. delivered \o UnitsOf(b) \in Seq(SentUnits)
      <3>1. UnitsOf(b) \in Seq(SentUnits)
        BY <1>1, UnitsOfSeq DEF SentMessages, SentUnits
      <3> QED BY <1>1, <3>1, ConcatOf
    <2> QED BY <2>3, <2>4, <2>5
  <1>7. 2 * (q + 1) \in Nat /\ 2 * (q + 1) <= 2 * Len(sent)
    BY <1>1, <1>2
  <1>8. todo' = Tail(todo) /\ pending' = pending => HandledUnits' = 2 * (q + 1)
    <2>1. Len(Tail(todo)) = Len(todo) - 1 /\ Len(todo) \in Nat
      BY <1>1, TailOf
    <2>2. Taken' = Taken /\ Taken \in Int
      BY <1>1 DEF Taken
    <2> QED BY <1>1, <1>2, <2>1, <2>2 DEF HandledUnits
  <1>9. CASE /\ ~ShouldFlush(Head(todo), Tail(todo) = <<>>)
             /\ todo' = Tail(todo) /\ batch' = Append(batch, Head(todo))
             /\ UNCHANGED <<stage, pending, backend, closeAfter, result, pumpVars, seenVars>>
    <2>1. /\ delivered' = delivered /\ answered' = answered /\ copyReady' = copyReady
          /\ stage' = stage /\ pending' = pending /\ batch' = b
      BY <1>2, <1>3, <1>9 DEF seenVars
    <2>2. SeenInOrder' /\ Waiting'
      BY <1>1, <2>1, SeenSame, WaitingKept
    <2>3. Exact(delivered \o UnitsOf(batch), HandledUnits)'
      BY <1>1, <1>6, <1>8, <1>9, <2>1, ExactMoved
    <2>5. ASSUME NEW j \in 1 .. Len(b) PROVE sent[b[j]] \notin {"CopyInQuery", "CopyOutQuery"}
      <3>1. CASE j \in 1 .. Len(batch)
        BY <1>1, <1>4, <3>1 DEF HandledInOrder, Kind
      <3>2. CASE j = Len(b)
        BY <1>2, <1>4, <1>9, <3>2 DEF ShouldFlush, Kind
      <3> QED BY <1>4, <3>1, <3>2
    <2>6. HandledInOrder'
      BY <1>1, <2>1, <2>3, <2>5 DEF HandledInOrder, Kind
    <2> QED BY <1>1, <2>1, <2>2, <2>6, LoopStays DEF PatientInv, ReadOrder
  <1>10. CASE ReturnErr /\ UNCHANGED <<pumpVars, seenVars>>
    <2>1. stage' = "done" /\ delivered' = delivered /\ answered' = answered /\ copyReady' = copyReady
      BY <1>10 DEF ReturnErr, Abort, seenVars
    <2> QED BY <1>1, <2>1, SeenSame, WaitingKept, ScopeLeft DEF PatientInv
  <1>11. CASE FlushBuffered(b) /\ WriteResponse(b, Handled(FALSE))
    <2>1. delivered' = delivered \o UnitsOf(b) /\ copyReady' = copyReady
      BY <1>11 DEF FlushBuffered
    <2>2. Waiting'
      BY <1>1, <2>1, WaitingKept
    <2>3. ASSUME NEW c \in 0 .. Len(b), answered' = answered \o Answers(SubSeq(b, 1, c))
          PROVE  SeenInOrder'
      BY <1>1, <1>6, <1>7, <2>1, <2>3, FlushSeen
    <2>4. /\ answered \o Answers(SubSeq(b, 1, 0)) = answered
          /\ SubSeq(b, 1, Len(b)) = b
          /\ 0 \in 0 .. Len(b) /\ Len(b) \in 0 .. Len(b)
      <3>1. b \in Seq(1 .. Len(sent)) /\ answered \in Seq(1 .. Len(sent)) /\ Len(b) \in Nat
        BY <1>1, <1>4 DEF SentMessages
      <3> QED BY <1>1, <3>1, NoAnswers
    <2>5. CASE answered' = answered \o Answers(b) /\ Handled(FALSE)
      <3>1. SeenInOrder'
        BY <2>3, <2>4, <2>5
      <3>2. batch' = <<>> /\ todo' = Tail(todo) /\ pending' = pending /\ stage' = stage
        BY <2>5 DEF Handled
      <3>3. delivered' \o UnitsOf(batch') = delivered \o UnitsOf(b)
        <4>1. UnitsOf(batch') = <<>>
          BY <3>2 DEF UnitsOf
        <4>2. \A s \in Seq(SentUnits) : s \o <<>> = s
          OBVIOUS
        <4> QED BY <1>6, <2>1, <4>1, <4>2
      <3>4. Exact(delivered \o UnitsOf(batch), HandledUnits)'
        BY <1>1, <1>6, <1>8, <3>2, <3>3, ExactMoved
      <3>5. Len(batch') = 0
        BY <3>2
      <3>6. HandledInOrder'
        BY <3>4, <3>5 DEF HandledInOrder
      <3> QED BY <1>1, <2>2, <3>1, <3>2, <3>6, LoopStays DEF PatientInv, ReadOrder
    <2>6. CASE answered' = answered /\ ReturnErr
      <3>1. stage' = "done"
        BY <2>6 DEF ReturnErr, Abort
      <3> QED BY <2>2, <2>3, <2>4, <2>6, <3>1, ScopeLeft DEF PatientInv
    <2> QED BY <1>11, <2>5, <2>6 DEF WriteResponse
  <1>12. CASE /\ ShouldFlush(Head(todo), Tail(todo) = <<>>) /\ FlushHandoff(b)
              /\ todo' = Tail(todo) /\ stage' = "drain" /\ pending' = pending /\ result' = result
    <2>1. /\ delivered' = delivered \o UnitsOf(b) /\ hostInput' = <<>> /\ prefix' = prefix
          /\ entries' # 0 => Has(b, CopyInKinds)
          /\ SeenInOrder'
      BY <1>1, <1>5, <1>6, <1>7, <1>12, WholeHandoff
    <2>2. Waiting'
      BY <1>1, WaitingKept
    <2>3. PICK w \in Seq(SentUnits) : w = UnitsOf(Tail(todo)) \o pending
      BY <1>1, <1>2, ContinuationUnits, Zenon
    <2>4. /\ Taken - Len(w) = 2 * (q + 1)
          /\ \A j \in 1 .. Len(w) : w[j] = 2 * (q + 1) + j
      BY <1>1, <1>2, <2>3, ContinuationUnits
    <2>5. Continuation' = w
      BY <1>12, <2>3 DEF Continuation, ContinuationPrefix
    <2>6. StreamedUnits' = 2 * (q + 1)
      <3>1. Taken' = Taken
        BY <1>1 DEF Taken
      <3> QED BY <2>4, <2>5, <3>1 DEF StreamedUnits
    <2>7. Exact(delivered, StreamedUnits)'
      <3>1. Exact(delivered', StreamedUnits')
        BY <1>6, <2>1, <2>6
      <3> QED BY <1>1, <3>1 DEF Exact, Increasing, Channel!ControlKinds
    <2>8. ASSUME entries' # 0 PROVE w = <<>>
      <3>1. PICK j \in 1 .. Len(b) : sent[b[j]] \in CopyInKinds
        BY <2>1, <2>8 DEF Has, Kind
      <3>2. PICK i \in 1 .. (q + 1) : i = b[j] /\ sent[i] \in CopyInKinds
        <4>1. b[j] \in 1 .. (q + 1)
          BY <1>2, <1>4
        <4> QED BY <3>1, <4>1
      <3>3. i \in 1 .. Len(sent)
        BY <1>1, <1>2
      <3>4. \/ i = Len(sent)
            \/ /\ i = Len(sent) - 1 /\ sent[i] = "CopyInExec"
        BY <1>1, <3>2, <3>3 DEF Waiting
      <3>5. i = q + 1 => sent[i] # "CopyInExec"
        BY <1>2, <1>12 DEF ShouldFlush, Kind
      <3>6. q + 1 = Len(sent)
        BY <1>1, <1>2, <3>3, <3>4, <3>5
      <3>7. PICK l \in Nat, k \in Nat : l = Len(w) /\ k = Len(socket)
        BY <1>1, LenNat, Zenon
      <3>8. 2 * Len(sent) - k - l = 2 * (q + 1)
        BY <2>4, <3>7 DEF Taken
      <3>9. l = 0
        BY <1>1, <3>6, <3>7, <3>8
      <3>10. Len(w) = 0
        BY <3>7, <3>9
      <3> QED BY <3>10
    <2>9. StreamedInOrder'
      <3>1. StreamedUnits' \in Nat
        BY <1>7, <2>6
      <3>2. \A j \in 1 .. Len(Continuation') : Continuation'[j] = StreamedUnits' + j
        BY <2>4, <2>5, <2>6
      <3>3. stage' = "drain" /\ entries' # 0 => Continuation' = <<>>
        BY <2>5, <2>8
      <3> QED BY <2>7, <3>1, <3>2, <3>3 DEF StreamedInOrder
    <2>10. ReadOrder' /\ StreamOrder'
      BY <1>1, <1>12, <2>1, <2>9 DEF ReadOrder, StreamOrder, Reading, Served
    <2> QED BY <2>1, <2>2, <2>10 DEF PatientInv
  <1>13. CASE FlushFails(b)
    BY <1>1, <1>6, <1>7, <1>13, FailedOrder
  <1> QED BY <1>2, <1>3, <1>9, <1>10, <1>11, <1>12, <1>13 DEF HandleProtocol

(* The next unit of the stream is the one behind those delivered.          *)
LEMMA StreamInOrder ==
    ASSUME Inv, PatientInv, StreamRead
    PROVE  PatientInv'
  <1>1. /\ sent' = sent /\ UNCHANGED <<pending, todo, result>> /\ hostInput' = hostInput
        /\ stage \in {"drain", "stream"} /\ stage \in Served
        /\ (Dispatching => entries > 1)
        /\ stage' \in {stage, "closing"}
    BY DEF StreamRead, Streaming, Served
  <1>2. PICK u \in SentUnits : StreamOf(u)
    BY StreamEffect DEF StreamOf
  <1>3. /\ Len(sent) \in Nat /\ prefix \in Seq(SentUnits) /\ socket \in Seq(SentUnits)
        /\ delivered \in Seq(SentUnits) /\ answered \in Seq(SentMessages)
        /\ Len(socket) \in Nat /\ Len(prefix) \in Nat
    BY Buffers DEF Inv, SeenFields
  <1>4. result = "running"
    <2>1. result \in {"running", "err"}
      BY <1>1 DEF Inv, StageInv
    <2>2. prefix # <<>> \/ Len(socket) > lost
      BY <1>2 DEF StreamOf
    <2>3. Len(socket) > lost => Len(socket) # lost
      BY <1>3 DEF Inv, ClientFields
    <2> QED BY <1>1, <2>1, <2>2, <2>3 DEF PatientInv, StreamOrder
  <1>5. StreamedInOrder /\ hostInput = <<>> /\ SeenInOrder /\ Waiting
    BY <1>1, <1>4 DEF PatientInv, StreamOrder
  <1>6. PICK n \in Nat : n = StreamedUnits /\ Exact(delivered, n)
    BY <1>5 DEF StreamedInOrder
  <1>7. /\ u = n + 1
        /\ stage' # "closing" =>
             /\ StreamedUnits' = n + 1
             /\ \A j \in 1 .. Len(Continuation') : Continuation'[j] = n + 1 + j
             /\ stage' = "drain" => Continuation' = <<>>
    <2>1. CASE prefix # <<>> /\ u = Head(prefix) /\ prefix' = Tail(prefix) /\ socket' = socket
      <3>1. stage = "stream" /\ Continuation = prefix
        BY <1>1, <2>1 DEF Inv, StageInv, Continuation
      <3>2. PICK k \in Nat : k = Len(prefix) /\ k > 0
        BY <1>3, <2>1
      <3>3. /\ Len(Tail(prefix)) = k - 1 /\ Head(prefix) = prefix[1]
            /\ \A j \in 1 .. (k - 1) : Tail(prefix)[j] = prefix[j + 1]
        BY <1>3, <2>1, <3>2
      <3>4. n = Taken - k /\ \A j \in 1 .. k : prefix[j] = n + j
        BY <1>5, <1>6, <3>1, <3>2 DEF StreamedInOrder, StreamedUnits
      <3>5. u = n + 1
        BY <2>1, <3>2, <3>3, <3>4
      <3>6. Taken' = Taken /\ Taken \in Int
        BY <1>1, <1>3, <2>1 DEF Taken
      <3>7. ASSUME stage' # "closing"
            PROVE  /\ stage' = "stream" /\ Continuation' = Tail(prefix)
        BY <1>1, <2>1, <3>1, <3>7 DEF Continuation
      <3>8. ASSUME stage' # "closing" PROVE StreamedUnits' = n + 1
        <4>1. StreamedUnits' = Taken - (k - 1)
          BY <3>3, <3>6, <3>7, <3>8 DEF StreamedUnits
        <4> QED BY <3>4, <3>6, <4>1
      <3>9. \A j \in 1 .. (k - 1) : Tail(prefix)[j] = n + 1 + j
        <4>1. \A j \in 1 .. (k - 1) : j + 1 \in 1 .. k /\ n + (j + 1) = n + 1 + j
          OBVIOUS
        <4> QED BY <3>3, <3>4, <4>1
      <3> QED BY <3>3, <3>5, <3>7, <3>8, <3>9
    <2>2. CASE /\ prefix = <<>> /\ prefix' = prefix /\ socket # <<>> /\ u = Head(socket)
               /\ socket' = Tail(socket)
      <3>1. Continuation = <<>>
        <4>1. CASE stage = "stream"
          BY <2>2, <4>1 DEF Continuation
        <4>2. CASE stage = "drain"
          <5>1. entries # 0
            BY <1>1, <4>2 DEF Inv, StageInv, Dispatching
          <5> QED BY <1>5, <4>2, <5>1 DEF StreamedInOrder
        <4> QED BY <1>1, <4>1, <4>2
      <3>2. PICK k \in Nat : k = Len(socket) /\ k > 0
        BY <1>3, <2>2
      <3>3. Len(Tail(socket)) = k - 1 /\ Head(socket) = socket[1]
        BY <1>3, <2>2, <3>2
      <3>4. Taken \in Int /\ Taken' = Taken + 1
        BY <1>1, <1>3, <2>2, <3>2, <3>3 DEF Taken
      <3>5. Len(<<>>) = 0
        OBVIOUS
      <3>6. n = Taken
        BY <1>6, <3>1, <3>4, <3>5 DEF StreamedUnits
      <3>7. u = n + 1
        BY <2>2, <3>2, <3>3, <3>6 DEF Inv, SocketInv
      <3>8. ASSUME stage' # "closing" PROVE Continuation' = <<>>
        <4>1. stage' = stage
          BY <1>1, <3>8
        <4> QED BY <1>1, <2>2, <3>1, <4>1 DEF Continuation, ContinuationPrefix
      <3>9. ASSUME stage' # "closing" PROVE StreamedUnits' = n + 1
        BY <3>4, <3>5, <3>6, <3>8, <3>9 DEF StreamedUnits
      <3> QED BY <3>5, <3>7, <3>8, <3>9
    <2> QED BY <1>2, <2>1, <2>2 DEF StreamOf
  <1>8. delivered' = Append(delivered, n + 1) /\ n + 1 \in Nat /\ n + 1 <= 2 * Len(sent)
    BY <1>2, <1>3, <1>7 DEF StreamOf, SentUnits
  <1>9. delivered \in Seq(Nat) /\ answered \in Seq(Nat)
    <2>1. 2 * Len(sent) \in Nat
      BY <1>3
    <2> QED BY <1>3, <2>1, UnitsNat DEF SentUnits, SentMessages
  <1>10. Exact(Append(delivered, n + 1), n + 1)
    BY <1>6, <1>9, ExactNext
  <1>11. Channel!Faithful(Append(delivered, n + 1), sent)
    <2>1. PICK w \in Seq(Nat) : w = Append(delivered, n + 1)
      BY <1>9, AppendNat, Zenon
    <2>2. \A j \in 1 .. Len(w) : w[j] > 0
      <3>1. Append(delivered, u) \in Seq(SentUnits)
        BY <1>3
      <3> QED BY <1>7, <2>1, <3>1 DEF SentUnits
    <2>3. Exact(w, n + 1) /\ Len(w) <= Len(w) /\ \A j \in 1 .. Len(w) : w[j] = w[j]
      BY <1>10, <2>1
    <2>4. Channel!Faithful(w, sent)
      BY <1>3, <1>8, <2>2, <2>3, ExactFaithful
    <2> QED BY <2>1, <2>4
  <1>12. Channel!AnswersFollow(answered', Append(delivered, n + 1))
    <2>1. \/ answered' = answered
          \/ Last(u) /\ answered' = Append(answered, MessageOf(u))
      <3>1. u = Head(prefix \o socket)
        <4>1. delivered' = Append(delivered, Head(prefix \o socket))
          BY DEF StreamRead
        <4>2. StreamOf(Head(prefix \o socket))
          BY StreamEffect
        <4> QED BY <1>2, <4>2 DEF StreamOf
      <3> QED BY <3>1 DEF StreamRead, StreamMessage
    <2>2. Channel!AnswersFollow(answered, delivered)
      BY <1>5 DEF SeenInOrder
    <2>3. ASSUME Last(u) PROVE MessageOf(u) \in Nat /\ n + 1 = 2 * MessageOf(u)
      <3>1. PICK m \in Nat : u = 2 * m
        <4>1. u \in Nat /\ u % 2 = 0
          BY <1>7, <2>3 DEF Last
        <4>2. u = 2 * (u \div 2) /\ u \div 2 \in Nat
          BY <4>1, Halves
        <4> QED BY <4>2
      <3>2. m > 0
        BY <1>7, <3>1
      <3>3. MessageOf(2 * m) = m
        BY <3>2, MessageOfUnits
      <3> QED BY <1>7, <3>1, <3>3
    <2> QED BY <1>6, <1>9, <2>1, <2>2, <2>3, AnswerNext
  <1>13. SeenInOrder'
    <2>1. Channel!Faithful(delivered', sent') /\ Channel!AnswersFollow(answered', delivered')
      BY <1>1, <1>8, <1>11, <1>12
    <2> QED BY <2>1 DEF SeenInOrder, Channel!Faithful, Channel!AnswersFollow, Channel!MessageOf,
                        Channel!ControlKinds
  <1>14. Waiting'
    <2>1. copyReady' = copyReady \/ copyReady' = copyReady + 1
      BY DEF StreamRead, StreamMessage
    <2>2. copyReady \in Nat
      BY DEF Inv, SeenFields
    <2>3. copyReady' = 0 => copyReady = 0
      BY <2>1, <2>2
    <2> QED BY <1>1, <1>5, <2>3, WaitingKept
  <1>15. ReadOrder'
    BY <1>1 DEF ReadOrder, Reading
  <1>16. StreamOrder'
    <2>1. CASE stage' = "closing"
      BY <1>1, <1>4, <2>1 DEF StreamOrder
    <2>2. CASE stage' # "closing"
      <3>1. Exact(delivered, StreamedUnits)'
        <4>1. Exact(delivered', StreamedUnits')
          BY <1>7, <1>8, <1>10, <2>2
        <4> QED BY <1>1, <4>1 DEF Exact, Increasing, Channel!ControlKinds
      <3>2. \A j \in 1 .. Len(Continuation') : Continuation'[j] = StreamedUnits' + j
        BY <1>7, <2>2
      <3>3. StreamedInOrder'
        BY <1>7, <1>8, <2>2, <3>1, <3>2 DEF StreamedInOrder
      <3> QED BY <1>1, <1>4, <1>5, <3>3 DEF StreamOrder
    <2> QED BY <2>1, <2>2
  <1> QED BY <1>13, <1>14, <1>15, <1>16 DEF PatientInv

(* The stream's order depends on these variables only.                     *)
LEMMA StreamedSame ==
    ASSUME StreamedInOrder, sent' = sent, socket' = socket, delivered' = delivered,
           Continuation' = Continuation,
           \/ stage' # "drain"
           \/ stage' = stage /\ entries' = entries
    PROVE  StreamedInOrder'
  <1>1. StreamedUnits' = StreamedUnits
    BY DEF StreamedUnits, Taken
  <1> QED BY <1>1 DEF StreamedInOrder, Exact, Increasing, Channel!ControlKinds

(* The continuation becomes the prefix of the stream.                      *)
LEMMA DrainOrder ==
    ASSUME Inv, PatientInv, DrainReturns
    PROVE  PatientInv'
  <1>1. /\ sent' = sent /\ socket' = socket /\ delivered' = delivered /\ answered' = answered
        /\ copyReady' = copyReady /\ hostInput' = hostInput /\ result' = result
        /\ prefix' = ContinuationPrefix /\ todo' = <<>> /\ pending' = <<>> /\ client' = client
        /\ lost' = lost
        /\ stage = "drain" /\ stage' = "stream"
    BY DEF DrainReturns, clientVars, seenVars, Dispatching
  <1>2. SeenInOrder' /\ Waiting' /\ ReadOrder'
    BY <1>1, SeenSame, WaitingKept DEF PatientInv, ReadOrder, Reading
  <1>3. ASSUME result' = "running" PROVE hostInput' = <<>> /\ StreamedInOrder'
    <2>1. hostInput = <<>> /\ StreamedInOrder
      BY <1>1, <1>3 DEF PatientInv, StreamOrder
    <2>2. Continuation' = Continuation
      BY <1>1 DEF Continuation
    <2>3. StreamedInOrder'
      <3>1. sent' = sent /\ socket' = socket /\ delivered' = delivered /\ stage' # "drain"
        BY <1>1
      <3>2. StreamedInOrder
        BY <2>1
      <3> QED BY <2>2, <3>1, <3>2, StreamedSame
    <2> QED BY <1>1, <2>1, <2>3
  <1>4. ASSUME result' = "err"
        PROVE  /\ ClientGone' /\ Len(socket') = lost' /\ prefix' = <<>>
    <2>1. ClientGone /\ Len(socket) = lost /\ todo = <<>> /\ pending = <<>>
      BY <1>1, <1>4 DEF PatientInv, StreamOrder, Served
    <2>2. UnitsOf(<<>>) = <<>>
      BY DEF UnitsOf
    <2>3. ContinuationPrefix = <<>> \o <<>>
      BY <2>1, <2>2 DEF ContinuationPrefix
    <2>4. ContinuationPrefix = <<>>
      BY <2>3
    <2> QED BY <1>1, <2>1, <2>4 DEF ClientGone
  <1> QED BY <1>1, <1>2, <1>3, <1>4 DEF PatientInv, StreamOrder

(* Nothing that the order is about changes.                                *)
LEMMA QuietOrder ==
    ASSUME Inv, PatientInv, StreamEof \/ ClientClose \/ UNCHANGED vars
    PROVE  PatientInv'
  <1>1. /\ sent' = sent /\ socket' = socket /\ delivered' = delivered /\ answered' = answered
        /\ copyReady' = copyReady /\ hostInput' = hostInput /\ result' = result
        /\ prefix' = prefix /\ todo' = todo /\ pending' = pending /\ batch' = batch
        /\ entries' = entries /\ closeAfter' = closeAfter
    BY DEF StreamEof, ClientClose, vars, clientVars, handlerVars, pumpVars, seenVars
  <1>2. ClientGone => ClientGone' /\ lost' = lost
    BY DEF StreamEof, ClientClose, vars, clientVars, ClientGone
  <1>3. stage' = stage \/ (stage = "stream" /\ stage' = "closing")
    BY DEF StreamEof, ClientClose, vars, handlerVars
  <1>4. SeenInOrder' /\ Waiting'
    BY <1>1, SeenSame, WaitingKept DEF PatientInv
  <1>5. ReadOrder'
    <2>1. SUFFICES ASSUME stage' \in Reading, todo' # <<>> \/ ~closeAfter' PROVE HandledInOrder'
      BY DEF ReadOrder
    <2>2. stage = stage'
      BY <1>3, <2>1 DEF Reading
    <2>3. todo # <<>> \/ ~closeAfter
      BY <1>1, <2>1, Zenon
    <2>4. HandledInOrder
      BY <2>1, <2>2, <2>3 DEF PatientInv, ReadOrder
    <2>5. HandledUnits' = HandledUnits
      BY <1>1 DEF HandledUnits, Taken
    <2> QED BY <1>1, <2>4, <2>5, HandledSame
  <1>6. ASSUME stage' \in {"drain", "stream"}, result' = "running"
        PROVE  hostInput' = <<>> /\ StreamedInOrder'
    <2>1. stage' = stage
      BY <1>3, <1>6
    <2>2. hostInput = <<>> /\ StreamedInOrder
      BY <1>1, <1>6, <2>1 DEF PatientInv, StreamOrder
    <2>3. Continuation' = Continuation
      BY <1>1, <2>1 DEF Continuation, ContinuationPrefix
    <2>4. StreamedInOrder'
      BY <1>1, <2>1, <2>2, <2>3, StreamedSame
    <2> QED BY <1>1, <2>2, <2>4
  <1>7. ASSUME stage' \in Served, result' = "err"
        PROVE  /\ ClientGone' /\ Len(socket') = lost' /\ prefix' = <<>> /\ todo' = <<>>
               /\ pending' = <<>>
    <2>1. stage \in Served
      BY <1>3, <1>7 DEF Served
    <2> QED BY <1>1, <1>2, <1>7, <2>1 DEF PatientInv, StreamOrder
  <1>8. StreamOrder'
    BY <1>6, <1>7 DEF StreamOrder
  <1> QED BY <1>4, <1>5, <1>8 DEF PatientInv

(* The actions that end the handler.                                       *)
LEMMA EndOrder ==
    ASSUME Inv, PatientInv,
           \/ ReadFails \/ HandleBadCode \/ DrainGivesUp \/ Cleanup \/ StreamFails
           \/ StreamEnds
    PROVE  PatientInv'
  <1>1. /\ stage' = "done" /\ sent' = sent /\ delivered' = delivered /\ answered' = answered
        /\ copyReady' = copyReady
    BY DEF ReadFails, HandleBadCode, DrainGivesUp, Cleanup, StreamFails, StreamEnds, ReturnErr,
           Abort, clientVars, seenVars
  <1> QED BY <1>1, SeenSame, WaitingKept, ScopeLeft DEF PatientInv

(* No COPY in: none was started.                                           *)
LEMMA NoneStarted ==
    ASSUME sent \in Seq(AllKinds), ~(CopyStarts(sent) > 0), NEW i \in 1 .. Len(sent)
    PROVE  sent[i] \notin CopyInKinds
  <1> DEFINE starts == {j \in DOMAIN sent : sent[j] \in {"CopyInQuery", "CopyInExec"}}
  <1>1. DOMAIN sent = 1 .. Len(sent) /\ Len(sent) \in Nat
    OBVIOUS
  <1>2. IsFiniteSet(starts)
    <2>1. IsFiniteSet(1 .. Len(sent)) /\ starts \subseteq 1 .. Len(sent)
      BY <1>1, FS_Interval
    <2> QED BY <2>1, FS_Subset
  <1>3. CopyStarts(sent) = Cardinality(starts)
    BY DEF CopyStarts
  <1> HIDE DEF starts
  <1>4. Cardinality(starts) = 0
    <2>1. Cardinality(starts) \in Nat
      BY <1>2, FS_CardinalityType
    <2> QED BY <1>3, <2>1
  <1>5. starts = {}
    BY <1>2, <1>4, FS_EmptySet
  <1> QED BY <1>1, <1>5 DEF starts, CopyInKinds

(* A client that waits keeps waiting; what it sends comes behind the rest. *)
LEMMA SendOrder ==
    ASSUME Inv, PatientInv, profile.patient, ClientSend
    PROVE  PatientInv'
  <1>1. /\ delivered' = delivered /\ answered' = answered /\ copyReady' = copyReady
        /\ hostInput' = hostInput /\ result' = result /\ prefix' = prefix /\ todo' = todo
        /\ pending' = pending /\ batch' = batch /\ entries' = entries /\ stage' = stage
        /\ closeAfter' = closeAfter /\ client = "here"
    BY DEF ClientSend, handlerVars, pumpVars, seenVars
  <1>2. /\ Len(sent') = Len(sent) + 1 /\ Len(sent) \in Nat /\ Taken' = Taken
        /\ \A i \in 1 .. Len(sent) : sent'[i] = sent[i]
        /\ sent \in Seq(AllKinds) /\ Len(socket) \in Nat
    <2>1. sent \in Seq(AllKinds)
      BY DEF Inv, ClientFields
    <2>2. Len(socket) \in Nat /\ Len(sent) \in Nat
      BY Buffers
    <2> QED BY <2>1, <2>2, SendEffect, Zenon
  <1>3. SeenInOrder'
    <2>1. Channel!Faithful(delivered, sent)'
      BY FaithfulSent DEF PatientInv, SeenInOrder
    <2>2. Channel!AnswersFollow(answered, delivered)'
      BY <1>1 DEF PatientInv, SeenInOrder, Channel!AnswersFollow
    <2> QED BY <2>1, <2>2 DEF SeenInOrder
  <1>4. Waiting'
    <2>1. SUFFICES ASSUME copyReady = 0, NEW i \in 1 .. (Len(sent) + 1), sent'[i] \in CopyInKinds
                   PROVE  \/ i = Len(sent) + 1
                          \/ /\ i = Len(sent) /\ sent'[i] = "CopyInExec"
                             /\ sent'[Len(sent) + 1] \in {"Sync", "Flush"}
      BY <1>1, <1>2 DEF Waiting
    <2>2. SUFFICES ASSUME i \in 1 .. Len(sent)
                   PROVE  /\ i = Len(sent) /\ sent'[i] = "CopyInExec"
                          /\ sent'[Len(sent) + 1] \in {"Sync", "Flush"}
      BY <1>2
    <2>3. sent[i] \in CopyInKinds
      BY <1>2, <2>1, <2>2
    <2>4. PICK k \in profile.kinds : ~ClientWaits(k) /\ sent' = Append(sent, k)
      BY DEF ClientSend
    <2>5. CopyStarts(sent) > 0
      BY <1>2, <2>2, <2>3, NoneStarted
    <2>6. k \in {"Sync", "Flush"} /\ sent[Len(sent)] = "CopyInExec"
      BY <2>1, <2>4, <2>5 DEF ClientWaits
    <2>7. i = Len(sent)
      BY <2>1, <2>2, <2>3, <2>6 DEF PatientInv, Waiting
    <2>8. sent'[Len(sent) + 1] = k
      BY <1>2, <2>4
    <2> QED BY <1>2, <2>2, <2>6, <2>7, <2>8
  <1>5. ReadOrder'
    <2>1. SUFFICES ASSUME stage \in Reading, todo' # <<>> \/ ~closeAfter' PROVE HandledInOrder'
      BY <1>1 DEF ReadOrder
    <2>2. todo # <<>> \/ ~closeAfter
      BY <1>1, <2>1, Zenon
    <2>3. HandledInOrder
      BY <2>1, <2>2 DEF PatientInv, ReadOrder
    <2>4. PICK q \in Nat : /\ HandledUnits = 2 * q /\ q <= Len(sent)
                           /\ \A j \in 1 .. Len(batch) : batch[j] \in 1 .. q
      BY <2>1, HandledPosition
    <2>5. HandledUnits' = HandledUnits
      BY <1>1, <1>2 DEF HandledUnits
    <2>6. PICK w : w = delivered \o UnitsOf(batch)
      OBVIOUS
    <2>7. 2 * q \in Nat /\ 2 * q <= 2 * Len(sent) /\ Exact(w, 2 * q)
      BY <1>2, <2>3, <2>4, <2>6 DEF HandledInOrder
    <2>8. Exact(delivered \o UnitsOf(batch), HandledUnits)'
      <3>1. \A x : x = w => Exact(x, 2 * q)'
        BY <1>2, <2>7, ExactSent
      <3>2. delivered' \o UnitsOf(batch') = w /\ HandledUnits' = 2 * q
        BY <1>1, <2>4, <2>5, <2>6
      <3> QED BY <3>1, <3>2 DEF Exact, Increasing, Channel!ControlKinds
    <2>9. \A j \in 1 .. Len(batch') : sent'[batch'[j]] \notin {"CopyInQuery", "CopyOutQuery"}
      <3>1. ASSUME NEW j \in 1 .. Len(batch)
            PROVE  sent'[batch[j]] \notin {"CopyInQuery", "CopyOutQuery"}
        <4>1. batch[j] \in 1 .. Len(sent)
          BY <1>2, <2>4
        <4>2. sent'[batch[j]] = sent[batch[j]]
          BY <1>2, <4>1
        <4> QED BY <2>3, <4>2 DEF HandledInOrder, Kind
      <3> QED BY <1>1, <3>1
    <2> QED BY <2>8, <2>9 DEF HandledInOrder, Kind
  <1>6. ASSUME stage \in {"drain", "stream"}, result = "running"
        PROVE  hostInput' = <<>> /\ StreamedInOrder'
    <2>1. hostInput = <<>> /\ StreamedInOrder
      BY <1>6 DEF PatientInv, StreamOrder
    <2>2. Continuation' = Continuation
      BY <1>1 DEF Continuation, ContinuationPrefix
    <2>3. StreamedUnits' = StreamedUnits
      BY <1>2, <2>2 DEF StreamedUnits
    <2>4. PICK n \in Nat : n = StreamedUnits /\ Exact(delivered, n)
      BY <2>1 DEF StreamedInOrder
    <2>5. n <= 2 * Len(sent)
      <3>1. Len(Continuation) \in Nat
        <4>1. prefix \in Seq(SentUnits) /\ ContinuationPrefix \in Seq(SentUnits)
          BY Buffers, ConcatOf DEF ContinuationPrefix
        <4> QED BY <4>1 DEF Continuation
      <3> QED BY <1>2, <2>4, <3>1 DEF StreamedUnits, Taken
    <2>6. Exact(delivered, StreamedUnits)'
      <3>1. \A x : x = delivered => Exact(x, n)'
        BY <1>2, <2>4, <2>5, ExactSent
      <3>2. delivered' = delivered /\ StreamedUnits' = n
        BY <1>1, <2>3, <2>4
      <3> QED BY <3>1, <3>2 DEF Exact, Increasing, Channel!ControlKinds
    <2> QED BY <1>1, <2>1, <2>2, <2>3, <2>6 DEF StreamedInOrder
  <1>7. StreamOrder'
    <2>1. ~(stage \in Served /\ result = "err")
      BY <1>1 DEF PatientInv, StreamOrder, ClientGone
    <2> QED BY <1>1, <1>6, <2>1 DEF StreamOrder
  <1> QED BY <1>3, <1>4, <1>5, <1>7 DEF PatientInv

(* The kind of client stays, and what it sent is among what it uses.       *)
LEMMA UsesKept ==
    ASSUME Inv, [Next]_vars, \A i \in 1 .. Len(sent) : sent[i] \in Uses(profile)
    PROVE  profile' = profile /\ \A i \in 1 .. Len(sent') : sent'[i] \in Uses(profile')
  <1>1. CASE ClientSend
    <2>1. /\ Len(sent') = Len(sent) + 1 /\ Len(sent) \in Nat
          /\ \A i \in 1 .. Len(sent) : sent'[i] = sent[i]
      BY <1>1, SendEffect, Buffers
    <2>2. PICK k \in profile.kinds : sent' = Append(sent, k) /\ profile' = profile
      BY <1>1 DEF ClientSend
    <2>3. sent'[Len(sent) + 1] \in Uses(profile)
      <3>1. sent \in Seq(AllKinds)
        BY DEF Inv, ClientFields
      <3> QED BY <2>1, <2>2, <3>1 DEF Uses
    <2> QED BY <2>1, <2>2, <2>3
  <1>2. CASE ~ClientSend
    <2>1. sent' = sent /\ profile' = profile
      BY <1>2 DEF Next, Handler, Finished, ClientClose, Read, ReadFails, ReadEof, EndOfRead,
         Cleanup, HandleSsl, HandleClosing, HandleStartup, HandleBadCode, HandleProtocol,
         StreamRead, StreamEof, DrainReturns, DrainGivesUp, StreamEnds, StreamFails, vars, clientVars
    <2> QED BY <2>1
  <1> QED BY <1>1, <1>2

(* Every step of a patient client's connection keeps the order.            *)
LEMMA NextOrder ==
    ASSUME PatientBehave, CopyFits, Inv, OrderInv, [Next]_vars
    PROVE  OrderInv'
  <1>1. profile' = profile /\ \A i \in 1 .. Len(sent') : sent'[i] \in Uses(profile')
    BY UsesKept DEF OrderInv
  <1>2. SUFFICES ASSUME profile.patient PROVE PatientInv'
    BY <1>1 DEF OrderInv
  <1>3. /\ PatientInv /\ WellBehaved(profile)
        /\ \A i \in 1 .. Len(sent) : sent[i] \in Uses(profile)
    BY <1>2 DEF OrderInv, PatientBehave, Inv, ClientFields
  <1>4. CASE HandleSsl \/ HandleClosing
    <2>1. /\ UNCHANGED clientVars /\ stage = "handle" /\ todo # <<>>
          /\ Kind(Head(todo)) \in {"Ssl", "Cancel", "Terminate"}
          /\ FlushIfStarted(Handled(FALSE)) \/ FlushIfStarted(Handled(TRUE))
      BY <1>4 DEF HandleSsl, HandleClosing, Handling
    <2> QED BY <1>3, <2>1, ControlOrder
  <1>5. CASE StreamEof \/ ClientClose \/ Finished \/ UNCHANGED vars
    BY <1>3, <1>5, QuietOrder DEF Finished
  <1>6. CASE \/ ReadFails \/ HandleBadCode \/ DrainGivesUp \/ Cleanup \/ StreamFails
             \/ StreamEnds
    BY <1>3, <1>6, EndOrder
  <1>7. CASE ClientSend
    BY <1>2, <1>3, <1>7, SendOrder
  <1> QED BY <1>2, <1>3, <1>4, <1>5, <1>6, <1>7, ReadInOrder, EofOrder, EndOfReadOrder, StartupOrder,
             ProtocolOrder, StreamInOrder, DrainOrder
          DEF Next, Handler

(* The first state: nothing was read, and the prelude starts no COPY.      *)
LEMMA InitOrder ==
    ASSUME PatientBehave, Init
    PROVE  OrderInv
  <1>1. /\ profile \in Profiles /\ sent = profile.prelude /\ stage = "read" /\ result = "running"
        /\ pending = <<>> /\ todo = <<>> /\ batch = <<>> /\ delivered = <<>> /\ answered = <<>>
        /\ copyReady = 0
        /\ socket = [u \in 1 .. 2 * Len(sent) |-> u]
    BY DEF Init
  <1>2. Inv
    BY InitInv
  <1>3. sent \in Seq(AllKinds) /\ Len(sent) \in Nat /\ DOMAIN sent = 1 .. Len(sent)
    BY <1>2, Buffers DEF Inv, ClientFields
  <1>4. \A i \in 1 .. Len(sent) : sent[i] \in Uses(profile)
    BY <1>1, <1>3 DEF Uses
  <1>5. SUFFICES ASSUME profile.patient PROVE PatientInv
    BY <1>4 DEF OrderInv
  <1>6. WellBehaved(profile)
    BY <1>1, <1>5 DEF PatientBehave
  <1>7. Waiting
    BY <1>1, <1>3, <1>6 DEF Waiting, WellBehaved
  <1>8. SeenInOrder
    BY <1>1 DEF SeenInOrder, Channel!Faithful, Channel!AnswersFollow
  <1>9. HandledUnits = 0
    <2>1. Len(socket) = 2 * Len(sent)
      BY <1>1, <1>3
    <2> QED BY <1>1, <1>3, <2>1 DEF HandledUnits, Taken
  <1>10. delivered \o UnitsOf(batch) = <<>>
    <2>1. UnitsOf(batch) = <<>>
      BY <1>1 DEF UnitsOf
    <2> QED BY <1>1, <2>1
  <1>11. HandledInOrder
    <2>1. Exact(<<>>, 0)
      BY DEF Exact, Increasing
    <2>2. Len(batch) = 0
      BY <1>1
    <2> QED BY <1>9, <1>10, <2>1, <2>2 DEF HandledInOrder
  <1>12. ReadOrder /\ StreamOrder
    BY <1>1, <1>11 DEF ReadOrder, StreamOrder, Served
  <1> QED BY <1>7, <1>8, <1>12 DEF PatientInv

-----------------------------------------------------------------------------
(* Every step of the connection is a step of the channel, or none.         *)

(* A concatenation extends its first part.                                 *)
LEMMA ConcatExtends ==
    ASSUME NEW S, NEW s \in Seq(S), NEW t \in Seq(S)
    PROVE  Channel!Extends(s \o t, s)
  <1>1. /\ s \o t \in Seq(S) /\ Len(s \o t) = Len(s) + Len(t) /\ Len(s) \in Nat /\ Len(t) \in Nat
        /\ \A j \in 1 .. Len(s) : (s \o t)[j] = s[j]
    BY ConcatOf
  <1>2. PICK w \in Seq(S) : w = s \o t
    BY <1>1, Zenon
  <1>3. SubSeq(w, 1, Len(s)) = s
    <2>1. PICK v \in Seq(S) : v = SubSeq(w, 1, Len(s))
      <3>1. SubSeq(w, 1, Len(s)) \in Seq(S)
        BY <1>1, <1>2
      <3> QED BY <3>1, Zenon
    <2>2. Len(v) = Len(s) /\ \A j \in 1 .. Len(v) : v[j] = s[j]
      BY <1>1, <1>2, <2>1
    <2>3. v = s
      BY <2>2, SameSeq
    <2> QED BY <2>1, <2>3
  <1> QED BY <1>1, <1>2, <1>3 DEF Channel!Extends

(* A sequence extends itself.                                              *)
LEMMA SameExtends ==
    ASSUME NEW S, NEW s \in Seq(S) PROVE Channel!Extends(s, s)
  <1>1. Len(s) <= Len(s) /\ SubSeq(s, 1, Len(s)) = s
    OBVIOUS
  <1> QED BY <1>1 DEF Channel!Extends

(* What both ends have seen only grows.                                    *)
SeenGrows == Channel!Extends(delivered', delivered) /\ Channel!Extends(answered', answered)

(* A step that shows neither end anything takes nothing back.              *)
LEMMA KeptGrows ==
    ASSUME Inv, UNCHANGED seenVars PROVE SeenGrows
  <1>1. /\ delivered' = delivered /\ answered' = answered
        /\ delivered \in Seq(SentUnits) /\ answered \in Seq(SentMessages)
    BY DEF seenVars, Inv, SeenFields
  <1> QED BY <1>1, SameExtends DEF SeenGrows

(* Neither does a flush or a handoff.                                      *)
LEMMA FlushGrows ==
    ASSUME Inv, NEW b \in Seq(SentMessages),
           \/ FlushBuffered(b) /\ (answered' = answered \o Answers(b) \/ answered' = answered)
           \/ FlushHandoff(b) \/ FlushFails(b)
    PROVE  SeenGrows
  <1>1. /\ Len(sent) \in Nat /\ delivered \in Seq(SentUnits) /\ answered \in Seq(SentMessages)
        /\ profile.recv \in Nat \ {0} /\ b \in Seq(1 .. Len(sent))
    BY Buffers, ProfileSizes DEF Inv, SeenFields, SentMessages
  <1>2. ASSUME NEW s \in Seq(SentMessages)
        PROVE  UnitsOf(s) \in Seq(SentUnits) /\ Answers(s) \in Seq(SentMessages)
    BY <1>1, UnitsOfSeq, AnswersSeq DEF SentUnits, SentMessages
  <1>3. CASE FlushBuffered(b) /\ (answered' = answered \o Answers(b) \/ answered' = answered)
    <2>1. delivered' = delivered \o UnitsOf(b)
      BY <1>3 DEF FlushBuffered
    <2>2. Channel!Extends(delivered', delivered)
      BY <1>1, <1>2, <2>1, ConcatExtends
    <2>3. Channel!Extends(answered', answered)
      <3>1. CASE answered' = answered
        BY <1>1, <3>1, SameExtends
      <3>2. CASE answered' = answered \o Answers(b)
        BY <1>1, <1>2, <3>2, ConcatExtends
      <3> QED BY <1>3, <3>1, <3>2
    <2> QED BY <2>2, <2>3 DEF SeenGrows
  <1>4. CASE FlushHandoff(b)
    <2>1. PICK c \in 1 .. Len(b) : \E a \in 1 .. c : HandoffOf(b, c, a)
      BY <1>1, <1>4, HandoffEffect
    <2>2. PICK a \in 1 .. c : HandoffOf(b, c, a)
      BY <2>1
    <2>3. SubSeq(b, 1, c) \in Seq(SentMessages) /\ SubSeq(b, 1, a) \in Seq(SentMessages)
      OBVIOUS
    <2>4. /\ delivered' = delivered \o UnitsOf(SubSeq(b, 1, c))
          /\ answered' = answered \o Answers(SubSeq(b, 1, a))
      BY <2>2 DEF HandoffOf
    <2> QED BY <1>1, <1>2, <2>3, <2>4, ConcatExtends DEF SeenGrows
  <1>5. CASE FlushFails(b)
    <2>1. PICK c \in 0 .. Len(b) : delivered' = delivered \o UnitsOf(SubSeq(b, 1, c))
      BY <1>5 DEF FlushFails
    <2>2. SubSeq(b, 1, c) \in Seq(SentMessages) /\ answered' = answered
      BY <1>5 DEF FlushFails
    <2> QED BY <1>1, <1>2, <2>1, <2>2, ConcatExtends, SameExtends DEF SeenGrows
  <1> QED BY <1>3, <1>4, <1>5

(* Neither does any step of the handler, or its failure.                   *)
LEMMA HandlerGrows ==
    ASSUME Inv, Handler \/ StreamFails
    PROVE  sent' = sent /\ profile' = profile /\ stage # "done" /\ SeenGrows
  <1>1. sent' = sent /\ profile' = profile
    BY DEF Handler, Read, ReadFails, ReadEof, EndOfRead,
       Cleanup, HandleSsl, HandleClosing, HandleStartup, HandleBadCode, HandleProtocol,
       StreamRead, StreamEof, DrainReturns, DrainGivesUp, StreamEnds, StreamFails, clientVars
  <1>2. stage # "done"
    BY DEF Handler, Read, ReadFails, ReadEof, EndOfRead,
       Cleanup, HandleSsl, HandleClosing, HandleStartup, HandleBadCode, HandleProtocol, Handling,
       StreamRead, StreamEof, DrainReturns, DrainGivesUp, StreamEnds, StreamFails, Streaming,
       Dispatching
  <1>3. CASE \/ Read \/ ReadFails \/ EndOfRead \/ Cleanup \/ HandleStartup \/ HandleBadCode
             \/ StreamEof \/ DrainReturns \/ DrainGivesUp \/ StreamEnds \/ StreamFails
    <2>1. UNCHANGED seenVars
      BY <1>3 DEF Read, ReadFails, EndOfRead, Cleanup, HandleStartup, HandleBadCode, StreamEof,
         DrainReturns, DrainGivesUp, StreamEnds, StreamFails
    <2> QED BY <1>1, <1>2, <2>1, KeptGrows
  <1>4. CASE ReadEof \/ HandleSsl \/ HandleClosing
    <2>1. \/ UNCHANGED seenVars
          \/ FlushBuffered(batch)
             /\ (answered' = answered \o Answers(batch) \/ answered' = answered)
          \/ FlushHandoff(batch) \/ FlushFails(batch)
      BY <1>4 DEF ReadEof, HandleSsl, HandleClosing, FlushIfStarted, WriteResponse
    <2>2. batch \in Seq(SentMessages)
      BY Buffers
    <2> QED BY <1>1, <1>2, <2>1, <2>2, KeptGrows, FlushGrows
  <1>5. CASE HandleProtocol
    <2>1. todo # <<>> /\ todo \in Seq(SentMessages) /\ batch \in Seq(SentMessages)
      BY <1>5, Buffers DEF HandleProtocol, Handling
    <2>2. PICK b \in Seq(SentMessages) : b = Append(batch, Head(todo))
      <3>1. Append(batch, Head(todo)) \in Seq(SentMessages)
        BY <2>1, TailOf
      <3> QED BY <3>1, Zenon
    <2>3. \/ UNCHANGED seenVars
          \/ FlushBuffered(b) /\ (answered' = answered \o Answers(b) \/ answered' = answered)
          \/ FlushHandoff(b) \/ FlushFails(b)
      BY <1>5, <2>2 DEF HandleProtocol, WriteResponse
    <2> QED BY <1>1, <1>2, <2>3, KeptGrows, FlushGrows
  <1>6. CASE StreamRead
    <2>1. StreamOf(Head(prefix \o socket))
      BY <1>6, StreamEffect
    <2>2. PICK u \in SentUnits : u = Head(prefix \o socket) /\ delivered' = Append(delivered, u)
      BY <2>1 DEF StreamOf
    <2>3. answered' = answered \/ answered' = Append(answered, MessageOf(u))
      BY <1>6, <2>2 DEF StreamRead, StreamMessage
    <2>4. /\ delivered \in Seq(SentUnits) /\ answered \in Seq(SentMessages)
          /\ MessageOf(u) \in SentMessages
      BY MessageSent, Buffers DEF Inv, SeenFields, SentUnits, SentMessages
    <2>5. /\ <<u>> \in Seq(SentUnits) /\ Append(delivered, u) = delivered \o <<u>>
          /\ <<MessageOf(u)>> \in Seq(SentMessages)
          /\ Append(answered, MessageOf(u)) = answered \o <<MessageOf(u)>>
      BY <2>4
    <2>6. Channel!Extends(delivered', delivered)
      BY <2>2, <2>4, <2>5, ConcatExtends
    <2>7. Channel!Extends(answered', answered)
      BY <2>3, <2>4, <2>5, ConcatExtends, SameExtends
    <2> QED BY <1>1, <1>2, <2>6, <2>7 DEF SeenGrows
  <1> QED BY <1>1, <1>2, <1>3, <1>4, <1>5, <1>6 DEF Handler

(* Nothing was seen: to a client with no promise the channel is empty.     *)
LEMMA NothingSeen ==
    /\ Channel!Extends(<<>>, <<>>) /\ Channel!Faithful(<<>>, <<>>)
    /\ Channel!AnswersFollow(<<>>, <<>>)
  <1>1. Channel!Extends(<<>>, <<>>)
    <2>1. <<>> \in Seq(Nat)
      OBVIOUS
    <2> QED BY <2>1, SameExtends
  <1>2. DOMAIN <<>> = {}
    OBVIOUS
  <1> QED BY <1>1, <1>2 DEF Channel!Faithful, Channel!AnswersFollow

(* The initial states are the channel's.                                   *)
LEMMA InitChannel ==
    ASSUME Init PROVE Channel!Init
  <1>1. /\ sent \in Seq(AllKinds) /\ delivered = <<>> /\ answered = <<>> /\ stage = "read"
    BY InitInv DEF Init, Inv, ClientFields
  <1>2. <<>> \in Seq(AllKinds)
    OBVIOUS
  <1>3. (stage = "done") = FALSE
    BY <1>1
  <1>4. Promised(sent) \in Seq(AllKinds) /\ Promised(delivered) = <<>> /\ Promised(answered) = <<>>
    BY <1>1, <1>2 DEF Promised
  <1> QED BY <1>3, <1>4 DEF Channel!Init

(* Where no message is sent, the handler's step is an exchange.            *)
LEMMA NextChannel ==
    ASSUME Inv, OrderInv, OrderInv', [Next]_vars
    PROVE  [Channel!Next]_(Channel!channel)
  <1>1. profile' = profile
    BY UsesKept DEF OrderInv
  <1>2. CASE ClientSend
    <2>1. PICK k \in AllKinds : sent' = Append(sent, k)
      BY <1>2, ProfileSizes DEF ClientSend, Inv
    <2>2. delivered' = delivered /\ answered' = answered /\ stage' = stage
      BY <1>2 DEF ClientSend, handlerVars, seenVars
    <2>3. CASE profile.patient
      <3>1. /\ Promised(sent)' = Append(Promised(sent), k)
            /\ Promised(delivered)' = Promised(delivered)
            /\ Promised(answered)' = Promised(answered)
        BY <1>1, <2>1, <2>2, <2>3 DEF Promised
      <3>2. (stage = "done")' = (stage = "done")
        BY <2>2
      <3> QED BY <3>1, <3>2 DEF Channel!Next, Channel!Send
    <2>4. CASE ~profile.patient
      <3>1. /\ Promised(sent)' = Promised(sent) /\ Promised(delivered)' = Promised(delivered)
            /\ Promised(answered)' = Promised(answered)
        BY <1>1, <2>4 DEF Promised
      <3>2. (stage = "done")' = (stage = "done")
        BY <2>2
      <3> QED BY <3>1, <3>2 DEF Channel!channel
    <2> QED BY <2>3, <2>4
  <1>3. CASE ClientClose \/ Finished \/ UNCHANGED vars
    <2>1. /\ sent' = sent /\ delivered' = delivered /\ answered' = answered /\ stage' = stage
      BY <1>3 DEF ClientClose, Finished, vars, clientVars, handlerVars, seenVars
    <2>2. /\ Promised(sent)' = Promised(sent) /\ Promised(delivered)' = Promised(delivered)
          /\ Promised(answered)' = Promised(answered)
      BY <1>1, <2>1 DEF Promised
    <2>3. (stage = "done")' = (stage = "done")
      BY <2>1
    <2> QED BY <2>2, <2>3 DEF Channel!channel
  <1>4. CASE Handler \/ StreamFails
    <2>1. sent' = sent /\ stage # "done" /\ SeenGrows
      BY <1>4, HandlerGrows
    <2>2. ~(stage = "done") /\ (stage = "done")' \in BOOLEAN
      BY <2>1
    <2>3. CASE profile.patient
      <3>1. /\ Promised(sent)' = sent /\ Promised(sent) = sent
            /\ Promised(delivered)' = delivered' /\ Promised(delivered) = delivered
            /\ Promised(answered)' = answered' /\ Promised(answered) = answered
        BY <1>1, <2>1, <2>3 DEF Promised
      <3>2. Channel!Faithful(delivered', sent) /\ Channel!AnswersFollow(answered', delivered')
        <4>1. SeenInOrder'
          BY <1>1, <2>3 DEF OrderInv, PatientInv
        <4> QED BY <2>1, <4>1 DEF SeenInOrder, Channel!Faithful, Channel!AnswersFollow,
                                  Channel!MessageOf, Channel!ControlKinds
      <3> QED BY <2>1, <2>2, <3>1, <3>2 DEF Channel!Next, Channel!Exchange, SeenGrows
    <2>4. CASE ~profile.patient
      <3>1. /\ Promised(sent)' = <<>> /\ Promised(sent) = <<>>
            /\ Promised(delivered)' = <<>> /\ Promised(delivered) = <<>>
            /\ Promised(answered)' = <<>> /\ Promised(answered) = <<>>
        BY <1>1, <2>4 DEF Promised
      <3> QED BY <2>2, <3>1, NothingSeen DEF Channel!Next, Channel!Exchange
    <2> QED BY <2>3, <2>4
  <1> QED BY <1>2, <1>3, <1>4 DEF Next

(* The connection implements the channel (ImplementsChannel) if clients    *)
(* that wait for CopyInResponse are well-behaved and no batch parts a COPY *)
(* from what is behind it: what the client sent reaches the backend in     *)
(* order, none lost or repeated, through batches, partial reads, the COPY  *)
(* handoff, its continuation prefix and the stream; answers follow their   *)
(* requests in order; nothing happens once handle_stream has returned.     *)
THEOREM ConnectionImplementsChannel ==
    ASSUME PatientBehave PROVE Spec /\ []CopyFits => ImplementsChannel
  <1>1. Init => OrderInv
    BY InitOrder
  <1>2. CopyFits /\ Inv /\ OrderInv /\ [Next]_vars => OrderInv'
    BY NextOrder
  <1>3. Init => Channel!Init
    BY InitChannel
  <1>4. Inv /\ OrderInv /\ OrderInv' /\ [Next]_vars => [Channel!Next]_(Channel!channel)
    BY NextChannel
  <1> QED BY <1>1, <1>2, <1>3, <1>4, Invariance, PTL DEF Spec, ImplementsChannel, Channel!Spec

-----------------------------------------------------------------------------
(* Types.  That no more COPY FROMs are answered than were sent is not a    *)
(* matter of the step alone: PostgreSQL must not be given one twice.  The  *)
(* units a + 1 to b of the stream are the continuation, and those behind   *)
(* Taken are in the socket; all messages that end elsewhere may have been  *)
(* answered, also if some in the socket overtook the continuation.         *)
Unanswered(a, b) ==
    /\ a <= b /\ b <= Taken
    /\ Len(Continuation) = b - a
    /\ \A j \in 1 .. Len(Continuation) : Continuation[j] = a + j
    /\ copyReady + b \div 2 <= a \div 2 + Taken \div 2

CopyInv ==
    /\ copyReady <= Len(sent)
    /\ stage \in Streaming => \E a, b \in Nat : Unanswered(a, b)

(* How many messages end before a unit.                                    *)
LEMMA EndsBefore ==
    /\ \A m, n \in Nat : m <= n => m \div 2 <= n \div 2
    /\ \A n \in Nat : n \div 2 \in Nat /\ n \div 2 <= (n + 1) \div 2
    /\ \A n \in Nat : (n + 1) % 2 = 0 => (n + 1) \div 2 = n \div 2 + 1
    /\ \A n \in Nat : (2 * n) \div 2 = n
  OBVIOUS

(* What has left the socket.                                               *)
LEMMA TakenNat ==
    ASSUME Inv
    PROVE  Taken \in Nat /\ Taken <= 2 * Len(sent) /\ Len(sent) \in Nat /\ copyReady \in Nat
  <1>1. Len(sent) \in Nat /\ Len(socket) \in Nat /\ Len(socket) <= 2 * Len(sent)
    BY Buffers DEF Inv, SocketInv
  <1>2. copyReady \in Nat
    BY DEF Inv, SeenFields
  <1> QED BY <1>1, <1>2 DEF Taken

(* The same after a step.                                                  *)
LEMMA TakenNext ==
    ASSUME Inv'
    PROVE  Taken' \in Nat /\ Taken' <= 2 * Len(sent') /\ Len(sent') \in Nat /\ copyReady' \in Nat
  <1>1. sent' \in Seq(AllKinds) /\ socket' \in Seq(SentUnits') /\ Len(socket') <= 2 * Len(sent')
        /\ copyReady' \in Nat
    BY DEF Inv, ClientFields, SocketInv, SeenFields
  <1>2. Len(sent') \in Nat /\ Len(socket') \in Nat
    BY <1>1
  <1> QED BY <1>1, <1>2 DEF Taken

(* No more were answered than sent.                                        *)
LEMMA AnsweredSent ==
    ASSUME NEW c \in Nat, NEW a \in Nat, NEW b \in Nat, NEW t \in Nat, NEW n \in Nat,
           a <= b, t <= 2 * n, c + b \div 2 <= a \div 2 + t \div 2
    PROVE  c <= n
  <1>1. a \div 2 <= b \div 2 /\ t \div 2 <= (2 * n) \div 2 /\ (2 * n) \div 2 = n
    BY EndsBefore
  <1>2. a \div 2 \in Nat /\ b \div 2 \in Nat /\ t \div 2 \in Nat
    BY EndsBefore
  <1> QED BY <1>1, <1>2

(* If a unit ends a message, there is room for its answer.                 *)
LEMMA OneMore ==
    ASSUME NEW c \in Nat, NEW d \in Nat, NEW m \in Nat, NEW x \in Nat, NEW y \in Nat,
           x + c <= y + m \div 2, d = c \/ (d = c + 1 /\ Last(m + 1))
    PROVE  x + d <= y + (m + 1) \div 2
  <1>1. m \div 2 \in Nat /\ (m + 1) \div 2 \in Nat /\ m \div 2 <= (m + 1) \div 2
    BY EndsBefore
  <1>2. Last(m + 1) => (m + 1) \div 2 = m \div 2 + 1
    BY EndsBefore DEF Last
  <1> QED BY <1>1, <1>2

(* Steps that answer nothing and do not serve the stream.                  *)
LEMMA QuietCopies ==
    ASSUME CopyInv, sent' = sent, copyReady' = copyReady, stage' \notin Streaming
    PROVE  CopyInv'
  BY DEF CopyInv

(* A handoff answers at most one COPY, and has handled at least one        *)
(* message, that is, two units.                                            *)
LEMMA HandoffCopies ==
    ASSUME Inv, Inv', UNCHANGED clientVars, stage \in Reading, stage' = "drain",
           NEW c \in Seq(SentMessages), FlushHandoff(c),
           NEW a \in Nat, a >= 2, a <= Taken,
           Len(UnitsOf(todo') \o pending') = Taken - a,
           \A j \in 1 .. Len(UnitsOf(todo') \o pending') : (UnitsOf(todo') \o pending')[j] = a + j
    PROVE  CopyInv'
  <1>1. Taken' = Taken /\ sent' = sent /\ Taken \in Nat
    BY ClientKept, TakenNat
  <1>2. copyReady = 0
    BY DEF Inv, StageInv
  <1>3. copyReady' = 0 \/ copyReady' = 1
    <2>1. copyReady' = copyReady \/ copyReady' = copyReady + 1
      BY DEF FlushHandoff
    <2> QED BY <1>2, <2>1
  <1>4. Continuation' = UnitsOf(todo') \o pending'
    BY DEF Continuation, ContinuationPrefix
  <1>5. 1 <= a \div 2
    BY EndsBefore
  <1>6. copyReady' + Taken \div 2 <= a \div 2 + Taken \div 2
    BY <1>1, <1>3, <1>5, EndsBefore
  <1>7. Len(Continuation') = Taken - a
    BY <1>1, <1>4
  <1>8. Unanswered(a, Taken)'
    BY <1>1, <1>4, <1>6, <1>7 DEF Unanswered
  <1>9. \E x, y \in Nat : Unanswered(x, y)'
    BY <1>1, <1>8
  <1>10. copyReady' <= Len(sent')
    <2>1. Len(sent) \in Nat /\ Len(sent) >= 1
      BY <1>1, TakenNat
    <2> QED BY <1>1, <1>3, <2>1
  <1> QED BY <1>9, <1>10 DEF CopyInv

(* A control packet or the end of the stream: the batch is flushed, and    *)
(* what was read behind it is dropped.                                     *)
LEMMA DroppedCopies ==
    ASSUME Inv, Inv', UNCHANGED clientVars, stage \in Reading,
           batch # <<>>, FlushHandoff(batch), stage' = "drain", todo' = <<>>, pending' = <<>>
    PROVE  CopyInv'
  <1>1. sent' = sent /\ Taken \in Nat
    BY ClientKept, TakenNat
  <1>2. PICK q \in Nat : HandledUnits = 2 * q /\ \A j \in 1 .. Len(batch) : batch[j] \in 1 .. q
    BY HandledPosition
  <1>3. batch \in Seq(SentMessages) /\ Len(pending) \in Nat /\ Len(todo) \in Nat
    BY Buffers
  <1>4. q >= 1
    <2>1. Len(batch) \in Nat /\ Len(batch) > 0
      BY <1>3, TailOf
    <2>2. batch[1] \in 1 .. q
      BY <1>2, <2>1
    <2> QED BY <2>2
  <1>5. Taken >= 2
    BY <1>1, <1>2, <1>3, <1>4 DEF HandledUnits
  <1>6. UnitsOf(todo') \o pending' = <<>>
    <2>1. <<>> \in Seq(1 .. 0) /\ Len(<<>>) = 0
      OBVIOUS
    <2>2. UnitsOf(<<>>) \in Seq(1 .. (2 * 0)) /\ Len(UnitsOf(<<>>)) = 2 * Len(<<>>)
      BY <2>1, UnitsOfSeq
    <2>3. UnitsOf(<<>>) = <<>>
      BY <2>1, <2>2
    <2> QED BY <2>3
  <1>7. /\ Len(UnitsOf(todo') \o pending') = Taken - Taken
        /\ \A j \in 1 .. Len(UnitsOf(todo') \o pending') : (UnitsOf(todo') \o pending')[j] = Taken + j
    BY <1>1, <1>6
  <1> QED BY <1>1, <1>3, <1>5, <1>7, HandoffCopies

(* flush_protocol_batch_if_started before a control packet.                *)
LEMMA ControlCopies ==
    ASSUME Inv, Inv', CopyInv, HandleSsl \/ HandleClosing
    PROVE  CopyInv'
  <1>1. UNCHANGED clientVars /\ stage = "handle" /\ sent' = sent
    BY DEF HandleSsl, HandleClosing, Handling, clientVars
  <1>2. FlushIfStarted(Handled(FALSE)) \/ FlushIfStarted(Handled(TRUE))
    BY DEF HandleSsl, HandleClosing
  <1>3. CASE /\ batch # <<>> /\ FlushHandoff(batch) /\ stage' = "drain"
             /\ todo' = <<>> /\ pending' = <<>>
    BY <1>1, <1>3, DroppedCopies DEF Reading
  <1>4. CASE copyReady' = copyReady /\ stage' \in {"handle", "done"}
    BY <1>1, <1>4, QuietCopies DEF Streaming
  <1> QED BY <1>1, <1>2, <1>3, <1>4
          DEF FlushIfStarted, FlushBuffered, WriteResponse, Handled, FlushFails,
              ReturnErr, Abort, seenVars

(* flush_protocol_batch_if_started at the end of the stream.               *)
LEMMA EofCopies ==
    ASSUME Inv, Inv', CopyInv, ReadEof
    PROVE  CopyInv'
  <1>1. UNCHANGED clientVars /\ stage = "read" /\ sent' = sent
    BY DEF ReadEof, clientVars
  <1>2. CASE /\ batch # <<>> /\ FlushHandoff(batch) /\ stage' = "drain"
             /\ todo' = <<>> /\ pending' = <<>>
    BY <1>1, <1>2, DroppedCopies DEF Reading
  <1>3. CASE copyReady' = copyReady /\ stage' \in {"cleanup", "done"}
    BY <1>1, <1>3, QuietCopies DEF Streaming
  <1> QED BY <1>1, <1>2, <1>3
          DEF ReadEof, FlushIfStarted, FlushBuffered, WriteResponse, FlushFails,
              ReturnErr, Abort, seenVars

(* A backend message: at a COPY what was read behind it is kept.           *)
LEMMA ProtocolCopies ==
    ASSUME Inv, Inv', CopyInv, HandleProtocol
    PROVE  CopyInv'
  <1> DEFINE b == Append(batch, Head(todo))
  <1>1. UNCHANGED clientVars /\ stage = "handle" /\ stage \in Reading /\ todo # <<>> /\ sent' = sent
    BY DEF HandleProtocol, Handling, clientVars, Reading
  <1>2. CASE FlushHandoff(b) /\ todo' = Tail(todo) /\ stage' = "drain" /\ pending' = pending
    <2>1. PICK q \in Nat : HandledUnits = 2 * q /\ q + 1 <= Len(sent)
      BY <1>1, HandledPosition
    <2>2. /\ Taken - Len(UnitsOf(Tail(todo)) \o pending) = 2 * (q + 1)
          /\ \A j \in 1 .. Len(UnitsOf(Tail(todo)) \o pending) :
               (UnitsOf(Tail(todo)) \o pending)[j] = 2 * (q + 1) + j
          /\ UnitsOf(Tail(todo)) \o pending \in Seq(SentUnits)
      BY <1>1, <2>1, ContinuationUnits
    <2>3. b \in Seq(SentMessages)
      BY <1>1, Buffers, TailOf
    <2>4. PICK l \in Nat : l = Len(UnitsOf(Tail(todo)) \o pending)
      BY <2>2
    <2>5. PICK t \in Nat, a \in Nat : t = Taken /\ a = 2 * (q + 1)
      BY TakenNat
    <2>6. a >= 2 /\ a <= Taken /\ l = Taken - a
      BY <2>2, <2>4, <2>5
    <2> HIDE DEF b
    <2> QED BY <1>1, <1>2, <2>2, <2>3, <2>4, <2>5, <2>6, HandoffCopies
  <1>3. CASE copyReady' = copyReady /\ stage' \in {"handle", "done"}
    BY <1>1, <1>3, QuietCopies DEF Streaming
  <1> QED BY <1>1, <1>2, <1>3
          DEF HandleProtocol, FlushBuffered, WriteResponse, Handled, FlushFails,
              ReturnErr, Abort, seenVars

(* A unit of the stream: the last one of a message may answer it.          *)
LEMMA StreamCopies ==
    ASSUME Inv, Inv', CopyInv, StreamRead
    PROVE  CopyInv'
  <1>1. PICK u \in SentUnits : u = Head(prefix \o socket) /\ StreamOf(u)
    BY StreamEffect DEF StreamOf
  <1>2. /\ sent' = sent /\ todo' = todo /\ pending' = pending /\ stage \in Streaming
        /\ stage' = stage \/ stage' = "closing"
        /\ copyReady' = copyReady \/ (copyReady' = copyReady + 1 /\ Last(u))
    BY <1>1 DEF StreamRead, StreamMessage
  <1>3. PICK a \in Nat, b \in Nat : Unanswered(a, b)
    BY <1>2 DEF CopyInv
  <1>4. /\ Taken \in Nat /\ copyReady \in Nat /\ Taken' \in Nat /\ copyReady' \in Nat
        /\ a \div 2 \in Nat /\ b \div 2 \in Nat /\ Taken \div 2 \in Nat
    BY TakenNat, TakenNext, EndsBefore
  <1>5. CASE prefix # <<>> /\ u = Head(prefix) /\ prefix' = Tail(prefix) /\ socket' = socket
    <2>1. stage = "stream" /\ Continuation = prefix /\ Continuation' = prefix'
      BY <1>2, <1>5 DEF Inv, StageInv, Streaming, Continuation
    <2>2. prefix \in Seq(SentUnits) /\ Taken' = Taken
      BY <1>2, <1>5, Buffers DEF Taken
    <2>3. /\ Len(prefix') = Len(prefix) - 1 /\ Len(prefix) \in Nat /\ Len(prefix) > 0
          /\ \A j \in 1 .. Len(prefix') : prefix'[j] = prefix[j + 1]
          /\ u = prefix[1]
      BY <1>5, <2>2
    <2>4. u = a + 1 /\ Len(prefix) = b - a /\ a + 1 <= b /\ b <= Taken
      BY <1>3, <1>4, <2>1, <2>3 DEF Unanswered
    <2>5. \A j \in 1 .. Len(prefix') : prefix'[j] = (a + 1) + j
      BY <1>3, <2>1, <2>3, <2>4 DEF Unanswered
    <2>6. copyReady' + b \div 2 <= (a + 1) \div 2 + Taken \div 2
      <3>1. b \div 2 + copyReady <= Taken \div 2 + a \div 2
        BY <1>3, <1>4 DEF Unanswered
      <3>2. copyReady' = copyReady \/ (copyReady' = copyReady + 1 /\ Last(a + 1))
        BY <1>2, <2>4
      <3>3. b \div 2 + copyReady' <= Taken \div 2 + (a + 1) \div 2
        BY <1>4, <3>1, <3>2, OneMore
      <3>4. PICK v \in Nat, w \in Nat, x \in Nat, y \in Nat :
                v = copyReady' /\ w = b \div 2 /\ x = (a + 1) \div 2 /\ y = Taken \div 2
        BY <1>4, EndsBefore
      <3>5. v + w <= x + y
        BY <3>3, <3>4
      <3> QED BY <3>4, <3>5
    <2>7. Unanswered(a + 1, b)'
      BY <2>1, <2>2, <2>3, <2>4, <2>5, <2>6 DEF Unanswered
    <2>8. a + 1 \in Nat
      OBVIOUS
    <2>9. copyReady' <= Len(sent')
      BY <1>4, <2>2, <2>4, <2>6, <2>8, TakenNext, AnsweredSent
    <2> QED BY <2>7, <2>8, <2>9 DEF CopyInv
  <1>6. CASE prefix = <<>> /\ prefix' = prefix /\ socket # <<>> /\ u = Head(socket)
             /\ socket' = Tail(socket)
    <2>1. socket \in Seq(SentUnits) /\ Len(sent) \in Nat
      BY Buffers
    <2>2. Taken' = Taken + 1
      BY <1>2, <1>6, <2>1, TailOf DEF Taken
    <2>3. u = Taken + 1
      <3>1. u = socket[1] /\ 1 \in 1 .. Len(socket)
        BY <1>6, <2>1, TailOf
      <3> QED BY <3>1 DEF Inv, SocketInv
    <2>4. stage' \in Streaming => Continuation' = Continuation
      BY <1>2, <1>6 DEF Continuation, ContinuationPrefix, Streaming
    <2>5. copyReady' + b \div 2 <= a \div 2 + (Taken + 1) \div 2
      <3>1. b \div 2 + copyReady <= a \div 2 + Taken \div 2
        BY <1>3, <1>4 DEF Unanswered
      <3>2. copyReady' = copyReady \/ (copyReady' = copyReady + 1 /\ Last(Taken + 1))
        BY <1>2, <2>3
      <3>3. b \div 2 + copyReady' <= a \div 2 + (Taken + 1) \div 2
        BY <1>4, <3>1, <3>2, OneMore
      <3>4. PICK v \in Nat, w \in Nat : v = copyReady' /\ w = b \div 2
        BY <1>4
      <3>5. w + v = v + w
        OBVIOUS
      <3> QED BY <3>3, <3>4, <3>5
    <2>6. a <= b /\ b <= Taken + 1
      BY <1>3, <1>4 DEF Unanswered
    <2>7. stage' \in Streaming => Unanswered(a, b)'
      BY <1>3, <2>2, <2>4, <2>5, <2>6 DEF Unanswered
    <2>8. copyReady' <= Len(sent')
      BY <1>4, <2>2, <2>5, <2>6, TakenNext, AnsweredSent
    <2> QED BY <2>7, <2>8 DEF CopyInv
  <1> QED BY <1>1, <1>5, <1>6 DEF StreamOf

(* The continuation becomes the prefix.                                    *)
LEMMA DrainCopies ==
    ASSUME CopyInv, DrainReturns
    PROVE  CopyInv'
  <1>1. /\ sent' = sent /\ socket' = socket /\ copyReady' = copyReady
        /\ stage = "drain" /\ stage' = "stream" /\ prefix' = ContinuationPrefix
    BY DEF DrainReturns, Dispatching, clientVars, seenVars
  <1>2. Continuation' = Continuation /\ Taken' = Taken
    BY <1>1 DEF Continuation, Taken
  <1> QED BY <1>1, <1>2 DEF CopyInv, Unanswered, Streaming

(* The client sends a message, or leaves; the stream ends.                 *)
LEMMA AroundCopies ==
    ASSUME Inv, CopyInv, ClientSend \/ ClientClose \/ StreamEof \/ UNCHANGED vars
    PROVE  CopyInv'
  <1>1. /\ copyReady' = copyReady /\ prefix' = prefix /\ todo' = todo /\ pending' = pending
        /\ stage' = stage \/ stage' = "closing"
    BY DEF ClientSend, ClientClose, StreamEof, vars, clientVars, handlerVars, pumpVars, seenVars
  <1>2. Taken' = Taken /\ (sent' = sent \/ Len(sent') = Len(sent) + 1)
    <2>1. CASE ClientSend
      BY <2>1, SendEffect
    <2>2. CASE sent' = sent /\ socket' = socket
      BY <2>2 DEF Taken
    <2> QED BY <2>1, <2>2 DEF ClientClose, StreamEof, vars, clientVars
  <1>3. copyReady' <= Len(sent')
    BY <1>1, <1>2, TakenNat DEF CopyInv
  <1>4. stage' \in Streaming => stage \in Streaming /\ Continuation' = Continuation
    BY <1>1 DEF Streaming, Continuation, ContinuationPrefix
  <1>5. \A a, b \in Nat : stage' \in Streaming /\ Unanswered(a, b) => Unanswered(a, b)'
    BY <1>1, <1>2, <1>4 DEF Unanswered
  <1> QED BY <1>3, <1>4, <1>5 DEF CopyInv

(* Every step keeps room for the answers to come.                          *)
LEMMA NextCopies == Inv /\ Inv' /\ CopyInv /\ [Next]_vars => CopyInv'
  <1> SUFFICES ASSUME Inv, Inv', CopyInv, [Next]_vars PROVE CopyInv'
    OBVIOUS
  <1>1. CASE \/ Read \/ ReadFails \/ EndOfRead \/ Cleanup \/ HandleStartup \/ HandleBadCode
             \/ DrainGivesUp \/ StreamEnds \/ StreamFails
    <2>1. sent' = sent /\ copyReady' = copyReady
      BY <1>1 DEF Read, ReadFails, EndOfRead, Cleanup, HandleStartup, HandleBadCode, DrainGivesUp,
         StreamEnds, StreamFails, clientVars, seenVars
    <2>2. stage' \in {"read", "handle", "cleanup", "done"}
      BY <1>1 DEF Read, ReadFails, EndOfRead, Cleanup, HandleStartup, HandleBadCode, DrainGivesUp,
         StreamEnds, StreamFails, ReturnErr, Abort, Handling, OpenFails, StartupFails, StartupRefused,
         StartupProcessed, BreakAndClose
    <2> QED BY <2>1, <2>2, QuietCopies DEF Streaming
  <1>2. CASE ClientSend \/ ClientClose \/ StreamEof \/ Finished \/ UNCHANGED vars
    BY <1>2, AroundCopies DEF Finished
  <1> QED BY <1>1, <1>2, ControlCopies, EofCopies, ProtocolCopies, StreamCopies, DrainCopies
          DEF Next, Handler

(* Every variable of a connection keeps its type: the buffers hold what    *)
(* was sent, the frame reader at most one unit, the dispatch loop at most  *)
(* the entries it has, and PostgreSQL asks for COPY data at most once for  *)
(* each message, whichever way that reached it.                            *)
THEOREM ConnectionTypeCorrect == Spec => []TypeOK
  <1>1. Init => CopyInv
    <2> SUFFICES ASSUME Init PROVE CopyInv
      OBVIOUS
    <2>1. Inv /\ copyReady = 0 /\ stage = "read"
      BY InitInv DEF Init
    <2> QED BY <2>1, TakenNat DEF CopyInv, Streaming
  <1>2. Inv /\ Inv' /\ CopyInv /\ [Next]_vars => CopyInv'
    BY NextCopies
  <1>3. Inv /\ CopyInv => TypeOK
    <2> SUFFICES ASSUME Inv, CopyInv PROVE TypeOK
      OBVIOUS
    <2>1. /\ Len(sent) \in Nat /\ profile.max \in Nat /\ Len(sent) <= profile.max
          /\ copyReady \in Nat /\ copyReady <= Len(sent)
      BY ProfileSizes, TakenNat DEF Inv, ClientFields, CopyInv
    <2>2. SentMessages \subseteq Messages /\ SentUnits \subseteq Units
      BY <2>1 DEF SentMessages, SentUnits, Messages, Units
    <2>3. /\ socket \in Seq(Units) /\ pending \in Seq(Units) /\ prefix \in Seq(Units)
          /\ delivered \in Seq(Units)
      BY <2>2, Buffers, SeqMono
    <2>4. answered \in Seq(SentMessages)
      BY DEF Inv, SeenFields
    <2>5. /\ todo \in Seq(Messages) /\ batch \in Seq(Messages) /\ hostInput \in Seq(Messages)
          /\ answered \in Seq(Messages)
      BY <2>2, <2>4, Buffers, SeqMono
    <2>6. copyReady \in 0 .. profile.max
      BY <2>1
    <2>7. stage \in {"read", "handle", "cleanup", "drain", "stream", "closing", "done"}
      BY DEF Inv, HandlerFields, Reading, Served
    <2> QED BY <2>3, <2>5, <2>6, <2>7
            DEF TypeOK, Inv, ClientFields, HandlerFields, PumpFields
  <1> QED BY <1>1, <1>2, <1>3, Invariance, PTL DEF Spec
=============================================================================
