--------------------------- MODULE SessionProofs ---------------------------
(***************************************************************************)
(* Proofs about Session: the state stays well formed, PostgreSQL finds the *)
(* library of every extension that a session promises, and an open fails   *)
(* only by a fault; for any catalogue of extensions.                       *)
(*                                                                         *)
(* What resolve_extension_set computes is a recursion over data, which is  *)
(* beyond the provers: the theorems that need it take ResolvesInOrder as a *)
(* hypothesis, which TLC evaluates on every catalogue of three extensions. *)
(***************************************************************************)
EXTENDS Session, TLAPS

-----------------------------------------------------------------------------
(* The inductive invariant.                                                *)

DbTypeOK ==
    db \in [at : {"closed", "listening", "install", "unpacking", "start", "preload", "setup", "ready"},
            root : Roots, server : BOOLEAN, list : Seq(Exts), todo : Seq(Exts),
            pre : SUBSET Exts, call : {"none", "open", "enable_extension"}]

(* The stages in which a backend runs with a list to work on, and those in *)
(* which it runs at all: a server installs before it starts.               *)
Working == db.at \in {"preload", "setup"} \/ (db.at \in {"install", "unpacking"} /\ ~db.server)
Running == Working \/ db.at = "ready"

(* The stages and what calls them.                                         *)
Stages ==
    /\ db.at # "closed" => db.call # "none"
    /\ db.at = "listening" => db.server
    /\ db.at = "preload" => ~db.server
    /\ db.call = "enable_extension" => Working /\ ~db.server /\ Rest = <<>>
    /\ caller # "idle" => db.at = "ready" /\ ~db.server
    /\ Working /\ db.call = "open" => block = "idle"

(* A root made from the template has every extension of its list.          *)
Preinstalled ==
    /\ db.pre # {} => ToSet(db.list) \subseteq db.pre /\ ToSet(db.todo) \subseteq db.pre
    /\ \A e \in db.pre : files[Here][e] = "whole"

(* The next extension's files, and those of a server's whole list.         *)
FilesThere ==
    /\ db.at \in {"preload", "setup"} => files[Here][Current] = "whole"
    /\ db.at = "unpacking" => Current \in unsure[Here]
    /\ db.server /\ db.at \in {"install", "unpacking"} =>
          \A e \in ToSet(db.list) \ ToSet(db.todo) : files[Here][e] = "whole"
    /\ db.server /\ db.at = "start" => \A e \in ToSet(db.list) : files[Here][e] = "whole"
    /\ db.server /\ db.at = "setup" => \A e \in ToSet(db.todo) : files[Here][e] = "whole"

(* The modules that the running backend can find.                          *)
Seeded(e) == e \in Native => <<e, "whole">> \in seeded
ModulesSeeded ==
    /\ db.at = "setup" => Seeded(Current)
    /\ db.server /\ db.at = "setup" => \A e \in ToSet(db.todo) : Seeded(e)
    /\ Running => \A e \in Exts : files[Here][e] = "whole" /\ e \notin unsure[Here] => Seeded(e)

(* An extension that is promised has its files, or the clone that copied   *)
(* the promise is still to unpack them.                                    *)
Pending == IF db.at = "start" THEN ToSet(db.list) ELSE ToSet(db.todo)
ToUnpack(r) ==
    IF r = "temporary" /\ Here = r /\ ~db.server /\ db.call = "open"
       /\ db.at \in {"start", "install", "unpacking", "preload", "setup"}
    THEN Pending ELSE {}
FilesKept ==
    \A r \in Roots : \A e \in (catalog[r] \ unsure[r]) \ ToUnpack(r) : files[r][e] = "whole"

(* What an extension needs is created, or comes before it.                 *)
Ordered ==
    /\ InOrder(db.list, {})
    /\ Working /\ db.call = "open" /\ db.pre = {} => InOrder(db.todo, catalog[Here])

IndInv ==
    /\ ExtensionsTypeOK /\ DumpTypeOK /\ DbTypeOK
    /\ Stages /\ Preinstalled /\ FilesThere /\ ModulesSeeded /\ FilesKept
    /\ Ordered /\ OpenNeedsNothing

-----------------------------------------------------------------------------
(* Sequences of extensions.                                                *)

(* The head of a list is one of its extensions, and the tail has the rest. *)
LEMMA HeadAndTail ==
    ASSUME NEW S, NEW s \in Seq(S), s # <<>>
    PROVE  /\ Head(s) \in S /\ Head(s) \in ToSet(s) /\ Tail(s) \in Seq(S)
           /\ ToSet(Tail(s)) \subseteq ToSet(s)
           /\ ToSet(s) \subseteq {Head(s)} \cup ToSet(Tail(s))
<1>1. Len(s) \in Nat /\ Len(s) > 0 /\ DOMAIN s = 1 .. Len(s) /\ Head(s) = s[1]
    OBVIOUS
<1>2. Tail(s) \in Seq(S) /\ DOMAIN Tail(s) = 1 .. Len(s) - 1
      /\ \A i \in 1 .. Len(s) - 1 : Tail(s)[i] = s[i + 1]
    BY <1>1
<1>3. ASSUME NEW i \in DOMAIN s PROVE s[i] \in {Head(s)} \cup ToSet(Tail(s))
    <2>1. CASE i = 1 BY <2>1, <1>1
    <2>2. CASE i # 1
        <3>1. i - 1 \in DOMAIN Tail(s) /\ Tail(s)[i - 1] = s[i] BY <2>2, <1>1, <1>2
        <3> QED BY <3>1 DEF ToSet
    <2> QED BY <2>1, <2>2
<1>4. ToSet(Tail(s)) \subseteq ToSet(s)
    <2>1. SUFFICES ASSUME NEW i \in DOMAIN Tail(s) PROVE Tail(s)[i] \in ToSet(s)
        BY DEF ToSet
    <2>2. i + 1 \in DOMAIN s /\ Tail(s)[i] = s[i + 1] BY <1>1, <1>2
    <2> QED BY <2>2 DEF ToSet
<1> QED BY <1>1, <1>2, <1>3, <1>4 DEF ToSet

(* The extensions of a list are extensions.                                *)
LEMMA ToSetType ==
    ASSUME NEW S, NEW s \in Seq(S)
    PROVE  ToSet(s) \subseteq S
BY DEF ToSet

(* A list that is in order stays so when more is known.                    *)
LEMMA InOrderGrows ==
    ASSUME NEW s, NEW k, NEW m, InOrder(s, k), k \subseteq m
    PROVE  InOrder(s, m)
BY DEF InOrder

(* The head of a list in order needs nothing new, and once it is known the *)
(* tail is in order.                                                       *)
LEMMA InOrderTail ==
    ASSUME NEW s \in Seq(Exts), s # <<>>, NEW k, InOrder(s, k)
    PROVE  /\ ToSet(Dependencies[Head(s)]) \subseteq k
           /\ InOrder(Tail(s), k \cup {Head(s)})
<1>1. Len(s) \in Nat /\ Len(s) > 0 /\ DOMAIN s = 1 .. Len(s) /\ Head(s) = s[1]
    OBVIOUS
<1>2. DOMAIN Tail(s) = 1 .. Len(s) - 1 /\ \A i \in 1 .. Len(s) - 1 : Tail(s)[i] = s[i + 1]
    BY <1>1
<1>3. Before(s, 1) = {}
    BY DEF Before
<1>4. ASSUME NEW i \in DOMAIN Tail(s)
      PROVE  ToSet(Dependencies[Tail(s)[i]]) \subseteq (k \cup {Head(s)}) \cup Before(Tail(s), i)
    <2>1. i + 1 \in DOMAIN s /\ Tail(s)[i] = s[i + 1] BY <1>1, <1>2
    <2>2. ASSUME NEW j \in 1 .. i PROVE s[j] \in {Head(s)} \cup Before(Tail(s), i)
        <3>1. CASE j = 1 BY <3>1, <1>1
        <3>2. CASE j # 1
            <4>1. j - 1 \in 1 .. i - 1 /\ Tail(s)[j - 1] = s[j] BY <3>2, <1>1, <1>2
            <4> QED BY <4>1 DEF Before
        <3> QED BY <3>1, <3>2
    <2>3. Before(s, i + 1) \subseteq {Head(s)} \cup Before(Tail(s), i)
        <3>1. (i + 1) - 1 = i BY <1>2
        <3> QED BY <2>2, <3>1 DEF Before
    <2> QED BY <2>1, <2>3 DEF InOrder
<1> QED BY <1>1, <1>3, <1>4 DEF InOrder

(* Nothing is in order.                                                    *)
LEMMA NothingInOrder ==
    ASSUME NEW k PROVE InOrder(<<>>, k)
BY DEF InOrder

-----------------------------------------------------------------------------
(* The steps of the dump, and what the others leave of it.                 *)

(* The steps of the dump keep its types; they happen only on an instance   *)
(* that is ready, and they leave the block alone unless it is serving.     *)
LEMMA DumpSteps ==
    ASSUME DumpTypeOK, RunnerStep \/ CallerStep \/ DumpSql \/ Rollback
    PROVE  /\ DumpTypeOK'
           /\ caller' # "idle" => caller # "idle" \/ DumpSql
           /\ block' # block => caller # "idle" \/ block' = "idle"
<1> USE DumpAssumption DEF DumpTypeOK
<1>1. CASE RunnerStep
    BY <1>1 DEF RunnerStep, RunnerFails, Connect, Ask, Leave, PeerGone
<1>2. CASE CallerStep
    <2>1. CASE Accept \/ AcceptFails \/ Join BY <2>1 DEF Accept, AcceptFails, Join
    <2>2. CASE ServeTerminate \/ ServeFails BY <2>2 DEF ServeTerminate, ServeFails, ServeEnds
    <2>3. CASE ServeMessage BY <2>3 DEF ServeMessage, Answers
    <2>4. CASE CleanUp BY <2>4 DEF CleanUp, NoDump
    <2> QED BY <1>2, <2>1, <2>2, <2>3, <2>4 DEF CallerStep
<1>3. CASE DumpSql BY <1>3 DEF DumpSql
<1>4. CASE Rollback BY <1>4 DEF Rollback
<1> QED BY <1>1, <1>2, <1>3, <1>4

(* The invariant of the extensions does not depend on the dump, but for    *)
(* the block and the caller.                                               *)
LEMMA ExtensionsKept ==
    ASSUME IndInv, UNCHANGED extensionVars, DumpTypeOK', Stages'
    PROVE  IndInv'
BY DEF IndInv, extensionVars, ExtensionsTypeOK, DbTypeOK, Preinstalled, FilesThere, ModulesSeeded,
       Seeded, Running, Working, FilesKept, ToUnpack, Pending, Ordered, OpenNeedsNothing,
       Here, Current, Rest

(* A step of the dump or a ROLLBACK, beside extensions that do not change. *)
LEMMA DumpStepInv ==
    ASSUME IndInv, UNCHANGED extensionVars,
           RunnerStep \/ CallerStep \/ (db.at = "ready" /\ Rollback)
    PROVE  IndInv'
<1>1. /\ DumpTypeOK'
      /\ caller' # "idle" => caller # "idle" \/ DumpSql
      /\ block' # block => caller # "idle" \/ block' = "idle"
    BY DumpSteps DEF IndInv
<1>2. DumpSql => FALSE
    BY DEF IndInv, DumpTypeOK, DumpSql, RunnerStep, RunnerFails, Connect, Ask, Leave, PeerGone,
           CallerStep, Accept, AcceptFails, Join, ServeTerminate, ServeFails, ServeEnds,
           ServeMessage, Answers, CleanUp, NoDump, Rollback
<1>3. Stages'
    BY <1>1, <1>2 DEF IndInv, Stages, Working, Rest, extensionVars
<1> QED BY <1>1, <1>3, ExtensionsKept

-----------------------------------------------------------------------------
(* The steps of the extensions.  Most leave the dump alone, or give the    *)
(* session a new block.                                                    *)

(* A step that leaves the dump alone keeps its types.                      *)
LEMMA DumpLeft ==
    ASSUME DumpTypeOK, UNCHANGED dumpVars \/ FreshSession
    PROVE  DumpTypeOK' /\ caller' = caller /\ block' \in {block, "idle"}
BY DEF DumpTypeOK, dumpVars, FreshSession

(* The instance is gone, and a temporary root with it.                     *)
LEMMA ClosedInv ==
    ASSUME IndInv, db' = Closed, TemporaryGone, DumpTypeOK', caller' = "idle",
           seeded' \in {seeded, {}}, faults' \in 0 .. MaxFaults,
           err' \in [why : {"none", "fault", "module", "dependency", "block"},
                     call : {"none", "open", "enable_extension"}],
           OpenNeedsNothing'
    PROVE  IndInv'
<1>1. /\ db'.at = "closed" /\ db'.root = "kept" /\ db'.server = FALSE /\ db'.list = <<>>
      /\ db'.todo = <<>> /\ db'.pre = {} /\ db'.call = "none"
    BY DEF Closed
<1>2. ExtensionsTypeOK' /\ DbTypeOK'
    <2>1. files' \in [Roots -> [Exts -> {"none", "part", "whole"}]]
        BY DEF IndInv, ExtensionsTypeOK, TemporaryGone, Gone, NoFiles, Roots
    <2>2. catalog' \in [Roots -> SUBSET Created] /\ unsure' \in [Roots -> SUBSET Exts]
        BY DEF IndInv, ExtensionsTypeOK, TemporaryGone, Gone, Roots
    <2>3. DbTypeOK' BY DEF DbTypeOK, Closed, Roots
    <2> QED BY <1>1, <2>1, <2>2, <2>3 DEF IndInv, ExtensionsTypeOK
<1>3. Stages' /\ Preinstalled' /\ FilesThere' /\ ModulesSeeded'
    BY <1>1 DEF Stages, Working, Rest, Preinstalled, FilesThere, ModulesSeeded, Running
<1>4. FilesKept'
    BY <1>1 DEF IndInv, ExtensionsTypeOK, FilesKept, ToUnpack, TemporaryGone, Gone, Roots
<1>5. Ordered'
    BY <1>1, NothingInOrder DEF Ordered, Working
<1> QED BY <1>2, <1>3, <1>4, <1>5 DEF IndInv

(* An instance or server is opened with a list that is in order.  Its root *)
(* keeps what it promises and has, or is new and promises what its list    *)
(* will unpack.                                                            *)
LEMMA OpenedInv ==
    ASSUME IndInv, NEW root \in Roots, NEW server \in BOOLEAN, NEW list \in Seq(Exts),
           NEW pre, Opened(root, server, list, pre),
           InOrder(list, {}), pre = {} \/ pre = ToSet(list), \A e \in pre : files'[root][e] = "whole",
           err' = NoError, faults' = faults, seeded' \subseteq Native \X {"part", "whole"},
           files' \in [Roots -> [Exts -> {"none", "part", "whole"}]],
           catalog' \in [Roots -> SUBSET Created], unsure' \in [Roots -> SUBSET Exts],
           DumpTypeOK', caller' = "idle",
           \A r \in Roots : \A e \in catalog'[r] \ unsure'[r] :
               \/ files'[r][e] = "whole"
               \/ r = "temporary" /\ root = r /\ ~server /\ e \in ToSet(list)
    PROVE  IndInv'
<1>1. /\ db'.at = IF server THEN "listening" ELSE "start"
      /\ db'.root = root /\ db'.server = server /\ db'.list = list
      /\ db'.todo = list /\ db'.pre = pre /\ db'.call = "open"
    BY DEF Opened, Closed
<1>2. pre \subseteq Exts
    BY ToSetType
<1>3. ExtensionsTypeOK'
    BY <1>1 DEF IndInv, ExtensionsTypeOK, NoError
<1>4. DbTypeOK'
    BY <1>2 DEF DbTypeOK, Opened, Closed
<1>5. Stages' /\ FilesThere' /\ ModulesSeeded'
    BY <1>1 DEF Stages, Working, Rest, FilesThere, ModulesSeeded, Running
<1>6. Preinstalled'
    BY <1>1 DEF Preinstalled, Here
<1>7. FilesKept'
    BY <1>1 DEF FilesKept, ToUnpack, Pending, Here
<1>8. Ordered' /\ OpenNeedsNothing'
    BY <1>1 DEF Ordered, Working, OpenNeedsNothing, NoError
<1> QED BY <1>3, <1>4, <1>5, <1>6, <1>7, <1>8 DEF IndInv

(* open and start of a root that persists.                                 *)
LEMMA OpenPathInv ==
    ASSUME ResolvesInOrder, IndInv, NEW server \in BOOLEAN, NEW set \in SUBSET Exts,
           OpenPath(server, set), UNCHANGED dumpVars
    PROVE  IndInv'
<1>1. Resolved(set) \in Seq(Exts) /\ InOrder(Resolved(set), {})
    BY DEF ResolvesInOrder
<1>2. caller = "idle"
    BY DEF IndInv, Stages, OpenPath
<1>3. DumpTypeOK' /\ caller' = "idle"
    BY <1>2, DumpLeft DEF IndInv
<1>4. \A r \in Roots : \A e \in catalog'[r] \ unsure'[r] : files'[r][e] = "whole"
    BY DEF IndInv, FilesKept, ToUnpack, OpenPath
<1>5. /\ Opened("kept", server, Resolved(set), {}) /\ err' = NoError
      /\ UNCHANGED <<files, catalog, unsure, seeded, faults>>
    BY DEF OpenPath
<1>6. "kept" \in Roots BY DEF Roots
<1>7. seeded' \subseteq Native \X {"part", "whole"} /\ files' \in [Roots -> [Exts -> {"none", "part", "whole"}]]
      /\ catalog' \in [Roots -> SUBSET Created] /\ unsure' \in [Roots -> SUBSET Exts]
    BY <1>5 DEF IndInv, ExtensionsTypeOK
<1> QED BY <1>1, <1>3, <1>4, <1>5, <1>6, <1>7, OpenedInv

(* A new temporary root, from the template or not.                         *)
LEMMA OpenTemporaryInv ==
    ASSUME ResolvesInOrder, IndInv, NEW server \in BOOLEAN, NEW set \in SUBSET Exts,
           NEW template \in BOOLEAN, OpenTemporary(server, set, template), UNCHANGED dumpVars
    PROVE  IndInv'
<1> DEFINE list == Resolved(set)
           pre == IF template THEN ToSet(list) ELSE {}
<1>1. list \in Seq(Exts) /\ InOrder(list, {})
    BY DEF ResolvesInOrder
<1>2. caller = "idle"
    BY DEF IndInv, Stages, OpenTemporary
<1>3. DumpTypeOK' /\ caller' = "idle"
    BY <1>2, DumpLeft DEF IndInv
<1>4. /\ Opened("temporary", server, list, pre) /\ err' = NoError /\ faults' = faults
      /\ seeded' = seeded /\ db.at = "closed"
      /\ files' = [files EXCEPT !["temporary"] = [e \in Exts |-> IF e \in pre THEN "whole" ELSE "none"]]
      /\ catalog' = [catalog EXCEPT !["temporary"] = pre \cap Created]
      /\ unsure' = [unsure EXCEPT !["temporary"] = {}]
    BY DEF OpenTemporary
<1>5. pre \subseteq Exts /\ (pre = {} \/ pre = ToSet(list))
    BY <1>1, ToSetType
<1> HIDE DEF list, pre
<1>6. "temporary" \in Roots BY DEF Roots
<1>7. /\ files' \in [Roots -> [Exts -> {"none", "part", "whole"}]]
      /\ catalog' \in [Roots -> SUBSET Created] /\ unsure' \in [Roots -> SUBSET Exts]
    BY <1>4, <1>5 DEF IndInv, ExtensionsTypeOK
<1>8. \A e \in pre : files'["temporary"][e] = "whole"
    BY <1>4, <1>5, <1>6 DEF IndInv, ExtensionsTypeOK
<1>9. \A r \in Roots : \A e \in catalog'[r] \ unsure'[r] : files'[r][e] = "whole"
    BY <1>4, <1>6, <1>8 DEF IndInv, ExtensionsTypeOK, FilesKept, ToUnpack
<1>10. seeded' \subseteq Native \X {"part", "whole"}
    BY <1>4 DEF IndInv, ExtensionsTypeOK
<1>11. Opened("temporary", server, list, pre) /\ err' = NoError /\ faults' = faults
    BY <1>4
<1> QED BY <1>1, <1>3, <1>5, <1>6, <1>7, <1>8, <1>9, <1>10, <1>11, OpenedInv

(* A root whose cluster comes from an archive.                             *)
LEMMA OpenArchiveInv ==
    ASSUME ResolvesInOrder, IndInv, NEW root \in Roots, NEW set \in SUBSET Exts,
           NEW extensions \in SUBSET Created, OpenArchive(root, set, extensions), UNCHANGED dumpVars
    PROVE  IndInv'
<1>1. Resolved(set) \in Seq(Exts) /\ InOrder(Resolved(set), {})
    BY DEF ResolvesInOrder
<1>2. caller = "idle"
    BY DEF IndInv, Stages, OpenArchive
<1>3. DumpTypeOK' /\ caller' = "idle"
    BY <1>2, DumpLeft DEF IndInv
<1>4. /\ Opened(root, FALSE, Resolved(set), {}) /\ err' = NoError /\ faults' = faults
      /\ seeded' = seeded /\ db.at = "closed"
      /\ files' = IF root = "temporary" THEN [files EXCEPT ![root] = NoFiles] ELSE files
      /\ catalog' = [catalog EXCEPT ![root] = extensions]
      /\ unsure' = [unsure EXCEPT ![root] = extensions]
    BY DEF OpenArchive
<1>5. extensions \subseteq Exts
    BY ExtensionsAssumption
<1>6. /\ files' \in [Roots -> [Exts -> {"none", "part", "whole"}]]
      /\ catalog' \in [Roots -> SUBSET Created] /\ unsure' \in [Roots -> SUBSET Exts]
    BY <1>4, <1>5 DEF IndInv, ExtensionsTypeOK, NoFiles
<1>7. \A r \in Roots : \A e \in catalog'[r] \ unsure'[r] : files'[r][e] = "whole"
    BY <1>4 DEF IndInv, ExtensionsTypeOK, FilesKept, ToUnpack
<1>8. seeded' \subseteq Native \X {"part", "whole"}
    BY <1>4 DEF IndInv, ExtensionsTypeOK
<1>9. PICK server \in BOOLEAN : ~server /\ Opened(root, server, Resolved(set), {})
    BY <1>4, Zenon
<1>10. err' = NoError /\ faults' = faults
    BY <1>4
<1> QED BY <1>1, <1>3, <1>6, <1>7, <1>8, <1>9, <1>10, OpenedInv

(* A clone of an instance that is ready.                                   *)
LEMMA TryCloneInv ==
    ASSUME ResolvesInOrder, IndInv, TryClone, caller = "idle", FreshSession
    PROVE  IndInv'
<1> DEFINE list == Resolved(catalog[Here])
<1>1. /\ db.at = "ready" /\ Opened("temporary", FALSE, list, {}) /\ err' = NoError /\ faults' = faults
      /\ files' = [files EXCEPT !["temporary"] = NoFiles]
      /\ catalog' = [catalog EXCEPT !["temporary"] = catalog[Here]]
      /\ unsure' = [unsure EXCEPT !["temporary"] = {}]
      /\ seeded' = seeded \cup Present(Here)
    BY DEF TryClone, Cloned
<1>2. Here \in Roots /\ "temporary" \in Roots
    BY DEF IndInv, DbTypeOK, Here, Roots
<1>3. catalog[Here] \in SUBSET Created /\ catalog[Here] \in SUBSET Exts
    BY <1>2, ExtensionsAssumption DEF IndInv, ExtensionsTypeOK
<1>4. list \in Seq(Exts) /\ InOrder(list, {}) /\ catalog[Here] \subseteq ToSet(list)
    BY <1>3 DEF ResolvesInOrder
<1> HIDE DEF list
<1>5. DumpTypeOK' /\ caller' = "idle"
    BY DumpLeft DEF IndInv
<1>6. Present(Here) \subseteq Native \X {"part", "whole"}
    BY <1>2, ExtensionsAssumption DEF IndInv, ExtensionsTypeOK, Present
<1>7. /\ files' \in [Roots -> [Exts -> {"none", "part", "whole"}]]
      /\ catalog' \in [Roots -> SUBSET Created] /\ unsure' \in [Roots -> SUBSET Exts]
    BY <1>1, <1>3 DEF IndInv, ExtensionsTypeOK, NoFiles
<1>8. \A r \in Roots : \A e \in catalog'[r] \ unsure'[r] :
          files'[r][e] = "whole" \/ (r = "temporary" /\ e \in ToSet(list))
    BY <1>1, <1>2, <1>4 DEF IndInv, ExtensionsTypeOK, FilesKept, ToUnpack
<1>9. seeded' \subseteq Native \X {"part", "whole"}
    BY <1>1, <1>6 DEF IndInv, ExtensionsTypeOK
<1>10. PICK server \in BOOLEAN : ~server /\ Opened("temporary", server, list, {})
    BY <1>1, Zenon
<1>11. err' = NoError /\ faults' = faults
    BY <1>1
<1> QED BY <1>2, <1>4, <1>5, <1>7, <1>8, <1>9, <1>10, <1>11, OpenedInv

-----------------------------------------------------------------------------
(* Failures and ends.                                                      *)

(* A call returns an error: it is a fault, or enable_extension was called  *)
(* without what it needs.                                                  *)
LEMMA FailingInv ==
    ASSUME IndInv, NEW why \in {"fault", "dependency", "block"}, Failing(why),
           why = "fault" \/ db.call = "enable_extension",
           db.at \in {"install", "unpacking", "start", "preload", "setup"},
           seeded' = seeded, faults' \in 0 .. MaxFaults, UNCHANGED dumpVars
    PROVE  IndInv'
<1>1. DumpTypeOK' /\ caller' = caller /\ block' = block /\ caller = "idle"
    BY DEF IndInv, DumpTypeOK, dumpVars, Stages
<1>2. err' \in [why : {"none", "fault", "module", "dependency", "block"},
                call : {"none", "open", "enable_extension"}]
    BY DEF IndInv, DbTypeOK, Failing
<1>3. OpenNeedsNothing'
    BY DEF Failing, OpenNeedsNothing
<1>4. CASE db.call = "enable_extension" /\ UNCHANGED <<files, catalog, unsure>>
           /\ db' = [db EXCEPT !.at = "ready", !.todo = <<>>, !.call = "open"]
    <2>1. /\ db'.at = "ready" /\ db'.root = db.root /\ db'.server = db.server /\ db'.list = db.list
          /\ db'.todo = <<>> /\ db'.pre = db.pre /\ db'.call = "open"
        BY <1>4 DEF IndInv, DbTypeOK
    <2>2. ExtensionsTypeOK'
        BY <1>2, <1>4, <2>1 DEF IndInv, ExtensionsTypeOK
    <2>3. DbTypeOK'
        <3>1. <<>> \in Seq(Exts) OBVIOUS
        <3> QED BY <1>4, <3>1 DEF IndInv, DbTypeOK
    <2>4. Working /\ ~db.server
        BY <1>4 DEF IndInv, Stages
    <2>5. Stages' /\ FilesThere'
        BY <1>1, <2>1, <2>4 DEF Stages, FilesThere, Working
    <2>6. Preinstalled'
        BY <1>4, <2>1 DEF IndInv, Preinstalled, Here, ToSet
    <2>7. ModulesSeeded'
        BY <1>4, <2>1, <2>4 DEF IndInv, ModulesSeeded, Seeded, Running, Here
    <2>8. FilesKept'
        BY <1>4, <2>1 DEF IndInv, FilesKept, ToUnpack
    <2>9. Ordered'
        BY <1>4, <2>1 DEF IndInv, Ordered, Working
    <2> QED BY <1>1, <1>3, <2>2, <2>3, <2>5, <2>6, <2>7, <2>8, <2>9 DEF IndInv
<1>5. CASE db.call = "open" /\ db.server /\ db.at # "setup" /\ UNCHANGED <<files, catalog, unsure>>
           /\ db' = [db EXCEPT !.at = "listening"]
    <2>1. /\ db'.at = "listening" /\ db'.root = db.root /\ db'.server = db.server /\ db'.list = db.list
          /\ db'.todo = db.todo /\ db'.pre = db.pre /\ db'.call = db.call
        BY <1>5 DEF IndInv, DbTypeOK
    <2>2. ExtensionsTypeOK'
        BY <1>2, <1>5, <2>1 DEF IndInv, ExtensionsTypeOK
    <2>3. DbTypeOK'
        BY <1>5 DEF IndInv, DbTypeOK
    <2>4. Stages' /\ FilesThere' /\ ModulesSeeded'
        BY <1>1, <1>5, <2>1 DEF Stages, FilesThere, ModulesSeeded, Working, Running
    <2>5. Preinstalled'
        BY <1>5, <2>1 DEF IndInv, Preinstalled, Here
    <2>6. FilesKept'
        BY <1>5, <2>1 DEF IndInv, FilesKept, ToUnpack
    <2>7. Ordered'
        BY <1>5, <2>1 DEF IndInv, Ordered, Working
    <2> QED BY <1>1, <1>3, <2>2, <2>3, <2>4, <2>5, <2>6, <2>7 DEF IndInv
<1>6. CASE db' = Closed /\ TemporaryGone
    BY <1>1, <1>2, <1>3, <1>6, ClosedInv
<1> QED BY <1>4, <1>5, <1>6 DEF Failing

(* A disk error or a round trip that fails.                                *)
LEMMA FaultInv ==
    ASSUME IndInv, Fault, UNCHANGED dumpVars
    PROVE  IndInv'
<1>1. faults' \in 0 .. MaxFaults
    BY ExtensionsAssumption DEF IndInv, ExtensionsTypeOK, Fault
<1>2. /\ Failing("fault") /\ seeded' = seeded
      /\ db.at \in {"install", "unpacking", "start", "preload", "setup"}
    BY DEF Fault
<1> QED BY <1>1, <1>2, FailingInv

(* close, stop and the end of a process.                                   *)
LEMMA CloseInv ==
    ASSUME IndInv, caller = "idle", Close, FreshSession
    PROVE  IndInv'
<1>1. DumpTypeOK' /\ caller' = "idle"
    BY DumpLeft DEF IndInv
<1>2. faults' \in 0 .. MaxFaults /\ seeded' = seeded /\ db' = Closed /\ TemporaryGone
    BY DEF IndInv, ExtensionsTypeOK, Close
<1>3. /\ err' \in [why : {"none", "fault", "module", "dependency", "block"},
                   call : {"none", "open", "enable_extension"}]
      /\ OpenNeedsNothing'
    BY DEF Close, NoError, OpenNeedsNothing
<1> QED BY <1>1, <1>2, <1>3, ClosedInv

(* The process is killed.                                                  *)
LEMMA DiesInv ==
    ASSUME IndInv, Dies
    PROVE  IndInv'
<1>1. DumpTypeOK' /\ caller' = "idle"
    BY DumpAssumption DEF Dies, NoDump, DumpTypeOK
<1>2. faults' \in 0 .. MaxFaults /\ seeded' = {} /\ db' = Closed /\ TemporaryGone
    BY ExtensionsAssumption DEF IndInv, ExtensionsTypeOK, Dies, ProcessDies
<1>3. /\ err' \in [why : {"none", "fault", "module", "dependency", "block"},
                   call : {"none", "open", "enable_extension"}]
      /\ OpenNeedsNothing'
    BY DEF Dies, ProcessDies, NoError, OpenNeedsNothing
<1> QED BY <1>1, <1>2, <1>3, ClosedInv

(* The client of a server disconnects.                                     *)
LEMMA DisconnectInv ==
    ASSUME IndInv, Disconnect, FreshSession
    PROVE  IndInv'
<1>1. /\ db'.at = "listening" /\ db'.root = db.root /\ db'.server = db.server /\ db'.list = db.list
      /\ db'.todo = db.todo /\ db'.pre = db.pre /\ db'.call = db.call /\ db.at = "ready" /\ db.server
      /\ UNCHANGED <<files, catalog, unsure, seeded, err, faults>>
    BY DEF IndInv, DbTypeOK, Disconnect
<1>2. DumpTypeOK' /\ caller' = "idle"
    BY DumpLeft, <1>1 DEF IndInv, Stages
<1>3. ExtensionsTypeOK'
    BY <1>1 DEF IndInv, ExtensionsTypeOK
<1>4. DbTypeOK'
    BY DEF IndInv, DbTypeOK, Disconnect
<1>5. Stages' /\ FilesThere' /\ ModulesSeeded'
    BY <1>1, <1>2 DEF IndInv, Stages, FilesThere, ModulesSeeded, Working, Running
<1>6. Preinstalled' /\ FilesKept'
    BY <1>1 DEF IndInv, Preinstalled, Here, FilesKept, ToUnpack
<1>7. Ordered' /\ OpenNeedsNothing'
    BY <1>1 DEF IndInv, Ordered, Working, OpenNeedsNothing
<1> QED BY <1>2, <1>3, <1>4, <1>5, <1>6, <1>7 DEF IndInv

-----------------------------------------------------------------------------
(* Installing, starting and setting up.                                    *)

(* A step that works on an extension has one.                              *)
LEMMA CurrentIs ==
    ASSUME IndInv, db.at \in {"install", "unpacking", "preload", "setup"}
    PROVE  /\ Current \in Exts /\ Current \in ToSet(db.todo) /\ Rest \in Seq(Exts)
           /\ ToSet(Rest) \subseteq ToSet(db.todo)
           /\ ToSet(db.todo) \subseteq {Current} \cup ToSet(Rest)
           /\ Here \in Roots /\ db.todo \in Seq(Exts) /\ db.todo # <<>>
<1>1. db.todo \in Seq(Exts) /\ db.todo # <<>>
    BY DEF IndInv, ExtensionsTypeOK, DbTypeOK
<1> QED BY <1>1, HeadAndTail DEF IndInv, DbTypeOK, Current, Rest, Here

(* A connection comes.                                                     *)
LEMMA ConnectionInv ==
    ASSUME IndInv, Connection, UNCHANGED dumpVars
    PROVE  IndInv'
<1>1. /\ db'.at = (IF db.list = <<>> THEN "start" ELSE "install") /\ db'.root = db.root
      /\ db'.server = db.server /\ db'.list = db.list /\ db'.todo = db.list /\ db'.pre = db.pre
      /\ db'.call = db.call /\ db.at = "listening" /\ err' = NoError
      /\ UNCHANGED <<files, catalog, unsure, seeded, faults>>
    BY DEF IndInv, DbTypeOK, Connection
<1>2. db.server /\ db'.server
    BY <1>1 DEF IndInv, Stages
<1>3. DumpTypeOK' /\ caller' = "idle"
    BY DumpLeft, <1>1 DEF IndInv, Stages
<1>4. ExtensionsTypeOK'
    BY <1>1 DEF IndInv, ExtensionsTypeOK, NoError
<1>5. DbTypeOK'
    BY DEF IndInv, DbTypeOK, Connection
<1>6. Stages' /\ ModulesSeeded'
    BY <1>1, <1>2, <1>3 DEF IndInv, Stages, ModulesSeeded, Working, Running
<1>7. FilesThere'
    BY <1>1, <1>2 DEF FilesThere, ToSet
<1>8. Preinstalled' /\ FilesKept'
    BY <1>1, <1>2 DEF IndInv, Preinstalled, Here, FilesKept, ToUnpack
<1>9. Ordered' /\ OpenNeedsNothing'
    BY <1>1, <1>2 DEF IndInv, Ordered, Working, OpenNeedsNothing, NoError
<1> QED BY <1>3, <1>4, <1>5, <1>6, <1>7, <1>8, <1>9 DEF IndInv

(* The files of the next extension are there.                              *)
LEMMA InstalledInv ==
    ASSUME IndInv, db.at \in {"install", "unpacking"}, db' = AfterInstall,
           files' \in [Roots -> [Exts -> {"none", "part", "whole"}]],
           files'[Here][Current] = "whole",
           \A r \in Roots, e \in Exts :
               files'[r][e] = files[r][e] \/ (r = Here /\ e = Current /\ e \in unsure[Here]),
           UNCHANGED <<catalog, unsure, seeded, err, faults>>, UNCHANGED dumpVars
    PROVE  IndInv'
<1>0. /\ Current \in Exts /\ Current \in ToSet(db.todo) /\ Rest \in Seq(Exts)
      /\ ToSet(Rest) \subseteq ToSet(db.todo)
      /\ ToSet(db.todo) \subseteq {Current} \cup ToSet(Rest)
      /\ Here \in Roots /\ db.todo # <<>>
    BY CurrentIs
<1>1. ToSet(db.list) \subseteq Exts /\ ToSet(db.todo) \subseteq Exts /\ db.pre \subseteq Exts
    BY ToSetType DEF IndInv, DbTypeOK
<1>2. DumpTypeOK' /\ caller' = caller /\ block' = block /\ caller = "idle"
    BY DEF IndInv, DumpTypeOK, dumpVars, Stages
<1>3. OpenNeedsNothing'
    BY DEF IndInv, OpenNeedsNothing
<1>4. CASE db.server
    <2>1. /\ db'.at = (IF Rest = <<>> THEN "start" ELSE "install") /\ db'.root = db.root
          /\ db'.server = db.server /\ db'.list = db.list /\ db'.todo = Rest /\ db'.pre = db.pre
          /\ db'.call = db.call
        BY <1>4 DEF IndInv, DbTypeOK, AfterInstall
    <2>2. ExtensionsTypeOK'
        BY <2>1 DEF IndInv, ExtensionsTypeOK
    <2>3. DbTypeOK'
        BY <1>0, <1>4 DEF IndInv, DbTypeOK, AfterInstall
    <2>4. db.call # "enable_extension"
        BY <1>4 DEF IndInv, Stages
    <2>5. Stages' /\ ModulesSeeded'
        BY <1>2, <1>4, <2>1, <2>4 DEF IndInv, Stages, ModulesSeeded, Working, Running
    <2>6. Preinstalled'
        BY <1>0, <1>1, <2>1 DEF IndInv, Preinstalled, Here
    <2>7. FilesThere'
        <3>1. \A e \in ToSet(db.list) \ ToSet(Rest) : files'[Here][e] = "whole"
            BY <1>0, <1>1, <1>4 DEF IndInv, FilesThere
        <3>2. Rest = <<>> => ToSet(Rest) = {}
            BY DEF ToSet
        <3> QED BY <1>4, <2>1, <3>1, <3>2 DEF FilesThere, Here
    <2>8. FilesKept'
        BY <1>0, <1>4, <2>1, ExtensionsAssumption DEF IndInv, ExtensionsTypeOK, FilesKept, ToUnpack, Here
    <2>9. Ordered'
        BY <1>4, <2>1 DEF IndInv, Ordered, Working
    <2> QED BY <1>2, <1>3, <2>2, <2>3, <2>5, <2>6, <2>7, <2>8, <2>9 DEF IndInv
<1>5. CASE ~db.server
    <2>1. /\ db'.at = "preload" /\ db'.root = db.root
          /\ db'.server = db.server /\ db'.list = db.list /\ db'.todo = db.todo /\ db'.pre = db.pre
          /\ db'.call = db.call
        BY <1>5 DEF IndInv, DbTypeOK, AfterInstall
    <2>2. ExtensionsTypeOK'
        BY <1>0, <2>1 DEF IndInv, ExtensionsTypeOK
    <2>3. DbTypeOK'
        BY <1>5 DEF IndInv, DbTypeOK, AfterInstall
    <2>4. Stages'
        BY <1>2, <1>5, <2>1 DEF IndInv, Stages, Working, Rest
    <2>5. ModulesSeeded'
        BY <1>0, <1>5, <2>1 DEF IndInv, ModulesSeeded, Seeded, Working, Running, Here
    <2>6. Preinstalled'
        BY <1>0, <1>1, <2>1 DEF IndInv, Preinstalled, Here
    <2>7. FilesThere'
        BY <1>5, <2>1 DEF FilesThere, Here, Current
    <2>8. FilesKept'
        BY <1>0, <1>5, <2>1, ExtensionsAssumption
            DEF IndInv, ExtensionsTypeOK, FilesKept, ToUnpack, Pending, Here
    <2>9. Ordered'
        BY <1>5, <2>1 DEF IndInv, Ordered, Working, Here
    <2> QED BY <1>2, <1>3, <2>2, <2>3, <2>4, <2>5, <2>6, <2>7, <2>8, <2>9 DEF IndInv
<1> QED BY <1>4, <1>5

(* A server passes over an archive that its root has.                      *)
LEMMA SkipPreinstalledInv ==
    ASSUME IndInv, SkipPreinstalled, UNCHANGED dumpVars
    PROVE  IndInv'
<1>1. files'[Here][Current] = "whole"
    BY DEF IndInv, Preinstalled, SkipPreinstalled
<1>2. files' \in [Roots -> [Exts -> {"none", "part", "whole"}]]
    BY DEF IndInv, ExtensionsTypeOK, SkipPreinstalled
<1>3. /\ db.at \in {"install", "unpacking"} /\ db' = AfterInstall /\ files' = files
      /\ UNCHANGED <<catalog, unsure, seeded, err, faults>>
    BY DEF SkipPreinstalled
<1> QED BY <1>1, <1>2, <1>3, InstalledInv

(* The files of the next extension have been replaced.                     *)
LEMMA UnpackEndsInv ==
    ASSUME IndInv, UnpackEnds, UNCHANGED dumpVars
    PROVE  IndInv'
<1>1. Current \in Exts /\ Here \in Roots /\ Current \in unsure[Here]
    BY CurrentIs DEF UnpackEnds, IndInv, FilesThere
<1>2. files' \in [Roots -> [Exts -> {"none", "part", "whole"}]] /\ files'[Here][Current] = "whole"
    BY <1>1 DEF IndInv, ExtensionsTypeOK, UnpackEnds
<1>3. \A r \in Roots, e \in Exts :
          files'[r][e] = files[r][e] \/ (r = Here /\ e = Current /\ e \in unsure[Here])
    BY <1>1 DEF IndInv, ExtensionsTypeOK, UnpackEnds
<1>4. /\ db.at \in {"install", "unpacking"} /\ db' = AfterInstall
      /\ UNCHANGED <<catalog, unsure, seeded, err, faults>>
    BY DEF UnpackEnds
<1> QED BY <1>2, <1>3, <1>4, InstalledInv

(* The files of the next extension are being replaced.                     *)
LEMMA UnpackBeginsInv ==
    ASSUME IndInv, UnpackBegins, UNCHANGED dumpVars
    PROVE  IndInv'
<1>0. /\ Current \in Exts /\ Current \in ToSet(db.todo)
      /\ Here \in Roots /\ db.todo # <<>>
    BY CurrentIs DEF UnpackBegins
<1>1. ToSet(db.list) \subseteq Exts /\ db.pre \subseteq Exts
    BY ToSetType DEF IndInv, DbTypeOK
<1>2. DumpTypeOK' /\ caller' = caller /\ block' = block /\ caller = "idle"
    BY DEF IndInv, DumpTypeOK, dumpVars, Stages, UnpackBegins
<1>3. /\ db'.at = "unpacking" /\ db'.root = db.root
      /\ db'.server = db.server /\ db'.list = db.list /\ db'.todo = db.todo /\ db'.pre = db.pre
      /\ db'.call = db.call /\ db.at = "install" /\ Current \notin db.pre
      /\ UNCHANGED <<catalog, seeded, err, faults>>
    BY DEF IndInv, DbTypeOK, UnpackBegins
<1>4. /\ files' \in [Roots -> [Exts -> {"none", "part", "whole"}]]
      /\ \A r \in Roots, e \in Exts : files'[r][e] = files[r][e] \/ (r = Here /\ e = Current)
    BY <1>0 DEF IndInv, ExtensionsTypeOK, UnpackBegins
<1>5. /\ unsure' \in [Roots -> SUBSET Exts] /\ unsure'[Here] = unsure[Here] \cup {Current}
      /\ \A r \in Roots : r # Here => unsure'[r] = unsure[r]
    BY <1>0 DEF IndInv, ExtensionsTypeOK, UnpackBegins
<1>6. ExtensionsTypeOK'
    BY <1>0, <1>3, <1>4, <1>5 DEF IndInv, ExtensionsTypeOK
<1>7. DbTypeOK'
    BY DEF IndInv, DbTypeOK, UnpackBegins
<1>8. Stages'
    BY <1>2, <1>3 DEF IndInv, Stages, Working, Rest
<1>9. ModulesSeeded'
    BY <1>0, <1>3, <1>4, <1>5 DEF IndInv, ModulesSeeded, Seeded, Working, Running, Here
<1>10. Preinstalled'
    BY <1>0, <1>1, <1>3, <1>4 DEF IndInv, Preinstalled, Here
<1>11. FilesThere'
    BY <1>0, <1>1, <1>3, <1>4, <1>5 DEF IndInv, FilesThere, Here, Current
<1>12. FilesKept'
    BY <1>0, <1>3, <1>4, <1>5, ExtensionsAssumption
        DEF IndInv, ExtensionsTypeOK, FilesKept, ToUnpack, Pending, Here
<1>13. Ordered' /\ OpenNeedsNothing'
    BY <1>3 DEF IndInv, Ordered, Working, Here, OpenNeedsNothing
<1> QED BY <1>2, <1>6, <1>7, <1>8, <1>9, <1>10, <1>11, <1>12, <1>13 DEF IndInv

(* The backend starts with the modules of its root seeded.                 *)
LEMMA StartBackendInv ==
    ASSUME IndInv, StartBackend, FreshSession
    PROVE  IndInv'
<1>1. /\ db'.at = (IF db.list # <<>> /\ db.server THEN "setup" ELSE Begins(db.list, db.pre))
      /\ db'.root = db.root /\ db'.server = db.server /\ db'.list = db.list /\ db'.todo = db.list
      /\ db'.pre = db.pre /\ db'.call = db.call /\ db.at = "start"
      /\ UNCHANGED <<files, catalog, unsure, err, faults>> /\ seeded' = seeded \cup Present(Here)
    BY DEF IndInv, DbTypeOK, StartBackend
<1>2. DumpTypeOK' /\ caller' = "idle" /\ block' = "idle"
    BY DumpLeft, <1>1 DEF IndInv, Stages, FreshSession
<1>3. Here \in Roots /\ db.list \in Seq(Exts) /\ ToSet(db.list) \subseteq Exts
    BY ToSetType DEF IndInv, DbTypeOK, Here
<1>4. db.list # <<>> => Head(db.list) \in Exts /\ Head(db.list) \in ToSet(db.list)
    BY <1>3, HeadAndTail
<1>5. /\ db'.at \in {"ready", "preload", "install", "setup"}
      /\ db'.at # "ready" => db.list # <<>>
      /\ db'.at = "preload" => Head(db.list) \in db.pre /\ ~db.server
      /\ db'.at = "install" => ~db.server
      /\ db'.at = "setup" => db.server
    BY <1>1 DEF Begins
<1>6. Present(Here) \subseteq Native \X {"part", "whole"}
    BY <1>3, ExtensionsAssumption DEF IndInv, ExtensionsTypeOK, Present
<1>7. \A e \in Exts : files[Here][e] = "whole" /\ e \in Native => <<e, "whole">> \in seeded'
    BY <1>1 DEF Present
<1>8. ExtensionsTypeOK'
    BY <1>1, <1>5, <1>6 DEF IndInv, ExtensionsTypeOK
<1>9. DbTypeOK'
    BY <1>5 DEF IndInv, DbTypeOK, StartBackend
<1>10. Stages'
    BY <1>1, <1>2, <1>5 DEF IndInv, Stages, Working
<1>11. Preinstalled' /\ OpenNeedsNothing'
    BY <1>1 DEF IndInv, Preinstalled, Here, OpenNeedsNothing
<1>12. FilesThere'
    BY <1>1, <1>3, <1>4, <1>5 DEF IndInv, Preinstalled, FilesThere, Here, Current
<1>13. ModulesSeeded'
    <2>1. db'.at = "setup" => \A e \in ToSet(db.list) : files[Here][e] = "whole"
        BY <1>1, <1>5 DEF IndInv, FilesThere
    <2> QED BY <1>1, <1>3, <1>4, <1>5, <1>7, <2>1 DEF ModulesSeeded, Seeded, Here, Current
<1>14. FilesKept'
    <2>1. CASE db'.at = "ready"
        <3>1. db.list = <<>> BY <1>1, <1>5, <2>1 DEF Begins
        <3>2. ToSet(db.list) = {} BY <3>1 DEF ToSet
        <3> QED BY <1>1, <2>1, <3>2 DEF IndInv, FilesKept, ToUnpack, Pending, Here
    <2>2. CASE db'.at # "ready"
        BY <1>1, <1>5, <2>2 DEF IndInv, FilesKept, ToUnpack, Pending, Here
    <2> QED BY <2>1, <2>2
<1>15. Ordered'
    BY <1>1, <1>3, InOrderGrows DEF IndInv, Ordered, Here
<1> QED BY <1>2, <1>8, <1>9, <1>10, <1>11, <1>12, <1>13, <1>14, <1>15 DEF IndInv

(* The library of the next extension is seeded.                            *)
LEMMA PreloadInv ==
    ASSUME IndInv, PreloadExtension, UNCHANGED dumpVars
    PROVE  IndInv'
<1>0. Current \in Exts /\ Here \in Roots /\ db.todo # <<>> /\ files[Here][Current] = "whole"
    BY CurrentIs DEF PreloadExtension, IndInv, FilesThere
<1>1. /\ db'.at = "setup" /\ db'.root = db.root
      /\ db'.server = db.server /\ db'.list = db.list /\ db'.todo = db.todo /\ db'.pre = db.pre
      /\ db'.call = db.call /\ db.at = "preload" /\ seeded' = seeded \cup Seeds(Current)
      /\ UNCHANGED <<files, catalog, unsure, err, faults>> /\ ~db.server
    BY <1>0 DEF IndInv, DbTypeOK, PreloadExtension, Stages
<1>2. DumpTypeOK' /\ caller' = caller /\ block' = block /\ caller = "idle"
    BY <1>1 DEF IndInv, DumpTypeOK, dumpVars, Stages
<1>3. Seeds(Current) \subseteq Native \X {"part", "whole"}
      /\ (Current \in Native => <<Current, "whole">> \in seeded')
    BY <1>0, <1>1 DEF Seeds
<1>4. ExtensionsTypeOK'
    BY <1>0, <1>1, <1>3 DEF IndInv, ExtensionsTypeOK
<1>5. DbTypeOK'
    BY <1>0 DEF IndInv, DbTypeOK, PreloadExtension
<1>6. Stages'
    BY <1>1, <1>2 DEF IndInv, Stages, Working, Rest
<1>7. Preinstalled' /\ OpenNeedsNothing' /\ FilesKept'
    BY <1>1 DEF IndInv, Preinstalled, Here, OpenNeedsNothing, FilesKept, ToUnpack, Pending
<1>8. FilesThere'
    BY <1>0, <1>1 DEF IndInv, FilesThere, Here, Current
<1>9. ModulesSeeded'
    BY <1>1, <1>3 DEF IndInv, ModulesSeeded, Seeded, Running, Working, Here, Current
<1>10. Ordered'
    BY <1>1 DEF IndInv, Ordered, Working, Here
<1> QED BY <1>2, <1>4, <1>5, <1>6, <1>7, <1>8, <1>9, <1>10 DEF IndInv

(* The setup of an extension that an open named is never refused: the      *)
(* block is idle, the module is seeded, what it needs was created.         *)
LEMMA SetUpRefused ==
    ASSUME IndInv, db.at = "setup", Refuses(block) # "none"
    PROVE  Refuses(block) \in {"dependency", "block"} /\ db.call # "open"
<1>1. /\ Current \in Exts /\ Current \in ToSet(db.todo) /\ Here \in Roots
      /\ db.todo \in Seq(Exts) /\ db.todo # <<>>
    BY CurrentIs
<1>2. Opens(Current)
    BY DEF IndInv, FilesThere, ModulesSeeded, Seeded, Opens
<1>3. ASSUME db.call = "open" PROVE Refuses(block) = "none"
    <2>1. block = "idle"
        BY <1>3 DEF IndInv, Stages, Working
    <2>2. CASE db.pre = {}
        <3>1. InOrder(db.todo, catalog[Here])
            BY <1>3, <2>2 DEF IndInv, Ordered, Working
        <3>2. ToSet(Dependencies[Current]) \subseteq catalog[Here]
            BY <1>1, <3>1, InOrderTail DEF Current
        <3> QED BY <1>2, <2>1, <3>2 DEF Refuses
    <2>3. CASE db.pre # {}
        BY <1>1, <1>2, <2>1, <2>3 DEF Refuses, IndInv, Preinstalled
    <2> QED BY <2>2, <2>3
<1> QED BY <1>2, <1>3 DEF Refuses

(* An extension is set up, and the next one follows.                       *)
LEMMA SetUpInv ==
    ASSUME IndInv, SetUp(block), UNCHANGED dumpVars
    PROVE  IndInv'
<1>0. /\ Current \in Exts /\ Current \in ToSet(db.todo) /\ Rest \in Seq(Exts)
      /\ ToSet(Rest) \subseteq ToSet(db.todo)
      /\ ToSet(db.todo) \subseteq {Current} \cup ToSet(Rest)
      /\ Here \in Roots /\ db.todo \in Seq(Exts) /\ db.todo # <<>> /\ db.at = "setup"
    BY CurrentIs DEF SetUp
<1>1. CASE Refuses(block) # "none"
    <2>1. Refuses(block) \in {"dependency", "block"} /\ db.call # "open"
        BY <1>0, <1>1, SetUpRefused
    <2>2. Failing(Refuses(block)) /\ seeded' = seeded /\ faults' = faults
        BY <1>1 DEF SetUp
    <2>3. db.call = "enable_extension"
        BY <2>1, <2>2 DEF Failing
    <2>4. faults' \in 0 .. MaxFaults
        BY <2>2 DEF IndInv, ExtensionsTypeOK
    <2> QED BY <1>0, <2>1, <2>2, <2>3, <2>4, FailingInv
<1>2. CASE Refuses(block) = "none"
    <2>1. /\ catalog' = [catalog EXCEPT ![Here] = @ \cup (({Current} \cap Created) \ db.pre)]
          /\ unsure' = [unsure EXCEPT ![Here] = @ \ {Current}] /\ db' = AfterSetup
          /\ UNCHANGED <<files, err, seeded, faults>>
        BY <1>2 DEF SetUp
    <2>2. /\ db'.at = (IF db.server /\ Rest # <<>> THEN "setup" ELSE Begins(Rest, db.pre))
          /\ db'.root = db.root /\ db'.server = db.server /\ db'.todo = Rest /\ db'.call = "open"
          /\ db'.list = (IF db.server \/ Rest # <<>> THEN db.list ELSE <<>>)
          /\ db'.pre = (IF db.server \/ Rest # <<>> THEN db.pre ELSE {})
        BY <2>1 DEF IndInv, DbTypeOK, AfterSetup
    <2>3. DumpTypeOK' /\ caller' = caller /\ block' = block /\ caller = "idle"
        BY <1>0 DEF IndInv, DumpTypeOK, dumpVars, Stages
    <2>4. Rest # <<>> => Head(Rest) \in Exts /\ Head(Rest) \in ToSet(Rest)
        BY <1>0, HeadAndTail
    <2>5. /\ db'.at \in {"ready", "preload", "install", "setup"}
          /\ db'.at = "ready" <=> Rest = <<>>
          /\ db'.at = "preload" => Head(Rest) \in db.pre /\ ~db.server
          /\ db'.at = "install" => ~db.server
          /\ db'.at = "setup" => db.server
        BY <2>2 DEF Begins
    <2>6. files[Here][Current] = "whole" /\ Seeded(Current)
        BY <1>0 DEF IndInv, FilesThere, ModulesSeeded
    <2>7. /\ catalog' \in [Roots -> SUBSET Created] /\ unsure' \in [Roots -> SUBSET Exts]
          /\ catalog'[Here] = catalog[Here] \cup (({Current} \cap Created) \ db.pre)
          /\ unsure'[Here] = unsure[Here] \ {Current}
          /\ \A r \in Roots : r # Here => catalog'[r] = catalog[r] /\ unsure'[r] = unsure[r]
        BY <1>0, <2>1 DEF IndInv, ExtensionsTypeOK
    <2>8. Rest = <<>> => ToSet(Rest) = {}
        BY DEF ToSet
    <2>9. ExtensionsTypeOK'
        BY <2>1, <2>2, <2>5, <2>7 DEF IndInv, ExtensionsTypeOK
    <2>10. DbTypeOK'
        <3>1. <<>> \in Seq(Exts) OBVIOUS
        <3>2. db'.list \in Seq(Exts) /\ db'.pre \in SUBSET Exts
            BY <2>2, <3>1 DEF IndInv, DbTypeOK
        <3>3. db' = [at |-> db'.at, root |-> db'.root, server |-> db'.server, list |-> db'.list,
                     todo |-> db'.todo, pre |-> db'.pre, call |-> db'.call]
            BY <2>1 DEF IndInv, DbTypeOK, AfterSetup
        <3> QED BY <1>0, <2>2, <2>5, <3>2, <3>3 DEF IndInv, DbTypeOK
    <2>11. Stages'
        <3>1. Rest # <<>> => db.call = "open"
            BY <1>0 DEF IndInv, DbTypeOK, Stages
        <3> QED BY <1>0, <2>2, <2>3, <2>5, <3>1 DEF IndInv, Stages, Working
    <2>12. Preinstalled'
        BY <1>0, <2>1, <2>2 DEF IndInv, Preinstalled, Here
    <2>13. FilesThere'
        <3>1. db.server => \A e \in ToSet(db.todo) : files[Here][e] = "whole"
            BY <1>0 DEF IndInv, FilesThere
        <3>2. \A e \in db.pre : files[Here][e] = "whole"
            BY DEF IndInv, Preinstalled
        <3> QED BY <1>0, <2>1, <2>2, <2>4, <2>5, <3>1, <3>2 DEF FilesThere, Here, Current
    <2>14. ModulesSeeded'
        <3>1. db.server => \A e \in ToSet(db.todo) : Seeded(e)
            BY <1>0 DEF IndInv, ModulesSeeded
        <3>2. \A e \in Exts : files[Here][e] = "whole" /\ e \notin unsure[Here] => Seeded(e)
            BY <1>0 DEF IndInv, ModulesSeeded, Running, Working
        <3>3. \A e \in Exts : files[Here][e] = "whole" /\ e \notin unsure'[Here] => Seeded(e)
            BY <2>6, <2>7, <3>2
        <3> QED BY <1>0, <2>1, <2>2, <2>4, <2>5, <3>1, <3>3 DEF ModulesSeeded, Seeded, Here, Current
    <2>15. FilesKept'
        <3>1. SUFFICES ASSUME NEW r \in Roots, NEW e \in (catalog'[r] \ unsure'[r]) \ ToUnpack(r)'
                       PROVE  files[r][e] = "whole"
            BY <2>1 DEF FilesKept
        <3>2. CASE e = Current /\ r = Here
            BY <2>6, <3>2
        <3>3. CASE ~(e = Current /\ r = Here)
            <4>1. e \in catalog[r] \ unsure[r]
                BY <2>7, <3>3
            <4>2. ToUnpack(r) \subseteq {Current} \cup ToUnpack(r)'
                BY <1>0, <2>2, <2>5, <2>8 DEF ToUnpack, Pending, Here
            <4>3. ToUnpack(r) = {} \/ r = Here
                BY DEF ToUnpack
            <4> QED BY <3>3, <4>1, <4>2, <4>3 DEF IndInv, FilesKept
        <3> QED BY <3>2, <3>3
    <2>16. Ordered'
        <3>1. InOrder(db'.list, {})
            BY <2>2, NothingInOrder DEF IndInv, Ordered
        <3>2. ASSUME Rest # <<>>, db.pre = {}
              PROVE  InOrder(Rest, catalog'[Here])
            <4>1. db.call # "enable_extension"
                BY <3>2 DEF IndInv, Stages
            <4>2. CASE db.call = "open"
                <5>1. InOrder(db.todo, catalog[Here])
                    BY <1>0, <3>2, <4>2 DEF IndInv, Ordered, Working
                <5>2. InOrder(Rest, catalog[Here] \cup {Current})
                    BY <1>0, <5>1, InOrderTail DEF Rest, Current
                <5>3. ASSUME NEW i \in DOMAIN Rest
                      PROVE  ToSet(Dependencies[Rest[i]]) \subseteq catalog'[Here] \cup Before(Rest, i)
                    <6>1. Rest[i] \in Exts BY <1>0
                    <6>2. ToSet(Dependencies[Rest[i]]) \subseteq Created
                        BY <6>1, ExtensionsAssumption
                    <6> QED BY <5>2, <5>3, <6>2, <2>7, <3>2 DEF InOrder
                <5> QED BY <5>3 DEF InOrder
            <4> QED BY <1>0, <4>1, <4>2 DEF IndInv, DbTypeOK, Stages
        <3> QED BY <2>2, <2>5, <3>1, <3>2 DEF Ordered, Working, Here
    <2>17. OpenNeedsNothing'
        BY <2>1 DEF IndInv, OpenNeedsNothing
    <2> QED BY <2>3, <2>9, <2>10, <2>11, <2>12, <2>13, <2>14, <2>15, <2>16, <2>17 DEF IndInv
<1> QED BY <1>1, <1>2

-----------------------------------------------------------------------------
(* Calls on an instance that is ready.                                     *)

(* enable_extension begins.                                                *)
LEMMA EnableExtensionInv ==
    ASSUME IndInv, caller = "idle", NEW e \in Exts, EnableExtension(e), UNCHANGED dumpVars
    PROVE  IndInv'
<1>1. /\ db'.at = "install" /\ db'.root = db.root /\ db'.server = db.server /\ db'.list = db.list
      /\ db'.todo = <<e>> /\ db'.pre = {} /\ db'.call = "enable_extension"
      /\ db.at = "ready" /\ ~db.server /\ err' = NoError
      /\ UNCHANGED <<files, catalog, unsure, seeded, faults>>
    BY DEF IndInv, DbTypeOK, EnableExtension
<1>2. DumpTypeOK' /\ caller' = "idle"
    BY DumpLeft DEF IndInv
<1>3. <<e>> \in Seq(Exts) /\ <<e>> # <<>> /\ Tail(<<e>>) = <<>>
    OBVIOUS
<1>4. ExtensionsTypeOK'
    BY <1>1, <1>3 DEF IndInv, ExtensionsTypeOK, NoError
<1>5. DbTypeOK'
    BY <1>3 DEF IndInv, DbTypeOK, EnableExtension
<1>6. Stages'
    BY <1>1, <1>2, <1>3 DEF Stages, Working, Rest
<1>7. Preinstalled' /\ FilesThere' /\ ModulesSeeded'
    BY <1>1 DEF IndInv, Preinstalled, FilesThere, ModulesSeeded, Seeded, Running, Working, Here
<1>8. FilesKept'
    BY <1>1 DEF IndInv, FilesKept, ToUnpack
<1>9. Ordered' /\ OpenNeedsNothing'
    BY <1>1 DEF IndInv, Ordered, OpenNeedsNothing, NoError
<1> QED BY <1>2, <1>4, <1>5, <1>6, <1>7, <1>8, <1>9 DEF IndInv

(* The program drops an extension.                                         *)
LEMMA DropExtensionInv ==
    ASSUME IndInv, NEW e \in Exts, DropExtension(e, block), UNCHANGED dumpVars
    PROVE  IndInv'
<1>1. /\ db.at = "ready" /\ UNCHANGED <<files, unsure, seeded, db, err, faults>>
      /\ catalog' = [catalog EXCEPT ![Here] = @ \ {e}]
    BY DEF DropExtension
<1>2. /\ catalog' \in [Roots -> SUBSET Created]
      /\ \A r \in Roots : catalog'[r] \subseteq catalog[r]
    BY <1>1 DEF IndInv, ExtensionsTypeOK, DbTypeOK, Here
<1>3. DumpTypeOK' /\ caller' = caller
    BY DumpLeft DEF IndInv
<1>4. ExtensionsTypeOK' /\ DbTypeOK'
    BY <1>1, <1>2 DEF IndInv, ExtensionsTypeOK, DbTypeOK
<1>5. Stages'
    BY <1>1, <1>3 DEF IndInv, Stages, Working
<1>6. Preinstalled' /\ FilesThere' /\ ModulesSeeded'
    BY <1>1 DEF IndInv, Preinstalled, FilesThere, ModulesSeeded, Seeded, Running, Working, Here
<1>7. FilesKept'
    BY <1>1, <1>2 DEF IndInv, FilesKept, ToUnpack
<1>8. Ordered' /\ OpenNeedsNothing'
    BY <1>1 DEF IndInv, Ordered, Working, OpenNeedsNothing
<1> QED BY <1>3, <1>4, <1>5, <1>6, <1>7, <1>8 DEF IndInv

(* The backend is replaced after a physical dump.                          *)
LEMMA DumpDataDirInv ==
    ASSUME IndInv, caller = "idle", DumpDataDir, FreshSession
    PROVE  IndInv'
<1>1. /\ db.at = "ready" /\ UNCHANGED <<files, catalog, unsure, db, faults>> /\ err' = NoError
      /\ seeded' = seeded \cup Present(Here)
    BY DEF DumpDataDir
<1>2. Present(Here) \subseteq Native \X {"part", "whole"}
    BY ExtensionsAssumption DEF IndInv, ExtensionsTypeOK, DbTypeOK, Here, Present
<1>3. DumpTypeOK' /\ caller' = "idle"
    BY DumpLeft DEF IndInv
<1>4. ExtensionsTypeOK' /\ DbTypeOK'
    BY <1>1, <1>2 DEF IndInv, ExtensionsTypeOK, DbTypeOK, NoError
<1>5. Stages'
    BY <1>1, <1>3 DEF IndInv, Stages, Working
<1>6. Preinstalled' /\ FilesThere' /\ ModulesSeeded'
    BY <1>1 DEF IndInv, Preinstalled, FilesThere, ModulesSeeded, Seeded, Running, Working, Here
<1>7. FilesKept'
    BY <1>1 DEF IndInv, FilesKept, ToUnpack
<1>8. Ordered' /\ OpenNeedsNothing'
    BY <1>1 DEF IndInv, Ordered, Working, OpenNeedsNothing, NoError
<1> QED BY <1>3, <1>4, <1>5, <1>6, <1>7, <1>8 DEF IndInv

(* dump_sql begins.                                                        *)
LEMMA DirectDumpSqlInv ==
    ASSUME IndInv, DirectDumpSql
    PROVE  IndInv'
<1>1. /\ db.at = "ready" /\ ~db.server /\ err' = NoError
      /\ UNCHANGED <<files, catalog, unsure, seeded, db, faults>>
    BY DEF DirectDumpSql
<1>2. DumpTypeOK'
    BY DumpSteps DEF IndInv, DirectDumpSql
<1>3. ExtensionsTypeOK' /\ DbTypeOK'
    BY <1>1 DEF IndInv, ExtensionsTypeOK, DbTypeOK, NoError
<1>4. Stages'
    BY <1>1 DEF IndInv, Stages, Working
<1>5. Preinstalled' /\ FilesThere' /\ ModulesSeeded'
    BY <1>1 DEF IndInv, Preinstalled, FilesThere, ModulesSeeded, Seeded, Running, Working, Here
<1>6. FilesKept'
    BY <1>1 DEF IndInv, FilesKept, ToUnpack
<1>7. Ordered' /\ OpenNeedsNothing'
    BY <1>1 DEF IndInv, Ordered, Working, OpenNeedsNothing, NoError
<1> QED BY <1>2, <1>3, <1>4, <1>5, <1>6, <1>7 DEF IndInv

-----------------------------------------------------------------------------
(* The invariant holds initially.                                          *)
LEMMA InitInv == Init => IndInv
<1> SUFFICES ASSUME Init PROVE IndInv OBVIOUS
<1>1. /\ db.at = "closed" /\ db.root = "kept" /\ db.server = FALSE /\ db.list = <<>>
      /\ db.todo = <<>> /\ db.pre = {} /\ db.call = "none"
    BY DEF Init, ExtensionsInit, Closed
<1>2. DbTypeOK
    BY DEF Init, ExtensionsInit, DbTypeOK, Closed, Roots
<1>3. DumpTypeOK
    BY DumpAssumption DEF Init, DumpInit, DumpTypeOK
<1>4. ExtensionsTypeOK
    BY <1>1, ExtensionsAssumption DEF Init, ExtensionsInit, ExtensionsTypeOK, NoFiles, NoError
<1>5. Stages /\ Preinstalled /\ FilesThere /\ ModulesSeeded
    BY <1>1 DEF Init, DumpInit, Stages, Preinstalled, FilesThere, ModulesSeeded, Running, Working
<1>6. FilesKept
    BY DEF Init, ExtensionsInit, FilesKept
<1>7. Ordered /\ OpenNeedsNothing
    BY <1>1, NothingInOrder DEF Init, ExtensionsInit, NoError, Ordered, Working, OpenNeedsNothing
<1> QED BY <1>2, <1>3, <1>4, <1>5, <1>6, <1>7 DEF IndInv

(* Every step preserves it.                                                *)
LEMMA StepInv ==
    ASSUME ResolvesInOrder, IndInv, [Next]_vars
    PROVE  IndInv'
<1>1. ASSUME NEW set \in SUBSET Exts, Open(set), UNCHANGED dumpVars PROVE IndInv'
    BY <1>1, OpenPathInv, OpenTemporaryInv, OpenArchiveInv DEF Open
<1>2. CASE Enabling /\ UNCHANGED dumpVars
    BY <1>2, ConnectionInv, SkipPreinstalledInv, UnpackBeginsInv, UnpackEndsInv, PreloadInv, SetUpInv
        DEF Enabling
<1>3. CASE Program /\ UNCHANGED dumpVars
    BY <1>3, EnableExtensionInv, DropExtensionInv DEF Program
<1>4. CASE Fault /\ UNCHANGED dumpVars
    BY <1>4, FaultInv
<1>5. CASE StartBackend /\ FreshSession
    BY <1>5, StartBackendInv
<1>6. CASE Physical /\ FreshSession
    BY <1>6, DumpDataDirInv, TryCloneInv DEF Physical
<1>7. CASE Ends /\ FreshSession
    BY <1>7, DisconnectInv, CloseInv DEF Ends
<1>8. CASE DirectDumpSql
    BY <1>8, DirectDumpSqlInv
<1>9. CASE \/ db.at = "ready" /\ Rollback /\ UNCHANGED extensionVars
           \/ RunnerStep /\ UNCHANGED extensionVars
           \/ CallerStep /\ UNCHANGED extensionVars
    BY <1>9, DumpStepInv
<1>10. CASE Dies
    BY <1>10, DiesInv
<1>11. CASE UNCHANGED vars
    <2>1. UNCHANGED extensionVars /\ UNCHANGED dumpVars
        BY <1>11 DEF vars
    <2>2. DumpTypeOK' /\ caller' = caller /\ block' = block
        BY <2>1 DEF IndInv, DumpTypeOK, dumpVars
    <2>3. Stages'
        BY <2>1, <2>2 DEF IndInv, Stages, Working, Rest, extensionVars
    <2> QED BY <2>1, <2>2, <2>3, ExtensionsKept
<1> QED BY <1>1, <1>2, <1>3, <1>4, <1>5, <1>6, <1>7, <1>8, <1>9, <1>10, <1>11 DEF Next

(* The invariant holds in every behaviour.                                 *)
LEMMA Invariance ==
    ASSUME ResolvesInOrder
    PROVE  Spec => []IndInv
<1>1. IndInv /\ [Next]_vars => IndInv'
    BY StepInv
<1> QED BY <1>1, InitInv, PTL DEF Spec

(* Every variable of a database with extensions and of its dumps keeps its *)
(* type, and a step that works on an extension always has one.             *)
THEOREM SessionTypeCorrect ==
    ASSUME ResolvesInOrder
    PROVE  Spec => []TypeOK
<1>1. IndInv => TypeOK
    BY DEF IndInv, TypeOK
<1> QED BY <1>1, Invariance, PTL

(* In a session that is ready, PostgreSQL can open the library of every    *)
(* extension that its catalogue promises: whatever catalogue is bundled,   *)
(* whichever process created it, over clones, servers, templates, failed   *)
(* installs and kills.                                                     *)
THEOREM LibrariesOpen ==
    ASSUME ResolvesInOrder
    PROVE  Spec => []ExtensionUsable
<1>1. IndInv => ExtensionUsable
    <2>1. SUFFICES ASSUME IndInv, db.at = "ready", NEW e \in (catalog[Here] \ unsure[Here]) \cap Native
                   PROVE  files[Here][e] = "whole" /\ <<e, "whole">> \in seeded
        BY DEF ExtensionUsable
    <2>2. Here \in Roots /\ e \in Exts
        BY <2>1, ExtensionsAssumption DEF IndInv, DbTypeOK, Here
    <2>3. files[Here][e] = "whole"
        BY <2>1, <2>2 DEF IndInv, FilesKept, ToUnpack
    <2> QED BY <2>1, <2>2, <2>3 DEF IndInv, ModulesSeeded, Seeded, Running
<1> QED BY <1>1, Invariance, PTL

(* An open fails only by a fault: in whatever set is asked for, each       *)
(* extension finds its module, its dependencies and an idle block.         *)
THEOREM OpenFailsOnlyByFault ==
    ASSUME ResolvesInOrder
    PROVE  Spec => []OpenNeedsNothing
<1>1. IndInv => OpenNeedsNothing
    BY DEF IndInv
<1> QED BY <1>1, Invariance, PTL
=============================================================================
