---------------------------- MODULE ExtensionSet ----------------------------
(***************************************************************************)
(* The order in which a set of extensions is installed (extensions.rs):    *)
(* resolve_extension_set sorts the extensions it is asked for by name and  *)
(* visits each after what it depends on, once.                             *)
(***************************************************************************)
EXTENDS Naturals, Sequences, SequencesExt

CONSTANTS
    All,          \* the catalogue of extensions, in the order of their names
    Dependencies  \* of each, as a sequence

Exts == ToSet(All)

(* visit_extension, from an empty `visited': dependencies come first.  The *)
(* catalogue has no cycle.                                                 *)
PostOrder[e \in Exts] ==
    FlattenSeq([i \in DOMAIN Dependencies[e] |-> PostOrder[Dependencies[e][i]]]) \o <<e>>

(* What was visited is not visited again.                                  *)
FirstOnes(s) ==
    FoldLeft(LAMBDA done, e : IF e \in ToSet(done) THEN done ELSE Append(done, e), <<>>, s)

Requested(set) == SelectSeq(All, LAMBDA e : e \in set)

Resolution ==
    [set \in SUBSET Exts |->
        FirstOnes(FlattenSeq([i \in DOMAIN Requested(set) |-> PostOrder[Requested(set)[i]]]))]

(* resolve_extension_set                                                   *)
Resolved(set) == Resolution[set]

-----------------------------------------------------------------------------
(* What an extension of the sequence needs is among those before it.       *)
Before(s, i) == {s[j] : j \in 1 .. i - 1}
InOrder(s, known) ==
    \A i \in DOMAIN s : ToSet(Dependencies[s[i]]) \subseteq known \cup Before(s, i)

(* What its callers rely on: all that was asked for is in the list, each   *)
(* after what it needs.                                                    *)
ResolvesInOrder ==
    \A set \in SUBSET Exts :
        /\ Resolved(set) \in Seq(Exts)
        /\ set \subseteq ToSet(Resolved(set))
        /\ InOrder(Resolved(set), {})
=============================================================================
