------------------------------- MODULE MCNodes -------------------------------
(* NodeEdit and NodeImport for TLC. They share no state that one of them reads  *)
(* and the other writes, so a behaviour is one of the first or one of the second. *)
EXTENDS Naturals, FiniteSets, Sequences, TLC

CONSTANTS n1, e1, e2, a1, a2, c1, c2, c3, c4, r1, r2

CONSTANTS
    Nodes, Editors, Gone, Consecutive, MaxEdits, MaxPings, MaxTime,
    Anchors, Children, Requests, RawDocs, Manual, None, Supported, MaxRequests, MaxFaults, MaxCrashes

\* icmp_auto_disable_consecutive is a number.
ASSUME EditAssumption == Consecutive \in Nat

\* Ids of anchors and of children are drawn from one source, and None is no id.
ASSUME ImportAssumption == None \notin Anchors /\ Anchors \cap Children = {}

\* A document lists its proxies, and a name is a string or a string with numbers behind it.
ASSUME DocsAssumption ==
    \A raw \in RawDocs :
        /\ Len(raw.proxies) \in Nat
        /\ \A i \in 1..Len(raw.proxies) : raw.proxies[i].name \in Seq(STRING \cup Nat)

VARIABLES
    part,
    row, now, ed, mon, edits, streak, pings, missed,
    anchor, used, child, idem, req, answered, raced, begun, faults, crashes

\* A proxy in a Clash document.
Proxy(name, type, conf) == [name |-> <<name>>, type |-> type, conf |-> conf]

\* A document with a GLOBAL group, one with two proxies of the same name, and one
\* of which nothing can be converted.
Documents ==
    {[proxies |-> <<Proxy("x", "ss", 1)>>, global |-> {<<"x">>}],
     [proxies |-> <<Proxy("x", "ss", 1), Proxy("x", "ss", 2)>>, global |-> {}],
     [proxies |-> <<Proxy("y", "snell", 1)>>, global |-> {}]}

\* A node that was entered by hand has the name of a proxy.
ByHand == {<<"x">>}

editVars == <<row, now, ed, mon, edits, streak, pings, missed>>
importVars == <<anchor, used, child, idem, req, answered, raced, begun, faults, crashes>>

E == INSTANCE NodeEdit
I == INSTANCE NodeImport

Init == part \in {"edit", "import"} /\ E!Init /\ I!Init

Next ==
    \/ part = "edit" /\ E!Next /\ UNCHANGED <<part, importVars>>
    \/ part = "import" /\ I!Next /\ UNCHANGED <<part, editVars>>

Spec == Init /\ [][Next]_<<part, editVars, importVars>>

\* Clients and requests are alike.
Symmetric == Permutations(Editors) \cup Permutations(Requests)
-----------------------------------------------------------------------------
\* Every variable of both modules keeps its type.
TypeOK == E!TypeOK /\ I!TypeOK

\* NodeEdit: handleUpdateNode accepts an edit only if its client has seen the ones before,
\* up to the second of the ETag.
EditsSeen == E!EditsSeen

\* NodeEdit: the monitor disables a node only after consecutive bad pings.
DisabledAfterStreak == E!DisabledAfterStreak

\* NodeImport: a successful importProxiesForNode leaves exactly the document's proxies.
ImportMatchesDocument == I!ImportMatchesDocument

\* NodeImport: rollbackCreatedNodes leaves none of the nodes a failed import created.
FailedLeavesNothingNew == I!FailedLeavesNothingNew

\* NodeImport: no child outlives the anchor handleDeleteNode has deleted.
NoOrphans == I!NoOrphans

\* NodeImport: a POST /nodes that is sent again after its 201 creates nothing.
RetryCreatesNothing == I!RetryCreatesNothing
==============================================================================
