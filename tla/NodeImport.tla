------------------------------ MODULE NodeImport -----------------------------
(***************************************************************************)
(* Import of a Clash configuration under an anchor node: POST /nodes with an  *)
(* Idempotency-Key, PATCH with a config_url, and DELETE of the anchor.        *)
(*                                                                          *)
(* Every store call is a transaction of its own. The import updates, creates  *)
(* and deletes child nodes one by one and, when one of them fails, deletes    *)
(* the children it created. A node name is a sequence: <<"x">> is x and       *)
(* <<"x", 2>> is "x #2". All POSTs carry the same body and key.               *)
(***************************************************************************)
EXTENDS Naturals, FiniteSets, Sequences

CONSTANTS
    Anchors, Children,  \* node ids: random, never drawn twice
    Requests,
    RawDocs,            \* documents: proxies <<[name, type, conf], ...>> and the names in a GLOBAL group
    Manual,             \* names held by nodes that were not imported
    None,
    Supported,          \* proxy types clashToOutbound converts
    MaxRequests, MaxFaults, MaxCrashes  \* bounds

VARIABLES
    anchor,     \* rows of the anchors there are: their outbound ("" before an import)
    used,       \* ids drawn so far
    child,      \* row of a child: None, or source, name, and outbound with mode
    idem,       \* idempotencyStore.entries[key]: None, or the anchor in the stored answer
    req,        \* requests in flight
    \* --- history ---
    answered,   \* the key's POST was answered 201, within the lifetime of its entry
    raced,      \* a DELETE overlapped with another request
    begun, faults, crashes

vars == <<anchor, used, child, idem, req, answered, raced, begun, faults, crashes>>

Idle == [pc |-> "idle", op |-> None, a |-> None, take |-> FALSE, doc |-> <<>>, pos |-> 1, prev |-> {},
         name |-> <<>>, created |-> {},
         \* history: all ids it created; it overlapped with another; it began after a 201
         mine |-> {}, shared |-> FALSE, late |-> FALSE]

Init ==
    /\ anchor = [a \in {} |-> ""] /\ child = [c \in Children |-> None] /\ used = {}
    /\ idem = None /\ req = [r \in Requests |-> Idle]
    /\ answered = FALSE /\ raced = FALSE /\ begun = 0 /\ faults = 0 /\ crashes = 0
-----------------------------------------------------------------------------
(* ParseClashConfig.                                                        *)

\* The first of name, "name #2", "name #3", ... that is not taken.
FirstFree(name, taken) ==
    IF name \notin taken THEN name
    ELSE LET K == 2..(Cardinality(taken) + 2)
             Free == {k \in K : Append(name, k) \notin taken}
         IN Append(name, CHOOSE k \in Free : \A j \in Free : k <= j)

\* uniqueName: within the document.
uniqueName(name, nodes) == FirstFree(name, {nodes[i].name : i \in DOMAIN nodes})

\* extractModes: a proxy in no recognised group is in rule mode.
Mode(doc, name) == IF name \in doc.global THEN "global" ELSE "rule"

\* clashToOutbound: the outbound depends on type and options; other types, a missing
\* server and an ss plugin are errors.
clashToOutbound(p) == IF p.type \in Supported THEN <<p.type, p.conf>> ELSE None

\* A proxy that is refused is skipped; the mode is looked up by the name the proxy has got.
AddProxy(doc, nodes, p) ==
    IF clashToOutbound(p) = None THEN nodes
    ELSE LET name == uniqueName(p.name, nodes)
         IN Append(nodes, [name |-> name, val |-> <<clashToOutbound(p), Mode(doc, name)>>])

ParseClashConfig(doc) ==
    LET nodes[i \in 0..Len(doc.proxies)] ==
            IF i = 0 THEN <<>> ELSE AddProxy(doc, nodes[i - 1], doc.proxies[i])
    IN nodes[Len(doc.proxies)]
-----------------------------------------------------------------------------
(* Requests.                                                                *)

Busy == {r \in Requests : req[r].pc # "idle"}
ChildrenOf(a) == {c \in Children : child[c] # None /\ child[c].src = a}

\* Mutant of NamesTaken: names are unique among the nodes entered by hand only.
NamesTakenByHand == Manual

\* nodes.name is unique.
NamesTaken == Manual \cup {child[c].name : c \in {d \in Children : child[d] # None}}

\* A request arrives; history notes which others it overlaps with.
Enter(r, q) ==
    /\ req[r].pc = "idle" /\ begun < MaxRequests
    /\ begun' = begun + 1
    /\ req' = [x \in Requests |->
                  IF x = r THEN [q EXCEPT !.shared = Busy # {}]
                  ELSE [req[x] EXCEPT !.shared = x \in Busy]]
    /\ raced' = (raced \/ \E x \in Busy : "delete" \in {q.op, req[x].op})

\* newUUID: ids are random, so it does not matter which unused one is drawn.
newUUID(S) == CHOOSE x \in S : x \notin used

Goto(r, pc) == req' = [req EXCEPT ![r].pc = pc]

\* A store call returns an error.
Fault == faults < MaxFaults /\ faults' = faults + 1
-----------------------------------------------------------------------------
(* POST /nodes.                                                             *)

\* idem.get: the stored answer is sent again, or the request goes on.
PostBegin(r) ==
    /\ Enter(r, [Idle EXCEPT !.op = "post", !.pc = IF idem # None THEN "replayed" ELSE "create",
                             !.take = TRUE, !.late = answered])
    /\ UNCHANGED <<anchor, used, child, idem, answered, faults, crashes>>

\* CreateNode; all bodies have the same name, so the second one is a conflict.
PostCreate(r) ==
    LET a == newUUID(Anchors)
        taken == DOMAIN anchor # {} IN
    /\ req[r].pc = "create" /\ ~(Anchors \subseteq used)
    /\ \/ /\ ~taken
          /\ anchor' = [x \in DOMAIN anchor \cup {a} |-> IF x = a THEN "" ELSE anchor[x]]
          /\ used' = used \cup {a}
          /\ req' = [req EXCEPT ![r].pc = "fetch", ![r].a = a] /\ UNCHANGED faults
       \/ taken /\ Goto(r, "failed") /\ UNCHANGED <<anchor, used, faults>>
       \/ Fault /\ Goto(r, "failed") /\ UNCHANGED <<anchor, used>>
    /\ UNCHANGED <<child, idem, answered, raced, begun, crashes>>

\* Mutant of PutAnswer: the key is not stored.
PutAnswerNever(r) == idem' = idem

\* idem.put, under the key of the request.
PutAnswer(r) == idem' = req[r].a

\* Reload, idem.put, 201.
PostAnswer(r) ==
    /\ req[r].pc = "ok" /\ req[r].op = "post"
    /\ PutAnswer(r) /\ answered' = TRUE
    /\ req' = [req EXCEPT ![r] = Idle]
    /\ UNCHANGED <<anchor, used, child, raced, begun, faults, crashes>>

\* An entry older than the store's lifetime is not found.
Expire ==
    /\ idem # None /\ idem' = None /\ answered' = FALSE
    /\ UNCHANGED <<anchor, used, child, req, raced, begun, faults, crashes>>

\* PATCH with a config_url or kce_key: the anchor is read and written, then imported;
\* take unless the patch has an outbound of its own.
PatchBegin(r, a, take) ==
    /\ a \in DOMAIN anchor
    /\ Enter(r, [Idle EXCEPT !.op = "patch", !.pc = "fetch", !.a = a, !.take = take])
    /\ UNCHANGED <<anchor, used, child, idem, answered, faults, crashes>>

\* The answer is out.
Respond(r) ==
    /\ \/ req[r].pc \in {"failed", "replayed"}
       \/ req[r].pc = "ok" /\ req[r].op # "post"
    /\ req' = [req EXCEPT ![r] = Idle]
    /\ UNCHANGED <<anchor, used, child, idem, answered, raced, begun, faults, crashes>>
-----------------------------------------------------------------------------
(* importProxiesForNode.                                                    *)

\* The document is fetched and parsed, or it is not. One without usable proxies
\* changes nothing.
Fetch(r, raw) ==
    LET doc == ParseClashConfig(raw) IN
    /\ req[r].pc = "fetch"
    /\ \/ req' = [req EXCEPT ![r].doc = doc,
                             ![r].pc = IF doc = <<>> THEN "ok" ELSE IF req[r].take THEN "take" ELSE "list"]
       \/ Goto(r, "failed")
    /\ UNCHANGED <<anchor, used, child, idem, answered, raced, begun, faults, crashes>>

\* The first proxy becomes the anchor's own outbound; an error when the anchor is gone.
TakeFirst(r) ==
    /\ req[r].pc = "take"
    /\ \/ /\ req[r].a \in DOMAIN anchor
          /\ anchor' = [anchor EXCEPT ![req[r].a] = req[r].doc[1].val[1]]
          /\ Goto(r, "list") /\ UNCHANGED faults
       \/ req[r].a \notin DOMAIN anchor /\ Goto(r, "failed") /\ UNCHANGED <<anchor, faults>>
       \/ Fault /\ Goto(r, "failed") /\ UNCHANGED anchor
    /\ UNCHANGED <<used, child, idem, answered, raced, begun, crashes>>

\* ListNodesBySource: the rows as they are now.
ListPrevious(r) ==
    /\ req[r].pc = "list"
    /\ \/ /\ req' = [req EXCEPT ![r].prev = {[id |-> c, row |-> child[c]] : c \in ChildrenOf(req[r].a)},
                                ![r].pos = IF req[r].take THEN 2 ELSE 1, ![r].pc = "proxy"]
          /\ UNCHANGED faults
       \/ Fault /\ Goto(r, "failed")
    /\ UNCHANGED <<anchor, used, child, idem, answered, raced, begun, crashes>>

\* prevByName[name]
Known(r, name) == {p \in req[r].prev : p.row.name = name}

\* A child of that name exists: its outbound and mode are brought up to date, in
\* the row read by ListPrevious; an error when it is gone.
UpdateChild(r) ==
    LET q == req[r] IN
    /\ q.pc = "proxy" /\ q.pos <= Len(q.doc)
    /\ \E p \in Known(r, q.doc[q.pos].name) :
         IF p.row.val = q.doc[q.pos].val
         THEN req' = [req EXCEPT ![r].pos = @ + 1] /\ UNCHANGED <<child, faults>>
         ELSE \/ /\ child[p.id] # None
                 /\ child' = [child EXCEPT ![p.id] = [p.row EXCEPT !.val = q.doc[q.pos].val]]
                 /\ req' = [req EXCEPT ![r].pos = @ + 1] /\ UNCHANGED faults
              \/ /\ child[p.id] = None /\ Goto(r, "rollback") /\ UNCHANGED <<child, faults>>
              \/ /\ Fault /\ Goto(r, "rollback") /\ UNCHANGED child
    /\ UNCHANGED <<anchor, used, idem, answered, raced, begun, crashes>>

\* No such child: uniqueNodeName looks for a name ...
ChooseName(r) ==
    LET q == req[r] IN
    /\ q.pc = "proxy" /\ q.pos <= Len(q.doc) /\ Known(r, q.doc[q.pos].name) = {}
    /\ req' = [req EXCEPT ![r].pc = "insert", ![r].name = FirstFree(q.doc[q.pos].name, NamesTaken)]
    /\ UNCHANGED <<anchor, used, child, idem, answered, raced, begun, faults, crashes>>

\* ... and CreateNode inserts it, unless the name has been taken meanwhile.
CreateChild(r) ==
    LET q == req[r]
        c == newUUID(Children) IN
    /\ q.pc = "insert" /\ ~(Children \subseteq used)
    /\ \/ /\ q.name \notin NamesTaken
          /\ child' = [child EXCEPT ![c] = [src |-> q.a, name |-> q.name, val |-> q.doc[q.pos].val]]
          /\ used' = used \cup {c}
          /\ req' = [req EXCEPT ![r].pc = "proxy", ![r].pos = @ + 1, ![r].name = <<>>,
                                ![r].created = @ \cup {c}, ![r].mine = @ \cup {c}]
          /\ UNCHANGED faults
       \/ /\ q.name \in NamesTaken /\ Goto(r, "rollback") /\ UNCHANGED <<child, used, faults>>
       \/ /\ Fault /\ Goto(r, "rollback") /\ UNCHANGED <<child, used>>
    /\ UNCHANGED <<anchor, idem, answered, raced, begun, crashes>>

\* Mutant of Obsolete: children are matched by proxy, not by the name they have.
ObsoleteByBase(r) ==
    {p \in req[r].prev : \A i \in DOMAIN req[r].doc : req[r].doc[i].name[1] # p.row.name[1]}

\* Previous children whose name was not in the document.
Obsolete(r) ==
    LET first == IF req[r].take THEN 2 ELSE 1
    IN {p \in req[r].prev : \A i \in first..Len(req[r].doc) : req[r].doc[i].name # p.row.name}

\* They are deleted one by one; an error when one is gone.
RemoveChild(r) ==
    LET q == req[r] IN
    /\ q.pc = "proxy" /\ q.pos > Len(q.doc)
    /\ \/ \E p \in Obsolete(r) :
            \/ /\ child[p.id] # None /\ child' = [child EXCEPT ![p.id] = None]
               /\ req' = [req EXCEPT ![r].prev = @ \ {p}] /\ UNCHANGED faults
            \/ /\ child[p.id] = None /\ Goto(r, "rollback") /\ UNCHANGED <<child, faults>>
            \/ /\ Fault /\ Goto(r, "rollback") /\ UNCHANGED child
       \/ /\ Obsolete(r) = {} /\ Goto(r, "ok") /\ UNCHANGED <<child, faults>>
    /\ UNCHANGED <<anchor, used, idem, answered, raced, begun, crashes>>

\* Mutant of rollbackCreatedNodes: the error is returned at once.
rollbackNothing(r) ==
    /\ req[r].pc = "rollback" /\ Goto(r, "failed")
    /\ UNCHANGED <<anchor, used, child, idem, answered, raced, begun, faults, crashes>>

\* rollbackCreatedNodes: deletes what this import created, ignoring errors. The
\* updates and deletions it made stay. 502.
rollbackCreatedNodes(r) ==
    /\ req[r].pc = "rollback"
    /\ \/ \E c \in req[r].created :
            /\ req' = [req EXCEPT ![r].created = @ \ {c}]
            /\ \/ child' = [child EXCEPT ![c] = None] /\ UNCHANGED faults
               \/ Fault /\ UNCHANGED child
       \/ /\ req[r].created = {} /\ Goto(r, "failed") /\ UNCHANGED <<child, faults>>
    /\ UNCHANGED <<anchor, used, idem, answered, raced, begun, crashes>>
-----------------------------------------------------------------------------
(* DELETE /nodes/{node_id}.                                                 *)

\* nodeOr404 and ListNodesBySource; when the children cannot be listed, they stay.
DeleteBegin(r, a) ==
    LET q == [Idle EXCEPT !.op = "delete", !.pc = "children", !.a = a] IN
    /\ a \in DOMAIN anchor
    /\ \/ /\ Enter(r, [q EXCEPT !.prev = {[id |-> c, row |-> child[c]] : c \in ChildrenOf(a)}])
          /\ UNCHANGED faults
       \/ Fault /\ Enter(r, q)
    /\ UNCHANGED <<anchor, used, child, idem, answered, crashes>>

\* Mutant of DeleteOrder: the anchor goes first.
DeleteOrderAnchorFirst(r) == TRUE

\* The anchor is deleted after its children.
DeleteOrder(r) == req[r].prev = {}

\* A child is deleted; an error is logged.
DeleteChild(r) ==
    /\ req[r].pc = "children"
    /\ \E p \in req[r].prev :
         /\ req' = [req EXCEPT ![r].prev = @ \ {p}]
         /\ \/ child' = [child EXCEPT ![p.id] = None] /\ UNCHANGED faults
            \/ Fault /\ UNCHANGED child
    /\ UNCHANGED <<anchor, used, idem, answered, raced, begun, crashes>>

\* Then the anchor: 204, or 500 when it is gone or cannot be deleted.
DeleteAnchor(r) ==
    /\ req[r].pc = "children" /\ DeleteOrder(r)
    /\ \/ /\ anchor' = [x \in DOMAIN anchor \ {req[r].a} |-> anchor[x]] /\ UNCHANGED faults
          /\ Goto(r, IF req[r].a \in DOMAIN anchor THEN "ok" ELSE "failed")
       \/ Fault /\ Goto(r, "failed") /\ UNCHANGED anchor
    /\ UNCHANGED <<used, child, idem, answered, raced, begun, crashes>>

\* The panel dies and is started again: requests and the idempotency store are lost.
Crash ==
    /\ crashes < MaxCrashes /\ crashes' = crashes + 1
    /\ req' = [r \in Requests |-> Idle] /\ idem' = None /\ answered' = FALSE
    /\ UNCHANGED <<anchor, used, child, raced, begun, faults>>

Next ==
    \/ \E r \in Requests :
         \/ PostBegin(r) \/ PostAnswer(r) \/ Respond(r)
         \/ \E raw \in RawDocs : Fetch(r, raw)
         \/ TakeFirst(r) \/ ListPrevious(r) \/ UpdateChild(r) \/ ChooseName(r)
         \/ RemoveChild(r) \/ rollbackCreatedNodes(r) \/ DeleteChild(r) \/ DeleteAnchor(r)
         \/ PostCreate(r) \/ CreateChild(r)
         \/ \E a \in Anchors : DeleteBegin(r, a)
         \/ \E a \in Anchors, take \in BOOLEAN : PatchBegin(r, a, take)
    \/ Expire \/ Crash

Spec == Init /\ [][Next]_vars
-----------------------------------------------------------------------------
(* Properties.                                                              *)

\* An import that reports success, and had the node table to itself, leaves exactly
\* the document behind: one child per proxy with its outbound and mode (the first
\* one on the anchor, if it was asked for), whatever earlier imports, failures,
\* crashes, duplicate names in the document and nodes of the same name have led to.
ImportMatchesDocument ==
    \A r \in Requests :
        LET q == req[r]
            rest == (IF q.take THEN 2 ELSE 1)..Len(q.doc)
        IN q.pc = "ok" /\ q.op # "delete" /\ ~q.shared /\ q.doc # <<>> =>
             /\ \E m \in [rest -> ChildrenOf(q.a)] :
                  /\ {m[i] : i \in rest} = ChildrenOf(q.a)
                  /\ Cardinality(ChildrenOf(q.a)) = Cardinality(rest)
                  /\ \A i \in rest : child[m[i]].val = q.doc[i].val
             /\ q.take => anchor[q.a] = q.doc[1].val[1]

\* A failed import leaves none of the nodes it created, even when it failed because of
\* another import or a deletion, as long as the store lets it clean up.
FailedLeavesNothingNew ==
    \A r \in Requests : req[r].pc = "failed" /\ faults = 0 => \A c \in req[r].mine : child[c] = None

\* "Deleting an anchor node also removes the child nodes": no child outlives its anchor,
\* also when the panel dies in the middle, unless the store failed or the deletion
\* overlapped with another request.
NoOrphans ==
    Busy = {} /\ faults = 0 /\ ~raced =>
        \A c \in Children : child[c] # None => child[c].src \in DOMAIN anchor

\* A POST that is sent again after its 201 creates nothing while the key is remembered.
RetryCreatesNothing ==
    \A r \in Requests : req[r].late => req[r].a = None

\* Every variable keeps its type.
TypeOK ==
    /\ DOMAIN anchor \subseteq Anchors /\ used \subseteq Anchors \cup Children
    /\ \A c \in Children : child[c] # None => c \in used /\ child[c].src \in Anchors
    /\ \A c, d \in Children : child[c] # None /\ child[d] # None /\ c # d => child[c].name # child[d].name
    /\ idem \in Anchors \cup {None} /\ answered \in BOOLEAN /\ raced \in BOOLEAN
    /\ \A r \in Requests :
         /\ req[r].pc \in {"idle", "create", "fetch", "take", "list", "proxy", "insert", "rollback",
                           "ok", "failed", "replayed", "children"}
         /\ req[r].a \in Anchors \cup {None} /\ req[r].created \subseteq used
==============================================================================
