------------------------------ MODULE Settings -------------------------------
(***************************************************************************)
(* The settings row: GET and PATCH /settings, the settings and branding forms, *)
(* and the uploads of logo and favicon.                                       *)
(*                                                                          *)
(* The handler of a PATCH reads the row in one transaction and writes it in     *)
(* another, whose WHERE clause names the revision it read. Uploads write        *)
(* their column at any time, and count the revision up as well.               *)
(***************************************************************************)
EXTENDS Naturals

CONSTANTS
    Editors,        \* browser tabs and API clients
    Fields, Values, \* columns of the row, images aside, and their values
    Patchable,      \* the columns handleUpdateSettings knows: the icmp_* ones are not among them
    Images,
    None,
    MaxRevision     \* bound: revision

ASSUME SettingsAssumption ==
    /\ Patchable \subseteq Fields
    /\ Values # {} /\ Images # {} /\ MaxRevision \in Nat
    /\ None \notin [Fields -> Values]

VARIABLES
    val, img, rev,  \* the row
    ed              \* editors and the handler of their PATCH

vars == <<val, img, rev, ed>>

Contents == [Fields -> Values]

\* The body of a PATCH: values for some columns (the form sends all of them).
Patches == UNION {[S -> Values] : S \in SUBSET Fields}

\* The columns handleUpdateSettings takes from the patch; the others, and unknown
\* names in the patch, are left as they are.
Merge(copy, p) == [f \in Fields |-> IF f \in Patchable \cap DOMAIN p THEN p[f] ELSE copy[f]]

Edits(c) == {Merge(c, p) : p \in Patches}

\* GetSettings inserts the defaults at first use, revision 1.
Init ==
    /\ val \in Contents /\ img \in Images /\ rev = 1
    /\ ed = [e \in Editors |-> [pc |-> "away", seen |-> val, etag |-> 0, copy |-> val, read |-> 0]]

\* GET /settings: pageSettings, and buildSettings after every save and every refusal.
GetSettings(e) ==
    /\ ed[e].pc \in {"away", "form"}
    /\ ed' = [ed EXCEPT ![e].pc = "form", ![e].seen = val, ![e].etag = rev]
    /\ UNCHANGED <<val, img, rev>>

\* handleUpdateSettings reads the row and compares its ETag with If-Match; 412, 422
\* or 428 ends it here.
PatchRead(e) ==
    /\ ed[e].pc = "form"
    /\ \/ /\ ed[e].etag = rev
          /\ ed' = [ed EXCEPT ![e].pc = "save", ![e].copy = val, ![e].read = rev]
       \/ ed' = [ed EXCEPT ![e].pc = "away"]
    /\ UNCHANGED <<val, img, rev>>

\* Mutant of Unchanged: the WHERE clause names the row only.
UnchangedIgnored(e) == TRUE

\* UPDATE settings ... WHERE id = 1 AND revision = ?
Unchanged(e) == ed[e].read = rev

\* UpdateSettings writes every column (images aside) of the merged row; the branding form
\* has its images still to come. Or it reports a conflict (412) or another error (422, 500).
UpdateSettings(e, p) ==
    /\ ed[e].pc = "save"
    /\ \/ /\ Unchanged(e) /\ rev < MaxRevision
          /\ val' = Merge(ed[e].copy, p) /\ rev' = rev + 1
          /\ \/ ed' = [ed EXCEPT ![e].pc = "away"]
             \/ ed' = [ed EXCEPT ![e].pc = "favicon"]
       \/ ed' = [ed EXCEPT ![e].pc = "away"] /\ UNCHANGED <<val, rev>>
    /\ UNCHANGED img

\* Mutant of UpdateImage: the revision starts over.
UpdateImageOnly == rev' = 1

\* revision = revision + 1
UpdateImage == rev' = rev + 1

\* UpdateSettingsLogo and UpdateSettingsFavicon: POST /settings/logo and /favicon.
SaveImage == rev < MaxRevision /\ img' \in Images /\ UpdateImage

\* An upload by an API client or one of the two upload forms.
Upload == SaveImage /\ UNCHANGED <<val, ed>>

\* The rest of handleBrandingSave, after its PATCH: the favicon, then the logo, each in a request
\* of its own, if it was chosen and is not too large; the result is not looked at.
BrandingUpload(e) ==
    /\ \/ ed[e].pc = "favicon" /\ ed' = [ed EXCEPT ![e].pc = "logo"]
       \/ ed[e].pc = "logo" /\ ed' = [ed EXCEPT ![e].pc = "away"]
    /\ SaveImage \/ UNCHANGED <<img, rev>>
    /\ UNCHANGED val

Next ==
    \/ \E e \in Editors : GetSettings(e) \/ PatchRead(e) \/ BrandingUpload(e)
    \/ \E e \in Editors, p \in Patches : UpdateSettings(e, p)
    \/ Upload

Spec == Init /\ [][Next]_vars
-----------------------------------------------------------------------------
(* Properties.                                                              *)

EditorType == [pc : {"away", "form", "save", "favicon", "logo"}, seen : Contents, etag : Nat, copy : Contents, read : Nat]

\* Every variable keeps its type.
TypeOK == val \in Contents /\ img \in Images /\ rev \in Nat /\ ed \in [Editors -> EditorType]

\* A form whose ETag is still the current one shows the current settings, and so
\* does the copy of a handler that is about to write: a revision never stands for two contents.
RevisionNamesContent ==
    \A e \in Editors :
        /\ ed[e].etag <= rev /\ ed[e].read <= rev
        /\ ed[e].pc \in {"form", "save"} /\ ed[e].etag = rev => ed[e].seen = val
        /\ ed[e].pc = "save" => ed[e].read = ed[e].etag /\ ed[e].copy = ed[e].seen

\* A row is on the screen of an editor until its PATCH is answered.
Screen == [e \in Editors |-> IF ed[e].pc \in {"form", "save"} THEN ed[e].seen ELSE None]

Atomic == INSTANCE AtomicSettings WITH screen <- Screen

\* No lost update: whatever the editors and uploads in between do, every PATCH
\* behaves like one step applied to exactly the settings its editor saw, or is refused.
ImplementsAtomic == Atomic!Spec
==============================================================================
