--------------------------- MODULE SettingsProofs ----------------------------
(* Theorems about Settings: for any editors, columns and values.             *)
EXTENDS Settings, TLAPS

USE SettingsAssumption

IInv == TypeOK /\ RevisionNamesContent

\* Merging a patch into a row yields a row.
LEMMA MergeType ==
    ASSUME NEW c \in Contents, NEW p \in Patches
    PROVE Merge(c, p) \in Contents
<1>1. PICK S \in SUBSET Fields : p \in [S -> Values]
  BY DEF Patches
<1>2. \A f \in Fields : f \in DOMAIN p => p[f] \in Values
  BY <1>1
<1>3. \A f \in Fields : c[f] \in Values
  BY DEF Contents
<1>4. QED
  BY <1>2, <1>3 DEF Merge, Contents

\* The first row has revision 1 and no form is open.
LEMMA InitIInv == Init => IInv
<1> SUFFICES ASSUME Init PROVE IInv
  OBVIOUS
<1>1. TypeOK
  <2>1. val \in Contents /\ img \in Images /\ rev \in Nat
    BY DEF Init
  <2>2. ed = [e \in Editors |->
                 [pc |-> "away", seen |-> val, etag |-> 0, copy |-> val, read |-> 0]]
    BY DEF Init
  <2>3. [pc |-> "away", seen |-> val, etag |-> 0, copy |-> val, read |-> 0] \in EditorType
    BY <2>1 DEF EditorType
  <2>4. QED
    BY <2>1, <2>2, <2>3 DEF TypeOK
<1>2. RevisionNamesContent
  <2>1. ASSUME NEW e \in Editors
        PROVE ed[e].pc = "away" /\ ed[e].etag = 0 /\ ed[e].read = 0
    BY DEF Init
  <2>2. rev = 1
    BY DEF Init
  <2>3. ASSUME NEW e \in Editors
        PROVE ed[e].etag <= rev /\ ed[e].read <= rev
    BY <2>1, <2>2
  <2>4. ASSUME NEW e \in Editors
        PROVE ed[e].pc \notin {"form", "save"} /\ ed[e].pc # "save"
    BY <2>1
  <2>5. QED
    BY <2>3, <2>4 DEF RevisionNamesContent
<1>3. QED
  BY <1>1, <1>2 DEF IInv

\* GET puts the row on the screen together with its revision.
LEMMA GetSettingsIInv ==
    ASSUME IInv, NEW e \in Editors, GetSettings(e)
    PROVE IInv'
<1> USE DEF IInv
<1>1. TypeOK'
  <2>1. [ed[e] EXCEPT !.pc = "form", !.seen = val, !.etag = rev] \in EditorType
    BY DEF TypeOK, EditorType
  <2>2. ed' = [ed EXCEPT ![e] = [ed[e] EXCEPT !.pc = "form", !.seen = val, !.etag = rev]]
    BY DEF GetSettings, TypeOK
  <2>3. QED
    BY <2>1, <2>2 DEF GetSettings, TypeOK
<1>2. RevisionNamesContent'
  BY DEF GetSettings, TypeOK, EditorType, RevisionNamesContent
<1>3. QED
  BY <1>1, <1>2

\* The handler of a PATCH reads the row the form shows, or refuses.
LEMMA PatchReadIInv ==
    ASSUME IInv, NEW e \in Editors, PatchRead(e)
    PROVE IInv'
<1> USE DEF IInv
<1>1. TypeOK'
  BY DEF PatchRead, TypeOK, EditorType
<1>2. RevisionNamesContent'
  BY DEF PatchRead, TypeOK, EditorType, RevisionNamesContent
<1>3. QED
  BY <1>1, <1>2

\* A write makes the ETags of all other forms stale: they are at most the old revision.
LEMMA UpdateSettingsIInv ==
    ASSUME IInv, NEW e \in Editors, NEW p \in Patches, UpdateSettings(e, p)
    PROVE IInv'
<1> USE DEF IInv
<1>1. ed[e].copy \in Contents
  BY DEF TypeOK, EditorType
<1>2. Merge(ed[e].copy, p) \in Contents
  BY <1>1, MergeType
<1>3. TypeOK'
  BY <1>2 DEF UpdateSettings, TypeOK, EditorType
<1>4. RevisionNamesContent'
  BY DEF UpdateSettings, TypeOK, EditorType, RevisionNamesContent
<1>5. QED
  BY <1>3, <1>4

\* An upload counts the revision up, so that no ETag handed out before is current.
LEMMA UploadIInv ==
    ASSUME IInv, Upload
    PROVE IInv'
<1> USE DEF IInv
<1>1. TypeOK'
  BY DEF Upload, SaveImage, UpdateImage, TypeOK
<1>2. RevisionNamesContent'
  BY DEF Upload, SaveImage, UpdateImage, TypeOK, EditorType, RevisionNamesContent
<1>3. QED
  BY <1>1, <1>2

\* So do the images of the branding form.
LEMMA BrandingUploadIInv ==
    ASSUME IInv, NEW e \in Editors, BrandingUpload(e)
    PROVE IInv'
<1> USE DEF IInv
<1>1. TypeOK'
  BY DEF BrandingUpload, SaveImage, UpdateImage, TypeOK, EditorType
<1>2. RevisionNamesContent'
  BY DEF BrandingUpload, SaveImage, UpdateImage, TypeOK, EditorType, RevisionNamesContent
<1>3. QED
  BY <1>1, <1>2

\* IInv is inductive.
LEMMA StepIInv == IInv /\ [Next]_vars => IInv'
<1> SUFFICES ASSUME IInv, [Next]_vars PROVE IInv'
  OBVIOUS
<1>1. ASSUME NEW e \in Editors, GetSettings(e) PROVE IInv'
  BY <1>1, GetSettingsIInv
<1>2. ASSUME NEW e \in Editors, PatchRead(e) PROVE IInv'
  BY <1>2, PatchReadIInv
<1>3. ASSUME NEW e \in Editors, NEW p \in Patches, UpdateSettings(e, p) PROVE IInv'
  BY <1>3, UpdateSettingsIInv
<1>4. CASE Upload
  BY <1>4, UploadIInv
<1>5. ASSUME NEW e \in Editors, BrandingUpload(e) PROVE IInv'
  BY <1>5, BrandingUploadIInv
<1>6. CASE UNCHANGED vars
  BY <1>6 DEF vars, IInv, TypeOK, RevisionNamesContent
<1>7. QED
  BY <1>1, <1>2, <1>3, <1>4, <1>5, <1>6 DEF Next

\* Type correctness of the settings row and its editors.
THEOREM SettingsType == Spec => []TypeOK
<1>1. IInv => TypeOK
  BY DEF IInv
<1>2. QED
  BY <1>1, InitIInv, StepIInv, PTL DEF Spec

\* The ETag handleGetSettings hands out names one content for good, so the comparison in
\* handleUpdateSettings and the WHERE clause of UpdateSettings see every change in between.
THEOREM RevisionsName == Spec => []RevisionNamesContent
<1>1. IInv => RevisionNamesContent
  BY DEF IInv
<1>2. QED
  BY <1>1, InitIInv, StepIInv, PTL DEF Spec
-----------------------------------------------------------------------------
(* Refinement: each step is a step of AtomicSettings, or changes nothing there. *)

\* Initial states map to initial states.
LEMMA InitAtomic == Init => Atomic!Init
BY DEF Init, Atomic!Init, Screen

\* GET is a step of AtomicSettings.
LEMMA ShowAtomic ==
    ASSUME IInv, NEW e \in Editors, GetSettings(e)
    PROVE Atomic!Show(e)
<1>1. Screen' = [Screen EXCEPT ![e] = val]
  BY DEF GetSettings, Screen, IInv, TypeOK, EditorType
<1>2. QED
  BY <1>1 DEF Atomic!Show, GetSettings

\* The read of a PATCH refuses it, or changes nothing there.
LEMMA ReadAtomic ==
    ASSUME IInv, NEW e \in Editors, PatchRead(e)
    PROVE Atomic!Refuse(e) \/ UNCHANGED Atomic!vars
<1>1. CASE ed' = [ed EXCEPT ![e].pc = "save", ![e].copy = val, ![e].read = rev]
  <2>1. Screen' = Screen
    BY <1>1 DEF PatchRead, Screen, IInv, TypeOK, EditorType
  <2>2. QED
    BY <2>1 DEF Atomic!vars, PatchRead
<1>2. CASE ed' = [ed EXCEPT ![e].pc = "away"]
  <2>1. Screen' = [Screen EXCEPT ![e] = None]
    BY <1>2 DEF Screen, IInv, TypeOK, EditorType
  <2>2. QED
    BY <2>1 DEF Atomic!Refuse, PatchRead
<1>3. QED
  BY <1>1, <1>2 DEF PatchRead

\* The write of a PATCH is the abstract edit: the revision has not moved since the
\* editor's GET, so the editor is looking at the current settings.
LEMMA WriteAtomic ==
    ASSUME IInv, NEW e \in Editors, NEW p \in Patches, UpdateSettings(e, p)
    PROVE Atomic!Save(e) \/ Atomic!Refuse(e)
<1>1. Screen' = [Screen EXCEPT ![e] = None]
  BY DEF UpdateSettings, Screen, IInv, TypeOK, EditorType
<1>2. CASE Unchanged(e) /\ val' = Merge(ed[e].copy, p)
  <2>1. ed[e].copy = val /\ ed[e].seen = val
    BY <1>2 DEF UpdateSettings, Unchanged, IInv, RevisionNamesContent
  <2>2. Screen[e] = val
    BY <2>1 DEF Screen, UpdateSettings
  <2>3. val' \in Edits(Screen[e])
    BY <1>2, <2>1, <2>2 DEF Edits
  <2>4. QED
    BY <1>1, <2>2, <2>3 DEF Atomic!Save, UpdateSettings
<1>3. CASE UNCHANGED <<val, rev>>
  BY <1>1, <1>3 DEF Atomic!Refuse, UpdateSettings
<1>4. QED
  BY <1>2, <1>3 DEF UpdateSettings

\* An upload is one step there.
LEMMA UploadAtomic == Upload => Atomic!Upload
BY DEF Upload, SaveImage, Atomic!Upload, Screen

\* The editor of a branding form has no row on the screen while its images are sent.
LEMMA BrandingAtomic ==
    ASSUME IInv, NEW e \in Editors, BrandingUpload(e)
    PROVE Atomic!Upload \/ UNCHANGED Atomic!vars
<1>1. Screen' = Screen
  BY DEF BrandingUpload, Screen, IInv, TypeOK, EditorType
<1>2. QED
  BY <1>1 DEF BrandingUpload, SaveImage, Atomic!Upload, Atomic!vars

\* Every step is a step of AtomicSettings, or changes nothing there.
LEMMA StepAtomic == IInv /\ [Next]_vars => [Atomic!Next]_(Atomic!vars)
<1> SUFFICES ASSUME IInv, [Next]_vars PROVE [Atomic!Next]_(Atomic!vars)
  OBVIOUS
<1>1. ASSUME NEW e \in Editors, GetSettings(e) PROVE [Atomic!Next]_(Atomic!vars)
  BY <1>1, ShowAtomic DEF Atomic!Next
<1>2. ASSUME NEW e \in Editors, PatchRead(e) PROVE [Atomic!Next]_(Atomic!vars)
  BY <1>2, ReadAtomic DEF Atomic!Next
<1>3. ASSUME NEW e \in Editors, NEW p \in Patches, UpdateSettings(e, p)
      PROVE [Atomic!Next]_(Atomic!vars)
  BY <1>3, WriteAtomic DEF Atomic!Next
<1>4. CASE Upload
  BY <1>4, UploadAtomic DEF Atomic!Next
<1>5. ASSUME NEW e \in Editors, BrandingUpload(e) PROVE [Atomic!Next]_(Atomic!vars)
  BY <1>5, BrandingAtomic DEF Atomic!Next
<1>6. CASE UNCHANGED vars
  BY <1>6 DEF vars, Atomic!vars, Screen
<1>7. QED
  BY <1>1, <1>2, <1>3, <1>4, <1>5, <1>6 DEF Next

\* No lost update: the two transactions of handleUpdateSettings implement the one atomic
\* step of AtomicSettings, for any number of editors and uploads.
THEOREM SettingsAreAtomic == Spec => ImplementsAtomic
<1>1. Spec => []IInv
  BY InitIInv, StepIInv, PTL DEF Spec
<1>2. QED
  BY <1>1, InitAtomic, StepAtomic, PTL DEF Spec, ImplementsAtomic, Atomic!Spec
==============================================================================
