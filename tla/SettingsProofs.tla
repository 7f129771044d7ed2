--------------------------- MODULE SettingsProofs ---------------------------
(* Proofs about SettingsStore, for every set of requests, fields, values,  *)
(* bodies and initial files.                                               *)
EXTENDS SettingsStore, TLAPS

-----------------------------------------------------------------------------
(* The inductive invariant.                                                *)

Inside == {"merge", "apply", "save", "swap"}

\* st.mu is held by the one request inside merge.
LockIsHeld == \A p \in Puts : put[p] \in Inside <=> lock = p

\* The local copy is the live settings with the body's fields on top: nobody
\* changes the live ones while the lock is held.
MergedIsCurrent ==
  \A p \in Puts : put[p] \in {"apply", "save", "swap"} =>
    \A f \in Plain :
      merged[p][f] = IF body[p].set[f] = Absent THEN live[f] ELSE body[p].set[f]

\* What is about to be saved was validated, cells included.
SavedIsValid ==
  \A p \in Puts : put[p] = "save" => valid(deref(merged[p], heap))

\* Between the save and the swap the file is ahead of the live settings.
FileIsAhead ==
  \A p \in Puts : put[p] = "swap" =>
    /\ file \in Settings /\ Loadable(file)
    /\ \A f \in Plain :
         /\ file[f] = merged[p][f]
         /\ body[p].set[f] # Absent => lastSet[f] # Nil

FileIsCurrent ==
  (\A p \in Puts : put[p] # "swap") => \A f \in Plain : live[f] = Loaded(file)[f]

SavedIsLoadable ==
  \A f \in Fields : lastSet[f] # Nil => file \in Settings /\ Loadable(file)

IInv ==
  /\ TypeOK
  /\ LockIsHeld
  /\ MergedIsCurrent
  /\ SavedIsValid
  /\ FileIsAhead
  /\ FileIsCurrent
  /\ SavedIsLoadable
  /\ NoLostUpdate
  /\ FileStaysLoadable

-----------------------------------------------------------------------------
(* The operators on settings.                                              *)

\* Following the addresses of a struct gives settings written out.
LEMMA DerefType ==
  ASSUME NEW s \in Structs, NEW h \in [Cells -> Values]
  PROVE  deref(s, h) \in Settings
  BY SettingsAssumption DEF deref, Structs, Settings, Fields

\* A plain field is what the struct says.
LEMMA DerefPlain ==
  ASSUME NEW s, NEW h, NEW f \in Plain
  PROVE  deref(s, h)[f] = s[f]
  BY SettingsAssumption DEF deref, Fields

\* Settings written out are not a missing or broken file.
LEMMA SettingsAreNoMarkers ==
  ASSUME NEW s \in Settings
  PROVE  s \in Documents /\ s \notin {NoFile, Corrupt}
  BY SettingsAssumption DEF Settings, Documents

\* A complete file is loaded as it stands.
LEMMA CompleteIsLoaded ==
  ASSUME NEW s \in Settings
  PROVE  /\ Unmarshaled(s) = s
         /\ Loadable(s) <=> valid(s)
         /\ Loadable(s) => Loaded(s) = s
<1>1. s \in [Fields -> Values \cup {Nil}] /\ \A f \in Fields : s[f] # Absent
  BY SettingsAssumption DEF Settings
<1>2. Unmarshaled(s) = s
  BY <1>1 DEF Unmarshaled
<1> QED
  BY <1>2, SettingsAreNoMarkers DEF Loadable, Loaded

\* What a start takes from the file is a full settings value.
LEMMA LoadedType ==
  ASSUME NEW contents \in Documents \cup {NoFile, Corrupt}
  PROVE  Loaded(contents) \in Settings
<1>1. defaultSettings \in Settings
  BY SettingsAssumption DEF defaultSettings, Settings, Fields
<1>2. ASSUME contents \in Documents PROVE Unmarshaled(contents) \in Settings
  BY <1>2, SettingsAssumption DEF Unmarshaled, Documents, Settings, Fields
<1> QED
  BY <1>1, <1>2 DEF Loaded, Loadable

\* A start builds well-typed settings from any file, with its plain fields.
LEMMA LoadedStructType ==
  ASSUME NEW contents \in Documents \cup {NoFile, Corrupt}
  PROVE  /\ LoadedStruct(contents) \in Structs
         /\ LoadedHeap(contents) \in [Cells -> Values]
         /\ \A f \in Plain : LoadedStruct(contents)[f] = Loaded(contents)[f]
<1> DEFINE l == Loaded(contents)
<1>1. l \in [Fields -> Values \cup {Nil}] /\ \A f \in Plain : l[f] # Nil
  BY LoadedType DEF Settings
<1> HIDE DEF l
<1>2. LoadedStruct(contents) = [f \in Fields |-> IF f \in Pointers /\ l[f] # Nil
                                                 THEN <<Nil, f>> ELSE l[f]]
  BY DEF LoadedStruct, l
<1>3. LoadedStruct(contents) \in Structs
  BY <1>1, <1>2, SettingsAssumption DEF Structs, Fields, Cells
<1>4. LoadedHeap(contents) = [a \in Cells |-> IF a[1] = Nil /\ l[a[2]] # Nil
                                              THEN l[a[2]] ELSE Default]
  BY DEF LoadedHeap, l
<1>5. \A a \in Cells : a[2] \in Fields
  BY DEF Cells, Fields
<1>6. LoadedHeap(contents) \in [Cells -> Values]
  BY <1>1, <1>4, <1>5, SettingsAssumption
<1>7. \A f \in Plain : LoadedStruct(contents)[f] = l[f]
  BY <1>2, SettingsAssumption DEF Fields
<1> QED
  BY <1>3, <1>6, <1>7 DEF l

\* Unmarshalling a body onto a struct gives a well-typed struct and heap,
\* with the plain fields the body names replaced.
LEMMA UnmarshalType ==
  ASSUME TypeOK, NEW p \in Puts, NEW b \in Bodies, NEW s \in Structs
  PROVE  /\ UnmarshalStruct(s, b, p) \in Structs
         /\ UnmarshalHeap(s, b, p) \in [Cells -> Values]
         /\ \A f \in Plain : UnmarshalStruct(s, b, p)[f]
                               = IF b.set[f] = Absent THEN s[f] ELSE b.set[f]
<1>1. /\ b.set \in [Fields -> Values \cup {Nil, Absent}]
      /\ \A f \in Plain : b.set[f] # Nil
  BY SettingsAssumption
<1>2. s \in [Fields -> Values \cup Cells \cup {Nil}]
  BY DEF Structs
<1>3. ASSUME NEW f \in Pointers PROVE <<p, f>> \in Cells
  BY DEF Cells
<1>4. UnmarshalStruct(s, b, p) \in Structs
  BY <1>1, <1>2, <1>3, SettingsAssumption DEF UnmarshalStruct, Structs, Fields
<1>5. \A a \in Cells : a[2] \in Fields
  BY DEF Cells, Fields
<1>6. UnmarshalHeap(s, b, p) \in [Cells -> Values]
  BY <1>1, <1>5 DEF UnmarshalHeap, TypeOK, Fields
<1>7. \A f \in Plain : UnmarshalStruct(s, b, p)[f]
                         = IF b.set[f] = Absent THEN s[f] ELSE b.set[f]
  BY <1>1, SettingsAssumption DEF UnmarshalStruct, Fields
<1> QED
  BY <1>4, <1>6, <1>7

-----------------------------------------------------------------------------
(* The invariant holds at a start and is kept by every action.             *)

\* The mutex excludes: while one request is inside, no other is.
LEMMA OneInside ==
  ASSUME LockIsHeld, NEW p \in Puts, NEW q \in Puts, p # q, put[p] \in Inside
  PROVE  put[q] \notin Inside
  BY DEF LockIsHeld

\* loadSettings establishes the invariant, whatever file it finds.
LEMMA InitInvariant == Init => IInv
<1> SUFFICES ASSUME Init PROVE IInv
  OBVIOUS
<1>1. file \in Documents \cup {NoFile, Corrupt}
  BY SettingsAssumption DEF Init
<1>2. /\ live \in Structs
      /\ heap \in [Cells -> Values]
      /\ \A f \in Plain : live[f] = Loaded(file)[f]
  BY <1>1, LoadedStructType DEF Init
<1>3. TypeOK
  BY <1>1, <1>2, SettingsAssumption DEF TypeOK, Init, PutStates
<1>4. LockIsHeld /\ MergedIsCurrent /\ SavedIsValid /\ FileIsAhead
  BY SettingsAssumption
  DEF Init, LockIsHeld, Inside, MergedIsCurrent, SavedIsValid, FileIsAhead
<1>5. FileIsCurrent
  BY <1>2 DEF FileIsCurrent
<1>6. SavedIsLoadable /\ NoLostUpdate
  BY SettingsAssumption DEF Init, SavedIsLoadable, NoLostUpdate, Fields
<1>7. FileStaysLoadable
  BY DEF Init, FileStaysLoadable
<1> QED
  BY <1>3, <1>4, <1>5, <1>6, <1>7 DEF IInv

\* A request that arrives, or is gated, is outside the mutex before and after.
LEMMA OutsideInvariant ==
  ASSUME IInv, NEW p \in Puts, Arrive(p) \/ ReadFails(p) \/ Gate(p)
  PROVE  IInv'
<1>1. PICK next \in {"gate", "rejected", "lock"} :
        /\ put[p] \in {"new", "gate"}
        /\ put' = [put EXCEPT ![p] = next]
        /\ UNCHANGED <<live, heap, file, lock, body, merged, version, restarts, lastSet>>
  BY DEF Arrive, ReadFails, Gate
<1>2. \A q \in Puts : put'[q] = IF q = p THEN next ELSE put[q]
  BY <1>1 DEF IInv, TypeOK
<1>3. TypeOK'
  BY <1>1 DEF IInv, TypeOK, PutStates
<1>4. LockIsHeld'
  BY <1>1, <1>2 DEF IInv, LockIsHeld, Inside
<1>5. MergedIsCurrent' /\ SavedIsValid' /\ FileIsAhead'
  BY <1>1, <1>2 DEF IInv, MergedIsCurrent, SavedIsValid, FileIsAhead
<1>6. FileIsCurrent'
  BY <1>1, <1>2 DEF IInv, FileIsCurrent
<1>7. SavedIsLoadable' /\ NoLostUpdate' /\ FileStaysLoadable'
  BY <1>1, <1>2 DEF IInv, SavedIsLoadable, NoLostUpdate, FileStaysLoadable
<1> QED
  BY <1>3, <1>4, <1>5, <1>6, <1>7 DEF IInv

\* The mutex is taken only when nobody is inside.
LEMMA LockInvariant ==
  ASSUME IInv, NEW p \in Puts, Lock(p)
  PROVE  IInv'
<1>1. \A q \in Puts : put'[q] = IF q = p THEN "merge" ELSE put[q]
  BY DEF Lock, IInv, TypeOK
<1>2. TypeOK'
  BY DEF Lock, IInv, TypeOK, PutStates
<1>3. LockIsHeld'
  BY <1>1, SettingsAssumption DEF Lock, IInv, LockIsHeld, Inside
<1>4. MergedIsCurrent' /\ SavedIsValid' /\ FileIsAhead'
  BY <1>1 DEF Lock, IInv, MergedIsCurrent, SavedIsValid, FileIsAhead
<1>5. FileIsCurrent'
  BY <1>1 DEF Lock, IInv, FileIsCurrent
<1>6. SavedIsLoadable' /\ NoLostUpdate' /\ FileStaysLoadable'
  BY <1>1 DEF Lock, IInv, SavedIsLoadable, NoLostUpdate, FileStaysLoadable
<1> QED
  BY <1>2, <1>3, <1>4, <1>5, <1>6 DEF IInv

\* An error return inside the mutex leaves the file, the live settings and
\* what was saved alone, and unlocks; it may leave the cells changed.
LEMMA RejectInvariant ==
  ASSUME IInv, NEW p \in Puts, put[p] \in {"merge", "apply", "save"}, Reject(p),
         heap' \in [Cells -> Values], merged' \in [Puts -> Structs],
         UNCHANGED <<live, file, body, version, restarts, lastSet>>
  PROVE  IInv'
<1>1. \A q \in Puts : put'[q] = IF q = p THEN "rejected" ELSE put[q]
  BY DEF Reject, IInv, TypeOK
<1>2. \A q \in Puts : put'[q] \notin Inside
  BY <1>1, OneInside DEF IInv, Inside
<1>3. TypeOK'
  BY DEF Reject, IInv, TypeOK, PutStates
<1>4. LockIsHeld'
  BY <1>2, SettingsAssumption DEF Reject, LockIsHeld
<1>5. MergedIsCurrent' /\ SavedIsValid' /\ FileIsAhead'
  BY <1>2 DEF Inside, MergedIsCurrent, SavedIsValid, FileIsAhead
<1>6. \A q \in Puts : put[q] # "swap"
  BY OneInside DEF IInv, Inside
<1>7. FileIsCurrent'
  BY <1>6 DEF IInv, FileIsCurrent
<1>8. SavedIsLoadable' /\ NoLostUpdate' /\ FileStaysLoadable'
  BY <1>1 DEF IInv, SavedIsLoadable, NoLostUpdate, FileStaysLoadable
<1> QED
  BY <1>3, <1>4, <1>5, <1>7, <1>8 DEF IInv

\* merge's unmarshal: the local copy is the live settings plus the body.
LEMMA MergeInvariant ==
  ASSUME IInv, NEW p \in Puts, Merge(p)
  PROVE  IInv'
<1>1. body[p] \in Bodies /\ live \in Structs
  BY DEF IInv, TypeOK
<1>2. heap' \in [Cells -> Values] /\ merged' \in [Puts -> Structs]
  <2>1. CASE body[p].form = "malformed"
    BY <2>1 DEF Merge, IInv, TypeOK
  <2>2. CASE body[p].form # "malformed"
    <3>1. TypeOK
      BY DEF IInv
    <3>2. /\ UnmarshalStruct(live, body[p], p) \in Structs
          /\ UnmarshalHeap(live, body[p], p) \in [Cells -> Values]
      BY <1>1, <3>1, UnmarshalType
    <3> QED
      BY <2>2, <3>1, <3>2 DEF Merge, TypeOK
  <2> QED
    BY <2>1, <2>2
<1>3. CASE body[p].form # "json"
  BY <1>2, <1>3, RejectInvariant DEF Merge
<1>4. CASE body[p].form = "json"
  <2>1. /\ put[p] = "merge"
        /\ put' = [put EXCEPT ![p] = "apply"]
        /\ merged' = [merged EXCEPT ![p] = UnmarshalStruct(live, body[p], p)]
        /\ UNCHANGED <<live, file, lock, body, version, restarts, lastSet>>
    BY <1>4 DEF Merge
  <2>2. \A q \in Puts : put'[q] = IF q = p THEN "apply" ELSE put[q]
    BY <2>1 DEF IInv, TypeOK
  <2>3. \A q \in Puts \ {p} : put[q] \notin Inside
    BY <2>1, OneInside DEF IInv, Inside
  <2>4. TypeOK'
    BY <1>2, <2>1 DEF IInv, TypeOK, PutStates
  <2>5. LockIsHeld'
    BY <2>1, <2>2 DEF IInv, LockIsHeld, Inside
  <2>6. \A f \in Plain :
          merged'[p][f] = IF body[p].set[f] = Absent THEN live[f] ELSE body[p].set[f]
    BY <1>1, <2>1, UnmarshalType DEF IInv, TypeOK
  <2>7. MergedIsCurrent'
    BY <2>1, <2>2, <2>3, <2>6 DEF MergedIsCurrent, Inside
  <2>8. SavedIsValid' /\ FileIsAhead'
    BY <2>2, <2>3 DEF SavedIsValid, FileIsAhead, Inside
  <2>9. FileIsCurrent'
    BY <2>1, <2>2, <2>3 DEF IInv, FileIsCurrent, Inside
  <2>10. SavedIsLoadable' /\ NoLostUpdate' /\ FileStaysLoadable'
    BY <2>1, <2>2 DEF IInv, SavedIsLoadable, NoLostUpdate, FileStaysLoadable
  <2> QED
    BY <2>4, <2>5, <2>7, <2>8, <2>9, <2>10 DEF IInv
<1> QED
  BY <1>3, <1>4

\* applyLocked saves only what validate passed.
LEMMA ValidateInvariant ==
  ASSUME IInv, NEW p \in Puts, Validate(p)
  PROVE  IInv'
<1>1. CASE ~valid(deref(merged[p], heap))
  BY <1>1, RejectInvariant DEF Validate, IInv, TypeOK
<1>2. CASE valid(deref(merged[p], heap))
  <2>1. /\ put[p] = "apply"
        /\ put' = [put EXCEPT ![p] = "save"]
        /\ UNCHANGED <<live, heap, file, lock, body, merged, version, restarts, lastSet>>
    BY <1>2 DEF Validate
  <2>2. \A q \in Puts : put'[q] = IF q = p THEN "save" ELSE put[q]
    BY <2>1 DEF IInv, TypeOK
  <2>3. TypeOK'
    BY <2>1 DEF IInv, TypeOK, PutStates
  <2>4. LockIsHeld'
    BY <2>1, <2>2 DEF IInv, LockIsHeld, Inside
  <2>5. MergedIsCurrent' /\ FileIsAhead'
    BY <2>1, <2>2 DEF IInv, MergedIsCurrent, FileIsAhead
  <2>6. SavedIsValid'
    BY <1>2, <2>1, <2>2 DEF IInv, SavedIsValid
  <2>7. FileIsCurrent'
    BY <2>1, <2>2 DEF IInv, FileIsCurrent
  <2>8. SavedIsLoadable' /\ NoLostUpdate' /\ FileStaysLoadable'
    BY <2>1, <2>2 DEF IInv, SavedIsLoadable, NoLostUpdate, FileStaysLoadable
  <2> QED
    BY <2>3, <2>4, <2>5, <2>6, <2>7, <2>8 DEF IInv
<1> QED
  BY <1>1, <1>2

\* save writes the merged settings: the fields of the body and, for the
\* others, what the file already said if an earlier update put it there.
LEMMA SaveInvariant ==
  ASSUME IInv, NEW p \in Puts, Save(p)
  PROVE  IInv'
<1>1. \A q \in Puts : put'[q] = IF q = p THEN "swap" ELSE put[q]
  BY DEF Save, IInv, TypeOK
<1>2. \A q \in Puts \ {p} : put[q] \notin Inside
  BY OneInside DEF Save, IInv, Inside
<1>3. file' \in Settings /\ Loadable(file')
  <2>1. file' \in Settings
    BY DerefType DEF Save, IInv, TypeOK
  <2>2. valid(file')
    BY DEF Save, IInv, SavedIsValid
  <2> QED
    BY <2>1, <2>2, CompleteIsLoaded
<1>4. \A f \in Plain :
        file'[f] = IF body[p].set[f] = Absent THEN live[f] ELSE body[p].set[f]
  BY DerefPlain DEF Save, IInv, MergedIsCurrent
<1>5. \A f \in Fields :
        lastSet'[f] = IF body[p].set[f] # Absent THEN p ELSE lastSet[f]
  BY DEF Save
<1>6. TypeOK'
  BY <1>3, SettingsAreNoMarkers DEF Save, IInv, TypeOK, PutStates
<1>7. LockIsHeld'
  BY <1>1 DEF Save, IInv, LockIsHeld, Inside
<1>8. MergedIsCurrent'
  BY <1>1 DEF Save, IInv, MergedIsCurrent
<1>9. SavedIsValid'
  BY <1>1, <1>2 DEF SavedIsValid, Inside
<1>10. FileIsAhead'
  <2>1. \A f \in Plain : file'[f] = merged[p][f]
    BY DerefPlain DEF Save
  <2>2. \A f \in Plain : body[p].set[f] # Absent => lastSet'[f] # Nil
    BY <1>5, SettingsAssumption DEF Fields
  <2> QED
    BY <1>1, <1>2, <1>3, <2>1, <2>2 DEF Save, FileIsAhead, Inside
<1>11. FileIsCurrent'
  BY <1>1 DEF FileIsCurrent
<1>12. SavedIsLoadable'
  BY <1>3 DEF SavedIsLoadable
<1>13. NoLostUpdate'
  <2> SUFFICES ASSUME NEW f \in Plain
               PROVE  /\ lastSet'[f] # Nil => file'[f] = body'[lastSet'[f]].set[f]
                      /\ \A q \in Puts :
                           put'[q] = "ok" /\ body'[q].set[f] # Absent => lastSet'[f] # Nil
    BY DEF NoLostUpdate
  <2>1. body' = body /\ f \in Fields
    BY DEF Save, Fields
  <2>2. lastSet'[f] # Nil => file'[f] = body[lastSet'[f]].set[f]
    <3>1. CASE body[p].set[f] # Absent
      BY <1>4, <1>5, <2>1, <3>1
    <3>2. CASE body[p].set[f] = Absent /\ lastSet[f] # Nil
      <4>1. live[f] = file[f]
        BY <1>2, <2>1, <3>2, CompleteIsLoaded
        DEF Save, IInv, SavedIsLoadable, FileIsCurrent, Inside
      <4> QED
        BY <1>4, <1>5, <2>1, <3>2, <4>1 DEF IInv, NoLostUpdate
    <3> QED
      BY <1>5, <2>1, <3>1, <3>2
  <2>3. ASSUME NEW q \in Puts, put'[q] = "ok", body[q].set[f] # Absent
        PROVE  lastSet'[f] # Nil
    BY <1>1, <1>5, <2>1, <2>3, SettingsAssumption DEF IInv, NoLostUpdate
  <2> QED
    BY <2>1, <2>2, <2>3
<1>14. FileStaysLoadable'
  BY <1>3 DEF FileStaysLoadable
<1> QED
  BY <1>6, <1>7, <1>8, <1>9, <1>10, <1>11, <1>12, <1>13, <1>14 DEF IInv

\* The swap makes memory what the file already says.
LEMMA SwapInvariant ==
  ASSUME IInv, NEW p \in Puts, Swap(p)
  PROVE  IInv'
<1>1. \A q \in Puts : put'[q] = IF q = p THEN "ok" ELSE put[q]
  BY DEF Swap, IInv, TypeOK
<1>2. \A q \in Puts : put'[q] \notin Inside
  BY <1>1, OneInside DEF Swap, IInv, Inside
<1>3. TypeOK'
  BY DEF Swap, IInv, TypeOK, PutStates
<1>4. LockIsHeld'
  BY <1>2, SettingsAssumption DEF Swap, LockIsHeld
<1>5. MergedIsCurrent' /\ SavedIsValid' /\ FileIsAhead'
  BY <1>2 DEF Inside, MergedIsCurrent, SavedIsValid, FileIsAhead
<1>6. FileIsCurrent'
  BY CompleteIsLoaded DEF Swap, IInv, FileIsAhead, FileIsCurrent
<1>7. NoLostUpdate'
  BY <1>1 DEF Swap, IInv, FileIsAhead, NoLostUpdate
<1>8. SavedIsLoadable' /\ FileStaysLoadable'
  BY DEF Swap, IInv, SavedIsLoadable, FileStaysLoadable
<1> QED
  BY <1>3, <1>4, <1>5, <1>6, <1>7, <1>8 DEF IInv

\* A start after a crash at any point finds what was saved last.
LEMMA RestartInvariant ==
  ASSUME IInv, Restart
  PROVE  IInv'
<1>1. \A q \in Puts : put'[q] = IF put[q] \in {"new", "ok", "rejected"} THEN put[q] ELSE "lost"
  BY DEF Restart
<1>2. \A q \in Puts : put'[q] \notin Inside
  BY <1>1 DEF Inside
<1>3. /\ live' \in Structs
      /\ heap' \in [Cells -> Values]
      /\ \A f \in Plain : live'[f] = Loaded(file)[f]
  BY LoadedStructType DEF Restart, IInv, TypeOK
<1>4. TypeOK'
  BY <1>1, <1>3, SettingsAssumption DEF Restart, IInv, TypeOK, PutStates
<1>5. LockIsHeld'
  BY <1>2, SettingsAssumption DEF Restart, LockIsHeld
<1>6. MergedIsCurrent' /\ SavedIsValid' /\ FileIsAhead'
  BY <1>2 DEF Inside, MergedIsCurrent, SavedIsValid, FileIsAhead
<1>7. FileIsCurrent'
  BY <1>3 DEF Restart, FileIsCurrent
<1>8. NoLostUpdate' /\ SavedIsLoadable' /\ FileStaysLoadable'
  BY <1>1 DEF Restart, IInv, NoLostUpdate, SavedIsLoadable, FileStaysLoadable
<1> QED
  BY <1>4, <1>5, <1>6, <1>7, <1>8 DEF IInv

\* A version report, and a step that changes nothing, leave all of it alone.
LEMMA AsideInvariant ==
  ASSUME IInv, UNCHANGED vars \/ \E v \in Versions : recordHeadroomVersion(v)
  PROVE  IInv'
<1>1. /\ UNCHANGED <<live, heap, file, lock, put, body, merged, restarts, lastSet>>
      /\ version' \in Versions \cup {Unknown}
  BY DEF vars, recordHeadroomVersion, IInv, TypeOK
<1>2. TypeOK'
  BY <1>1 DEF IInv, TypeOK
<1>3. /\ LockIsHeld'
      /\ MergedIsCurrent'
      /\ SavedIsValid'
      /\ FileIsAhead'
      /\ FileIsCurrent'
  BY <1>1 DEF IInv, LockIsHeld, MergedIsCurrent, SavedIsValid, FileIsAhead, FileIsCurrent
<1>4. SavedIsLoadable' /\ NoLostUpdate' /\ FileStaysLoadable'
  BY <1>1 DEF IInv, SavedIsLoadable, NoLostUpdate, FileStaysLoadable
<1> QED
  BY <1>2, <1>3, <1>4 DEF IInv

\* The invariant is inductive: it holds in every state of config.go's store.
THEOREM SettingsInvariant == Spec => []IInv
<1>1. IInv /\ [Next]_vars => IInv'
  <2> SUFFICES ASSUME IInv, [Next]_vars PROVE IInv'
    OBVIOUS
  <2>1. ASSUME NEW p \in Puts, Arrive(p) \/ ReadFails(p) \/ Gate(p) PROVE IInv'
    BY <2>1, OutsideInvariant
  <2>2. ASSUME NEW p \in Puts, Lock(p) PROVE IInv'
    BY <2>2, LockInvariant
  <2>3. ASSUME NEW p \in Puts, Merge(p) PROVE IInv'
    BY <2>3, MergeInvariant
  <2>4. ASSUME NEW p \in Puts, Validate(p) PROVE IInv'
    BY <2>4, ValidateInvariant
  <2>5. ASSUME NEW p \in Puts, Save(p) PROVE IInv'
    BY <2>5, SaveInvariant
  <2>6. ASSUME NEW p \in Puts, SaveFails(p) PROVE IInv'
    BY <2>6, RejectInvariant DEF SaveFails, IInv, TypeOK
  <2>7. ASSUME NEW p \in Puts, Swap(p) PROVE IInv'
    BY <2>7, SwapInvariant
  <2>8. CASE Restart
    BY <2>8, RestartInvariant
  <2>9. CASE UNCHANGED vars \/ \E v \in Versions : recordHeadroomVersion(v)
    BY <2>9, AsideInvariant
  <2> QED
    BY <2>1, <2>2, <2>3, <2>4, <2>5, <2>6, <2>7, <2>8, <2>9
    DEF Next, PutNext, Finished
<1> QED
  BY InitInvariant, <1>1, PTL DEF Spec

-----------------------------------------------------------------------------
(* What follows from it.                                                   *)

\* Structs stay structs: a load, a merge and a swap never leave a value
\* where an address belongs, nor an address where a value belongs.
THEOREM SettingsTypeCorrect == Spec => []TypeOK
<1>1. IInv => TypeOK
  BY DEF IInv
<1> QED
  BY <1>1, SettingsInvariant, PTL

\* applyLocked never writes a file that the next loadSettings would refuse.
THEOREM SavesStayLoadable == Spec => []FileStaysLoadable
<1>1. IInv => FileStaysLoadable
  BY DEF IInv
<1> QED
  BY <1>1, SettingsInvariant, PTL

\* merge's mutex keeps concurrent PUTs from undoing each other, and a PUT
\* answered 200 survives a crash.
THEOREM UpdatesKept == Spec => []NoLostUpdate
<1>1. IInv => NoLostUpdate
  BY DEF IInv
<1> QED
  BY <1>1, SettingsInvariant, PTL

\* With no update in progress, requests use the plain fields that are on disk.
THEOREM DiskAndMemoryAgree == Spec => []DiskMatchesMemory
<1>1. IInv => DiskMatchesMemory
  <2> SUFFICES ASSUME IInv, lock = Nil
               PROVE  \A f \in Plain : live[f] = Loaded(file)[f]
    BY DEF DiskMatchesMemory
  <2>1. \A p \in Puts : put[p] # "swap"
    BY SettingsAssumption DEF IInv, LockIsHeld, Inside
  <2> QED
    BY <2>1 DEF IInv, FileIsCurrent
<1> QED
  BY <1>1, SettingsInvariant, PTL

\* loadSettings undoes save: every field, behind a pointer or not.
LEMMA LoadUndoesSave ==
  ASSUME NEW s \in Settings, Loadable(s)
  PROVE  deref(LoadedStruct(s), LoadedHeap(s)) = s
<1>1. Loaded(s) = s
  BY CompleteIsLoaded
<1>2. s = [f \in Fields |-> s[f]]
  BY DEF Settings
<1>3. \A f \in Fields : LoadedStruct(s)[f] =
        IF f \in Pointers /\ s[f] # Nil THEN <<Nil, f>> ELSE s[f]
  BY <1>1 DEF LoadedStruct
<1>4. ASSUME NEW f \in Pointers, s[f] # Nil
      PROVE  <<Nil, f>> # Nil /\ LoadedHeap(s)[<<Nil, f>>] = s[f]
  <2>1. <<Nil, f>> \in Cells
    BY DEF Cells
  <2> QED
    BY <1>1, <1>4, <2>1, SettingsAssumption DEF LoadedHeap
<1>5. ASSUME NEW f \in Fields
      PROVE  deref(LoadedStruct(s), LoadedHeap(s))[f] = s[f]
  BY <1>3, <1>4 DEF deref
<1> QED
  BY <1>2, <1>5 DEF deref

\* A restart at any point brings back what was saved last.
THEOREM RestartsRestore == Spec => RestartRestores
<1> DEFINE Restores == restarts' # restarts /\ file \notin Files => Current' = file
<1>1. IInv /\ [Next]_vars => [Restores]_vars
  <2> SUFFICES ASSUME IInv, Next, restarts' # restarts, file \notin Files
               PROVE  Current' = file
    BY DEF Restores
  <2>1. Restart
    BY DEF Next, PutNext, Arrive, ReadFails, Gate, Lock, Merge, Validate, Save, SaveFails, Swap,
           Finished, recordHeadroomVersion, vars
  <2>2. file \in Settings /\ Loadable(file)
    BY DEF IInv, FileStaysLoadable
  <2> QED
    BY <2>1, <2>2, LoadUndoesSave DEF Restart, Current
<1>2. Spec => [][Next]_vars
  BY PTL DEF Spec
<1> QED
  BY <1>1, <1>2, SettingsInvariant, PTL DEF RestartRestores
=============================================================================
