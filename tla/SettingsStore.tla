--------------------------- MODULE SettingsStore ----------------------------
(***************************************************************************)
(* The runtime settings of tsheadroom (src/config.go): PUT /config merges  *)
(* a partial update onto the current settings, validates, saves and swaps  *)
(* them in, under one mutex; a restart loads the file again.               *)
(*                                                                         *)
(* A settings value is the Go struct: its plain fields hold values, its    *)
(* pointer fields hold nil or the address of a cell.  Copying the struct   *)
(* copies the addresses, and json.Unmarshal onto a non-nil pointer writes  *)
(* the cell that it finds there.  Cell <<o, f>> is the one allocated for   *)
(* field f by o, a PUT request or the load of the file.                    *)
(*                                                                         *)
(* A definition named X_Slip (Merge_Unlocked) is X with a plausible slip   *)
(* in the code, as in Pool.                                                *)
(***************************************************************************)
EXTENDS Naturals

CONSTANTS
  Puts,        \* PUT /config requests
  Plain,       \* fields held by value
  Pointers,    \* fields held by pointer (null is their unset value)
  Profile,     \* the pointer field that old headroom versions do not have
  Values,      \* values of a field
  BadValues,   \* those that validate rejects
  Default,     \* the default of a plain field; of a pointer field it is Nil
  Zero,        \* Go's zero value of a plain field
  Bodies,      \* the update requests carry
  Files,       \* what the file may hold before the program runs
  Versions,    \* headroom-ai versions that workers report
  OldVersions, \* those without savings_profile
  MaxRestarts, \* bound on restarts
  NoFile,      \* what the file is when there is none
  Corrupt,     \* or when it cannot be read or parsed
  Nil, Absent, Unknown

Fields == Plain \cup Pointers

\* A settings value written out, as in the file: every field, by value.
Settings ==
  {s \in [Fields -> Values \cup {Nil}] : \A f \in Plain : s[f] # Nil}

\* What a file may say: one written by hand need not name every field.
Documents ==
  {d \in [Fields -> Values \cup {Nil, Absent}] : \A f \in Plain : d[f] # Nil}

\* The cells a pointer may hold the address of.
Cells == (Puts \cup {Nil}) \X Pointers

valid(s) == \A f \in Fields : s[f] \notin BadValues

ASSUME SettingsAssumption ==
  /\ Profile \in Pointers
  /\ Plain \cap Pointers = {}
  /\ BadValues \subseteq Values
  /\ Default \in Values \ BadValues
  /\ Zero \in Values
  /\ {Nil, Absent} \cap Values = {}
  /\ Nil \notin Puts \cup Cells
  /\ {NoFile, Corrupt} \cap Documents = {}
  /\ Nil # Absent
  /\ \A b \in Bodies :
       /\ b.set \in [Fields -> Values \cup {Nil, Absent}]
       /\ \A f \in Plain : b.set[f] # Nil
       /\ b.form \in {"json", "mistyped", "malformed"}
       /\ b.profileKey \in {"exact", "folded"}
  /\ Files \subseteq Documents \cup {NoFile, Corrupt}
  /\ OldVersions \subseteq Versions
  /\ Unknown \notin Versions
  /\ MaxRestarts \in Nat

VARIABLES
  live,      \* the struct st.cur points to
  heap,      \* what the cells hold
  file,      \* the config file: settings, NoFile or Corrupt
  lock,      \* the holder of st.mu, or Nil
  put,       \* put[p]: where request p is
  body,      \* body[p]: its body
  merged,    \* merged[p]: its local copy of the settings
  version,   \* what headroomVersion() returns
  restarts,  \* bounded by MaxRestarts
  lastSet    \* history: the last PUT whose save gave the field its value

vars == <<live, heap, file, lock, put, body, merged, version, restarts, lastSet>>

PutStates ==
  {"new", "gate", "lock", "merge", "apply", "save", "swap", "ok", "rejected", "lost"}

\* The struct: values and addresses.
Structs ==
  {s \in [Fields -> Values \cup Cells \cup {Nil}] :
     /\ \A f \in Plain : s[f] \in Values
     /\ \A f \in Pointers : s[f] \in Cells \cup {Nil}}

\* What a struct says once its addresses are followed.
deref(s, h) ==
  [f \in Fields |-> IF f \in Pointers /\ s[f] # Nil THEN h[s[f]] ELSE s[f]]

\* The settings as a request forwards them and as save writes them.
Current == deref(live, heap)

-----------------------------------------------------------------------------
(* loadSettings.                                                           *)

defaultSettings == [f \in Fields |-> IF f \in Plain THEN Default ELSE Nil]

\* json.Unmarshal into an empty struct, not into the defaults.
Unmarshaled(contents) ==
  [f \in Fields |-> IF contents[f] # Absent THEN contents[f]
                    ELSE IF f \in Plain THEN Zero ELSE Nil]

\* The file if it can be read, parsed and validated, else the defaults.
Loadable(contents) == contents \notin {NoFile, Corrupt} /\ valid(Unmarshaled(contents))

Loaded(contents) == IF Loadable(contents) THEN Unmarshaled(contents) ELSE defaultSettings

\* save and load disagree on the name of an optional field.
LoadedStruct_Renamed(contents) ==
  [f \in Fields |-> IF f \in Pointers THEN Nil ELSE Loaded(contents)[f]]

\* A load that leaves values where addresses belong.
LoadedStruct_ByValue(contents) == Loaded(contents)

LoadedStruct(contents) ==
  [f \in Fields |-> IF f \in Pointers /\ Loaded(contents)[f] # Nil
                    THEN <<Nil, f>> ELSE Loaded(contents)[f]]

\* Nobody sees a cell before it is allocated, so Default stands for that.
LoadedHeap(contents) ==
  [a \in Cells |-> IF a[1] = Nil /\ Loaded(contents)[a[2]] # Nil
                   THEN Loaded(contents)[a[2]] ELSE Default]

Init ==
  /\ file \in Files
  /\ live = LoadedStruct(file)
  /\ heap = LoadedHeap(file)
  /\ lock = Nil
  /\ put = [p \in Puts |-> "new"]
  /\ body \in [Puts -> Bodies]
  /\ merged = [p \in Puts |-> live]
  /\ version \in Versions \cup {Unknown}
  /\ restarts = 0
  /\ lastSet = [f \in Fields |-> Nil]

\* The process dies at any point and is started again: a request in hand is
\* cut off, whatever the file says by then.
Restart ==
  /\ restarts < MaxRestarts
  /\ restarts' = restarts + 1
  /\ live' = LoadedStruct(file)
  /\ heap' = LoadedHeap(file)
  /\ lock' = Nil
  /\ put' = [p \in Puts |-> IF put[p] \in {"new", "ok", "rejected"} THEN put[p] ELSE "lost"]
  /\ version' = Unknown
  /\ UNCHANGED <<file, body, merged, lastSet>>

\* A worker that became ready reports its version; an empty one is ignored.
recordHeadroomVersion(v) ==
  /\ v \in Versions
  /\ v # version
  /\ version' = v
  /\ UNCHANGED <<live, heap, file, lock, put, body, merged, restarts, lastSet>>

-----------------------------------------------------------------------------
(* configHandler.ServeHTTP for PUT and POST.                               *)

\* The body is read, up to its limit.
Arrive(p) ==
  /\ put[p] = "new"
  /\ put' = [put EXCEPT ![p] = "gate"]
  /\ UNCHANGED <<live, heap, file, lock, body, merged, version, restarts, lastSet>>

ReadFails(p) ==
  /\ put[p] = "new"
  /\ put' = [put EXCEPT ![p] = "rejected"]
  /\ UNCHANGED <<live, heap, file, lock, body, merged, version, restarts, lastSet>>

\* The gate probes the body for the exact key.
settingNonNullSavingsProfile(b) ==
  /\ b.form # "malformed"
  /\ b.profileKey = "exact"
  /\ b.set[Profile] \notin {Nil, Absent}

Gate(p) ==
  /\ put[p] = "gate"
  /\ put' = [put EXCEPT ![p] =
       IF settingNonNullSavingsProfile(body[p]) /\ version \in OldVersions
       THEN "rejected" ELSE "lock"]
  /\ UNCHANGED <<live, heap, file, lock, body, merged, version, restarts, lastSet>>

-----------------------------------------------------------------------------
(* merge and applyLocked.  Every return unlocks (defer).                   *)

\* merge does not take st.mu.
Lock_NoMutex(p) ==
  /\ put[p] = "lock"
  /\ lock' = p
  /\ put' = [put EXCEPT ![p] = "merge"]
  /\ UNCHANGED <<live, heap, file, body, merged, version, restarts, lastSet>>

Lock(p) ==
  /\ put[p] = "lock"
  /\ lock = Nil
  /\ lock' = p
  /\ put' = [put EXCEPT ![p] = "merge"]
  /\ UNCHANGED <<live, heap, file, body, merged, version, restarts, lastSet>>

\* An error return that does not unlock.
Reject_StaysLocked(p) ==
  /\ put' = [put EXCEPT ![p] = "rejected"]
  /\ UNCHANGED lock

Reject(p) ==
  /\ put' = [put EXCEPT ![p] = "rejected"]
  /\ lock' = Nil

\* json.Unmarshal of b by p onto a copy of struct s: an absent field is left
\* alone, null clears a pointer, a value goes into the field, into the cell
\* the pointer has, or into a new cell if it has none.
UnmarshalStruct(s, b, p) ==
  [f \in Fields |->
     IF b.set[f] = Absent THEN s[f]
     ELSE IF f \in Plain \/ b.set[f] = Nil THEN b.set[f]
     ELSE IF s[f] = Nil THEN <<p, f>> ELSE s[f]]

UnmarshalHeap(s, b, p) ==
  LET target(f) == UnmarshalStruct(s, b, p)[f]
      written == {f \in Pointers : b.set[f] \notin {Nil, Absent}}
  IN  [a \in Cells |-> IF a[2] \in written /\ target(a[2]) = a
                       THEN b.set[a[2]] ELSE heap[a]]

\* A malformed body is refused before anything is written.  One with a field
\* of the wrong type is refused after the other fields were written.
Merge(p) ==
  /\ put[p] = "merge"
  /\ IF body[p].form = "malformed"
     THEN UNCHANGED <<heap, merged>>
     ELSE /\ merged' = [merged EXCEPT ![p] = UnmarshalStruct(live, body[p], p)]
          /\ heap' = UnmarshalHeap(live, body[p], p)
  /\ IF body[p].form = "json"
     THEN put' = [put EXCEPT ![p] = "apply"] /\ UNCHANGED lock
     ELSE Reject(p)
  /\ UNCHANGED <<live, file, body, version, restarts, lastSet>>

\* validate is left to the next start.
Validate_Skips(p) ==
  /\ put[p] = "apply"
  /\ put' = [put EXCEPT ![p] = "save"]
  /\ UNCHANGED <<live, heap, file, lock, body, merged, version, restarts, lastSet>>

Validate(p) ==
  /\ put[p] = "apply"
  /\ IF valid(deref(merged[p], heap))
     THEN put' = [put EXCEPT ![p] = "save"] /\ UNCHANGED lock
     ELSE Reject(p)
  /\ UNCHANGED <<live, heap, file, body, merged, version, restarts, lastSet>>

\* atomicfile.WriteFile replaces the whole file, or fails and leaves it.
Save(p) ==
  /\ put[p] = "save"
  /\ file' = deref(merged[p], heap)
  /\ lastSet' = [f \in Fields |-> IF body[p].set[f] # Absent THEN p ELSE lastSet[f]]
  /\ put' = [put EXCEPT ![p] = "swap"]
  /\ UNCHANGED <<live, heap, lock, body, merged, version, restarts>>

\* The error of save is logged and the settings are swapped in all the same.
SaveFails_SwapsAnyway(p) ==
  /\ put[p] = "save"
  /\ put' = [put EXCEPT ![p] = "swap"]
  /\ UNCHANGED <<live, heap, file, lock, body, merged, version, restarts, lastSet>>

SaveFails(p) ==
  /\ put[p] = "save"
  /\ Reject(p)
  /\ UNCHANGED <<live, heap, file, body, merged, version, restarts, lastSet>>

\* The pointer is swapped, the lock released, and 200 returned.
Swap(p) ==
  /\ put[p] = "swap"
  /\ live' = merged[p]
  /\ lock' = Nil
  /\ put' = [put EXCEPT ![p] = "ok"]
  /\ UNCHANGED <<heap, file, body, merged, version, restarts, lastSet>>

\* Every request was answered, or cut off: nothing is left to do.
Finished ==
  /\ \A p \in Puts : put[p] \in {"ok", "rejected", "lost"}
  /\ UNCHANGED vars

-----------------------------------------------------------------------------
PutNext(p) ==
  \/ Arrive(p) \/ ReadFails(p) \/ Gate(p) \/ Lock(p) \/ Merge(p)
  \/ Validate(p) \/ Save(p) \/ SaveFails(p) \/ Swap(p)

Next ==
  \/ \E p \in Puts : PutNext(p)
  \/ \E v \in Versions : recordHeadroomVersion(v)
  \/ Restart
  \/ Finished

Spec == Init /\ [][Next]_vars

\* The handler of a request that has arrived runs on, and st.mu is granted
\* to every waiter (Go's mutex is starvation-free); requests need not arrive.
Fairness ==
  \A p \in Puts :
    /\ WF_vars(Gate(p) \/ Merge(p) \/ Validate(p) \/ Save(p) \/ SaveFails(p) \/ Swap(p))
    /\ SF_vars(Lock(p))

FairSpec == Spec /\ Fairness

-----------------------------------------------------------------------------
(* Properties.                                                             *)

TypeOK ==
  /\ live \in Structs
  /\ heap \in [Cells -> Values]
  /\ file \in Documents \cup {NoFile, Corrupt}
  /\ lock \in Puts \cup {Nil}
  /\ put \in [Puts -> PutStates]
  /\ body \in [Puts -> Bodies]
  /\ merged \in [Puts -> Structs]
  /\ version \in Versions \cup {Unknown}
  /\ restarts \in 0..MaxRestarts
  /\ lastSet \in [Fields -> Puts \cup {Nil}]

\* The program never writes a file that its own next start would refuse, or
\* would have to complete, whatever update is in flight and whatever a pointer
\* field is shared with (applyLocked's order: validate, then save, under one hold of st.mu).
FileStaysLoadable == file \in Files \/ (file \in Settings /\ Loadable(file))

\* "Persists them to disk so the service starts up with the last state"
\* (config.go:97-100): after a crash at any point requests use exactly what was
\* saved last, the optional fields included.
RestartRestores ==
  [][restarts' # restarts /\ file \notin Files => Current' = file]_vars

\* "Concurrent PUTs can't lose each other's changes" (config.go:150-151): a
\* plain field on disk is what the last PUT that set it asked for, and a PUT
\* that was answered 200 is on disk, across restarts.  A pointer field has no
\* such guarantee: see NothingInvalidLive.
NoLostUpdate ==
  \A f \in Plain :
    /\ lastSet[f] # Nil => file[f] = body[lastSet[f]].set[f]
    /\ \A p \in Puts :
         put[p] = "ok" /\ body[p].set[f] # Absent => lastSet[f] # Nil

\* Whenever no update is in progress, the plain fields that requests use are
\* those that a restart would load, from whatever file: a refused or failed
\* update leaves both alone (config.go:141-143).
DiskMatchesMemory ==
  lock = Nil => \A f \in Plain : live[f] = Loaded(file)[f]

\* Every PUT is answered, whichever way the requests before it ended
\* (the deferred Unlock, config.go:154-155).
PutsAnswered ==
  \A p \in Puts : put[p] = "gate" ~> put[p] \in {"ok", "rejected", "lost"}

(* What the documentation says and the code does not do.                   *)

\* "Invalid values are rejected with 400 and leave the current configuration
\* untouched" (README.md:433); "an unknown name can never reach compress()"
\* (config.go:45-46): what requests use has passed validate.
NothingInvalidLive == lock = Nil => valid(Current)
=============================================================================
