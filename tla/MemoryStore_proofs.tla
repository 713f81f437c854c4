-------------------------- MODULE MemoryStore_proofs --------------------------
(***************************************************************************)
(* Proofs about MemoryStore, for any keys and values.  The invariant Stands *)
(* says what holds at each place of store: what is in the temporary file,   *)
(* that memory is the file's contents until the file is replaced, and that  *)
(* the candidate differs from it in the one key of the call.                *)
(***************************************************************************)
EXTENDS MemoryStore, TLAPS

Calling == {"create", "write", "fsync", "replace"}

(* The temporary file is complete before it is renamed, and has been synced. *)
TempAtPlace ==
  /\ pc \in {"fsync", "replace"} => temp = candidate
  /\ pc = "replace" => synced

(* The candidate is what memory says but for the key of the call.           *)
CallInHand ==
  /\ pc \in Calling \cup {"commit"} => call \in Keys \X Values
  /\ pc \in Calling => candidate = [mem EXCEPT ![call[1]] = call[2]]
  /\ pc = "idle" => call = None

(* Memory and file agree until the file is replaced.                        *)
FileAtPlace ==
  /\ pc \in Calling \cup {"idle", "clean"} => mem = Contents
  /\ pc = "commit" => file = candidate

(* What is not to be cleaned away by this call was left by something that   *)
(* nobody can help.                                                        *)
LitterExcused ==
  /\ litter => excused
  /\ pc \in {"down", "idle", "create", "commit"} /\ temp # Absent => excused
  /\ pc = "clean" /\ ~noted /\ temp # Absent => excused

Stands == TypeOK /\ FileIsWhole /\ TempAtPlace /\ CallInHand /\ FileAtPlace /\ LitterExcused

-----------------------------------------------------------------------------
LEMMA EmptyIsAMap == Empty \in Maps
BY DEF Empty, Maps

LEMMA ChangedIsAMap ==
  ASSUME NEW f \in Maps, NEW k \in Keys, NEW v \in Values
  PROVE  [f EXCEPT ![k] = v] \in Maps
BY DEF Maps

LEMMA ContentsIsAMap ==
  ASSUME TypeOK, FileIsWhole
  PROVE  Contents \in Maps
BY EmptyIsAMap DEF TypeOK, FileIsWhole, Contents, ContentsOf

LEMMA InitStands == Init => Stands
BY EmptyIsAMap, MarksAssumption, FilesAssumption
DEF Init, Stands, TypeOK, FileIsWhole, TempAtPlace, CallInHand, FileAtPlace, LitterExcused, Contents, ContentsOf, Calling

LEMMA StepStands == Stands /\ [Next]_vars => Stands'
<1> SUFFICES ASSUME Stands, [Next]_vars
             PROVE  Stands'
  OBVIOUS
<1> USE MarksAssumption, FilesAssumption
<1>0. Contents \in Maps
  BY ContentsIsAMap DEF Stands
<1>1. CASE Load
  BY <1>1, EmptyIsAMap
  DEF Load, rest, Stands, TypeOK, FileIsWhole, TempAtPlace, CallInHand, FileAtPlace, LitterExcused, Contents, ContentsOf, Calling
<1>2. ASSUME NEW k \in Keys, NEW v \in Values, Store(k, v)
      PROVE  Stands'
  <2>1. candidate' \in Maps
    BY <1>2, ChangedIsAMap DEF Store, rest, Stands, TypeOK
  <2>2. TypeOK'
    BY <1>2, <2>1 DEF Store, rest, Stands, TypeOK
  <2>3. CallInHand'
    BY <1>2 DEF Store, rest, Stands, CallInHand, Calling
  <2>4. QED
    BY <1>2, <2>2, <2>3 DEF Store, rest, Stands, FileIsWhole, TempAtPlace, FileAtPlace, LitterExcused, Contents, ContentsOf, Calling
<1>3. CASE Create
  <2>1. litter' \in BOOLEAN /\ noted' \in BOOLEAN
    BY <1>3 DEF Create, Raises, PathNoted, Stands, TypeOK
  <2>2. TypeOK'
    BY <1>3, <2>1, EmptyIsAMap DEF Create, Raises, Stands, TypeOK
  <2>3. FileIsWhole' /\ TempAtPlace' /\ CallInHand' /\ FileAtPlace'
    BY <1>3, EmptyIsAMap
    DEF Create, Raises, Stands, TypeOK, FileIsWhole, TempAtPlace, CallInHand, FileAtPlace,
        Contents, ContentsOf, Calling
  <2>4. LitterExcused'
    <3>1. (litter => excused) /\ (temp # Absent => excused)
      BY <1>3 DEF Create, Stands, LitterExcused
    <3>2. litter' => litter \/ temp # Absent
      BY <1>3 DEF Create
    <3>3. excused' = excused /\ pc' \in {"write", "clean"} /\ (pc' = "clean" => temp' = temp)
      BY <1>3 DEF Create, Raises
    <3>4. QED
      BY <3>1, <3>2, <3>3 DEF LitterExcused
  <2>5. QED
    BY <2>2, <2>3, <2>4 DEF Stands
<1>4. CASE Write
  BY <1>4
  DEF Write, Raises, PathNoted, rest, Stands, TypeOK, FileIsWhole, TempAtPlace, CallInHand, FileAtPlace, LitterExcused, Contents, ContentsOf, Calling
<1>5. CASE Fsync
  BY <1>5
  DEF Fsync, Raises, PathNoted, rest, Stands, TypeOK, FileIsWhole, TempAtPlace, CallInHand, FileAtPlace, LitterExcused, Contents, ContentsOf, Calling
<1>6. CASE Replace
  BY <1>6
  DEF Replace, Raises, PathNoted, rest, Stands, TypeOK, FileIsWhole, TempAtPlace, CallInHand, FileAtPlace, LitterExcused, Contents, ContentsOf, Calling
<1>7. CASE Clean
  BY <1>7
  DEF Clean, Stands, TypeOK, FileIsWhole, TempAtPlace, CallInHand, FileAtPlace, LitterExcused, Contents, ContentsOf, Calling
<1>8. CASE Commit
  BY <1>8
  DEF Commit, rest, Stands, TypeOK, FileIsWhole, TempAtPlace, CallInHand, FileAtPlace, LitterExcused, Contents, ContentsOf, Calling
<1>9. CASE Crash
  BY <1>9, EmptyIsAMap
  DEF Crash, Down, Stands, TypeOK, FileIsWhole, TempAtPlace, CallInHand, FileAtPlace, LitterExcused, Contents, ContentsOf, Calling
<1>10. CASE Settle
  BY <1>10
  DEF Settle, rest, Stands, TypeOK, FileIsWhole, TempAtPlace, CallInHand, FileAtPlace, LitterExcused, Contents, ContentsOf, Calling
<1>11. CASE PowerLoss
  BY <1>11, EmptyIsAMap
  DEF PowerLoss, Down, Stands, TypeOK, FileIsWhole, TempAtPlace, CallInHand, FileAtPlace, LitterExcused, Contents, ContentsOf, Calling
<1>12. CASE UNCHANGED vars
  BY <1>12
  DEF vars, rest, Stands, TypeOK, FileIsWhole, TempAtPlace, CallInHand, FileAtPlace, LitterExcused, Contents, ContentsOf, Calling
<1>13. QED
  BY <1>1, <1>2, <1>3, <1>4, <1>5, <1>6, <1>7, <1>8, <1>9, <1>10, <1>11, <1>12 DEF Next

LEMMA AlwaysStands == Spec => []Stands
BY InitStands, StepStands, PTL DEF Spec

-----------------------------------------------------------------------------
(* No restart finds part of a text: atomic_write_text syncs the temporary   *)
(* file before it renames it, so this holds for losses of power as well.    *)
THEOREM NeverTorn == Spec => []FileIsWhole
<1>1. Stands => FileIsWhole
  BY DEF Stands
<1> QED BY <1>1, AlwaysStands, PTL

(* Between calls of store, after failed ones too, memory is what the file   *)
(* says.                                                                    *)
THEOREM MemoryAgrees == Spec => []MemoryIsTheFile
<1>1. Stands => MemoryIsTheFile
  BY DEF Stands, FileAtPlace, MemoryIsTheFile
<1> QED BY <1>1, AlwaysStands, PTL

(* A temporary file is left behind only by what the program cannot help: it *)
(* being killed, or unlink failing in the finally of atomic_write_text.     *)
THEOREM NothingLeftLying == Spec => []NoLitter
<1>1. Stands => NoLitter
  BY DEF Stands, LitterExcused, NoLitter
<1> QED BY <1>1, AlwaysStands, PTL

-----------------------------------------------------------------------------
(* Refinement: the rename is the one step that changes what is stored.      *)

LEMMA InitIsInit == Init => KV!Init
BY DEF Init, KV!Init, Contents, ContentsOf, Empty

LEMMA StepIsStep ==
  Stands /\ Stands' /\ [Next]_vars => [KV!Next]_KV!vars
<1> SUFFICES ASSUME Stands, Stands', [Next]_vars
             PROVE  [KV!Next]_KV!vars
  OBVIOUS
<1> USE MarksAssumption, FilesAssumption DEF KV!vars
<1>1. CASE Load
  <2>1. KV!Answer
    BY <1>1 DEF Load, KV!Answer, Contents, ContentsOf
  <2>2. QED BY <2>1 DEF KV!Next
<1>2. ASSUME NEW k \in Keys, NEW v \in Values, Store(k, v)
      PROVE  KV!Next
  <2>1. KV!Call(k, v)
    BY <1>2 DEF Store, KV!Call, Contents, ContentsOf, Stands, TypeOK
  <2>2. QED BY <2>1 DEF KV!Next
<1>3. CASE Create \/ Write \/ Fsync
  <2>1. CASE pc' = "clean"
    <3>1. KV!Leave
      BY <1>3, <2>1 DEF Create, Write, Fsync, Raises, KV!Leave, Contents, ContentsOf
    <3>2. QED BY <3>1 DEF KV!Next
  <2>2. CASE pc' # "clean"
    BY <1>3, <2>2 DEF Create, Write, Fsync, Raises, Contents, ContentsOf
  <2>3. QED BY <2>1, <2>2
<1>4. CASE Replace
  <2>1. CASE pc' = "clean"
    <3>1. KV!Leave
      BY <1>4, <2>1 DEF Replace, Raises, KV!Leave, Contents, ContentsOf
    <3>2. QED BY <3>1 DEF KV!Next
  <2>2. CASE pc' # "clean"
    <3>1. /\ pc = "replace" /\ pc' = "commit" /\ call' = call
          /\ file' = candidate /\ disk' = disk \cup {candidate}
      BY <1>4, <2>2 DEF Replace, Raises, PathNoted, rest, Stands, TempAtPlace
    <3>2. Contents' = candidate
      BY <3>1 DEF Contents, ContentsOf, Stands, TypeOK
    <3>3. candidate = [Contents EXCEPT ![call[1]] = call[2]] /\ call # None
      BY <3>1 DEF Stands, CallInHand, FileAtPlace, Calling, TypeOK
    <3>4. ContentsOf(candidate) = candidate
      BY <3>1, <3>2 DEF Contents
    <3>5. {ContentsOf(f) : f \in disk'} = {ContentsOf(f) : f \in disk} \cup {Contents'}
      BY <3>1, <3>2, <3>4
    <3>6. KV!Put
      BY <3>1, <3>2, <3>3, <3>5 DEF KV!Put
    <3>7. QED BY <3>6 DEF KV!Next
  <2>3. QED BY <2>1, <2>2
<1>5. CASE Clean \/ Commit
  <2>1. mem' = Contents /\ file' = file
    BY <1>5 DEF Clean, Commit, Stands, FileAtPlace, Contents, ContentsOf, TypeOK, Calling
  <2>2. KV!Answer
    BY <1>5, <2>1 DEF Clean, Commit, KV!Answer, Contents, ContentsOf
  <2>3. QED BY <2>2 DEF KV!Next
<1>6. CASE Crash
  <2>1. KV!Leave
    BY <1>6 DEF Crash, Down, KV!Leave, Contents, ContentsOf
  <2>2. QED BY <2>1 DEF KV!Next
<1>7. CASE Settle
  <2>1. KV!Settle
    BY <1>7 DEF Settle, KV!Settle, Contents
  <2>2. QED BY <2>1 DEF KV!Next
<1>8. CASE PowerLoss
  <2>1. KV!LosePower
    BY <1>8 DEF PowerLoss, Down, KV!LosePower, Contents
  <2>2. QED BY <2>1 DEF KV!Next
<1>9. CASE UNCHANGED vars
  BY <1>9 DEF vars, Contents
<1>10. QED
  BY <1>1, <1>2, <1>3, <1>4, <1>5, <1>6, <1>7, <1>8, <1>9 DEF Next

(* Kills, failing system calls and losses of power included, the store is   *)
(* the atomic one: a call changes its one key at once, or nothing.          *)
THEOREM StoreIsAtomic == Spec => IsAtomic
<1> QED
  BY StepIsStep, InitIsInit, AlwaysStands, PTL DEF Spec, IsAtomic, KV!Spec
=============================================================================
