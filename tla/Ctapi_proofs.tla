------------------------------ MODULE Ctapi_proofs ------------------------------
(***************************************************************************)
(* What the shared library of the CT-API driver owes its readers, for any  *)
(* number of readers, libraries, calls, detections and failures, as long   *)
(* as the terminal numbers last.                                           *)
(***************************************************************************)
EXTENDS Ctapi, TLAPS, FiniteSetTheorems

(* The WORD of the terminal numbers does not wrap.                         *)
NumbersLast == MaxInits < CtnMod

(* The counter covers the readers, is 0 without a library, and is exact    *)
(* until something fails.                                                  *)
Counted ==
    /\ CounterCoversReaders
    /\ ICounter <= inits
    /\ handle = NoLib => ICounter = 0
    /\ failures = 0 => ICounter = Cardinality(OpenReaders)
    /\ failures = 0 /\ handle # NoLib => ICounter > 0

(* While the handle is set and no detection has begun since, its library   *)
(* is loaded, and is that of all pointers if it exports what it should.  A *)
(* detection closes at least as often as it opens, so what is loaded is    *)
(* loaded by scCtapiInit.                                                  *)
InUse ==
    /\ di # 0 /\ ~detected => handle = NoLib
    /\ detected => handle # NoLib
    /\ handle # NoLib => handle = CtapiLib
    /\ handle # NoLib /\ ~detected =>
          /\ loaded[CtapiLib] > 0
          /\ Full(CtapiLib) => \A f \in Functions : pCT[f] = CtapiLib
    /\ \A lib \in Libs : loaded[lib] <= IF lib = handle THEN 1 ELSE 0

(* Terminal numbers are given once.                                        *)
Numbered ==
    /\ lastCtn <= inits
    /\ \A r \in OpenReaders : ri[r].ctn < lastCtn
    /\ Full(CtapiLib) /\ ~detected =>
          \A r \in OpenReaders : ri[r].ctn \in terminals[CtapiLib]
    /\ \A r, s \in OpenReaders : ri[r].ctn = ri[s].ctn => r = s

IInv == NumbersLast /\ TypeOK /\ Counted /\ InUse /\ Numbered
-------------------------------------------------------------------------------
(* The operators the actions are built from.                               *)

LEMMA LibFacts == CtapiLib \in Libs /\ NoLib \notin Libs /\ CtapiLib # NoLib
  BY LibAssumption DEF Libs

LEMMA OpenFinite ==
  /\ IsFiniteSet(OpenReaders)
  /\ Cardinality(OpenReaders) \in Nat
  <1>1. OpenReaders \in SUBSET Readers
    BY DEF OpenReaders
  <1> QED BY <1>1, BoundAssumption, FS_Subset, FS_CardinalityType

(* The pointers after the dlsyms lead into the library when it exports all *)
(* three functions.                                                        *)
LEMMA ResolvedFacts ==
  ASSUME TypeOK, NEW lib \in Libs
  PROVE  /\ Resolved(lib) \in [Functions -> Libs \cup {NoLib}]
         /\ Full(lib) => \A f \in Functions : Resolved(lib)[f] = lib
  <1>1. pCT \in [Functions -> Libs \cup {NoLib}]
    BY DEF TypeOK
  <1>2. \A f \in Functions : Resolved(lib)[f] \in {lib, NoLib, pCT[f]}
    BY DEF Resolved
  <1>3. Resolved(lib) = [f \in Functions |-> Resolved(lib)[f]]
    BY DEF Resolved
  <1>4. Full(lib) => \A f \in Functions : Resolved(lib)[f] = lib
    BY DEF Resolved, Full, Functions, Before
  <1> QED BY <1>1, <1>2, <1>3, <1>4

LEMMA LinkerType ==
  ASSUME NEW count \in [Libs -> Nat], NEW lib \in Libs \cup {NoLib}
  PROVE  /\ DlClose(lib, count) \in [Libs -> Nat]
         /\ lib \in Libs => DlOpen(lib, count) \in [Libs -> Nat]
  BY DEF DlClose, DlOpen

LEMMA ConnectedType ==
  ASSUME NEW count, NEW open \in [Libs -> SUBSET (0..(CtnMod - 1))]
  PROVE  Connected(count, open) \in [Libs -> SUBSET (0..(CtnMod - 1))]
  BY DEF Connected

(* Without a library there is no reader.                                   *)
LEMMA NoLibraryNoReader ==
  ASSUME IInv, handle = NoLib
  PROVE  OpenReaders = {} /\ ICounter = 0
  <1>1. Cardinality(OpenReaders) = 0
    BY OpenFinite DEF IInv, Counted, CounterCoversReaders
  <1> QED BY <1>1, OpenFinite, FS_EmptySet DEF IInv, Counted

(* What the first part of scCtapiInit leaves behind, whether it has loaded *)
(* the library or found it loaded.                                         *)
LEMMA Loads ==
  ASSUME IInv, LoadLibrary
  PROVE  /\ handle' = CtapiLib
         /\ pCT' \in [Functions -> Libs \cup {NoLib}]
         /\ loaded' \in [Libs -> Nat]
         /\ ~detected => loaded'[CtapiLib] > 0
         /\ ~detected /\ Full(CtapiLib) =>
               \A f \in Functions : pCT'[f] = CtapiLib
         /\ \A lib \in Libs : loaded'[lib] <= IF lib = handle' THEN 1 ELSE 0
         /\ ICounter' = ICounter + 1
  <1>1. /\ loaded \in [Libs -> Nat] /\ pCT \in [Functions -> Libs \cup {NoLib}]
        /\ ICounter' = ICounter + 1
    BY DEF IInv, TypeOK, LoadLibrary
  <1>2. CASE handle = NoLib
    <2>1. /\ handle' = CtapiLib /\ pCT' = Resolved(CtapiLib)
          /\ loaded' = [loaded EXCEPT ![CtapiLib] = @ + 1]
      BY <1>2 DEF LoadLibrary, DlOpen
    <2>5. /\ pCT' \in [Functions -> Libs \cup {NoLib}]
          /\ Full(CtapiLib) => \A f \in Functions : pCT'[f] = CtapiLib
      BY <2>1, ResolvedFacts, LibFacts DEF IInv
    <2>2. loaded'[CtapiLib] = loaded[CtapiLib] + 1 /\ loaded[CtapiLib] \in Nat
          /\ \A lib \in Libs \ {CtapiLib} : loaded'[lib] = loaded[lib]
      BY <1>1, <2>1, LibFacts
    <2>3. \A lib \in Libs : loaded[lib] = 0
      BY <1>1, <1>2, LibFacts DEF IInv, InUse
    <2>4. loaded' \in [Libs -> Nat]
      BY <1>1, <2>1, LibFacts
    <2> QED BY <1>1, <2>1, <2>2, <2>3, <2>4, <2>5, LibFacts
  <1>3. CASE handle # NoLib
    BY <1>1, <1>3 DEF LoadLibrary, IInv, InUse
  <1> QED BY <1>2, <1>3

-------------------------------------------------------------------------------
(* The calls of the driver keep the invariant.                             *)

(* Terminal numbers below the modulus are not wrapped.                     *)
LEMMA NextCtnType ==
  ASSUME IInv, inits < MaxInits
  PROVE  NextCtn = lastCtn + 1 /\ NextCtn \in 0..(CtnMod - 1)
  <1>1. lastCtn \in Nat /\ inits \in Nat /\ lastCtn <= inits
        /\ MaxInits \in Nat /\ CtnMod \in Nat \ {0} /\ MaxInits < CtnMod
    BY BoundAssumption DEF IInv, TypeOK, Numbered, NumbersLast
  <1>2. lastCtn + 1 \in 0..(CtnMod - 1)
    BY <1>1
  <1> QED BY <1>1, <1>2 DEF NextCtn

LEMMA NoLibraryInv ==
  ASSUME IInv, NEW r \in Readers, InitNoLibrary(r)
  PROVE  IInv'
  <1>1. /\ inits' = inits + 1 /\ inits < MaxInits
        /\ failures' = failures + 1 /\ failures < MaxFailures
        /\ UNCHANGED <<handle, pCT, ICounter, lastCtn, ri, libHandle, di,
                       loaded, terminals, exports, detected>>
    BY DEF InitNoLibrary, MayInit, Fails
  <1>2. inits \in Nat /\ failures \in Nat /\ inits' \in 0..MaxInits
        /\ failures' \in 0..MaxFailures /\ failures' # 0
        /\ ICounter \in Nat /\ lastCtn \in Nat
    BY <1>1, BoundAssumption DEF IInv, TypeOK
  <1>3. TypeOK'
    BY <1>1, <1>2 DEF IInv, TypeOK
  <1>4. OpenReaders' = OpenReaders
    BY <1>1 DEF OpenReaders, Open
  <1>5. Counted' /\ InUse' /\ Numbered'
    BY <1>1, <1>2, <1>4
    DEF IInv, Counted, CounterCoversReaders, InUse, Numbered, Full
  <1> QED BY <1>3, <1>5 DEF IInv, NumbersLast

LEMMA InitPartialInv ==
  ASSUME IInv, NEW r \in Readers, InitPartial(r)
  PROVE  IInv'
  <1>1. /\ inits' = inits + 1 /\ inits < MaxInits /\ di = 0 /\ handle = NoLib
        /\ failures' = failures + 1 /\ failures < MaxFailures
        /\ handle' = CtapiLib /\ pCT' = Resolved(CtapiLib)
        /\ loaded' = [loaded EXCEPT ![CtapiLib] = @ + 1]
        /\ UNCHANGED <<ICounter, lastCtn, ri, libHandle, di, terminals, exports,
                       detected>>
    BY DEF InitPartial, MayInit, Fails, Idle, DlOpen
  <1>2. inits \in Nat /\ failures \in Nat /\ inits' \in 0..MaxInits
        /\ failures' \in 0..MaxFailures /\ failures' # 0
        /\ ICounter \in Nat /\ lastCtn \in Nat /\ loaded \in [Libs -> Nat]
    BY <1>1, BoundAssumption DEF IInv, TypeOK
  <1>3. pCT' \in [Functions -> Libs \cup {NoLib}]
    BY <1>1, ResolvedFacts, LibFacts DEF IInv
  <1>4. /\ loaded' \in [Libs -> Nat] /\ loaded'[CtapiLib] = loaded[CtapiLib] + 1
        /\ \A lib \in Libs \ {CtapiLib} : loaded'[lib] = loaded[lib]
        /\ \A lib \in Libs : loaded[lib] = 0
    <2>1. \A lib \in Libs : loaded[lib] = 0
      BY <1>1, <1>2, LibFacts DEF IInv, InUse
    <2> QED BY <1>1, <1>2, <2>1, LibFacts
  <1>5. OpenReaders = {} /\ OpenReaders' = {} /\ ~Full(CtapiLib)
    <2>1. OpenReaders = {}
      BY <1>1, NoLibraryNoReader
    <2> QED BY <1>1, <2>1 DEF OpenReaders, Open, InitPartial, Partly, Full
  <1>6. TypeOK'
    BY <1>1, <1>2, <1>3, <1>4, LibFacts DEF IInv, TypeOK
  <1>7. Counted' /\ Numbered'
    BY <1>1, <1>2, <1>5, LibFacts
    DEF IInv, Counted, CounterCoversReaders, Numbered
  <1>8. InUse'
    BY <1>1, <1>4, <1>5, LibFacts DEF IInv, InUse, Full
  <1> QED BY <1>6, <1>7, <1>8 DEF IInv, NumbersLast

(* A call of scCtapiInit that counts up and then sets up no reader.        *)
LEMMA InitFailsInv ==
  ASSUME IInv, NEW r \in Readers, InitBadParam(r) \/ InitTerminalFails(r)
  PROVE  IInv'
  <1>1. /\ inits' = inits + 1 /\ inits < MaxInits /\ di = 0 /\ di' = di
        /\ failures' = failures + 1 /\ failures < MaxFailures
        /\ LoadLibrary /\ UNCHANGED <<ri, libHandle, exports, detected>>
    BY DEF InitBadParam, InitTerminalFails, MayInit, Fails, Idle
  <1>2. inits \in Nat /\ failures \in Nat /\ inits' \in 0..MaxInits
        /\ failures' \in 0..MaxFailures /\ failures' # 0
        /\ ICounter \in Nat /\ lastCtn \in Nat
    BY <1>1, BoundAssumption DEF IInv, TypeOK
  <1>3. /\ handle' = CtapiLib
        /\ pCT' \in [Functions -> Libs \cup {NoLib}]
        /\ loaded' \in [Libs -> Nat]
        /\ ~detected => loaded'[CtapiLib] > 0
        /\ ~detected /\ Full(CtapiLib) =>
              \A f \in Functions : pCT'[f] = CtapiLib
        /\ \A lib \in Libs : loaded'[lib] <= IF lib = handle' THEN 1 ELSE 0
        /\ ICounter' = ICounter + 1
    BY <1>1, Loads
  <1>4. /\ lastCtn' \in 0..(CtnMod - 1) /\ lastCtn <= lastCtn'
        /\ lastCtn' <= lastCtn + 1
    <2>1. CASE InitBadParam(r)
      BY <1>2, <2>1 DEF InitBadParam, IInv, TypeOK
    <2>2. CASE InitTerminalFails(r)
      BY <1>1, <1>2, <2>2, NextCtnType DEF InitTerminalFails
    <2> QED BY <2>1, <2>2
  <1>5. /\ terminals' \in [Libs -> SUBSET (0..(CtnMod - 1))]
        /\ terminals[CtapiLib] \subseteq terminals'[CtapiLib]
    <2>1. /\ terminals \in [Libs -> SUBSET (0..(CtnMod - 1))]
          /\ lastCtn \in 0..(CtnMod - 1)
      BY DEF IInv, TypeOK
    <2>2. CASE InitBadParam(r)
      BY <2>1, <2>2 DEF InitBadParam
    <2>3. CASE InitTerminalFails(r)
      <3> DEFINE target == pCT'["init"]
      <3>1. PICK kept \in {{}, {lastCtn}} :
               terminals' = [terminals EXCEPT ![target] = @ \cup kept]
        BY <2>3 DEF InitTerminalFails
      <3>2. target \in Libs
        BY <1>3, <2>3 DEF InitTerminalFails, Calls, Functions
      <3> HIDE DEF target
      <3>3. terminals[target] \cup kept \in SUBSET (0..(CtnMod - 1))
        BY <2>1, <3>1, <3>2
      <3> QED BY <2>1, <3>1, <3>2, <3>3, LibFacts
    <2> QED BY <2>2, <2>3
  <1>6. OpenReaders' = OpenReaders /\ \A q \in OpenReaders : ri[q].ctn \in Nat
    BY <1>1 DEF OpenReaders, Open, IInv, TypeOK
  <1>7. ICounter' \in 0..MaxInits /\ ICounter' <= inits'
    BY <1>1, <1>2, <1>3, BoundAssumption DEF IInv, Counted
  <1>8. TypeOK'
    BY <1>1, <1>2, <1>3, <1>4, <1>5, <1>7, LibFacts DEF IInv, TypeOK
  <1>9. Counted'
    BY <1>2, <1>3, <1>6, <1>7, OpenFinite, LibFacts
    DEF IInv, Counted, CounterCoversReaders
  <1>10. InUse'
    BY <1>1, <1>2, <1>3, LibFacts DEF IInv, InUse, Full
  <1>11. Numbered'
    BY <1>1, <1>2, <1>4, <1>5, <1>6 DEF IInv, Numbered, Full
  <1> QED BY <1>8, <1>9, <1>10, <1>11 DEF IInv, NumbersLast

LEMMA InitReaderInv ==
  ASSUME IInv, NEW r \in Readers, InitReader(r)
  PROVE  IInv'
  <1>1. /\ inits' = inits + 1 /\ inits < MaxInits /\ di = 0 /\ di' = di
        /\ failures' = failures /\ LoadLibrary /\ UNCHANGED <<libHandle, exports, detected>>
        /\ r \notin OpenReaders
    BY DEF InitReader, MayInit, Works, Idle, OpenReaders
  <1>2. inits \in Nat /\ inits' \in 0..MaxInits /\ ICounter \in Nat
        /\ lastCtn \in Nat /\ lastCtn \in 0..(CtnMod - 1)
    BY <1>1, BoundAssumption DEF IInv, TypeOK
  <1>3. /\ handle' = CtapiLib
        /\ pCT' \in [Functions -> Libs \cup {NoLib}]
        /\ loaded' \in [Libs -> Nat]
        /\ ~detected => loaded'[CtapiLib] > 0
        /\ ~detected /\ Full(CtapiLib) =>
              \A f \in Functions : pCT'[f] = CtapiLib
        /\ \A lib \in Libs : loaded'[lib] <= IF lib = handle' THEN 1 ELSE 0
        /\ ICounter' = ICounter + 1
    BY <1>1, Loads
  <1>4. lastCtn' = lastCtn + 1 /\ lastCtn' \in 0..(CtnMod - 1)
    BY <1>1, NextCtnType DEF InitReader
  <1>5. /\ terminals' \in [Libs -> SUBSET (0..(CtnMod - 1))]
        /\ Full(CtapiLib) /\ ~detected =>
              terminals'[CtapiLib] = terminals[CtapiLib] \cup {lastCtn}
    <2> DEFINE target == pCT'["init"]
    <2>1. terminals \in [Libs -> SUBSET (0..(CtnMod - 1))]
      BY DEF IInv, TypeOK
    <2>2. terminals' = [terminals EXCEPT ![target] = @ \cup {lastCtn}]
      BY DEF InitReader
    <2>3. target \in Libs /\ (Full(CtapiLib) /\ ~detected => target = CtapiLib)
      BY <1>3 DEF InitReader, Calls, Functions
    <2> HIDE DEF target
    <2>4. terminals[target] \cup {lastCtn} \in SUBSET (0..(CtnMod - 1))
      BY <1>2, <2>1, <2>3
    <2> QED BY <2>1, <2>2, <2>3, <2>4, LibFacts
  <1>6. /\ ri' \in [Readers -> [open : BOOLEAN, ctn : 0..(CtnMod - 1)]]
        /\ ri'[r] = [open |-> TRUE, ctn |-> lastCtn]
        /\ \A q \in Readers \ {r} : ri'[q] = ri[q]
    BY <1>2 DEF InitReader, IInv, TypeOK
  <1>7. OpenReaders' = OpenReaders \cup {r}
    BY <1>6 DEF OpenReaders, Open
  <1>8. Cardinality(OpenReaders') = Cardinality(OpenReaders) + 1
    BY <1>1, <1>7, OpenFinite, FS_AddElement
  <1>9. ICounter' \in 0..MaxInits /\ ICounter' <= inits'
    BY <1>1, <1>2, <1>3, BoundAssumption DEF IInv, Counted
  <1>10. TypeOK'
    BY <1>1, <1>2, <1>3, <1>4, <1>5, <1>6, <1>9, LibFacts DEF IInv, TypeOK
  <1>11. Counted'
    BY <1>1, <1>2, <1>3, <1>8, <1>9, OpenFinite, LibFacts
    DEF IInv, Counted, CounterCoversReaders
  <1>12. InUse'
    BY <1>1, <1>3, LibFacts DEF IInv, InUse, Full
  <1>13. Numbered'
    <2>1. \A q \in OpenReaders : ri[q].ctn \in Nat
      BY DEF OpenReaders, IInv, TypeOK
    <2>2. \A q \in OpenReaders : q \in Readers \ {r}
      BY <1>1 DEF OpenReaders
    <2>3. \A q \in OpenReaders :
             /\ ri'[q].ctn = ri[q].ctn /\ ri[q].ctn < lastCtn
             /\ Full(CtapiLib) /\ ~detected => ri[q].ctn \in terminals[CtapiLib]
      BY <1>6, <2>2 DEF IInv, Numbered
    <2>4. ri'[r].ctn = lastCtn
      BY <1>6
    <2>5. \A q, s \in OpenReaders' : ri'[q].ctn = ri'[s].ctn => q = s
      BY <1>2, <1>7, <2>1, <2>3, <2>4 DEF IInv, Numbered
    <2>6. \A q \in OpenReaders' :
             /\ ri'[q].ctn < lastCtn'
             /\ Full(CtapiLib) /\ ~detected' => ri'[q].ctn \in terminals'[CtapiLib]
      BY <1>1, <1>2, <1>4, <1>5, <1>7, <2>1, <2>3, <2>4
    <2> QED BY <1>1, <1>2, <1>4, <2>5, <2>6 DEF IInv, Numbered, Full
  <1> QED BY <1>10, <1>11, <1>12, <1>13 DEF IInv, NumbersLast

LEMMA CloseFailsInv ==
  ASSUME IInv, NEW r \in Readers, CloseFails(r)
  PROVE  IInv'
  <1>1. /\ failures' = failures + 1 /\ failures < MaxFailures
        /\ UNCHANGED <<handle, pCT, ICounter, lastCtn, ri, libHandle, di,
                       loaded, terminals, exports, detected, inits>>
    BY DEF CloseFails, Fails
  <1>2. failures' \in 0..MaxFailures /\ failures' # 0
    BY <1>1, BoundAssumption DEF IInv, TypeOK
  <1>3. TypeOK'
    BY <1>1, <1>2 DEF IInv, TypeOK
  <1>4. OpenReaders' = OpenReaders
    BY <1>1 DEF OpenReaders, Open
  <1>5. Counted' /\ InUse' /\ Numbered'
    BY <1>1, <1>2, <1>4
    DEF IInv, Counted, CounterCoversReaders, InUse, Numbered, Full
  <1> QED BY <1>3, <1>5 DEF IInv, NumbersLast

LEMMA ShutdownInv ==
  ASSUME IInv, NEW r \in Readers, Shutdown(r)
  PROVE  IInv'
  <1>1. /\ di = 0 /\ r \in OpenReaders /\ ICounter' = ICounter - 1
        /\ UNCHANGED <<pCT, lastCtn, libHandle, di, exports, inits, failures>>
        /\ ri' = [ri EXCEPT ![r].open = FALSE]
        /\ detected' = (detected /\ handle' # NoLib)
    BY DEF Shutdown, Idle, Works, OpenReaders
  <1>2. /\ ri \in [Readers -> [open : BOOLEAN, ctn : 0..(CtnMod - 1)]]
        /\ loaded \in [Libs -> Nat] /\ ICounter \in 0..MaxInits
        /\ terminals \in [Libs -> SUBSET (0..(CtnMod - 1))]
        /\ MaxInits \in Nat /\ inits \in Nat
    BY BoundAssumption DEF IInv, TypeOK
  <1>3. /\ ri' \in [Readers -> [open : BOOLEAN, ctn : 0..(CtnMod - 1)]]
        /\ ri'[r].open = FALSE
        /\ \A q \in Readers \ {r} : ri'[q] = ri[q]
    BY <1>1, <1>2
  <1>4. OpenReaders' = OpenReaders \ {r}
    BY <1>3 DEF OpenReaders, Open
  <1>5. /\ Cardinality(OpenReaders') = Cardinality(OpenReaders) - 1
        /\ Cardinality(OpenReaders) <= ICounter
    BY <1>1, <1>4, OpenFinite, FS_RemoveElement DEF IInv, Counted, CounterCoversReaders
  <1>6. IsFiniteSet(OpenReaders') /\ Cardinality(OpenReaders') \in Nat
    BY <1>4, OpenFinite, FS_RemoveElement, FS_CardinalityType
  <1>7. ICounter' \in 0..MaxInits /\ ICounter' <= inits'
    BY <1>1, <1>2, <1>5, <1>6, OpenFinite DEF IInv, Counted
  <1>8. handle = CtapiLib /\ handle # NoLib
    BY <1>1, NoLibraryNoReader, LibFacts DEF IInv, InUse
  <1>9. /\ loaded' \in [Libs -> Nat]
        /\ handle' = IF ICounter' = 0 THEN NoLib ELSE CtapiLib
        /\ ICounter' # 0 => loaded' = loaded
        /\ ICounter' = 0 => loaded' = DlClose(CtapiLib, loaded)
    BY <1>2, <1>8, LibFacts, LinkerType DEF Shutdown
  <1>10. /\ terminals' \in [Libs -> SUBSET (0..(CtnMod - 1))]
         /\ ICounter' # 0 /\ ~detected =>
               terminals[CtapiLib] \ {ri[r].ctn} \subseteq terminals'[CtapiLib]
    <2> DEFINE target == pCT["close"]
               left == [terminals EXCEPT ![target] = @ \ {ri[r].ctn}]
    <2>1. terminals' = Connected(loaded', left)
      BY DEF Shutdown
    <2>2. target \in Libs
      BY DEF Shutdown, Calls, IInv, TypeOK, Functions
    <2> HIDE DEF target
    <2>3. left \in [Libs -> SUBSET (0..(CtnMod - 1))]
      <3>1. terminals[target] \ {ri[r].ctn} \in SUBSET (0..(CtnMod - 1))
        BY <1>2, <2>2
      <3> QED BY <1>2, <3>1
    <2>4. terminals[CtapiLib] \ {ri[r].ctn} \subseteq left[CtapiLib]
      BY <1>2, <2>2, LibFacts
    <2> HIDE DEF left
    <2>5. terminals' \in [Libs -> SUBSET (0..(CtnMod - 1))]
      BY <2>1, <2>3, ConnectedType
    <2>6. ASSUME ICounter' # 0, ~detected
          PROVE  terminals'[CtapiLib] = left[CtapiLib]
      <3>1. loaded'[CtapiLib] # 0
        BY <1>8, <1>9, <2>6 DEF IInv, InUse
      <3> QED BY <2>1, <3>1, LibFacts DEF Connected
    <2> QED BY <2>4, <2>5, <2>6
  <1>11. TypeOK'
    BY <1>1, <1>3, <1>7, <1>9, <1>10, LibFacts DEF IInv, TypeOK
  <1>12. Counted'
    BY <1>1, <1>2, <1>5, <1>6, <1>7, <1>9, OpenFinite, LibFacts
    DEF IInv, Counted, CounterCoversReaders
  <1>13. InUse'
    <2>1. ASSUME NEW lib \in Libs
          PROVE  loaded'[lib] <= IF lib = handle' THEN 1 ELSE 0
      <3>1. loaded[lib] \in Nat /\ loaded[lib] <= IF lib = CtapiLib THEN 1 ELSE 0
        BY <1>2, <1>8 DEF IInv, InUse
      <3>2. CASE ICounter' = 0
        BY <1>2, <1>9, <3>1, <3>2, LibFacts DEF DlClose
      <3>3. CASE ICounter' # 0
        BY <1>9, <3>1, <3>3
      <3> QED BY <3>2, <3>3
    <2>2. handle' # NoLib /\ ~detected' =>
             /\ loaded'[CtapiLib] > 0
             /\ Full(CtapiLib) => \A f \in Functions : pCT'[f] = CtapiLib
      BY <1>1, <1>8, <1>9 DEF IInv, InUse, Full
    <2>3. /\ di' # 0 /\ ~detected' => handle' = NoLib
          /\ detected' => handle' # NoLib
          /\ handle' # NoLib => handle' = CtapiLib
      BY <1>1, <1>9
    <2> QED BY <1>1, <2>1, <2>2, <2>3 DEF InUse, Full
  <1>14. Numbered'
    <2>1. \A q \in OpenReaders' : q \in OpenReaders /\ q # r /\ ri'[q] = ri[q]
      BY <1>3, <1>4 DEF OpenReaders
    <2>2. OpenReaders' # {} => ICounter' # 0
      BY <1>1, <1>2, <1>5, <1>6, OpenFinite, FS_EmptySet
    <2>3. ICounter' # 0 => detected' = detected
      BY <1>1, <1>9, LibFacts DEF IInv, TypeOK
    <2> QED BY <1>1, <1>10, <2>1, <2>2, <2>3 DEF IInv, Numbered, Full
  <1> QED BY <1>11, <1>12, <1>13, <1>14 DEF IInv, NumbersLast

(* Detection, whether anything is loaded for a reader or not: no turn of   *)
(* it touches the handle or the counter, and a library is closed at least  *)
(* as often as it is opened.                                               *)
LEMMA DetectInv ==
  ASSUME IInv, \/ Detect \/ DetectAbsent \/ DetectPartial
               \/ DetectNoTerminal \/ DetectTerminal \/ DetectNone
  PROVE  IInv'
  <1>1. UNCHANGED <<handle, ICounter, lastCtn, ri, exports, inits, failures>>
    BY DEF Detect, DetectAbsent, DetectPartial, DetectNoTerminal,
           DetectTerminal, DetectNone
  <1>2. /\ OpenReaders' = OpenReaders
        /\ detected' \in BOOLEAN
        /\ detected' => handle # NoLib
        /\ ~detected' => handle = NoLib
    <2>0. OpenReaders' = OpenReaders
      BY <1>1 DEF OpenReaders, Open
    <2>1. CASE Detect
      <3>1. detected' = (handle # NoLib)
        BY <2>1 DEF Detect
      <3> QED BY <2>0, <3>1
    <2>2. CASE ~Detect
      <3>1. di # 0 /\ UNCHANGED detected
        BY <2>2, LibAssumption DEF DetectAbsent, DetectPartial, DetectNoTerminal,
           DetectTerminal, DetectNone, Turn
      <3> QED BY <2>0, <3>1 DEF IInv, InUse, TypeOK
    <2> QED BY <2>1, <2>2
  <1>3. /\ pCT \in [Functions -> Libs \cup {NoLib}]
        /\ libHandle \in Libs \cup {NoLib} /\ loaded \in [Libs -> Nat]
        /\ terminals \in [Libs -> SUBSET (0..(CtnMod - 1))]
        /\ di \in 0..(Len(LibName) + 1) /\ Len(LibName) \in Nat
    BY LibAssumption DEF IInv, TypeOK
  <1>4. Turn => LibName[di] \in Libs /\ di \in 1..Len(LibName)
    BY LibAssumption DEF Turn
  <1>5. di' \in 0..(Len(LibName) + 1)
    BY <1>3, <1>4 DEF Detect, DetectAbsent, DetectPartial, DetectNoTerminal,
                      DetectTerminal, DetectNone
  <1>6. libHandle' \in Libs \cup {NoLib}
    BY <1>3, <1>4 DEF Detect, DetectAbsent, DetectPartial, DetectNoTerminal,
                      DetectTerminal, DetectNone
  <1>7. loaded' = loaded \/ loaded' = ClosedAgain
    BY DEF Detect, DetectAbsent, DetectPartial, DetectNoTerminal,
           DetectTerminal, DetectNone
  <1>8. /\ loaded' \in [Libs -> Nat]
        /\ \A lib \in Libs : loaded'[lib] <= loaded[lib]
    BY <1>3, <1>7 DEF ClosedAgain, DlClose
  <1>9. pCT' \in [Functions -> Libs \cup {NoLib}]
    BY <1>3, <1>4, ResolvedFacts DEF IInv, Detect, DetectAbsent, DetectPartial, DetectNoTerminal,
                      DetectTerminal, DetectNone
  <1>10. terminals' \in [Libs -> SUBSET (0..(CtnMod - 1))]
    <2>1. CASE Detect
      BY <1>3, <2>1 DEF Detect
    <2>2. CASE DetectAbsent \/ DetectPartial \/ DetectNone
      BY <1>3, <2>2, ConnectedType DEF DetectAbsent, DetectPartial, DetectNone
    <2>3. CASE DetectNoTerminal \/ DetectTerminal
      <3>1. di % CtnMod \in 0..(CtnMod - 1) /\ LibName[di] \in Libs
        BY <1>3, <1>4, <2>3, BoundAssumption DEF DetectNoTerminal, DetectTerminal
      <3>2. PICK now \in SUBSET (0..(CtnMod - 1)) :
               terminals' = Connected(loaded', [terminals EXCEPT ![LibName[di]] = now])
        <4> DEFINE n == di % CtnMod
                   before == terminals[LibName[di]]
        <4>1. before \in SUBSET (0..(CtnMod - 1))
          BY <1>3, <3>1
        <4>2. CASE DetectNoTerminal
          <5>1. PICK left, closed \in {{}, {n}} :
                   terminals' = Connected(loaded',
                      [terminals EXCEPT ![LibName[di]] = (before \cup left) \ closed])
            BY <4>2 DEF DetectNoTerminal
          <5>2. (before \cup left) \ closed \in SUBSET (0..(CtnMod - 1))
            BY <3>1, <4>1, <5>1
          <5> QED BY <5>1, <5>2
        <4>3. CASE DetectTerminal
          <5>1. before \ {n} \in SUBSET (0..(CtnMod - 1))
            BY <4>1
          <5> QED BY <4>3, <5>1 DEF DetectTerminal
        <4> QED BY <2>3, <4>2, <4>3
      <3> DEFINE open == [terminals EXCEPT ![LibName[di]] = now]
      <3>3. open \in [Libs -> SUBSET (0..(CtnMod - 1))]
        BY <1>3, <3>1, <3>2
      <3> HIDE DEF open
      <3> QED BY <3>2, <3>3, ConnectedType DEF open
    <2> QED BY <2>1, <2>2, <2>3
  <1>11. TypeOK'
    BY <1>1, <1>2, <1>5, <1>6, <1>8, <1>9, <1>10 DEF IInv, TypeOK
  <1>12. Counted' /\ Numbered'
    BY <1>1, <1>2, NoLibraryNoReader DEF IInv, Counted, CounterCoversReaders, Numbered
  <1>13. InUse'
    <2>1. ASSUME NEW lib \in Libs
          PROVE  loaded'[lib] <= IF lib = handle' THEN 1 ELSE 0
      <3>1. loaded[lib] \in Nat /\ loaded'[lib] \in Nat
            /\ loaded[lib] <= IF lib = handle' THEN 1 ELSE 0
        BY <1>1, <1>3, <1>8 DEF IInv, InUse
      <3> QED BY <1>8, <3>1
    <2> QED BY <1>1, <1>2, <2>1 DEF IInv, InUse, Full
  <1> QED BY <1>11, <1>12, <1>13 DEF IInv, NumbersLast

-------------------------------------------------------------------------------
LEMMA InitInv == NumbersLast /\ Init => IInv
  <1> SUFFICES ASSUME NumbersLast, Init PROVE IInv
    OBVIOUS
  <1>1. OpenReaders = {} /\ Cardinality(OpenReaders) = 0
    <2>1. OpenReaders = {}
      BY DEF Init, OpenReaders, Open
    <2> QED BY <2>1, FS_EmptySet
  <1>2. TypeOK
    <2>1. Len(LibName) \in Nat /\ 0 \in 0..(CtnMod - 1)
      BY BoundAssumption, LibAssumption
    <2>2. detected \in BOOLEAN
      BY DEF Init
    <2> QED BY <2>1, <2>2, BoundAssumption DEF Init, TypeOK
  <1>3. Counted /\ InUse /\ Numbered
    BY <1>1, LibFacts DEF Init, Counted, CounterCoversReaders, InUse, Numbered
  <1> QED BY <1>2, <1>3 DEF IInv

LEMMA StepInv == IInv /\ [Next]_vars => IInv'
  <1> SUFFICES ASSUME IInv, [Next]_vars PROVE IInv'
    OBVIOUS
  <1>1. CASE UNCHANGED vars
    <2>1. OpenReaders' = OpenReaders
      BY <1>1 DEF vars, OpenReaders, Open
    <2> QED BY <1>1, <2>1 DEF vars, IInv, NumbersLast, TypeOK, Counted,
                             CounterCoversReaders, InUse, Numbered, Full
  <1>2. CASE Next
    BY <1>2, NoLibraryInv, InitPartialInv, InitFailsInv, InitReaderInv, CloseFailsInv,
       ShutdownInv, DetectInv
    DEF Next
  <1> QED BY <1>1, <1>2

THEOREM Invariance == NumbersLast /\ Spec => []IInv
  BY InitInv, StepInv, PTL DEF Spec

(* Every open reader has its library loaded, all function pointers lead    *)
(* into it and it knows the reader's terminal, whatever other readers do,  *)
(* until a detection begins while the library is held; provided the        *)
(* library exports the three functions.                                    *)
THEOREM ReadersServed == NumbersLast /\ Spec => []OpenReadersServed
  <1>1. IInv => OpenReadersServed
    <2> SUFFICES ASSUME IInv, Full(CtapiLib), ~detected, NEW r \in OpenReaders
                 PROVE  /\ \A f \in Functions : pCT[f] = handle
                        /\ handle # NoLib /\ loaded[handle] > 0
                        /\ ri[r].ctn \in terminals[handle]
      BY DEF OpenReadersServed
    <2>1. handle # NoLib
      BY NoLibraryNoReader
    <2> QED BY <2>1 DEF IInv, InUse, Numbered
  <1> QED BY <1>1, Invariance, PTL

(* No Shutdown takes the library from another reader: the use counter is   *)
(* never below the number of open readers.                                 *)
THEOREM CounterCovers == NumbersLast /\ Spec => []CounterCoversReaders
  <1>1. IInv => CounterCoversReaders
    BY DEF IInv, Counted
  <1> QED BY <1>1, Invariance, PTL

(* No order of Shutdowns and failed calls unloads the library before the   *)
(* counter has come back to 0: only a detection does.                      *)
THEOREM LoadedWhileCounted == NumbersLast /\ Spec => []OnlyDetectUnloadsCounted
  <1>1. IInv => OnlyDetectUnloadsCounted
    BY DEF IInv, InUse, OnlyDetectUnloadsCounted, UnloadedOnlyAtZero
  <1> QED BY <1>1, Invariance, PTL

(* As long as nothing fails, the last Shutdown gives the library back, and *)
(* no dlopen is left without its dlclose, whenever detections have run.    *)
THEOREM NothingLeftLoaded == NumbersLast /\ Spec => []UnloadedWithLastReader
  <1>1. IInv => UnloadedWithLastReader
    <2> SUFFICES ASSUME IInv, failures = 0, OpenReaders = {}
                 PROVE  handle = NoLib /\ \A lib \in Libs : loaded[lib] = 0
      BY DEF UnloadedWithLastReader
    <2>1. ICounter = 0
      BY FS_EmptySet DEF IInv, Counted
    <2>2. handle = NoLib
      BY <2>1 DEF IInv, Counted
    <2>3. ASSUME NEW lib \in Libs PROVE loaded[lib] = 0
      BY <2>2, LibFacts DEF IInv, InUse, TypeOK
    <2> QED BY <2>2, <2>3
  <1> QED BY <1>1, Invariance, PTL
===============================================================================
