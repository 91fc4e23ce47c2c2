--------------------------------- MODULE Ctapi ---------------------------------
(***************************************************************************)
(* The CT-API driver: several readers of one process share one loaded      *)
(* terminal library, its function pointers, a use counter and a source of  *)
(* terminal numbers.  Source: scez/scctapi.c, the branch for libdl; of the *)
(* calls through the pointers only CT_init and CT_close change what is     *)
(* shared, so CT_data appears as the reset of Init and of Detect.          *)
(*                                                                         *)
(* The dynamic linker is external: it counts dlopens per library, gives    *)
(* every dlopen of a library the same handle, ignores a dlclose of a       *)
(* library that is not loaded, and unloads at zero, which ends the         *)
(* library's connections to its terminals.  A call through a pointer that  *)
(* leads into no loaded library ends the process: no step follows it.      *)
(***************************************************************************)
EXTENDS Integers, FiniteSets, Sequences

CONSTANTS
    Readers,      \* the SC_READER_INFOs of the process
    LibName,      \* the names that scCtapiDetect tries, in its order
    CtapiLib,     \* SC_CTAPI_LIB, the library of scCtapiInit
    Installed,    \* the libraries that are there
    Exports,      \* what they may export: which of the three functions each
    NoLib,        \* the NULL handle
    CtnMod,       \* 2^16 in the code: a terminal number is a WORD
    MaxInits,     \* bound: calls of scCtapiInit
    MaxFailures   \* bound: calls of the terminal that fail in Init, Shutdown

Libs == {LibName[i] : i \in DOMAIN LibName} \cup {CtapiLib}
Functions == {"init", "data", "close"}

ASSUME LibAssumption ==
    /\ NoLib \notin Libs
    /\ LibName \in Seq(Libs)
    /\ Installed \subseteq Libs
    /\ Exports \subseteq [Installed -> SUBSET Functions]
ASSUME BoundAssumption ==
    /\ IsFiniteSet(Readers)
    /\ CtnMod \in Nat \ {0} /\ MaxInits \in Nat /\ MaxFailures \in Nat

VARIABLES
    handle,     \* scCtapiLibHandle
    pCT,        \* pCT_init, pCT_data, pCT_close: the library each points into
    ICounter,   \* scCtapiICounter
    lastCtn,    \* scCtapiLastCtHandle
    ri,         \* the readers that scCtapiInit has set up: open?, ctn
    libHandle,  \* scCtapiDetect's static LibHandle
    di,         \* its loop: 0 when no scCtapiDetect runs
    loaded,     \* the linker: dlopens not yet closed, for each library
    terminals,  \* the terminal numbers open in each library
    exports,    \* the functions that each library exports, which stay
    detected,   \* history: has a scCtapiDetect begun since scCtapiInit loaded
                \* the library that it still holds?
    inits, failures   \* history: calls of Init, and calls that went wrong

vars == <<handle, pCT, ICounter, lastCtn, ri, libHandle, di, loaded,
          terminals, exports, detected, inits, failures>>

Open(r) == ri[r].open
Fails == failures < MaxFailures /\ failures' = failures + 1
Works == UNCHANGED failures
Calls(f) == pCT[f] # NoLib /\ loaded[pCT[f]] > 0

DlOpen(lib, count) == [count EXCEPT ![lib] = @ + 1]
DlClose(lib, count) ==
    IF lib = NoLib \/ count[lib] = 0 THEN count
                                     ELSE [count EXCEPT ![lib] = @ - 1]
(* The three dlsyms, in their order, up to the first that fails: the       *)
(* pointer it was for is NULL, those after it are as they were.            *)
Full(lib) == lib \in Installed /\ exports[lib] = Functions
Partly(lib) == lib \in Installed /\ exports[lib] # Functions
Before(f) == CASE f = "init"  -> {}
               [] f = "data"  -> {"init"}
               [] f = "close" -> {"init", "data"}
Resolved(lib) ==
    [f \in Functions |->
       IF ~(Before(f) \subseteq exports[lib]) THEN pCT[f]
       ELSE IF f \in exports[lib] THEN lib ELSE NoLib]

(* What an unloaded library forgets.                                       *)
Connected(count, open) ==
    [lib \in Libs |-> IF count[lib] = 0 THEN {} ELSE open[lib]]

Init ==
    /\ handle = NoLib /\ libHandle = NoLib /\ di = 0
    /\ pCT = [f \in Functions |-> NoLib]
    /\ ICounter = 0 /\ lastCtn = 0
    /\ ri = [r \in Readers |-> [open |-> FALSE, ctn |-> 0]]
    /\ loaded = [lib \in Libs |-> 0] /\ terminals = [lib \in Libs |-> {}]
    /\ exports \in Exports /\ detected = FALSE /\ inits = 0 /\ failures = 0

Idle == di = 0

-----------------------------------------------------------------------------
(* scCtapiInit.                                                            *)

(* The application uses a fresh SC_READER_INFO.                            *)
MayInit(r) == Idle /\ ~Open(r) /\ inits < MaxInits

(* Slip: only the Init that loads the library is counted.                  *)
LoadCountsLoads ==
    IF handle = NoLib
       THEN /\ Full(CtapiLib)
            /\ handle' = CtapiLib
            /\ pCT' = Resolved(CtapiLib)
            /\ loaded' = DlOpen(CtapiLib, loaded)
            /\ ICounter' = ICounter + 1
       ELSE UNCHANGED <<handle, pCT, loaded, ICounter>>

(* The part that ends with the counter: "if( scCtapiLibHandle==NULL )".    *)
LoadLibrary ==
    /\ IF handle = NoLib
          THEN /\ Full(CtapiLib)
               /\ handle' = CtapiLib
               /\ pCT' = Resolved(CtapiLib)
               /\ loaded' = DlOpen(CtapiLib, loaded)
          ELSE UNCHANGED <<handle, pCT, loaded>>
    /\ ICounter' = ICounter + 1

(* dlopen fails: no such library, or no memory for it.                     *)
InitNoLibrary(r) ==
    /\ MayInit(r) /\ handle = NoLib
    /\ Fails
    /\ inits' = inits + 1
    /\ UNCHANGED <<handle, pCT, ICounter, lastCtn, ri, libHandle, di, loaded,
                   terminals, exports, detected>>

(* dlsym does not find one of the functions.  The handle stays set, and    *)
(* the next Init goes on with the pointers as they are.                    *)
InitPartial(r) ==
    /\ MayInit(r) /\ handle = NoLib /\ Partly(CtapiLib)
    /\ handle' = CtapiLib
    /\ pCT' = Resolved(CtapiLib)
    /\ loaded' = DlOpen(CtapiLib, loaded)
    /\ Fails
    /\ inits' = inits + 1
    /\ UNCHANGED <<ICounter, lastCtn, ri, libHandle, di, terminals, exports,
                   detected>>

(* sscanf does not find a port number in param.                            *)
InitBadParam(r) ==
    /\ MayInit(r) /\ LoadLibrary /\ Fails
    /\ inits' = inits + 1
    /\ UNCHANGED <<lastCtn, ri, libHandle, di, terminals, exports, detected>>

(* Slip: the number is used and kept.                                       *)
SameCtn == lastCtn

NextCtn == (lastCtn + 1) % CtnMod

(* CT_init, or the reset of the terminal after it, reports an error: the   *)
(* terminal stays open in the library after the second.                    *)
InitTerminalFails(r) ==
    /\ MayInit(r) /\ LoadLibrary /\ Fails /\ Calls("init")'
    /\ lastCtn' = NextCtn
    /\ \E kept \in {{}} \cup (IF Calls("data")' THEN {{lastCtn}} ELSE {}) :
          terminals' = [terminals EXCEPT ![pCT'["init"]] = @ \cup kept]
    /\ inits' = inits + 1
    /\ UNCHANGED <<ri, libHandle, di, exports, detected>>

InitReader(r) ==
    /\ MayInit(r) /\ LoadLibrary /\ Works /\ Calls("init")' /\ Calls("data")'
    /\ lastCtn' = NextCtn
    /\ terminals' = [terminals EXCEPT ![pCT'["init"]] = @ \cup {lastCtn}]
    /\ ri' = [ri EXCEPT ![r] = [open |-> TRUE, ctn |-> lastCtn]]
    /\ inits' = inits + 1
    /\ UNCHANGED <<libHandle, di, exports, detected>>

-----------------------------------------------------------------------------
(* scCtapiShutdown, of a reader that is set up.                            *)

CloseFails(r) ==
    /\ Idle /\ Open(r) /\ Fails /\ Calls("close")
    /\ UNCHANGED <<handle, pCT, ICounter, lastCtn, ri, libHandle, di, loaded,
                   terminals, exports, detected, inits>>

(* Slip: the handle is not set to NULL.                                    *)
ShutdownKeepsHandle(r) ==
    /\ Idle /\ Open(r) /\ Works /\ Calls("close")
    /\ ICounter' = ICounter - 1
    /\ loaded' = IF ICounter' = 0 THEN DlClose(handle, loaded) ELSE loaded
    /\ terminals' = Connected(loaded',
          [terminals EXCEPT ![pCT["close"]] = @ \ {ri[r].ctn}])
    /\ ri' = [ri EXCEPT ![r].open = FALSE]
    /\ UNCHANGED <<handle, pCT, lastCtn, libHandle, di, exports, detected, inits>>

(* Slip: the counter is tested before it goes down.                        *)
ShutdownTestsFirst(r) ==
    /\ Idle /\ Open(r) /\ Works /\ Calls("close")
    /\ ICounter' = ICounter - 1
    /\ IF handle # NoLib /\ ICounter = 0
          THEN loaded' = DlClose(handle, loaded) /\ handle' = NoLib
          ELSE UNCHANGED <<handle, loaded>>
    /\ terminals' = Connected(loaded',
          [terminals EXCEPT ![pCT["close"]] = @ \ {ri[r].ctn}])
    /\ ri' = [ri EXCEPT ![r].open = FALSE]
    /\ detected' = (detected /\ handle' # NoLib)
    /\ UNCHANGED <<pCT, lastCtn, libHandle, di, exports, inits>>

Shutdown(r) ==
    /\ Idle /\ Open(r) /\ Works /\ Calls("close")
    /\ ICounter' = ICounter - 1
    /\ IF handle # NoLib /\ ICounter' = 0
          THEN /\ loaded' = DlClose(handle, loaded)
               /\ handle' = NoLib
          ELSE UNCHANGED <<handle, loaded>>
    /\ terminals' = Connected(loaded',
          [terminals EXCEPT ![pCT["close"]] = @ \ {ri[r].ctn}])
    /\ ri' = [ri EXCEPT ![r].open = FALSE]
    /\ detected' = (detected /\ handle' # NoLib)
    /\ UNCHANGED <<pCT, lastCtn, libHandle, di, exports, inits>>

-----------------------------------------------------------------------------
(* scCtapiDetect: one step for each turn of its loop.  The failing turns   *)
(* close the library but leave LibHandle set, so that the next turn, or    *)
(* the end of the loop, closes it again.  Nothing keeps an application     *)
(* from it at any time.                                                    *)

Detect ==
    /\ Idle
    /\ di' = 1
    /\ detected' = (handle # NoLib)
    /\ UNCHANGED <<handle, pCT, ICounter, lastCtn, ri, libHandle, loaded,
                   terminals, exports, inits, failures>>

Turn == di \in DOMAIN LibName
ClosedAgain == DlClose(libHandle, loaded)

(* dlopen finds no such library.                                           *)
DetectAbsent ==
    /\ Turn /\ LibName[di] \notin Installed
    /\ loaded' = ClosedAgain /\ terminals' = Connected(loaded', terminals)
    /\ libHandle' = NoLib
    /\ di' = di + 1
    /\ UNCHANGED <<handle, pCT, ICounter, lastCtn, ri, exports, detected, inits,
                   failures>>

(* dlsym fails for one function: the pointers before it are overwritten.   *)
DetectPartial ==
    /\ Turn /\ Partly(LibName[di])
    /\ pCT' = Resolved(LibName[di])
    /\ loaded' = ClosedAgain /\ terminals' = Connected(loaded', terminals)
    /\ libHandle' = LibName[di]
    /\ di' = di + 1
    /\ UNCHANGED <<handle, ICounter, lastCtn, ri, exports, detected, inits, failures>>

(* The terminal's number is the number of the turn.  CT_init has failed,   *)
(* or it has worked and CT_close has closed the terminal or failed, which  *)
(* leaves it open if the library stays loaded.                             *)
DetectNoTerminal ==
    /\ Turn /\ Full(LibName[di])
    /\ pCT' = Resolved(LibName[di])
    /\ loaded' = ClosedAgain
    /\ \E left, closed \in {{}, {di % CtnMod}} :
          terminals' = Connected(loaded',
             [terminals EXCEPT ![LibName[di]] = (@ \cup left) \ closed])
    /\ libHandle' = LibName[di]
    /\ di' = di + 1
    /\ UNCHANGED <<handle, ICounter, lastCtn, ri, exports, detected, inits, failures>>

DetectTerminal ==
    /\ Turn /\ Full(LibName[di])
    /\ pCT' = Resolved(LibName[di])
    /\ loaded' = ClosedAgain
    /\ terminals' = Connected(loaded',
          [terminals EXCEPT ![LibName[di]] = @ \ {di % CtnMod}])
    /\ libHandle' = NoLib
    /\ di' = 0
    /\ UNCHANGED <<handle, ICounter, lastCtn, ri, exports, detected, inits, failures>>

DetectNone ==
    /\ di = Len(LibName) + 1
    /\ loaded' = ClosedAgain /\ terminals' = Connected(loaded', terminals)
    /\ di' = 0
    /\ UNCHANGED <<handle, pCT, ICounter, lastCtn, ri, libHandle, exports,
                   detected, inits, failures>>

-----------------------------------------------------------------------------
Next ==
    \/ \E r \in Readers :
          \/ InitNoLibrary(r) \/ InitPartial(r) \/ InitBadParam(r)
          \/ InitTerminalFails(r) \/ InitReader(r)
          \/ CloseFails(r) \/ Shutdown(r)
    \/ Detect \/ DetectAbsent \/ DetectPartial \/ DetectNoTerminal
    \/ DetectTerminal \/ DetectNone

Spec == Init /\ [][Next]_vars
-----------------------------------------------------------------------------
(* Properties.                                                             *)

TypeOK ==
    /\ handle \in Libs \cup {NoLib} /\ libHandle \in Libs \cup {NoLib}
    /\ pCT \in [Functions -> Libs \cup {NoLib}]
    /\ ICounter \in 0..MaxInits /\ lastCtn \in 0..(CtnMod - 1)
    /\ ri \in [Readers -> [open : BOOLEAN, ctn : 0..(CtnMod - 1)]]
    /\ di \in 0..(Len(LibName) + 1)
    /\ loaded \in [Libs -> Nat]
    /\ terminals \in [Libs -> SUBSET (0..(CtnMod - 1))]
    /\ exports \in Exports /\ detected \in BOOLEAN
    /\ inits \in 0..MaxInits /\ failures \in 0..MaxFailures

OpenReaders == {r \in Readers : Open(r)}

(* Whoever holds an open reader can use it: the pointers the driver calls  *)
(* through all lead into one library, which is loaded and still has that   *)
(* reader's terminal open, whatever the other readers of the process have  *)
(* done since (the globals of lines 36 to 82), detections before the       *)
(* library was loaded and calls that failed included.  Two cases are out   *)
(* of it: a library that does not export all three functions, which a      *)
(* second Init uses all the same (line 103); and a detection that begins   *)
(* while the driver holds the library, beside an open reader or after an   *)
(* Init that failed, and takes it from all of them until the next load.    *)
OpenReadersServed ==
    Full(CtapiLib) /\ ~detected =>
        \A r \in OpenReaders :
            /\ \A f \in Functions : pCT[f] = handle
            /\ handle # NoLib /\ loaded[handle] > 0
            /\ ri[r].ctn \in terminals[handle]

(* "Counts how many SC_CARD_INFOs use the CT-API driver" (line 45), as far *)
(* as it must: never fewer than do, so that no Shutdown unloads the        *)
(* library of another reader.                                              *)
CounterCoversReaders == ICounter >= Cardinality(OpenReaders)

(* When nothing has failed, the library is gone with the last reader, and  *)
(* the linker holds no reference to any library (lines 182 to 205), even   *)
(* when a detection has closed the library before.                         *)
UnloadedWithLastReader ==
    failures = 0 /\ OpenReaders = {} /\ Idle =>
        handle = NoLib /\ \A lib \in Libs : loaded[lib] = 0

(* "scCtapiShutdown unloads library only when it reaches again 0" (line    *)
(* 46): the library of the readers is loaded while they are counted.       *)
UnloadedOnlyAtZero ==
    handle # NoLib /\ ICounter > 0 => loaded[handle] > 0

(* What is left of that: from Shutdowns and failed calls, in any order,    *)
(* the counted library is safe; only a detection can unload it.            *)
OnlyDetectUnloadsCounted == ~detected => UnloadedOnlyAtZero
===============================================================================
