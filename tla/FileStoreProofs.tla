--------------------------- MODULE FileStoreProofs ---------------------------
(***************************************************************************)
(* Proofs about FileStore, for any states and any number of crashes and    *)
(* power losses: a Save is all or nothing, and the store implements        *)
(* AtomicStore.                                                            *)
(***************************************************************************)
EXTENDS FileStore, TLAPS

-----------------------------------------------------------------------------
(* The inductive invariant                                                 *)

\* The temporary file at each system call of Save: none before it is created or once
\* it is renamed, the bytes to save once written, and synced before the rename.
TempInv ==
    /\ pc \in {"idle", "prepare", "create", "open_dir", "sync_dir"} => tmp = NoFile
    /\ pc \in {"sync", "chmod", "close", "rename"} => tmp.data = arg
    /\ pc \in {"chmod", "close", "rename"} => tmp.synced
    /\ pc \in {"open_dir", "sync_dir"} => file.data = arg
    /\ pc # "idle" => arg \in tried

\* What the state path names, now and on stable storage, is synced, and is the last
\* saved state or one whose Save was started since.
PathInv ==
    /\ file.synced /\ onDisk.synced
    /\ file.data \in {kept} \cup tried
    /\ onDisk.data \in {kept} \cup tried

IInv == TypeOK /\ TempInv /\ PathInv

\* A synced file comes through a power loss as it is.
LEMMA SyncedFileSurvives ==
    ASSUME NEW f \in Files, f.synced
    PROVE  AfterLoss(f) = {f}
  BY DEF AfterLoss, Files

\* As long as only synced files are renamed, a power loss leaves what the state path
\* names now or what it named on stable storage.
LEMMA SurvivorsAreFiles ==
    ASSUME TypeOK, PathInv
    PROVE  Survivors = {file, onDisk}
  BY SyncedFileSurvives DEF Survivors, TypeOK, PathInv

\* What the state path names, or may name after a power loss, decodes.
LEMMA FilesDecode ==
    ASSUME TypeOK, PathInv, NEW f \in {file, onDisk}
    PROVE  Load(f) = f.data /\ f.data \in States \cup {Empty}
  BY StatesAssumption DEF TypeOK, PathInv, Load

-----------------------------------------------------------------------------
(* The invariant holds and is preserved                                    *)

\* The invariant holds initially.
LEMMA IInvInit == Init => IInv
  BY LossesAssumption DEF Init, IInv, TypeOK, TempInv, PathInv, Files, NoFile, PCs

\* Every step keeps the types.
LEMMA TypeStep == IInv /\ [Next]_vars => TypeOK'
<1> SUFFICES ASSUME IInv, [Next]_vars PROVE TypeOK'
  OBVIOUS
<1> USE DEF IInv, TypeOK, PCs
<1>1. ASSUME NEW s \in States, Begin(s) PROVE TypeOK'
  BY <1>1 DEF Begin
<1>2. NoFile \in Files
  BY DEF NoFile, Files
<1>3. CASE Step
  <2>1. tmp' \in Files
    <3>1. \/ tmp' \in {tmp, NoFile, [tmp EXCEPT !.synced = TRUE]}
          \/ tmp' = [data |-> Torn, synced |-> FALSE]
          \/ tmp' = [data |-> arg, synced |-> FALSE]
      BY <1>3 DEF Step, Prepare, CreateTemp, Write, Sync, Synced, Chmod, Close, Rename,
         OpenDir, SyncDir, GiveUp, CleanUpAndGiveUp, Cleanup
    <3>2. [tmp EXCEPT !.synced = TRUE] \in Files
      BY DEF Files
    <3>3. \A d \in States \cup {Empty, Torn} : [data |-> d, synced |-> FALSE] \in Files
      BY DEF Files
    <3> QED
      BY <1>2, <3>1, <3>2, <3>3
  <2>2. file' \in Files /\ onDisk' \in Files
    BY <1>3 DEF Step, Prepare, CreateTemp, Write, Sync, Chmod, Close, Rename, OpenDir,
       SyncDir, DurableFile, GiveUp, CleanUpAndGiveUp, Continue
  <2>3. /\ pc' \in PCs /\ UNCHANGED <<arg, losses>>
        /\ (kept' = kept /\ tried' = tried) \/ (kept' = arg /\ tried' = {})
    BY <1>3 DEF Step, Prepare, CreateTemp, Write, Sync, Chmod, Close, Rename, OpenDir,
       SyncDir, GiveUp, CleanUpAndGiveUp, Continue
  <2> QED
    BY <2>1, <2>2, <2>3
<1>4. CASE Kill
  BY <1>2, <1>4, LossesAssumption DEF Kill
<1>5. CASE PowerLoss
  <2>1. file' \in Files /\ onDisk' \in Files
    BY <1>5, SurvivorsAreFiles DEF PowerLoss
  <2> QED
    BY <1>2, <1>5, <2>1, LossesAssumption DEF PowerLoss
<1>6. CASE WriteBack \/ UNCHANGED vars
  BY <1>6 DEF WriteBack, vars
<1> QED
  BY <1>1, <1>3, <1>4, <1>5, <1>6 DEF Next

\* Every step keeps the temporary file in step with the system call reached.
LEMMA TempStep == IInv /\ [Next]_vars => TempInv'
<1> SUFFICES ASSUME IInv, [Next]_vars PROVE TempInv'
  OBVIOUS
<1> USE DEF IInv, TypeOK, TempInv
<1>1. ASSUME NEW s \in States, Begin(s) PROVE TempInv'
  BY <1>1 DEF Begin
<1>2. CASE Prepare \/ Chmod \/ Close \/ OpenDir
  BY <1>2 DEF Prepare, Chmod, Close, OpenDir, GiveUp, CleanUpAndGiveUp, Cleanup, Continue
<1>3. CASE CreateTemp
  BY <1>3 DEF CreateTemp, GiveUp, Continue
<1>4. CASE Write
  BY <1>4 DEF Write, CleanUpAndGiveUp, Cleanup, Continue
<1>5. CASE Sync
  BY <1>5 DEF Sync, Synced, CleanUpAndGiveUp, Cleanup, Continue, Files
<1>6. CASE Rename
  BY <1>6 DEF Rename, CleanUpAndGiveUp, Cleanup
<1>7. CASE SyncDir
  BY <1>7 DEF SyncDir, GiveUp
<1>8. CASE Kill \/ PowerLoss
  BY <1>8 DEF Kill, PowerLoss
<1>9. CASE WriteBack \/ UNCHANGED vars
  BY <1>9 DEF WriteBack, vars
<1> QED
  BY <1>1, <1>2, <1>3, <1>4, <1>5, <1>6, <1>7, <1>8, <1>9 DEF Next, Step

\* What a step does to the state path: it keeps both of its files, or renames a synced
\* one with the state being saved over it, or settles a rename, or falls back to one of
\* the two when the power is lost.
LEMMA PathStep ==
    ASSUME IInv, [Next]_vars
    PROVE  \/ UNCHANGED <<file, onDisk, kept>> /\ tried \subseteq tried'
           \/ /\ file'.data \in tried /\ file'.synced /\ file'.data = arg
              /\ UNCHANGED <<onDisk, kept, tried>>
           \/ onDisk' = file /\ UNCHANGED <<file, kept, tried>>
           \/ onDisk' = file /\ UNCHANGED file /\ kept' = file.data /\ tried' = {}
           \/ file' \in {file, onDisk} /\ onDisk' = file' /\ UNCHANGED <<kept, tried>>
<1> USE DEF IInv
<1>1. CASE (\E s \in States : Begin(s)) \/ Kill \/ UNCHANGED vars
  BY <1>1 DEF Begin, Kill, vars
<1>2. CASE \/ Prepare \/ CreateTemp \/ Write \/ Sync \/ Chmod \/ Close \/ OpenDir
  BY <1>2 DEF Prepare, CreateTemp, Write, Sync, Chmod, Close, OpenDir, GiveUp,
     CleanUpAndGiveUp, Continue
<1>3. CASE Rename
  BY <1>3 DEF Rename, CleanUpAndGiveUp, TempInv
<1>4. CASE SyncDir
  BY <1>4 DEF SyncDir, DurableFile, GiveUp, TempInv
<1>5. CASE WriteBack
  BY <1>5 DEF WriteBack
<1>6. CASE PowerLoss
  BY <1>6, SurvivorsAreFiles DEF PowerLoss
<1> QED
  BY <1>1, <1>2, <1>3, <1>4, <1>5, <1>6 DEF Next, Step

\* Every step keeps the invariant.
LEMMA IInvStep == IInv /\ [Next]_vars => IInv'
<1> SUFFICES ASSUME IInv, [Next]_vars PROVE PathInv'
  BY TypeStep, TempStep DEF IInv
<1> QED
  BY PathStep DEF IInv, PathInv

\* In every behavior, only synced files reach the state path, and they hold the last
\* saved state or one whose Save was started since.
THEOREM InvariantHolds == Spec => []IInv
  BY IInvInit, IInvStep, PTL DEF Spec

-----------------------------------------------------------------------------
(* What follows                                                            *)

\* Every variable of the store has its type, with any states.
THEOREM TypeCorrect == Spec => []TypeOK
<1>1. IInv => TypeOK
  BY DEF IInv
<1> QED
  BY InvariantHolds, <1>1, PTL

\* The state file, now and after a power loss, holds the last state whose Save returned
\* nil or one whose Save was started since: never an older one, never torn bytes.
THEOREM SavesAreAllOrNothing == Spec => []AllOrNothing
<1>1. IInv => AllOrNothing
  <2> SUFFICES ASSUME IInv PROVE AllOrNothing
    OBVIOUS
  <2>1. Survivors = {file, onDisk}
    BY SurvivorsAreFiles DEF IInv
  <2> QED
    BY <2>1 DEF IInv, PathInv, AllOrNothing
<1> QED
  BY InvariantHolds, <1>1, PTL

\* A Save that returns, on whatever path, has disposed of its temporary file.
THEOREM TempIsAlwaysDisposed == Spec => []TempIsDisposed
<1>1. IInv => TempIsDisposed
  BY DEF IInv, TempInv, TempIsDisposed
<1> QED
  BY InvariantHolds, <1>1, PTL

\* The nine system calls of Save, failures, crashes and power losses included, implement
\* AtomicStore: a reader finds a whole state, replaced at once or not at all.
THEOREM StoreIsAtomic == Spec => IsAtomic
<1>1. Init => Promise!Init
  BY StatesAssumption DEF Init, Promise!Init, Survivors, AfterLoss, Load, NoFile
<1>2. IInv /\ [Next]_vars /\ IInv' => [Promise!Next]_(Promise!vars)
  <2> SUFFICES ASSUME IInv, [Next]_vars, IInv'
               PROVE  Promise!Next \/ UNCHANGED Promise!vars
    OBVIOUS
  <2> DEFINE possible == {Load(f) : f \in Survivors}
  <2>1. Load(file) = file.data /\ possible = {file.data, onDisk.data}
    BY SurvivorsAreFiles, FilesDecode DEF IInv
  <2>2. Load(file)' = file'.data /\ possible' = {file'.data, onDisk'.data}
    <3>1. Survivors' = {file', onDisk'}
      BY SyncedFileSurvives DEF IInv, TypeOK, PathInv, Survivors
    <3>2. \A f \in {file', onDisk'} : Load(f) = f.data
      BY StatesAssumption DEF IInv, TypeOK, PathInv, Load
    <3> QED
      BY <3>1, <3>2
  <2> HIDE DEF possible
  <2>3. CASE UNCHANGED <<file, onDisk>>
    BY <2>1, <2>2, <2>3 DEF Promise!vars, possible
  <2>4. CASE file'.data \in tried /\ UNCHANGED onDisk
    <3>1. file'.data \in States
      BY <2>4 DEF IInv, TypeOK
    <3> QED
      BY <2>1, <2>2, <2>4, <3>1 DEF Promise!Next, Promise!Replace, possible
  <2>5. CASE onDisk' = file /\ UNCHANGED file
    BY <2>1, <2>2, <2>5 DEF Promise!Next, Promise!Settle, possible
  <2>6. CASE file' \in {file, onDisk} /\ onDisk' = file'
    BY <2>1, <2>2, <2>6 DEF Promise!Next, Promise!Lose, possible
  <2> QED
    BY <2>3, <2>4, <2>5, <2>6, PathStep
<1> QED
  BY InvariantHolds, <1>1, <1>2, PTL DEF Spec, IsAtomic, Promise!Spec
=============================================================================
