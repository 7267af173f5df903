-------------------------- MODULE StateStoreProofs --------------------------
(***************************************************************************)
(* TLAPS proofs about StateStore, for every number of writes and of files  *)
(* that decay.                                                             *)
(*                                                                         *)
(* AlwaysLoadable is not inductive alone.  It needs that the generation    *)
(* about to be installed has never been in a file, and so cannot have      *)
(* decayed, and that a write about to be acknowledged left a directory     *)
(* that loads.  The refinement needs what Load finds in every directory    *)
(* that power loss may leave.                                              *)
(***************************************************************************)
EXTENDS StateStore, TLAPS

\* The generation being written is in no file yet.
Installing == pc \in {"temp", "rotate", "syncRotated", "activate"}

StoreTypeOK ==
  /\ dir \in views
  /\ views \subseteq [current : Nat, previous : Nat]
  /\ bad \subseteq Nat
  /\ gen \in Nat
  /\ pc \in {"idle", "temp", "rotate", "syncRotated", "activate", "syncActive"}

GenerationsAreNew ==
  /\ \A d \in views : d.current <= gen /\ (Installing => d.current # gen)
  /\ \A g \in bad : g <= gen /\ (Installing => g # gen)

InstalledLoads == pc = "syncActive" => Load(dir) # Missing

StoreInv ==
  /\ StoreTypeOK
  /\ GenerationsAreNew
  /\ InstalledLoads
  /\ AlwaysLoadable

\* A rename leaves a directory that loads among those that already do.
LEMMA RenameLoads ==
  ASSUME NEW d, Rename(d), UNCHANGED bad, Load(d) # Missing,
         acked # Missing => \A e \in views : Load(e) # Missing,
         UNCHANGED acked
  PROVE  AlwaysLoadable'
  BY DEF Rename, AlwaysLoadable, Load, readAndValidate

\* StoreInv holds initially.
LEMMA StoreInvInit == StoreInit => StoreInv
  BY DEF StoreInit, StoreInv, StoreTypeOK, GenerationsAreNew, Installing,
         InstalledLoads, AlwaysLoadable, Missing

\* Every step of Store.Write, every failure and every decay keeps StoreInv.
LEMMA StoreInvStep == StoreInv /\ [StoreNext]_svars => StoreInv'
  <1> SUFFICES ASSUME StoreInv, [StoreNext]_svars PROVE StoreInv'
    OBVIOUS
  <1> USE DEF StoreInv
  <1>1. CASE BeginWrite
    BY <1>1 DEF BeginWrite, StoreTypeOK, GenerationsAreNew, Installing,
       InstalledLoads, AlwaysLoadable, Load, readAndValidate, Missing
  <1>2. CASE WriteTemp
    BY <1>2 DEF WriteTemp, StoreTypeOK, GenerationsAreNew, Installing,
       InstalledLoads, AlwaysLoadable, Load, readAndValidate, Missing
  <1>3. CASE Rotate
    <2>1. CASE readAndValidate(dir.current)
      <3> DEFINE d == [current |-> Missing, previous |-> dir.current]
      <3>1. Rename(d) /\ pc' = "syncRotated" /\ UNCHANGED <<bad, gen, acked, tried>>
        BY <1>3, <2>1 DEF Rotate
      <3>2. Load(d) = dir.current /\ dir.current # Missing
        BY <2>1 DEF Load, readAndValidate
      <3>3. d \in [current : Nat, previous : Nat] /\ d.current = 0
        BY DEF StoreTypeOK, Missing
      <3>4. StoreTypeOK'
        BY <3>1, <3>3 DEF StoreTypeOK, Rename
      <3>5. gen > 0
        BY <3>2, <1>3 DEF StoreTypeOK, GenerationsAreNew, Missing
      <3>6. GenerationsAreNew'
        BY <1>3, <3>1, <3>3, <3>5
        DEF GenerationsAreNew, Installing, Rename, Rotate, StoreTypeOK
      <3>7. AlwaysLoadable'
        BY <3>1, <3>2, RenameLoads DEF AlwaysLoadable
      <3> QED BY <3>1, <3>4, <3>6, <3>7 DEF InstalledLoads
    <2>2. CASE ~readAndValidate(dir.current)
      BY <1>3, <2>2 DEF Rotate, StoreTypeOK, GenerationsAreNew, Installing,
         InstalledLoads, AlwaysLoadable, Load, readAndValidate, Missing
    <2> QED BY <2>1, <2>2
  <1>4. CASE SyncRotated
    BY <1>4 DEF SyncRotated, syncDir, StoreTypeOK, GenerationsAreNew, Installing,
       InstalledLoads, AlwaysLoadable, Load, readAndValidate, Missing
  <1>5. CASE Activate
    <2> DEFINE d == [dir EXCEPT !.current = gen]
    <2>1. Rename(d) /\ pc' = "syncActive" /\ UNCHANGED <<bad, gen, acked, tried>>
      BY <1>5 DEF Activate
    <2>2. d \in [current : Nat, previous : Nat] /\ d.current = gen
      BY DEF StoreTypeOK
    <2>3. gen # Missing /\ gen \notin bad
      BY <1>5 DEF Activate, GenerationsAreNew, Installing, StoreTypeOK, Missing
    <2>4. Load(d) # Missing
      BY <2>2, <2>3 DEF Load, readAndValidate
    <2>5. StoreTypeOK'
      BY <2>1, <2>2 DEF StoreTypeOK, Rename
    <2>6. GenerationsAreNew'
      BY <2>1, <2>2 DEF GenerationsAreNew, Installing, Rename, StoreTypeOK
    <2>7. AlwaysLoadable'
      BY <2>1, <2>4, RenameLoads DEF AlwaysLoadable
    <2>8. InstalledLoads'
      BY <2>1, <2>4 DEF InstalledLoads, Rename, Load, readAndValidate
    <2> QED BY <2>5, <2>6, <2>7, <2>8
  <1>6. CASE SyncActive
    BY <1>6 DEF SyncActive, syncDir, StoreTypeOK, GenerationsAreNew, Installing,
       InstalledLoads, AlwaysLoadable, Load, readAndValidate, Missing
  <1>7. CASE WriteFails
    BY <1>7 DEF WriteFails, StoreTypeOK, GenerationsAreNew, Installing,
       InstalledLoads, AlwaysLoadable, Load, readAndValidate, Missing
  <1>8. CASE PowerLoss
    BY <1>8 DEF PowerLoss, StoreTypeOK, GenerationsAreNew, Installing,
       InstalledLoads, AlwaysLoadable, Load, readAndValidate, Missing
  <1>9. CASE CorruptCurrent
    <2>1. StoreTypeOK' /\ GenerationsAreNew'
      BY <1>9 DEF CorruptCurrent, StoreTypeOK, GenerationsAreNew, Installing
    <2>2. \A d \in views : (readAndValidate(d.previous))'
      BY <1>9 DEF CorruptCurrent, readAndValidate
    <2>3. \A d \in views : (Load(d))' # Missing
      BY <2>2 DEF Load, readAndValidate
    <2> QED BY <1>9, <2>1, <2>3
        DEF CorruptCurrent, InstalledLoads, AlwaysLoadable, StoreTypeOK
  <1>10. CASE UNCHANGED svars
    BY <1>10 DEF svars, StoreTypeOK, GenerationsAreNew, Installing,
       InstalledLoads, AlwaysLoadable, Load, readAndValidate
  <1> QED
    BY <1>1, <1>2, <1>3, <1>4, <1>5, <1>6, <1>7, <1>8, <1>9, <1>10 DEF StoreNext

\* store.go: once a generation was acknowledged, Load finds one after every
\* interruption of Store.Write, also with current.json decayed.
THEOREM StoreAlwaysLoadable == StoreSpec => []AlwaysLoadable
  <1>1. StoreInv => AlwaysLoadable
    BY DEF StoreInv
  <1> QED BY <1>1, StoreInvInit, StoreInvStep, PTL DEF StoreSpec

-----------------------------------------------------------------------------
(* The refinement *)

\* While no file has decayed, every directory power loss may leave loads the
\* acknowledged generation or one begun since.
LoadsPending ==
  bad = {} => \A d \in views : Load(d) \in {acked} \cup tried

WritingIsPending ==
  /\ pc # "idle" => gen \in tried
  /\ pc = "syncActive" => dir.current = gen /\ gen > 0

RefInv ==
  /\ dir \in views /\ gen \in Nat
  /\ views \subseteq [current : Nat, previous : Nat]
  /\ pc \in {"temp", "rotate", "syncRotated", "activate"} => gen > 0
  /\ LoadsPending
  /\ WritingIsPending

\* RefInv holds initially.
LEMMA RefInvInit == StoreInit => RefInv
  BY DEF StoreInit, RefInv, LoadsPending, WritingIsPending, Load,
         readAndValidate, Missing

\* A decayed file stays decayed.
LEMMA DecayIsForGood == [StoreNext]_svars /\ bad' = {} => bad = {}
  BY DEF StoreNext, svars, BeginWrite, WriteTemp, Rotate, SyncRotated, Activate,
         SyncActive, WriteFails, PowerLoss, CorruptCurrent

\* Every step keeps RefInv.
LEMMA RefInvStep == RefInv /\ [StoreNext]_svars => RefInv'
  <1> SUFFICES ASSUME RefInv, [StoreNext]_svars PROVE RefInv'
    OBVIOUS
  <1> USE DEF RefInv
  <1>1. CASE BeginWrite
    BY <1>1 DEF BeginWrite, LoadsPending, WritingIsPending, Load,
       readAndValidate, Missing
  <1>2. CASE WriteTemp
    BY <1>2 DEF WriteTemp, LoadsPending, WritingIsPending, Load,
       readAndValidate, Missing
  <1>3. CASE Rotate
    BY <1>3 DEF Rotate, Rename, LoadsPending, WritingIsPending, Load,
       readAndValidate, Missing
  <1>4. CASE SyncRotated
    BY <1>4 DEF SyncRotated, syncDir, LoadsPending, WritingIsPending, Load,
       readAndValidate, Missing
  <1>5. CASE Activate
    BY <1>5 DEF Activate, Rename, LoadsPending, WritingIsPending, Load,
       readAndValidate, Missing
  <1>6. CASE SyncActive
    BY <1>6 DEF SyncActive, syncDir, LoadsPending, WritingIsPending, Load,
       readAndValidate, Missing
  <1>7. CASE WriteFails
    BY <1>7 DEF WriteFails, LoadsPending, WritingIsPending, Load,
       readAndValidate, Missing
  <1>8. CASE PowerLoss
    BY <1>8 DEF PowerLoss, LoadsPending, WritingIsPending, Load,
       readAndValidate, Missing
  <1>9. CASE CorruptCurrent
    BY <1>9 DEF CorruptCurrent, LoadsPending, WritingIsPending
  <1>10. CASE UNCHANGED svars
    BY <1>10 DEF svars, LoadsPending, WritingIsPending, Load, readAndValidate
  <1> QED
    BY <1>1, <1>2, <1>3, <1>4, <1>5, <1>6, <1>7, <1>8, <1>9, <1>10 DEF StoreNext

\* Every step that leaves no file decayed is a step of the register or leaves
\* it alone: BeginWrite begins a pending value, SyncActive acknowledges it, and
\* power loss keeps the value or takes a pending one.
LEMMA StoreStepIsRegisterStep ==
  ASSUME RefInv, [StoreNext]_svars, bad' = {}
  PROVE  Register!RegisterNext \/ UNCHANGED <<acked, tried>>
  <1>1. bad = {}
    BY DecayIsForGood
  <1>2. CASE BeginWrite
    <2>1. gen + 1 \in 1 .. MaxWrites
      BY <1>2, StoreAssumption DEF BeginWrite, RefInv
    <2> QED BY <1>2, <2>1
        DEF BeginWrite, Register!RegisterNext, Register!BeginPending
  <1>3. CASE SyncActive
    BY <1>3 DEF SyncActive, RefInv, WritingIsPending, Register!RegisterNext,
                Register!Acknowledge
  <1>4. CASE PowerLoss
    BY <1>1, <1>4 DEF PowerLoss, RefInv, LoadsPending, Load, readAndValidate,
                      Register!RegisterNext, Register!LosePower
  <1>5. CASE \/ WriteTemp \/ Rotate \/ SyncRotated \/ Activate \/ WriteFails
             \/ CorruptCurrent \/ UNCHANGED svars
    BY <1>5 DEF WriteTemp, Rotate, SyncRotated, Activate, WriteFails,
                CorruptCurrent, svars
  <1> QED BY <1>2, <1>3, <1>4, <1>5 DEF StoreNext

\* coordinator.go builds on a durable register, and store.go implements one:
\* every step of the file-level store, power loss included, is a step of
\* DurableRegister as long as no file has decayed.
THEOREM StoreImplementsRegister == StoreSpec => ImplementsRegister
  <1>1. StoreInit => Register!RegisterInit
    BY DEF StoreInit, Register!RegisterInit
  <1>2. RefInv /\ [StoreNext]_svars
          => [bad' = {} => Register!RegisterNext]_<<acked, tried>>
    BY StoreStepIsRegisterStep
  <1> QED BY <1>1, <1>2, RefInvInit, RefInvStep, PTL
      DEF StoreSpec, ImplementsRegister
=============================================================================
