--------------------------- MODULE NvmSyncProofs ---------------------------
(***************************************************************************)
(* Proofs about NvmSync for any number of attempts, bursts, reads, runs    *)
(* and firmware requests.  Type correctness holds for any set of tools;    *)
(* what the semaphores protect is proved for one tool at a time on a NIC   *)
(* (OneTool), which is what they can protect: see OneDriver in NvmSync.    *)
(***************************************************************************)
EXTENDS NvmSync, TLAPS

OneTool == \A t, u \in Tools : t = u

-----------------------------------------------------------------------------
(* The inductive invariant.                                                 *)

(* An acquire under way has attempts left.                                  *)
TriesLeft ==
  \A t \in Tools : pc[t] \in AcquireSteps \cup {"detect"} => tries[t] < MaxAttempts

TypeInv == TypeOK /\ TriesLeft

(* The hardware semaphore has one holder, and the steps between taking and  *)
(* putting it back have it.                                                 *)
HwOwned == {"acqRead", "acqWrite", "acqPut", "acqBack", "relRead", "relWrite", "relPut"}

HwInv ==
  /\ FwHoldsHw => ~swesmbi
  /\ \A t \in Tools : pc[t] \in HwOwned => swesmbi

(* The firmware's bit says where the firmware is, and what a tool is about  *)
(* to write back is what the register still holds.                          *)
SyncInv ==
  /\ fwBit <=> fw \in {"grant", "use", "drop", "clear"}
  /\ \A t \in Tools : pc[t] = "acqWrite" => ~fwBit /\ ~sync[t]
  /\ \A t \in Tools : pc[t] = "relWrite" => sync[t] = fwBit
  /\ \A t \in Tools : pc[t] \in {"acqPut", "access"} => swBit
  /\ SyncExclusive

IInv == TypeInv /\ HwInv /\ SyncInv

-----------------------------------------------------------------------------
(* Type correctness.                                                        *)

(* The counters start in their ranges, and a counter below its limit can be *)
(* incremented.                                                             *)
LEMMA Counters ==
  /\ 0 \in 0..MaxAttempts /\ 0 \in 0..HwAttempts /\ 0 \in 0..MaxFwUses
  /\ 0 < MaxAttempts
  /\ \A n \in 0..MaxAttempts : n < MaxAttempts => n + 1 \in 0..MaxAttempts
  /\ \A n \in 0..MaxAttempts : n < MaxAttempts /\ n + 1 # MaxAttempts => n + 1 < MaxAttempts
  /\ \A n \in 0..HwAttempts : n + 1 < HwAttempts => n + 1 \in 0..HwAttempts
  /\ \A n \in 0..MaxFwUses : n < MaxFwUses => n + 1 \in 0..MaxFwUses
  BY AttemptsAssumption, BoundsAssumption

(* The initial state is type correct.                                       *)
LEMMA TypeInit == Init => TypeInv
<1> SUFFICES ASSUME Init PROVE TypeInv
  OBVIOUS
<1>1. run \in [Tools -> Runs]
  BY DEF Init, Runs, Ops, Commands, Endings
<1>2. pc \in [Tools -> Steps] /\ fw \in FwStates
  BY DEF Init, Steps, FwStates
<1>3. /\ tries \in [Tools -> 0..MaxAttempts]
      /\ hwTries \in [Tools -> 0..HwAttempts]
      /\ fwUses \in 0..MaxFwUses
  BY Counters DEF Init
<1>4. ok \in [Tools -> BOOLEAN] /\ sync \in [Tools -> BOOLEAN]
  BY DEF Init
<1>5. TypeOK
  BY <1>1, <1>2, <1>3, <1>4 DEF Init, TypeOK
<1>6. TriesLeft
  BY DEF Init, TriesLeft, AcquireSteps
<1> QED
  BY <1>5, <1>6 DEF TypeInv

(* A step of AcquireNvmI210 keeps the types; an attempt is made only while  *)
(* attempts are left.                                                       *)
LEMMA TypeAcquire ==
  ASSUME TypeInv, NEW t \in Tools, AcquireNvmI210(t)
  PROVE  TypeInv'
<1> USE Counters DEF TypeInv, TypeOK, TriesLeft, AcquireSteps,
    ReleaseSteps, Steps, Goto, regs, firmware, locals
<1>1. CASE HwSet(t, "hwSet", "hwCheck")
  BY <1>1 DEF HwSet, LatchHw
<1>2. CASE HwGot(t, "hwCheck", "acqRead")
  BY <1>2 DEF HwGot
<1>3. CASE HwRetry(t, "hwCheck", "hwSet")
  BY <1>3 DEF HwRetry
<1>4. CASE AcqHwTimeout(t)
  BY <1>4 DEF AcqHwTimeout, HwTimeout
<1>5. CASE AcqRead(t)
  BY <1>5 DEF AcqRead
<1>6. CASE AcqBack(t)
  BY <1>6 DEF AcqBack, PutHw
<1>7. CASE AcqWrite(t)
  BY <1>7 DEF AcqWrite
<1>8. CASE AcqPut(t)
  BY <1>8 DEF AcqPut, PutHw
<1> QED
  BY <1>1, <1>2, <1>3, <1>4, <1>5, <1>6, <1>7, <1>8 DEF AcquireNvmI210

(* A step of ReleaseNvmI210 keeps the types.                                *)
LEMMA TypeRelease ==
  ASSUME TypeInv, NEW t \in Tools, ReleaseNvmI210(t)
  PROVE  TypeInv'
<1> USE Counters DEF TypeInv, TypeOK, TriesLeft, AcquireSteps,
    ReleaseSteps, Steps, Goto, regs, firmware, locals
<1>1. CASE HwSet(t, "relSet", "relCheck")
  BY <1>1 DEF HwSet, LatchHw
<1>2. CASE HwGot(t, "relCheck", "relRead")
  BY <1>2 DEF HwGot
<1>3. CASE HwRetry(t, "relCheck", "relSet")
  BY <1>3 DEF HwRetry
<1>4. CASE RelHwTimeout(t)
  BY <1>4 DEF RelHwTimeout, HwTimeout
<1>5. CASE RelRead(t)
  BY <1>5 DEF RelRead
<1>6. CASE RelWrite(t)
  BY <1>6 DEF RelWrite
<1>7. CASE RelPut(t)
  BY <1>7 DEF RelPut, PutHw
<1> QED
  BY <1>1, <1>2, <1>3, <1>4, <1>5, <1>6, <1>7 DEF ReleaseNvmI210

(* Entering an operation keeps the types: the acquire starts from its first *)
(* attempt.                                                                 *)
LEMMA TypeEnter ==
  ASSUME TypeInv, NEW t \in Tools, NEW r \in Runs, Enter(t, r)
  PROVE  TypeInv'
<1>1. Entry(r) \in Steps
  BY DEF Entry, Steps, AcquireSteps, ReleaseSteps
<1>2. pc' \in [Tools -> Steps] /\ run' \in [Tools -> Runs]
  BY <1>1 DEF TypeInv, TypeOK, Enter, Goto
<1>3. tries' \in [Tools -> 0..MaxAttempts]
  BY Counters DEF TypeInv, TypeOK, Enter
<1>4. TypeOK'
  BY <1>2, <1>3 DEF TypeInv, TypeOK, Enter, regs, firmware
<1>5. TriesLeft'
  BY Counters DEF TypeInv, TypeOK, TriesLeft, Enter, Goto, AcquireSteps
<1> QED
  BY <1>4, <1>5 DEF TypeInv

(* So does ending a command.                                                *)
LEMMA TypeExit ==
  ASSUME TypeInv, NEW t \in Tools, NEW why \in Endings, Exit(t, why)
  PROVE  TypeInv'
<1>1. pc' \in [Tools -> Steps]
  BY DEF TypeInv, TypeOK, Exit, Goto, Steps
<1>2. run' \in [Tools -> Runs]
  BY DEF TypeInv, TypeOK, Exit, Runs
<1>3. TypeOK'
  BY <1>1, <1>2 DEF TypeInv, TypeOK, Exit, regs, firmware, locals
<1>4. TriesLeft'
  BY DEF TypeInv, TypeOK, TriesLeft, Exit, Goto, AcquireSteps, locals
<1> QED
  BY <1>3, <1>4 DEF TypeInv

(* What a command does between two operations is to enter the next one with *)
(* a well-typed run record or to end.                                       *)
LEMMA ReturnEntersOrExits ==
  ASSUME TypeInv, NEW t \in Tools, Return(t)
  PROVE  (\E r \in Runs : Enter(t, r)) \/ (\E why \in Endings : Exit(t, why))
<1>1. run[t] \in Runs
  BY DEF TypeInv, TypeOK
<1>2. {"done", "noMethod", "noFile"} \subseteq Endings
  BY DEF Endings
<1>3. CASE SetupWriteMethod(t)
  BY <1>1, <1>3 DEF SetupWriteMethod, Runs, Ops
<1>4. ASSUME NEW r \in Runs, ToUpdate(t, r)
      PROVE  (\E q \in Runs : Enter(t, q)) \/ (\E why \in Endings : Exit(t, why))
  BY <1>2, <1>4, WorkAssumption DEF ToUpdate, Runs, Ops
<1>5. CASE WriteNvm(t)
  BY <1>1, <1>2, <1>4, <1>5 DEF WriteNvm, Runs, Ops
<1>6. CASE UpdateNvmChecksumI210(t)
  BY <1>1, <1>2, <1>6 DEF UpdateNvmChecksumI210, Runs, Ops
<1>7. CASE EraseDevice(t)
  BY <1>2, <1>7 DEF EraseDevice
<1>8. CASE DumpData(t)
  BY <1>1, <1>2, <1>8 DEF DumpData, Runs, Ops
<1> QED
  BY <1>3, <1>5, <1>6, <1>7, <1>8 DEF Return

(* The steps of a tool outside the semaphore routines keep the types.       *)
LEMMA TypeCommand ==
  ASSUME TypeInv, NEW t \in Tools,
         Detect(t) \/ Access(t) \/ Return(t) \/ Start(t) \/ Kill(t)
  PROVE  TypeInv'
<1>1. CASE Detect(t)
  <2>1. run' \in [Tools -> Runs]
    BY <1>1 DEF Detect, TypeInv, TypeOK, Runs
  <2>2. tries[t] < MaxAttempts
    BY <1>1 DEF Detect, TypeInv, TriesLeft
  <2> QED
    BY <1>1, <2>1, <2>2 DEF Detect, TypeInv, TypeOK, TriesLeft, Goto, Steps, AcquireSteps,
       ReleaseSteps, regs, firmware, locals
<1>2. CASE Access(t)
  <2>1. run' \in [Tools -> Runs]
    <3> DEFINE wrote == run[t].wrote \/ run[t].op = "burst"
    <3>1. run' = [run EXCEPT ![t] = [run[t] EXCEPT !.wrote = wrote]]
      BY <1>2 DEF Access, TypeInv, TypeOK
    <3>2. wrote \in BOOLEAN
      OBVIOUS
    <3> HIDE DEF wrote
    <3> QED
      BY <3>1, <3>2 DEF TypeInv, TypeOK, Runs
  <2>2. pc' \in [Tools -> Steps]
    BY <1>2 DEF Access, TypeInv, TypeOK, Goto, Steps, ReleaseSteps
  <2>3. TypeOK'
    BY <1>2, <2>1, <2>2 DEF Access, TypeInv, TypeOK, regs, firmware, locals
  <2>4. TriesLeft'
    BY <1>2 DEF Access, TypeInv, TypeOK, TriesLeft, Goto, AcquireSteps, locals
  <2> QED
    BY <2>3, <2>4 DEF TypeInv
<1>3. CASE Return(t)
  BY <1>3, ReturnEntersOrExits, TypeEnter, TypeExit
<1>4. CASE Start(t)
  <2>1. run[t] \in Runs
    BY DEF TypeInv, TypeOK
  <2>2. PICK r \in Runs : Enter(t, r)
    <3>1. PICK cmd \in Commands, mac \in BOOLEAN, file \in BOOLEAN :
            Enter(t, [op |-> CASE cmd = "write" -> "setup"
                               [] cmd = "erase" -> "erase"
                               [] cmd = "dump" -> "read",
                      cmd |-> cmd, mac |-> mac, file |-> file,
                      method |-> 0, works |-> FALSE, known |-> FALSE,
                      wrote |-> FALSE, left |-> MaxBursts,
                      count |-> run[t].count + 1, end |-> "none"])
      BY <1>4 DEF Start
    <3>2. run[t].count + 1 \in Nat /\ MaxBursts \in Nat
      BY <2>1, WorkAssumption DEF Runs
    <3>3. (CASE cmd = "write" -> "setup"
             [] cmd = "erase" -> "erase"
             [] cmd = "dump" -> "read") \in Ops
      BY DEF Commands, Ops
    <3> QED
      BY <3>1, <3>2, <3>3 DEF Runs, Endings
  <2> QED
    BY <2>2, TypeEnter
<1>5. CASE Kill(t)
  <2>1. run' \in [Tools -> Runs]
    <3>1. run' = [run EXCEPT ![t] = [run[t] EXCEPT !.end = "killed"]]
      BY <1>5 DEF Kill, TypeInv, TypeOK
    <3>2. run \in [Tools -> Runs] /\ run[t] \in Runs
      BY DEF TypeInv, TypeOK
    <3>3. [run[t] EXCEPT !.end = "killed"] \in Runs
      BY <3>2 DEF Runs, Endings
    <3> QED
      BY <3>1, <3>2, <3>3
  <2>2. TypeOK'
    BY <1>5, <2>1, Counters DEF Kill, TypeInv, TypeOK, Goto, Steps, regs, firmware
  <2>3. TriesLeft'
    BY <1>5 DEF Kill, TypeInv, TypeOK, TriesLeft, Goto, AcquireSteps
  <2> QED
    BY <2>2, <2>3 DEF TypeInv
<1> QED
  BY <1>1, <1>2, <1>3, <1>4, <1>5

(* The firmware's steps keep the types.                                     *)
LEMMA TypeFirmware ==
  ASSUME TypeInv, FwWant \/ FwRetryAtOnce \/ Firmware
  PROVE  TypeInv'
<1> USE DEF TypeInv, TypeOK, TriesLeft, FwStates, FwMove, regs, locals
<1>1. CASE FwWant
  BY <1>1, Counters DEF FwWant
<1>2. CASE FwRetryAtOnce
  BY <1>2, Counters DEF FwRetryAtOnce
<1>3. CASE FwTakeHw
  BY <1>3 DEF FwTakeHw
<1>4. CASE FwCheck
  BY <1>4 DEF FwCheck
<1>5. CASE FwRetry
  BY <1>5 DEF FwRetry
<1>6. CASE FwUse
  BY <1>6 DEF FwUse
<1>7. CASE FwClear
  BY <1>7 DEF FwClear
<1> QED
  BY <1>1, <1>2, <1>3, <1>4, <1>5, <1>6, <1>7 DEF Firmware

(* Every step keeps the types.                                              *)
LEMMA TypeNext == TypeInv /\ [Next]_vars => TypeInv'
<1> SUFFICES ASSUME TypeInv, [Next]_vars PROVE TypeInv'
  OBVIOUS
<1>1. CASE UNCHANGED vars
  BY <1>1 DEF TypeInv, TypeOK, TriesLeft, vars, regs, firmware, locals
<1>2. ASSUME NEW t \in Tools, ToolStep(t) \/ Start(t) \/ Kill(t) PROVE TypeInv'
  BY <1>2, TypeAcquire, TypeRelease, TypeCommand DEF ToolStep
<1>3. CASE FwWant \/ FwRetryAtOnce \/ Firmware
  BY <1>3, TypeFirmware
<1> QED
  BY <1>1, <1>2, <1>3 DEF Next

(* TypeOK holds of every behaviour, for any number of tools.                *)
THEOREM TypeCorrect == Spec => []TypeOK
<1>1. TypeInv => TypeOK
  BY DEF TypeInv
<1> QED
  BY <1>1, TypeInit, TypeNext, PTL DEF Spec

-----------------------------------------------------------------------------
(* What the semaphores protect.                                             *)

(* Nobody holds a semaphore at first.                                       *)
LEMMA ExclusionInit == Init => HwInv /\ SyncInv
  BY DEF Init, HwInv, SyncInv, SyncExclusive, FwHoldsHw, HwOwned

(* Where the next operation of a command begins, nothing is held yet.       *)
LEMMA ExclusionCommand ==
  ASSUME IInv, NEW t \in Tools,
         Detect(t) \/ Access(t) \/ Return(t) \/ Start(t) \/ Kill(t)
  PROVE  HwInv' /\ SyncInv'
<1> DEFINE Free == {"idle", "detect", "ret", "hwSet", "relSet"}
<1> SUFFICES ASSUME UNCHANGED <<regs, firmware>>,
                    UNCHANGED sync \/ sync' = [sync EXCEPT ![t] = FALSE],
                    NEW next \in Free, Goto(t, next)
             PROVE  HwInv' /\ SyncInv'
  <2>1. ASSUME NEW r \in Runs, Enter(t, r)
        PROVE  /\ UNCHANGED <<regs, firmware, sync>>
               /\ \E next \in Free : Goto(t, next)
    BY <2>1 DEF Enter, Entry, regs, firmware
  <2>2. ASSUME NEW why \in Endings, Exit(t, why)
        PROVE  /\ UNCHANGED <<regs, firmware, sync>>
               /\ \E next \in Free : Goto(t, next)
    BY <2>2 DEF Exit, regs, firmware, locals
  <2>3. CASE Return(t)
    BY <2>1, <2>2, <2>3, ReturnEntersOrExits DEF IInv
  <2>4. CASE Start(t)
    <3>1. \E r : Enter(t, r)
      BY <2>4 DEF Start
    <3> QED
      BY <3>1 DEF Enter, Entry, regs, firmware
  <2>5. CASE Detect(t)
    BY <2>5 DEF Detect, regs, firmware, locals
  <2>6. CASE Access(t)
    BY <2>6 DEF Access, regs, firmware, locals
  <2>7. CASE Kill(t)
    BY <2>7 DEF Kill, regs, firmware
  <2> QED
    BY <2>3, <2>4, <2>5, <2>6, <2>7
<1>1. HwInv'
  BY DEF IInv, TypeInv, TypeOK, HwInv, HwOwned, FwHoldsHw, Goto, regs, firmware
<1>2. SyncInv'
  BY DEF IInv, TypeInv, TypeOK, SyncInv, SyncExclusive, Goto, regs, firmware
<1> QED
  BY <1>1, <1>2

(* AcquireNvmI210 looks at the firmware's bit and sets software's while it  *)
(* holds the hardware semaphore, so that nothing changes in between.        *)
LEMMA ExclusionAcquire ==
  ASSUME OneTool, IInv, NEW t \in Tools, AcquireNvmI210(t)
  PROVE  HwInv' /\ SyncInv'
<1> USE DEF IInv, TypeInv, TypeOK, HwInv, SyncInv, SyncExclusive, HwOwned,
    FwHoldsHw, OneTool, Goto, regs, firmware, locals
<1>1. CASE HwSet(t, "hwSet", "hwCheck")
  BY <1>1 DEF HwSet, LatchHw
<1>2. CASE HwGot(t, "hwCheck", "acqRead")
  BY <1>2 DEF HwGot
<1>3. CASE HwRetry(t, "hwCheck", "hwSet")
  BY <1>3 DEF HwRetry
<1>4. CASE AcqHwTimeout(t)
  BY <1>4 DEF AcqHwTimeout, HwTimeout
<1>5. CASE AcqRead(t)
  BY <1>5 DEF AcqRead
<1>6. CASE AcqBack(t)
  BY <1>6 DEF AcqBack, PutHw
<1>7. CASE AcqWrite(t)
  BY <1>7 DEF AcqWrite
<1>8. CASE AcqPut(t)
  BY <1>8 DEF AcqPut, PutHw
<1> QED
  BY <1>1, <1>2, <1>3, <1>4, <1>5, <1>6, <1>7, <1>8 DEF AcquireNvmI210

(* ReleaseNvmI210 writes the firmware's bit back as it read it, under the   *)
(* same hold of the hardware semaphore.                                     *)
LEMMA ExclusionRelease ==
  ASSUME OneTool, IInv, NEW t \in Tools, ReleaseNvmI210(t)
  PROVE  HwInv' /\ SyncInv'
<1> USE DEF IInv, TypeInv, TypeOK, HwInv, SyncInv, SyncExclusive, HwOwned,
    FwHoldsHw, OneTool, Goto, regs, firmware, locals
<1>1. CASE HwSet(t, "relSet", "relCheck")
  BY <1>1 DEF HwSet, LatchHw
<1>2. CASE HwGot(t, "relCheck", "relRead")
  BY <1>2 DEF HwGot
<1>3. CASE HwRetry(t, "relCheck", "relSet")
  BY <1>3 DEF HwRetry
<1>4. CASE RelHwTimeout(t)
  BY <1>4 DEF RelHwTimeout, HwTimeout
<1>5. CASE RelRead(t)
  BY <1>5 DEF RelRead
<1>6. CASE RelWrite(t)
  BY <1>6 DEF RelWrite
<1>7. CASE RelPut(t)
  BY <1>7 DEF RelPut, PutHw
<1> QED
  BY <1>1, <1>2, <1>3, <1>4, <1>5, <1>6, <1>7 DEF ReleaseNvmI210

(* The firmware sets and clears its bit only while it holds its half of     *)
(* SWSM, when no tool is between its two accesses.                          *)
LEMMA ExclusionFirmware ==
  ASSUME IInv, FwWant \/ FwRetryAtOnce \/ Firmware
  PROVE  HwInv' /\ SyncInv'
<1> USE DEF IInv, HwInv, SyncInv, SyncExclusive, HwOwned, FwHoldsHw, FwMove,
    regs, locals
<1>1. CASE FwWant
  BY <1>1 DEF FwWant
<1>2. CASE FwRetryAtOnce
  BY <1>2 DEF FwRetryAtOnce
<1>3. CASE FwTakeHw
  BY <1>3 DEF FwTakeHw
<1>4. CASE FwCheck
  BY <1>4 DEF FwCheck
<1>5. CASE FwRetry
  BY <1>5 DEF FwRetry
<1>6. CASE FwUse
  BY <1>6 DEF FwUse
<1>7. CASE FwClear
  BY <1>7 DEF FwClear
<1> QED
  BY <1>1, <1>2, <1>3, <1>4, <1>5, <1>6, <1>7 DEF Firmware

(* The invariant is inductive.                                              *)
LEMMA InvNext ==
  ASSUME OneTool, IInv, [Next]_vars
  PROVE  IInv'
<1>1. TypeInv'
  BY TypeNext DEF IInv
<1>2. CASE UNCHANGED vars
  BY <1>1, <1>2 DEF IInv, HwInv, SyncInv, SyncExclusive, FwHoldsHw, vars, regs,
     firmware, locals
<1>3. ASSUME NEW t \in Tools, ToolStep(t) \/ Start(t) \/ Kill(t)
      PROVE  HwInv' /\ SyncInv'
  BY <1>3, ExclusionAcquire, ExclusionRelease, ExclusionCommand DEF ToolStep
<1>4. ASSUME FwWant \/ FwRetryAtOnce \/ Firmware
      PROVE  HwInv' /\ SyncInv'
  BY <1>4, ExclusionFirmware
<1>5. HwInv' /\ SyncInv'
  BY <1>2, <1>3, <1>4 DEF Next, IInv
<1> QED
  BY <1>1, <1>5 DEF IInv

LEMMA Invariant ==
  ASSUME OneTool
  PROVE  Spec => []IInv
<1>1. Init => IInv
  BY TypeInit, ExclusionInit DEF IInv
<1>2. ASSUME IInv, [Next]_vars PROVE IInv'
  BY <1>2, InvNext
<1> QED
  BY <1>1, <1>2, PTL DEF Spec

(* Software's and the firmware's bit are never set together.                *)
THEOREM BitsExclude ==
  ASSUME OneTool
  PROVE  Spec => []SyncExclusive
<1>1. IInv => SyncExclusive
  BY DEF IInv, SyncInv
<1> QED
  BY <1>1, Invariant, PTL

(* The firmware does not use the NVM while an operation that acquired       *)
(* drives the flash.                                                        *)
THEOREM AccessIsExclusive ==
  ASSUME OneTool
  PROVE  Spec => []AccessExclusive
<1>1. IInv => AccessExclusive
  BY DEF IInv, SyncInv, SyncExclusive, AccessExclusive, Driving
<1> QED
  BY <1>1, Invariant, PTL

(* No write of SW_FW_SYNC by a tool undoes what the firmware wrote.         *)
THEOREM FirmwareBitIsKept ==
  ASSUME OneTool
  PROVE  Spec => FirmwareBitKept
<1>1. ASSUME IInv, [Next]_vars
      PROVE  [(\E t \in Tools : AcqWrite(t) \/ RelWrite(t)) => fwBit' = fwBit]_vars
  BY <1>1 DEF IInv, TypeInv, TypeOK, SyncInv, AcqWrite, RelWrite
<1> QED
  BY <1>1, Invariant, PTL DEF Spec, FirmwareBitKept

-----------------------------------------------------------------------------
(* What a write command leaves.                                             *)

(* Once a burst has been programmed the hardware semaphore is held only     *)
(* inside the semaphore routines, and software's bit only between its       *)
(* setting and its clearing, or where UpdateNvmChecksumI210 has acquired    *)
(* and not yet released.                                                    *)
HwRoutine == {"hwSet", "hwCheck", "relSet", "relCheck"} \cup HwOwned
BitRoutine == {"acqPut", "access", "relSet", "relCheck", "relRead", "relWrite"}
AfterBurst == {"burst", "updOpen", "updRead", "updWrite", "updClose"}
Died(t) == pc[t] = "idle" /\ run[t].end = "killed"
MayHold(t) ==
  \/ pc[t] \in BitRoutine
  \/ run[t].op \in {"updRead", "updWrite"} /\ pc[t] # "idle"
  \/ run[t].op = "updOpen" /\ pc[t] = "ret" /\ ok[t]
  \/ Died(t)

LeaveInv ==
  \A t \in Tools : run[t].wrote =>
    /\ run[t].op \in AfterBurst /\ pc[t] # "detect"
    /\ swesmbi => pc[t] \in HwRoutine \/ Died(t)
    /\ swBit => MayHold(t)

(* The semaphore routines.                                                  *)
LEMMA LeaveRoutines ==
  ASSUME OneTool, IInv, LeaveInv, NEW t \in Tools,
         AcquireNvmI210(t) \/ ReleaseNvmI210(t)
  PROVE  LeaveInv'
<1> USE DEF IInv, TypeInv, TypeOK, LeaveInv, HwRoutine, HwOwned, BitRoutine, Died,
    MayHold, OneTool, Goto, regs, firmware, locals
<1>1. CASE HwSet(t, "hwSet", "hwCheck")
  BY <1>1 DEF HwSet, LatchHw
<1>2. CASE HwGot(t, "hwCheck", "acqRead")
  BY <1>2 DEF HwGot
<1>3. CASE HwRetry(t, "hwCheck", "hwSet")
  BY <1>3 DEF HwRetry
<1>4. CASE AcqHwTimeout(t)
  BY <1>4 DEF AcqHwTimeout, HwTimeout
<1>5. CASE AcqRead(t)
  BY <1>5 DEF AcqRead
<1>6. CASE AcqBack(t)
  BY <1>6 DEF AcqBack, PutHw
<1>7. CASE AcqWrite(t)
  BY <1>7 DEF AcqWrite
<1>8. CASE AcqPut(t)
  BY <1>8 DEF AcqPut, PutHw
<1>9. CASE HwSet(t, "relSet", "relCheck")
  BY <1>9 DEF HwSet, LatchHw
<1>10. CASE HwGot(t, "relCheck", "relRead")
  BY <1>10 DEF HwGot
<1>11. CASE HwRetry(t, "relCheck", "relSet")
  BY <1>11 DEF HwRetry
<1>12. CASE RelHwTimeout(t)
  BY <1>12 DEF RelHwTimeout, HwTimeout
<1>13. CASE RelRead(t)
  BY <1>13 DEF RelRead
<1>14. CASE RelWrite(t)
  BY <1>14 DEF RelWrite
<1>15. CASE RelPut(t)
  BY <1>15 DEF RelPut, PutHw
<1> QED
  BY <1>1, <1>2, <1>3, <1>4, <1>5, <1>6, <1>7, <1>8, <1>9, <1>10, <1>11, <1>12,
     <1>13, <1>14, <1>15 DEF AcquireNvmI210, ReleaseNvmI210

(* Between the operations: the update of the checksum is entered and ended  *)
(* with software's bit clear.                                               *)
LEMMA LeaveReturn ==
  ASSUME OneTool, IInv, LeaveInv, NEW t \in Tools, Return(t)
  PROVE  LeaveInv'
<1> DEFINE r == run[t]
<1>0. /\ UNCHANGED <<swesmbi, swBit>>
      /\ \A u \in Tools : u = t
      /\ r \in Runs /\ pc[t] = "ret"
  <2>1. \A q : Enter(t, q) => UNCHANGED <<swesmbi, swBit>>
    BY DEF Enter, regs
  <2>2. \A why : Exit(t, why) => UNCHANGED <<swesmbi, swBit>>
    BY DEF Exit, regs
  <2>3. UNCHANGED <<swesmbi, swBit>>
    BY <2>1, <2>2, ReturnEntersOrExits DEF IInv
  <2> QED
    BY <2>3 DEF OneTool, IInv, TypeInv, TypeOK, Return
<1>1. r.wrote => /\ r.op \in AfterBurst /\ ~swesmbi
                 /\ swBit => r.op \in {"updRead", "updWrite"} \/ (r.op = "updOpen" /\ ok[t])
  BY <1>0 DEF LeaveInv, MayHold, HwRoutine, HwOwned, BitRoutine, Died
<1>2. ASSUME NEW q \in Runs, Enter(t, q), q.wrote => r.wrote /\ q.op \in AfterBurst \ {"burst", "updOpen"}
      PROVE  LeaveInv'
  <2>1. run'[t] = q /\ pc'[t] = Entry(q)
    BY <1>2 DEF Enter, Goto, IInv, TypeInv, TypeOK
  <2>2. q.wrote => pc'[t] = IF q.op = "updClose" THEN "relSet" ELSE "hwSet"
    BY <1>2, <2>1 DEF Entry, Detecting, AfterBurst
  <2> QED
    BY <1>0, <1>2, <2>1, <2>2 DEF LeaveInv, MayHold, HwRoutine, BitRoutine, AfterBurst
<1>3. ASSUME NEW q \in Runs, Enter(t, q), q.op \in {"burst", "updOpen"}, q.wrote => ~swBit
      PROVE  LeaveInv'
  <2>1. run'[t] = q /\ pc'[t] = "hwSet"
    BY <1>3 DEF Enter, Goto, Entry, Detecting, IInv, TypeInv, TypeOK
  <2> QED
    BY <1>0, <1>3, <2>1 DEF LeaveInv, HwRoutine, AfterBurst
<1>4. ASSUME NEW why \in Endings, Exit(t, why),
             r.wrote => r.op \in AfterBurst /\ ~swesmbi /\ ~swBit
      PROVE  LeaveInv'
  <2>1. run'[t].wrote = r.wrote /\ run'[t].op = r.op /\ pc'[t] = "idle"
    BY <1>0, <1>4 DEF Exit, Goto, IInv, TypeInv, TypeOK, Runs
  <2> QED
    BY <1>0, <1>4, <2>1 DEF LeaveInv, AfterBurst
<1>5. CASE SetupWriteMethod(t)
  <2>1. ~r.wrote
    BY <1>1, <1>5 DEF SetupWriteMethod, AfterBurst
  <2>2. PICK q \in Runs : Enter(t, q) /\ ~q.wrote
    <3> DEFINE Fits(q) == q \in Runs /\ ~q.wrote
    <3>1. \A op \in Ops : Fits([r EXCEPT !.op = op])
      BY <1>0, <2>1 DEF Runs
    <3>2. \A op \in Ops, works \in BOOLEAN : Fits([r EXCEPT !.op = op, !.works = works])
      BY <1>0, <2>1 DEF Runs
    <3>3. \A op \in Ops : Fits([r EXCEPT !.op = op, !.method = 1])
      BY <1>0, <2>1 DEF Runs
    <3>4. {"erase", "testWrite", "testRead", "sectorErase"} \subseteq Ops
      BY DEF Ops
    <3> HIDE DEF Fits
    <3>5. \E q : Enter(t, q) /\ Fits(q)
      BY <1>5, <3>1, <3>2, <3>3, <3>4 DEF SetupWriteMethod
    <3> QED
      BY <3>5 DEF Fits
  <2> QED
    BY <1>2, <2>2
<1>6. CASE WriteNvm(t)
  <2>1. "done" \in Endings /\ "noMethod" \in Endings /\ "noFile" \in Endings
    BY DEF Endings
  <2>2. r.wrote => ~swBit
    BY <1>1, <1>6 DEF WriteNvm, AfterBurst
  <2>3. CASE \E why \in {"done", "noMethod", "noFile"} : Exit(t, why)
    BY <1>1, <1>4, <2>1, <2>2, <2>3
  <2>4. CASE r.op = "sectorErase" /\ Enter(t, [r EXCEPT !.op = "burst"])
    <3>1. [r EXCEPT !.op = "burst"] \in Runs
      BY <1>0 DEF Runs, Ops
    <3> QED
      BY <1>0, <1>3, <2>2, <2>4, <3>1 DEF Runs
  <2>5. CASE r.op = "burst" /\ r.left > 1 /\ Enter(t, [r EXCEPT !.left = @ - 1])
    <3>1. [r EXCEPT !.left = @ - 1] \in Runs
      BY <1>0, <2>5 DEF Runs
    <3> QED
      BY <1>0, <1>3, <2>2, <2>5, <3>1 DEF Runs
  <2>6. CASE Enter(t, [r EXCEPT !.op = "updOpen", !.left = MaxReads])
    <3>1. [r EXCEPT !.op = "updOpen", !.left = MaxReads] \in Runs
      BY <1>0, WorkAssumption DEF Runs, Ops
    <3> QED
      BY <1>0, <1>3, <2>2, <2>6, <3>1 DEF Runs
  <2> QED
    BY <1>6, <2>3, <2>4, <2>5, <2>6 DEF WriteNvm, ToUpdate
<1>7. CASE UpdateNvmChecksumI210(t)
  <2>1. CASE Exit(t, "done") /\ ((r.op = "updOpen" /\ ~ok[t]) \/ r.op = "updClose")
    BY <1>1, <1>4, <2>1 DEF Endings
  <2>2. CASE \E op \in {"updRead", "updWrite", "updClose"} : Enter(t, [r EXCEPT !.op = op])
    <3>1. PICK op \in {"updRead", "updWrite", "updClose"} : Enter(t, [r EXCEPT !.op = op])
      BY <2>2
    <3>2. [r EXCEPT !.op = op] \in Runs
      BY <1>0 DEF Runs, Ops
    <3> QED
      BY <1>0, <1>2, <3>1, <3>2 DEF Runs, AfterBurst
  <2>3. CASE r.op = "updRead" /\ r.left > 1 /\ Enter(t, [r EXCEPT !.left = @ - 1])
    <3>1. [r EXCEPT !.left = @ - 1] \in Runs
      BY <1>0, <2>3 DEF Runs
    <3> QED
      BY <1>0, <1>2, <2>3, <3>1 DEF Runs, AfterBurst
  <2> QED
    BY <1>7, <2>1, <2>2, <2>3 DEF UpdateNvmChecksumI210
<1>8. CASE EraseDevice(t)
  BY <1>1, <1>4, <1>8 DEF EraseDevice, Endings, AfterBurst
<1>9. CASE DumpData(t)
  <2>1. ~r.wrote
    BY <1>1, <1>9 DEF DumpData, AfterBurst
  <2>2. CASE Exit(t, "done")
    BY <1>4, <2>1, <2>2 DEF Endings
  <2>3. CASE r.left > 1 /\ Enter(t, [r EXCEPT !.left = @ - 1])
    <3>1. [r EXCEPT !.left = @ - 1] \in Runs /\ ~[r EXCEPT !.left = @ - 1].wrote
      BY <1>0, <2>1, <2>3 DEF Runs
    <3> QED
      BY <1>2, <2>3, <3>1
  <2> QED
    BY <1>9, <2>2, <2>3 DEF DumpData
<1> QED
  BY <1>5, <1>6, <1>7, <1>8, <1>9 DEF Return

(* The other steps of a tool.                                               *)
LEMMA LeaveCommand ==
  ASSUME OneTool, IInv, LeaveInv, NEW t \in Tools,
         Detect(t) \/ Access(t) \/ Start(t) \/ Kill(t)
  PROVE  LeaveInv'
<1>0. /\ \A u \in Tools : u = t
      /\ run[t] \in Runs /\ run \in [Tools -> Runs] /\ pc \in [Tools -> Steps]
      /\ ok \in [Tools -> BOOLEAN]
  BY DEF OneTool, IInv, TypeInv, TypeOK
<1>1. CASE Detect(t)
  <2>1. ~run[t].wrote
    BY <1>1 DEF Detect, LeaveInv
  <2>2. run'[t].wrote = run[t].wrote
    BY <1>0, <1>1 DEF Detect, Runs
  <2> QED
    BY <1>0, <2>1, <2>2 DEF LeaveInv
<1>2. CASE Access(t)
  <2>1. /\ run'[t].op = run[t].op /\ UNCHANGED <<swesmbi, swBit>>
        /\ run'[t].wrote <=> run[t].wrote \/ run[t].op = "burst"
        /\ pc[t] = "access"
        /\ pc'[t] = IF run[t].op \in Unreleased THEN "ret" ELSE "relSet"
    BY <1>0, <1>2 DEF Access, Goto, regs, Runs
  <2>2. run'[t].wrote => run[t].op \in AfterBurst /\ pc'[t] = "relSet"
    BY <2>1 DEF LeaveInv, AfterBurst, Unreleased
  <2> QED
    BY <1>0, <2>1, <2>2 DEF LeaveInv, MayHold, HwRoutine, BitRoutine
<1>3. CASE Start(t)
  <2>1. \E q : Enter(t, q) /\ q.wrote = FALSE
    BY <1>3 DEF Start
  <2>2. ~run'[t].wrote
    BY <1>0, <2>1 DEF Enter
  <2> QED
    BY <1>0, <2>2 DEF LeaveInv
<1>4. CASE Kill(t)
  <2>1. /\ run'[t].op = run[t].op /\ run'[t].wrote = run[t].wrote
        /\ run'[t].end = "killed" /\ pc'[t] = "idle"
    BY <1>0, <1>4 DEF Kill, Goto, Runs
  <2> QED
    BY <1>0, <2>1 DEF LeaveInv, MayHold, Died
<1> QED
  BY <1>1, <1>2, <1>3, <1>4

(* Every step keeps it.                                                     *)
LEMMA LeaveNext ==
  ASSUME OneTool, IInv, LeaveInv, [Next]_vars
  PROVE  LeaveInv'
<1>1. ASSUME UNCHANGED <<swesmbi, swBit, pc, ok, run>> PROVE LeaveInv'
  BY <1>1 DEF LeaveInv, MayHold, Died
<1>2. CASE UNCHANGED vars
  BY <1>1, <1>2 DEF vars, regs, locals
<1>3. CASE FwWant \/ FwRetryAtOnce \/ Firmware
  <2>1. UNCHANGED <<swesmbi, swBit, pc, ok, run>>
    BY <1>3 DEF FwWant, FwRetryAtOnce, Firmware, FwTakeHw, FwCheck, FwRetry, FwUse,
       FwClear, regs, locals
  <2> QED
    BY <1>1, <2>1
<1>4. ASSUME NEW t \in Tools, ToolStep(t) \/ Start(t) \/ Kill(t)
      PROVE  LeaveInv'
  BY <1>4, LeaveRoutines, LeaveReturn, LeaveCommand DEF ToolStep
<1> QED
  BY <1>2, <1>3, <1>4 DEF Next

(* A write command that ran to its end and programmed a burst leaves        *)
(* neither semaphore set, whatever an earlier run had left set.             *)
THEOREM WriteLeavesThemFree ==
  ASSUME OneTool
  PROVE  Spec => []WriteLeavesNothing
<1>1. Init => LeaveInv
  BY DEF Init, LeaveInv
<1>2. ASSUME IInv, LeaveInv, [Next]_vars PROVE LeaveInv'
  BY <1>2, LeaveNext
<1>3. LeaveInv => WriteLeavesNothing
  BY DEF LeaveInv, WriteLeavesNothing, MayHold, HwRoutine, HwOwned, BitRoutine, Died
<1> QED
  BY <1>1, <1>2, <1>3, Invariant, PTL DEF Spec

-----------------------------------------------------------------------------
(* The refinement of NvmArbiter.                                            *)

(* The steps of a tool that can change a bit of SW_FW_SYNC.                 *)
LEMMA ToolWrites ==
  ASSUME TypeInv, NEW t \in Tools, ToolStep(t) \/ Start(t) \/ Kill(t),
         ~AcqWrite(t), ~RelWrite(t)
  PROVE  UNCHANGED <<swBit, fwBit>>
<1>1. ASSUME NEW r, Enter(t, r) PROVE UNCHANGED <<swBit, fwBit>>
  BY <1>1 DEF Enter, regs
<1>2. ASSUME NEW why, Exit(t, why) PROVE UNCHANGED <<swBit, fwBit>>
  BY <1>2 DEF Exit, regs
<1>3. CASE AcquireNvmI210(t)
  BY <1>3 DEF AcquireNvmI210, HwSet, HwGot, HwRetry, AcqHwTimeout, HwTimeout,
     AcqRead, AcqBack, AcqPut, PutHw, regs
<1>4. CASE ReleaseNvmI210(t)
  BY <1>4 DEF ReleaseNvmI210, HwSet, HwGot, HwRetry, RelHwTimeout, HwTimeout,
     RelRead, RelPut, PutHw, regs
<1>5. CASE Return(t)
  BY <1>1, <1>2, <1>5, ReturnEntersOrExits
<1>6. CASE Start(t)
  BY <1>1, <1>6 DEF Start
<1>7. CASE Detect(t) \/ Access(t) \/ Kill(t)
  BY <1>7 DEF Detect, Access, Kill, regs
<1> QED
  BY <1>3, <1>4, <1>5, <1>6, <1>7 DEF ToolStep

(* The register protocol implements the arbiter.                            *)
THEOREM ImplementsArbiter ==
  ASSUME OneTool
  PROVE  Spec => ArbiterSpec
<1>1. Init => Arbiter!Init
  BY DEF Init, Arbiter!Init, Owner
<1>2. ASSUME IInv, [Next]_vars
      PROVE  [Arbiter!Next]_Owner
  <2> USE DEF Owner, Arbiter!Next, Arbiter!Take, Arbiter!Drop, Arbiter!Owners
  <2>1. CASE UNCHANGED <<swBit, fwBit>>
    BY <2>1
  <2>2. ASSUME NEW t \in Tools, ToolStep(t) \/ Start(t) \/ Kill(t)
        PROVE  [Arbiter!Next]_Owner
    <3>1. CASE AcqWrite(t)
      BY <1>2, <3>1 DEF IInv, SyncInv, SyncExclusive, AcqWrite
    <3>2. CASE RelWrite(t)
      BY <1>2, <3>2 DEF IInv, SyncInv, SyncExclusive, RelWrite
    <3> QED
      BY <1>2, <2>1, <2>2, <3>1, <3>2, ToolWrites DEF IInv
  <2>3. CASE FwCheck
    BY <1>2, <2>3 DEF IInv, HwInv, SyncInv, SyncExclusive, FwCheck, FwMove
  <2>4. CASE FwClear
    BY <1>2, <2>4 DEF IInv, SyncInv, SyncExclusive, FwClear, FwMove
  <2>5. CASE FwWant \/ FwRetryAtOnce \/ FwTakeHw \/ FwRetry \/ FwUse
    BY <2>1, <2>5 DEF FwWant, FwRetryAtOnce, FwTakeHw, FwRetry, FwUse, regs
  <2>6. CASE UNCHANGED vars
    BY <2>1, <2>6 DEF vars, regs
  <2> QED
    BY <1>2, <2>2, <2>3, <2>4, <2>5, <2>6 DEF Next, Firmware
<1> QED
  BY <1>1, <1>2, Invariant, PTL DEF Spec, ArbiterSpec, Arbiter!Spec
=============================================================================
