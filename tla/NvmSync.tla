------------------------------ MODULE NvmSync ------------------------------
(***************************************************************************)
(* The semaphores that guard the NVM of an I210 (PciEeprom.c), at the      *)
(* granularity of single register accesses, under the operations that      *)
(* EepromAccessTool performs (main.c, testfuncs.c).                        *)
(*                                                                         *)
(* A tool process takes the hardware semaphore (SWSM.SWESMBI), looks at    *)
(* the firmware's bit of SW_FW_SYNC, sets software's bit, puts the         *)
(* hardware semaphore back, drives the flash and then clears its bit under *)
(* the hardware semaphore again.  The firmware of the NIC is the other     *)
(* party; it is not in the repository and is modelled from what the code   *)
(* expects of it.  A process can be killed between any two accesses: the   *)
(* registers keep what was written, and the tool can be started again.     *)
(*                                                                         *)
(* The flash itself is abstracted to "being driven" (pc = "access" with    *)
(* the semaphore, pc = "detect" without).                                  *)
(***************************************************************************)
EXTENDS Naturals

CONSTANTS
  Tools,        \* processes running EepromAccessTool on the same NIC
  MaxAttempts,  \* attempts of AcquireNvmI210 (200 in the code)
  HwAttempts,   \* attempts of GetHwSemaphoreI210 (dev->wordsize + 1)
  MaxBursts,    \* bursts of an image (wordsize / BURST_SIZE)
  MaxReads,     \* reads of the checksum loop (NVM_CHECKSUM_REG / 2 + 1)
  MaxRuns,      \* bound: times each tool is started
  MaxFwUses     \* bound: times the firmware wants or presses for the NVM

ASSUME AttemptsAssumption == MaxAttempts \in Nat \ {0} /\ HwAttempts \in Nat \ {0}
ASSUME WorkAssumption == MaxBursts \in Nat \ {0} /\ MaxReads \in Nat \ {0}
ASSUME BoundsAssumption == MaxRuns \in Nat /\ MaxFwUses \in Nat

VARIABLES
  swesmbi,   \* SWSM.SWESMBI, the hardware semaphore as software's bit
  swBit,     \* SW_FW_SYNC bit 0, SWFW_EEP_SM
  fwBit,     \* SW_FW_SYNC bit 16, SWFW_EEP_SM << 16
  mdioBit,   \* EXTCNF_CTRL.MDIO_SW_OWNERSHIP, a lock the I210 path never takes
  fw,        \* where the firmware is
  fwUses,    \* how often it has wanted the NVM or pressed for it
  pc,        \* the register access each tool makes next
  ok,        \* result of the tool's last acquire
  sync,      \* SyncVal: the firmware's bit as the tool last read it
  tries,     \* i of AcquireNvmI210
  hwTries,   \* i of GetHwSemaphoreI210
  run        \* where the tool is in the command it executes

regs == <<swesmbi, swBit, fwBit, mdioBit>>
firmware == <<fw, fwUses>>
locals == <<ok, sync, tries, hwTries>>
vars == <<regs, firmware, pc, locals, run>>

Commands == {"write", "erase", "dump"}
Ops == {"setup", "erase", "testWrite", "testRead", "sectorErase", "burst",
        "updOpen", "updRead", "updWrite", "updClose", "read"}
Endings == {"none", "killed", "noMethod", "noFile", "done"}

FwStates == {"idle", "want", "wait", "check", "grant", "use", "drop", "clear"}
FwHoldsHw == fw \in {"check", "grant", "clear"}

AcquireSteps == {"hwSet", "hwCheck", "acqRead", "acqWrite", "acqPut", "acqBack"}
ReleaseSteps == {"relSet", "relCheck", "relRead", "relWrite", "relPut"}
Steps == {"idle", "detect", "access", "ret"} \cup AcquireSteps \cup ReleaseSteps

Runs == [op : Ops, cmd : Commands, mac : BOOLEAN, file : BOOLEAN,
         method : {0, 1}, works : BOOLEAN, known : BOOLEAN, wrote : BOOLEAN,
         left : Nat, count : Nat, end : Endings]

Init ==
  /\ swesmbi = FALSE /\ swBit = FALSE /\ fwBit = FALSE /\ mdioBit \in BOOLEAN
  /\ fw = "idle" /\ fwUses = 0
  /\ pc = [t \in Tools |-> "idle"]
  /\ ok = [t \in Tools |-> FALSE]
  /\ sync = [t \in Tools |-> FALSE]
  /\ tries = [t \in Tools |-> 0]
  /\ hwTries = [t \in Tools |-> 0]
  /\ run = [t \in Tools |->
              [op |-> "setup", cmd |-> "write", mac |-> FALSE, file |-> FALSE,
               method |-> 0, works |-> FALSE, known |-> FALSE, wrote |-> FALSE,
               left |-> 0, count |-> 0, end |-> "none"]]

-----------------------------------------------------------------------------
(* GetHwSemaphoreI210, PutHwSemaphoreI210 and the two callers' reactions.   *)

Goto(t, next) == pc' = [pc EXCEPT ![t] = next]

(* The bit latches only while the firmware does not hold its half of SWSM.  *)
LatchHw == swesmbi' = (swesmbi \/ ~FwHoldsHw)

HwSet(t, from, next) ==
  /\ pc[t] = from
  /\ LatchHw
  /\ Goto(t, next)
  /\ UNCHANGED <<swBit, fwBit, mdioBit, firmware, locals, run>>

HwGot(t, from, next) ==
  /\ pc[t] = from
  /\ swesmbi
  /\ hwTries' = [hwTries EXCEPT ![t] = 0]
  /\ Goto(t, next)
  /\ UNCHANGED <<regs, firmware, ok, sync, tries, run>>

HwRetry(t, from, again) ==
  /\ pc[t] = from
  /\ ~swesmbi
  /\ hwTries[t] + 1 < HwAttempts
  /\ hwTries' = [hwTries EXCEPT ![t] = @ + 1]
  /\ Goto(t, again)
  /\ UNCHANGED <<regs, firmware, ok, sync, tries, run>>

(* On a time-out the I210 code calls PutHwSemaphore82574, which clears a    *)
(* bit of EXTCNF_CTRL.                                                      *)
HwTimeout(t, from, next) ==
  /\ pc[t] = from
  /\ ~swesmbi
  /\ hwTries[t] + 1 = HwAttempts
  /\ hwTries' = [hwTries EXCEPT ![t] = 0]
  /\ mdioBit' = FALSE
  /\ Goto(t, next)
  /\ UNCHANGED <<swesmbi, swBit, fwBit, firmware, sync, tries, run>>

PutHw(t) ==
  /\ swesmbi' = FALSE
  /\ UNCHANGED <<swBit, fwBit, mdioBit, firmware>>

-----------------------------------------------------------------------------
(* AcquireNvmI210.                                                          *)

(* Mutant: the loop does not stop at MaxAttempts.                           *)
AcqBackUnbounded(t) ==
  /\ pc[t] = "acqBack"
  /\ PutHw(t)
  /\ tries' = [tries EXCEPT ![t] = @ + 1]
  /\ Goto(t, "hwSet")
  /\ UNCHANGED <<ok, sync, hwTries, run>>

(* Mutant: an attempt that found the NVM busy is not counted.               *)
AcqBackUncounted(t) ==
  /\ pc[t] = "acqBack"
  /\ PutHw(t)
  /\ Goto(t, "hwSet")
  /\ UNCHANGED <<locals, run>>

(* Mutant: the firmware's bit is not looked at.                             *)
AcqReadBlind(t) ==
  /\ pc[t] = "acqRead"
  /\ sync' = [sync EXCEPT ![t] = fwBit]
  /\ Goto(t, "acqWrite")
  /\ UNCHANGED <<regs, firmware, ok, tries, hwTries, run>>

AcqHwTimeout(t) ==
  /\ HwTimeout(t, "hwCheck", "ret")
  /\ ok' = [ok EXCEPT ![t] = FALSE]

AcqRead(t) ==
  /\ pc[t] = "acqRead"
  /\ sync' = [sync EXCEPT ![t] = fwBit]
  /\ Goto(t, IF fwBit THEN "acqBack" ELSE "acqWrite")
  /\ UNCHANGED <<regs, firmware, ok, tries, hwTries, run>>

AcqBack(t) ==
  /\ pc[t] = "acqBack"
  /\ PutHw(t)
  /\ tries' = [tries EXCEPT ![t] = @ + 1]
  /\ IF tries[t] + 1 = MaxAttempts
     THEN ok' = [ok EXCEPT ![t] = FALSE] /\ Goto(t, "ret")
     ELSE UNCHANGED ok /\ Goto(t, "hwSet")
  /\ UNCHANGED <<sync, hwTries, run>>

(* The whole register is written back, the firmware's bit as it was read.   *)
AcqWrite(t) ==
  /\ pc[t] = "acqWrite"
  /\ swBit' = TRUE
  /\ fwBit' = sync[t]
  /\ Goto(t, "acqPut")
  /\ UNCHANGED <<swesmbi, mdioBit, firmware, locals, run>>

AcqPut(t) ==
  /\ pc[t] = "acqPut"
  /\ PutHw(t)
  /\ ok' = [ok EXCEPT ![t] = TRUE]
  /\ Goto(t, IF run[t].op = "updOpen" THEN "ret" ELSE "access")
  /\ UNCHANGED <<sync, tries, hwTries, run>>

AcquireNvmI210(t) ==
  \/ HwSet(t, "hwSet", "hwCheck")
  \/ HwGot(t, "hwCheck", "acqRead")
  \/ HwRetry(t, "hwCheck", "hwSet")
  \/ AcqHwTimeout(t)
  \/ AcqRead(t)
  \/ AcqBack(t)
  \/ AcqWrite(t)
  \/ AcqPut(t)

-----------------------------------------------------------------------------
(* ReleaseNvmI210: it asks for the hardware semaphore until it gets it.     *)

(* Mutant: the register is read before the hardware semaphore is taken.     *)
RelReadUnlocked(t) ==
  /\ pc[t] \in {"relSet", "relRead"}
  /\ sync' = [sync EXCEPT ![t] = fwBit]
  /\ Goto(t, "relWrite")
  /\ UNCHANGED <<regs, firmware, ok, tries, hwTries, run>>

(* Mutant: the request bit is written back as it was.                       *)
RelWriteKeepsBit(t) ==
  /\ pc[t] = "relWrite"
  /\ fwBit' = sync[t]
  /\ Goto(t, "relPut")
  /\ UNCHANGED <<swesmbi, swBit, mdioBit, firmware, locals, run>>

(* Mutant: the hardware semaphore is not put back.                          *)
RelPutForgotten(t) ==
  /\ pc[t] = "relPut"
  /\ Goto(t, "ret")
  /\ UNCHANGED <<regs, firmware, locals, run>>

RelHwTimeout(t) ==
  /\ HwTimeout(t, "relCheck", "relSet")
  /\ UNCHANGED ok

RelRead(t) ==
  /\ pc[t] = "relRead"
  /\ sync' = [sync EXCEPT ![t] = fwBit]
  /\ Goto(t, "relWrite")
  /\ UNCHANGED <<regs, firmware, ok, tries, hwTries, run>>

RelWrite(t) ==
  /\ pc[t] = "relWrite"
  /\ swBit' = FALSE
  /\ fwBit' = sync[t]
  /\ Goto(t, "relPut")
  /\ UNCHANGED <<swesmbi, mdioBit, firmware, locals, run>>

RelPut(t) ==
  /\ pc[t] = "relPut"
  /\ PutHw(t)
  /\ Goto(t, "ret")
  /\ UNCHANGED <<locals, run>>

ReleaseNvmI210(t) ==
  \/ HwSet(t, "relSet", "relCheck")
  \/ HwGot(t, "relCheck", "relRead")
  \/ HwRetry(t, "relCheck", "relSet")
  \/ RelHwTimeout(t)
  \/ RelRead(t)
  \/ RelWrite(t)
  \/ RelPut(t)

-----------------------------------------------------------------------------
(* The operations.  One that drives the flash acquires first, except that   *)
(* FlashDetectAndSetWritable, called by SetupWriteMethod, EraseNvm and      *)
(* SectorEraseNvm until it has seen a manufacturer id, does not.            *)
(* BitBangFlashSectorEraseI210 has no release.                              *)

Detecting == {"setup", "erase", "sectorErase"}
Unreleased == {"sectorErase"}

(* Mutant: the erase does not acquire.                                      *)
EntryUnguarded(r) ==
  IF r.op \in Detecting /\ ~r.known THEN "detect"
  ELSE IF r.op = "setup" THEN "ret"
  ELSE IF r.op = "updClose" THEN "relSet"
  ELSE IF r.op = "erase" THEN "access"
  ELSE "hwSet"

Entry(r) ==
  IF r.op \in Detecting /\ ~r.known THEN "detect"
  ELSE IF r.op = "setup" THEN "ret"
  ELSE IF r.op = "updClose" THEN "relSet"
  ELSE "hwSet"

Enter(t, r) ==
  /\ run' = [run EXCEPT ![t] = r]
  /\ Goto(t, Entry(r))
  /\ tries' = [tries EXCEPT ![t] = 0]
  /\ UNCHANGED <<regs, firmware, ok, sync, hwTries>>

(* The id of the flash is read, unguarded; it may read as zero, and then    *)
(* the next call detects again.                                             *)
Detect(t) ==
  /\ pc[t] = "detect"
  /\ \E seen \in BOOLEAN : run' = [run EXCEPT ![t].known = seen]
  /\ Goto(t, IF run[t].op = "setup" THEN "ret" ELSE "hwSet")
  /\ UNCHANGED <<regs, firmware, locals>>

Access(t) ==
  /\ pc[t] = "access"
  /\ run' = [run EXCEPT ![t].wrote = @ \/ run[t].op = "burst"]
  /\ Goto(t, IF run[t].op \in Unreleased THEN "ret" ELSE "relSet")
  /\ UNCHANGED <<regs, firmware, locals>>

-----------------------------------------------------------------------------
(* The commands: WriteToDevice, EraseDevice and DumpData.                   *)

Start(t) ==
  /\ pc[t] = "idle"
  /\ run[t].count < MaxRuns
  /\ \E cmd \in Commands, mac, file \in BOOLEAN :
       LET op == CASE cmd = "write" -> "setup"
                   [] cmd = "erase" -> "erase"
                   [] cmd = "dump" -> "read"
       IN Enter(t, [op |-> op, cmd |-> cmd, mac |-> mac, file |-> file,
                    method |-> 0, works |-> FALSE, known |-> FALSE,
                    wrote |-> FALSE, left |-> MaxBursts,
                    count |-> run[t].count + 1, end |-> "none"])

Exit(t, why) ==
  /\ run' = [run EXCEPT ![t].end = why]
  /\ Goto(t, "idle")
  /\ UNCHANGED <<regs, firmware, locals>>

(* SetupWriteMethod: erase, then try the writing methods with a test word.  *)
(* A read that could not acquire leaves Data zero, which never matches.     *)
SetupWriteMethod(t) ==
  LET r == run[t] IN
  \/ r.op = "setup" /\ Enter(t, [r EXCEPT !.op = "erase"])
  \/ r.op = "erase" /\ r.cmd = "write" /\ Enter(t, [r EXCEPT !.op = "testWrite"])
  \/ r.op = "testWrite" /\ Enter(t, [r EXCEPT !.op = "testRead"])
  \/ /\ r.op = "testRead"
     /\ ok[t]
     /\ Enter(t, [r EXCEPT !.op = "sectorErase", !.works = TRUE])
  \/ /\ r.op = "testRead"
     /\ IF r.method = 0
        THEN Enter(t, [r EXCEPT !.op = "testWrite", !.method = 1])
        ELSE Enter(t, [r EXCEPT !.op = "sectorErase", !.works = FALSE])

(* WriteNvm: the file is opened after the set-up; the image has from zero   *)
(* to MaxBursts bursts; the results of the writes are not looked at.        *)
ToUpdate(t, r) ==
  IF r.mac THEN Enter(t, [r EXCEPT !.op = "updOpen", !.left = MaxReads])
           ELSE Exit(t, "done")

WriteNvm(t) ==
  LET r == run[t] IN
  \/ r.op = "sectorErase" /\ ~r.works /\ Exit(t, "noMethod")
  \/ r.op = "sectorErase" /\ r.works /\ ~r.file /\ Exit(t, "noFile")
  \/ r.op = "sectorErase" /\ r.works /\ r.file /\ Enter(t, [r EXCEPT !.op = "burst"])
  \/ r.op = "burst" /\ r.left > 1 /\ Enter(t, [r EXCEPT !.left = @ - 1])
  \/ r.op \in {"sectorErase", "burst"} /\ r.works /\ r.file /\ ToUpdate(t, r)

(* UpdateNvmChecksumI210 acquires, and then calls nvmops.read and           *)
(* nvmops.write, each of which acquires and releases by itself.             *)
UpdateNvmChecksumI210(t) ==
  LET r == run[t] IN
  \/ r.op = "updOpen" /\ ~ok[t] /\ Exit(t, "done")
  \/ r.op = "updOpen" /\ ok[t] /\ Enter(t, [r EXCEPT !.op = "updRead"])
  \/ r.op = "updRead" /\ ~ok[t] /\ Enter(t, [r EXCEPT !.op = "updClose"])
  \/ r.op = "updRead" /\ ok[t] /\ r.left > 1 /\ Enter(t, [r EXCEPT !.left = @ - 1])
  \/ r.op = "updRead" /\ ok[t] /\ r.left = 1 /\ Enter(t, [r EXCEPT !.op = "updWrite"])
  \/ r.op = "updWrite" /\ Enter(t, [r EXCEPT !.op = "updClose"])
  \/ r.op = "updClose" /\ Exit(t, "done")

EraseDevice(t) ==
  run[t].op = "erase" /\ run[t].cmd = "erase" /\ Exit(t, "done")

DumpData(t) ==
  LET r == run[t] IN
  \/ r.op = "read" /\ r.left > 1 /\ Enter(t, [r EXCEPT !.left = @ - 1])
  \/ r.op = "read" /\ r.left = 1 /\ Exit(t, "done")

Return(t) ==
  /\ pc[t] = "ret"
  /\ \/ SetupWriteMethod(t)
     \/ WriteNvm(t)
     \/ UpdateNvmChecksumI210(t)
     \/ EraseDevice(t)
     \/ DumpData(t)

Kill(t) ==
  /\ pc[t] # "idle"
  /\ run' = [run EXCEPT ![t].end = "killed"]
  /\ Goto(t, "idle")
  /\ ok' = [ok EXCEPT ![t] = FALSE]
  /\ sync' = [sync EXCEPT ![t] = FALSE]
  /\ tries' = [tries EXCEPT ![t] = 0]
  /\ hwTries' = [hwTries EXCEPT ![t] = 0]
  /\ UNCHANGED <<regs, firmware>>

-----------------------------------------------------------------------------
(* The firmware (external): it follows the same protocol from its side.     *)

FwMove(from, to) == fw = from /\ fw' = to

FwWant ==
  /\ FwMove("idle", "want")
  /\ fwUses < MaxFwUses
  /\ fwUses' = fwUses + 1
  /\ UNCHANGED <<regs, pc, locals, run>>

FwTakeHw ==
  /\ ~swesmbi
  /\ FwMove("want", "check") \/ FwMove("drop", "clear")
  /\ UNCHANGED <<regs, fwUses, pc, locals, run>>

FwCheck ==
  /\ IF swBit THEN FwMove("check", "wait") /\ UNCHANGED fwBit
              ELSE FwMove("check", "grant") /\ fwBit' = TRUE
  /\ UNCHANGED <<swesmbi, swBit, mdioBit, fwUses, pc, locals, run>>

(* Refused, it tries again once software's bit is clear, or, a bounded      *)
(* number of times, without waiting for that.                               *)
FwRetry ==
  /\ ~swBit
  /\ FwMove("wait", "want")
  /\ UNCHANGED <<regs, fwUses, pc, locals, run>>

FwRetryAtOnce ==
  /\ FwMove("wait", "want")
  /\ fwUses < MaxFwUses
  /\ fwUses' = fwUses + 1
  /\ UNCHANGED <<regs, pc, locals, run>>

FwUse ==
  /\ FwMove("grant", "use") \/ FwMove("use", "drop")
  /\ UNCHANGED <<regs, fwUses, pc, locals, run>>

FwClear ==
  /\ FwMove("clear", "idle")
  /\ fwBit' = FALSE
  /\ UNCHANGED <<swesmbi, swBit, mdioBit, fwUses, pc, locals, run>>

Firmware == FwTakeHw \/ FwCheck \/ FwRetry \/ FwUse \/ FwClear

-----------------------------------------------------------------------------
ToolStep(t) ==
  AcquireNvmI210(t) \/ ReleaseNvmI210(t) \/ Detect(t) \/ Access(t) \/ Return(t)

Next ==
  \/ \E t \in Tools : ToolStep(t) \/ Start(t) \/ Kill(t)
  \/ FwWant \/ FwRetryAtOnce
  \/ Firmware

Spec == Init /\ [][Next]_vars

(* A started process keeps running, and the firmware goes on once it wants  *)
(* the NVM; nobody has to start a tool, kill one or want the NVM.           *)
Fairness ==
  /\ \A t \in Tools : WF_vars(ToolStep(t))
  /\ WF_vars(Firmware)

FairSpec == Spec /\ Fairness

-----------------------------------------------------------------------------
(* Properties.                                                              *)

(* Every variable stays in its type; in particular no attempt counter of    *)
(* AcquireNvmI210 or GetHwSemaphoreI210 runs past its limit.                *)
TypeOK ==
  /\ swesmbi \in BOOLEAN /\ swBit \in BOOLEAN
  /\ fwBit \in BOOLEAN /\ mdioBit \in BOOLEAN
  /\ fw \in FwStates /\ fwUses \in 0..MaxFwUses
  /\ pc \in [Tools -> Steps]
  /\ ok \in [Tools -> BOOLEAN] /\ sync \in [Tools -> BOOLEAN]
  /\ tries \in [Tools -> 0..MaxAttempts] /\ hwTries \in [Tools -> 0..HwAttempts]
  /\ run \in [Tools -> Runs]

(* Software's and firmware's bit of SW_FW_SYNC are never set together,      *)
(* whatever the interleaving, also when killed runs have left bits behind:  *)
(* each side looks and sets under the hardware semaphore (AcquireNvmI210).  *)
SyncExclusive == ~(swBit /\ fwBit)

(* While an operation that acquired drives the flash, the firmware does not *)
(* use it: neither the release inside a nested operation nor the missing    *)
(* release of the sector erase ever opens the NVM under an access.          *)
Driving(t) == pc[t] = "access"
AccessExclusive == \A t \in Tools : Driving(t) => swBit /\ fw \notin {"grant", "use", "drop"}

(* A tool writes back the whole of SW_FW_SYNC with the firmware's half as   *)
(* it read it some accesses earlier; the write never undoes an update of    *)
(* the firmware that came in between.                                       *)
FirmwareBitKept ==
  [][(\E t \in Tools : AcqWrite(t) \/ RelWrite(t)) => fwBit' = fwBit]_vars

(* A write command that ran to its end and programmed at least one burst    *)
(* leaves neither semaphore set, although the sector erase of its set-up    *)
(* was never released and an earlier killed run may have left both set.     *)
WriteLeavesNothing ==
  \A t \in Tools :
    pc[t] = "idle" /\ run[t].end = "done" /\ run[t].wrote => ~swBit /\ ~swesmbi

(* A started command ends, although ReleaseNvmI210 asks for the hardware    *)
(* semaphore without a limit.                                               *)
CommandEnds == \A t \in Tools : pc[t] # "idle" ~> pc[t] = "idle"

(* The firmware gets the NVM it wants unless the last run left a semaphore  *)
(* behind, and the only runs that do are those killed, those whose last     *)
(* acquire failed, and the write commands that end after the sector erase   *)
(* of their set-up without programming a burst (no method works, no file,   *)
(* or a file shorter than a burst).                                         *)
MayLeave(r) == r.end = "killed" \/ (r.cmd = "write" /\ ~r.wrote)
LeftLocked ==
  /\ \A t \in Tools : pc[t] = "idle"
  /\ swBit \/ swesmbi
  /\ \E t \in Tools : MayLeave(run[t]) \/ ~ok[t]
FirmwareServed == fw \in {"want", "wait"} ~> (fw = "use" \/ LeftLocked)

(* The register protocol implements the arbiter: software and firmware own  *)
(* the NVM in turns and never take it from each other directly.             *)
Owner == IF swBit THEN "software" ELSE IF fwBit THEN "firmware" ELSE "nobody"
Arbiter == INSTANCE NvmArbiter WITH owner <- Owner
ArbiterSpec == Arbiter!Spec

(* An acquire that returns success owns the semaphore: two tools never      *)
(* drive the flash at the same time (AcquireNvmI210 "Returns: Success on    *)
(* acquisition of the semaphore, fail otherwise").                          *)
OneDriver == \A t, u \in Tools : Driving(t) /\ Driving(u) => t = u

(* The checksum of the I210 is read and written under one acquisition:      *)
(* UpdateNvmChecksumI210 first checks "if we have the semaphore", and by    *)
(* the comment in ValidateNvmChecksumI210 what follows an acquire already   *)
(* has it.                                                                  *)
InUpdate(t) == run[t].op \in {"updRead", "updWrite"} /\ pc[t] # "idle"
ChecksumUnderOneAcquire ==
  [][\A t \in Tools : InUpdate(t) /\ InUpdate(t)' => (swBit => swBit')]_vars

=============================================================================
