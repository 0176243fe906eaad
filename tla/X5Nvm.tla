------------------------------- MODULE X5Nvm -------------------------------
(***************************************************************************)
(* The NVM of an X550 or X553 (PciEeprom.c), reached through commands in a *)
(* mailbox of the NIC's firmware, and the three operations the tool does   *)
(* on it: WriteNvmX550, ReprogramMacAddress and DumpData.                  *)
(*                                                                         *)
(* A read or a write acquires the NVM bit of SW_FW_SYNC, then, inside,     *)
(* HostInterfaceCommandX550 acquires the mailbox bit, posts the command,   *)
(* polls for the answer and releases the mailbox; words go to a shadow RAM *)
(* that a third command copies to the flash.  Both bits are set and        *)
(* cleared under two hardware semaphores, SMBI and REGSMP, that a read of  *)
(* their register takes.  The firmware is external: it answers commands,   *)
(* when it likes, and wants the NVM for itself.  The process can be killed *)
(* between any two steps and the tool started again.                       *)
(***************************************************************************)
EXTENDS Naturals, Sequences

CONSTANTS
  Device,       \* "X550" or "X553": which nvmops InitNvmParams* installed
  NWords,       \* words of the shadow RAM next to the checksum (wordsize)
  MacLoc,       \* macLoc and altMacLoc of ReprogramMacAddress
  AltMacLoc,
  MacLen,       \* words of a MAC address (3)
  MaxAttempts,  \* attempts of AcquireNvm* (200, 1000)
  HwAttempts,   \* attempts of each loop of GetHwSemaphore* (2000)
  MaxRuns,      \* bound: times the tool is started
  MaxFwUses,    \* bound: times the firmware wants the NVM
  MaxFaults     \* bound: commands not answered in time or answered invalid

ASSUME DeviceAssumption == Device \in {"X550", "X553"}
ASSUME WordsAssumption ==
  /\ {NWords, MacLen} \subseteq Nat \ {0} /\ {MacLoc, AltMacLoc} \subseteq Nat
  /\ MacLoc + MacLen <= NWords /\ AltMacLoc + MacLen <= NWords
ASSUME AttemptsAssumption == MaxAttempts \in Nat \ {0} /\ HwAttempts \in Nat \ {0}
ASSUME BoundsAssumption == {MaxRuns, MaxFwUses, MaxFaults} \subseteq Nat

VARIABLES
  smbi,     \* SWSM.SMBI
  regsmp,   \* SW_FW_SYNC.REGSMP and which side's read took it
  sw,       \* software's bits of SW_FW_SYNC: "eep" and "mng"
  fwBit,    \* the NVM bits of firmware or hardware
  fw,       \* where the firmware is with the NVM
  fwUses,   \* how often it has wanted it
  mail,     \* the mailbox: HICR and the ram at FLEX_MNG
  task,     \* the command the firmware is at work on
  shadow,   \* the shadow RAM
  flash,    \* the flash behind it
  tool,     \* the step of the tool and the locals of its calls
  run,      \* the operation it performs
  forced,   \* history: the NVM bit was taken against the firmware
  late,     \* history: a command was given up before its answer
  faults    \* history: commands late or answered invalid

semaphores == <<smbi, regsmp, sw, fwBit>>
firmware == <<fw, fwUses>>
memory == <<mail, task, shadow, flash>>
history == <<forced, late, faults>>
vars == <<semaphores, firmware, memory, tool, run, history>>

Words == 0..NWords - 1
Chk == NWords
Addresses == 0..NWords

(* A checksum stands for the words it was computed from, the one that an    *)
(* image brings along for words of its own.  Any word may be read or        *)
(* written as any other, so a plain value is of the same type.              *)
Values == [Words -> {"zero", "old", "new", "file"}]
Plain(value) == [a \in Words |-> value]
SumOf(content) == [a \in Words |-> content[a][a]]

Ops == {"read", "write", "probe", "sum", "commit"}
Call(op, at) == [op |-> op, at |-> at]
Calls == [op : Ops, at : Addresses]
EachAddress(op) == [i \in 1..NWords + 1 |-> Call(op, i - 1)]

NoTask == [op |-> "none", at |-> 0, data |-> Plain("zero")]
Steps == {"idle", "ret", "smbi", "reg", "look", "set", "put1", "putw", "put2",
          "mail", "poll", "fetch"}
Outcomes == {"again", "won", "lost", "out", "released"}

FwStates == {"idle", "want", "wait", "look", "use", "clear"}

NoTool == [pc |-> "idle", phase |-> "acq", bit |-> "mng", then |-> "again",
           seen |-> FALSE, reg |-> FALSE, tries |-> 0, hwTries |-> 0, ok |-> FALSE]
Blank == [a \in Addresses |-> Plain("zero")]

Init ==
  /\ smbi = FALSE /\ regsmp = "free" /\ sw = {} /\ fwBit = FALSE
  /\ fw = "idle" /\ fwUses = 0
  /\ mail = [pending |-> FALSE, valid |-> FALSE, cmd |-> NoTask]
  /\ task = NoTask
  /\ shadow = [a \in Addresses |-> Plain("old")]
  /\ flash = shadow
  /\ tool = NoTool
  /\ run = [count |-> 0, kind |-> "dump", calls |-> <<>>, found |-> {},
            buf |-> Blank, missed |-> FALSE,
            update |-> "none", end |-> "none"]
  /\ forced = FALSE /\ late = FALSE /\ faults = 0

At(step) == tool.pc = step
Set(new) == tool' = new
Goto(step) == Set([tool EXCEPT !.pc = step])
TakeBit(phase, bit) ==
  [NoTool EXCEPT !.pc = "smbi", !.phase = phase, !.bit = bit, !.ok = tool.ok]

-----------------------------------------------------------------------------
(* GetHwSemaphoreX550 and X553: SMBI first, and when it does not come the   *)
(* code goes on all the same; then REGSMP, which the X550 looks for in      *)
(* SWSM, where it never is.  A REGSMP that stays set is put back together   *)
(* with SMBI; the firmware is assumed not to hold it through a time-out.    *)

(* A read of SW_FW_SYNC takes REGSMP if it is free, wanted or not; a write  *)
(* of the register leaves it set or clears it.                              *)
ReadSync == regsmp' = IF regsmp = "free" THEN "tool" ELSE regsmp
WriteSync(bit) == regsmp' = IF ~bit THEN "free" ELSE IF regsmp = "free" THEN "tool" ELSE regsmp

(* Mutant: the code waits for SMBI as long as it takes.                     *)
SmbiUnbounded ==
  /\ At("smbi")
  /\ IF smbi
     THEN Set([tool EXCEPT !.hwTries = @ + 1]) /\ UNCHANGED smbi
     ELSE Set([tool EXCEPT !.pc = "reg", !.hwTries = 0]) /\ smbi' = TRUE
  /\ UNCHANGED <<regsmp, sw, fwBit, firmware, memory, run, history>>

Smbi ==
  /\ At("smbi")
  /\ IF smbi /\ tool.hwTries + 1 < HwAttempts
     THEN Set([tool EXCEPT !.hwTries = @ + 1]) /\ UNCHANGED smbi
     ELSE Set([tool EXCEPT !.pc = "reg", !.hwTries = 0]) /\ smbi' = TRUE
  /\ UNCHANGED <<regsmp, sw, fwBit, firmware, memory, run, history>>

(* Mutant: the X553 does not look where REGSMP is, as the X550.             *)
RegGotUntaken ==
  /\ At("reg")
  /\ regsmp = "free" \/ Device = "X550"
  /\ Set([tool EXCEPT !.pc = "look", !.hwTries = 0])
  /\ UNCHANGED <<semaphores, firmware, memory, run, history>>

RegGot ==
  /\ At("reg")
  /\ regsmp = "free" \/ Device = "X550"
  /\ regsmp' = IF Device = "X550" THEN regsmp ELSE "tool"
  /\ Set([tool EXCEPT !.pc = "look", !.hwTries = 0])
  /\ UNCHANGED <<smbi, sw, fwBit, firmware, memory, run, history>>

RegBusy ==
  /\ At("reg")
  /\ Device = "X553" /\ regsmp # "free"
  /\ IF tool.hwTries + 1 < HwAttempts
     THEN Set([tool EXCEPT !.hwTries = @ + 1])
     ELSE regsmp = "tool" /\ Set([tool EXCEPT !.pc = "put1", !.then = "out"])
  /\ UNCHANGED <<semaphores, firmware, memory, run, history>>

(* PutHwSemaphoreX550 and X553 read both registers and write them back,     *)
(* SW_FW_SYNC with whatever stands in it first.                             *)
PutRead ==
  /\ At("put1")
  /\ ReadSync
  /\ Set([tool EXCEPT !.pc = "putw", !.seen = fwBit])
  /\ UNCHANGED <<smbi, sw, fwBit, firmware, memory, run, history>>

PutReg ==
  /\ At("putw")
  /\ WriteSync(FALSE)
  /\ fwBit' = tool.seen
  /\ Goto("put2")
  /\ UNCHANGED <<smbi, sw, firmware, memory, run, history>>

PutSmbi ==
  /\ smbi' = FALSE
  /\ UNCHANGED <<regsmp, sw, fwBit, firmware, memory, run>>

-----------------------------------------------------------------------------
(* AcquireNvmX550 and X553, ReleaseNvmX550 and X553.                        *)

(* The X550 ignores its mask: it wants the NVM bit with every acquire, and  *)
(* gives only that one back.                                                *)
Wanted == IF Device = "X550" THEN {"eep", tool.bit} ELSE {tool.bit}
GivenBack == IF Device = "X550" THEN {"eep"} ELSE {tool.bit}
LastLook == tool.tries = MaxAttempts

FwBusy == "eep" \in Wanted /\ fwBit
SwBusy == Wanted \cap sw # {}
Overruling == tool.phase = "acq" /\ LastLook /\ tool.seen

(* Mutant: the firmware's bits are not looked at.                           *)
LookBlind ==
  /\ At("look")
  /\ ReadSync
  /\ IF tool.phase = "rel" \/ ~SwBusy
     THEN Set([tool EXCEPT !.pc = "set", !.seen = fwBit, !.reg = (regsmp # "free")])
     ELSE Set([tool EXCEPT !.pc = "put1",
                           !.then = IF ~LastLook THEN "again" ELSE "lost"])
  /\ UNCHANGED <<smbi, sw, fwBit, firmware, memory, run, history>>

(* Mutant: the release clears nothing.                                      *)
SetKeepsBit ==
  /\ At("set")
  /\ sw' = IF tool.phase = "acq" THEN sw \cup Wanted ELSE sw
  /\ fwBit' = tool.seen /\ WriteSync(tool.reg)
  /\ forced' = (forced \/ Overruling)
  /\ Set([tool EXCEPT !.pc = "put1",
                      !.then = IF tool.phase = "acq" THEN "won" ELSE "released"])
  /\ UNCHANGED <<smbi, firmware, memory, run, late, faults>>

(* After MaxAttempts the X553 looks once more: a firmware that still has    *)
(* the NVM is overruled, another software's bit refuses, and when neither   *)
(* is set any more the code returns SUCCESS without setting a bit.          *)
Look ==
  /\ At("look")
  /\ ReadSync
  /\ IF tool.phase = "rel" \/ (~LastLook /\ ~FwBusy /\ ~SwBusy) \/ (LastLook /\ FwBusy)
     THEN Set([tool EXCEPT !.pc = "set", !.seen = fwBit, !.reg = (regsmp # "free")])
     ELSE Set([tool EXCEPT !.pc = "put1",
                           !.then = IF ~LastLook THEN "again"
                                    ELSE IF SwBusy THEN "lost" ELSE "won"])
  /\ UNCHANGED <<smbi, sw, fwBit, firmware, memory, run, history>>

SetBits ==
  /\ At("set")
  /\ sw' = IF tool.phase = "acq" THEN sw \cup Wanted ELSE sw \ GivenBack
  /\ fwBit' = tool.seen /\ WriteSync(tool.reg)
  /\ forced' = ("eep" \in sw' /\ (forced \/ Overruling))
  /\ Set([tool EXCEPT !.pc = "put1",
                      !.then = IF tool.phase = "acq" THEN "won" ELSE "released"])
  /\ UNCHANGED <<smbi, firmware, memory, run, late, faults>>

Nested == Head(run.calls).op # "commit"

(* Mutant: HostInterfaceCommandX550 does not look at its acquire.           *)
LostUnchecked ==
  CASE tool.bit = "eep" -> [tool EXCEPT !.pc = "ret", !.ok = FALSE]
    [] tool.bit = "mng" -> [tool EXCEPT !.pc = "mail"]

Won ==
  CASE tool.bit = "eep" -> TakeBit("acq", "mng")
    [] tool.bit = "mng" -> [tool EXCEPT !.pc = "mail"]

Lost ==
  CASE tool.bit = "mng" /\ Nested -> [TakeBit("rel", "eep") EXCEPT !.ok = FALSE]
    [] OTHER -> [tool EXCEPT !.pc = "ret", !.ok = FALSE]

Released ==
  IF tool.bit = "eep" \/ ~Nested THEN [tool EXCEPT !.pc = "ret"]
  ELSE IF Head(run.calls).op \in {"read", "probe"} /\ tool.ok THEN [tool EXCEPT !.pc = "fetch"]
  ELSE TakeBit("rel", "eep")

(* Mutant: an attempt that found the bit taken is not counted.              *)
AgainUncounted == [tool EXCEPT !.pc = "smbi", !.hwTries = 0]

(* The X553 gives the mailbox up after MaxAttempts, the X550 either bit.    *)
Again ==
  IF tool.tries + 1 = MaxAttempts /\ (Device = "X550" \/ tool.bit = "mng")
  THEN Lost
  ELSE [tool EXCEPT !.pc = "smbi", !.tries = @ + 1, !.hwTries = 0]

(* A release asks for the hardware semaphore until it gets it.              *)
PutHwSemaphore ==
  /\ At("put2")
  /\ PutSmbi
  /\ Set(CASE tool.then = "won" -> Won
           [] tool.then = "lost" -> Lost
           [] tool.then = "released" -> Released
           [] tool.then = "again" -> Again
           [] tool.then = "out" ->
                IF tool.phase = "acq" THEN Lost ELSE TakeBit("rel", tool.bit))
  /\ UNCHANGED history

-----------------------------------------------------------------------------
(* HostInterfaceCommandX550.                                                *)

(* A write puts its word into the ram, the other commands are too short to  *)
(* reach it and leave there what was.                                       *)
Command(call) ==
  [op |-> call.op, at |-> call.at,
   data |-> CASE call.op = "sum" -> SumOf(run.buf)
              [] call.op = "write" -> Plain(IF call.at = Chk THEN "file" ELSE "new")
              [] OTHER -> mail.cmd.data]

Post ==
  /\ At("mail")
  /\ mail' = [mail EXCEPT !.pending = TRUE, !.cmd = Command(Head(run.calls))]
  /\ Goto("poll")
  /\ UNCHANGED <<semaphores, firmware, task, shadow, flash, run, history>>

(* The firmware may have the host interface disabled (HICR.EN).             *)
Disabled ==
  /\ At("mail")
  /\ faults < MaxFaults /\ faults' = faults + 1
  /\ Set([TakeBit("rel", "mng") EXCEPT !.ok = FALSE])
  /\ UNCHANGED <<semaphores, firmware, memory, run, forced, late>>

PollDone ==
  /\ At("poll")
  /\ ~mail.pending
  /\ Set([TakeBit("rel", "mng") EXCEPT !.ok = mail.valid])
  /\ UNCHANGED <<semaphores, firmware, memory, run, history>>

PollTimeout ==
  /\ At("poll")
  /\ mail.pending
  /\ faults < MaxFaults /\ faults' = faults + 1
  /\ late' = TRUE
  /\ Set([TakeBit("rel", "mng") EXCEPT !.ok = FALSE])
  /\ UNCHANGED <<semaphores, firmware, memory, run, forced>>

(* ReadNvmBufferX550 takes the word from the ram with the NVM bit set but   *)
(* the mailbox released.                                                    *)
Fetch ==
  /\ At("fetch")
  /\ run' = IF Head(run.calls).op = "read"
            THEN [run EXCEPT !.buf[Head(run.calls).at] = mail.cmd.data] ELSE run
  /\ Set(TakeBit("rel", "eep"))
  /\ UNCHANGED <<semaphores, firmware, memory, history>>

-----------------------------------------------------------------------------
(* The operations, as the calls of nvmops and UpdateFlashX550 they make.    *)

(* Mutant: the checksum is computed from a buffer nothing was read into.    *)
UpdateUnread ==
  IF Device = "X550"
  THEN <<Call("probe", 0), Call("probe", 0), Call("sum", Chk), Call("commit", 0)>>
  ELSE <<Call("probe", 0), Call("sum", Chk),
         Call("commit", 0), Call("commit", 0), Call("commit", 0)>>

Update ==
  IF Device = "X550"
  THEN <<Call("probe", 0), Call("probe", 0), Call("sum", Chk), Call("commit", 0)>>
  ELSE <<Call("probe", 0)>> \o EachAddress("read") \o
       <<Call("sum", Chk), Call("commit", 0), Call("commit", 0), Call("commit", 0)>>

MacAt(loc) == [i \in 1..MacLen |-> Call("write", loc + i - 1)]

Program(kind) ==
  CASE kind = "write" -> EachAddress("write") \o Update
    [] kind = "mac" ->
         EachAddress("read") \o MacAt(MacLoc) \o MacAt(AltMacLoc) \o Update
    [] kind = "dump" -> EachAddress("read")

(* The buffer of a run lives as long as its process.                        *)
Begin(calls) ==
  IF calls = <<>> THEN NoTool
  ELSE [TakeBit("acq", IF Head(calls).op = "commit" THEN "mng" ELSE "eep")
          EXCEPT !.ok = FALSE]

(* ReprogramMacAddress is for the X553 only.                                *)
Start ==
  /\ At("idle")
  /\ run.count < MaxRuns
  /\ \E kind \in {"write", "dump"} \cup (IF Device = "X553" THEN {"mac"} ELSE {}) :
       /\ run' = [count |-> run.count + 1, kind |-> kind, calls |-> Program(kind),
                  found |-> sw, buf |-> Blank,
                  missed |-> FALSE, update |-> "none", end |-> "none"]
       /\ Set(Begin(Program(kind)))
  /\ UNCHANGED <<semaphores, firmware, memory, history>>

(* Only the probe and the checksum's write end an update that fails; the    *)
(* result of the other reads and writes, and of all but the last copy to    *)
(* the flash, is not looked at.                                             *)
Return ==
  /\ At("ret")
  /\ LET call == Head(run.calls)
         failed == call.op \in {"probe", "sum"} /\ ~tool.ok
         rest == IF failed THEN <<>> ELSE Tail(run.calls)
     IN /\ run' = [run EXCEPT
             !.calls = rest,
             !.buf = IF call.op = "probe" \/ rest = <<>> THEN Blank ELSE @,
             !.missed = @ \/ (call.op # "commit" /\ ~tool.ok),
             !.update = CASE failed -> "fail"
                          [] call.op = "commit" -> (IF tool.ok THEN "ok" ELSE "fail")
                          [] OTHER -> @,
             !.end = IF rest = <<>> THEN "done" ELSE @]
        /\ Set(Begin(rest))
  /\ UNCHANGED <<semaphores, firmware, memory, history>>

Kill ==
  /\ ~At("idle")
  /\ run' = [run EXCEPT !.end = "killed", !.calls = <<>>, !.buf = Blank]
  /\ Set(NoTool)
  /\ late' = (late \/ mail.pending \/ task # NoTask)
  /\ UNCHANGED <<semaphores, firmware, memory, forced, faults>>

-----------------------------------------------------------------------------
(* The firmware (external).  It takes up the command that stands in the     *)
(* mailbox and answers it at any later time, clearing HICR.C whatever       *)
(* stands there by then.                                                    *)

TakeUp ==
  /\ mail.pending /\ task = NoTask
  /\ task' = mail.cmd
  /\ UNCHANGED <<semaphores, firmware, mail, shadow, flash, tool, run, history>>

Answer ==
  /\ task # NoTask
  /\ task' = NoTask
  /\ mail' = [pending |-> FALSE, valid |-> TRUE,
              cmd |-> IF task.op = "read"
                      THEN [mail.cmd EXCEPT !.data = shadow[task.at]] ELSE mail.cmd]
  /\ shadow' = IF task.op \in {"write", "sum"}
               THEN [shadow EXCEPT ![task.at] = task.data] ELSE shadow
  /\ flash' = IF task.op = "commit" THEN shadow ELSE flash
  /\ UNCHANGED <<semaphores, firmware, tool, run, history>>

Refuse ==
  /\ task # NoTask
  /\ faults < MaxFaults /\ faults' = faults + 1
  /\ task' = NoTask
  /\ mail' = [mail EXCEPT !.pending = FALSE, !.valid = FALSE]
  /\ UNCHANGED <<semaphores, firmware, shadow, flash, tool, run, forced, late>>

(* The NVM of the firmware's own accord, under REGSMP.                      *)
FwWant ==
  /\ fw = "idle" /\ fwUses < MaxFwUses
  /\ fw' = "want" /\ fwUses' = fwUses + 1
  /\ UNCHANGED <<semaphores, memory, tool, run, history>>

FwTakeReg ==
  /\ regsmp = "free" /\ regsmp' = "fw"
  /\ \/ fw = "want" /\ fw' = "look"
     \/ fw = "use" /\ fw' = "clear"
  /\ UNCHANGED <<smbi, sw, fwBit, fwUses, memory, tool, run, history>>

FwLook ==
  /\ fw = "look"
  /\ regsmp' = "free"
  /\ IF "eep" \in sw THEN fw' = "wait" /\ UNCHANGED fwBit
                     ELSE fw' = "use" /\ fwBit' = TRUE
  /\ UNCHANGED <<smbi, sw, fwUses, memory, tool, run, history>>

FwRetry ==
  /\ fw = "wait" /\ "eep" \notin sw
  /\ fw' = "want"
  /\ UNCHANGED <<semaphores, fwUses, memory, tool, run, history>>

FwClear ==
  /\ fw = "clear" /\ fw' = "idle"
  /\ fwBit' = FALSE /\ regsmp' = "free"
  /\ UNCHANGED <<smbi, sw, fwUses, memory, tool, run, history>>

-----------------------------------------------------------------------------
HostInterfaceCommand == Post \/ Disabled \/ PollDone \/ PollTimeout
Semaphores == Smbi \/ RegGot \/ RegBusy \/ PutRead \/ PutReg \/ Look \/ SetBits \/ PutHwSemaphore
ToolStep == Semaphores \/ HostInterfaceCommand \/ Fetch \/ Return
FwHolding == FwLook \/ FwClear
Mailbox == TakeUp \/ Answer \/ Refuse

Next == ToolStep \/ Start \/ Kill \/ Mailbox \/ FwHolding \/ FwWant \/ FwTakeReg \/ FwRetry

Spec == Init /\ [][Next]_vars

(* The process runs, the firmware does not sit on REGSMP and it answers.    *)
FairSpec == Spec /\ WF_vars(ToolStep) /\ WF_vars(FwHolding) /\ WF_vars(Mailbox)

-----------------------------------------------------------------------------
(* Properties.                                                              *)

(* Every variable stays in its type; in particular no counter of the        *)
(* acquire's loops runs past its limit.                                     *)
TypeOK ==
  /\ smbi \in BOOLEAN /\ regsmp \in {"free", "tool", "fw"}
  /\ sw \subseteq {"eep", "mng"} /\ fwBit \in BOOLEAN
  /\ fw \in FwStates /\ fwUses \in 0..MaxFwUses
  /\ DOMAIN mail = {"pending", "valid", "cmd"}
  /\ mail.pending \in BOOLEAN /\ mail.valid \in BOOLEAN
  /\ \A c \in {mail.cmd, task} :
       c \in [op : Ops \cup {"none"}, at : Addresses, data : Values]
  /\ {shadow, flash, run.buf} \subseteq [Addresses -> Values]
  /\ tool \in [pc : Steps, phase : {"acq", "rel"}, bit : {"eep", "mng"},
                then : Outcomes, seen : BOOLEAN, reg : BOOLEAN, tries : 0..MaxAttempts,
                hwTries : 0..HwAttempts - 1, ok : BOOLEAN]
  /\ run.count \in 0..MaxRuns /\ run.calls \in Seq(Calls)
  /\ run.update \in {"none", "ok", "fail"} /\ run.end \in {"none", "killed", "done"}
  /\ forced \in BOOLEAN /\ late \in BOOLEAN /\ faults \in 0..MaxFaults

(* Software's and firmware's NVM bits are set together only after an        *)
(* acquire that overruled the firmware on its last look (AcquireNvmX553):   *)
(* no other interleaving, kill or stale bit brings it about.                *)
SyncExclusive == "eep" \in sw /\ fwBit => forced

(* The firmware's bit stands in SW_FW_SYNC as long as the firmware uses the *)
(* NVM: the tool reads and writes the whole register, several times in an   *)
(* acquire, a release and each GetHwSemaphore, and never writes back a      *)
(* value from before the firmware set its bit.                              *)
FirmwareMarked == fw \in {"use", "clear"} => fwBit

(* While the tool waits for an answer of the firmware it has the mailbox    *)
(* bit, and has set it itself: a failed acquire or a nested release never   *)
(* leaves a command unguarded, and the bit of a killed run is never taken   *)
(* for its own (HostInterfaceCommandX550).                                  *)
MailboxOwned == At("poll") => "mng" \in sw \ run.found

(* An update of the X553 that reports success, when no command was given up *)
(* before its answer, has copied the shadow RAM to the flash; and when all  *)
(* its reads and writes went through, the words that the run wrote are      *)
(* there under a checksum computed from exactly the flash's words, although *)
(* their results are not looked at one by one (UpdateNvmChecksumX553,       *)
(* WriteNvmX550, ReprogramMacAddress).                                      *)
MacWords == MacLoc..MacLoc + MacLen - 1 \cup AltMacLoc..AltMacLoc + MacLen - 1
Rewritten == IF run.kind = "write" THEN Words ELSE MacWords
UpdateCommitted ==
  At("idle") /\ run.end = "done" /\ run.update = "ok" /\ ~late =>
    /\ flash = shadow
    /\ ~run.missed =>
         /\ flash[Chk] = SumOf(flash)
         /\ \A a \in Rewritten : flash[a] = Plain("new")

(* A run that ends by itself leaves neither hardware semaphore taken and no *)
(* bit of SW_FW_SYNC that it did not find set, whatever failed on the way   *)
(* (the gotos and early returns of the acquires, of the host command and of *)
(* the buffer operations).                                                  *)
LeavesNoMore ==
  At("idle") /\ run.end = "done" => ~smbi /\ regsmp # "tool" /\ sw \subseteq run.found

(* A started run ends, although the releases loop without a limit, a killed *)
(* run may have left every semaphore set and the firmware may never let go  *)
(* of the NVM.                                                              *)
RunEnds == ~At("idle") ~> At("idle")

(* An acquire that returns success has set the bit it was asked for         *)
(* (AcquireNvmX553 "Returns: SUCCESS if we got the semaphore, FAIL          *)
(* otherwise").                                                             *)
SuccessHoldsBit ==
  At("put2") /\ tool.phase = "acq" /\ tool.then = "won" => tool.bit \in sw

(* A write that meets no fault, no firmware and no stale bit goes through   *)
(* (WriteNvmBuffer550 "Returns: SUCCESS on a successful shadow ram write"). *)
UndisturbedWriteSucceeds == fwUses = 0 /\ faults = 0 /\ run.found = {} => ~run.missed

(* A checksum that was reported as updated, with no command given up before *)
(* its answer, is the one of the flash's words (UpdateNvmChecksumX553       *)
(* "Returns: SUCCESS on a successful checksum update.").                    *)
SuccessIsChecksum ==
  At("idle") /\ run.end = "done" /\ run.update = "ok" /\ ~late => flash[Chk] = SumOf(flash)

(* An acquire that gives up on another software's bit has cleared it        *)
(* (AcquireNvmX553 "In that case the SW should clear all SW flags that it   *)
(* does not own and then repeat the whole process once again.").            *)
StaleBitsCleared == At("put2") /\ tool.then = "lost" => ~SwBusy

=============================================================================
