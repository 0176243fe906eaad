----------------------------- MODULE NvmRegisters -----------------------------
(***************************************************************************)
(* Reading and programming through registers of the NIC (PciEeprom.c): a   *)
(* blank I210 through FLSWCNT, FLSWCTL and FLSWDATA, an 82574 through EERD *)
(* and EEWR, under WriteNvm (testfuncs.c) and DumpData (main.c).           *)
(*                                                                         *)
(* The NIC carries out one access at a time and may stay busy for ever, or *)
(* refuse a command; the tool polls, gives up after MaxPolls, and mostly   *)
(* ignores what comes of it.  The process can be killed between any two    *)
(* accesses: the NIC keeps what it was told, and the next run finds it so. *)
(* What the hardware does is external: it is taken from what the code      *)
(* expects of it, and is a free choice where the code expects nothing.     *)
(*                                                                         *)
(* A word of the flash is the set of values written to it since it was     *)
(* erased, a word of the 82574's EEPROM is the last value.  Left out: bad  *)
(* arguments (no caller gives them), the injection of a MAC address (see   *)
(* FlashProgram), the semaphores (see NvmSync), and what becomes of a run  *)
(* once SetupWriteMethod has fallen back to bit banging (SerialFlash).     *)
(***************************************************************************)
EXTENDS Integers, Sequences

CONSTANTS
  Words,        \* dev->wordsize, a multiple of BurstWords
  BurstWords,   \* BURST_SIZE (128)
  ChecksumReg,  \* NVM_CHECKSUM_REG (63), odd
  SectorWords,  \* words of the sector that SetupWriteMethod erases
  MaxPolls,     \* FLASH_ERASE_POLL * 100, MaxAttempts of PollEerdEewrDone
  MaxRuns       \* bound: runs of the tool

Index == 0..(Words - 1)

ASSUME SizeAssumption ==
  /\ {Words, BurstWords, SectorWords, MaxPolls} \subseteq Nat \ {0}
  /\ Words % BurstWords = 0 /\ BurstWords % 2 = 0
  /\ ChecksumReg \in Index /\ ChecksumReg % 2 = 1 /\ MaxRuns \in Nat

VARIABLES
  device,   \* which NIC it is
  nvm,      \* what each word of its memory holds
  count,    \* FLSWCNT, in words
  engine,   \* the access that the NIC was told to make, and how far it is
  phase,    \* where WriteNvm or DumpData is
  pc,       \* where the call to nvmops.read or nvmops.write is
  call,     \* its arguments
  i,        \* its loop counter
  polls,    \* how often this wait has read the register
  status,   \* its status
  buffer,   \* Data of a read
  copy,     \* what the run has read of the memory: its dump or its sum
  file,     \* full bursts in the image file
  mac,      \* a MAC address was given
  j,        \* word offset of the next burst, or of the next read
  trouble,  \* what went wrong in this run
  runs, result

hardware == <<device, nvm, count, engine>>
run == <<file, mac, runs>>
vars == <<hardware, phase, pc, call, i, polls, status, buffer, copy, run, j, trouble, result>>

Blank == device = "blank"

Value(kind, w) == [kind |-> kind, at |-> w]
Junk == Value("junk", 0)   \* from beyond the caller's buffer, or an answer not meant
Ones == Value("ones", 0)
Zero == {Value("zero", 0)} \* a word of Data that was never assigned
Values == [kind : {"old", "test", "img", "sum", "junk", "zero"}, at : Index]
Zeros == [w \in Index |-> Zero]

Call(op, at, n, kind) == [op |-> op, at |-> at, n |-> n, kind |-> kind]
Idle == [cmd |-> "none", at |-> 0, left |-> 0, data |-> <<>>, busy |-> FALSE]

Init ==
  /\ device \in {"blank", "82574"}
  /\ nvm \in {[w \in Index |-> {}], [w \in Index |-> {Value("old", w)}]}
  /\ count = 0 /\ engine = Idle
  /\ phase = "idle" /\ pc = "idle" /\ call = Call("none", 0, 0, "none")
  /\ i = 0 /\ polls = 0 /\ status = "SUCCESS" /\ buffer = Zeros /\ copy = Zeros
  /\ file = 0 /\ mac = FALSE /\ j = 0 /\ trouble = {} /\ runs = 0 /\ result = "none"

-----------------------------------------------------------------------------
(* The NIC.                                                                 *)

(* What the access under way leaves in the memory; ones (0xFFFF) read as    *)
(* an erased word.                                                          *)
Landed ==
  LET start == engine.at - Len(engine.data)
      arrived(w) == {engine.data[w - start + 1]} \ {Ones}
  IN [w \in Index |-> IF w \notin start..(engine.at - 1) THEN nvm[w]
                      ELSE IF Blank THEN nvm[w] \cup arrived(w) ELSE arrived(w)]

AccessDone ==
  /\ engine.busy
  /\ nvm' = Landed
  /\ engine' = [engine EXCEPT !.busy = FALSE, !.data = <<>>]
  /\ UNCHANGED <<device, count, phase, pc, call, i, polls, status, buffer, copy,
                 run, j, trouble, result>>

(* The engine takes words of data: no more than it was told to expect.      *)
Least(a, b) == IF a < b THEN a ELSE b
Taken(data) ==
  LET n == Least(Len(data), engine.left)
  IN [engine EXCEPT !.data = SubSeq(data, 1, n), !.at = @ + n, !.left = @ - n, !.busy = TRUE]

Working(cmd, at, n) == [cmd |-> cmd, at |-> at, left |-> n, data |-> <<>>, busy |-> TRUE]

-----------------------------------------------------------------------------
(* Waiting: GetFlswFlashOperationDone and PollEerdEewrDone.                 *)

Waits == {"ready", "countPoll", "settle", "dataPoll"}
Flsw(op) == Blank /\ call.op = op
Word(op) == ~Blank /\ call.op = op

(* Mutant: the loop over the words of EEWR ends one word early.             *)
LastWordDropped ==
  \/ Flsw("write") /\ i + 1 > call.n
  \/ Flsw("read") /\ i + 1 >= call.n \div 2
  \/ ~Blank /\ i + 2 >= call.n

(* The loops end: WriteNvmFlswI210 counts dwords up to NumWords, one more   *)
(* than twice too many.                                                     *)
Last ==
  \/ Flsw("write") /\ i + 1 > call.n
  \/ Flsw("read") /\ i + 1 >= call.n \div 2
  \/ ~Blank /\ i + 1 >= call.n

NextRound == IF Last THEN "back" ELSE IF Word("write") THEN "ready"
             ELSE IF Word("read") THEN "command" ELSE "data"
AfterWait ==
  CASE pc = "ready"     -> IF Blank THEN "acquire" ELSE "data"
    [] pc = "countPoll" -> "command"
    [] pc = "settle"    -> "data"
    [] pc = "dataPoll"  -> NextRound

Polled(s, next) ==
  /\ status' = s /\ pc' = next /\ polls' = 0
  /\ i' = IF pc = "dataPoll" THEN i + 1 ELSE i
  /\ UNCHANGED <<hardware, phase, call, buffer, copy, run, j, result>>

PollDone ==
  /\ pc \in Waits /\ ~engine.busy
  /\ Polled("SUCCESS", AfterWait) /\ UNCHANGED trouble

(* Mutant: the attempts are not counted.                                    *)
PollForEver ==
  /\ pc \in Waits /\ engine.busy
  /\ UNCHANGED vars

PollAgain ==
  /\ pc \in Waits /\ engine.busy /\ polls + 1 < MaxPolls
  /\ polls' = polls + 1
  /\ UNCHANGED <<hardware, phase, pc, call, i, status, buffer, copy, run, j,
                 trouble, result>>

(* The wait after the command of a FLSW write, and those between the dwords *)
(* of a FLSW read, go on as if nothing had happened.                        *)
Ignored == {<<"write", "settle">>, <<"read", "dataPoll">>}
PollGivesUp ==
  /\ pc \in Waits /\ engine.busy /\ polls + 1 = MaxPolls
  /\ Polled("FAIL", IF <<call.op, pc>> \in Ignored /\ Blank
                    THEN AfterWait ELSE "back")
  /\ trouble' = trouble \cup {"timedOut"}

Wait == PollDone \/ PollAgain \/ PollGivesUp

-----------------------------------------------------------------------------
(* ReadNvmFlswI210 and WriteNvmFlswI210.                                    *)

AcquireFails ==
  /\ pc = "acquire"
  /\ pc' = "back" /\ status' = "FAIL" /\ trouble' = trouble \cup {"noSemaphore"}
  /\ UNCHANGED <<hardware, phase, call, i, polls, buffer, copy, run, j, result>>

SetCount ==
  /\ pc = "acquire"
  /\ count' = call.n
  /\ pc' = IF call.op = "read" THEN "countPoll" ELSE "command"
  /\ UNCHANGED <<device, nvm, engine, phase, call, i, polls, status, buffer, copy,
                 run, j, trouble, result>>

(* WriteFlswFlashCommand: the NIC does not take a command while it is busy, *)
(* and need not take one at any other time.                                 *)
(* Mutant: FLSWCTL_CMDV is not looked at.                                   *)
CommandBlind ==
  /\ pc = "command" /\ Blank
  /\ \/ ~engine.busy /\ engine' = Working(call.op, call.at, count)
     \/ UNCHANGED engine
  /\ pc' = "settle" /\ UNCHANGED <<status, trouble>>
  /\ UNCHANGED <<device, nvm, count, phase, call, i, polls, buffer, copy, run, j,
                 result>>

Command ==
  /\ pc = "command" /\ Blank
  /\ \/ /\ ~engine.busy
        /\ engine' = Working(call.op, call.at, count)
        /\ pc' = "settle" /\ UNCHANGED <<status, trouble>>
     \/ /\ pc' = "back" /\ status' = "FAIL" /\ trouble' = trouble \cup {"rejected"}
        /\ UNCHANGED engine
  /\ UNCHANGED <<device, nvm, count, phase, call, i, polls, buffer, copy, run, j,
                 result>>

(* The k-th word that the call finds in its buffer.                         *)
Datum(k) ==
  IF k >= call.n THEN Junk
  ELSE IF call.kind = "img" /\ mac /\ call.at + k = ChecksumReg THEN Ones
  ELSE Value(call.kind, call.at + k)

(* A dword written while the NIC is busy, or expects none, is lost.         *)
WriteDword ==
  /\ pc = "data" /\ Flsw("write")
  /\ engine' = IF ~engine.busy /\ engine.cmd = "write" /\ engine.left > 0
               THEN Taken(<<Datum(2 * i), Datum(2 * i + 1)>>) ELSE engine
  /\ pc' = "dataPoll"
  /\ UNCHANGED <<device, nvm, count, phase, call, i, polls, status, buffer, copy,
                 run, j, trouble, result>>

Brings == ~engine.busy /\ engine.cmd = "read" /\ engine.left >= 2
Reads ==
  [k \in {2 * i, 2 * i + 1} |-> IF Brings THEN nvm[engine.at + k - 2 * i] ELSE {Junk}]
ReadDword ==
  /\ pc = "data" /\ Flsw("read")
  /\ buffer' = [k \in Index |-> IF k \in DOMAIN Reads THEN Reads[k] ELSE buffer[k]]
  /\ engine' = IF ~Brings THEN engine
               ELSE [engine EXCEPT !.at = @ + 2, !.left = @ - 2, !.busy = (engine.left > 2)]
  /\ pc' = "dataPoll"
  /\ UNCHANGED <<device, nvm, count, phase, call, i, polls, status, copy, run, j,
                 trouble, result>>

-----------------------------------------------------------------------------
(* ReadNvmEerd and WriteNvmEewr82574.                                       *)

WriteEewr ==
  /\ pc = "data" /\ Word("write")
  /\ engine' = [cmd |-> "write", at |-> call.at + i + 1, left |-> 0,
             data |-> <<Datum(i)>>, busy |-> TRUE]
  /\ pc' = "dataPoll"
  /\ UNCHANGED <<device, nvm, count, phase, call, i, polls, status, buffer, copy,
                 run, j, trouble, result>>

(* Mutant: the value is read at once.                                       *)
WriteEerdUnawaited ==
  /\ pc = "command" /\ ~Blank
  /\ nvm' = Landed /\ engine' = Working("read", call.at + i, 1)
  /\ pc' = "data"
  /\ UNCHANGED <<device, count, phase, call, i, polls, status, buffer, copy, run,
                 j, trouble, result>>

(* Nothing makes sure that no access is under way: if one is, it ends       *)
(* first, or is broken off, or the new one is lost.                         *)
WriteEerd ==
  /\ pc = "command" /\ ~Blank
  /\ \/ nvm' = Landed /\ engine' = Working("read", call.at + i, 1)
     \/ engine.busy /\ UNCHANGED nvm /\ engine' = Working("read", call.at + i, 1)
     \/ engine.busy /\ UNCHANGED <<nvm, engine>>
  /\ pc' = "settle"
  /\ UNCHANGED <<device, count, phase, call, i, polls, status, buffer, copy, run,
                 j, trouble, result>>

ReadEerd ==
  /\ pc = "data" /\ Word("read")
  /\ buffer' = [buffer EXCEPT ![i] = IF engine.cmd = "read" /\ ~engine.busy
                                       THEN nvm[engine.at] ELSE {Junk}]
  /\ i' = i + 1 /\ pc' = NextRound
  /\ UNCHANGED <<hardware, phase, call, polls, status, copy, run, j, trouble,
                 result>>

Access == Wait \/ AcquireFails \/ SetCount \/ Command \/ WriteDword \/ ReadDword
          \/ WriteEewr \/ WriteEerd \/ ReadEerd

-----------------------------------------------------------------------------
(* WriteNvm with SetupWriteMethod and the updates of the checksum.          *)

Begin(op, at, n, kind) ==
  /\ call' = Call(op, at, n, kind) /\ i' = 0 /\ polls' = 0 /\ buffer' = Zeros
  /\ status' = "SUCCESS"
  /\ pc' = IF ~Blank /\ op = "read" THEN "command" ELSE "ready"

End(how) ==
  /\ phase' = "idle" /\ pc' = "idle" /\ result' = how
  /\ call' = Call("none", 0, 0, "none") /\ i' = 0 /\ polls' = 0
  /\ status' = "SUCCESS" /\ buffer' = Zeros

Start ==
  /\ phase = "idle" /\ runs < MaxRuns
  /\ runs' = runs + 1
  /\ file' \in 0..(Words \div BurstWords) /\ mac' \in BOOLEAN
  /\ phase' \in {"erase", "dump"}
  /\ copy' = Zeros /\ j' = 0 /\ trouble' = (IF engine.busy THEN {"leftBusy"} ELSE {})
  /\ result' = "none"
  /\ UNCHANGED <<hardware, pc, call, i, polls, status, buffer>>

(* EraseNvm, SectorEraseNvm: the I210's, bit banged; the 82574 has none.    *)
Erases(kept) ==
  LET erased == [w \in Index |-> IF w \in kept THEN nvm[w] ELSE {}]
  IN \/ Blank /\ nvm' = erased /\ UNCHANGED trouble
     \/ Blank /\ nvm' \in {nvm, erased} /\ trouble' = trouble \cup {"erase"}
     \/ ~Blank /\ UNCHANGED <<nvm, trouble>>

EraseNvm ==
  /\ phase = "erase"
  /\ Erases({})
  /\ phase' = "test" /\ Begin("write", 0, 1, "test")
  /\ UNCHANGED <<device, count, engine, copy, run, j, result>>

TestWritten ==
  /\ phase = "test" /\ pc = "back"
  /\ phase' = "check" /\ Begin("read", 0, 2, "none")
  /\ UNCHANGED <<hardware, copy, run, j, trouble, result>>

(* The first sector is erased in any case.  With the pattern not read back, *)
(* the run goes over to bit banging, which an 82574 does not have.          *)
TestRead ==
  /\ phase = "check" /\ pc = "back"
  /\ Erases(SectorWords..(Words - 1))
  /\ IF buffer[0] = {Value("test", 0)}
     THEN phase' = "file" /\ UNCHANGED <<pc, call, i, polls, status, buffer, result>>
     ELSE End("bitBang")
  /\ UNCHANGED <<device, count, engine, copy, run, j>>

NextBurst ==
  /\ phase = "file" /\ j < file * BurstWords
  /\ phase' = "burst" /\ Begin("write", j, BurstWords, "img")
  /\ UNCHANGED <<hardware, copy, run, j, trouble, result>>

(* The result of a burst is not looked at.                                  *)
BurstWritten ==
  /\ phase = "burst" /\ pc = "back"
  /\ j' = j + BurstWords /\ phase' = "file"
  /\ UNCHANGED <<hardware, pc, call, i, polls, status, buffer, copy, run, trouble,
                 result>>

(* The file could not be opened, or it has ended: UpdateNvmChecksumI210     *)
(* does nothing without a MAC address and asks for the semaphores first;    *)
(* UpdateNvmChecksum82574 does neither.                                     *)
NoFile ==
  /\ phase = "file" /\ j = 0 /\ file = 0
  /\ End("noFile")
  /\ UNCHANGED <<hardware, copy, run, j, trouble>>

UpdateSkipped ==
  /\ phase = "file" /\ j = file * BurstWords
  /\ Blank
  /\ \/ ~mac /\ UNCHANGED trouble
     \/ mac /\ trouble' = trouble \cup {"noSemaphore"}
  /\ End("done")
  /\ UNCHANGED <<hardware, copy, run, j>>

Step == IF Blank THEN 2 ELSE 1
Update ==
  /\ phase = "file" /\ j = file * BurstWords /\ (Blank => mac)
  /\ phase' = "sum" /\ j' = 0 /\ Begin("read", 0, Step, "none")
  /\ UNCHANGED <<hardware, copy, run, trouble, result>>

(* What a read has brought goes to the dump or into the sum.                *)
Copied == [w \in Index |-> IF w \in j..(j + call.n - 1) THEN buffer[w - j] ELSE copy[w]]

WordsSummed ==
  /\ phase = "sum" /\ pc = "back" /\ status = "SUCCESS"
  /\ copy' = Copied /\ j' = j + Step
  /\ IF j + Step < ChecksumReg
     THEN phase' = "sum" /\ Begin("read", j + Step, Step, "none")
     ELSE phase' = "sumUp" /\ Begin("write", ChecksumReg, 1, "sum")
  /\ UNCHANGED <<hardware, run, trouble, result>>

SumFails ==
  /\ phase = "sum" /\ pc = "back" /\ status = "FAIL"
  /\ End("done")
  /\ UNCHANGED <<hardware, copy, run, j, trouble>>

Updated ==
  /\ phase = "sumUp" /\ pc = "back"
  /\ End(IF status = "SUCCESS" THEN "summed" ELSE "done")
  /\ UNCHANGED <<hardware, copy, run, j, trouble>>

WriteNvm == EraseNvm \/ TestWritten \/ TestRead \/ NextBurst \/ BurstWritten \/ NoFile
            \/ UpdateSkipped \/ Update \/ WordsSummed \/ SumFails \/ Updated

(* Mutant: one burst more than there is.                                    *)
DumpBurstMore ==
  /\ phase = "dump" /\ pc \in {"idle", "back"} /\ j <= Words
  /\ Begin("read", j, BurstWords, "none")
  /\ phase' = "dumped"
  /\ UNCHANGED <<hardware, copy, run, j, trouble, result>>

(* DumpData: a read that fails leaves zeros in the dump, or a part.         *)
DumpBurst ==
  /\ phase = "dump" /\ pc \in {"idle", "back"} /\ j < Words
  /\ Begin("read", j, BurstWords, "none")
  /\ phase' = "dumped"
  /\ UNCHANGED <<hardware, copy, run, j, trouble, result>>

BurstDumped ==
  /\ phase = "dumped" /\ pc = "back"
  /\ copy' = Copied /\ j' = j + BurstWords /\ phase' = "dump"
  /\ UNCHANGED <<hardware, pc, call, i, polls, status, buffer, run, trouble,
                 result>>

DumpWritten ==
  /\ phase = "dump" /\ j >= Words
  /\ End("dumped")
  /\ UNCHANGED <<hardware, copy, run, j, trouble>>

DumpData == DumpBurst \/ BurstDumped \/ DumpWritten

Kill ==
  /\ phase # "idle"
  /\ End("killed")
  /\ copy' = Zeros /\ j' = 0
  /\ UNCHANGED <<hardware, run, trouble>>

Program == Access \/ WriteNvm \/ DumpData
Next == Start \/ Program \/ AccessDone \/ Kill
Spec == Init /\ [][Next]_vars
FairSpec == Spec /\ WF_vars(Program)

-----------------------------------------------------------------------------
(* Properties.                                                              *)

(* Every variable stays in its type; no call reaches past the end of the    *)
(* memory, and the NIC is never told to make an access that does (WriteNvm, *)
(* DumpData).                                                               *)
TypeOK ==
  /\ device \in {"blank", "82574"}
  /\ {nvm, copy, buffer} \subseteq [Index -> SUBSET Values]
  /\ call.at + call.n \in 0..Words /\ i \in 0..(call.n + 1) /\ polls \in 0..(MaxPolls - 1)
  /\ engine.at \in 0..Words /\ engine.left \in 0..BurstWords /\ count \in 0..BurstWords
  /\ file \in 0..(Words \div BurstWords) /\ j \in 0..Words /\ runs \in 0..MaxRuns

(* No word ever receives anything but what was meant for it, whatever is    *)
(* refused, not granted or killed: the dwords that WriteNvmFlswI210 writes  *)
(* from beyond its buffer reach nothing, and a transfer that a killed run   *)
(* left half done does not take the data of the next run.  (It may if a     *)
(* wait was given up, in this run or with the NIC still busy at its start.) *)
Undelayed == trouble \cap {"timedOut", "leftBusy"} = {}
Meant(w) == {v \in {Value("test", 0), Value("img", w), Value("sum", ChecksumReg)} : v.at = w}
OwnWords == [][Undelayed => \A w \in Index : nvm'[w] \subseteq nvm[w] \cup Meant(w)]_vars

(* What a read brings, for a dump or a checksum, is what the memory holds   *)
(* at that place: all of it if the read reports SUCCESS, or else a part of  *)
(* it and zeros, but never another word.                                    *)
ReadsTruth ==
  phase \in {"check", "sum", "dumped"} /\ pc = "back" /\ Undelayed =>
    \A k \in 0..(call.n - 1) :
      buffer[k] = nvm[call.at + k] \/ (status = "FAIL" /\ buffer[k] = Zero)

(* A checksum that is reported as written is right for the words under it,  *)
(* and the words of the image are there, if nothing was given up or refused.*)
Programmed ==
  result = "summed" /\ Undelayed =>
    /\ \A w \in 0..(ChecksumReg - 1) : copy[w] = nvm[w]
    /\ trouble = {} =>
         /\ nvm[ChecksumReg] = {Value("sum", ChecksumReg)}
         /\ \A w \in 0..(file * BurstWords - 1) : w # ChecksumReg =>
              nvm[w] = {Value("img", w)}

(* A run ends, or its process dies, however long the NIC stays busy.        *)
RunEnds == (phase # "idle") ~> (phase = "idle")
=============================================================================
