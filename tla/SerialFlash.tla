----------------------------- MODULE SerialFlash -----------------------------
(***************************************************************************)
(* The bit-banged serial flash of an I210 (testfuncs.c): what the tool     *)
(* clocks out on the lines of I210_FLA, frame by frame, and the flash that *)
(* listens.  A frame is what is clocked out while the chip select is low;  *)
(* the flash obeys it when the chip select rises.  A byte is a record that *)
(* names what it is, an address (three bytes in the code) counts as one.   *)
(*                                                                         *)
(* The process can be killed between any two edges of a line and leaves    *)
(* the lines as they are; the next run of the tool finds them so.  The     *)
(* flash may stay busy for ever, and the interface may not be granted.     *)
(* SST's flash has a write enable of its own for the status register, and  *)
(* is programmed word by word, each in a frame, until the write disable.   *)
(***************************************************************************)
EXTENDS Integers, Sequences

CONSTANTS
  Words,     \* words of the flash
  PageWords, \* words of a page, the most that one frame programs
  MaxPolls,  \* TimesToPoll (1000)
  MaxCalls,  \* bound: calls of one run
  MaxRuns    \* bound: runs of the tool

Address == 0..(Words - 1)

ASSUME SizeAssumption ==
  /\ {Words, PageWords, MaxPolls} \subseteq Nat \ {0} /\ Words % PageWords = 0
  /\ MaxCalls \in Nat /\ MaxRuns \in Nat

VARIABLES
  mem,      \* the bytes programmed into each word since it was erased
  protect,  \* the block protection bits of the status register
  chip,     \* what it is: SST's or another maker's
  wel,      \* the write enable latch: off, for the status register, for all
  auto,     \* SST: where the word of the next frame goes, or NoAuto
  busy,     \* the frame that the flash is carrying out, or <<>>
  granted,  \* FLA_FL_GNT: the lines of I210_FLA reach the flash
  cs,       \* the chip select line
  line,     \* the bytes that the flash has received since cs fell
  cut,      \* ... and a part of a byte more
  pc, runs, calls,
  command,  \* what the run is for
  todo,     \* the frames of this call still to be sent
  next,     \* the calls to make after this one, before returning
  sent,     \* bytes clocked of the first frame of todo
  polls,    \* how often this poll has read the status register
  seen,     \* what the last byte clocked in told
  id,       \* ManufacturerId: not read yet, 0xBF (SST), or another
  call,     \* the call under way, or the last one: [op, at, n, status]
  trouble   \* what went wrong in this run, and under it

flashChip == <<mem, protect, chip, wel, auto, busy>>
lines == <<granted, cs, line, cut>>
tool == <<pc, runs, calls, command, todo, next, sent, polls, seen, id, call, trouble>>
vars == <<flashChip, lines, tool>>

Byte(kind) == [kind |-> kind, at |-> 0]
AddressByte(a) == [kind |-> "address", at |-> a]
DataByte(a) == [kind |-> "data", at |-> a]
In == Byte("in")
OldByte == Byte("old")

Erased == [a \in Address |-> {}]
NoAuto == -1
Op(op, a, n) == [op |-> op, at |-> a, n |-> n, status |-> "SUCCESS"]

Init ==
  /\ mem = [a \in Address |-> {OldByte}]
  /\ protect \in BOOLEAN /\ chip \in {"sst", "other"}
  /\ wel = "off" /\ auto = NoAuto /\ busy = <<>>
  /\ granted = FALSE /\ cs = "high" /\ line = <<>> /\ cut = FALSE
  /\ pc = "idle" /\ runs = 0 /\ calls = 0 /\ command = "none"
  /\ todo = <<>> /\ next = <<>> /\ sent = 0 /\ polls = 0 /\ seen = "none" /\ id = "none"
  /\ call = Op("none", 0, 0)
  /\ trouble = {}

-----------------------------------------------------------------------------
(* The flash.                                                               *)

PageStart(a) == a - (a % PageWords)
Page(a) == PageStart(a)..(PageStart(a) + PageWords - 1)

(* Whether the flash starts to carry out the frame f; SST's has no page     *)
(* program.                                                                 *)
Starts(f) ==
  \/ wel # "off" /\ Len(f) = 2 /\ f[1] = Byte("wrsr")
  \/ /\ wel = "all" /\ ~protect
     /\ \/ f = <<Byte("erase")>>
        \/ Len(f) = 2 /\ f[1] = Byte("sectorErase")
        \/ Len(f) > 2 /\ f[1] = Byte("program") /\ chip = "other"

(* A frame of SST's programming gives one word, the first of them with an   *)
(* address; the flash is done when the tool goes on (usleep).               *)
IsAuto(f) == f # <<>> /\ f[1] = Byte("auto") /\ chip = "sst"
First(f) == IsAuto(f) /\ Len(f) = 3 /\ wel = "all" /\ ~protect /\ auto = NoAuto
Following(f) == IsAuto(f) /\ Len(f) > 1 /\ auto # NoAuto
AutoAt(f) == IF auto = NoAuto THEN f[2].at ELSE auto
Word(f) == IF auto = NoAuto THEN f[3] ELSE f[2]

(* What the flash obeys while it programs word by word is only known of     *)
(* these.                                                                   *)
Heard(f) == IF auto = NoAuto \/ IsAuto(f) \/ f = <<Byte("wrdi")>> THEN {TRUE} ELSE BOOLEAN

Latch(f) ==
  CASE f = <<Byte("wren")>>                  -> "all"
    [] f = <<Byte("ewsr")>> /\ chip = "sst" -> "status"
    [] f = <<Byte("wrdi")>>                  -> "off"
    [] OTHER                                 -> wel

Obey(f) ==
  /\ wel' = Latch(f)
  /\ busy' = IF Starts(f) THEN f ELSE <<>>
  /\ IF First(f) \/ Following(f)
     THEN /\ mem' = [mem EXCEPT ![AutoAt(f)] = @ \cup {Word(f)}]
          /\ auto' = (AutoAt(f) + 1) % Words
     ELSE UNCHANGED mem /\ auto' = IF f = <<Byte("wrdi")>> THEN NoAuto ELSE auto

(* The chip select rises: a frame of whole bytes is obeyed unless the flash *)
(* is busy.                                                                 *)
ChipSelectRises ==
  /\ cs' = "high" /\ line' = <<>> /\ cut' = FALSE
  /\ \E heard \in Heard(line) :
       IF granted' /\ ~cut /\ busy = <<>> /\ heard
       THEN Obey(line)
       ELSE UNCHANGED <<mem, wel, auto, busy>>
  /\ UNCHANGED <<protect, chip>>

(* The words that a frame programs: from its address on, wrapping around at *)
(* the end of the page.                                                     *)
Programmed(f) ==
  LET a == f[2].at
      At(i) == PageStart(a) + ((a - PageStart(a) + i - 3) % PageWords)
  IN [x \in Address |-> mem[x] \cup {f[i] : i \in {k \in 3..Len(f) : At(k) = x}}]

Carried(f) ==
  CASE f[1].kind = "erase"       -> Erased
    [] f[1].kind = "sectorErase" -> [a \in Address |-> IF a \in Page(f[2].at) THEN {} ELSE mem[a]]
    [] f[1].kind = "program"     -> Programmed(f)
    [] OTHER                     -> mem

FlashDone ==
  /\ busy # <<>>
  /\ mem' = Carried(busy)
  /\ protect' = (IF busy[1].kind = "wrsr" THEN FALSE ELSE protect)
  /\ wel' = "off" /\ busy' = <<>>
  /\ UNCHANGED <<chip, auto, lines, tool>>

-----------------------------------------------------------------------------
(* One run: the calls it makes, in the order of SetupWriteMethod,           *)
(* EraseDevice and DumpData.                                                *)

StartRun ==
  /\ pc = "idle" /\ runs < MaxRuns
  /\ runs' = runs + 1
  /\ trouble' = (IF busy # <<>> \/ line # <<>> THEN {"leftBusy"} ELSE {})
                 \cup (IF auto # NoAuto \/ IsAuto(line) THEN {"leftAuto"} ELSE {})
  /\ command' \in {"write", "erase", "dump"}
  /\ pc' = "ready"
  /\ UNCHANGED <<flashChip, lines, calls, todo, next, sent, polls, seen, id, call>>

(* Nothing of the process is left.                                          *)
Gone ==
  /\ pc' = "idle" /\ calls' = 0 /\ command' = "none" /\ trouble' = {} /\ id' = "none"
  /\ todo' = <<>> /\ next' = <<>> /\ sent' = 0 /\ polls' = 0 /\ seen' = "none"
  /\ call' = Op("none", 0, 0)
  /\ UNCHANGED runs

EndRun == pc = "ready" /\ Gone /\ UNCHANGED <<flashChip, lines>>

Poll == <<Byte("rdsr"), In>>
WriteEnable == <<<<Byte("wren")>>, <<Byte("wren")>>>>
WriteDisable == <<<<Byte("wrdi")>>>>

Identify == <<<<Byte("rdid"), In>>>>
WriteStatusRegister ==
  <<<<Byte(IF id = "sst" THEN "ewsr" ELSE "wren")>>, <<Byte("wrsr"), Byte("value")>>>>

(* Mutants: an erase does not wait for the flash first, or not for its own  *)
(* end; a write does not wait for its end.                                  *)
EraseAtOnce(f) == WriteEnable \o <<f, Poll>> \o WriteDisable
EraseNotAwaited(f) == <<Poll>> \o WriteEnable \o <<f>> \o WriteDisable
ProgramAtOnce(a, n) ==
  WriteEnable \o <<<<Byte("program"), AddressByte(a)>> \o [i \in 1..n |-> DataByte(a + i - 1)]>>
              \o WriteDisable

Erase(f) == <<Poll>> \o WriteEnable \o <<f, Poll>> \o WriteDisable
Program(a, n) ==
  WriteEnable \o <<<<Byte("program"), AddressByte(a)>> \o [i \in 1..n |-> DataByte(a + i - 1)]>>
              \o WriteDisable \o <<Poll>>
SstProgram(a, n) ==
  WriteEnable \o <<<<Byte("auto"), AddressByte(a), DataByte(a)>>>>
              \o [k \in 1..(n - 1) |-> <<Byte("auto"), DataByte(a + k)>>]
              \o WriteDisable
Read(a) == <<<<Byte("read"), AddressByte(a), In>>>>

FramesOf(c) ==
  CASE c.op = "identify"    -> Identify
    [] c.op = "writable"    -> WriteStatusRegister
    [] c.op = "eraseNvm"    -> Erase(<<Byte("erase")>>)
    [] c.op = "sectorErase" -> Erase(<<Byte("sectorErase"), AddressByte(c.at)>>)
    [] c.op = "program"     -> Program(c.at, c.n)
    [] c.op = "sstProgram"  -> SstProgram(c.at, c.n)
    [] c.op = "read"        -> Read(c.at)

(* FlashDetectAndSetWritable reads the JEDEC id and clears the protection,  *)
(* once: unless the id read is zero.                                        *)
Detection == IF id # "none" THEN <<>> ELSE <<Op("identify", 0, 0), Op("writable", 0, 0)>>

Begin(ops) ==
  /\ pc = "ready" /\ calls < MaxCalls
  /\ calls' = calls + 1
  /\ call' = Head(ops) /\ next' = Tail(ops) /\ pc' = "enable" /\ seen' = "none"
  /\ UNCHANGED <<flashChip, lines, runs, command, todo, sent, polls, id, trouble>>

CallDetect == command = "write" /\ call.op = "none" /\ Begin(<<Op("identify", 0, 0), Op("writable", 0, 0)>>)
CallErase ==
  /\ \/ command = "write" /\ call.op = "writable"
     \/ command = "erase" /\ call.op = "none"
  /\ Begin(Detection \o <<Op("eraseNvm", 0, 0)>>)

AfterErase == command = "write" /\ call.op \in {"eraseNvm", "program", "sstProgram", "read", "sectorErase"}
CallSectorErase == AfterErase /\ Begin(Detection \o <<Op("sectorErase", 0, 0)>>)
CallProgram ==
  \E a \in Address, n \in 1..PageWords :
    AfterErase /\ a + n - 1 \in Page(a) /\ Begin(<<Op("program", a, n)>>)
CallSstProgram ==
  \E a \in Address, n \in 1..PageWords :
    AfterErase /\ id = "sst" /\ a + n - 1 \in Page(a) /\ Begin(<<Op("sstProgram", a, n)>>)
CallRead == (AfterErase \/ command = "dump") /\ Begin(<<Op("read", 0, 0)>>)

Return(status) ==
  /\ call' = [call EXCEPT !.status = status]
  /\ pc' = "ready"

(* Only FlashDetectAndSetWritable goes without the semaphore.               *)
AcquireFails ==
  /\ pc = "enable" /\ call.op \notin {"identify", "writable"}
  /\ Return("FAIL")
  /\ trouble' = trouble \cup {"gaveUp"}
  /\ UNCHANGED <<flashChip, lines, runs, calls, command, todo, next, sent, polls, seen, id>>

-----------------------------------------------------------------------------
(* The lines.                                                               *)

(* Enable_Serial_Flash_Bit_Interface: a grant that does not come is not     *)
(* looked at.  The chip select goes high, whatever it was.                  *)
(* Mutant: the lines are taken as they are.                                 *)
EnableAsIs ==
  /\ pc = "enable"
  /\ granted' \in IF granted THEN {TRUE} ELSE BOOLEAN
  /\ trouble' = (IF granted' THEN trouble ELSE trouble \cup {"refused"})
  /\ todo' = FramesOf(call) /\ sent' = 0 /\ polls' = 0 /\ pc' = "frame"
  /\ UNCHANGED <<flashChip, cs, line, cut, runs, calls, command, next, seen, id, call>>

Enable ==
  /\ pc = "enable"
  /\ granted' \in IF granted THEN {TRUE} ELSE BOOLEAN
  /\ trouble' = (IF granted' THEN trouble ELSE trouble \cup {"refused"})
  /\ ChipSelectRises
  /\ todo' = FramesOf(call) /\ sent' = 0 /\ polls' = 0 /\ pc' = "frame"
  /\ UNCHANGED <<runs, calls, command, next, seen, id, call>>

ChipSelectLow ==
  /\ pc = "frame" /\ todo # <<>>
  /\ cs' = "low" /\ pc' = "bytes" /\ sent' = 0 /\ seen' = "none"
  /\ UNCHANGED <<flashChip, granted, line, cut>>
  /\ UNCHANGED <<runs, calls, command, todo, next, polls, id, call, trouble>>

(* What the flash answers, if it listens: it is busy only to other frames   *)
(* than those that read the status register.                                *)
Answers ==
  IF granted /\ ~cut /\ line = SubSeq(Head(todo), 1, sent)
  THEN IF Head(todo) = Poll THEN {IF busy # <<>> THEN "busy" ELSE "ready"}
       ELSE (IF busy = <<>> THEN {"true"} ELSE {"zero", "garbage"})
            \cup (IF auto = NoAuto THEN {} ELSE {"zero", "garbage"})
  ELSE IF Head(todo) = Poll THEN {"busy", "ready"} ELSE {"zero", "garbage"}

ClockByte ==
  /\ pc = "bytes" /\ sent < Len(Head(todo))
  /\ LET byte == Head(todo)[sent + 1] IN
     /\ line' = (IF granted THEN Append(line, byte) ELSE line)
     /\ IF byte = In THEN seen' \in Answers ELSE UNCHANGED seen
  /\ sent' = sent + 1
  /\ UNCHANGED <<flashChip, granted, cs, cut>>
  /\ UNCHANGED <<pc, runs, calls, command, todo, next, polls, id, call, trouble>>

EndsFrame == pc = "bytes" /\ sent = Len(Head(todo))
IsPoll == Head(todo) = Poll

(* Mutant: polling without end.                                             *)
PollAgainForEver ==
  /\ EndsFrame /\ IsPoll /\ seen # "ready"
  /\ UNCHANGED granted /\ ChipSelectRises
  /\ pc' = "frame"
  /\ UNCHANGED <<runs, calls, command, todo, next, sent, polls, seen, id, call, trouble>>

Identified ==
  CASE seen = "true" -> {chip} [] seen = "zero" -> {"none"} [] OTHER -> {"sst", "other"}

(* The chip select goes high after the last byte of a frame that is not a   *)
(* poll, or of a poll that found the flash ready.                           *)
ChipSelectHigh ==
  /\ EndsFrame /\ (IsPoll => seen = "ready")
  /\ UNCHANGED granted /\ ChipSelectRises
  /\ todo' = Tail(todo) /\ polls' = 0 /\ pc' = "frame"
  /\ id' \in IF call.op = "identify" THEN Identified ELSE {id}
  /\ sent' = 0 /\ UNCHANGED <<runs, calls, command, next, seen, call, trouble>>

PollAgain ==
  /\ EndsFrame /\ IsPoll /\ seen # "ready" /\ polls + 1 < MaxPolls
  /\ UNCHANGED granted /\ ChipSelectRises
  /\ polls' = polls + 1 /\ pc' = "frame"
  /\ UNCHANGED <<runs, calls, command, todo, next, sent, seen, id, call, trouble>>

(* An erase does nothing if its first poll gives up; its second is followed *)
(* by the write disable.                                                    *)
PollGivesUp ==
  /\ EndsFrame /\ IsPoll /\ seen # "ready" /\ polls + 1 = MaxPolls
  /\ UNCHANGED granted /\ ChipSelectRises
  /\ call' = [call EXCEPT !.status = "FAIL"]
  /\ todo' = (IF Len(todo) > 2 THEN <<>> ELSE Tail(todo))
  /\ polls' = 0 /\ pc' = "frame" /\ trouble' = trouble \cup {"gaveUp"}
  /\ UNCHANGED <<runs, calls, command, next, sent, seen, id>>

(* Disable_Serial_Flash_Bit_Interface, and the call returns.                *)
Disable ==
  /\ pc = "frame" /\ todo = <<>>
  /\ granted' = FALSE
  /\ IF next = <<>> THEN Return(call.status) /\ UNCHANGED next
                    ELSE call' = Head(next) /\ next' = Tail(next) /\ pc' = "enable"
  /\ UNCHANGED <<flashChip, cs, line, cut>>
  /\ UNCHANGED <<runs, calls, command, todo, sent, polls, seen, id, trouble>>

Step == Enable \/ ChipSelectLow \/ ClockByte \/ ChipSelectHigh \/ PollAgain \/ PollGivesUp \/ Disable

-----------------------------------------------------------------------------
(* A process that is killed leaves the lines as they are, perhaps within a  *)
(* byte.                                                                    *)
Kill ==
  /\ pc \in {"enable", "frame", "bytes"}
  /\ Gone
  /\ cut' \in {cut, granted /\ pc = "bytes" /\ sent < Len(Head(todo))}
  /\ UNCHANGED <<flashChip, granted, cs, line>>

(* The power goes: what the flash was carrying out is done or not.          *)
PowerLoss ==
  /\ runs > 0 /\ runs < MaxRuns
  /\ \/ pc = "idle" /\ UNCHANGED tool
     \/ pc # "idle" /\ Gone
  /\ mem' \in {mem, IF busy = <<>> THEN mem ELSE Carried(busy)}
  /\ wel' = "off" /\ auto' = NoAuto /\ busy' = <<>> /\ UNCHANGED <<protect, chip>>
  /\ granted' = FALSE /\ cs' = "high" /\ line' = <<>> /\ cut' = FALSE

Next ==
  \/ StartRun \/ EndRun
  \/ CallDetect \/ CallErase \/ CallSectorErase \/ CallProgram
  \/ CallSstProgram \/ CallRead
  \/ AcquireFails \/ Step
  \/ FlashDone \/ Kill \/ PowerLoss

Spec == Init /\ [][Next]_vars
FairSpec == Spec /\ WF_vars(Step)

-----------------------------------------------------------------------------
(* Properties.                                                              *)

(* Every variable stays in its type; between two frames the chip select of  *)
(* a run is high and the flash holds nothing of a frame.                    *)
TypeOK ==
  /\ DOMAIN mem = Address /\ {protect, granted, cut} \subseteq BOOLEAN
  /\ wel \in {"off", "status", "all"} /\ auto \in Address \cup {NoAuto} /\ id \in {"none", "sst", "other"}
  /\ cs \in {"low", "high"} /\ (cs = "high" => line = <<>> /\ ~cut)
  /\ pc \in {"idle", "ready", "enable", "frame", "bytes"}
  /\ (pc = "frame" => cs = "high")
  /\ runs \in 0..MaxRuns /\ calls \in 0..MaxCalls /\ polls \in 0..(MaxPolls - 1)
  /\ trouble \subseteq {"leftBusy", "leftAuto", "refused", "gaveUp"}

(* Whatever was killed and whenever, a word is never given anything but     *)
(* what was asked to be written to it: a frame that a dead process left     *)
(* unfinished is never continued with the bytes of the next run             *)
(* (Enable_Serial_Flash_Bit_Interface).  Only an SST flash that a dead run  *)
(* left programming may take the next run's address for data.               *)
ValuesInPlace ==
  [][\A a \in Address : mem'[a] \subseteq mem[a] \cup {DataByte(a)} \/ "leftAuto" \in trouble]_mem

Returned(op) == pc = "ready" /\ call.op = op /\ call.status = "SUCCESS"

(* The flash is erased, the sector is: what an erase found the flash doing, *)
(* and its protection, do not matter, an ungranted interface does; a sector *)
(* also needs that the run got its semaphores and gave up no wait so far.   *)
Burst(c) == c.at..(c.at + c.n - 1)
EraseReported ==
  /\ Returned("eraseNvm") /\ trouble \cap {"refused", "leftAuto"} = {} => busy = <<>> /\ mem = Erased
  /\ Returned("sectorErase") /\ trouble \subseteq {"leftBusy"} =>
       busy = <<>> /\ \A a \in Page(call.at) : mem[a] = {}

(* Every word of the burst is programmed; the generic way sends the write   *)
(* disable before it polls, SST's does not poll at all.                     *)
WriteReported ==
  /\ Returned(IF chip = "sst" THEN "sstProgram" ELSE "program")
  /\ trouble \subseteq {"leftBusy"}
  => \A a \in Burst(call) : DataByte(a) \in mem[a]

(* What is read is in the flash: a busy flash, which a read does not poll   *)
(* for, does not answer.                                                    *)
ReadsTruth ==
  Returned("read") /\ trouble = {} => seen = "true"

(* SUCCESS means that it is done: a call that reports it has erased, has    *)
(* programmed or has read the flash, whatever a killed run left it doing,   *)
(* as far as each part above goes (BitBangFlashEraseI210,                   *)
(* BitBangFlashSectorEraseI210, GenericBitBangFlashWriteI210,               *)
(* SstBitBangFlashWriteI210, GenericBitBangFlashReadI210).                  *)
SuccessIsTrue == EraseReported /\ WriteReported /\ ReadsTruth

(* A call under way returns, or its process dies: the polls are counted.    *)
CallEnds == (pc \in {"enable", "frame", "bytes"}) ~> (pc \in {"idle", "ready"})
=============================================================================
