---------------------------- MODULE FlashProgram ----------------------------
(***************************************************************************)
(* Programming the flash of an I210 from an image file: WriteNvm           *)
(* (testfuncs.c), SetupWriteMethod and UpdateNvmChecksumI210               *)
(* (PciEeprom.c), called by WriteToDevice (main.c).                        *)
(*                                                                         *)
(* Writing a flash word can only clear bits: a word is the set of values   *)
(* written to it since it was last erased, and it reads as a value only if *)
(* that is the one value written.  Writing 0xFFFF adds none.  Every        *)
(* operation on the flash can fail (no semaphore, or the flash stays busy) *)
(* and most results are ignored; the process can be killed before each.    *)
(***************************************************************************)
EXTENDS Integers

CONSTANTS
  WordSize,     \* dev->wordsize, a multiple of BurstSize
  BurstSize,    \* BURST_SIZE (128), a multiple of LineWords
  LineWords,    \* words read from the file at a time (8)
  ChecksumReg,  \* NVM_CHECKSUM_REG (63)
  MacLen,       \* words of the MAC address (3)
  SectorWords,  \* words of the sector that SetupWriteMethod erases
  MaxRuns       \* bound: runs of the tool

Index == 0..(WordSize - 1)

ASSUME SizeAssumption ==
  /\ {WordSize, BurstSize, LineWords, MacLen, SectorWords} \subseteq Nat \ {0}
  /\ WordSize % BurstSize = 0 /\ BurstSize % LineWords = 0
  /\ MacLen <= BurstSize /\ MacLen <= ChecksumReg
  /\ ChecksumReg \in Index /\ MaxRuns \in Nat

VARIABLES
  flash,    \* the values written to each word since it was erased
  working,  \* the ways of writing that work on this device
  pc, runs,
  file,     \* the image file: its kind and the words in it
  mac,      \* MacAddress[0] is not 0xFF: a MAC address was given
  method,   \* dev->nvmops.write: the one set at first, or bit banging
  j,        \* word offset of the next burst
  summed,   \* the words that the last checksum was computed from
  faults,   \* the operations of this run that failed
  result    \* how the last run ended

command == <<file, mac>>
vars == <<flash, working, pc, runs, command, method, j, summed, faults, result>>

Methods == {"default", "bitBang"}
Files == [kind : {"bin", "hex", "none"}, words : 0..WordSize]

Value(kind, w) == [kind |-> kind, word |-> w, run |-> runs]
Values == [kind : {"old", "test", "img", "mac", "sum"}, word : Index, run : 0..MaxRuns]

Erased == [w \in Index |-> {}]

Init ==
  /\ flash \in {Erased, [w \in Index |-> {[kind |-> "old", word |-> w, run |-> 0]}]}
  /\ working \in SUBSET Methods
  /\ pc = "idle" /\ runs = 0 /\ result = "none"
  /\ file = [kind |-> "none", words |-> 0] /\ mac = FALSE
  /\ method = "default" /\ j = 0 /\ summed = Erased /\ faults = {}

Fails(op) == faults' = faults \cup {op}
Works == UNCHANGED faults

Start ==
  /\ pc = "idle" /\ runs < MaxRuns
  /\ runs' = runs + 1
  /\ file' \in Files /\ mac' \in BOOLEAN
  /\ pc' = "erase" /\ result' = "none" /\ method' = "default" /\ faults' = {}
  /\ UNCHANGED <<flash, working, j, summed>>

-----------------------------------------------------------------------------
(* SetupWriteMethod.                                                        *)

EraseNvm ==
  /\ pc = "erase"
  /\ \/ flash' = Erased /\ Works
     \/ flash' \in {flash, Erased} /\ Fails("erase")
  /\ pc' = "testWrite"
  /\ UNCHANGED <<working, runs, command, method, j, summed, result>>

TestWrite ==
  /\ pc = "testWrite"
  /\ LET written == [flash EXCEPT ![0] = @ \cup {Value("test", 0)}] IN
     \/ flash' = (IF method \in working THEN written ELSE flash) /\ Works
     \/ flash' \in {flash, written} /\ method \in working /\ Fails("test")
     \/ UNCHANGED flash /\ Fails("test")
  /\ pc' = "testRead"
  /\ UNCHANGED <<working, runs, command, method, j, summed, result>>

(* Reading word 0 gives the test pattern, of whichever run it is.           *)
ReadsAsTest == flash[0] # {} /\ \A v \in flash[0] : v.kind = "test"

(* Mutants: the method tried last is taken although it did not work; the    *)
(* pattern stays in the flash.                                              *)
TestReadTakesLast ==
  /\ pc = "testRead"
  /\ \/ ReadsAsTest /\ Works /\ pc' = "cleanUp" /\ UNCHANGED <<method, result>>
     \/ /\ (ReadsAsTest => Fails("test")) /\ (~ReadsAsTest => Works)
        /\ IF method = "default"
           THEN method' = "bitBang" /\ pc' = "testWrite" /\ UNCHANGED result
           ELSE pc' = "cleanUp" /\ UNCHANGED <<method, result>>
  /\ UNCHANGED <<flash, working, runs, command, j, summed>>

SectorEraseSkipped ==
  /\ pc = "cleanUp"
  /\ j' = 0
  /\ pc' = IF result = "noMethod" THEN "idle" ELSE "open"
  /\ UNCHANGED <<flash, faults, working, runs, command, method, summed, result>>

(* A read that fails leaves Data zero.                                      *)
TestRead ==
  /\ pc = "testRead"
  /\ \/ ReadsAsTest /\ Works /\ pc' = "cleanUp" /\ UNCHANGED <<method, result>>
     \/ /\ (ReadsAsTest => Fails("test")) /\ (~ReadsAsTest => Works)
        /\ IF method = "default"
           THEN method' = "bitBang" /\ pc' = "testWrite" /\ UNCHANGED result
           ELSE pc' = "cleanUp" /\ result' = "noMethod" /\ UNCHANGED method
  /\ UNCHANGED <<flash, working, runs, command, j, summed>>

(* The first sector is erased in any case, to remove the test pattern.      *)
SectorErase ==
  /\ pc = "cleanUp"
  /\ LET cleaned == [w \in Index |-> IF w < SectorWords THEN {} ELSE flash[w]] IN
     \/ flash' = cleaned /\ Works
     \/ flash' \in {flash, cleaned} /\ Fails("cleanUp")
  /\ j' = 0
  /\ pc' = IF result = "noMethod" THEN "idle" ELSE "open"
  /\ UNCHANGED <<working, runs, command, method, summed, result>>

SetupWriteMethod == EraseNvm \/ TestWrite \/ TestRead \/ SectorErase

-----------------------------------------------------------------------------
(* WriteNvm.                                                                *)

OpenFile ==
  /\ pc = "open"
  /\ IF file.kind = "none" THEN pc' = "idle" /\ result' = "noFile"
                           ELSE pc' = "burst" /\ UNCHANGED result
  /\ UNCHANGED <<flash, working, runs, command, method, j, summed, faults>>

(* Whether the word at offset i of the burst at j is the checksum word to   *)
(* be left out: the distance is taken from j * BURST_SIZE.                  *)
(* Mutant: nothing is left out.                                             *)
LeftOutNever(i) == FALSE

LeftOut(i) ==
  LET line == i - (i % LineWords)
      offset == ChecksumReg - (j * BurstSize + line)
  IN mac /\ 0 <= offset /\ offset < LineWords /\ i = line + offset

(* The MAC address is injected into the first burst of a HEX file; for a    *)
(* BIN file the code tests i, which is not zero after the loop, for j.      *)
Injected(i) == mac /\ file.kind = "hex" /\ j = 0 /\ i < MacLen

(* What the burst writes to the word at offset i of it; a method that does  *)
(* not work writes nothing.                                                 *)
LineWord(i) ==
  IF Injected(i) THEN {Value("mac", i)}
  ELSE IF LeftOut(i) THEN {}
  ELSE {Value("img", j + i)}

InBurst(w) == j <= w /\ w < j + BurstSize
AfterBurst ==
  [w \in Index |-> IF InBurst(w) /\ method \in working
                   THEN flash[w] \cup LineWord(w - j)
                   ELSE flash[w]]

(* Mutants: the loop ends one burst early; it ends one burst late.          *)
BurstStopsEarly ==
  /\ pc = "burst" /\ j + BurstSize <= file.words
  /\ flash' = AfterBurst /\ Works
  /\ j' = j + BurstSize
  /\ pc' = IF j + 2 * BurstSize >= WordSize THEN "update" ELSE "burst"
  /\ UNCHANGED <<working, runs, command, method, summed, result>>

BurstOneMore ==
  /\ pc = "burst" /\ j + BurstSize <= file.words
  /\ flash' = AfterBurst /\ Works
  /\ j' = j + BurstSize
  /\ pc' = IF j' <= WordSize THEN "burst" ELSE "update"
  /\ UNCHANGED <<working, runs, command, method, summed, result>>

(* A write that fails has written all of the burst, a part or nothing.      *)
Burst ==
  /\ pc = "burst" /\ j + BurstSize <= file.words
  /\ \/ flash' = AfterBurst /\ Works
     \/ /\ \E n \in 0..BurstSize :
             flash' = [w \in Index |-> IF w < j + n THEN AfterBurst[w] ELSE flash[w]]
        /\ Fails("burst")
  /\ j' = j + BurstSize
  /\ pc' = IF j' < WordSize THEN "burst" ELSE "update"
  /\ UNCHANGED <<working, runs, command, method, summed, result>>

(* The file ends within a burst: what was read of the burst is dropped.     *)
EndOfFile ==
  /\ pc = "burst" /\ file.words < j + BurstSize
  /\ pc' = "update"
  /\ UNCHANGED <<flash, working, runs, command, method, j, summed, faults, result>>

(* UpdateNvmChecksumI210: only with a MAC address; the checksum is taken    *)
(* from what the flash reads as.                                            *)
UpdateSkipped ==
  /\ pc = "update" /\ ~mac
  /\ pc' = "idle" /\ result' = "done"
  /\ UNCHANGED <<flash, working, runs, command, method, j, summed, faults>>

UpdateNvmChecksum ==
  /\ pc = "update" /\ mac
  /\ LET sum == IF method \in working THEN {Value("sum", ChecksumReg)} ELSE {}
         written == [flash EXCEPT ![ChecksumReg] = @ \cup sum] IN
     \/ /\ summed' = [w \in Index |-> IF w < ChecksumReg THEN flash[w] ELSE {}]
        /\ \/ flash' = written /\ Works
           \/ flash' \in {flash, written} /\ Fails("update")
     \/ UNCHANGED <<flash, summed>> /\ Fails("update")
  /\ pc' = "idle" /\ result' = "done"
  /\ UNCHANGED <<working, runs, command, method, j>>

WriteNvm == OpenFile \/ Burst \/ EndOfFile \/ UpdateSkipped \/ UpdateNvmChecksum

Kill ==
  /\ pc # "idle"
  /\ pc' = "idle" /\ result' = "killed"
  /\ UNCHANGED <<flash, working, runs, command, method, j, summed, faults>>

Next == Start \/ SetupWriteMethod \/ WriteNvm \/ Kill

Spec == Init /\ [][Next]_vars

-----------------------------------------------------------------------------
(* Properties.                                                              *)

(* Every variable stays in its type; no burst runs past the end of the      *)
(* flash.                                                                   *)
TypeOK ==
  /\ flash \in [Index -> SUBSET Values] /\ summed \in [Index -> SUBSET Values]
  /\ working \subseteq Methods /\ method \in Methods
  /\ pc \in {"idle", "erase", "testWrite", "testRead", "cleanUp", "open", "burst", "update"}
  /\ runs \in 0..MaxRuns /\ file \in Files /\ mac \in BOOLEAN
  /\ j \in 0..WordSize /\ (pc = "burst" => j + BurstSize <= WordSize)
  /\ faults \subseteq {"erase", "test", "cleanUp", "burst", "update"}
  /\ result \in {"none", "noMethod", "noFile", "done", "killed"}

(* A run in which no operation failed leaves exactly what it was asked for, *)
(* whatever was in the flash: the image up to its last full burst, with the *)
(* MAC address and a checksum of its own if one was given, nothing of the   *)
(* test pattern, and the rest erased.  (A BIN file with a MAC address is    *)
(* the business of BinMacInjected.)                                         *)
WrittenWords == (file.words \div BurstSize) * BurstSize
Expected(w) ==
  IF mac /\ w = ChecksumReg THEN {Value("sum", w)}
  ELSE IF w >= WrittenWords THEN {}
  ELSE IF mac /\ w < MacLen THEN {Value("mac", w)}
  ELSE {Value("img", w)}
Finished == pc = "idle" /\ result = "done"
ProgrammedExactly ==
  Finished /\ faults = {} /\ ~(mac /\ file.kind = "bin") =>
    \A w \in Index : flash[w] = Expected(w)

(* With a MAC address, a finished run in which only writes of the image     *)
(* failed, which nobody looks at, still has a checksum that is right for    *)
(* the words in the flash: its word is still erased when                    *)
(* UpdateNvmChecksumI210 comes to write it (WriteNvm).                      *)
ChecksumMatches ==
  Finished /\ mac /\ faults \subseteq {"burst", "cleanUp"} =>
    /\ flash[ChecksumReg] = {Value("sum", ChecksumReg)}
    /\ \A w \in 0..(ChecksumReg - 1) : flash[w] = summed[w]

(* With a MAC address the checksum commits the image: a run that was killed *)
(* at any point has not written it unless every burst of the file has been  *)
(* written or has failed (WriteNvm updates after its loop).                 *)
ChecksumCommits ==
  mac /\ Value("sum", ChecksumReg) \in flash[ChecksumReg] /\ "burst" \notin faults =>
    \A w \in 0..(WrittenWords - 1) : flash[w] # {}

(* Image words are written only by a method that this device was seen to    *)
(* write with: if the erase worked and no test failed for want of the       *)
(* semaphore, the pattern read back is neither one that an earlier, killed  *)
(* run left behind nor the work of the method tried before                  *)
(* (SetupWriteMethod does not erase between its two attempts).              *)
MethodTested == pc = "burst" /\ faults \subseteq {"cleanUp", "burst"} => method \in working

(* A MAC address given with a BIN file is in the flash at the end of a run  *)
(* in which nothing failed: "MAC address injecting (if supplied in cmd      *)
(* line)" (WriteNvm).                                                       *)
BinMacInjected ==
  Finished /\ faults = {} /\ mac /\ file.kind = "bin" /\ WrittenWords > 0 =>
    \A w \in 0..(MacLen - 1) : flash[w] = {Value("mac", w)}
=============================================================================
