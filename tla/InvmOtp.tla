------------------------------ MODULE InvmOtp ------------------------------
(***************************************************************************)
(* Programming and locking the one-time memory of an I210/I211: WriteOtp,  *)
(* ReadRawOtpFile, CheckOtpState, WriteBufferToOtp and WriteInvmLockBits   *)
(* of testfuncs.c, run by WriteToDevice and WriteLockBits of main.c.       *)
(*                                                                         *)
(* A word is the set of its bits that are one: burning can only add bits.  *)
(* The hardware is external.  A write of a word may burn any part of it:   *)
(* none when writing is off, the word is locked, or the memory is busy     *)
(* (WaitForOtp gives up after a while and its result is not looked at).    *)
(* The process can be killed between two register writes, and the power    *)
(* can fail; only the second one turns writing off.                        *)
(***************************************************************************)
EXTENDS Naturals, Sequences, FiniteSets

CONSTANTS
  NumWords,       \* OTP_NUM_WORDS (64)
  HardwareUsage,  \* OTP_HARDWARE_USAGE (3): words the tool never touches
  Tries,          \* TRIES (10)
  LockNum,        \* OTP_LOCKBIT_NUM (32)
  Bits,           \* the bits of a word
  MacWords,       \* the low, mid and high Word Auto-load structures
  Images,         \* raw OTP files, as the words read from them
  LockFiles,      \* lock files: their lines, and whether the last one ends
  MaxRuns         \* bound: times the tool is started

Index == 0..(NumWords - 1)
Usable == NumWords - HardwareUsage
Word == 0..(Usable - 1)
Locks == 0..(LockNum - 1)
Contents == [Index -> SUBSET Bits]

ASSUME SizeAssumption ==
  /\ NumWords \in Nat /\ HardwareUsage \in Nat /\ HardwareUsage < NumWords
  /\ Tries \in Nat /\ LockNum \in Nat \ {0} /\ MaxRuns \in Nat
ASSUME DataAssumption ==
  /\ MacWords \in [1..3 -> SUBSET Bits]
  /\ Images \subseteq Contents

VARIABLES
  otp,      \* the bits burnt in each word
  locked,   \* the lock bits burnt
  allow,    \* the memory accepts writes (OTP_WRITE_PROTECT_REG)
  pc,       \* where the tool is
  image,    \* the words of the file
  mac,      \* a MAC address was given on the command line
  buffer,   \* what the tool programs
  lockFile, \* the lock file
  lockBuf,  \* the lock bits the tool sets
  count,    \* the word or lock bit being written
  tries,    \* i of the retry loop
  result,   \* how the last run ended, or what it will end with
  runs      \* runs started

device == <<otp, locked, allow>>
input == <<image, mac, buffer, lockFile, lockBuf>>
vars == <<device, pc, input, count, tries, result, runs>>

Burning == {"enable", "word", "disable"}
Locking == {"lockEnable", "lockWord", "lockDisable"}
Results == {"none", "programmed", "failed", "already", "refused", "noRoom",
            "noFile", "locked", "rejected", "killed"}

Empty == [w \in Index |-> {}]
NoFile == [lines |-> <<>>, newline |-> TRUE]

Init ==
  /\ otp = Empty /\ locked = {} /\ allow = FALSE
  /\ pc = "idle" /\ result = "none" /\ runs = 0
  /\ image = Empty /\ mac = FALSE /\ buffer = Empty
  /\ lockFile = NoFile /\ lockBuf = {}
  /\ count = 0 /\ tries = 0

-----------------------------------------------------------------------------
(* ReadRawOtpFile: the three MAC structures go to the first words that are  *)
(* zero; a search that finds none stops at the last word.                   *)

EmptySlot(b, from) ==
  CHOOSE i \in from..(NumWords - 1) :
    /\ i = NumWords - 1 \/ b[i] = {}
    /\ \A j \in from..(i - 1) : b[j] # {}

Low(b) == EmptySlot(b, 0)
WithLow(b) == [b EXCEPT ![Low(b)] = MacWords[1]]
Mid(b) == EmptySlot(WithLow(b), Low(b))
WithMid(b) == [WithLow(b) EXCEPT ![Mid(b)] = MacWords[2]]
High(b) == EmptySlot(WithMid(b), Mid(b))
WithMac(b) == [WithMid(b) EXCEPT ![High(b)] = MacWords[3]]

(* Mutant: the room check is off by one.                                    *)
MacFitsOneMore(b) == High(b) <= NumWords - 3

MacFits(b) == High(b) < NumWords - 3

EndRun(why) ==
  /\ result' = why
  /\ pc' = "idle"

ReadRawOtpFile ==
  /\ pc = "idle" /\ runs < MaxRuns
  /\ runs' = runs + 1
  /\ \/ /\ EndRun("noFile")
        /\ UNCHANGED <<image, mac, buffer>>
     \/ /\ image' \in Images /\ mac' \in BOOLEAN
        /\ buffer' = IF mac' THEN WithMac(image') ELSE image'
        /\ IF mac' /\ ~MacFits(image')
           THEN EndRun("noRoom")
           ELSE pc' = "check" /\ result' = "none"
  /\ UNCHANGED <<device, lockFile, lockBuf, count, tries>>

-----------------------------------------------------------------------------
(* CheckOtpState and WriteBufferToOtp.                                      *)

(* Mutant: only the first word is compared with the image.                  *)
CheckOtpStateFirst ==
  IF ~(otp[0] \subseteq buffer[0]) THEN "nonoverwritable"
  ELSE IF \A w \in Word : otp[w] = {} THEN "empty"
  ELSE IF \A w \in Word : otp[w] = buffer[w] THEN "programmed"
  ELSE "overwritable"

CheckOtpState ==
  IF \E w \in Word : ~(otp[w] \subseteq buffer[w]) THEN "nonoverwritable"
  ELSE IF \A w \in Word : otp[w] = {} THEN "empty"
  ELSE IF \A w \in Word : otp[w] = buffer[w] THEN "programmed"
  ELSE "overwritable"

Check ==
  /\ pc = "check"
  /\ CASE CheckOtpState = "programmed" -> EndRun("already")
       [] CheckOtpState = "nonoverwritable" -> EndRun("refused")
       [] OTHER -> pc' = "enable" /\ UNCHANGED result
  /\ UNCHANGED <<device, input, count, tries, runs>>

(* The code word is or-ed into what the register reads as; whether the      *)
(* memory takes it as the code is the hardware's business.                  *)
Enable ==
  /\ pc = "enable"
  /\ allow' \in BOOLEAN
  /\ pc' = "word" /\ count' = 0 /\ tries' = 0
  /\ UNCHANGED <<otp, locked, input, result, runs>>

(* Mutant: the loop runs one word too far.                                  *)
AdvanceLate ==
  /\ tries' = 0
  /\ count' = count + 1
  /\ IF count = Usable THEN pc' = "disable" /\ result' = "programmed"
                       ELSE UNCHANGED <<pc, result>>

Advance ==
  /\ tries' = 0
  /\ count' = count + 1
  /\ IF count + 1 = Usable THEN pc' = "disable" /\ result' = "programmed"
                           ELSE UNCHANGED <<pc, result>>

WordDone ==
  /\ pc = "word" /\ tries < Tries
  /\ otp[count] = buffer[count]
  /\ Advance
  /\ UNCHANGED <<device, input, runs>>

(* Hardware (external): lock bit n guards the words 2n and 2n + 1.          *)
Writable(w) == allow /\ (w \div 2) \notin locked

(* Mutant: a failed attempt is not counted.                                 *)
WordTryUncounted ==
  /\ pc = "word" /\ tries < Tries
  /\ otp[count] # buffer[count]
  /\ \E burnt \in SUBSET buffer[count] :
       /\ burnt # {} => Writable(count)
       /\ otp' = [otp EXCEPT ![count] = @ \cup burnt]
  /\ UNCHANGED <<locked, allow, pc, input, count, tries, result, runs>>

WordTry ==
  /\ pc = "word" /\ tries < Tries
  /\ otp[count] # buffer[count]
  /\ \E burnt \in SUBSET buffer[count] :
       /\ burnt # {} => Writable(count)
       /\ otp' = [otp EXCEPT ![count] = @ \cup burnt]
  /\ tries' = tries + 1
  /\ UNCHANGED <<locked, allow, pc, input, count, result, runs>>

(* Mutants: break_flag is not reset after the first word; a word that       *)
(* failed returns at once.                                                  *)
WordFailedKeepsFlag ==
  /\ pc = "word" /\ tries = Tries
  /\ IF count > 0 THEN Advance
                  ELSE /\ result' = "failed" /\ pc' = "disable"
                       /\ UNCHANGED <<count, tries>>
  /\ UNCHANGED <<device, input, runs>>

WordFailedReturns ==
  /\ pc = "word" /\ tries = Tries
  /\ EndRun("failed")
  /\ UNCHANGED <<device, input, count, tries, runs>>

(* After the last attempt the word is not read again.                       *)
WordFailed ==
  /\ pc = "word" /\ tries = Tries
  /\ result' = "failed" /\ pc' = "disable"
  /\ UNCHANGED <<device, input, count, tries, runs>>

Disable ==
  /\ pc = "disable"
  /\ allow' = FALSE
  /\ pc' = "idle"
  /\ UNCHANGED <<otp, locked, input, count, tries, result, runs>>

WriteBufferToOtp == Check \/ Enable \/ WordDone \/ WordTry \/ WordFailed \/ Disable

-----------------------------------------------------------------------------
(* WriteInvmLockBits.  A line gives a lock bit its value, or it is "short"  *)
(* (fewer than two numbers) or "range" (a number out of range).             *)

Says(n, bit) == [kind |-> "value", num |-> n, bit |-> bit]

(* At most LockNum lines are read, and a last line without a newline sets   *)
(* feof and is dropped.                                                     *)
LinesRead(file) ==
  LET n == Len(file.lines)
      complete == IF file.newline \/ n = 0 THEN n ELSE n - 1
  IN {i \in 1..LockNum : i <= complete}

StoppedAt(file, i) == file.lines[i].kind # "value"
TakenLines(file) ==
  {i \in LinesRead(file) : \A j \in 1..i : ~StoppedAt(file, j)}
Rejected(file) ==
  \E i \in LinesRead(file) :
    file.lines[i].kind = "range" /\ \A j \in 1..(i - 1) : ~StoppedAt(file, j)

Listed(file) ==
  {n \in Locks :
    \E i \in TakenLines(file) :
      /\ file.lines[i] = Says(n, 1)
      /\ \A j \in TakenLines(file) : j > i => file.lines[j] # Says(n, 0)}

(* Mutant: a number out of range ends the reading but not the run.          *)
ReadLockFileGoesOn ==
  /\ pc = "idle" /\ runs < MaxRuns
  /\ runs' = runs + 1
  /\ lockFile' \in LockFiles
  /\ lockBuf' = Listed(lockFile')
  /\ pc' = "lockEnable" /\ result' = "none"
  /\ UNCHANGED <<device, image, mac, buffer, count, tries>>

ReadLockFile ==
  /\ pc = "idle" /\ runs < MaxRuns
  /\ runs' = runs + 1
  /\ lockFile' \in LockFiles
  /\ lockBuf' = Listed(lockFile')
  /\ IF Rejected(lockFile') THEN EndRun("rejected")
                            ELSE pc' = "lockEnable" /\ result' = "none"
  /\ UNCHANGED <<device, image, mac, buffer, count, tries>>

LockEnable ==
  /\ pc = "lockEnable"
  /\ allow' = TRUE
  /\ pc' = "lockWord" /\ count' = 0
  /\ UNCHANGED <<otp, locked, input, tries, result, runs>>

(* Neither the busy flag nor the outcome is looked at.                      *)
LockWrite ==
  /\ pc = "lockWord"
  /\ locked' \in {locked, locked \cup ({count} \cap lockBuf)}
  /\ count' = count + 1
  /\ pc' = IF count + 1 = LockNum THEN "lockDisable" ELSE pc
  /\ UNCHANGED <<otp, allow, input, tries, result, runs>>

LockDisable ==
  /\ pc = "lockDisable"
  /\ allow' = FALSE
  /\ EndRun("locked")
  /\ UNCHANGED <<otp, locked, input, count, tries, runs>>

WriteInvmLockBits == LockEnable \/ LockWrite \/ LockDisable

-----------------------------------------------------------------------------
Stop ==
  /\ pc' = "idle"
  /\ result' = IF pc = "idle" THEN result ELSE "killed"
  /\ UNCHANGED <<otp, locked, input, count, tries, runs>>

Kill ==
  /\ pc # "idle"
  /\ Stop
  /\ UNCHANGED allow

PowerLoss ==
  /\ pc # "idle" \/ allow
  /\ Stop
  /\ allow' = FALSE

Start == ReadRawOtpFile \/ ReadLockFile
ToolStep == WriteBufferToOtp \/ WriteInvmLockBits

Next == Start \/ ToolStep \/ Kill \/ PowerLoss

Spec == Init /\ [][Next]_vars

(* A started run goes on; nobody has to start one.                          *)
FairSpec == Spec /\ WF_vars(ToolStep)

-----------------------------------------------------------------------------
(* Properties.                                                              *)

(* Every variable stays in its type; in particular the retry loop of        *)
(* WriteBufferToOtp makes at most Tries attempts and no index leaves the    *)
(* memory.                                                                  *)
TypeOK ==
  /\ otp \in Contents /\ locked \subseteq Locks /\ allow \in BOOLEAN
  /\ pc \in {"idle", "check"} \cup Burning \cup Locking
  /\ image \in Contents /\ mac \in BOOLEAN /\ buffer \in Contents
  /\ lockBuf \subseteq Locks
  /\ count \in Nat /\ tries \in 0..Tries
  /\ pc = "word" => count \in Word
  /\ pc = "lockWord" => count \in Locks
  /\ result \in Results /\ runs \in 0..MaxRuns

(* "Programming successful!" or "Already programmed with the same data.":   *)
(* every word the tool may use holds exactly what it was to hold, whatever  *)
(* the hardware made of the single writes and whatever earlier, killed runs *)
(* had burnt (WriteBufferToOtp).                                            *)
SuccessIsProgrammed ==
  result \in {"programmed", "already"} => \A w \in Word : otp[w] = buffer[w]

(* A run that was interrupted, or gave a word up, has burnt nothing that    *)
(* CheckOtpState would refuse the next time the same file is programmed.    *)
Resumable ==
  pc \in Burning => \A w \in Word : otp[w] \subseteq buffer[w]

(* When a MAC address is programmed its three structures lie in order in    *)
(* words the tool programs that the file left empty, and no word of the     *)
(* file has changed (ReadRawOtpFile).                                       *)
MacPlaced ==
  pc \in {"check"} \cup Burning /\ mac =>
    /\ \A w \in Word : image[w] # {} => buffer[w] = image[w]
    /\ \E l, m, h \in Word :
         /\ l < m /\ m < h
         /\ \A w \in {l, m, h} : image[w] = {}
         /\ <<buffer[l], buffer[m], buffer[h]>> = MacWords

(* A run that wrote to the memory and was not killed leaves writing off,    *)
(* "to prevent accidental writes", also when a word could not be written.   *)
WritingOff == pc = "idle" /\ result \in {"programmed", "failed", "locked"} => ~allow

(* A lock bit is burnt, for good, only if a complete line of the file asks  *)
(* for it, and never from a file in which a number out of range was read    *)
(* (WriteInvmLockBits).                                                     *)
LockedAsListed ==
  [][\A n \in locked' \ locked :
       /\ ~Rejected(lockFile)
       /\ \E i \in LinesRead(lockFile) : lockFile.lines[i] = Says(n, 1)]_vars

(* A run that was started ends, however often the memory stays busy.        *)
RunEnds == pc # "idle" ~> pc = "idle"

(* Word by word, through failures, the tool implements OneTimeStore.        *)
Front(b) == [w \in Word |-> b[w]]
Store == INSTANCE OneTimeStore WITH
  store <- Front(otp), image <- Front(buffer), open <- pc \in Burning,
  success <- pc = "idle" /\ result \in {"programmed", "already"}
StoreSpec == Store!Spec
=============================================================================
