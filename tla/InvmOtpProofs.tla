--------------------------- MODULE InvmOtpProofs ---------------------------
(***************************************************************************)
(* Proofs about InvmOtp for memories and words of any size, any number of  *)
(* attempts and of runs, any files and any MAC address.                    *)
(***************************************************************************)
EXTENDS InvmOtp, WellFoundedInduction, TLAPS

(* Up to the word being written the memory is as it is to be.               *)
WrittenSoFar ==
  pc = "word" => \A w \in Word : w < count => otp[w] = buffer[w]

(* A run has no result before its last step.                                *)
ResultPending == pc \in {"check", "enable", "word"} => result = "none"

IInv == TypeOK /\ WrittenSoFar /\ ResultPending /\ Resumable /\ SuccessIsProgrammed

-----------------------------------------------------------------------------
(* Counting through the words.                                              *)

LEMMA WordFacts ==
  /\ Usable \in Nat /\ 0 \in Word /\ Word \subseteq Index
  /\ \A c \in Word :
       /\ c \in Nat /\ c + 1 \in Nat
       /\ c + 1 # Usable => c + 1 \in Word
       /\ c + 1 = Usable => \A w \in Word : w < c \/ w = c
       /\ \A w \in Word : w < c + 1 => w < c \/ w = c
  /\ \A w \in Word : ~(w < 0)
  BY SizeAssumption DEF Usable, Word, Index

LEMMA LockFacts ==
  /\ 0 \in Locks
  /\ \A c \in Locks : c + 1 \in Nat /\ (c + 1 # LockNum => c + 1 \in Locks)
  BY SizeAssumption DEF Locks

LEMMA CounterFacts ==
  /\ 0 \in 0..Tries /\ 0 \in 0..MaxRuns
  /\ \A n \in 0..Tries : n < Tries => n + 1 \in 0..Tries
  /\ \A n \in 0..MaxRuns : n < MaxRuns => n + 1 \in 0..MaxRuns
  BY SizeAssumption

(* Placing the MAC address in an image gives an image.                      *)
LEMMA WithMacType ==
  ASSUME NEW b \in Contents
  PROVE  WithMac(b) \in Contents
<1>1. \A i \in 1..3 : MacWords[i] \in SUBSET Bits
  BY DataAssumption
<1>2. 1 \in 1..3 /\ 2 \in 1..3 /\ 3 \in 1..3
  OBVIOUS
<1>3. ASSUME NEW f \in Contents, NEW i, NEW word \in SUBSET Bits
      PROVE  [f EXCEPT ![i] = word] \in Contents
  BY <1>3 DEF Contents
<1>4. WithLow(b) \in Contents
  BY <1>1, <1>2, <1>3 DEF WithLow
<1>5. WithMid(b) \in Contents
  BY <1>1, <1>2, <1>3, <1>4 DEF WithMid
<1> QED
  BY <1>1, <1>2, <1>3, <1>5 DEF WithMac

-----------------------------------------------------------------------------
LEMMA InvInit == Init => IInv
<1> SUFFICES ASSUME Init PROVE IInv
  OBVIOUS
<1>1. Empty \in Contents
  BY DEF Empty, Contents
<1>2. TypeOK
  BY <1>1, CounterFacts DEF Init, TypeOK, Results, Burning, Locking
<1>3. WrittenSoFar /\ ResultPending /\ Resumable /\ SuccessIsProgrammed
  BY DEF Init, WrittenSoFar, ResultPending, Resumable, SuccessIsProgrammed, Burning
<1> QED
  BY <1>2, <1>3 DEF IInv

(* Starting a run keeps the types.                                          *)
LEMMA TypeStart ==
  ASSUME TypeOK, Start
  PROVE  TypeOK'
<1> USE DEF TypeOK, EndRun, device, Results, Burning, Locking
<1>1. CASE ReadRawOtpFile
  <2>1. CASE UNCHANGED <<image, mac, buffer>> /\ EndRun("noFile")
    BY <1>1, <2>1, CounterFacts DEF ReadRawOtpFile
  <2>2. CASE /\ image' \in Images /\ mac' \in BOOLEAN
             /\ buffer' = IF mac' THEN WithMac(image') ELSE image'
             /\ IF mac' /\ ~MacFits(image')
                THEN EndRun("noRoom")
                ELSE pc' = "check" /\ result' = "none"
    <3>1. image' \in Contents /\ buffer' \in Contents
      BY <2>2, WithMacType, DataAssumption
    <3> QED
      BY <1>1, <2>2, <3>1, CounterFacts DEF ReadRawOtpFile
  <2> QED
    BY <1>1, <2>1, <2>2 DEF ReadRawOtpFile
<1>2. CASE ReadLockFile
  <2>1. lockBuf' \subseteq Locks
    BY <1>2 DEF ReadLockFile, Listed
  <2> QED
    BY <1>2, <2>1, CounterFacts DEF ReadLockFile
<1> QED
  BY <1>1, <1>2 DEF Start

(* A step of the programming or of the locking keeps the types.             *)
LEMMA TypeTool ==
  ASSUME TypeOK, ToolStep
  PROVE  TypeOK'
<1> USE DEF TypeOK, EndRun, device, input, Results, Burning, Locking
<1>1. CASE Check
  BY <1>1 DEF Check
<1>2. CASE Enable
  BY <1>2, WordFacts, CounterFacts DEF Enable
<1>3. CASE WordDone
  BY <1>3, WordFacts, CounterFacts DEF WordDone, Advance
<1>4. CASE WordTry
  <2>1. otp' \in Contents
    <3>1. PICK burnt \in SUBSET buffer[count] : otp' = [otp EXCEPT ![count] = @ \cup burnt]
      BY <1>4 DEF WordTry
    <3>2. count \in Index
      BY <1>4, WordFacts DEF WordTry
    <3>3. otp[count] \cup burnt \in SUBSET Bits
      BY <3>1, <3>2 DEF Contents
    <3> QED
      BY <3>1, <3>2, <3>3 DEF Contents
  <2> QED
    BY <1>4, <2>1, CounterFacts DEF WordTry
<1>5. CASE WordFailed
  BY <1>5 DEF WordFailed
<1>6. CASE Disable
  BY <1>6 DEF Disable
<1>7. CASE LockEnable
  BY <1>7, LockFacts DEF LockEnable
<1>8. CASE LockWrite
  <2>1. locked' \subseteq Locks
    BY <1>8 DEF LockWrite
  <2> QED
    BY <1>8, <2>1, LockFacts DEF LockWrite
<1>9. CASE LockDisable
  BY <1>9 DEF LockDisable
<1> QED
  BY <1>1, <1>2, <1>3, <1>4, <1>5, <1>6, <1>7, <1>8, <1>9
     DEF ToolStep, WriteBufferToOtp, WriteInvmLockBits

LEMMA TypeNext == TypeOK /\ [Next]_vars => TypeOK'
<1> SUFFICES ASSUME TypeOK, [Next]_vars PROVE TypeOK'
  OBVIOUS
<1>1. CASE Kill \/ PowerLoss
  BY <1>1 DEF Kill, PowerLoss, Stop, TypeOK, input, Results
<1>2. CASE UNCHANGED vars
  BY <1>2 DEF vars, device, input, TypeOK
<1> QED
  BY <1>1, <1>2, TypeStart, TypeTool DEF Next

(* TypeOK holds of every behaviour.                                         *)
THEOREM TypeCorrect == Spec => []TypeOK
<1>1. Init => TypeOK
  BY InvInit DEF IInv
<1> QED
  BY <1>1, TypeNext, PTL DEF Spec

-----------------------------------------------------------------------------
(* What is burnt is what was to be burnt.                                   *)

(* The check admits a run only if everything burnt belongs to its image.    *)
LEMMA CheckAdmits ==
  ASSUME TypeOK, Check
  PROVE  \/ pc' = "enable" /\ UNCHANGED result /\ \A w \in Word : otp[w] \subseteq buffer[w]
         \/ pc' = "idle" /\ result' = "already" /\ \A w \in Word : otp[w] = buffer[w]
         \/ pc' = "idle" /\ result' = "refused"
<1>1. CASE CheckOtpState = "programmed"
  BY <1>1 DEF Check, CheckOtpState, EndRun
<1>2. CASE CheckOtpState = "nonoverwritable"
  BY <1>2 DEF Check, EndRun
<1>3. CASE CheckOtpState \notin {"programmed", "nonoverwritable"}
  BY <1>3 DEF Check, CheckOtpState
<1> QED
  BY <1>1, <1>2, <1>3

(* An attempt burns bits of the image into the word being written and       *)
(* touches no other.                                                        *)
LEMMA TryBurns ==
  ASSUME TypeOK, WordTry
  PROVE  /\ \A w \in Word : w # count => otp'[w] = otp[w]
         /\ \A w \in Word : otp[w] \subseteq otp'[w]
         /\ \A w \in Word : otp[w] \subseteq buffer[w] => otp'[w] \subseteq buffer[w]
<1>1. PICK burnt \in SUBSET buffer[count] : otp' = [otp EXCEPT ![count] = @ \cup burnt]
  BY DEF WordTry
<1>2. \A w \in Word : otp'[w] = IF w = count THEN otp[w] \cup burnt ELSE otp[w]
  BY <1>1, WordFacts DEF TypeOK, Contents
<1> QED
  BY <1>1, <1>2

LEMMA InvNext == IInv /\ [Next]_vars => IInv'
<1> SUFFICES ASSUME IInv, [Next]_vars PROVE IInv'
  OBVIOUS
<1>1. TypeOK'
  BY TypeNext DEF IInv
<1> USE DEF IInv, WrittenSoFar, ResultPending, Resumable, SuccessIsProgrammed,
        Burning, Locking, EndRun, device, input
<1>2. CASE Start
  <2>1. CASE ReadRawOtpFile
    BY <1>1, <2>1 DEF ReadRawOtpFile
  <2>2. CASE ReadLockFile
    BY <1>1, <2>2 DEF ReadLockFile
  <2> QED
    BY <1>2, <2>1, <2>2 DEF Start
<1>3. CASE Check
  BY <1>1, <1>3, CheckAdmits DEF Check
<1>4. CASE Enable
  BY <1>1, <1>4, WordFacts DEF Enable
<1>5. CASE WordDone
  BY <1>1, <1>5, WordFacts DEF WordDone, Advance, TypeOK
<1>6. CASE WordTry
  <2>1. \A w \in Word : w < count => w # count
    BY <1>6, WordFacts DEF WordTry, TypeOK
  <2> QED
    BY <1>1, <1>6, <2>1, TryBurns DEF WordTry
<1>7. CASE WordFailed \/ Disable
  BY <1>1, <1>7 DEF WordFailed, Disable
<1>8. CASE LockEnable \/ LockWrite \/ LockDisable
  BY <1>1, <1>8 DEF LockEnable, LockWrite, LockDisable
<1>9. CASE Kill \/ PowerLoss
  BY <1>1, <1>9 DEF Kill, PowerLoss, Stop
<1>10. CASE UNCHANGED vars
  BY <1>1, <1>10 DEF vars
<1> QED
  BY <1>2, <1>3, <1>4, <1>5, <1>6, <1>7, <1>8, <1>9, <1>10
     DEF Next, ToolStep, WriteBufferToOtp, WriteInvmLockBits

LEMMA Invariant == Spec => []IInv
  BY InvInit, InvNext, PTL DEF Spec

(* A run that reports success has programmed every usable word.             *)
THEOREM SuccessMeansProgrammed == Spec => []SuccessIsProgrammed
<1>1. IInv => SuccessIsProgrammed
  BY DEF IInv
<1> QED
  BY <1>1, Invariant, PTL

(* A run that does not finish can be repeated with the same file.           *)
THEOREM InterruptedRunsResume == Spec => []Resumable
<1>1. IInv => Resumable
  BY DEF IInv
<1> QED
  BY <1>1, Invariant, PTL

-----------------------------------------------------------------------------
(* Writing is off when a run has ended.                                     *)

LEMMA OffNext == WritingOff /\ [Next]_vars => WritingOff'
<1> SUFFICES ASSUME WritingOff, [Next]_vars PROVE WritingOff'
  OBVIOUS
<1> USE DEF WritingOff, EndRun, device
<1>1. CASE Start
  BY <1>1 DEF Start, ReadRawOtpFile, ReadLockFile
<1>2. CASE Check
  <2>1. pc' = "enable" \/ result' \in {"already", "refused"}
    <3>1. CASE CheckOtpState = "programmed"
      BY <1>2, <3>1 DEF Check, CheckOtpState
    <3>2. CASE CheckOtpState = "nonoverwritable"
      BY <1>2, <3>2 DEF Check
    <3>3. CASE CheckOtpState \notin {"programmed", "nonoverwritable"}
      BY <1>2, <3>3 DEF Check, CheckOtpState
    <3> QED
      BY <3>1, <3>2, <3>3
  <2> QED
    BY <2>1
<1>3. CASE Enable \/ WordDone \/ WordTry \/ WordFailed \/ Disable
  BY <1>3 DEF Enable, WordDone, Advance, WordTry, WordFailed, Disable
<1>4. CASE LockEnable \/ LockWrite \/ LockDisable
  BY <1>4 DEF LockEnable, LockWrite, LockDisable
<1>5. CASE Kill \/ PowerLoss
  BY <1>5 DEF Kill, PowerLoss, Stop
<1>6. CASE UNCHANGED vars
  BY <1>6 DEF vars
<1> QED
  BY <1>1, <1>2, <1>3, <1>4, <1>5, <1>6
     DEF Next, ToolStep, WriteBufferToOtp, WriteInvmLockBits

(* A run that was not killed and has written to the memory, or tried to,    *)
(* leaves it closed, whatever code word the hardware took.                  *)
THEOREM RunsEndClosed == Spec => []WritingOff
<1>1. Init => WritingOff
  BY DEF Init, WritingOff
<1> QED
  BY <1>1, OffNext, PTL DEF Spec

-----------------------------------------------------------------------------
(* While the tool locks, it follows the file it has read.                   *)
LockInv == pc \in Locking => lockBuf = Listed(lockFile) /\ ~Rejected(lockFile)

LEMMA LockNext == LockInv /\ [Next]_vars => LockInv'
<1> SUFFICES ASSUME LockInv, [Next]_vars PROVE LockInv'
  OBVIOUS
<1> USE DEF LockInv, Locking, EndRun, Stop, input
<1>1. CASE ReadRawOtpFile
  BY <1>1 DEF ReadRawOtpFile
<1>2. CASE ReadLockFile
  BY <1>2 DEF ReadLockFile
<1>3. CASE WriteBufferToOtp
  BY <1>3 DEF WriteBufferToOtp, Check, Enable, WordDone, Advance, WordTry, WordFailed, Disable
<1>4. CASE LockEnable \/ LockWrite \/ LockDisable
  BY <1>4 DEF LockEnable, LockWrite, LockDisable
<1>5. CASE Kill \/ PowerLoss
  BY <1>5 DEF Kill, PowerLoss
<1>6. CASE UNCHANGED vars
  BY <1>6 DEF vars
<1> QED
  BY <1>1, <1>2, <1>3, <1>4, <1>5, <1>6 DEF Next, Start, ToolStep, WriteInvmLockBits

(* A lock bit is burnt only if a line that was read asks for it, and never  *)
(* from a file with a number out of range, for any file (WriteInvmLockBits).*)
THEOREM LocksAsListed == Spec => LockedAsListed
<1>1. ASSUME LockInv, [Next]_vars, NEW n \in locked' \ locked
      PROVE  /\ ~Rejected(lockFile)
             /\ \E i \in LinesRead(lockFile) : lockFile.lines[i] = Says(n, 1)
  <2>1. LockWrite
    BY <1>1 DEF Next, Start, ToolStep, ReadRawOtpFile, ReadLockFile, WriteBufferToOtp, Check, Enable,
       WordDone, Advance, WordTry, WordFailed, Disable, WriteInvmLockBits, LockEnable, LockDisable,
       Kill, PowerLoss, Stop, vars, device
  <2>2. n \in Listed(lockFile) /\ ~Rejected(lockFile)
    BY <1>1, <2>1 DEF LockWrite, LockInv, Locking
  <2> QED
    BY <2>2 DEF Listed, TakenLines
<1>2. Init => LockInv
  BY DEF Init, LockInv, Locking
<1>3. LockInv /\ [Next]_vars =>
        [\A n \in locked' \ locked :
           /\ ~Rejected(lockFile)
           /\ \E i \in LinesRead(lockFile) : lockFile.lines[i] = Says(n, 1)]_vars
  BY <1>1
<1> QED
  BY <1>2, <1>3, LockNext, PTL DEF Spec, LockedAsListed

-----------------------------------------------------------------------------
(* The MAC address among the words of the file.                             *)

LEMMA LeastOf ==
  ASSUME NEW T, T \subseteq Nat, T # {}
  PROVE  \E x \in T : \A y \in T : x <= y
<1> DEFINE R == {ss \in Nat \X Nat : ss[1] < ss[2]}
<1>1. IsWellFoundedOn(R, Nat)
  BY NatLessThanWellFounded DEF OpToRel
<1>2. \A x, y \in Nat : y < x => <<y, x>> \in R
  OBVIOUS
<1> HIDE DEF R
<1>3. PICK x \in T : \A y \in T : ~(<<y, x>> \in R)
  BY <1>1, WFMin
<1>4. ASSUME NEW y \in T PROVE x <= y
  <2>1. x \in Nat /\ y \in Nat
    OBVIOUS
  <2>2. ~(y < x)
    BY <1>2, <1>3, <2>1
  <2> QED
    BY <2>1, <2>2
<1> QED
  BY <1>4

(* The search finds the first word from "from" that is zero, or ends at the *)
(* last word.                                                               *)
LEMMA EmptySlotIs ==
  ASSUME NEW b, NEW from \in Index
  PROVE  /\ EmptySlot(b, from) \in Index /\ from <= EmptySlot(b, from)
         /\ EmptySlot(b, from) = NumWords - 1 \/ b[EmptySlot(b, from)] = {}
<1> DEFINE T == {i \in from..(NumWords - 1) : i = NumWords - 1 \/ b[i] = {}}
<1>1. from \in Nat /\ NumWords \in Nat /\ from <= NumWords - 1
  BY SizeAssumption DEF Index
<1>2. T \subseteq Nat /\ NumWords - 1 \in T
  BY <1>1
<1>3. PICK x \in T : \A y \in T : x <= y
  <2> HIDE DEF T
  <2> QED
    BY <1>2, LeastOf
<1>4. x \in from..(NumWords - 1) /\ (x = NumWords - 1 \/ b[x] = {})
  BY <1>3
<1>5. \A k \in from..(x - 1) : b[k] # {}
  <2> SUFFICES ASSUME NEW k \in from..(x - 1), b[k] = {} PROVE FALSE
    OBVIOUS
  <2>1. k \in T /\ k < x
    BY <1>1, <1>4
  <2> QED
    BY <1>1, <1>3, <1>4, <2>1
<1>6. /\ EmptySlot(b, from) \in from..(NumWords - 1)
      /\ EmptySlot(b, from) = NumWords - 1 \/ b[EmptySlot(b, from)] = {}
  BY <1>4, <1>5 DEF EmptySlot
<1> QED
  BY <1>1, <1>6 DEF Index

LEMMA WithMacPlaces ==
  ASSUME HardwareUsage <= 3, \A i \in 1..3 : MacWords[i] # {},
         NEW b \in Contents, MacFits(b)
  PROVE  /\ \A w \in Word : b[w] # {} => WithMac(b)[w] = b[w]
         /\ \E l, m, h \in Word :
              /\ l < m /\ m < h
              /\ \A w \in {l, m, h} : b[w] = {}
              /\ <<WithMac(b)[l], WithMac(b)[m], WithMac(b)[h]>> = MacWords
<1> DEFINE l == Low(b)
           m == Mid(b)
           h == High(b)
<1>1. 0 \in Index /\ NumWords \in Nat /\ \A i \in Index : i \in Nat /\ i <= NumWords - 1
  BY SizeAssumption DEF Index
<1>2. l \in Index /\ (l = NumWords - 1 \/ b[l] = {})
  BY <1>1, EmptySlotIs DEF Low
<1>3. m \in Index /\ l <= m /\ (m = NumWords - 1 \/ WithLow(b)[m] = {})
  BY <1>2, EmptySlotIs DEF Mid
<1>4. h \in Index /\ m <= h /\ (h = NumWords - 1 \/ WithMid(b)[h] = {})
  BY <1>3, EmptySlotIs DEF High
<1>5. h < NumWords - 3
  BY DEF MacFits
<1> HIDE DEF l, m, h
<1>6. b[l] = {} /\ WithLow(b)[m] = {} /\ WithMid(b)[h] = {}
  BY <1>1, <1>2, <1>3, <1>4, <1>5
<1>7. \A i \in 1..3 : MacWords[i] # {} /\ MacWords[i] \in SUBSET Bits
  BY DataAssumption
<1>8. /\ WithLow(b) \in Contents
      /\ \A w \in Index : WithLow(b)[w] = IF w = l THEN MacWords[1] ELSE b[w]
  BY <1>2, <1>7 DEF WithLow, Contents, l
<1>9. l < m /\ b[m] = {}
  BY <1>1, <1>2, <1>3, <1>6, <1>7, <1>8
<1>10. /\ WithMid(b) \in Contents
       /\ \A w \in Index : WithMid(b)[w] = IF w = m THEN MacWords[2] ELSE WithLow(b)[w]
  BY <1>3, <1>7, <1>8 DEF WithMid, Contents, m
<1>11. m < h
  BY <1>1, <1>3, <1>4, <1>6, <1>7, <1>10
<1>12. b[h] = {}
  BY <1>1, <1>2, <1>3, <1>4, <1>6, <1>8, <1>9, <1>10, <1>11
<1>13. \A w \in Index : WithMac(b)[w] = IF w = h THEN MacWords[3] ELSE WithMid(b)[w]
  BY <1>4, <1>7, <1>10 DEF WithMac, Contents, h
<1>14. l \in Word /\ m \in Word /\ h \in Word
  BY <1>1, <1>2, <1>3, <1>4, <1>5, <1>9, <1>11, SizeAssumption DEF Word, Usable
<1>15. /\ WithMac(b)[l] = MacWords[1] /\ WithMac(b)[m] = MacWords[2]
       /\ WithMac(b)[h] = MacWords[3]
  BY <1>1, <1>2, <1>3, <1>4, <1>8, <1>9, <1>10, <1>11, <1>13
<1>16. <<MacWords[1], MacWords[2], MacWords[3]>> = MacWords
  BY DataAssumption
<1>17. \A w \in Word : b[w] # {} => WithMac(b)[w] = b[w]
  BY <1>6, <1>8, <1>9, <1>10, <1>12, <1>13, WordFacts
<1> QED
  BY <1>6, <1>9, <1>11, <1>12, <1>14, <1>15, <1>16, <1>17

(* Every MAC address that is programmed is placed in order in words that    *)
(* the file leaves empty and the tool programs, and changes no word of the  *)
(* file: for at most three words of the hardware, and MAC structures that   *)
(* are not zero (their type bits never are).                                *)
THEOREM MacIsPlaced ==
  ASSUME HardwareUsage <= 3, \A i \in 1..3 : MacWords[i] # {}
  PROVE  Spec => []MacPlaced
<1>1. Init => MacPlaced
  BY DEF Init, MacPlaced, Burning
<1>2. MacPlaced /\ [Next]_vars => MacPlaced'
  <2> SUFFICES ASSUME MacPlaced, [Next]_vars, pc' \in {"check"} \cup Burning, mac'
               PROVE  (/\ \A w \in Word : image[w] # {} => buffer[w] = image[w]
                       /\ \E l, m, h \in Word :
                            /\ l < m /\ m < h
                            /\ \A w \in {l, m, h} : image[w] = {}
                            /\ <<buffer[l], buffer[m], buffer[h]>> = MacWords)'
    BY DEF MacPlaced
  <2>1. CASE ReadRawOtpFile
    <3>1. /\ image' \in Images /\ buffer' = WithMac(image') /\ MacFits(image')
      BY <2>1 DEF ReadRawOtpFile, EndRun, Burning
    <3>2. image' \in Contents
      BY <3>1, DataAssumption
    <3> QED
      BY <3>1, <3>2, WithMacPlaces
  <2>2. CASE ~ReadRawOtpFile
    <3>1. UNCHANGED <<image, mac, buffer>> /\ pc \in {"check"} \cup Burning
      BY <2>2 DEF Next, Start, ReadLockFile, ToolStep, WriteBufferToOtp, WriteInvmLockBits,
                  Check, Enable, WordDone, Advance, WordTry, WordFailed, Disable,
                  LockEnable, LockWrite, LockDisable, Kill, PowerLoss, Stop, EndRun,
                  vars, input, Burning
    <3> QED
      BY <3>1 DEF MacPlaced
  <2> QED
    BY <2>1, <2>2
<1> QED
  BY <1>1, <1>2, PTL DEF Spec

-----------------------------------------------------------------------------
(* The refinement of OneTimeStore.                                          *)

LEMMA FrontType ==
  ASSUME NEW b \in Contents
  PROVE  Front(b) \in Store!Contents
  BY WordFacts DEF Front, Contents, Store!Contents

(* What the tool does on the registers is a step of the store, or none.     *)
THEOREM ImplementsStore == Spec => StoreSpec
<1>1. Init => Store!Init
  <2> SUFFICES ASSUME Init PROVE Store!Init
    OBVIOUS
  <2>1. otp \in Contents /\ buffer \in Contents
    BY InvInit DEF IInv, TypeOK
  <2> QED
    BY <2>1, FrontType DEF Init, Store!Init, Burning
<1>2. ASSUME IInv, IInv', [Next]_vars
      PROVE  [Store!Next]_(Store!vars)
  <2>1. /\ Front(otp) \in Store!Contents /\ Front(otp)' \in Store!Contents
        /\ Front(buffer) \in Store!Contents /\ Front(buffer)' \in Store!Contents
    <3>1. otp' \in Contents /\ buffer' \in Contents
      BY <1>2 DEF IInv, TypeOK
    <3>2. Front(otp') \in Store!Contents /\ Front(buffer') \in Store!Contents
      BY <3>1, FrontType
    <3> QED
      BY <1>2, <3>2, FrontType DEF IInv, TypeOK, Front
  <2> USE DEF Store!vars, EndRun, Burning, Locking, device, input
  <2>2. CASE Start
    <3>1. Store!Propose
      BY <2>1, <2>2 DEF Start, ReadRawOtpFile, ReadLockFile, Front, Store!Propose
    <3> QED
      BY <3>1 DEF Store!Next
  <2>3. CASE Check
    <3>1. UNCHANGED <<Front(otp), Front(buffer)>>
      BY <2>3 DEF Check, Front
    <3>2. CASE pc' = "enable" /\ UNCHANGED result /\ \A w \in Word : otp[w] \subseteq buffer[w]
      <4>1. Store!Within(Front(otp), Front(buffer))
        BY <3>2 DEF Store!Within, Front
      <4> QED
        BY <1>2, <2>3, <3>1, <3>2, <4>1 DEF Check, IInv, ResultPending, Store!Accept, Store!Next
    <3>3. CASE pc' = "idle" /\ result' = "already" /\ \A w \in Word : otp[w] = buffer[w]
      <4>1. Front(otp) = Front(buffer)
        BY <3>3 DEF Front
      <4> QED
        BY <2>3, <3>1, <3>3, <4>1 DEF Check, Store!Succeed, Store!Next
    <3>4. CASE pc' = "idle" /\ result' = "refused"
      BY <2>3, <3>1, <3>4 DEF Check, Store!Next
    <3> QED
      BY <1>2, <2>3, <3>2, <3>3, <3>4, CheckAdmits DEF IInv
  <2>4. CASE WordTry
    <3>1. Store!Within(Front(otp), Front(otp)')
      BY <1>2, <2>4, TryBurns DEF IInv, Store!Within, Front
    <3>2. Store!Within(Front(otp)', Front(buffer))
      BY <1>2, <2>4, TryBurns DEF WordTry, IInv, Resumable, Store!Within, Front
    <3>3. UNCHANGED Front(buffer)
      BY <2>4 DEF WordTry, Front
    <3> QED
      BY <2>1, <2>4, <3>1, <3>2, <3>3 DEF WordTry, Store!Burn, Store!Next
  <2>5. CASE Disable
    <3>1. UNCHANGED <<Front(otp), Front(buffer)>>
      BY <2>5 DEF Disable, Front
    <3>2. CASE result \in {"programmed", "already"}
      <4>1. Front(otp) = Front(buffer)
        BY <1>2, <3>2 DEF IInv, SuccessIsProgrammed, Front
      <4> QED
        BY <2>5, <3>1, <3>2, <4>1 DEF Disable, Store!Succeed, Store!Next
    <3>3. CASE result \notin {"programmed", "already"}
      BY <2>5, <3>1, <3>3 DEF Disable, Store!Abandon, Store!Next
    <3> QED
      BY <3>2, <3>3
  <2>6. CASE Enable \/ WordDone \/ WordFailed
    BY <2>6 DEF Enable, WordDone, Advance, WordFailed, Front
  <2>7. CASE LockEnable \/ LockWrite \/ LockDisable
    BY <1>2, <2>7 DEF LockEnable, LockWrite, LockDisable, Front
  <2>8. CASE Kill \/ PowerLoss
    <3>1. UNCHANGED <<Front(otp), Front(buffer)>>
      BY <2>8 DEF Kill, PowerLoss, Stop, Front
    <3> QED
      BY <2>8, <3>1 DEF Kill, PowerLoss, Stop, Store!Abandon, Store!Next
  <2>9. CASE UNCHANGED vars
    BY <2>9 DEF vars, Front
  <2> QED
    BY <1>2, <2>2, <2>3, <2>4, <2>5, <2>6, <2>7, <2>8, <2>9
       DEF Next, ToolStep, WriteBufferToOtp, WriteInvmLockBits
<1> QED
  BY <1>1, <1>2, Invariant, PTL DEF Spec, StoreSpec, Store!Spec
=============================================================================
