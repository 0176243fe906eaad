------------------------- MODULE FlashProgramProofs -------------------------
(***************************************************************************)
(* Proofs about FlashProgram for flashes, bursts, lines, sectors and files *)
(* of any size and any number of runs.                                     *)
(***************************************************************************)
EXTENDS FlashProgram, TLAPS

LEMMA SizeFacts ==
  /\ WordSize \in Nat /\ WordSize > 0 /\ BurstSize \in Nat /\ BurstSize > 0
  /\ LineWords \in Nat /\ LineWords > 0 /\ MacLen \in Nat /\ MacLen > 0
  /\ SectorWords \in Nat /\ SectorWords > 0
  /\ MacLen <= BurstSize /\ MacLen <= ChecksumReg
  /\ ChecksumReg \in Index /\ ChecksumReg \in Nat /\ ChecksumReg > 0
  /\ 0 \in Index /\ MaxRuns \in Nat
  BY SizeAssumption DEF Index

-----------------------------------------------------------------------------
(* Counting in bursts.                                                      *)

LEMMA Products ==
  ASSUME NEW a \in Nat, NEW b \in Nat, NEW n \in Nat, n > 0
  PROVE  /\ a * n \in Nat
         /\ a < b <=> a * n < b * n
         /\ a <= b <=> a * n <= b * n
         /\ a + 1 \in Nat /\ (a + 1) * n = a * n + n
<1>1. \A c \in Nat : c * n \in Nat
  OBVIOUS
<1>2. (a + 1) * n = a * n + n
  OBVIOUS
<1>3. ASSUME NEW x \in Nat, NEW y \in Nat, x < y
      PROVE  x * n + n <= y * n
  <2>1. PICK d \in Nat : y = x + 1 + d
    <3>1. y - (x + 1) \in Nat /\ y = x + 1 + (y - (x + 1))
      BY <1>3
    <3> QED
      BY <3>1
  <2>2. y * n = x * n + n + d * n
    BY <2>1
  <2> QED
    BY <1>1, <2>2
<1>4. a < b => a * n < b * n
  BY <1>1, <1>3
<1>5. b < a => b * n < a * n
  BY <1>1, <1>3
<1>6. a = b => a * n = b * n
  OBVIOUS
<1>7. a * n \in Nat /\ b * n \in Nat
  BY <1>1
<1> QED
  BY <1>2, <1>4, <1>5, <1>6, <1>7

LEMMA Quotient ==
  ASSUME NEW a \in Nat, NEW n \in Nat, n > 0
  PROVE  /\ a \div n \in Nat
         /\ (a \div n) * n <= a
         /\ a < (a \div n) * n + n
  OBVIOUS

LEMMA WholeBursts == \E n \in Nat : WordSize = n * BurstSize
<1>1. WordSize % BurstSize = 0
  BY SizeAssumption
<1>2. WordSize = (WordSize \div BurstSize) * BurstSize
  BY <1>1, SizeFacts
<1>3. WordSize \div BurstSize \in Nat
  BY SizeFacts, Quotient
<1> QED
  BY <1>2, <1>3

(* The offset of a burst is a multiple of BurstSize that is in the flash.   *)
BurstStart(o) == \E k \in Nat : o = k * BurstSize

LEMMA BurstFacts ==
  /\ BurstStart(0)
  /\ \A o \in Nat : BurstStart(o) => BurstStart(o + BurstSize)
  /\ \A o \in Nat : BurstStart(o) /\ o < WordSize => o + BurstSize <= WordSize
  /\ 0 + BurstSize <= WordSize
<1>1. BurstStart(0)
  <2>1. 0 = 0 * BurstSize
    BY SizeFacts
  <2> QED
    BY <2>1 DEF BurstStart
<1>2. ASSUME NEW o \in Nat, BurstStart(o)
      PROVE  BurstStart(o + BurstSize) /\ (o < WordSize => o + BurstSize <= WordSize)
  <2>1. PICK k \in Nat : o = k * BurstSize
    BY <1>2 DEF BurstStart
  <2>2. PICK n \in Nat : WordSize = n * BurstSize
    BY WholeBursts
  <2>3. k + 1 \in Nat /\ o + BurstSize = (k + 1) * BurstSize
    BY <2>1, SizeFacts, Products
  <2>4. BurstStart(o + BurstSize)
    BY <2>3 DEF BurstStart
  <2>5. ASSUME o < WordSize PROVE o + BurstSize <= WordSize
    <3>1. k < n
      BY <2>1, <2>2, <2>5, SizeFacts, Products
    <3>2. k + 1 <= n
      BY <3>1
    <3> QED
      BY <2>2, <2>3, <3>2, SizeFacts, Products
  <2> QED
    BY <2>4, <2>5
<1>3. 0 + BurstSize <= WordSize
  BY <1>1, <1>2, SizeFacts
<1> QED
  BY <1>1, <1>2, <1>3

-----------------------------------------------------------------------------
(* Types.                                                                   *)

(* Besides TypeOK, bursts start at multiples of their size, the first at 0. *)
InBursts == /\ pc \in {"open", "burst", "update"} => BurstStart(j)
            /\ pc = "open" => j = 0

LEMMA ValueType ==
  ASSUME runs \in 0..MaxRuns
  PROVE  \A kind \in {"old", "test", "img", "mac", "sum"}, w \in Index : Value(kind, w) \in Values
  BY DEF Value, Values

(* What a burst writes is of the type of the flash.                         *)
LEMMA AfterBurstType ==
  ASSUME TypeOK
  PROVE  AfterBurst \in [Index -> SUBSET Values]
<1>1. ASSUME NEW w \in Index, InBurst(w)
      PROVE  LineWord(w - j) \subseteq Values
  <2>1. w - j \in Index /\ j + (w - j) = w
    BY <1>1, SizeFacts DEF InBurst, TypeOK, Index
  <2> QED
    BY <2>1, ValueType DEF LineWord, TypeOK
<1> QED
  BY <1>1 DEF AfterBurst, TypeOK

LEMMA TypeInit == Init => TypeOK /\ InBursts
<1> SUFFICES ASSUME Init PROVE TypeOK /\ InBursts
  OBVIOUS
<1>1. flash \in [Index -> SUBSET Values] /\ Erased \in [Index -> SUBSET Values]
  BY SizeFacts DEF Init, Erased, Values
<1>2. file \in Files /\ j \in 0..WordSize /\ runs \in 0..MaxRuns
  BY SizeFacts DEF Init, Files
<1> QED
  BY <1>1, <1>2 DEF Init, TypeOK, InBursts, Methods

(* Starting a run and looking for a way to write keep the types.            *)
LEMMA TypeSetup ==
  ASSUME TypeOK, InBursts, Start \/ SetupWriteMethod
  PROVE  TypeOK' /\ InBursts'
<1> USE DEF TypeOK, InBursts, command, Fails, Works
<1>1. CASE Start
  <2>1. runs' \in 0..MaxRuns
    BY <1>1, SizeFacts DEF Start
  <2> QED
    BY <1>1, <2>1 DEF Start, Methods
<1>2. Erased \in [Index -> SUBSET Values]
  BY DEF Erased
<1>3. CASE EraseNvm
  BY <1>2, <1>3 DEF EraseNvm
<1>4. CASE TestWrite
  <2>1. [flash EXCEPT ![0] = @ \cup {Value("test", 0)}] \in [Index -> SUBSET Values]
    BY SizeFacts, ValueType
  <2>2. flash' \in [Index -> SUBSET Values]
    BY <1>4, <2>1 DEF TestWrite
  <2> QED
    BY <1>4, <2>2 DEF TestWrite
<1>5. CASE TestRead
  BY <1>5 DEF TestRead, Methods
<1>6. CASE SectorErase
  <2>1. [w \in Index |-> IF w < SectorWords THEN {} ELSE flash[w]] \in [Index -> SUBSET Values]
    OBVIOUS
  <2>2. flash' \in [Index -> SUBSET Values]
    BY <1>6, <2>1 DEF SectorErase
  <2>3. j' = 0 /\ j' \in 0..WordSize /\ BurstStart(j')
    BY <1>6, SizeFacts, BurstFacts DEF SectorErase
  <2> QED
    BY <1>6, <2>2, <2>3 DEF SectorErase
<1> QED
  BY <1>1, <1>3, <1>4, <1>5, <1>6 DEF SetupWriteMethod

(* Writing the image keeps the types: a burst that starts below the size of *)
(* the file or of the flash ends within the flash.                          *)
LEMMA TypeWrite ==
  ASSUME TypeOK, InBursts, WriteNvm \/ Kill
  PROVE  TypeOK' /\ InBursts'
<1> USE DEF TypeOK, InBursts, command, Fails, Works
<1>1. CASE OpenFile
  BY <1>1, BurstFacts, SizeFacts DEF OpenFile
<1>2. CASE Burst
  <2>1. flash' \in [Index -> SUBSET Values]
    <3>1. AfterBurst \in [Index -> SUBSET Values]
      BY AfterBurstType
    <3>2. \A n \in 0..BurstSize :
            [w \in Index |-> IF w < j + n THEN AfterBurst[w] ELSE flash[w]] \in [Index -> SUBSET Values]
      BY <3>1
    <3> QED
      BY <1>2, <3>1, <3>2 DEF Burst
  <2>2. j \in Nat /\ j' = j + BurstSize /\ BurstStart(j) /\ j' \in Nat
    BY <1>2, SizeFacts DEF Burst
  <2>3. j' \in 0..WordSize
    BY <1>2, <2>2, SizeFacts DEF Burst
  <2>4. BurstStart(j')
    BY <2>2, BurstFacts
  <2>5. pc' = "burst" => j' + BurstSize <= WordSize
    <3>1. pc' = "burst" => j' < WordSize
      BY <1>2 DEF Burst
    <3> QED
      BY <2>2, <2>4, <3>1, BurstFacts
  <2> QED
    BY <1>2, <2>1, <2>3, <2>4, <2>5 DEF Burst
<1>3. CASE EndOfFile
  BY <1>3 DEF EndOfFile
<1>4. CASE UpdateSkipped
  BY <1>4 DEF UpdateSkipped
<1>5. CASE UpdateNvmChecksum
  <2> DEFINE sum == IF method \in working THEN {Value("sum", ChecksumReg)} ELSE {}
             written == [flash EXCEPT ![ChecksumReg] = @ \cup sum]
  <2>1. written \in [Index -> SUBSET Values]
    BY SizeFacts, ValueType
  <2>2. [w \in Index |-> IF w < ChecksumReg THEN flash[w] ELSE {}] \in [Index -> SUBSET Values]
    OBVIOUS
  <2>3. flash' \in [Index -> SUBSET Values] /\ summed' \in [Index -> SUBSET Values]
    BY <1>5, <2>1, <2>2 DEF UpdateNvmChecksum
  <2> QED
    BY <1>5, <2>3 DEF UpdateNvmChecksum
<1>6. CASE Kill
  BY <1>6 DEF Kill
<1> QED
  BY <1>1, <1>2, <1>3, <1>4, <1>5, <1>6 DEF WriteNvm

TypeInv == TypeOK /\ InBursts

LEMMA TypeStep == TypeInv /\ [Next]_vars => TypeInv'
<1> SUFFICES ASSUME TypeInv, [Next]_vars PROVE TypeInv'
  OBVIOUS
<1>1. CASE Start \/ SetupWriteMethod
  BY <1>1, TypeSetup DEF TypeInv
<1>2. CASE WriteNvm \/ Kill
  BY <1>2, TypeWrite DEF TypeInv
<1>3. CASE UNCHANGED vars
  BY <1>3 DEF vars, command, TypeInv, TypeOK, InBursts
<1> QED
  BY <1>1, <1>2, <1>3 DEF Next

(* Every variable stays in its type and no burst that WriteNvm writes runs  *)
(* past the end of the flash, whatever its size and that of the file.       *)
THEOREM TypeCorrect == Spec => []TypeOK
<1>1. Init => TypeInv
  BY TypeInit DEF TypeInv
<1>2. TypeInv => TypeOK
  BY DEF TypeInv
<1> QED
  BY <1>1, <1>2, TypeStep, PTL DEF Spec

-----------------------------------------------------------------------------
(* SetupWriteMethod finds out whether its method works.                     *)

(* What word 0 holds around a test, if no operation failed that matters.    *)
TestInv ==
  faults \subseteq {"cleanUp", "burst"} =>
    /\ pc = "testWrite" => flash[0] = {}
    /\ pc = "testRead" =>
         flash[0] = IF method \in working THEN {Value("test", 0)} ELSE {}
    /\ pc = "cleanUp" /\ result # "noMethod" => method \in working
    /\ pc \in {"open", "burst", "update"} => method \in working

LEMMA TestStep == TypeOK /\ TestInv /\ [Next]_vars => TestInv'
<1> SUFFICES ASSUME TypeOK, TestInv, [Next]_vars,
                    faults' \subseteq {"cleanUp", "burst"}
             PROVE  (/\ pc = "testWrite" => flash[0] = {}
                     /\ pc = "testRead" =>
                          flash[0] = IF method \in working THEN {Value("test", 0)} ELSE {}
                     /\ pc = "cleanUp" /\ result # "noMethod" => method \in working
                     /\ pc \in {"open", "burst", "update"} => method \in working)'
  BY DEF TestInv
<1> USE DEF Fails, Works, command
<1>1. CASE Start
  BY <1>1 DEF Start
<1>2. CASE EraseNvm
  <2>1. flash' = Erased /\ pc' = "testWrite"
    BY <1>2 DEF EraseNvm
  <2> QED
    BY <2>1, SizeFacts DEF Erased
<1>3. CASE TestWrite
  <2> DEFINE written == [flash EXCEPT ![0] = @ \cup {Value("test", 0)}]
  <2>1. faults' = faults /\ flash[0] = {}
    BY <1>3 DEF TestWrite, TestInv
  <2>2. flash' = IF method \in working THEN written ELSE flash
    BY <1>3 DEF TestWrite
  <2>3. written[0] = {Value("test", 0)}
    BY <2>1, SizeFacts DEF TypeOK
  <2>4. /\ pc' = "testRead" /\ UNCHANGED <<working, method, runs>>
        /\ Value("test", 0)' = Value("test", 0)
    BY <1>3 DEF TestWrite, Value
  <2> HIDE DEF written
  <2> QED
    BY <2>1, <2>2, <2>3, <2>4
<1>4. CASE TestRead
  <2>1. ReadsAsTest <=> method \in working
    <3>1. faults' = faults \/ faults' = faults \cup {"test"}
      BY <1>4 DEF TestRead
    <3>2. flash[0] = IF method \in working THEN {Value("test", 0)} ELSE {}
      BY <1>4, <3>1 DEF TestInv, TestRead
    <3>3. Value("test", 0).kind = "test"
      BY DEF Value
    <3> QED
      BY <3>2, <3>3 DEF ReadsAsTest
  <2>2. faults' = faults /\ flash' = flash /\ working' = working
    BY <1>4 DEF TestRead
  <2>3. CASE ReadsAsTest
    BY <1>4, <2>1, <2>2, <2>3 DEF TestRead
  <2>4. CASE ~ReadsAsTest
    <3>1. flash[0] = {}
      BY <1>4, <2>1, <2>2, <2>4 DEF TestInv, TestRead
    <3> QED
      BY <1>4, <2>2, <2>4, <3>1 DEF TestRead
  <2> QED
    BY <2>3, <2>4
<1>5. CASE SectorErase
  BY <1>5 DEF SectorErase, TestInv
<1>6. CASE OpenFile
  BY <1>6 DEF OpenFile, TestInv
<1>7. CASE Burst
  BY <1>7 DEF Burst, TestInv
<1>8. CASE EndOfFile
  BY <1>8 DEF EndOfFile, TestInv
<1>9. CASE UpdateSkipped \/ UpdateNvmChecksum \/ Kill
  BY <1>9 DEF UpdateSkipped, UpdateNvmChecksum, Kill
<1>10. CASE UNCHANGED vars
  BY <1>10 DEF vars, TestInv, Value
<1> QED
  BY <1>1, <1>2, <1>3, <1>4, <1>5, <1>6, <1>7, <1>8, <1>9, <1>10
     DEF Next, SetupWriteMethod, WriteNvm

(* No burst of the image is written by a method that does not work on this  *)
(* device, whatever earlier runs left in the flash, unless the first erase  *)
(* or a test failed.                                                        *)
THEOREM MethodWorks == Spec => []MethodTested
<1>1. Init => TypeOK /\ TestInv
  BY TypeInit DEF Init, TestInv
<1>2. TypeOK /\ TestInv => MethodTested
  BY DEF MethodTested, TestInv
<1> QED
  BY <1>1, <1>2, TypeCorrect, TestStep, PTL DEF Spec

-----------------------------------------------------------------------------
(* What a burst writes, when the checksum word is in the first burst, as it *)
(* is with bursts of 128 words and the checksum in word 63.                 *)

(* The only word left out is the checksum word.                             *)
LEMMA LeftOutIs ==
  ASSUME ChecksumReg < BurstSize, TypeOK, BurstStart(j),
         NEW i \in Nat, i < BurstSize
  PROVE  LeftOut(i) <=> mac /\ j + i = ChecksumReg
<1> DEFINE line == i - (i % LineWords)
           offset == ChecksumReg - (j * BurstSize + line)
<1>1. /\ LeftOut(i) <=> mac /\ 0 <= offset /\ offset < LineWords /\ i = line + offset
      /\ j \in Nat /\ j * BurstSize \in Nat
      /\ i % LineWords \in Nat /\ i % LineWords < LineWords
  BY SizeFacts, Products DEF LeftOut, TypeOK
<1>2. CASE j = 0
  BY <1>1, <1>2, SizeFacts
<1>3. CASE j # 0
  <2>1. BurstSize <= j
    <3>1. PICK k \in Nat : j = k * BurstSize
      BY DEF BurstStart
    <3>2. 1 <= k
      BY <1>3, <3>1, SizeFacts
    <3>3. 1 * BurstSize <= k * BurstSize
      BY <3>2, SizeFacts, Products
    <3> QED
      BY <3>1, <3>3, SizeFacts
  <2>2. BurstSize <= j * BurstSize
    <3>1. 1 <= j /\ 1 \in Nat
      BY <1>1, <1>3
    <3>2. 1 * BurstSize <= j * BurstSize
      BY <1>1, <3>1, SizeFacts, Products
    <3> QED
      BY <3>2, SizeFacts
  <2>3. line + offset < 0
    BY <1>1, <2>2, SizeFacts
  <2> QED
    BY <1>1, <2>1, <2>3, SizeFacts
<1> QED
  BY <1>2, <1>3

(* What a finished burst leaves in word w, wherever the burst starts.       *)
Content(w) ==
  IF mac /\ file.kind = "hex" /\ w < MacLen THEN {Value("mac", w)}
  ELSE IF mac /\ w = ChecksumReg THEN {}
  ELSE {Value("img", w)}

LEMMA LineWordIs ==
  ASSUME ChecksumReg < BurstSize, TypeOK, BurstStart(j), NEW w \in Index, InBurst(w)
  PROVE  LineWord(w - j) = Content(w)
<1>1. /\ w - j \in Nat /\ w - j < BurstSize /\ j + (w - j) = w /\ w \in Nat /\ j \in Nat
  BY SizeFacts DEF InBurst, TypeOK, Index
<1>2. LeftOut(w - j) <=> mac /\ w = ChecksumReg
  BY <1>1, LeftOutIs
<1>3. w < MacLen => j = 0
  <2>1. PICK k \in Nat : j = k * BurstSize
    BY DEF BurstStart
  <2>2. 1 <= k => 1 * BurstSize <= k * BurstSize
    BY SizeFacts, Products
  <2>3. w < MacLen => k = 0
    BY <1>1, <2>1, <2>2, SizeFacts
  <2> QED
    BY <2>1, <2>3, SizeFacts
<1>4. Injected(w - j) <=> mac /\ file.kind = "hex" /\ w < MacLen
  <2>1. j = 0 => w - j = w
    BY <1>1
  <2>2. ASSUME j = 0, w - j < MacLen PROVE w < MacLen
    BY <2>1, <2>2
  <2> QED
    BY <1>1, <1>3, <2>1 DEF Injected
<1>5. j = 0 => w - j = w
  BY <1>1
<1> QED
  BY <1>1, <1>2, <1>3, <1>4, <1>5 DEF LineWord, Content, Injected

LEMMA LineContent ==
  ASSUME ChecksumReg < BurstSize, TypeOK, BurstStart(j), NEW w \in Index
  PROVE  AfterBurst[w] = IF InBurst(w) /\ method \in working
                         THEN flash[w] \cup Content(w) ELSE flash[w]
  BY LineWordIs DEF AfterBurst

-----------------------------------------------------------------------------
(* Where the writing of the file stops.                                     *)

FileInv ==
  /\ pc \in {"burst", "update"} => file.kind # "none" /\ j <= file.words
  /\ pc = "update" => file.words < j + BurstSize

LEMMA FileStep == TypeInv /\ FileInv /\ [Next]_vars => FileInv'
<1> SUFFICES ASSUME TypeInv, FileInv, [Next]_vars PROVE FileInv'
  OBVIOUS
<1>1. file.words \in 0..WordSize /\ j \in Nat
  BY SizeFacts DEF TypeInv, TypeOK, Files
<1>2. CASE Start
  BY <1>2 DEF Start, FileInv
<1>3. CASE EraseNvm \/ TestWrite
  BY <1>3 DEF EraseNvm, TestWrite, FileInv
<1>4. CASE TestRead
  BY <1>4 DEF TestRead, FileInv
<1>5. CASE SectorErase
  BY <1>5 DEF SectorErase, FileInv
<1>6. CASE OpenFile
  BY <1>1, <1>6 DEF OpenFile, FileInv, TypeInv, InBursts, command
<1>7. CASE Burst
  <2>1. pc = "burst" /\ j' = j + BurstSize /\ j' <= file.words
        /\ file' = file /\ (pc' = "update" => WordSize <= j')
    BY <1>1, <1>7, SizeFacts DEF Burst, command
  <2> QED
    BY <1>1, <2>1, SizeFacts DEF FileInv
<1>8. CASE EndOfFile
  BY <1>8 DEF EndOfFile, FileInv, command
<1>9. CASE UpdateSkipped \/ UpdateNvmChecksum \/ Kill
  BY <1>9 DEF UpdateSkipped, UpdateNvmChecksum, Kill, FileInv
<1>10. CASE UNCHANGED vars
  BY <1>10 DEF vars, command, FileInv
<1> QED
  BY <1>2, <1>3, <1>4, <1>5, <1>6, <1>7, <1>8, <1>9, <1>10
     DEF Next, SetupWriteMethod, WriteNvm

(* The checksum is computed when exactly the full bursts of the file have   *)
(* been written.                                                            *)
LEMMA AllBursts ==
  ASSUME TypeInv, FileInv, pc = "update"
  PROVE  WrittenWords = j
<1>1. /\ file.words \in Nat /\ j \in Nat /\ j <= file.words /\ file.words < j + BurstSize
      /\ BurstStart(j)
  BY SizeFacts DEF TypeInv, TypeOK, InBursts, FileInv, Files
<1>2. PICK k \in Nat : j = k * BurstSize
  BY <1>1 DEF BurstStart
<1> DEFINE q == file.words \div BurstSize
<1>3. q \in Nat /\ q * BurstSize <= file.words /\ file.words < q * BurstSize + BurstSize
      /\ q * BurstSize \in Nat
  BY <1>1, SizeFacts, Quotient, Products
<1>4. k * BurstSize < (q + 1) * BurstSize /\ q * BurstSize < (k + 1) * BurstSize
  <2>1. (q + 1) * BurstSize = q * BurstSize + BurstSize
        /\ (k + 1) * BurstSize = k * BurstSize + BurstSize
    BY <1>3, SizeFacts, Products
  <2> QED
    BY <1>1, <1>2, <1>3, <2>1, SizeFacts
<1>5. k < q + 1 /\ q < k + 1
  <2>1. q + 1 \in Nat /\ k + 1 \in Nat
    BY <1>3
  <2> QED
    BY <1>3, <1>4, <2>1, SizeFacts, Products
<1>6. k = q
  BY <1>3, <1>5
<1> QED
  BY <1>2, <1>6 DEF WrittenWords

-----------------------------------------------------------------------------
(* The checksum commits the image.                                          *)

(* Nothing in the flash is of a later run, and nothing is the checksum of   *)
(* this run before the update.                                              *)
SumInv ==
  /\ \A w \in Index : \A v \in flash[w] : v.run <= runs
  /\ pc # "idle" => Value("sum", ChecksumReg) \notin flash[ChecksumReg]

(* Every word of the bursts so far has something in it.                     *)
FilledInv ==
  "burst" \notin faults /\ pc \in {"burst", "update"} /\ method \in working =>
    \A w \in Index : w < j => flash[w] # {} \/ (mac /\ w = ChecksumReg)

LEMMA SumStep == TypeInv /\ SumInv /\ [Next]_vars => SumInv'
<1> SUFFICES ASSUME TypeInv, SumInv, [Next]_vars PROVE SumInv'
  OBVIOUS
<1> USE DEF command, Fails, Works
<1>1. /\ runs \in Nat /\ flash \in [Index -> SUBSET Values]
      /\ \A kind, w : Value(kind, w).run = runs /\ Value(kind, w).kind = kind
      /\ 0 \in Index /\ ChecksumReg \in Index /\ 0 # ChecksumReg
  BY SizeFacts DEF TypeInv, TypeOK, Value
<1>2. CASE Start
  <2>1. runs' = runs + 1 /\ flash' = flash
    BY <1>2 DEF Start
  <2>2. \A w \in Index : \A v \in flash[w] : v.run \in Nat /\ v.run <= runs
    BY <1>1 DEF SumInv, Values
  <2>3. Value("sum", ChecksumReg)'.run = runs + 1
    BY <2>1 DEF Value
  <2> QED
    BY <1>1, <2>1, <2>2, <2>3 DEF SumInv
<1> DEFINE sum == Value("sum", ChecksumReg)
<1>3. ASSUME runs' = runs, pc' # "idle" => pc # "idle",
             \A w \in Index : \A v \in flash'[w] :
               v \in flash[w] \/ (v.run = runs /\ (v.kind = "sum" => pc' = "idle"))
      PROVE  SumInv'
  <2>1. sum' = sum /\ sum.kind = "sum"
    BY <1>3 DEF Value
  <2>2. \A w \in Index : \A v \in flash'[w] : v.run <= runs'
    BY <1>1, <1>3 DEF SumInv
  <2>3. pc' # "idle" => sum \notin flash'[ChecksumReg]
    BY <1>1, <1>3, <2>1 DEF SumInv
  <2> HIDE DEF sum
  <2> QED
    BY <2>1, <2>2, <2>3 DEF SumInv, sum
<1>4. CASE EraseNvm
  <2>1. pc # "idle" /\ runs' = runs /\ flash' \in {flash, Erased} /\ pc' = "testWrite"
    BY <1>4 DEF EraseNvm
  <2> QED
    BY <1>3, <2>1 DEF Erased
<1>5. CASE TestWrite
  <2>1. /\ pc # "idle" /\ runs' = runs
        /\ flash' \in {flash, [flash EXCEPT ![0] = @ \cup {Value("test", 0)}]}
    BY <1>5 DEF TestWrite
  <2>2. \A w \in Index : \A v \in flash'[w] : v \in flash[w] \/ v = Value("test", 0)
    BY <1>1, <2>1
  <2> QED
    BY <1>1, <1>3, <2>1, <2>2
<1>6. CASE SectorErase
  <2>1. /\ pc # "idle" /\ runs' = runs
        /\ flash' \in {flash, [w \in Index |-> IF w < SectorWords THEN {} ELSE flash[w]]}
    BY <1>6 DEF SectorErase
  <2> QED
    BY <1>3, <2>1
<1>7. CASE Burst
  <2>1. pc # "idle" /\ runs' = runs
    BY <1>7 DEF Burst
  <2>2. ASSUME NEW w \in Index, NEW v \in AfterBurst[w]
        PROVE  v \in flash[w] \/ (v.run = runs /\ v.kind # "sum")
    BY <1>1, <2>2 DEF AfterBurst, LineWord
  <2>3. \A w \in Index : \A v \in flash'[w] : v \in flash[w] \/ v \in AfterBurst[w]
    BY <1>7 DEF Burst, AfterBurst
  <2> QED
    BY <1>3, <2>1, <2>2, <2>3
<1>8. CASE UpdateNvmChecksum
  <2> DEFINE new == IF method \in working THEN {sum} ELSE {}
             written == [flash EXCEPT ![ChecksumReg] = @ \cup new]
  <2>1. pc # "idle" /\ pc' = "idle" /\ runs' = runs /\ flash' \in {flash, written}
    BY <1>8 DEF UpdateNvmChecksum
  <2>2. \A w \in Index : \A v \in written[w] : v \in flash[w] \/ v = sum
    BY <1>1
  <2> HIDE DEF written, sum
  <2>3. sum.run = runs
    BY <1>1 DEF sum
  <2> QED
    BY <1>3, <2>1, <2>2, <2>3
<1>9. CASE TestRead \/ OpenFile \/ EndOfFile \/ UpdateSkipped \/ Kill \/ UNCHANGED vars
  <2>1. flash' = flash /\ runs' = runs /\ (pc' # "idle" => pc # "idle")
    BY <1>9 DEF TestRead, OpenFile, EndOfFile, UpdateSkipped, Kill, vars
  <2> QED
    BY <1>3, <2>1
<1> QED
  BY <1>2, <1>4, <1>5, <1>6, <1>7, <1>8, <1>9 DEF Next, SetupWriteMethod, WriteNvm

LEMMA FilledStep ==
  ASSUME ChecksumReg < BurstSize
  PROVE  TypeInv /\ FilledInv /\ [Next]_vars => FilledInv'
<1> SUFFICES ASSUME TypeInv, FilledInv, [Next]_vars,
                    "burst" \notin faults', pc' \in {"burst", "update"}, (method \in working)'
             PROVE  (\A w \in Index : w < j => flash[w] # {} \/ (mac /\ w = ChecksumReg))'
  BY DEF FilledInv
<1> USE DEF command, Fails, Works
<1>1. CASE OpenFile
  <2>1. j' = 0
    BY <1>1 DEF OpenFile, TypeInv, InBursts
  <2> QED
    BY <2>1 DEF Index
<1>2. CASE Burst
  <2>1. /\ flash' = AfterBurst /\ j' = j + BurstSize /\ mac' = mac
        /\ method \in working /\ "burst" \notin faults /\ pc = "burst"
    BY <1>2 DEF Burst
  <2>2. TypeOK /\ BurstStart(j)
    BY <2>1 DEF TypeInv, InBursts
  <2>3. ASSUME NEW w \in Index, w < j + BurstSize
        PROVE  AfterBurst[w] # {} \/ (mac /\ w = ChecksumReg)
    <3>1. CASE InBurst(w)
      BY <2>1, <2>2, <3>1, LineContent DEF Content
    <3>2. CASE ~InBurst(w)
      <4>1. w < j
        BY <2>2, <2>3, <3>2, SizeFacts DEF InBurst, TypeOK, Index
      <4>2. AfterBurst[w] = flash[w]
        BY <3>2 DEF AfterBurst
      <4> QED
        BY <2>1, <4>1, <4>2 DEF FilledInv
    <3> QED
      BY <3>1, <3>2
  <2> QED
    BY <2>1, <2>3
<1>3. CASE EndOfFile
  BY <1>3 DEF EndOfFile, FilledInv
<1>4. CASE UNCHANGED vars
  BY <1>4 DEF vars, FilledInv
<1>5. CASE Start \/ SetupWriteMethod \/ UpdateSkipped \/ UpdateNvmChecksum \/ Kill
  BY <1>5 DEF Start, SetupWriteMethod, EraseNvm, TestWrite, TestRead, SectorErase,
              UpdateSkipped, UpdateNvmChecksum, Kill
<1> QED
  BY <1>1, <1>2, <1>3, <1>4, <1>5 DEF Next, WriteNvm

LEMMA CommitStep ==
  TypeInv /\ FileInv /\ SumInv /\ FilledInv /\ ChecksumCommits /\ [Next]_vars
    => ChecksumCommits'
<1> SUFFICES ASSUME TypeInv, FileInv, SumInv, SumInv', FilledInv, ChecksumCommits, [Next]_vars
             PROVE  ChecksumCommits'
  BY SumStep
<1> USE DEF command, Fails, Works
<1>1. CASE pc' # "idle"
  BY <1>1 DEF SumInv, ChecksumCommits
<1>2. CASE pc' = "idle" /\ ~UpdateNvmChecksum /\ pc # "idle"
  <2>1. flash' = flash \/ SectorErase
    BY <1>2 DEF Next, Start, SetupWriteMethod, EraseNvm, TestWrite, TestRead, SectorErase,
                WriteNvm, OpenFile, Burst, EndOfFile, UpdateSkipped, Kill, vars
  <2>2. ChecksumReg \in Index => flash'[ChecksumReg] \subseteq flash[ChecksumReg]
    BY <2>1 DEF SectorErase
  <2>3. runs' = runs
    BY <1>2 DEF Next, Start, SetupWriteMethod, EraseNvm, TestWrite, TestRead, SectorErase,
                WriteNvm, OpenFile, Burst, EndOfFile, UpdateSkipped, Kill, vars
  <2>4. Value("sum", ChecksumReg)' = Value("sum", ChecksumReg)
    BY <2>3 DEF Value
  <2>5. Value("sum", ChecksumReg) \notin flash[ChecksumReg]
    BY <1>2 DEF SumInv
  <2> QED
    BY <2>2, <2>4, <2>5, SizeFacts DEF ChecksumCommits
<1>3. CASE pc' = "idle" /\ pc = "idle"
  <2>1. UNCHANGED vars
    BY <1>3 DEF Next, Start, SetupWriteMethod, EraseNvm, TestWrite, TestRead, SectorErase,
                WriteNvm, OpenFile, Burst, EndOfFile, UpdateSkipped, UpdateNvmChecksum, Kill
  <2> QED
    BY <2>1 DEF vars, ChecksumCommits, WrittenWords, Value
<1>4. CASE UpdateNvmChecksum
  <2> DEFINE sum == Value("sum", ChecksumReg)
             new == IF method \in working THEN {sum} ELSE {}
             written == [flash EXCEPT ![ChecksumReg] = @ \cup new]
  <2>1. /\ pc = "update" /\ mac /\ runs' = runs /\ file' = file
        /\ flash' \in {flash, written} /\ faults \subseteq faults'
    BY <1>4 DEF UpdateNvmChecksum
  <2>2. sum' = sum /\ sum \notin flash[ChecksumReg] /\ WrittenWords' = WrittenWords
    BY <2>1 DEF Value, SumInv, WrittenWords
  <2>3. flash \in [Index -> SUBSET Values]
    BY DEF TypeInv, TypeOK
  <2> SUFFICES ASSUME sum \in flash'[ChecksumReg], "burst" \notin faults',
                      NEW w \in 0..(WrittenWords - 1)
               PROVE  flash'[w] # {}
    BY <2>2 DEF ChecksumCommits
  <2> HIDE DEF sum
  <2>4. method \in working /\ flash' = written
    BY <2>1, <2>2, <2>3, SizeFacts
  <2>5. w \in Index /\ w < j
    <3>1. WrittenWords = j
      BY <2>1, AllBursts
    <3> QED
      BY <3>1, SizeFacts DEF TypeInv, TypeOK, Index
  <2>6. CASE w = ChecksumReg
    BY <2>3, <2>4, <2>5, <2>6
  <2>7. CASE w # ChecksumReg
    <3>1. flash[w] # {}
      BY <2>1, <2>4, <2>5, <2>7 DEF FilledInv
    <3> QED
      BY <2>3, <2>4, <2>5, <2>7, <3>1
  <2> QED
    BY <2>6, <2>7
<1> QED
  BY <1>1, <1>2, <1>3, <1>4

(* With a MAC address the checksum commits the image, for a checksum word   *)
(* in the first burst: a run killed at any point has not written it unless  *)
(* every full burst of the file was written, or failed.                     *)
THEOREM ChecksumIsCommit ==
  ASSUME ChecksumReg < BurstSize
  PROVE  Spec => []ChecksumCommits
<1> DEFINE CommitInv == TypeInv /\ FileInv /\ SumInv /\ FilledInv /\ ChecksumCommits
<1>1. Init => CommitInv
  <2> SUFFICES ASSUME Init PROVE CommitInv
    OBVIOUS
  <2>1. TypeInv /\ FileInv /\ FilledInv
    BY TypeInit DEF TypeInv, Init, FileInv, FilledInv
  <2>2. SumInv
    BY DEF Init, SumInv, Erased
  <2>3. ChecksumCommits
    BY DEF Init, ChecksumCommits
  <2> QED
    BY <2>1, <2>2, <2>3
<1>2. CommitInv /\ [Next]_vars => CommitInv'
  BY TypeStep, FileStep, SumStep, FilledStep, CommitStep
<1>3. CommitInv => ChecksumCommits
  OBVIOUS
<1> QED
  BY <1>1, <1>2, <1>3, PTL DEF Spec

-----------------------------------------------------------------------------
(* The checksum is right for the words in the flash.                        *)

(* From the erase to the update, nothing is in the checksum word.           *)
Working == {"testWrite", "testRead", "cleanUp", "open", "burst", "update"}
CleanInv ==
  mac /\ faults \subseteq {"burst", "cleanUp"} /\ pc \in Working =>
    flash[ChecksumReg] = {}

LEMMA CleanStep ==
  ASSUME ChecksumReg < BurstSize
  PROVE  TypeInv /\ CleanInv /\ [Next]_vars => CleanInv'
<1> SUFFICES ASSUME TypeInv, CleanInv, [Next]_vars,
                    mac', faults' \subseteq {"burst", "cleanUp"}, pc' \in Working
             PROVE  flash'[ChecksumReg] = {}
  BY DEF CleanInv
<1> USE DEF command, Fails, Works
<1>1. ChecksumReg \in Index /\ 0 # ChecksumReg /\ flash \in [Index -> SUBSET Values]
  BY SizeFacts DEF TypeInv, TypeOK
<1>2. CASE EraseNvm
  BY <1>1, <1>2 DEF EraseNvm, Erased
<1>3. ASSUME pc \in Working, mac' = mac, faults \subseteq faults' PROVE flash[ChecksumReg] = {}
  BY <1>3 DEF CleanInv
<1>4. CASE TestWrite
  <2>1. pc \in Working /\ mac' = mac /\ faults \subseteq faults'
    BY <1>4 DEF TestWrite, Working
  <2>2. flash' \in {flash, [flash EXCEPT ![0] = @ \cup {Value("test", 0)}]}
    BY <1>4 DEF TestWrite
  <2> QED
    BY <1>1, <1>3, <2>1, <2>2
<1>5. CASE SectorErase
  <2>1. pc \in Working /\ mac' = mac /\ faults \subseteq faults'
    BY <1>5 DEF SectorErase, Working
  <2>2. flash' \in {flash, [w \in Index |-> IF w < SectorWords THEN {} ELSE flash[w]]}
    BY <1>5 DEF SectorErase
  <2> QED
    BY <1>1, <1>3, <2>1, <2>2
<1>6. CASE Burst
  <2>1. /\ pc \in Working /\ mac' = mac /\ mac /\ faults \subseteq faults' /\ pc = "burst"
    BY <1>6 DEF Burst, Working
  <2>2. flash[ChecksumReg] = {}
    BY <1>3, <2>1
  <2>3. TypeOK /\ BurstStart(j)
    BY <2>1 DEF TypeInv, InBursts
  <2>4. Content(ChecksumReg) = {}
    BY <2>1, SizeFacts DEF Content
  <2>5. AfterBurst[ChecksumReg] = {}
    BY <1>1, <2>2, <2>3, <2>4, LineContent
  <2>6. flash'[ChecksumReg] \in {flash[ChecksumReg], AfterBurst[ChecksumReg]}
    BY <1>1, <1>6 DEF Burst
  <2> QED
    BY <2>2, <2>5, <2>6
<1>7. CASE TestRead \/ OpenFile \/ EndOfFile \/ UNCHANGED vars
  <2>1. pc \in Working /\ mac' = mac /\ faults \subseteq faults' /\ flash' = flash
    BY <1>7 DEF TestRead, OpenFile, EndOfFile, vars, Working
  <2> QED
    BY <1>3, <2>1
<1>8. CASE Start \/ UpdateSkipped \/ UpdateNvmChecksum \/ Kill
  BY <1>8 DEF Start, UpdateSkipped, UpdateNvmChecksum, Kill, Working
<1> QED
  BY <1>2, <1>4, <1>5, <1>6, <1>7, <1>8 DEF Next, SetupWriteMethod, WriteNvm

LEMMA MatchStep ==
  TypeOK /\ TestInv /\ CleanInv /\ ChecksumMatches /\ [Next]_vars => ChecksumMatches'
<1> SUFFICES ASSUME TypeOK, TestInv, CleanInv, ChecksumMatches, [Next]_vars,
                    Finished', mac', faults' \subseteq {"burst", "cleanUp"}
             PROVE  /\ flash'[ChecksumReg] = {Value("sum", ChecksumReg)'}
                    /\ \A w \in 0..(ChecksumReg - 1) : flash'[w] = summed'[w]
  BY DEF ChecksumMatches
<1> USE DEF command, Fails, Works
<1>1. CASE UpdateNvmChecksum
  <2> DEFINE sum == Value("sum", ChecksumReg)
             new == IF method \in working THEN {sum} ELSE {}
             written == [flash EXCEPT ![ChecksumReg] = @ \cup new]
  <2>1. /\ pc = "update" /\ mac /\ runs' = runs /\ faults' = faults
        /\ flash' = written
        /\ summed' = [w \in Index |-> IF w < ChecksumReg THEN flash[w] ELSE {}]
    BY <1>1 DEF UpdateNvmChecksum
  <2>2. method \in working
    <3>1. faults \subseteq {"cleanUp", "burst"}
      BY <2>1
    <3> QED
      BY <2>1, <3>1 DEF TestInv
  <2>3. flash[ChecksumReg] = {} /\ sum' = sum
    BY <2>1 DEF CleanInv, Working, Value
  <2>4. flash \in [Index -> SUBSET Values] /\ ChecksumReg \in Index
    BY SizeFacts DEF TypeOK
  <2> HIDE DEF sum
  <2>5. flash'[ChecksumReg] = {sum}
    BY <2>1, <2>2, <2>3, <2>4
  <2>6. ASSUME NEW w \in 0..(ChecksumReg - 1) PROVE flash'[w] = summed'[w]
    <3>1. w \in Index /\ w < ChecksumReg /\ w # ChecksumReg
      BY SizeFacts DEF Index
    <3> QED
      BY <2>1, <2>4, <3>1
  <2> QED
    BY <2>3, <2>5, <2>6 DEF sum
<1>2. CASE UNCHANGED vars
  BY <1>2 DEF vars, ChecksumMatches, Finished, Value
<1>3. CASE UpdateSkipped
  BY <1>3 DEF UpdateSkipped
<1>4. CASE Start \/ SetupWriteMethod \/ OpenFile \/ Burst \/ EndOfFile \/ Kill
  BY <1>4 DEF Start, SetupWriteMethod, EraseNvm, TestWrite, TestRead, SectorErase,
              OpenFile, Burst, EndOfFile, Kill, Finished
<1> QED
  BY <1>1, <1>2, <1>3, <1>4 DEF Next, WriteNvm

(* With a MAC address, and a checksum word in the first burst, a finished   *)
(* run in which only writes of the image failed leaves a checksum that is   *)
(* right for the words in the flash.                                        *)
THEOREM ChecksumIsRight ==
  ASSUME ChecksumReg < BurstSize
  PROVE  Spec => []ChecksumMatches
<1> DEFINE MatchInv == TypeInv /\ TestInv /\ CleanInv /\ ChecksumMatches
<1>1. Init => MatchInv
  <2> SUFFICES ASSUME Init PROVE MatchInv
    OBVIOUS
  <2>1. TypeInv /\ TestInv /\ CleanInv /\ ChecksumMatches
    BY TypeInit DEF TypeInv, Init, TestInv, CleanInv, ChecksumMatches
  <2> QED
    BY <2>1
<1>2. MatchInv /\ [Next]_vars => MatchInv'
  BY TypeStep, TestStep, CleanStep, MatchStep DEF TypeInv
<1>3. MatchInv => ChecksumMatches
  OBVIOUS
<1> QED
  BY <1>1, <1>2, <1>3, PTL DEF Spec

-----------------------------------------------------------------------------
(* What a run in which nothing failed leaves.                               *)

(* After the erase only word 0 is used; then the bursts fill the flash from *)
(* its start.                                                               *)
ExactInv ==
  faults = {} =>
    /\ pc \in {"testWrite", "testRead", "cleanUp"} =>
         \A w \in Index \ {0} : flash[w] = {}
    /\ pc \in {"open", "burst", "update"} /\ ~(mac /\ file.kind = "bin") =>
         \A w \in Index : flash[w] = IF w < j THEN Content(w) ELSE {}

LEMMA ExactStep ==
  ASSUME ChecksumReg < BurstSize
  PROVE  TypeInv /\ TestInv /\ ExactInv /\ [Next]_vars => ExactInv'
<1> SUFFICES ASSUME TypeInv, TestInv, ExactInv, [Next]_vars, faults' = {}
             PROVE  (/\ pc \in {"testWrite", "testRead", "cleanUp"} =>
                          \A w \in Index \ {0} : flash[w] = {}
                     /\ pc \in {"open", "burst", "update"} /\ ~(mac /\ file.kind = "bin") =>
                          \A w \in Index : flash[w] = IF w < j THEN Content(w) ELSE {})'
  BY DEF ExactInv
<1> USE DEF command, Fails, Works
<1>1. flash \in [Index -> SUBSET Values] /\ 0 \in Index
  BY SizeFacts DEF TypeInv, TypeOK
<1>2. CASE EraseNvm
  BY <1>2 DEF EraseNvm, Erased
<1>3. CASE TestWrite
  <2>1. flash' \in {flash, [flash EXCEPT ![0] = @ \cup {Value("test", 0)}]}
        /\ pc = "testWrite" /\ pc' = "testRead" /\ faults = {}
    BY <1>3 DEF TestWrite
  <2> QED
    BY <1>1, <2>1 DEF ExactInv
<1>4. CASE TestRead
  <2>1. flash' = flash /\ pc = "testRead" /\ pc' \in {"testWrite", "cleanUp"} /\ faults = {}
    BY <1>4 DEF TestRead
  <2> QED
    BY <2>1 DEF ExactInv
<1>5. CASE SectorErase
  <2>1. /\ flash' = [w \in Index |-> IF w < SectorWords THEN {} ELSE flash[w]]
        /\ j' = 0 /\ pc = "cleanUp" /\ pc' \in {"idle", "open"} /\ faults = {}
    BY <1>5 DEF SectorErase
  <2>2. \A w \in Index : flash'[w] = {}
    BY <1>1, <2>1, SizeFacts DEF ExactInv
  <2>3. \A w \in Index : ~(w < j')
    BY <2>1, SizeFacts DEF Index
  <2> QED
    BY <2>1, <2>2, <2>3
<1>6. CASE OpenFile
  <2>1. /\ flash' = flash /\ j' = j /\ mac' = mac /\ file' = file /\ faults = {}
        /\ pc = "open" /\ pc' \in {"idle", "burst"} /\ j = 0
    BY <1>6 DEF OpenFile, TypeInv, InBursts
  <2> QED
    BY <2>1 DEF ExactInv, Index
<1>7. CASE Burst
  <2>1. /\ flash' = AfterBurst /\ j' = j + BurstSize /\ UNCHANGED <<mac, file, runs>>
        /\ faults = {} /\ pc = "burst" /\ pc' \in {"burst", "update"}
    BY <1>7 DEF Burst
  <2>2. TypeOK /\ BurstStart(j) /\ method \in working
    BY <2>1 DEF TypeInv, InBursts, TestInv
  <2>3. ASSUME ~(mac /\ file.kind = "bin"), NEW w \in Index
        PROVE  AfterBurst[w] = IF w < j + BurstSize THEN Content(w) ELSE {}
    <3>1. flash[w] = IF w < j THEN Content(w) ELSE {}
      BY <2>1, <2>3 DEF ExactInv
    <3>2. AfterBurst[w] = IF InBurst(w) THEN flash[w] \cup Content(w) ELSE flash[w]
      BY <2>2, LineContent
    <3>3. w \in Nat /\ j \in Nat
      BY <2>2, SizeFacts DEF TypeOK, Index
    <3>4. CASE w < j
      BY <3>1, <3>2, <3>3, <3>4, SizeFacts DEF InBurst
    <3>5. CASE InBurst(w)
      <4>1. ~(w < j) /\ w < j + BurstSize
        BY <3>3, <3>5, SizeFacts DEF InBurst
      <4>2. AfterBurst[w] = {} \cup Content(w)
        BY <3>1, <3>2, <3>5, <4>1
      <4> QED
        BY <4>1, <4>2
    <3>6. CASE ~(w < j) /\ ~InBurst(w)
      BY <3>1, <3>2, <3>3, <3>6, SizeFacts DEF InBurst
    <3> QED
      BY <3>4, <3>5, <3>6
  <2>4. \A w : Content(w)' = Content(w)
    BY <2>1 DEF Content, Value
  <2> QED
    BY <2>1, <2>3, <2>4
<1>8. CASE EndOfFile
  <2>1. flash' = flash /\ j' = j /\ UNCHANGED <<mac, file, runs>>
        /\ faults = {} /\ pc = "burst" /\ pc' = "update"
    BY <1>8 DEF EndOfFile
  <2>2. \A w : Content(w)' = Content(w)
    BY <2>1 DEF Content, Value
  <2> QED
    BY <2>1, <2>2 DEF ExactInv
<1>9. CASE UNCHANGED vars
  <2>1. \A w : Content(w)' = Content(w)
    BY <1>9 DEF vars, Content, Value
  <2> QED
    BY <1>9, <2>1 DEF vars, ExactInv
<1>10. CASE Start \/ UpdateSkipped \/ UpdateNvmChecksum \/ Kill
  BY <1>10 DEF Start, UpdateSkipped, UpdateNvmChecksum, Kill
<1> QED
  BY <1>2, <1>3, <1>4, <1>5, <1>6, <1>7, <1>8, <1>9, <1>10 DEF Next, SetupWriteMethod, WriteNvm

(* At the update, what is in the flash is what is expected of the run, but  *)
(* for the checksum.                                                        *)
LEMMA ExactAtUpdate ==
  ASSUME TypeInv, FileInv, ExactInv, pc = "update", faults = {},
         ~(mac /\ file.kind = "bin"), NEW w \in Index
  PROVE  /\ ~(mac /\ w = ChecksumReg) => flash[w] = Expected(w)
         /\ mac /\ w = ChecksumReg => flash[w] = {} /\ Expected(w) = {Value("sum", w)}
<1>1. flash[w] = IF w < WrittenWords THEN Content(w) ELSE {}
  BY AllBursts DEF ExactInv
<1>2. mac => file.kind = "hex"
  <2>1. file \in Files /\ file.kind # "none"
    BY DEF FileInv, TypeInv, TypeOK
  <2>2. \A f \in Files : f.kind \in {"bin", "hex", "none"}
    BY DEF Files
  <2> QED
    BY <2>1, <2>2
<1>3. w \in Nat /\ WrittenWords \in Nat /\ MacLen <= ChecksumReg
  BY AllBursts, SizeFacts DEF Index, TypeInv, TypeOK
<1> QED
  BY <1>1, <1>2, <1>3, SizeFacts DEF Content, Expected

LEMMA ProgrammedStep ==
  TypeInv /\ FileInv /\ TestInv /\ ExactInv /\ ProgrammedExactly /\ [Next]_vars
    => ProgrammedExactly'
<1> SUFFICES ASSUME TypeInv, FileInv, TestInv, ExactInv, ProgrammedExactly, [Next]_vars,
                    Finished', faults' = {}, ~(mac /\ file.kind = "bin")',
                    NEW w \in Index
             PROVE  flash'[w] = Expected(w)'
  BY DEF ProgrammedExactly
<1> USE DEF command, Fails, Works
<1>1. ASSUME UNCHANGED <<mac, file, runs>> PROVE Expected(w)' = Expected(w)
  BY <1>1 DEF Expected, WrittenWords, Value
<1>2. CASE UpdateSkipped
  <2>1. UNCHANGED <<mac, file, runs, flash, faults>> /\ pc = "update" /\ ~mac
    BY <1>2 DEF UpdateSkipped
  <2> QED
    BY <1>1, <2>1, ExactAtUpdate
<1>3. CASE UpdateNvmChecksum
  <2> DEFINE sum == Value("sum", ChecksumReg)
             new == IF method \in working THEN {sum} ELSE {}
             written == [flash EXCEPT ![ChecksumReg] = @ \cup new]
  <2>1. /\ UNCHANGED <<mac, file, runs>> /\ pc = "update" /\ mac /\ faults = {}
        /\ flash' = written
    BY <1>3 DEF UpdateNvmChecksum
  <2>2. new = {sum}
    BY <2>1 DEF TestInv
  <2>3. flash \in [Index -> SUBSET Values] /\ ChecksumReg \in Index
    BY SizeFacts DEF TypeInv, TypeOK
  <2> HIDE DEF sum, new
  <2>4. CASE w = ChecksumReg
    <3>1. flash[w] = {} /\ Expected(w) = {sum}
      BY <2>1, <2>4, ExactAtUpdate DEF sum
    <3> QED
      BY <1>1, <2>1, <2>2, <2>3, <2>4, <3>1
  <2>5. CASE w # ChecksumReg
    <3>1. flash[w] = Expected(w)
      BY <2>1, <2>5, ExactAtUpdate
    <3> QED
      BY <1>1, <2>1, <2>3, <2>5, <3>1
  <2> QED
    BY <2>4, <2>5
<1>4. CASE UNCHANGED vars
  BY <1>1, <1>4 DEF vars, ProgrammedExactly, Finished
<1>5. CASE Start \/ SetupWriteMethod \/ OpenFile \/ Burst \/ EndOfFile \/ Kill
  BY <1>5 DEF Start, SetupWriteMethod, EraseNvm, TestWrite, TestRead, SectorErase,
              OpenFile, Burst, EndOfFile, Kill, Finished
<1> QED
  BY <1>2, <1>3, <1>4, <1>5 DEF Next, WriteNvm

(* A run in which no operation failed leaves exactly what it was asked for, *)
(* whatever was in the flash before and however earlier runs ended, for a   *)
(* checksum word in the first burst.                                        *)
THEOREM Programming ==
  ASSUME ChecksumReg < BurstSize
  PROVE  Spec => []ProgrammedExactly
<1> DEFINE Inv == TypeInv /\ FileInv /\ TestInv /\ ExactInv /\ ProgrammedExactly
<1>1. Init => Inv
  <2> SUFFICES ASSUME Init PROVE Inv
    OBVIOUS
  <2>1. TypeInv /\ FileInv /\ TestInv /\ ExactInv
    BY TypeInit DEF TypeInv, Init, FileInv, TestInv, ExactInv
  <2>2. ProgrammedExactly
    BY DEF Init, ProgrammedExactly, Finished
  <2> QED
    BY <2>1, <2>2
<1>2. Inv /\ [Next]_vars => Inv'
  BY TypeStep, FileStep, TestStep, ExactStep, ProgrammedStep DEF TypeInv
<1>3. Inv => ProgrammedExactly
  OBVIOUS
<1> QED
  BY <1>1, <1>2, <1>3, PTL DEF Spec
=============================================================================
