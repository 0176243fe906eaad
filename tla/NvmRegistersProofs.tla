------------------------- MODULE NvmRegistersProofs -------------------------
(***************************************************************************)
(* Proofs about NvmRegisters for memories, bursts and sectors of any size, *)
(* any number of polls and any number of runs.                             *)
(***************************************************************************)
EXTENDS NvmRegisters, SequenceTheorems, TLAPS

LEMMA SizeFacts ==
  /\ Words \in Nat /\ Words > 0 /\ BurstWords \in Nat /\ BurstWords >= 2
  /\ BurstWords % 2 = 0 /\ Words >= BurstWords
  /\ SectorWords \in Nat /\ SectorWords > 0 /\ MaxPolls \in Nat /\ MaxPolls > 0
  /\ ChecksumReg \in Index /\ ChecksumReg \in Nat /\ ChecksumReg > 0
  /\ ChecksumReg + 1 <= Words /\ 0 \in Index /\ MaxRuns \in Nat
<1>1. /\ Words \in Nat /\ Words > 0 /\ BurstWords \in Nat /\ BurstWords > 0
      /\ Words % BurstWords = 0 /\ BurstWords % 2 = 0
  BY SizeAssumption
<1>2. BurstWords >= 2
  BY <1>1
<1>3. Words >= BurstWords
  <2>1. Words = (BurstWords * (Words \div BurstWords)) + (Words % BurstWords)
    BY <1>1
  <2>2. Words < BurstWords => Words % BurstWords = Words
    BY <1>1
  <2> QED
    BY <1>1, <2>2
<1>4. ChecksumReg \in Index /\ ChecksumReg % 2 = 1
  BY SizeAssumption
<1>5. ChecksumReg \in Nat /\ ChecksumReg > 0 /\ ChecksumReg + 1 <= Words
  BY <1>1, <1>4 DEF Index
<1> QED
  BY <1>1, <1>2, <1>3, <1>4, <1>5, SizeAssumption DEF Index

-----------------------------------------------------------------------------
(* Counting in bursts.                                                      *)

LEMMA Products ==
  ASSUME NEW a \in Nat, NEW b \in Nat, NEW n \in Nat, n > 0
  PROVE  /\ a * n \in Nat
         /\ a < b => a * n + n <= b * n
         /\ b <= a => b * n <= a * n
         /\ a + 1 \in Nat /\ (a + 1) * n = a * n + n
<1>1. \A c \in Nat : c * n \in Nat
  OBVIOUS
<1>2. (a + 1) * n = a * n + n
  OBVIOUS
<1>3. ASSUME NEW x \in Nat, NEW y \in Nat, x <= y
      PROVE  x * n <= y * n
  <2>1. PICK d \in Nat : y = x + d
    <3>1. y - x \in Nat /\ y = x + (y - x)
      BY <1>3
    <3> QED
      BY <3>1
  <2>2. y * n = x * n + d * n
    BY <2>1
  <2> QED
    BY <1>1, <2>2
<1>4. a < b => (a + 1) * n <= b * n
  BY <1>3
<1> QED
  BY <1>1, <1>2, <1>3, <1>4

(* An offset of a burst.                                                    *)
BurstStart(o) == \E k \in Nat : o = k * BurstWords

LEMMA BurstFacts ==
  /\ BurstStart(0)
  /\ \A o \in Nat : BurstStart(o) => BurstStart(o + BurstWords)
  /\ \A o \in Nat : BurstStart(o) /\ o < Words => o + BurstWords <= Words
  /\ \A f \in 0..(Words \div BurstWords) :
       /\ f * BurstWords \in 0..Words
       /\ \A o \in Nat : BurstStart(o) /\ o < f * BurstWords => o + BurstWords <= f * BurstWords
<1>1. BurstStart(0)
  <2>1. 0 = 0 * BurstWords
    BY SizeFacts
  <2> QED
    BY <2>1 DEF BurstStart
<1>2. PICK n \in Nat : Words = n * BurstWords /\ n = Words \div BurstWords
  <2>1. Words % BurstWords = 0
    BY SizeAssumption
  <2>2. Words = (Words \div BurstWords) * BurstWords
    BY <2>1, SizeFacts
  <2>3. Words \div BurstWords \in Nat
    BY SizeFacts
  <2> QED
    BY <2>2, <2>3
<1>3. ASSUME NEW o \in Nat, BurstStart(o)
      PROVE  BurstStart(o + BurstWords)
  <2>1. PICK k \in Nat : o = k * BurstWords
    BY <1>3 DEF BurstStart
  <2>2. k + 1 \in Nat /\ o + BurstWords = (k + 1) * BurstWords
    BY <2>1, SizeFacts, Products
  <2> QED
    BY <2>2 DEF BurstStart
<1>4. ASSUME NEW o \in Nat, BurstStart(o), NEW f \in Nat, o < f * BurstWords
      PROVE  o + BurstWords <= f * BurstWords
  <2>1. PICK k \in Nat : o = k * BurstWords
    BY <1>4 DEF BurstStart
  <2>2. f * BurstWords \in Nat /\ k * BurstWords \in Nat
    BY SizeFacts, Products
  <2>3. ~(f <= k)
    BY <1>4, <2>1, <2>2, SizeFacts, Products
  <2>4. k < f
    BY <2>3
  <2> QED
    BY <2>1, <2>4, SizeFacts, Products
<1>5. \A f \in 0..n : f * BurstWords \in Nat /\ f * BurstWords <= n * BurstWords
  BY SizeFacts, Products
<1>6. ASSUME NEW o \in Nat, BurstStart(o), o < Words
      PROVE  o + BurstWords <= Words
  BY <1>2, <1>4, <1>6
<1>7. \A f \in 0..(Words \div BurstWords) : f \in Nat /\ f * BurstWords \in 0..Words
  BY <1>2, <1>5, SizeFacts
<1> HIDE DEF BurstStart
<1> QED
  BY <1>1, <1>3, <1>4, <1>6, <1>7

-----------------------------------------------------------------------------
(* The invariant of the types.                                              *)

Phases == {"idle", "erase", "test", "check", "file", "burst", "sum", "sumUp",
           "dump", "dumped"}
Calling == {"test", "check", "burst", "sum", "sumUp", "dumped"}
Started == {"ready", "acquire", "countPoll", "command", "settle", "data", "dataPoll"}
Engines == [cmd : {"none", "read", "write"}, at : 0..Words, left : 0..BurstWords,
            data : Seq(Values \cup {Ones}), busy : BOOLEAN]

(* The NIC works within the memory, and data is only on its way while it    *)
(* is busy.                                                                 *)
EngineInv ==
  /\ engine \in Engines
  /\ engine.at + engine.left <= Words
  /\ ~engine.busy \/ engine.cmd # "write" => engine.data = <<>>
  /\ engine.cmd = "read" => Blank \/ engine.left = 1

(* Which call is being made in which phase.                                 *)
CallInv ==
  /\ phase \in Phases
  /\ phase \in {"idle", "erase"} => pc = "idle"
  /\ phase \in {"file", "dump"} => pc \in {"idle", "back"}
  /\ phase \in Calling => pc \in Started \cup {"back"}
  /\ phase = "test" => call = Call("write", 0, 1, "test")
  /\ phase = "check" => call = Call("read", 0, 2, "none")
  /\ phase = "burst" => call = Call("write", j, BurstWords, "img")
  /\ phase = "sum" => call = Call("read", j, Step, "none")
  /\ phase = "sumUp" => call = Call("write", ChecksumReg, 1, "sum")
  /\ phase = "dumped" => call = Call("read", j, BurstWords, "none")
  /\ status \in {"SUCCESS", "FAIL"}

(* Bursts start at multiples of their size.                                 *)
OffsetInv ==
  /\ phase \in {"erase", "test", "check"} => j = 0
  /\ phase \in {"file", "burst", "dump", "dumped"} => BurstStart(j)
  /\ phase = "file" => j <= file * BurstWords
  /\ phase = "burst" => j < file * BurstWords
  /\ phase = "sum" => j < ChecksumReg
  /\ phase = "dumped" => j < Words

(* How far the loop of a call is.                                           *)
LoopInv ==
  /\ pc \in {"ready", "acquire", "countPoll", "command", "settle"} /\ Blank => i = 0
  /\ pc \in {"countPoll", "command"} /\ Blank => count = call.n
  /\ pc \in {"data", "dataPoll"} /\ Flsw("write") => i <= call.n
  /\ pc \in {"data", "dataPoll"} /\ Flsw("read") => 2 * i + 2 <= call.n
  /\ pc \in Started /\ ~Blank => i < call.n
  /\ pc = "countPoll" => Flsw("read")
  /\ Word("write") => pc \in {"ready", "data", "dataPoll", "back"}
  /\ Word("read") => pc \in {"command", "settle", "data", "back"}

TypeInv == TypeOK /\ EngineInv /\ CallInv /\ OffsetInv /\ LoopInv


LEMMA ValueTypes ==
  /\ Zeros \in [Index -> SUBSET Values] /\ {Junk} \in SUBSET Values /\ Zero \in SUBSET Values
  /\ \A kind \in {"old", "test", "img", "sum"}, w \in Index : Value(kind, w) \in Values
  BY SizeFacts DEF Zeros, Zero, Junk, Value, Values

(* What is under way lands as words of the memory.                          *)
LEMMA LandedType ==
  ASSUME TypeOK, EngineInv
  PROVE  Landed \in [Index -> SUBSET Values]
<1> DEFINE start == engine.at - Len(engine.data)
<1>1. engine.data \in Seq(Values \cup {Ones}) /\ engine.at \in Int /\ Len(engine.data) \in Nat
  BY SizeFacts DEF EngineInv, Engines
<1>2. ASSUME NEW w \in Index, w \in start..(engine.at - 1)
      PROVE  {engine.data[w - start + 1]} \ {Ones} \subseteq Values
  <2>1. w \in Int
    BY SizeFacts DEF Index
  <2>2. w - start + 1 \in 1..Len(engine.data)
    BY <1>1, <1>2, <2>1
  <2>3. engine.data[w - start + 1] \in Values \cup {Ones}
    BY <1>1, <2>2, ElementOfSeq
  <2> QED
    BY <2>3
<1>3. nvm \in [Index -> SUBSET Values]
  BY DEF TypeOK
<1> HIDE DEF start
<1>4. \A w \in Index : (IF w \notin start..(engine.at - 1) THEN nvm[w]
                        ELSE IF Blank THEN nvm[w] \cup ({engine.data[w - start + 1]} \ {Ones})
                        ELSE {engine.data[w - start + 1]} \ {Ones}) \in SUBSET Values
  BY <1>2, <1>3
<1> QED
  BY <1>4 DEF Landed, start

(* Where a wait goes on.                                                    *)
LEMMA AfterWaitIs ==
  /\ pc = "ready" => AfterWait = IF Blank THEN "acquire" ELSE "data"
  /\ pc = "countPoll" => AfterWait = "command"
  /\ pc = "settle" => AfterWait = "data"
  /\ pc = "dataPoll" => AfterWait = NextRound
  BY DEF AfterWait

(* The initial state.                                                       *)
LEMMA TypeInit == Init => TypeInv
<1> SUFFICES ASSUME Init PROVE TypeInv
  OBVIOUS
<1>1. nvm \in [Index -> SUBSET Values]
  <2>1. [w \in Index |-> {Value("old", w)}] \in [Index -> SUBSET Values]
    BY ValueTypes
  <2> QED
    BY <2>1 DEF Init
<1>2. call.at = 0 /\ call.n = 0 /\ call.op = "none" /\ engine.at = 0 /\ engine.left = 0
  BY DEF Init, Call, Idle
<1>3. TypeOK
  <2>1. \A f \in {0} : f \in 0..(Words \div BurstWords)
    BY SizeFacts
  <2> QED
    BY <1>1, <1>2, <2>1, SizeFacts, ValueTypes DEF Init, TypeOK
<1>4. EngineInv
  <2>1. <<>> \in Seq(Values \cup {Ones})
    BY EmptySeq
  <2> QED
    BY <2>1, SizeFacts DEF Init, EngineInv, Engines, Idle
<1>5. CallInv /\ OffsetInv /\ LoopInv
  BY <1>2 DEF Init, CallInv, OffsetInv, LoopInv, Phases, Calling, Started, Flsw, Word
<1> QED
  BY <1>3, <1>4, <1>5 DEF TypeInv

(* A call begins.                                                           *)
LEMMA TypeBegin ==
  ASSUME TypeInv, NEW op \in {"read", "write"}, NEW at \in Nat, NEW n \in Nat, NEW kind,
         Begin(op, at, n, kind), n > 0, at + n <= Words,
         op = "read" /\ Blank => n >= 2, UNCHANGED device
  PROVE  /\ LoopInv' /\ call' = Call(op, at, n, kind) /\ status' = "SUCCESS"
         /\ pc' \in Started /\ i' = 0 /\ polls' = 0 /\ buffer' = Zeros
         /\ call'.at = at /\ call'.n = n /\ call'.op = op /\ call'.kind = kind
<1>1. /\ call'.at = at /\ call'.n = n /\ call'.op = op /\ call'.kind = kind
      /\ pc' = IF ~Blank /\ op = "read" THEN "command" ELSE "ready"
      /\ i' = 0 /\ polls' = 0 /\ buffer' = Zeros /\ status' = "SUCCESS"
  BY DEF Begin, Call
<1>2. Blank' <=> Blank
  BY DEF Blank
<1>3. LoopInv'
  BY <1>1, <1>2 DEF LoopInv, Flsw, Word, Started
<1> QED
  BY <1>1, <1>3 DEF Begin, Started

(* Within a call it stays the same.                                         *)
LEMMA InCall ==
  ASSUME CallInv, phase \in Calling, UNCHANGED <<phase, call, j, device>>,
         pc' \in Started \cup {"back"}, status' \in {"SUCCESS", "FAIL"}
  PROVE  CallInv'
  BY DEF CallInv, Calling, Call, Step, Blank

(* The waits.                                                               *)
LEMMA TypeWait ==
  ASSUME TypeInv, Wait
  PROVE  TypeInv'
<1> USE DEF TypeInv
<1>1. /\ phase \in Calling /\ pc \in Waits
      /\ UNCHANGED <<hardware, phase, call, buffer, copy, run, j, result>>
  BY DEF Wait, PollDone, PollAgain, PollGivesUp, Polled, Waits, CallInv, Phases, Calling
<1>2. call.n \in Nat
  BY <1>1, SizeFacts DEF CallInv, Calling, Call, Step
<1>3. i \in Nat /\ (Flsw("read") => call.n % 2 = 0 /\ call.op = "read")
  BY <1>1, <1>2, SizeFacts DEF CallInv, Calling, Call, Step, TypeOK, Flsw
<1>4. CASE PollAgain
  <2>1. polls' \in 0..(MaxPolls - 1)
    BY <1>4, SizeFacts DEF PollAgain, TypeOK
  <2>2. UNCHANGED <<i, status, pc>>
    BY <1>4 DEF PollAgain
  <2> QED
    BY <1>1, <2>1, <2>2 DEF TypeOK, EngineInv, CallInv, OffsetInv, LoopInv, hardware, run,
       Blank, Flsw, Word, Step
<1>5. ASSUME NEW s \in {"SUCCESS", "FAIL"}, NEW next \in {AfterWait, "back"}, Polled(s, next)
      PROVE  TypeInv'
  <2>1. /\ Blank' <=> Blank /\ Step' = Step
        /\ \A op : (Flsw(op)' <=> Flsw(op)) /\ (Word(op)' <=> Word(op))
    BY <1>1 DEF hardware, Blank, Flsw, Word, Step
  <2>2. i' \in 0..(call.n + 1)
    BY <1>1, <1>2, <1>3, <1>5 DEF Polled, LoopInv, CallInv, Calling, Call, Flsw, Started, TypeOK
  <2>3. TypeOK'
    BY <1>1, <1>5, <2>2, SizeFacts DEF Polled, TypeOK, hardware, run
  <2>4. EngineInv' /\ OffsetInv'
    <3>1. EngineInv'
      BY <1>1 DEF EngineInv, hardware, Blank
    <3> QED
      BY <1>1, <3>1 DEF OffsetInv, hardware, run
  <2>5. next \in Started \cup {"back"}
    BY <1>1, AfterWaitIs DEF NextRound, Started, Waits
  <2>6. CallInv'
    BY <1>1, <1>5, <2>5, InCall DEF Polled, hardware
  <2>7. LoopInv'
    <3>1. CASE next = "back"
      BY <1>1, <1>5, <2>1, <3>1 DEF LoopInv, Polled, Started
    <3>2. CASE pc = "ready"
      BY <1>1, <1>5, <2>1, <3>2, AfterWaitIs DEF LoopInv, Polled, Started, hardware, Flsw, Word
    <3>3. CASE pc = "countPoll"
      BY <1>1, <1>5, <2>1, <3>3, AfterWaitIs DEF LoopInv, Polled, Started, hardware, Flsw, Word
    <3>4. CASE pc = "settle"
      <4>1. CASE Blank
        <5>1. call.n > 0 /\ (Flsw("read") => call.n >= 2)
          BY <1>1, SizeFacts, <4>1 DEF CallInv, Calling, Call, Step, Flsw
        <5> QED
          BY <1>1, <1>2, <1>5, <2>1, <3>4, <4>1, <5>1, AfterWaitIs DEF LoopInv, Polled, Started, Flsw, Word
      <4>2. CASE ~Blank
        BY <1>1, <1>5, <2>1, <3>4, <4>2, AfterWaitIs DEF LoopInv, Polled, Started, Flsw, Word
      <4> QED
        BY <4>1, <4>2
    <3>5. CASE pc = "dataPoll" /\ next = NextRound /\ next # "back"
      <4>1. ~Last
        BY <3>5 DEF NextRound
      <4>2. i' = i + 1 /\ pc' = next
        BY <1>5, <3>5 DEF Polled
      <4>3. CASE Flsw("write")
        <5>1. pc' = "data" /\ i + 1 <= call.n
          BY <1>2, <1>3, <3>5, <4>1, <4>2, <4>3 DEF NextRound, Last, Flsw, Word
        <5> QED
          BY <1>1, <2>1, <4>2, <4>3, <5>1 DEF LoopInv, Flsw, Word, Started
      <4>4. CASE Flsw("read")
        <5>1. pc' = "data" /\ i + 1 < call.n \div 2
          BY <1>2, <1>3, <3>5, <4>1, <4>2, <4>4, SizeFacts DEF NextRound, Last, Flsw, Word
        <5>2. 2 * (i + 1) + 2 <= call.n
          BY <1>2, <1>3, <4>4, <5>1
        <5> QED
          BY <1>1, <2>1, <4>2, <4>4, <5>1, <5>2 DEF LoopInv, Flsw, Word, Started
      <4>5. CASE ~Blank
        <5>1. i + 1 < call.n /\ pc' \in {"ready", "command", "data"}
          BY <1>2, <1>3, <3>5, <4>1, <4>2, <4>5 DEF NextRound, Last
        <5>2. pc' = IF Word("write") THEN "ready" ELSE IF Word("read") THEN "command" ELSE "data"
          BY <3>5, <4>1, <4>2 DEF NextRound
        <5>3. call.op \in {"read", "write"}
          BY <1>1 DEF CallInv, Calling, Call
        <5> QED
          BY <1>1, <2>1, <4>2, <4>5, <5>1, <5>2, <5>3 DEF LoopInv, Flsw, Word
      <4>6. call.op \in {"read", "write"}
        BY <1>1 DEF CallInv, Calling, Call
      <4> QED
        BY <4>3, <4>4, <4>5, <4>6 DEF Flsw
    <3> QED
      BY <1>1, <3>1, <3>2, <3>3, <3>4, <3>5, AfterWaitIs DEF Waits
  <2> QED
    BY <2>3, <2>4, <2>6, <2>7
<1>6. CASE PollDone
  BY <1>5, <1>6 DEF PollDone
<1>7. CASE PollGivesUp
  BY <1>5, <1>7 DEF PollGivesUp
<1> QED
  BY <1>4, <1>6, <1>7 DEF Wait

(* The accesses to the registers.                                           *)
LEMMA CallFacts ==
  ASSUME TypeInv, phase \in Calling
  PROVE  /\ call.op \in {"read", "write"} /\ call.at \in Nat /\ call.n \in Nat
         /\ call.n > 0 /\ call.n <= BurstWords /\ call.at + call.n <= Words
         /\ i \in Nat /\ i <= call.n + 1
         /\ Flsw("read") => call.n >= 2 /\ call.n % 2 = 0
         /\ call.op = "write" =>
              call.kind \in {"test", "img", "sum"} /\ (call.kind = "sum" <=> phase = "sumUp")
         /\ ~Blank => Word(call.op)
         /\ Blank => Flsw(call.op)
<1> USE SizeFacts DEF TypeInv, CallInv, Calling, Call, Step, Flsw, Word, TypeOK
<1>1. call.op \in {"read", "write"} /\ call.n \in Nat /\ call.n > 0 /\ call.n <= BurstWords
  OBVIOUS
<1>2. call.at \in Nat
  OBVIOUS
<1>3. i \in Nat /\ i <= call.n + 1 /\ call.at + call.n <= Words
  BY <1>1, <1>2
<1>4. Flsw("read") => call.n >= 2 /\ call.n % 2 = 0
  OBVIOUS
<1>5. call.op = "write" =>
        call.kind \in {"test", "img", "sum"} /\ (call.kind = "sum" <=> phase = "sumUp")
  OBVIOUS
<1> QED
  BY <1>1, <1>3, <1>4, <1>5

(* What the k-th word of a buffer can be.                                   *)
LEMMA DatumType ==
  ASSUME TypeInv, phase \in Calling, call.op = "write", NEW k \in Nat
  PROVE  Datum(k) \in Values \cup {Ones}
<1>1. k < call.n => call.at + k \in Index
  BY CallFacts, SizeFacts DEF Index
<1> QED
  BY <1>1, CallFacts, ValueTypes DEF Datum

(* The engine moves on by n words.                                          *)
Moved(e, d, n, busy) == [e EXCEPT !.data = d, !.at = @ + n, !.left = @ - n, !.busy = busy]

LEMMA MovedIs ==
  ASSUME NEW e \in Engines, NEW d, NEW n \in Nat, NEW busy
  PROVE  /\ Moved(e, d, n, busy).cmd = e.cmd /\ Moved(e, d, n, busy).at = e.at + n
         /\ Moved(e, d, n, busy).left = e.left - n /\ Moved(e, d, n, busy).data = d
  BY DEF Engines, Moved

LEMMA MovedType ==
  ASSUME NEW e \in Engines, NEW d \in Seq(Values \cup {Ones}), NEW n \in Nat,
         NEW busy \in BOOLEAN, n <= e.left, e.at + e.left <= Words
  PROVE  /\ Moved(e, d, n, busy) \in Engines
         /\ Moved(e, d, n, busy).at + Moved(e, d, n, busy).left <= Words
<1>1. e.at \in Nat /\ e.left \in Nat /\ e.left <= BurstWords
  BY SizeFacts DEF Engines
<1>2. e.at + n \in 0..Words /\ e.left - n \in 0..BurstWords
  BY <1>1, SizeFacts
<1>3. ASSUME NEW at \in 0..Words, NEW left \in 0..BurstWords
      PROVE  [e EXCEPT !.data = d, !.at = at, !.left = left, !.busy = busy] \in Engines
  BY DEF Engines
<1>4. Moved(e, d, n, busy) \in Engines
  BY <1>2, <1>3 DEF Moved
<1>5. (e.at + n) + (e.left - n) <= Words
  BY <1>1
<1> QED
  BY <1>4, <1>5, MovedIs

LEMMA TakenBusy ==
  ASSUME EngineInv, NEW d
  PROVE  Taken(d).busy = TRUE
  BY DEF EngineInv, Engines, Taken

LEMMA TakenIs ==
  ASSUME NEW a \in Values \cup {Ones}, NEW b \in Values \cup {Ones}, EngineInv, engine.left > 0
  PROVE  LET n == IF engine.left = 1 THEN 1 ELSE 2
         IN /\ Taken(<<a, b>>) \in Engines
            /\ Taken(<<a, b>>).at + Taken(<<a, b>>).left <= Words
            /\ Taken(<<a, b>>).cmd = engine.cmd /\ Taken(<<a, b>>).at = engine.at + n
            /\ Taken(<<a, b>>).left = engine.left - n
            /\ Len(Taken(<<a, b>>).data) = n /\ Taken(<<a, b>>).data[1] = a
            /\ n = 2 => Taken(<<a, b>>).data[2] = b
<1> DEFINE S == Values \cup {Ones}
           n == IF engine.left = 1 THEN 1 ELSE 2
           d == SubSeq(<<a, b>>, 1, n)
<1>1. engine \in Engines /\ engine.left \in Nat /\ engine.at + engine.left <= Words
  BY SizeFacts DEF EngineInv, Engines
<1>2. n \in 1..2 /\ n <= engine.left /\ Least(Len(<<a, b>>), engine.left) = n
  BY <1>1 DEF Least
<1>3. d \in Seq(S) /\ Len(d) = n /\ \A k \in 1..n : d[k] = <<a, b>>[k]
  <2>1. n \in Int /\ 1 \in Int /\ 1 <= n /\ n - 1 + 1 = n
    BY <1>2
  <2>2. \A k \in 1..n : <<a, b>>[k] \in S
    BY <1>2
  <2>3. \A k \in 1..n : 1 + k - 1 = k
    BY <1>2
  <2> HIDE DEF n, S
  <2>4. /\ d \in Seq(S) /\ Len(d) = IF 1 <= n THEN n - 1 + 1 ELSE 0
        /\ \A k \in 1..(n - 1 + 1) : d[k] = <<a, b>>[1 + k - 1]
    BY <2>1, <2>2, SubSeqProperties
  <2> QED
    BY <2>1, <2>3, <2>4
<1>4. Taken(<<a, b>>) = Moved(engine, d, n, TRUE)
  BY <1>2 DEF Taken, Moved
<1>5. /\ Taken(<<a, b>>) \in Engines /\ Taken(<<a, b>>).at + Taken(<<a, b>>).left <= Words
      /\ Taken(<<a, b>>).cmd = engine.cmd /\ Taken(<<a, b>>).at = engine.at + n
      /\ Taken(<<a, b>>).left = engine.left - n
      /\ Taken(<<a, b>>).data = d
  <2> HIDE DEF n, d
  <2>1. n \in Nat
    BY <1>2
  <2>2. Moved(engine, d, n, TRUE) \in Engines
        /\ Moved(engine, d, n, TRUE).at + Moved(engine, d, n, TRUE).left <= Words
    BY <1>1, <1>2, <1>3, <2>1, MovedType
  <2>3. /\ Moved(engine, d, n, TRUE).cmd = engine.cmd
        /\ Moved(engine, d, n, TRUE).at = engine.at + n
        /\ Moved(engine, d, n, TRUE).left = engine.left - n
        /\ Moved(engine, d, n, TRUE).data = d
    BY <1>1, <2>1 DEF Moved, Engines
  <2> QED
    BY <1>4, <2>2, <2>3
<1>6. d[1] = a /\ (n = 2 => d[2] = b)
  BY <1>2, <1>3
<1> HIDE DEF d
<1> QED
  BY <1>3, <1>5, <1>6

(* The accesses to the registers.                                           *)
LEMMA TypeAccess ==
  ASSUME TypeInv, Access
  PROVE  TypeInv'
<1>0. CASE Wait
  BY <1>0, TypeWait
<1> SUFFICES ASSUME ~Wait PROVE TypeInv'
  BY <1>0
<1> USE DEF TypeInv
<1>1. /\ phase \in Calling /\ pc \in Started
      /\ UNCHANGED <<device, phase, call, copy, run, j>>
  BY DEF Access, AcquireFails, SetCount, Command, WriteDword, ReadDword, WriteEewr,
     WriteEerd, ReadEerd, CallInv, Phases, Calling, Started, hardware
<1>2. /\ Blank' <=> Blank
      /\ \A op : (Flsw(op)' <=> Flsw(op)) /\ (Word(op)' <=> Word(op))
      /\ OffsetInv'
  BY <1>1 DEF Blank, Flsw, Word, OffsetInv, run
<1>3. CASE AcquireFails
  <2>1. UNCHANGED <<hardware, buffer, i, polls>> /\ pc' = "back" /\ status' = "FAIL"
    BY <1>3 DEF AcquireFails
  <2>2. TypeOK' /\ EngineInv' /\ LoopInv'
    BY <1>1, <1>2, <2>1 DEF TypeOK, EngineInv, LoopInv, hardware, run, Started
  <2> QED
    BY <1>1, <1>2, <2>1, <2>2, InCall
<1>4. CASE SetCount
  <2>1. /\ UNCHANGED <<nvm, engine, buffer, i, polls, status>> /\ count' = call.n
        /\ pc = "acquire"
        /\ pc' = IF call.op = "read" THEN "countPoll" ELSE "command"
    BY <1>4 DEF SetCount
  <2>2. TypeOK' /\ EngineInv'
    <3>1. EngineInv'
      BY <1>1, <2>1 DEF EngineInv, Blank
    <3> QED
      BY <1>1, <2>1, <3>1, CallFacts, SizeFacts DEF TypeOK, run
  <2>3. LoopInv'
    BY <1>1, <1>2, <2>1, CallFacts DEF LoopInv, Flsw, Word, Started
  <2>4. CallInv'
    BY <1>1, <2>1, InCall DEF CallInv, Started
  <2> QED
    BY <1>2, <2>2, <2>3, <2>4
<1>5. CASE Command
  <2>1. /\ UNCHANGED <<nvm, count, buffer, i, polls>> /\ Blank /\ pc = "command"
        /\ engine' = engine \/ engine' = Working(call.op, call.at, count)
        /\ pc' \in {"settle", "back"} /\ status' \in {"SUCCESS", "FAIL"}
    BY <1>5 DEF Command, CallInv
  <2>2. EngineInv' /\ engine'.at \in 0..Words /\ engine'.left \in 0..BurstWords
    <3>1. CASE engine' = engine
      BY <1>2, <3>1 DEF EngineInv, TypeOK
    <3>2. CASE engine' = Working(call.op, call.at, count)
      <4>1. count = call.n
        BY <2>1 DEF LoopInv
      <4>2. <<>> \in Seq(Values \cup {Ones})
        BY EmptySeq
      <4> QED
        BY <1>1, <1>2, <2>1, <3>2, <4>1, <4>2, CallFacts, SizeFacts DEF EngineInv, Engines, Working
    <3> QED
      BY <2>1, <3>1, <3>2
  <2>3. TypeOK'
    BY <1>1, <2>1, <2>2 DEF TypeOK, run
  <2>4. LoopInv'
    BY <1>1, <1>2, <2>1, CallFacts DEF LoopInv, Flsw, Word, Started
  <2>5. CallInv'
    BY <1>1, <2>1, InCall DEF Started
  <2> QED
    BY <1>2, <2>2, <2>3, <2>4, <2>5
<1>6. CASE WriteDword
  <2>1. /\ UNCHANGED <<nvm, count, buffer, i, polls, status>> /\ Flsw("write")
        /\ pc = "data" /\ pc' = "dataPoll"
    BY <1>6 DEF WriteDword
  <2>2. EngineInv' /\ engine'.at \in 0..Words /\ engine'.left \in 0..BurstWords
    <3>1. CASE engine' = engine
      BY <1>2, <3>1 DEF EngineInv, TypeOK
    <3>2. CASE engine' # engine
      <4> DEFINE a == Datum(2 * i)
                 b == Datum(2 * i + 1)
      <4>1. engine' = Taken(<<a, b>>) /\ engine.cmd = "write" /\ engine.left > 0
        BY <1>6, <3>2 DEF WriteDword
      <4>2. a \in Values \cup {Ones} /\ b \in Values \cup {Ones}
        <5>1. 2 * i \in Nat /\ 2 * i + 1 \in Nat
          BY <1>1, CallFacts
        <5> QED
          BY <1>1, <2>1, <5>1, DatumType DEF Flsw
      <4>3. engine \in Engines /\ engine.at + engine.left <= Words
        BY DEF EngineInv
      <4> HIDE DEF a, b
      <4>4. /\ engine' \in Engines /\ engine'.at + engine'.left <= Words
            /\ engine'.cmd = "write"
        BY <4>1, <4>2, TakenIs
      <4>5. engine'.busy = TRUE
        BY <4>1, TakenBusy
      <4> QED
        BY <1>2, <2>1, <4>4, <4>5 DEF EngineInv, Engines, Flsw
    <3> QED
      BY <3>1, <3>2
  <2>3. TypeOK'
    BY <1>1, <2>1, <2>2 DEF TypeOK, run
  <2>4. LoopInv'
    BY <1>1, <1>2, <2>1 DEF LoopInv, Flsw, Word, Started
  <2>5. CallInv'
    BY <1>1, <2>1, InCall DEF CallInv, Started
  <2> QED
    BY <1>2, <2>2, <2>3, <2>4, <2>5
<1>7. CASE ReadDword
  <2>1. /\ UNCHANGED <<nvm, count, i, polls, status>> /\ Flsw("read")
        /\ pc = "data" /\ pc' = "dataPoll"
    BY <1>7 DEF ReadDword
  <2>2. EngineInv' /\ engine'.at \in 0..Words /\ engine'.left \in 0..BurstWords
    <3>1. CASE ~Brings
      BY <1>2, <1>7, <3>1 DEF ReadDword, EngineInv, TypeOK
    <3>2. CASE Brings
      <4>1. engine' = [engine EXCEPT !.at = @ + 2, !.left = @ - 2, !.busy = (engine.left > 2)]
        BY <1>7, <3>2 DEF ReadDword
      <4>2. engine \in Engines /\ engine.at + engine.left <= Words /\ engine.left >= 2
            /\ engine.data = <<>> /\ engine.cmd = "read"
        BY <3>2 DEF EngineInv, Brings
      <4>3. engine' = Moved(engine, <<>>, 2, engine.left > 2)
        BY <4>1, <4>2 DEF Engines, Moved
      <4>4. <<>> \in Seq(Values \cup {Ones}) /\ 2 \in Nat /\ 2 <= engine.left
            /\ (engine.left > 2) \in BOOLEAN
        BY <4>2, EmptySeq
      <4>5. /\ engine' \in Engines /\ engine'.at + engine'.left <= Words
            /\ engine'.data = <<>>
        <5>1. engine' \in Engines /\ engine'.at + engine'.left <= Words
          BY <4>2, <4>3, <4>4, MovedType
        <5>2. engine'.data = <<>>
          BY <4>2, <4>3, <4>4, MovedIs
        <5> QED
          BY <5>1, <5>2
      <4> QED
        BY <1>2, <2>1, <4>5 DEF EngineInv, Engines, Flsw
    <3> QED
      BY <3>1, <3>2
  <2>3. buffer' \in [Index -> SUBSET Values]
    <3>1. ASSUME NEW k \in {2 * i, 2 * i + 1} PROVE Reads[k] \in SUBSET Values
      <4>1. CASE Brings
        <5>2. /\ engine.at \in Nat /\ engine.left \in Nat /\ engine.left >= 2
              /\ engine.at + engine.left <= Words
          BY <4>1, SizeFacts DEF Brings, EngineInv, Engines
        <5>3. i \in Nat /\ Words \in Nat
          BY <1>1, CallFacts, SizeFacts
        <5>1. engine.at + k - 2 * i \in Index
          BY <3>1, <5>2, <5>3 DEF Index
        <5> QED
          BY <3>1, <4>1, <5>1 DEF Reads, TypeOK
      <4>2. CASE ~Brings
        BY <3>1, <4>2, ValueTypes DEF Reads
      <4> QED
        BY <4>1, <4>2
    <3>2. DOMAIN Reads = {2 * i, 2 * i + 1}
      BY DEF Reads
    <3> QED
      BY <1>7, <3>1, <3>2 DEF ReadDword, TypeOK
  <2>4. TypeOK'
    BY <1>1, <2>1, <2>2, <2>3 DEF TypeOK, run
  <2>5. LoopInv'
    BY <1>1, <1>2, <2>1 DEF LoopInv, Flsw, Word, Started
  <2>6. CallInv'
    BY <1>1, <2>1, InCall DEF CallInv, Started
  <2> QED
    BY <1>2, <2>2, <2>4, <2>5, <2>6
<1>8. CASE WriteEewr
  <2>1. /\ UNCHANGED <<nvm, count, buffer, i, polls, status>> /\ Word("write")
        /\ pc = "data" /\ pc' = "dataPoll"
        /\ engine' = [cmd |-> "write", at |-> call.at + i + 1, left |-> 0,
                      data |-> <<Datum(i)>>, busy |-> TRUE]
    BY <1>8 DEF WriteEewr
  <2>2. i < call.n /\ ~Blank /\ call.op = "write"
    BY <1>1, <2>1 DEF LoopInv, Word
  <2>3. <<Datum(i)>> \in Seq(Values \cup {Ones})
    <3>1. Datum(i) \in Values \cup {Ones}
      BY <1>1, <2>2, CallFacts, DatumType
    <3> QED
      BY <3>1
  <2>4. EngineInv' /\ engine'.at \in 0..Words /\ engine'.left \in 0..BurstWords
    BY <1>1, <2>1, <2>2, <2>3, CallFacts, SizeFacts DEF EngineInv, Engines
  <2>5. TypeOK'
    BY <1>1, <2>1, <2>4 DEF TypeOK, run
  <2>6. LoopInv'
    BY <1>1, <1>2, <2>1, <2>2 DEF LoopInv, Flsw, Word, Started
  <2>7. CallInv'
    BY <1>1, <2>1, InCall DEF CallInv, Started
  <2> QED
    BY <1>2, <2>4, <2>5, <2>6, <2>7
<1>9. CASE WriteEerd
  <2>1. /\ UNCHANGED <<count, buffer, i, polls, status>> /\ ~Blank
        /\ pc = "command" /\ pc' = "settle"
        /\ nvm' = nvm \/ nvm' = Landed
        /\ engine' = engine \/ engine' = Working("read", call.at + i, 1)
    BY <1>9 DEF WriteEerd
  <2>2. i < call.n
    BY <1>1, <2>1 DEF LoopInv
  <2>3. EngineInv' /\ engine'.at \in 0..Words /\ engine'.left \in 0..BurstWords
    <3>1. CASE engine' = engine
      BY <1>2, <3>1 DEF EngineInv, TypeOK
    <3>2. CASE engine' = Working("read", call.at + i, 1)
      <4>1. <<>> \in Seq(Values \cup {Ones})
        BY EmptySeq
      <4> QED
        BY <1>1, <1>2, <2>2, <3>2, <4>1, CallFacts, SizeFacts DEF EngineInv, Engines, Working
    <3> QED
      BY <2>1, <3>1, <3>2
  <2>4. TypeOK'
    BY <1>1, <2>1, <2>3, LandedType DEF TypeOK, run
  <2>5. LoopInv'
    BY <1>1, <1>2, <2>1, <2>2 DEF LoopInv, Flsw, Word, Started
  <2>6. CallInv'
    BY <1>1, <2>1, InCall DEF CallInv, Started
  <2> QED
    BY <1>2, <2>3, <2>4, <2>5, <2>6
<1>10. CASE ReadEerd
  <2> DEFINE got == IF engine.cmd = "read" /\ ~engine.busy THEN nvm[engine.at] ELSE {Junk}
  <2>1. /\ UNCHANGED <<hardware, polls, status>> /\ Word("read")
        /\ pc = "data" /\ pc' = NextRound /\ i' = i + 1
        /\ buffer' = [buffer EXCEPT ![i] = got]
    BY <1>10 DEF ReadEerd
  <2>2. i < call.n /\ ~Blank /\ ~Word("write")
    BY <1>1, <2>1 DEF LoopInv, Word
  <2>3. pc' \in {"back", "command"} /\ (pc' = "command" => i + 1 < call.n)
    BY <1>1, <2>1, <2>2, CallFacts DEF NextRound, Last, Word, Flsw
  <2>4. got \in SUBSET Values
    <3>1. CASE engine.cmd = "read" /\ ~engine.busy
      <4>1. engine.at \in Index
        BY <2>2, <3>1, SizeFacts DEF EngineInv, Engines, Index
      <4> QED
        BY <3>1, <4>1 DEF TypeOK
    <3>2. CASE ~(engine.cmd = "read" /\ ~engine.busy)
      BY <3>2, ValueTypes
    <3> QED
      BY <3>1, <3>2
  <2> HIDE DEF got
  <2>5. buffer' \in [Index -> SUBSET Values]
    BY <2>1, <2>4 DEF TypeOK
  <2>6. i' \in 0..(call.n + 1)
    BY <1>1, <2>1, <2>2, CallFacts
  <2>7. TypeOK' /\ EngineInv'
    BY <1>1, <1>2, <2>1, <2>5, <2>6 DEF TypeOK, EngineInv, hardware, run
  <2>8. LoopInv'
    BY <1>1, <1>2, <2>1, <2>2, <2>3 DEF LoopInv, Started
  <2>9. CallInv'
    BY <1>1, <2>1, <2>3, InCall DEF CallInv, Started
  <2> QED
    BY <1>2, <2>7, <2>8, <2>9
<1> QED
  BY <1>3, <1>4, <1>5, <1>6, <1>7, <1>8, <1>9, <1>10 DEF Access

(* The NIC finishes an access.                                              *)
LEMMA TypeDone ==
  ASSUME TypeInv, AccessDone
  PROVE  TypeInv'
<1> USE DEF TypeInv
<1>1. /\ nvm' = Landed /\ engine' = [engine EXCEPT !.busy = FALSE, !.data = <<>>]
      /\ UNCHANGED <<device, count, phase, pc, call, i, polls, status, buffer, copy, run, j>>
  BY DEF AccessDone
<1>2. <<>> \in Seq(Values \cup {Ones})
  BY EmptySeq
<1>3. /\ engine' \in Engines /\ engine'.at = engine.at /\ engine'.left = engine.left
      /\ engine'.cmd = engine.cmd /\ engine'.data = <<>>
  BY <1>1, <1>2 DEF EngineInv, Engines
<1>4. EngineInv'
  BY <1>1, <1>3 DEF EngineInv, Blank
<1>5. TypeOK'
  BY <1>1, <1>3, LandedType DEF TypeOK, run
<1>6. CallInv' /\ OffsetInv' /\ LoopInv'
  BY <1>1 DEF CallInv, OffsetInv, LoopInv, run, Blank, Flsw, Word, Call, Step
<1> QED
  BY <1>4, <1>5, <1>6

(* A run ends.                                                              *)
LEMMA TypeEnd ==
  ASSUME TypeInv, NEW how, End(how), UNCHANGED <<device, count, engine, file, mac, runs>>,
         nvm' \in [Index -> SUBSET Values], copy' \in [Index -> SUBSET Values], j' \in 0..Words
  PROVE  TypeInv'
<1>1. /\ phase' = "idle" /\ pc' = "idle" /\ call'.at = 0 /\ call'.n = 0 /\ call'.op = "none"
      /\ i' = 0 /\ polls' = 0 /\ status' = "SUCCESS" /\ buffer' = Zeros
  BY DEF End, Call
<1>2. TypeOK'
  BY <1>1, ValueTypes, SizeFacts DEF TypeInv, TypeOK
<1>3. EngineInv'
  BY DEF TypeInv, EngineInv, Blank
<1>4. CallInv' /\ OffsetInv' /\ LoopInv'
  BY <1>1 DEF CallInv, OffsetInv, LoopInv, Phases, Calling, Started, Flsw, Word
<1> QED
  BY <1>2, <1>3, <1>4 DEF TypeInv

(* An operation begins its call.                                            *)
LEMMA TypeCall ==
  ASSUME TypeInv, NEW op \in {"read", "write"}, NEW at \in Nat, NEW n \in 1..BurstWords,
         NEW kind, Begin(op, at, n, kind), at + n <= Words, op = "read" /\ Blank => n >= 2,
         UNCHANGED <<device, count, engine, run>>,
         nvm' \in [Index -> SUBSET Values], copy' \in [Index -> SUBSET Values], j' \in 0..Words,
         phase' \in Calling,
         \/ phase' = "test" /\ op = "write" /\ at = 0 /\ n = 1 /\ kind = "test"
         \/ phase' = "check" /\ op = "read" /\ at = 0 /\ n = 2 /\ kind = "none"
         \/ phase' = "burst" /\ op = "write" /\ at = j' /\ n = BurstWords /\ kind = "img"
         \/ phase' = "sum" /\ op = "read" /\ at = j' /\ n = Step /\ kind = "none"
         \/ phase' = "sumUp" /\ op = "write" /\ at = ChecksumReg /\ n = 1 /\ kind = "sum"
         \/ phase' = "dumped" /\ op = "read" /\ at = j' /\ n = BurstWords /\ kind = "none",
         OffsetInv'
  PROVE  TypeInv'
<1>0. n \in Nat /\ n > 0
  BY SizeFacts
<1>1. /\ LoopInv' /\ call' = Call(op, at, n, kind) /\ status' = "SUCCESS"
      /\ pc' \in Started /\ i' = 0 /\ polls' = 0 /\ buffer' = Zeros
      /\ call'.at = at /\ call'.n = n /\ call'.op = op /\ call'.kind = kind
  BY <1>0, TypeBegin
<1>2. TypeOK'
  <2>1. call'.at + call'.n \in 0..Words /\ i' \in 0..(call'.n + 1) /\ polls' \in 0..(MaxPolls - 1)
    BY <1>0, <1>1, SizeFacts
  <2> QED
    BY <1>1, <2>1, ValueTypes DEF TypeInv, TypeOK, run
<1>3. EngineInv'
  BY DEF TypeInv, EngineInv, Blank
<1>4. Step' = Step
  BY DEF Step, Blank
<1>5. CallInv'
  BY <1>1, <1>4 DEF CallInv, Phases, Calling, Call
<1> QED
  BY <1>1, <1>2, <1>3, <1>5 DEF TypeInv

(* The phase changes outside a call: the place in the loop does not matter. *)
LEMMA TypeBetween ==
  ASSUME TypeInv, phase \in Calling \cup {"idle"}, pc \in {"idle", "back"},
         UNCHANGED <<device, count, engine, pc, call, i, polls, status, buffer, run>>,
         nvm' \in [Index -> SUBSET Values], copy' \in [Index -> SUBSET Values], j' \in 0..Words,
         phase' \in {"file", "dump"}, OffsetInv'
  PROVE  TypeInv'
<1> USE DEF TypeInv
<1>1. TypeOK'
  BY DEF TypeOK, run
<1>2. EngineInv' /\ LoopInv'
  BY DEF EngineInv, LoopInv, Blank, Flsw, Word, Started
<1>3. CallInv'
  BY DEF CallInv, Phases, Calling
<1> QED
  BY <1>1, <1>2, <1>3

(* What an erasure leaves.                                                  *)
LEMMA ErasesType ==
  ASSUME TypeInv, NEW kept, Erases(kept)
  PROVE  nvm' \in [Index -> SUBSET Values]
<1>1. [w \in Index |-> IF w \in kept THEN nvm[w] ELSE {}] \in [Index -> SUBSET Values]
  BY DEF TypeInv, TypeOK
<1> QED
  BY <1>1 DEF Erases, TypeInv, TypeOK

(* What a read has brought is of the type of the memory.                    *)
LEMMA CopiedType ==
  ASSUME TypeInv, phase \in {"sum", "dumped"}
  PROVE  Copied \in [Index -> SUBSET Values]
<1>1. phase \in Calling /\ call.at = j
  BY DEF Calling, TypeInv, CallInv, Call
<1>2. ASSUME NEW w \in Index, w \in j..(j + call.n - 1) PROVE w - j \in Index
  BY <1>1, <1>2, CallFacts, SizeFacts DEF Index
<1> QED
  BY <1>2 DEF Copied, TypeInv, TypeOK

LEMMA TypeWrite ==
  ASSUME TypeInv, WriteNvm
  PROVE  TypeInv'
<1>0. /\ nvm \in [Index -> SUBSET Values] /\ copy \in [Index -> SUBSET Values]
      /\ j \in 0..Words /\ j \in Nat /\ file \in 0..(Words \div BurstWords)
  BY SizeFacts DEF TypeInv, TypeOK
<1>1. CASE EraseNvm
  <2>1. nvm' \in [Index -> SUBSET Values]
    BY <1>1, ErasesType DEF EraseNvm
  <2>2. /\ phase' = "test" /\ Begin("write", 0, 1, "test")
        /\ UNCHANGED <<device, count, engine, copy, run, j>>
    BY <1>1 DEF EraseNvm
  <2>3. OffsetInv' /\ "test" \in Calling /\ 1 \in 1..BurstWords /\ 0 + 1 <= Words
    BY <1>1, <2>2, SizeFacts DEF TypeInv, OffsetInv, Calling, EraseNvm
  <2> QED
    BY <1>0, <2>1, <2>2, <2>3, TypeCall
<1>2. CASE TestWritten
  <2>1. /\ phase' = "check" /\ Begin("read", 0, 2, "none")
        /\ UNCHANGED <<device, count, engine, nvm, copy, run, j>>
    BY <1>2 DEF TestWritten, hardware
  <2>2. OffsetInv' /\ "check" \in Calling /\ 2 \in 1..BurstWords /\ 0 + 2 <= Words
    BY <1>2, <2>1, SizeFacts DEF TypeInv, OffsetInv, Calling, TestWritten
  <2> QED
    BY <1>0, <2>1, <2>2, TypeCall
<1>3. CASE TestRead
  <2>1. nvm' \in [Index -> SUBSET Values]
    BY <1>3, ErasesType DEF TestRead
  <2>2. UNCHANGED <<device, count, engine, copy, run, j>> /\ phase = "check" /\ pc = "back"
    BY <1>3 DEF TestRead
  <2>3. CASE End("bitBang")
    BY <1>0, <2>1, <2>2, <2>3, TypeEnd DEF run
  <2>4. CASE phase' = "file" /\ UNCHANGED <<pc, call, i, polls, status, buffer, result>>
    <3>1. j = 0
      BY <2>2 DEF TypeInv, OffsetInv
    <3>2. 0 <= file * BurstWords
      BY <1>0, BurstFacts
    <3>3. OffsetInv'
      BY <2>2, <2>4, <3>1, <3>2, BurstFacts DEF OffsetInv, run, BurstStart
    <3> QED
      BY <1>0, <2>1, <2>2, <2>4, <3>3, TypeBetween DEF Calling
  <2> QED
    BY <1>3, <2>3, <2>4 DEF TestRead
<1>4. CASE NextBurst
  <2>1. /\ phase' = "burst" /\ Begin("write", j, BurstWords, "img")
        /\ UNCHANGED <<device, count, engine, nvm, copy, run, j>>
        /\ phase = "file" /\ j < file * BurstWords
    BY <1>4 DEF NextBurst, hardware
  <2>2. BurstStart(j) /\ j + BurstWords <= Words
    <3>1. BurstStart(j)
      BY <2>1 DEF TypeInv, OffsetInv
    <3>2. j + BurstWords <= file * BurstWords /\ file * BurstWords \in 0..Words
      BY <1>0, <2>1, <3>1, BurstFacts
    <3> QED
      BY <1>0, <3>1, <3>2, SizeFacts
  <2>3. OffsetInv' /\ "burst" \in Calling /\ BurstWords \in 1..BurstWords
    BY <2>1, <2>2, SizeFacts DEF OffsetInv, Calling, run, BurstStart
  <2> QED
    BY <1>0, <2>1, <2>2, <2>3, TypeCall
<1>5. CASE BurstWritten
  <2>1. /\ j' = j + BurstWords /\ phase' = "file" /\ phase = "burst" /\ pc = "back"
        /\ UNCHANGED <<device, count, engine, nvm, pc, call, i, polls, status, buffer, copy, run>>
    BY <1>5 DEF BurstWritten, hardware
  <2>2. BurstStart(j) /\ j < file * BurstWords
    BY <2>1 DEF TypeInv, OffsetInv
  <2>3. /\ j + BurstWords <= file * BurstWords /\ BurstStart(j + BurstWords)
        /\ file * BurstWords \in 0..Words
    BY <1>0, <2>2, BurstFacts
  <2>4. j' \in 0..Words
    BY <1>0, <2>1, <2>3, SizeFacts
  <2>5. OffsetInv'
    BY <2>1, <2>3 DEF OffsetInv, run, BurstStart
  <2> QED
    BY <1>0, <2>1, <2>4, <2>5, TypeBetween DEF Calling
<1>6. CASE NoFile
  BY <1>0, <1>6, TypeEnd DEF NoFile, hardware, run
<1>7. CASE UpdateSkipped
  BY <1>0, <1>7, TypeEnd DEF UpdateSkipped, hardware, run
<1>8. CASE Update
  <2>1. /\ phase' = "sum" /\ j' = 0 /\ Begin("read", 0, Step, "none")
        /\ UNCHANGED <<device, count, engine, nvm, copy, run>>
    BY <1>8 DEF Update, hardware
  <2>2. /\ OffsetInv' /\ "sum" \in Calling /\ Step \in 1..BurstWords /\ 0 + Step <= Words
        /\ 0 \in 0..Words /\ (Blank => Step >= 2)
    BY <2>1, SizeFacts DEF OffsetInv, Calling, Step
  <2> QED
    BY <1>0, <2>1, <2>2, TypeCall
<1>9. CASE WordsSummed
  <2>1. /\ copy' = Copied /\ j' = j + Step /\ phase = "sum"
        /\ UNCHANGED <<device, count, engine, nvm, run>>
    BY <1>9 DEF WordsSummed, hardware
  <2>2. copy' \in [Index -> SUBSET Values]
    BY <2>1, CopiedType
  <2>3. j < ChecksumReg
    BY <2>1 DEF TypeInv, OffsetInv
  <2>4. Step \in 1..BurstWords /\ Step \in {1, 2} /\ (Blank => Step >= 2)
    BY SizeFacts DEF Step
  <2>5. j' \in 0..Words /\ j' \in Nat
    BY <1>0, <2>1, <2>3, <2>4, SizeFacts
  <2>6. CASE j + Step < ChecksumReg
    <3>1. phase' = "sum" /\ Begin("read", j + Step, Step, "none")
      BY <1>9, <2>6 DEF WordsSummed
    <3>2. OffsetInv' /\ "sum" \in Calling /\ j + Step + Step <= Words /\ j + Step \in Nat
      BY <1>0, <2>1, <2>4, <2>6, <3>1, SizeFacts DEF OffsetInv, Calling
    <3> QED
      BY <1>0, <2>1, <2>2, <2>4, <2>5, <3>1, <3>2, TypeCall
  <2>7. CASE ~(j + Step < ChecksumReg)
    <3>1. phase' = "sumUp" /\ Begin("write", ChecksumReg, 1, "sum")
      BY <1>9, <2>7 DEF WordsSummed
    <3>2. OffsetInv' /\ "sumUp" \in Calling /\ 1 \in 1..BurstWords
      BY <3>1, SizeFacts DEF OffsetInv, Calling
    <3> QED
      BY <1>0, <2>1, <2>2, <2>5, <3>1, <3>2, SizeFacts, TypeCall
  <2> QED
    BY <2>6, <2>7
<1>10. CASE SumFails
  BY <1>0, <1>10, TypeEnd DEF SumFails, hardware, run
<1>11. CASE Updated
  BY <1>0, <1>11, TypeEnd DEF Updated, hardware, run
<1> QED
  BY <1>1, <1>2, <1>3, <1>4, <1>5, <1>6, <1>7, <1>8, <1>9, <1>10, <1>11 DEF WriteNvm

(* A dump, a start and a kill.                                              *)
LEMMA TypeOther ==
  ASSUME TypeInv, Start \/ DumpData \/ Kill
  PROVE  TypeInv'
<1>0. /\ nvm \in [Index -> SUBSET Values] /\ copy \in [Index -> SUBSET Values]
      /\ j \in 0..Words /\ j \in Nat /\ file \in 0..(Words \div BurstWords)
      /\ runs \in 0..MaxRuns
  BY SizeFacts DEF TypeInv, TypeOK
<1>1. CASE Start
  <2>1. /\ runs < MaxRuns /\ runs' = runs + 1 /\ file' \in 0..(Words \div BurstWords)
        /\ phase = "idle" /\ phase' \in {"erase", "dump"} /\ copy' = Zeros /\ j' = 0
        /\ UNCHANGED <<hardware, pc, call, i, polls, status, buffer>>
    BY <1>1 DEF Start
  <2>2. runs' \in 0..MaxRuns /\ j' \in 0..Words
    BY <1>0, <2>1, SizeFacts
  <2>3. TypeOK'
    BY <2>1, <2>2, ValueTypes DEF TypeInv, TypeOK, hardware
  <2>4. EngineInv' /\ LoopInv'
    BY <2>1 DEF TypeInv, EngineInv, LoopInv, hardware, Blank, Flsw, Word
  <2>5. OffsetInv'
    BY <2>1, BurstFacts DEF OffsetInv
  <2>6. CallInv'
    BY <2>1 DEF TypeInv, CallInv, Phases, Calling
  <2> QED
    BY <2>3, <2>4, <2>5, <2>6 DEF TypeInv
<1>2. CASE DumpBurst
  <2>1. /\ phase' = "dumped" /\ Begin("read", j, BurstWords, "none")
        /\ UNCHANGED <<device, count, engine, nvm, copy, run, j>>
        /\ phase = "dump" /\ j < Words
    BY <1>2 DEF DumpBurst, hardware
  <2>2. BurstStart(j) /\ j + BurstWords <= Words
    <3>1. BurstStart(j)
      BY <2>1 DEF TypeInv, OffsetInv
    <3> QED
      BY <1>0, <2>1, <3>1, BurstFacts
  <2>3. OffsetInv' /\ "dumped" \in Calling /\ BurstWords \in 1..BurstWords /\ BurstWords >= 2
    BY <2>1, <2>2, SizeFacts DEF OffsetInv, Calling, BurstStart
  <2> QED
    BY <1>0, <2>1, <2>2, <2>3, TypeCall
<1>3. CASE BurstDumped
  <2>1. /\ copy' = Copied /\ j' = j + BurstWords /\ phase' = "dump"
        /\ phase = "dumped" /\ pc = "back"
        /\ UNCHANGED <<device, count, engine, nvm, pc, call, i, polls, status, buffer, run>>
    BY <1>3 DEF BurstDumped, hardware
  <2>2. BurstStart(j) /\ j < Words /\ copy' \in [Index -> SUBSET Values]
    BY <2>1, CopiedType DEF TypeInv, OffsetInv
  <2>3. j + BurstWords <= Words /\ BurstStart(j + BurstWords)
    BY <1>0, <2>2, BurstFacts
  <2>4. j' \in 0..Words
    BY <1>0, <2>1, <2>3, SizeFacts
  <2>5. OffsetInv'
    BY <2>1, <2>3 DEF OffsetInv, BurstStart
  <2> QED
    BY <1>0, <2>1, <2>2, <2>4, <2>5, TypeBetween DEF Calling
<1>4. CASE DumpWritten
  BY <1>0, <1>4, TypeEnd DEF DumpWritten, hardware, run
<1>5. CASE Kill
  <2>1. copy' \in [Index -> SUBSET Values] /\ j' \in 0..Words
    BY <1>5, ValueTypes, SizeFacts DEF Kill
  <2> QED
    BY <1>0, <1>5, <2>1, TypeEnd DEF Kill, hardware, run
<1> QED
  BY <1>1, <1>2, <1>3, <1>4, <1>5 DEF DumpData

LEMMA TypeNext == TypeInv /\ [Next]_vars => TypeInv'
<1> SUFFICES ASSUME TypeInv, [Next]_vars PROVE TypeInv'
  OBVIOUS
<1>1. CASE UNCHANGED vars
  BY <1>1 DEF vars, hardware, run, TypeInv, TypeOK, EngineInv, CallInv, OffsetInv, LoopInv,
     Blank, Flsw, Word, Step, Call
<1> QED
  BY <1>1, TypeAccess, TypeDone, TypeWrite, TypeOther DEF Next, Program

(* Every variable stays in its type, no call reaches past the end of the    *)
(* memory, and the NIC is never told to make an access that does, for any   *)
(* size of memory, burst and sector.                                        *)
THEOREM TypeCorrect == Spec => []TypeOK
<1>1. TypeInv => TypeOK
  BY DEF TypeInv
<1> QED
  BY <1>1, TypeInit, TypeNext, PTL DEF Spec

-----------------------------------------------------------------------------
(* What travels between the tool and the NIC.                               *)

(* In a run that has given no wait up, the NIC is busy only where the tool  *)
(* waits for it.                                                            *)
QuietInv == Undelayed /\ phase # "idle" /\ engine.busy => pc \in {"settle", "dataPoll"}

(* The NIC and the loop of the call agree on the next word.                 *)
Sent == IF pc = "dataPoll" THEN 2 * i + 2 ELSE 2 * i
TransferInv ==
  /\ Undelayed /\ Blank /\ pc \in {"settle", "data", "dataPoll"} =>
       /\ engine.cmd = call.op
       /\ engine.left > 0 => engine.at = call.at + Sent
       /\ engine.left > 0 => engine.at + engine.left = call.at + call.n
       /\ engine.left = 0 => Sent >= call.n
       /\ call.op = "read" => engine.left = call.n - Sent
  /\ Undelayed /\ Word("read") /\ pc \in {"settle", "data"} =>
       engine.cmd = "read" /\ engine.at = call.at + i

(* Data under way is meant for the words it goes to.                        *)
DataInv ==
  Undelayed => \A k \in 1..Len(engine.data) :
                 engine.data[k] \in {Ones} \cup Meant(engine.at - Len(engine.data) + k - 1)

(* A read has brought the words before the one that the loop is at.         *)
Got == IF Blank THEN Sent ELSE i
ReadInv ==
  Undelayed /\ phase \in {"check", "sum", "dumped"} =>
    \A k \in 0..(call.n - 1) :
      IF pc = "back"
      THEN buffer[k] = nvm[call.at + k] \/ (status = "FAIL" /\ buffer[k] = Zero)
      ELSE buffer[k] = IF k < Got THEN nvm[call.at + k] ELSE Zero

WireInv == QuietInv /\ TransferInv /\ DataInv

LEMMA StillUndelayed ==
  /\ trouble \subseteq trouble' => (Undelayed' => Undelayed)
  /\ "timedOut" \in trouble' => ~Undelayed'
  BY DEF Undelayed

(* Where the engine is left alone and no data is expected of it.            *)
LEMMA WireOutside ==
  ASSUME WireInv, UNCHANGED <<device, engine>>, trouble \subseteq trouble',
         phase' = "idle" \/ (phase # "idle" /\ pc \notin {"settle", "dataPoll"}),
         pc' \in {"idle", "ready", "acquire", "countPoll", "command", "back"}
  PROVE  WireInv'
<1>1. Undelayed' => Undelayed
  BY StillUndelayed
<1>2. QuietInv'
  BY <1>1 DEF WireInv, QuietInv
<1>3. TransferInv'
  BY DEF TransferInv
<1>4. DataInv'
  BY <1>1 DEF WireInv, DataInv, Meant
<1> QED
  BY <1>2, <1>3, <1>4 DEF WireInv

LEMMA WireWait ==
  ASSUME TypeInv, WireInv, Wait
  PROVE  WireInv'
<1> USE DEF WireInv
<1>1. UNCHANGED <<device, engine, phase, call>>
  BY DEF Wait, PollDone, PollAgain, PollGivesUp, Polled, hardware
<1>2. CASE PollAgain
  BY <1>1, <1>2 DEF PollAgain, QuietInv, TransferInv, DataInv, Meant, Undelayed, Sent, Blank, Word
<1>3. CASE PollGivesUp
  <2>1. ~Undelayed'
    BY <1>3, StillUndelayed DEF PollGivesUp
  <2> QED
    BY <2>1 DEF QuietInv, TransferInv, DataInv
<1>4. CASE PollDone
  <2>1. /\ pc \in Waits /\ ~engine.busy /\ pc' = AfterWait /\ trouble' = trouble
        /\ i' = IF pc = "dataPoll" THEN i + 1 ELSE i
    BY <1>4 DEF PollDone, Polled
  <2>2. phase \in Calling
    BY <2>1 DEF TypeInv, CallInv, Phases, Calling, Waits
  <2>3. /\ i \in Nat /\ call.op \in {"read", "write"} /\ (Undelayed' <=> Undelayed)
        /\ (Blank' <=> Blank) /\ (Word("read")' <=> Word("read"))
    BY <1>1, <2>1, <2>2, CallFacts DEF Undelayed, Blank, Word
  <2>4. QuietInv' /\ DataInv'
    BY <1>1, <2>1, <2>3 DEF QuietInv, DataInv, Meant
  <2>5. Blank /\ pc' \in {"settle", "data", "dataPoll"} =>
          pc \in {"settle", "dataPoll"} /\ Sent' = Sent
    BY <2>1, <2>3, AfterWaitIs DEF NextRound, Word, Sent, Waits
  <2>6. Word("read") /\ pc' \in {"settle", "data"} => pc = "settle" /\ i' = i
    BY <2>1, <2>2, AfterWaitIs DEF TypeInv, LoopInv, Waits
  <2>7. TransferInv'
    <3>1. ASSUME Undelayed, Blank, pc' \in {"settle", "data", "dataPoll"}
          PROVE  /\ engine.cmd = call.op
                 /\ engine.left > 0 => engine.at = call.at + Sent'
                 /\ engine.left > 0 => engine.at + engine.left = call.at + call.n
                 /\ engine.left = 0 => Sent' >= call.n
                 /\ call.op = "read" => engine.left = call.n - Sent'
      BY <2>5, <3>1 DEF TransferInv
    <3>2. ASSUME Undelayed, Word("read"), pc' \in {"settle", "data"}
          PROVE  engine.cmd = "read" /\ engine.at = call.at + i'
      BY <2>6, <3>2 DEF TransferInv
    <3> QED
      BY <1>1, <2>3, <3>1, <3>2 DEF TransferInv
  <2> QED
    BY <2>4, <2>7
<1> QED
  BY <1>2, <1>3, <1>4 DEF Wait

(* What the loop of a write finds in the caller's buffer is meant for the   *)
(* word it is at.                                                           *)
LEMMA DatumMeant ==
  ASSUME TypeInv, phase \in Calling, call.op = "write", NEW k \in Nat, k < call.n
  PROVE  Datum(k) \in {Ones} \cup Meant(call.at + k)
<1>1. call.kind = "test" => call.at + k = 0
  BY CallFacts DEF TypeInv, CallInv, Calling, Call
<1>2. call.kind = "sum" => call.at + k = ChecksumReg
  BY SizeFacts, CallFacts DEF TypeInv, CallInv, Calling, Call
<1> QED
  BY <1>1, <1>2, CallFacts DEF Datum, Meant, Value

LEMMA WireAccess ==
  ASSUME TypeInv, WireInv, Access
  PROVE  WireInv'
<1>0. CASE Wait
  BY <1>0, WireWait
<1> SUFFICES ASSUME ~Wait PROVE WireInv'
  BY <1>0
<1>1. /\ phase \in Calling /\ phase # "idle"
      /\ UNCHANGED <<device, phase, call>> /\ trouble \subseteq trouble'
  BY DEF Access, AcquireFails, SetCount, Command, WriteDword, ReadDword, WriteEewr,
     WriteEerd, ReadEerd, TypeInv, CallInv, Phases, Calling, hardware
<1>2. /\ Blank' <=> Blank /\ (Word("read")' <=> Word("read"))
      /\ Undelayed' => Undelayed
  BY <1>1, StillUndelayed DEF Blank, Word
<1>3. CASE AcquireFails
  BY <1>1, <1>3, WireOutside DEF AcquireFails, hardware
<1>4. CASE SetCount
  BY <1>1, <1>4, WireOutside DEF SetCount
<1>5. CASE Command
  <2>1. CASE UNCHANGED engine /\ pc' = "back"
    BY <1>1, <1>5, <2>1, WireOutside DEF Command
  <2>2. CASE engine' = Working(call.op, call.at, count) /\ pc' = "settle"
    <3>1. i = 0 /\ i' = i /\ count = call.n /\ Blank
      BY <1>5 DEF Command, TypeInv, LoopInv
    <3>2. /\ engine'.cmd = call.op /\ engine'.at = call.at /\ engine'.left = call.n
          /\ engine'.data = <<>> /\ Len(engine'.data) = 0
      BY <2>2, <3>1 DEF Working
    <3>3. Sent' = 0
      BY <2>2, <3>1 DEF Sent
    <3>4. QuietInv' /\ DataInv'
      BY <2>2, <3>2 DEF QuietInv, DataInv
    <3>5. TransferInv'
      BY <1>1, <1>2, <2>2, <3>1, <3>2, <3>3, CallFacts DEF TransferInv, Blank, Word
    <3> QED
      BY <3>4, <3>5 DEF WireInv
  <2> QED
    BY <1>5, <2>1, <2>2 DEF Command
<1>6. CASE WriteDword
  <2>1. /\ pc = "data" /\ pc' = "dataPoll" /\ i' = i /\ Blank /\ call.op = "write"
        /\ trouble' = trouble /\ i \in Nat /\ call.at \in Nat /\ call.n \in Nat
    BY <1>1, <1>6, CallFacts DEF WriteDword, Flsw
  <2>2. Sent = 2 * i /\ Sent' = 2 * i + 2
    BY <2>1 DEF Sent
  <2>3. QuietInv'
    BY <2>1 DEF QuietInv
  <2>4. CASE engine' = engine /\ (Undelayed => engine.left = 0 /\ engine.cmd = "write")
    <3>1. DataInv'
      BY <1>2, <2>4 DEF WireInv, DataInv, Meant
    <3>2. Undelayed => Sent' >= call.n
      BY <2>1, <2>2, <2>4 DEF WireInv, TransferInv
    <3>3. TransferInv'
      BY <1>1, <1>2, <2>1, <2>4, <3>2 DEF TransferInv, Word, Blank
    <3> QED
      BY <2>3, <3>1, <3>3 DEF WireInv
  <2>5. CASE engine' = Taken(<<Datum(2 * i), Datum(2 * i + 1)>>) /\ engine.left > 0
    <3> DEFINE a == Datum(2 * i)
               b == Datum(2 * i + 1)
               n == IF engine.left = 1 THEN 1 ELSE 2
    <3>1. /\ a \in Values \cup {Ones} /\ b \in Values \cup {Ones}
          /\ 2 * i \in Nat /\ 2 * i + 1 \in Nat
      <4>1. 2 * i \in Nat /\ 2 * i + 1 \in Nat
        BY <2>1
      <4> QED
        BY <1>1, <2>1, <4>1, DatumType
    <3>2. EngineInv /\ engine.left \in Nat /\ engine.at \in Nat
      BY SizeFacts DEF TypeInv, EngineInv, Engines
    <3>3. /\ engine'.cmd = engine.cmd /\ engine'.at = engine.at + n
          /\ engine'.left = engine.left - n /\ Len(engine'.data) = n
          /\ engine'.data[1] = a /\ (n = 2 => engine'.data[2] = b)
      <4> HIDE DEF a, b
      <4> QED
        BY <2>5, <3>1, <3>2, TakenIs DEF a, b
    <3>4. ASSUME Undelayed
          PROVE  /\ engine.cmd = "write" /\ engine.at = call.at + 2 * i
                 /\ engine.left = call.n - 2 * i
      BY <2>1, <2>2, <2>5, <3>2, <3>4 DEF WireInv, TransferInv
    <3>5. DataInv'
      <4> SUFFICES ASSUME Undelayed', NEW k \in 1..Len(engine'.data)
                   PROVE  engine'.data[k] \in
                            {Ones} \cup Meant(engine'.at - Len(engine'.data) + k - 1)
        BY DEF DataInv, Meant
      <4>1. k \in 1..n /\ engine.at = call.at + 2 * i /\ engine.left = call.n - 2 * i
        BY <1>2, <3>3, <3>4
      <4>2. engine'.at - Len(engine'.data) + k - 1 = call.at + (2 * i + k - 1)
        <5>1. n \in Nat /\ k \in Nat
          BY <4>1
        <5> HIDE DEF n
        <5>2. engine'.at - Len(engine'.data) = engine.at
          BY <3>2, <3>3, <5>1
        <5> QED
          BY <2>1, <4>1, <5>1, <5>2
      <4>3. k = 1 \/ (k = 2 /\ n = 2)
        BY <3>2, <4>1
      <4>4. CASE k = 1
        <5>1. 2 * i + k - 1 = 2 * i /\ 2 * i < call.n
          BY <2>1, <2>5, <3>1, <4>1, <4>4
        <5> QED
          BY <1>1, <2>1, <3>1, <3>3, <4>2, <4>4, <5>1, DatumMeant
      <4>5. CASE k = 2 /\ n = 2
        <5>1. 2 * i + k - 1 = 2 * i + 1 /\ 2 * i + 1 < call.n
          BY <2>1, <2>5, <3>1, <3>2, <4>1, <4>5
        <5> QED
          BY <1>1, <2>1, <3>1, <3>3, <4>2, <4>5, <5>1, DatumMeant
      <4> QED
        BY <4>3, <4>4, <4>5
    <3>6. Undelayed /\ engine'.left > 0 =>
            /\ engine'.at = call.at + (2 * i + 2)
            /\ engine'.at + engine'.left = call.at + call.n
      <4>1. n \in Nat /\ (engine.left - n > 0 => n = 2)
        BY <3>2
      <4> HIDE DEF n
      <4>2. ASSUME Undelayed, engine'.left > 0
            PROVE  /\ n = 2 /\ engine'.at = engine.at + 2 /\ engine'.left = engine.left - 2
                   /\ engine.at = call.at + 2 * i /\ engine.left = call.n - 2 * i
        BY <3>3, <3>4, <4>1, <4>2
      <4>3. 2 * i \in Nat
        BY <2>1
      <4> QED
        BY <2>1, <4>2, <4>3
    <3>7. Undelayed /\ engine'.left = 0 => 2 * i + 2 >= call.n
      <4>1. n \in {1, 2}
        OBVIOUS
      <4> HIDE DEF n
      <4>2. ASSUME Undelayed, engine'.left = 0
            PROVE  engine.left - n = 0 /\ engine.left = call.n - 2 * i
        BY <3>3, <3>4, <4>2
      <4>3. 2 * i \in Nat
        BY <2>1
      <4> QED
        BY <2>1, <3>2, <4>1, <4>2, <4>3
    <3>8. TransferInv'
      BY <1>1, <1>2, <2>1, <2>2, <3>3, <3>4, <3>6, <3>7 DEF TransferInv, Word, Blank
    <3> QED
      BY <2>3, <3>5, <3>8 DEF WireInv
  <2>6. Undelayed => ~engine.busy /\ engine.cmd = "write"
    BY <1>1, <2>1 DEF WireInv, QuietInv, TransferInv
  <2>7. engine.left \in Nat
    BY SizeFacts DEF TypeInv, EngineInv, Engines
  <2> QED
    BY <1>6, <2>4, <2>5, <2>6, <2>7 DEF WriteDword
<1>7. CASE ReadDword
  <2>1. /\ pc = "data" /\ pc' = "dataPoll" /\ i' = i /\ Blank /\ call.op = "read"
        /\ trouble' = trouble /\ i \in Nat /\ call.at \in Nat /\ call.n \in Nat
        /\ 2 * i + 2 <= call.n
    BY <1>1, <1>7, CallFacts DEF ReadDword, Flsw, TypeInv, LoopInv
  <2>2. Sent = 2 * i /\ Sent' = 2 * i + 2
    BY <2>1 DEF Sent
  <2>3. QuietInv'
    BY <2>1 DEF QuietInv
  <2>4. CASE ~Undelayed
    BY <1>2, <2>4 DEF WireInv, QuietInv, TransferInv, DataInv
  <2>5. CASE Undelayed
    <3>1. /\ ~engine.busy /\ engine.cmd = "read" /\ engine.at \in Nat /\ engine.left \in Nat
          /\ engine.left = call.n - 2 * i /\ engine.at = call.at + 2 * i
          /\ engine \in Engines /\ engine.data = <<>>
      <4>1. engine.at \in Nat /\ engine.left \in Nat /\ engine \in Engines
        BY SizeFacts DEF TypeInv, EngineInv, Engines
      <4>2. ~engine.busy /\ engine.cmd = "read" /\ engine.left = call.n - 2 * i
        BY <1>1, <2>1, <2>2, <2>5 DEF WireInv, QuietInv, TransferInv
      <4>3. engine.left > 0
        BY <2>1, <4>2
      <4>4. engine.at = call.at + 2 * i
        BY <2>1, <2>2, <2>5, <4>3 DEF WireInv, TransferInv
      <4> QED
        BY <4>1, <4>2, <4>4 DEF TypeInv, EngineInv
    <3>2. engine' = [engine EXCEPT !.at = @ + 2, !.left = @ - 2, !.busy = (engine.left > 2)]
      BY <1>7, <2>1, <3>1 DEF ReadDword, Brings
    <3>3. /\ engine'.at = call.at + 2 * i + 2 /\ engine'.left = call.n - (2 * i + 2)
          /\ engine'.cmd = "read" /\ engine'.data = <<>>
      BY <2>1, <3>1, <3>2 DEF Engines
    <3>4. DataInv'
      BY <3>3 DEF DataInv
    <3>5. TransferInv'
      <4>1. /\ engine'.at = call.at + (2 * i + 2)
            /\ engine'.at + engine'.left = call.at + call.n
            /\ engine'.left = 0 => 2 * i + 2 >= call.n
        BY <2>1, <3>3
      <4> QED
        BY <1>1, <1>2, <2>1, <2>2, <3>3, <4>1 DEF TransferInv, Word, Blank
    <3> QED
      BY <2>3, <3>4, <3>5 DEF WireInv
  <2> QED
    BY <2>4, <2>5
<1>8. CASE WriteEewr
  <2>1. /\ engine'.at = call.at + i + 1 /\ engine'.data = <<Datum(i)>>
        /\ pc' = "dataPoll" /\ Word("write") /\ i < call.n /\ i \in Nat /\ call.at \in Nat
    BY <1>1, <1>8, CallFacts DEF WriteEewr, TypeInv, LoopInv, Word, Started
  <2>2. QuietInv' /\ TransferInv'
    BY <1>2, <2>1 DEF QuietInv, TransferInv, Word
  <2>3. Datum(i) \in {Ones} \cup Meant(call.at + i)
    BY <1>1, <2>1, DatumMeant DEF Word
  <2>4. DataInv'
    <3> SUFFICES ASSUME NEW k \in 1..Len(engine'.data)
                 PROVE  engine'.data[k] \in
                          {Ones} \cup Meant(engine'.at - Len(engine'.data) + k - 1)
      BY DEF DataInv, Meant
    <3>1. k = 1 /\ Len(engine'.data) = 1
      BY <2>1
    <3>2. engine'.at - Len(engine'.data) + k - 1 = call.at + i
      BY <2>1, <3>1
    <3> QED
      BY <2>1, <2>3, <3>1, <3>2
  <2> QED
    BY <2>2, <2>4 DEF WireInv
<1>9. CASE WriteEerd
  <2>1. /\ pc = "command" /\ pc' = "settle" /\ ~Blank /\ UNCHANGED <<i, trouble>>
        /\ ~engine.busy => engine' = Working("read", call.at + i, 1)
    BY <1>9 DEF WriteEerd
  <2>2. CASE ~Undelayed
    BY <1>2, <2>2 DEF WireInv, QuietInv, TransferInv, DataInv
  <2>3. CASE Undelayed
    <3>1. ~engine.busy
      BY <1>1, <2>1, <2>3 DEF WireInv, QuietInv
    <3>2. engine'.cmd = "read" /\ engine'.at = call.at + i /\ engine'.data = <<>>
      BY <2>1, <3>1 DEF Working
    <3> QED
      BY <1>1, <1>2, <2>1, <3>2 DEF WireInv, QuietInv, TransferInv, DataInv, Blank, Word
  <2> QED
    BY <2>2, <2>3
<1>10. CASE ReadEerd
  <2>1. /\ pc = "data" /\ pc' = NextRound /\ Word("read") /\ UNCHANGED engine
    BY <1>10 DEF ReadEerd, hardware
  <2>2. pc' \in {"back", "command"}
    BY <2>1 DEF NextRound, Word
  <2> QED
    BY <1>1, <2>1, <2>2, WireOutside
<1> QED
  BY <1>3, <1>4, <1>5, <1>6, <1>7, <1>8, <1>9, <1>10 DEF Access

LEMMA WireNext == TypeInv /\ WireInv /\ [Next]_vars => WireInv'
<1> SUFFICES ASSUME TypeInv, WireInv, [Next]_vars PROVE WireInv'
  OBVIOUS
<1>1. CASE UNCHANGED vars
  BY <1>1 DEF vars, hardware, run, WireInv, QuietInv, TransferInv, DataInv, Meant, Undelayed,
     Sent, Blank, Word
<1>2. CASE Access
  BY <1>2, WireAccess
<1>3. CASE AccessDone
  <2>1. /\ UNCHANGED <<device, phase, pc, call, i, trouble>>
        /\ engine' = [engine EXCEPT !.busy = FALSE, !.data = <<>>] /\ engine \in Engines
    BY <1>3 DEF AccessDone, TypeInv, EngineInv
  <2>2. /\ engine'.cmd = engine.cmd /\ engine'.at = engine.at
        /\ engine'.left = engine.left /\ engine'.data = <<>>
    BY <2>1 DEF Engines
  <2>3. ~engine'.busy
    BY <2>1 DEF Engines
  <2>4. QuietInv'
    BY <2>3 DEF QuietInv
  <2>5. TransferInv' /\ DataInv'
    BY <2>1, <2>2 DEF WireInv, TransferInv, DataInv, Undelayed, Sent, Blank, Word
  <2> QED
    BY <2>4, <2>5 DEF WireInv
<1>4. CASE Start
  <2>1. /\ UNCHANGED <<engine, pc>> /\ pc = "idle"
        /\ trouble' = (IF engine.busy THEN {"leftBusy"} ELSE {})
    BY <1>4 DEF Start, hardware, TypeInv, CallInv
  <2>2. Undelayed' => ~engine.busy /\ engine.data = <<>>
    BY <2>1 DEF Undelayed, TypeInv, EngineInv
  <2>3. QuietInv' /\ TransferInv' /\ DataInv'
    BY <2>1, <2>2 DEF QuietInv, TransferInv, DataInv
  <2> QED
    BY <2>3 DEF WireInv
<1>5. CASE WriteNvm
  <2>1. /\ UNCHANGED <<device, engine>> /\ trouble \subseteq trouble'
        /\ phase # "idle" /\ pc \notin {"settle", "dataPoll"}
    BY <1>5 DEF WriteNvm, EraseNvm, TestWritten, TestRead, Erases, NextBurst, BurstWritten,
       NoFile, UpdateSkipped, Update, WordsSummed, SumFails, Updated, hardware, TypeInv, CallInv
  <2>2. pc' \in {"idle", "ready", "acquire", "countPoll", "command", "back"}
    BY <1>5 DEF WriteNvm, EraseNvm, TestWritten, TestRead, NextBurst, BurstWritten,
       NoFile, UpdateSkipped, Update, WordsSummed, SumFails, Updated, Begin, End
  <2> QED
    BY <2>1, <2>2, WireOutside
<1>6. CASE DumpData
  <2>1. /\ UNCHANGED <<device, engine, trouble>>
        /\ phase # "idle" /\ pc \notin {"settle", "dataPoll"}
    BY <1>6 DEF DumpData, DumpBurst, BurstDumped, DumpWritten, hardware, TypeInv, CallInv
  <2>2. pc' \in {"idle", "ready", "acquire", "countPoll", "command", "back"}
    BY <1>6 DEF DumpData, DumpBurst, BurstDumped, DumpWritten, Begin, End
  <2> QED
    BY <2>1, <2>2, WireOutside
<1>7. CASE Kill
  BY <1>7, WireOutside DEF Kill, End, hardware
<1> QED
  BY <1>1, <1>2, <1>3, <1>4, <1>5, <1>6, <1>7 DEF Next, Program

LEMMA WireInit == Init => WireInv
  BY DEF Init, Idle, WireInv, QuietInv, TransferInv, DataInv

LEMMA WireIsKept == Spec => [](TypeInv /\ WireInv)
  BY TypeInit, TypeNext, WireInit, WireNext, PTL DEF Spec

-----------------------------------------------------------------------------
(* No word receives what is not meant for it.                               *)

LEMMA LandsMeant ==
  ASSUME TypeInv, WireInv, Undelayed, NEW w \in Index
  PROVE  Landed[w] \subseteq nvm[w] \cup Meant(w)
<1> DEFINE start == engine.at - Len(engine.data)
<1>1. w \in Int /\ engine.at \in Int /\ Len(engine.data) \in Nat
  BY SizeFacts DEF TypeInv, EngineInv, Engines, Index
<1>2. CASE w \in start..(engine.at - 1)
  <2> DEFINE k == w - start + 1
  <2>1. k \in 1..Len(engine.data) /\ start + k - 1 = w
    BY <1>1, <1>2
  <2>2. engine.data[k] \in {Ones} \cup Meant(w)
    <3> HIDE DEF k
    <3> QED
      BY <2>1 DEF WireInv, DataInv
  <2>3. Landed[w] \subseteq nvm[w] \cup ({engine.data[k]} \ {Ones})
    BY <1>2 DEF Landed
  <2> HIDE DEF k
  <2> QED
    BY <2>2, <2>3
<1>3. CASE w \notin start..(engine.at - 1)
  BY <1>3 DEF Landed
<1> QED
  BY <1>2, <1>3

(* No word ever receives anything but what was meant for it, unless a wait  *)
(* was given up or the run found the NIC busy: what WriteNvmFlswI210 writes *)
(* from beyond its buffer reaches nothing (WriteNvm, SetupWriteMethod).     *)
THEOREM OnlyItsOwn == Spec => OwnWords
<1>1. ASSUME TypeInv, WireInv, [Next]_vars, Undelayed, NEW w \in Index
      PROVE  nvm'[w] \subseteq nvm[w] \cup Meant(w)
  <2>1. CASE nvm' = nvm
    BY <2>1
  <2>2. CASE nvm' = Landed
    BY <1>1, <2>2, LandsMeant
  <2>3. CASE \E kept : Erases(kept)
    <3>1. PICK kept : Erases(kept)
      BY <2>3
    <3> QED
      BY <3>1 DEF Erases
  <2>4. \/ nvm' = nvm \/ nvm' = Landed \/ \E kept : Erases(kept)
    <3>1. CASE Access
      BY <3>1 DEF Access, Wait, PollDone, PollAgain, PollGivesUp, Polled, AcquireFails, SetCount,
         Command, WriteDword, ReadDword, WriteEewr, WriteEerd, ReadEerd, hardware
    <3>2. CASE EraseNvm \/ TestRead
      BY <3>2 DEF EraseNvm, TestRead
    <3>3. CASE WriteNvm /\ ~EraseNvm /\ ~TestRead
      BY <3>3 DEF WriteNvm, TestWritten, NextBurst, BurstWritten, NoFile, UpdateSkipped, Update,
         WordsSummed, SumFails, Updated, hardware
    <3>4. CASE DumpData \/ Start \/ Kill \/ AccessDone
      BY <3>4 DEF DumpData, DumpBurst, BurstDumped, DumpWritten, Start, Kill, AccessDone, hardware
    <3>5. CASE UNCHANGED vars
      BY <3>5 DEF vars, hardware
    <3> QED
      BY <1>1, <3>1, <3>2, <3>3, <3>4, <3>5 DEF Next, Program
  <2> QED
    BY <2>1, <2>2, <2>3, <2>4
<1>2. TypeInv /\ WireInv /\ [Next]_vars =>
        [Undelayed => \A w \in Index : nvm'[w] \subseteq nvm[w] \cup Meant(w)]_vars
  BY <1>1
<1> QED
  BY <1>2, WireIsKept, PTL DEF Spec, OwnWords

-----------------------------------------------------------------------------
(* What a read brings.                                                      *)

Reading == {"check", "sum", "dumped"}

LEMMA ReadBegins ==
  ASSUME buffer' = Zeros, i' = 0, pc' \in {"ready", "command"}, call'.n \in Nat, call'.n <= Words
  PROVE  ReadInv'
<1>1. Got' = 0 /\ pc' # "back"
  BY DEF Got, Sent
<1>2. \A k \in 0..(call'.n - 1) : buffer'[k] = Zero /\ ~(k < 0)
  BY SizeFacts DEF Zeros, Index
<1> QED
  BY <1>1, <1>2 DEF ReadInv

(* While a read goes on, nothing lands in the memory.                       *)
LEMMA MemoryStill ==
  ASSUME TypeInv, WireInv, Undelayed, phase \in Reading
  PROVE  Landed = nvm
<1>1. phase \in Calling /\ call.op = "read" /\ phase # "idle"
  BY DEF TypeInv, CallInv, Calling, Call, Reading
<1>2. CASE ~engine.busy
  BY <1>2 DEF TypeInv, EngineInv, TypeOK, Landed
<1>3. CASE engine.busy
  <2>1. pc \in {"settle", "dataPoll"}
    BY <1>1, <1>3 DEF WireInv, QuietInv
  <2>2. engine.cmd = "read"
    BY <1>1, <2>1, CallFacts DEF WireInv, TransferInv, TypeInv, LoopInv, Word
  <2>3. engine.data = <<>>
    BY <2>2 DEF TypeInv, EngineInv
  <2>4. engine.at \in Int /\ Len(engine.data) = 0
    BY <2>3, SizeFacts DEF TypeInv, EngineInv, Engines
  <2>5. \A w \in Index : w \notin (engine.at - Len(engine.data))..(engine.at - 1)
    BY <2>4, SizeFacts DEF Index
  <2> QED
    BY <2>5 DEF Landed, TypeInv, TypeOK
<1> QED
  BY <1>2, <1>3

LEMMA ReadAccess ==
  ASSUME TypeInv, WireInv, ReadInv, Access
  PROVE  ReadInv'
<1>1. /\ phase \in Calling
      /\ UNCHANGED <<device, phase, call>> /\ trouble \subseteq trouble'
  BY DEF Access, Wait, PollDone, PollAgain, PollGivesUp, Polled, AcquireFails, SetCount, Command,
     WriteDword, ReadDword, WriteEewr, WriteEerd, ReadEerd, TypeInv, CallInv, Phases, Calling,
     Waits, hardware
<1> SUFFICES ASSUME Undelayed', phase \in Reading PROVE ReadInv'
  BY <1>1 DEF ReadInv, Reading
<1>2. Undelayed /\ (Blank' <=> Blank) /\ call.op = "read"
  BY <1>1, StillUndelayed DEF Blank, Reading, TypeInv, CallInv, Call
<1>3. i \in Nat /\ call.n \in Nat /\ call.at \in Nat /\ call.n > 0 /\ call.at + call.n <= Words
      /\ (Blank => call.n % 2 = 0 /\ Flsw("read")) /\ (~Blank => Word("read"))
  BY <1>1, <1>2, CallFacts
<1>4. Landed = nvm
  BY <1>2, MemoryStill
<1>5. \A k \in 0..(call.n - 1) :
        IF pc = "back"
        THEN buffer[k] = nvm[call.at + k] \/ (status = "FAIL" /\ buffer[k] = Zero)
        ELSE buffer[k] = IF k < Got THEN nvm[call.at + k] ELSE Zero
  BY <1>2 DEF ReadInv, Reading
<1>6. ASSUME UNCHANGED <<nvm, buffer>>, pc # "back", pc' # "back", Got' = Got
      PROVE  ReadInv'
  BY <1>1, <1>5, <1>6 DEF ReadInv
<1>7. ASSUME UNCHANGED <<nvm, buffer>>, pc # "back", pc' = "back", status' = "FAIL"
      PROVE  ReadInv'
  BY <1>1, <1>5, <1>7 DEF ReadInv
<1>8. CASE PollDone
  <2>1. /\ pc \in Waits /\ pc' = AfterWait /\ UNCHANGED <<nvm, buffer>>
        /\ i' = IF pc = "dataPoll" THEN i + 1 ELSE i
    BY <1>8 DEF PollDone, Polled, hardware
  <2>2. CASE pc = "dataPoll" /\ Last
    <3>1. pc' = "back" /\ Blank
      BY <1>2, <1>3, <2>1, <2>2, AfterWaitIs DEF NextRound, TypeInv, LoopInv, Word
    <3>2. 2 * i + 2 >= call.n
      BY <1>2, <1>3, <2>2, <3>1 DEF Last, Flsw
    <3>3. \A k \in 0..(call.n - 1) : k < Got
      BY <1>3, <2>2, <3>1, <3>2 DEF Got, Sent
    <3> QED
      BY <1>1, <1>5, <2>1, <2>2, <3>1, <3>3 DEF ReadInv
  <2>3. CASE pc = "dataPoll" /\ ~Last
    <3>1. Blank
      BY <1>3, <2>3 DEF TypeInv, LoopInv
    <3>2. pc' = "data"
      BY <1>2, <2>1, <2>3, <3>1, AfterWaitIs DEF NextRound, Word
    <3>3. Got' = Got
      BY <1>2, <1>3, <2>1, <2>3, <3>1, <3>2 DEF Got, Sent
    <3> QED
      BY <1>6, <2>1, <2>3, <3>2, <3>3
  <2>4. CASE pc # "dataPoll"
    <3>1. pc' \in {"acquire", "command", "data"} /\ i' = i
      BY <2>1, <2>4, AfterWaitIs DEF Waits
    <3>2. Got' = Got
      BY <1>2, <2>4, <3>1 DEF Got, Sent
    <3> QED
      BY <1>6, <2>1, <3>1, <3>2 DEF Waits
  <2> QED
    BY <2>2, <2>3, <2>4
<1>9. CASE PollAgain
  <2>1. UNCHANGED <<nvm, buffer, pc, i>> /\ pc # "back"
    BY <1>9 DEF PollAgain, Waits, hardware
  <2>2. Got' = Got
    BY <1>2, <2>1 DEF Got, Sent
  <2> QED
    BY <1>6, <2>1, <2>2
<1>10. CASE PollGivesUp
  BY <1>10, StillUndelayed DEF PollGivesUp
<1>11. CASE AcquireFails
  BY <1>7, <1>11 DEF AcquireFails, hardware
<1>12. CASE SetCount
  <2>1. UNCHANGED <<nvm, buffer, i>> /\ pc = "acquire" /\ pc' \in {"countPoll", "command"}
    BY <1>12 DEF SetCount
  <2>2. Got' = Got
    BY <1>2, <2>1 DEF Got, Sent
  <2> QED
    BY <1>6, <2>1, <2>2
<1>13. CASE Command
  <2>1. UNCHANGED <<nvm, buffer, i>> /\ pc = "command"
    BY <1>13 DEF Command
  <2>2. CASE pc' = "settle"
    <3>1. Got' = Got
      BY <1>2, <2>1, <2>2 DEF Got, Sent
    <3> QED
      BY <1>6, <2>1, <2>2, <3>1
  <2>3. CASE pc' = "back" /\ status' = "FAIL"
    BY <1>7, <2>1, <2>3
  <2> QED
    BY <1>13, <2>2, <2>3 DEF Command
<1>14. CASE ReadDword
  <2>1. /\ pc = "data" /\ pc' = "dataPoll" /\ i' = i /\ Blank /\ UNCHANGED nvm
        /\ buffer' = [k \in Index |-> IF k \in DOMAIN Reads THEN Reads[k] ELSE buffer[k]]
    BY <1>14 DEF ReadDword, Flsw
  <2>2. Got = 2 * i /\ Got' = 2 * i + 2 /\ 2 * i + 2 <= call.n
    BY <1>2, <1>3, <2>1 DEF Got, Sent, TypeInv, LoopInv
  <2>3. ~engine.busy /\ engine.cmd = "read" /\ engine.left >= 2 /\ engine.at = call.at + 2 * i
    <3>1. engine.at \in Nat /\ engine.left \in Nat
      BY SizeFacts DEF TypeInv, EngineInv, Engines
    <3>2. ~engine.busy /\ engine.cmd = "read" /\ engine.left = call.n - 2 * i
      BY <1>1, <1>2, <2>1 DEF WireInv, QuietInv, TransferInv, Sent, Calling
    <3>3. engine.left >= 2
      BY <1>3, <2>2, <3>2
    <3> QED
      BY <1>2, <2>1, <3>1, <3>2, <3>3 DEF WireInv, TransferInv, Sent
  <2>4. ASSUME NEW k \in 0..(call.n - 1)
        PROVE  buffer'[k] = IF k < 2 * i + 2 THEN nvm[call.at + k] ELSE Zero
    <3>1. k \in Index
      BY <1>3, SizeFacts DEF Index
    <3>2. CASE k \in {2 * i, 2 * i + 1}
      <4>1. engine.at + k - 2 * i = call.at + k /\ k < 2 * i + 2
        BY <1>3, <2>3, <3>2
      <4>2. Reads[k] = nvm[engine.at + k - 2 * i] /\ k \in DOMAIN Reads
        BY <2>3, <3>2 DEF Reads, Brings
      <4> QED
        BY <2>1, <3>1, <4>1, <4>2
    <3>3. CASE k \notin {2 * i, 2 * i + 1}
      <4>1. buffer'[k] = buffer[k]
        BY <2>1, <3>1, <3>3 DEF Reads
      <4>2. (k < 2 * i) <=> (k < 2 * i + 2)
        BY <1>3, <3>3
      <4>3. buffer[k] = IF k < 2 * i THEN nvm[call.at + k] ELSE Zero
        BY <1>5, <2>1, <2>2
      <4> QED
        BY <4>1, <4>2, <4>3
    <3> QED
      BY <3>2, <3>3
  <2> QED
    BY <1>1, <2>1, <2>2, <2>4 DEF ReadInv
<1>15. CASE WriteEerd
  <2>1. /\ pc = "command" /\ pc' = "settle" /\ UNCHANGED <<buffer, i>>
        /\ nvm' = nvm \/ nvm' = Landed
    BY <1>15 DEF WriteEerd
  <2>2. Got' = Got
    BY <1>2, <2>1 DEF Got, Sent
  <2> QED
    BY <1>4, <1>6, <2>1, <2>2
<1>16. CASE ReadEerd
  <2> DEFINE got == IF engine.cmd = "read" /\ ~engine.busy THEN nvm[engine.at] ELSE {Junk}
  <2>1. /\ pc = "data" /\ pc' = NextRound /\ ~Blank /\ UNCHANGED <<nvm, status>> /\ i' = i + 1
        /\ buffer' = [buffer EXCEPT ![i] = got] /\ i < call.n
    BY <1>16, <1>3 DEF ReadEerd, hardware, Word, TypeInv, LoopInv, Started
  <2>2. engine.cmd = "read" /\ ~engine.busy /\ engine.at = call.at + i
    BY <1>1, <1>2, <1>3, <2>1 DEF WireInv, QuietInv, TransferInv, Calling
  <2>3. ASSUME NEW k \in 0..(call.n - 1)
        PROVE  buffer'[k] = IF k < i + 1 THEN nvm[call.at + k] ELSE Zero
    <3>1. buffer[k] = IF k < i THEN nvm[call.at + k] ELSE Zero
      BY <1>5, <2>1 DEF Got
    <3>2. buffer' = [buffer EXCEPT ![i] = nvm[call.at + i]]
      BY <2>1, <2>2
    <3>3. buffer \in [Index -> SUBSET Values] /\ k \in Index
      BY <1>3, SizeFacts DEF TypeInv, TypeOK, Index
    <3>4. k < i + 1 <=> k < i \/ k = i
      BY <1>3
    <3> QED
      BY <3>1, <3>2, <3>3, <3>4
  <2>4. CASE Last
    <3>1. pc' = "back" /\ i + 1 >= call.n
      BY <1>2, <1>3, <2>1, <2>4 DEF NextRound, Last, Flsw
    <3>2. \A k \in 0..(call.n - 1) : k < i + 1
      BY <1>3, <3>1
    <3> QED
      BY <1>1, <2>1, <2>3, <3>1, <3>2 DEF ReadInv
  <2>5. CASE ~Last
    <3>1. pc' = "command" /\ Got' = i + 1
      BY <1>2, <1>3, <2>1, <2>5 DEF NextRound, Word, Got
    <3> QED
      BY <1>1, <2>1, <2>3, <3>1 DEF ReadInv
  <2> QED
    BY <2>4, <2>5
<1>17. ~WriteDword /\ ~WriteEewr
  BY <1>2 DEF WriteDword, WriteEewr, Flsw, Word
<1> QED
  BY <1>8, <1>9, <1>10, <1>11, <1>12, <1>13, <1>14, <1>15, <1>16, <1>17 DEF Access, Wait

LEMMA ReadNext == TypeInv /\ WireInv /\ ReadInv /\ [Next]_vars => ReadInv'
<1> SUFFICES ASSUME TypeInv, WireInv, ReadInv, [Next]_vars PROVE ReadInv'
  OBVIOUS
<1>0. TypeInv'
  BY TypeNext
<1>1. CASE UNCHANGED vars
  BY <1>1 DEF vars, hardware, run, ReadInv, Undelayed, Got, Sent, Blank
<1>2. CASE Access
  BY <1>2, ReadAccess
<1>3. CASE AccessDone
  <2>1. /\ UNCHANGED <<device, phase, pc, call, i, status, buffer, trouble>> /\ nvm' = Landed
    BY <1>3 DEF AccessDone
  <2>2. Undelayed /\ phase \in Reading => nvm' = nvm
    BY <2>1, MemoryStill
  <2> QED
    BY <2>1, <2>2 DEF ReadInv, Undelayed, Got, Sent, Blank, Reading
<1>4. ASSUME NEW op, NEW at, NEW n, NEW kind, Begin(op, at, n, kind), phase' \in Reading
      PROVE  ReadInv'
  <2>1. buffer' = Zeros /\ i' = 0 /\ pc' \in {"ready", "command"}
    BY <1>4 DEF Begin
  <2>2. /\ call'.n = 2 \/ call'.n = Step' \/ call'.n = BurstWords
        /\ Step' \in {1, 2}
    BY <1>0, <1>4 DEF TypeInv, CallInv, Call, Reading, Step
  <2>3. call'.n \in Nat /\ call'.n <= Words
    BY <2>2, SizeFacts
  <2> QED
    BY <2>1, <2>3, ReadBegins
<1>5. CASE WriteNvm
  <2>1. CASE phase' \notin Reading
    BY <2>1 DEF ReadInv, Reading
  <2>2. CASE phase' \in Reading
    <3>1. \E op, at, n, kind : Begin(op, at, n, kind)
      BY <1>5, <2>2 DEF WriteNvm, EraseNvm, TestWritten, TestRead, NextBurst, BurstWritten, NoFile,
         UpdateSkipped, Update, WordsSummed, SumFails, Updated, End, Reading
    <3> QED
      BY <1>4, <2>2, <3>1
  <2> QED
    BY <2>1, <2>2
<1>6. CASE DumpData
  <2>1. phase' \notin Reading \/ \E op, at, n, kind : Begin(op, at, n, kind)
    BY <1>6 DEF DumpData, DumpBurst, BurstDumped, DumpWritten, End, Reading
  <2> QED
    BY <1>4, <2>1 DEF ReadInv, Reading
<1>7. CASE Start \/ Kill
  BY <1>7 DEF Start, Kill, End, ReadInv
<1> QED
  BY <1>1, <1>2, <1>3, <1>5, <1>6, <1>7 DEF Next, Program

(* What a read brings is what the memory holds at that place, or zeros of a *)
(* read that reports FAIL, unless a wait was given up (ReadNvmFlswI210,     *)
(* ReadNvmEerd).                                                            *)
THEOREM ReadsAreTrue == Spec => []ReadsTruth
<1>1. Init => ReadInv
  BY DEF Init, ReadInv
<1>2. ReadInv => ReadsTruth
  BY DEF ReadInv, ReadsTruth
<1> QED
  BY <1>1, <1>2, TypeInit, TypeNext, WireInit, WireNext, ReadNext, PTL DEF Spec

-----------------------------------------------------------------------------
(* What a run leaves in the memory.                                         *)

(* How many words of a write the NIC has taken, if nothing goes wrong.      *)
Gone == IF pc = "back" THEN call.n
        ELSE IF Blank THEN Least(Sent, call.n)
        ELSE IF pc = "dataPoll" THEN i + 1 ELSE i

(* What a burst leaves in a word: with a MAC address, nothing in the word   *)
(* of the checksum.                                                         *)
Target(w) == IF mac /\ w = ChecksumReg THEN {} ELSE {Value("img", w)}

(* The memory once the access under way has landed: the words that the run  *)
(* has passed, and on an I210 the erased ones.                              *)
Passed == IF phase \in {"file", "burst"} THEN j ELSE file * BurstWords
InCallNow(w) == phase \in {"burst", "sumUp"} /\ w \in call.at..(call.at + call.n - 1)
WordIsRight(w) ==
  IF InCallNow(w)
  THEN IF w < call.at + Gone THEN Landed[w] = {Datum(w - call.at)} \ {Ones}
       ELSE Blank => Landed[w] = {}
  ELSE IF w < Passed THEN Landed[w] = Target(w) ELSE Blank => Landed[w] = {}
ImageInv ==
  /\ phase \in {"sum", "sumUp"} /\ Blank => mac
  /\ phase \in {"test", "check"} /\ trouble = {} /\ Blank =>
       \A w \in Index \ {0} : Landed[w] = {}
  /\ phase \in {"file", "burst", "sum", "sumUp"} /\ trouble = {} =>
       \A w \in Index : WordIsRight(w)

(* A run that gives nothing up has summed up what the memory holds.         *)
SumInv ==
  /\ Undelayed /\ phase = "sum" => \A w \in 0..(j - 1) : copy[w] = nvm[w]
  /\ Undelayed /\ phase = "sumUp" =>
       \A w \in 0..(ChecksumReg - 1) : copy[w] = nvm[w] /\ copy[w] = Landed[w]
  /\ result = "summed" => phase = "idle" /\ (Undelayed => ~engine.busy)
  /\ Programmed

LEMMA LandedQuiet == TypeInv /\ engine.data = <<>> => Landed = nvm
<1> SUFFICES ASSUME TypeInv, engine.data = <<>> PROVE Landed = nvm
  OBVIOUS
<1>1. engine.at \in Int /\ Len(engine.data) = 0
  BY SizeFacts DEF TypeInv, EngineInv, Engines
<1>2. \A w \in Index : w \notin (engine.at - Len(engine.data))..(engine.at - 1)
  BY <1>1, SizeFacts DEF Index
<1> QED
  BY <1>2 DEF Landed, TypeInv, TypeOK

LEMMA LandedQuietNext == (TypeInv /\ engine.data = <<>> => Landed = nvm)'
  BY LandedQuiet, PTL

LEMMA MemoryStillNext ==
  (TypeInv /\ WireInv /\ Undelayed /\ phase \in Reading => Landed = nvm)'
<1>1. TypeInv /\ WireInv /\ Undelayed /\ phase \in Reading => Landed = nvm
  BY MemoryStill
<1> QED
  BY <1>1, PTL

LEMMA LandedSame ==
  ASSUME UNCHANGED <<device, engine, nvm>>
  PROVE  Landed' = Landed
  BY DEF Landed, Blank

(* A write: one word after the other arrives where it is meant to be.       *)
Arrives(w) ==
  IF w \in (call.at + Gone)..(call.at + Gone' - 1)
  THEN Landed'[w] = ({Datum(w - call.at)} \ {Ones}) \cup (IF Blank THEN Landed[w] ELSE {})
  ELSE Landed'[w] = Landed[w]

(* No word arrives if the loop does not move on.                            *)
LEMMA NoneArrives ==
  ASSUME Landed' = Landed, call.at \in Int, Gone \in Int, Gone' = Gone
  PROVE  \A w \in Index : Arrives(w)
<1>1. \A w : w \notin (call.at + Gone)..(call.at + Gone' - 1)
  OBVIOUS
<1> QED
  BY <1>1 DEF Arrives

LEMMA GoneType ==
  ASSUME TypeInv, phase \in Calling
  PROVE  Gone \in Nat /\ (call.op = "write" => Gone <= call.n)
<1>1. i \in Nat /\ call.n \in Nat /\ Sent \in Nat
  BY CallFacts DEF Sent
<1>2. Least(Sent, call.n) \in Nat /\ Least(Sent, call.n) <= call.n
  BY <1>1 DEF Least
<1>3. ~Blank /\ pc # "back" => i < call.n
  BY DEF TypeInv, LoopInv, CallInv, Calling
<1> QED
  BY <1>1, <1>2, <1>3 DEF Gone

LEMMA GoneTypeNext ==
  (TypeInv /\ phase \in Calling => Gone \in Nat /\ (call.op = "write" => Gone <= call.n))'
<1>1. TypeInv /\ phase \in Calling => Gone \in Nat /\ (call.op = "write" => Gone <= call.n)
  BY GoneType
<1> QED
  BY <1>1, PTL

LEMMA ArrivesWait ==
  ASSUME TypeInv, WireInv, Wait, Undelayed', call.op = "write"
  PROVE  /\ nvm' = nvm /\ \A w \in Index : Arrives(w)
         /\ Gone' = Gone /\ Gone <= Gone'
<1>1. /\ phase \in Calling /\ UNCHANGED <<device, engine, nvm, phase, call>>
  BY DEF Wait, PollDone, PollAgain, PollGivesUp, Polled, TypeInv, CallInv, Phases, Calling,
     Waits, hardware
<1>2. /\ i \in Nat /\ call.n \in Nat /\ call.at \in Nat /\ (Blank' <=> Blank)
      /\ (Blank => Flsw("write")) /\ (~Blank => Word("write"))
      /\ Gone \in Nat /\ Landed' = Landed
  BY <1>1, CallFacts, GoneType, LandedSame DEF Blank
<1>3. Gone' = Gone
  <2>1. CASE PollAgain
    BY <1>1, <1>2, <2>1 DEF PollAgain, Gone, Sent
  <2>2. CASE PollDone
    <3>1. /\ pc \in Waits /\ pc' = AfterWait
          /\ i' = IF pc = "dataPoll" THEN i + 1 ELSE i
      BY <2>2 DEF PollDone, Polled
    <3>2. CASE Blank /\ pc # "dataPoll"
      <4>1. pc' \in {"acquire", "command", "data"} /\ i' = i
        BY <3>1, <3>2, AfterWaitIs DEF Waits
      <4> QED
        BY <1>1, <1>2, <3>1, <3>2, <4>1 DEF Gone, Sent, Waits
    <3>3. CASE Blank /\ pc = "dataPoll" /\ Last
      <4>1. pc' = "back" /\ i + 1 > call.n
        BY <1>2, <3>1, <3>3, AfterWaitIs DEF NextRound, Last, Flsw
      <4>2. Gone = Least(2 * i + 2, call.n) /\ Gone' = call.n
        BY <1>1, <1>2, <3>3, <4>1 DEF Gone, Sent
      <4>3. Least(2 * i + 2, call.n) = call.n
        BY <1>2, <4>1 DEF Least
      <4> QED
        BY <4>2, <4>3
    <3>4. CASE Blank /\ pc = "dataPoll" /\ ~Last
      <4>1. pc' = "data" /\ i' = i + 1
        BY <1>2, <3>1, <3>4, AfterWaitIs DEF NextRound, Word
      <4>2. Sent' = Sent
        BY <1>2, <3>4, <4>1 DEF Sent
      <4> QED
        BY <1>1, <1>2, <3>4, <4>1, <4>2 DEF Gone
    <3>5. CASE ~Blank
      <4>1. i < call.n /\ pc \in {"ready", "dataPoll"}
        BY <1>2, <3>1, <3>5 DEF TypeInv, LoopInv, Waits, Started
      <4>2. CASE pc = "ready"
        BY <1>1, <1>2, <3>1, <3>5, <4>2, AfterWaitIs DEF Gone
      <4>3. CASE pc = "dataPoll" /\ Last
        <5>1. i + 1 = call.n /\ pc' = "back"
          BY <1>2, <3>1, <3>5, <4>1, <4>3, AfterWaitIs DEF NextRound, Last, Flsw
        <5> QED
          BY <1>1, <1>2, <3>5, <4>3, <5>1 DEF Gone
      <4>4. CASE pc = "dataPoll" /\ ~Last
        BY <1>1, <1>2, <3>1, <3>5, <4>4, AfterWaitIs DEF Gone, NextRound
      <4> QED
        BY <4>1, <4>2, <4>3, <4>4
    <3> QED
      BY <3>2, <3>3, <3>4, <3>5
  <2>3. ~PollGivesUp
    BY StillUndelayed DEF PollGivesUp
  <2> QED
    BY <2>1, <2>2, <2>3 DEF Wait
<1> QED
  BY <1>1, <1>2, <1>3, NoneArrives

LEMMA ArrivesDword ==
  ASSUME TypeInv, WireInv, WriteDword, Undelayed'
  PROVE  nvm' = nvm /\ Gone <= Gone' /\ \A w \in Index : Arrives(w)
<1>1. /\ phase \in Calling /\ UNCHANGED <<device, nvm, phase, call, i, trouble>>
      /\ pc = "data" /\ pc' = "dataPoll" /\ Flsw("write") /\ Undelayed /\ Blank
      /\ call.op = "write"
  BY DEF WriteDword, TypeInv, CallInv, Phases, Calling, Undelayed, Flsw
<1>2. /\ i \in Nat /\ call.n \in Nat /\ call.at \in Nat /\ call.n > 0
      /\ call.at + call.n <= Words /\ Gone \in Nat /\ Blank'
  BY <1>1, CallFacts, GoneType DEF Blank
<1>3. /\ Sent = 2 * i /\ Sent' = 2 * i + 2 /\ 2 * i \in Nat /\ 2 * i + 1 \in Nat
      /\ Gone = Least(2 * i, call.n) /\ Gone' = Least(2 * i + 2, call.n)
  BY <1>1, <1>2 DEF Sent, Gone
<1>4. ~engine.busy /\ engine.cmd = "write" /\ engine.data = <<>>
  BY <1>1 DEF WireInv, QuietInv, TransferInv, TypeInv, EngineInv, Calling
<1>5. engine.left \in Nat /\ engine.at \in Nat /\ EngineInv
  BY SizeFacts DEF TypeInv, EngineInv, Engines
<1>6. CASE engine.left = 0
  <2>1. 2 * i >= call.n
    BY <1>1, <1>3, <1>6 DEF WireInv, TransferInv
  <2>2. Gone' = Gone
    BY <1>2, <1>3, <2>1 DEF Least
  <2>3. engine' = engine
    BY <1>6 DEF WriteDword
  <2> QED
    BY <1>1, <1>2, <2>2, <2>3, LandedSame, NoneArrives
<1>7. CASE engine.left > 0
  <2> DEFINE a == Datum(2 * i)
             b == Datum(2 * i + 1)
             n == IF engine.left = 1 THEN 1 ELSE 2
  <2>1. engine.at = call.at + 2 * i /\ engine.left = call.n - 2 * i
    BY <1>1, <1>2, <1>3, <1>5, <1>7 DEF WireInv, TransferInv
  <2>2. n \in Nat /\ n \in {1, 2} /\ Gone = 2 * i /\ Gone' = 2 * i + n
    BY <1>2, <1>3, <1>5, <1>7, <2>1 DEF Least
  <2>3. engine' = Taken(<<a, b>>) /\ a \in Values \cup {Ones} /\ b \in Values \cup {Ones}
    BY <1>1, <1>3, <1>4, <1>7, DatumType DEF WriteDword
  <2>4. /\ engine'.at = engine.at + n /\ Len(engine'.data) = n
        /\ engine'.data[1] = a /\ (n = 2 => engine'.data[2] = b)
    <3> HIDE DEF a, b
    <3> QED
      BY <1>5, <1>7, <2>3, TakenIs
  <2>5. Landed = nvm
    BY <1>4, LandedQuiet
  <2> HIDE DEF n
  <2>6. engine'.at - Len(engine'.data) = call.at + 2 * i /\ engine'.at = call.at + 2 * i + n
    BY <1>2, <1>3, <1>5, <2>1, <2>2, <2>4
  <2>7. ASSUME NEW w \in Index PROVE Arrives(w)
    <3>0. w \in Int
      BY SizeFacts DEF Index
    <3>1. CASE w \in (call.at + 2 * i)..(call.at + 2 * i + n - 1)
      <4>1. engine'.data[w - (call.at + 2 * i) + 1] = Datum(w - call.at)
        <5>1. (w = call.at + 2 * i) \/ (w = call.at + 2 * i + 1 /\ n = 2)
          BY <1>2, <1>3, <2>2, <3>0, <3>1
        <5>2. CASE w = call.at + 2 * i
          <6>1. w - (call.at + 2 * i) + 1 = 1 /\ w - call.at = 2 * i
            BY <1>2, <1>3, <5>2
          <6> QED
            BY <2>4, <6>1
        <5>3. CASE w = call.at + 2 * i + 1 /\ n = 2
          <6>1. w - (call.at + 2 * i) + 1 = 2 /\ w - call.at = 2 * i + 1
            BY <1>2, <1>3, <5>3
          <6> QED
            BY <2>4, <5>3, <6>1
        <5> QED
          BY <5>1, <5>2, <5>3
      <4>2. Landed'[w] = nvm[w] \cup ({Datum(w - call.at)} \ {Ones})
        <5>1. w \in (engine'.at - Len(engine'.data))..(engine'.at - 1)
          BY <1>2, <1>3, <2>2, <2>6, <3>1
        <5>2. Landed'[w] = nvm'[w] \cup
                ({engine'.data[w - (engine'.at - Len(engine'.data)) + 1]} \ {Ones})
          BY <1>2, <5>1 DEF Landed
        <5> QED
          BY <1>1, <2>6, <4>1, <5>2
      <4>3. w \in (call.at + Gone)..(call.at + Gone' - 1)
        BY <1>2, <1>3, <2>2, <3>0, <3>1
      <4> QED
        BY <1>1, <2>5, <4>2, <4>3 DEF Arrives
    <3>2. CASE w \notin (call.at + 2 * i)..(call.at + 2 * i + n - 1)
      <4>1. Landed'[w] = nvm'[w]
        <5>1. w \notin (engine'.at - Len(engine'.data))..(engine'.at - 1)
          BY <1>2, <1>3, <2>2, <2>6, <3>0, <3>2
        <5> QED
          BY <5>1 DEF Landed
      <4>2. w \notin (call.at + Gone)..(call.at + Gone' - 1)
        BY <1>2, <1>3, <2>2, <3>0, <3>2
      <4> QED
        BY <1>1, <2>5, <4>1, <4>2 DEF Arrives
    <3> QED
      BY <3>1, <3>2
  <2>8. Gone <= Gone'
    BY <1>3, <2>2
  <2> QED
    BY <1>1, <2>7, <2>8
<1> QED
  BY <1>5, <1>6, <1>7

LEMMA ArrivesEewr ==
  ASSUME TypeInv, WireInv, WriteEewr, Undelayed'
  PROVE  nvm' = nvm /\ Gone <= Gone' /\ \A w \in Index : Arrives(w)
<1>1. /\ phase \in Calling /\ UNCHANGED <<device, nvm, phase, call, i, trouble>>
      /\ pc = "data" /\ pc' = "dataPoll" /\ Word("write") /\ Undelayed /\ ~Blank
      /\ i < call.n /\ phase # "idle"
  BY DEF WriteEewr, TypeInv, CallInv, Phases, Calling, Undelayed, Word, LoopInv, Started
<1>2. i \in Nat /\ call.n \in Nat /\ call.at \in Nat /\ ~Blank'
  BY <1>1, CallFacts DEF Blank
<1>3. Gone = i /\ Gone' = i + 1
  BY <1>1, <1>2 DEF Gone
<1>4. engine.data = <<>> /\ Landed = nvm
  BY <1>1, LandedQuiet DEF WireInv, QuietInv, TypeInv, EngineInv
<1>5. /\ engine'.at = call.at + i + 1 /\ engine'.data = <<Datum(i)>>
      /\ Len(engine'.data) = 1 /\ engine'.data[1] = Datum(i)
  BY DEF WriteEewr
<1>6. engine'.at - Len(engine'.data) = call.at + i /\ engine'.at - 1 = call.at + i
  BY <1>2, <1>5
<1>7. ASSUME NEW w \in Index PROVE Arrives(w)
  <2>0. w \in Int
    BY SizeFacts DEF Index
  <2>1. CASE w = call.at + i
    <3>1. w - call.at = i /\ w - (call.at + i) + 1 = 1
      BY <1>2, <2>1
    <3>2. w \in (engine'.at - Len(engine'.data))..(engine'.at - 1)
      BY <1>2, <1>6, <2>1
    <3>3. Landed'[w] = {engine'.data[w - (engine'.at - Len(engine'.data)) + 1]} \ {Ones}
      BY <1>2, <3>2 DEF Landed
    <3>4. w \in (call.at + Gone)..(call.at + Gone' - 1)
      BY <1>2, <1>3, <2>1
    <3> QED
      BY <1>1, <1>5, <1>6, <3>1, <3>3, <3>4 DEF Arrives
  <2>2. CASE w # call.at + i
    <3>1. Landed'[w] = nvm'[w]
      <4>1. w \notin (engine'.at - Len(engine'.data))..(engine'.at - 1)
        BY <1>2, <1>6, <2>0, <2>2
      <4> QED
        BY <4>1 DEF Landed
    <3>2. w \notin (call.at + Gone)..(call.at + Gone' - 1)
      BY <1>2, <1>3, <2>0, <2>2
    <3> QED
      BY <1>1, <1>4, <3>1, <3>2 DEF Arrives
  <2> QED
    BY <2>1, <2>2
<1>8. Gone <= Gone'
  BY <1>2, <1>3
<1> QED
  BY <1>1, <1>7, <1>8

(* Whatever else a write does, nothing arrives.                             *)
LEMMA ArrivesAll ==
  ASSUME TypeInv, WireInv, Access, Undelayed', call.op = "write"
  PROVE  /\ nvm' = nvm
         /\ \A w \in Index : w < call.at => Landed'[w] = Landed[w]
         /\ trouble' = {} => Gone <= Gone' /\ \A w \in Index : Arrives(w)
<1>1. /\ phase \in Calling /\ UNCHANGED <<device, phase, call>> /\ trouble \subseteq trouble'
  BY DEF Access, Wait, PollDone, PollAgain, PollGivesUp, Polled, AcquireFails, SetCount, Command,
     WriteDword, ReadDword, WriteEewr, WriteEerd, ReadEerd, TypeInv, CallInv, Phases, Calling,
     Waits, hardware
<1>2. /\ i \in Nat /\ call.n \in Nat /\ call.at \in Nat /\ Gone \in Nat /\ Undelayed
      /\ (Blank' <=> Blank)
  BY <1>1, CallFacts, GoneType, StillUndelayed DEF Blank
<1>3. ASSUME \A w \in Index : Arrives(w), NEW w \in Index, w < call.at
      PROVE  Landed'[w] = Landed[w]
  <2>1. w \notin (call.at + Gone)..(call.at + Gone' - 1)
    BY <1>2, <1>3, SizeFacts DEF Index
  <2> QED
    BY <1>3, <2>1 DEF Arrives
<1>4. CASE Wait
  BY <1>3, <1>4, ArrivesWait
<1>5. CASE WriteDword
  BY <1>3, <1>5, ArrivesDword
<1>6. CASE WriteEewr
  BY <1>3, <1>6, ArrivesEewr
<1>7. CASE AcquireFails
  <2>1. UNCHANGED <<device, engine, nvm>> /\ trouble' # {}
    BY <1>7 DEF AcquireFails, hardware
  <2> QED
    BY <2>1, LandedSame
<1>8. CASE SetCount
  <2>1. UNCHANGED <<device, engine, nvm, i>> /\ pc = "acquire" /\ pc' \in {"countPoll", "command"}
    BY <1>8 DEF SetCount
  <2>2. Gone' = Gone
    BY <1>1, <1>2, <2>1 DEF Gone, Sent
  <2> QED
    BY <1>2, <2>1, <2>2, LandedSame, NoneArrives
<1>9. CASE Command
  <2>1. CASE UNCHANGED engine /\ trouble' # {}
    BY <1>9, <2>1, LandedSame DEF Command
  <2>2. CASE engine' = Working(call.op, call.at, count) /\ pc' = "settle" /\ ~engine.busy
    <3>1. /\ engine'.data = <<>> /\ engine.data = <<>> /\ nvm' = nvm /\ i' = i /\ pc = "command"
          /\ Blank
      BY <1>9, <2>2 DEF Command, Working, TypeInv, EngineInv
    <3>2. Landed' = Landed
      <4>1. TypeInv'
        BY TypeAccess
      <4> QED
        BY <3>1, <4>1, LandedQuiet, LandedQuietNext
    <3>3. Gone' = Gone
      BY <1>1, <1>2, <2>2, <3>1 DEF Gone, Sent
    <3> QED
      BY <1>2, <3>1, <3>2, <3>3, NoneArrives
  <2> QED
    BY <1>9, <2>1, <2>2 DEF Command
<1>10. ~ReadDword /\ ~WriteEerd /\ ~ReadEerd
  BY <1>1 DEF ReadDword, WriteEerd, ReadEerd, Flsw, Word, TypeInv, LoopInv
<1> QED
  BY <1>4, <1>5, <1>6, <1>7, <1>8, <1>9, <1>10 DEF Access

AllInv == TypeInv /\ WireInv /\ ReadInv /\ ImageInv /\ SumInv

(* A read leaves the memory as it is.                                       *)
LEMMA ReadLeaves ==
  ASSUME TypeInv, WireInv, Access, Undelayed', call.op = "read"
  PROVE  nvm' = nvm /\ Landed' = Landed
<1>1. phase \in Reading /\ phase' = phase /\ trouble \subseteq trouble'
  BY DEF Access, Wait, PollDone, PollAgain, PollGivesUp, Polled, AcquireFails, SetCount, Command,
     WriteDword, ReadDword, WriteEewr, WriteEerd, ReadEerd, TypeInv, CallInv, Phases, Calling,
     Waits, hardware, Reading, Call
<1>2. Landed = nvm /\ Landed' = nvm'
  <2>1. TypeInv' /\ WireInv'
    BY TypeAccess, WireAccess
  <2> QED
    BY <1>1, <2>1, StillUndelayed, MemoryStill, MemoryStillNext
<1>3. nvm' = nvm \/ nvm' = Landed
  BY DEF Access, Wait, PollDone, PollAgain, PollGivesUp, Polled, AcquireFails, SetCount, Command,
     WriteDword, ReadDword, WriteEewr, WriteEerd, ReadEerd, hardware
<1> QED
  BY <1>2, <1>3

LEMMA ImageAccess ==
  ASSUME AllInv, Access
  PROVE  ImageInv'
<1> USE DEF AllInv
<1>1. /\ phase \in Calling /\ trouble \subseteq trouble'
      /\ UNCHANGED <<device, phase, call, j, file, mac>>
  BY DEF Access, Wait, PollDone, PollAgain, PollGivesUp, Polled, AcquireFails, SetCount, Command,
     WriteDword, ReadDword, WriteEewr, WriteEerd, ReadEerd, TypeInv, CallInv, Phases, Calling,
     Waits, hardware, run
<1>2. /\ Blank' <=> Blank /\ Passed' = Passed
      /\ \A w : Target(w)' = Target(w) /\ (InCallNow(w)' <=> InCallNow(w))
      /\ \A k : Datum(k)' = Datum(k)
  BY <1>1 DEF Blank, Passed, Target, InCallNow, Datum
<1>3. phase \in {"sum", "sumUp"} /\ Blank => mac
  BY DEF ImageInv
<1> SUFFICES ASSUME trouble' = {} PROVE ImageInv'
  BY <1>1, <1>2, <1>3 DEF ImageInv
<1>4. Undelayed /\ Undelayed' /\ trouble = {}
  BY <1>1 DEF Undelayed
<1>5. ASSUME NEW w, ~InCallNow(w), Landed'[w] = Landed[w], WordIsRight(w)
      PROVE  WordIsRight(w)'
  <2>1. Target(w)' = Target(w) /\ ~InCallNow(w)' /\ Passed' = Passed /\ (Blank' <=> Blank)
    BY <1>1, <1>5 DEF Blank, Passed, Target, InCallNow
  <2>2. IF w < Passed THEN Landed[w] = Target(w) ELSE Blank => Landed[w] = {}
    BY <1>5 DEF WordIsRight
  <2>3. IF w < Passed' THEN Landed'[w] = Target(w)' ELSE Blank' => Landed'[w] = {}
    <3> HIDE DEF Target
    <3> QED
      BY <1>5, <2>1, <2>2
  <2> QED
    BY <2>1, <2>3 DEF WordIsRight
<1>6. CASE call.op = "read"
  <2>1. Landed' = Landed /\ phase \notin {"burst", "sumUp"}
    BY <1>1, <1>4, <1>6, ReadLeaves DEF TypeInv, CallInv, Call
  <2>2. \A w : ~InCallNow(w)
    BY <2>1 DEF InCallNow
  <2> QED
    BY <1>1, <1>2, <1>3, <1>4, <1>5, <2>1, <2>2 DEF ImageInv
<1>7. CASE call.op = "write"
  <2>1. Gone <= Gone' /\ \A w \in Index : Arrives(w)
    BY <1>4, <1>7, ArrivesAll
  <2>2. /\ Gone \in Nat /\ Gone' \in Nat /\ Gone' <= call.n /\ call.at \in Nat /\ call.n \in Nat
    <3>1. TypeInv'
      BY TypeAccess
    <3> QED
      BY <1>1, <1>7, <3>1, GoneType, GoneTypeNext, CallFacts
  <2>3. ASSUME phase = "test", Blank, NEW w \in Index \ {0}
        PROVE  Landed'[w] = {}
    <3>1. call.at = 0 /\ call.n = 1
      BY <2>3 DEF TypeInv, CallInv, Call
    <3>2. w \notin (call.at + Gone)..(call.at + Gone' - 1)
      <4>1. w \in Nat /\ w # 0 /\ Gone' <= 1
        BY <2>2, <2>3, <3>1, SizeFacts DEF Index
      <4>2. call.at + Gone' - 1 < w
        <5>1. \A x, y \in Nat : x <= 1 /\ y # 0 => 0 + x - 1 < y
          OBVIOUS
        <5> QED
          BY <2>2, <3>1, <4>1, <5>1
      <4>3. call.at + Gone' - 1 \in Int /\ call.at + Gone \in Int
        BY <2>2
      <4> QED
        BY <4>1, <4>2, <4>3
    <3>3. Landed'[w] = Landed[w]
      BY <2>1, <2>3, <3>2 DEF Arrives
    <3> QED
      BY <1>4, <2>3, <3>3 DEF ImageInv
  <2>4. ASSUME phase \in {"burst", "sumUp"}, NEW w \in Index
        PROVE  WordIsRight(w)'
    <3>1. WordIsRight(w) /\ Arrives(w) /\ w \in Int
      BY <1>4, <2>1, <2>4, SizeFacts DEF ImageInv, Index
    <3>2. CASE ~InCallNow(w)
      <4>1. w \notin (call.at + Gone)..(call.at + Gone' - 1)
        BY <2>2, <2>4, <3>1, <3>2 DEF InCallNow
      <4>2. Landed'[w] = Landed[w]
        BY <3>1, <4>1 DEF Arrives
      <4> QED
        BY <1>5, <3>1, <3>2, <4>2
    <3>3. CASE InCallNow(w) /\ w < call.at + Gone
      <4>1. w \notin (call.at + Gone)..(call.at + Gone' - 1)
        BY <2>2, <3>1, <3>3
      <4>2. Landed'[w] = {Datum(w - call.at)} \ {Ones}
        BY <3>1, <3>3, <4>1 DEF Arrives, WordIsRight
      <4>3. w < call.at + Gone'
        BY <2>1, <2>2, <3>1, <3>3
      <4> QED
        BY <1>1, <1>2, <3>3, <4>2, <4>3 DEF WordIsRight
    <3>4. CASE InCallNow(w) /\ ~(w < call.at + Gone) /\ w < call.at + Gone'
      <4>1. w \in (call.at + Gone)..(call.at + Gone' - 1)
        BY <2>2, <3>1, <3>4
      <4>2. Landed'[w] = {Datum(w - call.at)} \ {Ones}
        BY <3>1, <3>4, <4>1 DEF Arrives, WordIsRight
      <4> QED
        BY <1>1, <1>2, <3>4, <4>2 DEF WordIsRight
    <3>5. CASE InCallNow(w) /\ ~(w < call.at + Gone) /\ ~(w < call.at + Gone')
      <4>1. w \notin (call.at + Gone)..(call.at + Gone' - 1)
        BY <2>2, <3>1, <3>5
      <4>2. Landed'[w] = Landed[w]
        BY <3>1, <4>1 DEF Arrives
      <4> QED
        BY <1>1, <1>2, <3>1, <3>5, <4>2 DEF WordIsRight
    <3> QED
      BY <3>2, <3>3, <3>4, <3>5
  <2>5. phase \in {"test", "burst", "sumUp"}
    BY <1>1, <1>7 DEF TypeInv, CallInv, Calling, Call
  <2> QED
    BY <1>1, <1>2, <1>3, <2>3, <2>4, <2>5 DEF ImageInv
<1> QED
  BY <1>1, <1>6, <1>7, CallFacts

(* Neither a run nor the memory is there yet, or any more.                  *)
LEMMA ImageElsewhere ==
  ASSUME phase' \notin {"test", "check", "file", "burst", "sum", "sumUp"}
  PROVE  ImageInv'
  BY DEF ImageInv

LEMMA ImageWrite ==
  ASSUME AllInv, WriteNvm
  PROVE  ImageInv'
<1> USE DEF AllInv
<1>1. /\ UNCHANGED <<device, engine, run, file, mac>> /\ trouble \subseteq trouble'
      /\ phase # "idle" /\ pc \notin {"settle", "dataPoll"} /\ (Blank' <=> Blank)
  BY DEF WriteNvm, EraseNvm, TestWritten, TestRead, Erases, NextBurst, BurstWritten,
     NoFile, UpdateSkipped, Update, WordsSummed, SumFails, Updated, hardware, run, TypeInv, CallInv,
     Blank
<1>2. TypeInv' /\ WireInv'
  BY TypeWrite, WireNext DEF Next, Program
<1>3. trouble' = {} => /\ trouble = {} /\ Undelayed /\ Undelayed' /\ engine.data = <<>>
                       /\ engine'.data = <<>> /\ Landed = nvm /\ Landed' = nvm'
  <2>1. trouble' = {} => trouble = {} /\ Undelayed /\ Undelayed'
    BY <1>1 DEF Undelayed
  <2>2. Undelayed => engine.data = <<>>
    BY <1>1 DEF WireInv, QuietInv, TypeInv, EngineInv
  <2> QED
    BY <1>1, <1>2, <2>1, <2>2, LandedQuiet, LandedQuietNext
<1>4. \A w \in Index : w \in Nat
  BY SizeFacts DEF Index
<1>5. CASE EraseNvm
  <2>1. phase' = "test" /\ (trouble' = {} /\ Blank => \A w \in Index : nvm'[w] = {})
    BY <1>5 DEF EraseNvm, Erases
  <2> QED
    BY <1>1, <1>3, <2>1 DEF ImageInv
<1>6. CASE TestWritten
  BY <1>1, <1>3, <1>6 DEF ImageInv, TestWritten, hardware
<1>7. CASE TestRead
  <2>1. CASE phase' = "idle"
    BY <2>1, ImageElsewhere
  <2>2. CASE phase' = "file"
    <3>1. j = 0 /\ j' = 0
      BY <1>7 DEF TestRead, TypeInv, OffsetInv
    <3>2. ASSUME trouble' = {}, Blank, NEW w \in Index
          PROVE  nvm'[w] = {}
      <4>1. nvm' = [x \in Index |-> IF x \in SectorWords..(Words - 1) THEN nvm[x] ELSE {}]
        BY <1>7, <3>2 DEF TestRead, Erases
      <4>2. w = 0 => w \notin SectorWords..(Words - 1)
        BY SizeFacts
      <4>3. w # 0 => nvm[w] = {}
        BY <1>3, <1>7, <3>2 DEF ImageInv, TestRead
      <4> QED
        BY <4>1, <4>2, <4>3
    <3>3. ASSUME trouble' = {}, NEW w \in Index PROVE WordIsRight(w)'
      <4>1. Passed' = 0 /\ ~InCallNow(w)' /\ ~(w < 0)
        BY <1>4, <2>2, <3>1 DEF Passed, InCallNow
      <4>2. Blank' => Landed'[w] = {}
        BY <1>1, <1>3, <3>2, <3>3
      <4> QED
        BY <4>1, <4>2 DEF WordIsRight
    <3> QED
      BY <2>2, <3>3 DEF ImageInv
  <2> QED
    BY <1>7, <2>1, <2>2 DEF TestRead, End
<1>8. CASE NextBurst
  <2>1. /\ phase = "file" /\ phase' = "burst" /\ j' = j /\ UNCHANGED nvm /\ j \in Nat
        /\ call' = Call("write", j, BurstWords, "img") /\ i' = 0 /\ pc' = "ready"
    BY <1>8, SizeFacts DEF NextBurst, Begin, hardware, run, TypeInv, TypeOK
  <2>2. call'.at = j /\ call'.n = BurstWords /\ Gone' = 0
    <3>1. Sent' = 0
      BY <2>1 DEF Sent
    <3> QED
      BY <2>1, <3>1, SizeFacts DEF Call, Gone, Least
  <2>3. ASSUME trouble' = {}, NEW w \in Index PROVE WordIsRight(w)'
    <3>1. WordIsRight(w) /\ ~InCallNow(w) /\ Passed = j /\ Passed' = j
      BY <1>3, <2>1, <2>3 DEF ImageInv, InCallNow, Passed
    <3>2. IF w < j THEN Landed[w] = Target(w) ELSE Blank => Landed[w] = {}
      BY <3>1 DEF WordIsRight
    <3>3. Landed' = Landed /\ Target(w)' = Target(w)
      BY <1>1, <1>3, <2>1, <2>3 DEF Target
    <3>4. InCallNow(w)' => ~(w < j) /\ ~(w < call'.at + Gone')
      BY <1>4, <2>1, <2>2 DEF InCallNow
    <3> QED
      BY <1>1, <3>1, <3>2, <3>3, <3>4 DEF WordIsRight
  <2> QED
    BY <2>1, <2>3 DEF ImageInv
<1>9. CASE BurstWritten
  <2>1. /\ phase = "burst" /\ phase' = "file" /\ j' = j + BurstWords /\ UNCHANGED nvm /\ j \in Nat
        /\ call.at = j /\ call.n = BurstWords /\ call.kind = "img" /\ pc = "back"
    BY <1>9, SizeFacts DEF BurstWritten, Call, hardware, run, TypeInv, TypeOK, CallInv
  <2>2. ASSUME trouble' = {}, NEW w \in Index PROVE WordIsRight(w)'
    <3>1. WordIsRight(w) /\ Passed = j /\ Passed' = j + BurstWords /\ ~InCallNow(w)' /\ Gone = BurstWords
      BY <1>3, <2>1, <2>2 DEF ImageInv, InCallNow, Passed, Gone
    <3>2. Landed' = Landed /\ Target(w)' = Target(w)
      BY <1>1, <1>3, <2>1, <2>2 DEF Target
    <3>3. CASE w < j
      <4>1. ~InCallNow(w) /\ w < j + BurstWords
        BY <1>4, <2>1, <3>3, SizeFacts DEF InCallNow
      <4>2. Landed[w] = Target(w)
        BY <3>1, <3>3, <4>1 DEF WordIsRight
      <4> QED
        BY <3>1, <3>2, <4>1, <4>2 DEF WordIsRight
    <3>4. CASE w \in j..(j + BurstWords - 1)
      <4>1. InCallNow(w) /\ w < j + BurstWords
        BY <1>4, <2>1, <3>4, SizeFacts DEF InCallNow
      <4>2. Landed[w] = {Datum(w - j)} \ {Ones}
        BY <2>1, <3>1, <4>1 DEF WordIsRight
      <4>3. w - j < call.n /\ call.at + (w - j) = w
        BY <1>4, <2>1, <3>4, SizeFacts
      <4>4. {Datum(w - j)} \ {Ones} = Target(w)
        BY <2>1, <4>3, SizeFacts DEF Datum, Target, Value, Ones
      <4> QED
        BY <3>1, <3>2, <4>1, <4>2, <4>4 DEF WordIsRight
    <3>5. CASE ~(w < j + BurstWords)
      <4>1. ~InCallNow(w) /\ ~(w < j)
        BY <1>4, <2>1, <3>5, SizeFacts DEF InCallNow
      <4> QED
        BY <1>1, <3>1, <3>2, <3>5, <4>1 DEF WordIsRight
    <3> QED
      BY <1>4, <2>1, <3>3, <3>4, <3>5, SizeFacts
  <2> QED
    BY <2>1, <2>2 DEF ImageInv
<1>10. CASE NoFile \/ UpdateSkipped \/ SumFails \/ Updated
  BY <1>10, ImageElsewhere DEF NoFile, UpdateSkipped, SumFails, Updated, End
<1>11. CASE Update
  <2>1. /\ phase = "file" /\ phase' = "sum" /\ j = file * BurstWords /\ UNCHANGED nvm
        /\ (Blank => mac)
    BY <1>11 DEF Update, hardware
  <2>2. ASSUME trouble' = {}, NEW w \in Index PROVE WordIsRight(w)'
    <3>1. /\ WordIsRight(w) /\ Passed' = Passed /\ ~InCallNow(w) /\ ~InCallNow(w)'
          /\ Landed' = Landed /\ Target(w)' = Target(w)
      BY <1>1, <1>3, <2>1, <2>2 DEF ImageInv, InCallNow, Passed, Target
    <3> QED
      BY <1>1, <3>1 DEF WordIsRight
  <2> QED
    BY <1>1, <2>1, <2>2 DEF ImageInv
<1>12. CASE WordsSummed
  <2>1. /\ phase = "sum" /\ phase' \in {"sum", "sumUp"} /\ UNCHANGED nvm /\ (Blank => mac)
        /\ i' = 0 /\ pc' \in {"ready", "command"}
        /\ phase' = "sumUp" => call' = Call("write", ChecksumReg, 1, "sum")
    BY <1>12 DEF WordsSummed, Begin, hardware, ImageInv
  <2>2. phase' = "sumUp" => call'.at = ChecksumReg /\ call'.n = 1 /\ Gone' = 0
    <3>1. Sent' = 0
      BY <2>1 DEF Sent
    <3> QED
      BY <2>1, <3>1 DEF Call, Gone, Least
  <2>3. ASSUME trouble' = {}, NEW w \in Index PROVE WordIsRight(w)'
    <3>1. /\ WordIsRight(w) /\ Passed' = Passed /\ ~InCallNow(w)
          /\ Landed' = Landed /\ Target(w)' = Target(w)
      BY <1>1, <1>3, <2>1, <2>3 DEF ImageInv, InCallNow, Passed, Target
    <3>2. InCallNow(w)' => w = ChecksumReg /\ ~(w < call'.at + Gone')
      BY <1>4, <2>1, <2>2, SizeFacts DEF InCallNow
    <3>3. w = ChecksumReg /\ Blank => Landed[w] = {}
      BY <2>1, <3>1 DEF WordIsRight, Target
    <3> QED
      BY <1>1, <3>1, <3>2, <3>3 DEF WordIsRight
  <2> QED
    BY <1>1, <2>1, <2>3 DEF ImageInv
<1> QED
  BY <1>5, <1>6, <1>7, <1>8, <1>9, <1>10, <1>11, <1>12 DEF WriteNvm

LEMMA ImageNext ==
  ASSUME AllInv, [Next]_vars
  PROVE  ImageInv'
<1>1. CASE UNCHANGED vars
  <2>1. /\ Landed' = Landed /\ \A w : WordIsRight(w)' <=> WordIsRight(w)
        /\ UNCHANGED <<phase, trouble, mac>> /\ (Blank' <=> Blank)
    BY <1>1, LandedSame DEF vars, hardware, run, WordIsRight, InCallNow, Passed, Target, Gone, Sent,
       Datum, Blank
  <2> QED
    BY <2>1 DEF AllInv, ImageInv
<1>2. CASE AccessDone
  <2>1. /\ nvm' = Landed /\ engine' = [engine EXCEPT !.busy = FALSE, !.data = <<>>]
        /\ UNCHANGED <<device, phase, pc, call, i, status, buffer, copy, run, j, trouble>>
    BY <1>2 DEF AccessDone
  <2>2. Landed' = Landed
    <3>1. TypeInv' /\ engine'.data = <<>>
      BY <1>2, <2>1, TypeDone DEF AllInv, TypeInv, EngineInv, Engines
    <3> QED
      BY <2>1, <3>1, LandedQuietNext
  <2>3. ASSUME NEW w, WordIsRight(w) PROVE WordIsRight(w)'
    BY <2>1, <2>2, <2>3 DEF run, WordIsRight, InCallNow, Passed, Target, Gone, Sent, Datum, Blank
  <2> QED
    BY <2>1, <2>2, <2>3 DEF AllInv, ImageInv, Blank, run
<1>3. CASE Start \/ DumpData \/ Kill
  BY <1>3, ImageElsewhere DEF Start, DumpData, DumpBurst, BurstDumped, DumpWritten, Kill, End
<1> QED
  BY <1>1, <1>2, <1>3, ImageAccess, ImageWrite DEF Next, Program

LEMMA SumNext ==
  ASSUME AllInv, [Next]_vars
  PROVE  SumInv'
<1> USE DEF AllInv
<1>1. ChecksumReg \in Nat /\ j \in Nat /\ \A w \in 0..(ChecksumReg - 1) : w \in Index
  BY SizeFacts DEF Index, TypeInv, TypeOK
<1>2. CASE UNCHANGED vars
  <2>1. Landed' = Landed
    BY <1>2, LandedSame DEF vars, hardware
  <2> QED
    BY <1>2, <2>1 DEF vars, hardware, run, SumInv, Programmed, Undelayed
<1>3. ASSUME phase' \notin {"sum", "sumUp"}, result' # "summed"
      PROVE  SumInv'
  BY <1>3 DEF SumInv, Programmed
<1>4. CASE Access
  <2>1. /\ phase \in Calling /\ trouble \subseteq trouble'
        /\ UNCHANGED <<device, phase, call, j, copy, result>>
    BY <1>4 DEF Access, Wait, PollDone, PollAgain, PollGivesUp, Polled, AcquireFails, SetCount,
       Command, WriteDword, ReadDword, WriteEewr, WriteEerd, ReadEerd, TypeInv, CallInv, Phases,
       Calling, Waits, hardware, run
  <2>2. result' # "summed"
    BY <2>1 DEF SumInv, Calling
  <2>3. Undelayed' => Undelayed
    BY <2>1, StillUndelayed
  <2>4. CASE phase = "sum"
    <3>1. call.op = "read"
      BY <2>4 DEF TypeInv, CallInv, Call
    <3>2. Undelayed' => nvm' = nvm
      BY <1>4, <3>1, ReadLeaves
    <3> QED
      BY <2>1, <2>2, <2>3, <2>4, <3>2 DEF SumInv, Programmed
  <2>5. CASE phase = "sumUp"
    <3>1. call.op = "write" /\ call.at = ChecksumReg
      BY <2>5 DEF TypeInv, CallInv, Call
    <3>2. Undelayed' => nvm' = nvm /\ \A w \in Index : w < ChecksumReg => Landed'[w] = Landed[w]
      BY <1>4, <3>1, ArrivesAll
    <3>3. \A w \in 0..(ChecksumReg - 1) : w < ChecksumReg
      BY <1>1
    <3> QED
      BY <1>1, <2>1, <2>2, <2>3, <2>5, <3>2, <3>3 DEF SumInv, Programmed
  <2> QED
    BY <1>3, <2>1, <2>2, <2>4, <2>5
<1>5. CASE AccessDone
  <2>1. /\ nvm' = Landed /\ engine.busy /\ engine' = [engine EXCEPT !.busy = FALSE, !.data = <<>>]
        /\ UNCHANGED <<device, phase, copy, j, trouble, result>>
    BY <1>5 DEF AccessDone
  <2>2. Landed' = nvm'
    <3>1. TypeInv' /\ engine'.data = <<>>
      BY <1>5, <2>1, TypeDone DEF TypeInv, EngineInv, Engines
    <3> QED
      BY <3>1, LandedQuietNext
  <2>3. Undelayed' <=> Undelayed
    BY <2>1 DEF Undelayed
  <2>4. result = "summed" => ~Undelayed
    BY <2>1 DEF SumInv
  <2>5. Undelayed /\ phase = "sum" => nvm' = nvm
    BY <2>1, MemoryStill DEF Reading
  <2> QED
    BY <2>1, <2>2, <2>3, <2>4, <2>5 DEF SumInv, Programmed
<1>6. CASE Start \/ DumpData \/ Kill
  <2>1. DumpData => result # "summed"
    BY DEF DumpData, DumpBurst, BurstDumped, DumpWritten, SumInv
  <2> QED
    BY <1>3, <1>6, <2>1 DEF Start, DumpData, DumpBurst, BurstDumped, DumpWritten, Kill, End
<1>7. CASE WriteNvm
  <2>1. /\ phase # "idle" /\ result # "summed" /\ UNCHANGED <<device, engine>>
        /\ trouble \subseteq trouble'
    BY <1>7 DEF WriteNvm, EraseNvm, TestWritten, TestRead, Erases, NextBurst, BurstWritten,
       NoFile, UpdateSkipped, Update, WordsSummed, SumFails, Updated, hardware, SumInv
  <2>2. CASE Update
    BY <2>1, <2>2 DEF Update, SumInv, Programmed
  <2>3. CASE WordsSummed
    <3>1. /\ phase = "sum" /\ pc = "back" /\ status = "SUCCESS" /\ copy' = Copied /\ j' = j + Step
          /\ result' # "summed" /\ UNCHANGED <<nvm, trouble>> /\ call.at = j /\ call.n = Step
      BY <2>1, <2>3 DEF WordsSummed, hardware, TypeInv, CallInv, Call
    <3>2. Step \in {1, 2} /\ (Undelayed' <=> Undelayed)
      BY <3>1 DEF Step, Undelayed
    <3>3. ASSUME Undelayed, NEW w \in Index, w < j + Step
          PROVE  Copied[w] = nvm[w]
      <4>1. w \in Nat
        BY SizeFacts DEF Index
      <4>2. CASE w < j
        <5>1. w \in 0..(j - 1) /\ w \notin j..(j + call.n - 1)
          BY <1>1, <3>1, <3>2, <4>1, <4>2
        <5> QED
          BY <3>1, <3>3, <5>1 DEF SumInv, Copied
      <4>3. CASE ~(w < j)
        <5>1. /\ w \in j..(j + call.n - 1) /\ w - j \in 0..(call.n - 1)
              /\ call.at + (w - j) = w
          BY <1>1, <3>1, <3>2, <3>3, <4>1, <4>3
        <5>2. buffer[w - j] = nvm[call.at + (w - j)]
          BY <3>1, <3>3, <5>1 DEF ReadInv
        <5> QED
          BY <5>1, <5>2 DEF Copied
      <4> QED
        BY <4>2, <4>3
    <3>4. j' \in Nat /\ j < ChecksumReg
      BY <1>1, <3>1, <3>2 DEF TypeInv, OffsetInv
    <3>5. CASE j + Step < ChecksumReg
      <4>1. phase' = "sum"
        BY <2>3, <3>5 DEF WordsSummed
      <4>2. \A w \in 0..(j' - 1) : w \in Index /\ w < j + Step
        <5>1. \A w \in 0..(j + Step - 1) : w \in Index /\ w < j + Step
          BY <1>1, <3>2, <3>4, <3>5
        <5>2. j' - 1 = j + Step - 1
          BY <1>1, <3>1, <3>2
        <5> QED
          BY <5>1, <5>2
      <4> QED
        <5>1. ASSUME Undelayed, NEW w \in 0..(j' - 1) PROVE copy'[w] = nvm'[w]
          BY <3>1, <3>3, <4>2, <5>1
        <5>2. phase' # "sumUp"
          BY <4>1
        <5> QED
          BY <3>1, <3>2, <4>1, <5>1, <5>2 DEF SumInv, Programmed
    <3>6. CASE ~(j + Step < ChecksumReg)
      <4>1. phase' = "sumUp"
        BY <2>3, <3>6 DEF WordsSummed
      <4>2. \A w \in 0..(ChecksumReg - 1) : w \in Index /\ w < j + Step
        BY <1>1, <3>2, <3>4, <3>6
      <4>3. Undelayed => Landed = nvm /\ Landed' = Landed
        BY <2>1, <3>1, MemoryStill, LandedSame DEF Reading
      <4> QED
        BY <3>1, <3>2, <3>3, <4>1, <4>2, <4>3 DEF SumInv, Programmed
    <3> QED
      BY <3>5, <3>6
  <2>4. CASE Updated /\ status = "SUCCESS"
    <3>1. /\ phase = "sumUp" /\ pc = "back" /\ phase' = "idle" /\ UNCHANGED <<hardware, copy, run, trouble>>
      BY <2>4 DEF Updated, End
    <3>2. /\ (Undelayed' <=> Undelayed)
          /\ Undelayed => ~engine.busy /\ engine.data = <<>> /\ Landed = nvm
      BY <3>1, LandedQuiet DEF WireInv, QuietInv, TypeInv, EngineInv, Undelayed
    <3>3. Undelayed => \A w \in 0..(ChecksumReg - 1) : copy[w] = nvm[w]
      BY <3>1 DEF SumInv
    <3>4. call.at = ChecksumReg /\ call.n = 1 /\ call.kind = "sum" /\ Gone = 1
      BY <3>1 DEF TypeInv, CallInv, Call, Gone
    <3>5. ASSUME trouble = {}
          PROVE  /\ nvm[ChecksumReg] = {Value("sum", ChecksumReg)}
                 /\ \A w \in 0..(file * BurstWords - 1) : w # ChecksumReg =>
                      nvm[w] = {Value("img", w)}
      <4>1. Landed = nvm /\ \A w \in Index : WordIsRight(w)
        BY <3>1, <3>2, <3>5 DEF Undelayed, ImageInv
      <4>2. nvm[ChecksumReg] = {Value("sum", ChecksumReg)}
        <5>1. InCallNow(ChecksumReg) /\ ChecksumReg < call.at + Gone /\ ChecksumReg - call.at = 0
          BY <1>1, <3>1, <3>4 DEF InCallNow
        <5>2. Landed[ChecksumReg] = {Datum(0)} \ {Ones}
          BY <4>1, <5>1, SizeFacts DEF WordIsRight
        <5>3. {Datum(0)} \ {Ones} = {Value("sum", ChecksumReg)}
          BY <1>1, <3>4 DEF Datum, Value, Ones
        <5> QED
          BY <4>1, <5>2, <5>3
      <4>3. ASSUME NEW w \in 0..(file * BurstWords - 1), w # ChecksumReg
            PROVE  nvm[w] = {Value("img", w)}
        <5>1. file * BurstWords \in 0..Words /\ file * BurstWords \in Nat
          BY BurstFacts, SizeFacts DEF TypeInv, TypeOK
        <5>2. w \in Index /\ w < file * BurstWords
          <6>1. \A x \in Nat : x <= Words /\ w \in 0..(x - 1) => w \in 0..(Words - 1) /\ w < x
            BY SizeFacts
          <6> QED
            BY <4>3, <5>1, <6>1 DEF Index
        <5>3. ~InCallNow(w) /\ Passed = file * BurstWords
          BY <1>1, <3>1, <3>4, <4>3, <5>2, SizeFacts DEF InCallNow, Passed, Index
        <5> QED
          BY <4>1, <4>3, <5>2, <5>3 DEF WordIsRight, Target
      <4> QED
        BY <4>2, <4>3
    <3> QED
      BY <3>1, <3>2, <3>3, <3>5 DEF SumInv, Programmed, hardware, run
  <2>5. CASE WriteNvm /\ ~Update /\ ~WordsSummed /\ ~(Updated /\ status = "SUCCESS")
    <3>1. phase' \notin {"sum", "sumUp"} /\ result' # "summed"
      BY <2>1, <2>5 DEF WriteNvm, EraseNvm, TestWritten, TestRead, NextBurst, BurstWritten,
         NoFile, UpdateSkipped, SumFails, Updated, End
    <3> QED
      BY <1>3, <3>1
  <2> QED
    BY <1>7, <2>2, <2>3, <2>4, <2>5
<1> QED
  BY <1>2, <1>4, <1>5, <1>6, <1>7 DEF Next, Program

(* A checksum that is reported as written is right for the words under it,  *)
(* and the words of the image are there, if nothing was given up or refused *)
(* (WriteNvm, UpdateNvmChecksum82574, ProgramWithNewMAC).                   *)
THEOREM Programming == Spec => []Programmed
<1>1. Init => ReadInv /\ ImageInv /\ SumInv
  BY DEF Init, ReadInv, ImageInv, SumInv, Programmed
<1>2. AllInv /\ [Next]_vars => AllInv'
  BY TypeNext, WireNext, ReadNext, ImageNext, SumNext DEF AllInv
<1>3. Init => AllInv
  BY <1>1, TypeInit, WireInit DEF AllInv
<1>4. AllInv => Programmed
  BY DEF AllInv, SumInv
<1> QED
  BY <1>2, <1>3, <1>4, PTL DEF Spec

=============================================================================
