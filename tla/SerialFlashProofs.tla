------------------------- MODULE SerialFlashProofs -------------------------
(***************************************************************************)
(* Proofs about SerialFlash for flashes and pages of any size and any      *)
(* number of polls, calls and runs.                                        *)
(***************************************************************************)
EXTENDS SerialFlash, SequenceTheorems, TLAPS

LEMMA SizeFacts ==
  /\ Words \in Nat /\ Words > 0 /\ PageWords \in Nat /\ PageWords > 0
  /\ MaxPolls \in Nat /\ MaxPolls > 0 /\ MaxCalls \in Nat /\ MaxRuns \in Nat
  /\ Words % PageWords = 0 /\ 0 \in Address /\ NoAuto \notin Address
  BY SizeAssumption DEF Address, NoAuto

-----------------------------------------------------------------------------
(* Pages.                                                                   *)

LEMMA Remainder ==
  ASSUME NEW n \in Nat
  PROVE  /\ n % PageWords \in Nat /\ n % PageWords < PageWords /\ n % PageWords <= n
         /\ n < PageWords => n % PageWords = n
         /\ n % Words \in Address /\ (n < Words => n % Words = n)
  BY SizeFacts DEF Address

LEMMA PageFacts ==
  ASSUME NEW a \in Address
  PROVE  /\ PageStart(a) \in Nat /\ PageStart(a) <= a /\ a < PageStart(a) + PageWords
         /\ PageStart(a) + PageWords <= Words
         /\ Page(a) \subseteq Address
<1>1. a \in Nat /\ a < Words
  BY SizeFacts DEF Address
<1>2. /\ PageStart(a) \in Nat /\ PageStart(a) <= a /\ a < PageStart(a) + PageWords
  <2>1. a % PageWords \in Nat /\ a % PageWords < PageWords /\ a % PageWords <= a
    BY <1>1, Remainder
  <2> QED
    BY <1>1, <2>1, SizeFacts DEF PageStart
<1>3. PICK q \in Nat : Words = q * PageWords
  <2>1. Words = (Words \div PageWords) * PageWords /\ Words \div PageWords \in Nat
    BY SizeFacts
  <2> QED
    BY <2>1
<1>4. PICK d \in Nat : PageStart(a) = d * PageWords
  <2>1. a = (a \div PageWords) * PageWords + (a % PageWords) /\ a \div PageWords \in Nat
    BY <1>1, SizeFacts
  <2>2. (a \div PageWords) * PageWords \in Nat
    BY <2>1, SizeFacts
  <2> QED
    BY <1>1, <2>1, <2>2, Remainder DEF PageStart
<1>5. d < q
  <2>1. ASSUME q <= d PROVE FALSE
    <3>1. d = q + (d - q) /\ d - q \in Nat
      BY <2>1
    <3>2. d * PageWords = q * PageWords + (d - q) * PageWords
      BY <3>1, SizeFacts
    <3>3. (d - q) * PageWords \in Nat
      BY <3>1, SizeFacts
    <3> QED
      BY <1>1, <1>2, <1>3, <1>4, <3>2, <3>3
  <2> QED
    BY <2>1
<1>6. (d + 1) * PageWords <= q * PageWords
  <2>1. q = (d + 1) + (q - (d + 1)) /\ q - (d + 1) \in Nat
    BY <1>5
  <2>2. q * PageWords = (d + 1) * PageWords + (q - (d + 1)) * PageWords
    BY <2>1, SizeFacts
  <2>3. (q - (d + 1)) * PageWords \in Nat /\ (d + 1) * PageWords \in Nat
    BY <2>1, SizeFacts
  <2> QED
    BY <2>2, <2>3
<1>7. PageStart(a) + PageWords <= Words
  <2>1. (d + 1) * PageWords = d * PageWords + PageWords
    BY SizeFacts
  <2> QED
    BY <1>3, <1>4, <1>6, <2>1
<1> QED
  BY <1>2, <1>7, SizeFacts DEF Page, Address

(* Within its page the flash programs the words one after the other.        *)
LEMMA InPage ==
  ASSUME NEW a \in Address, NEW k \in Nat, a + k \in Page(a)
  PROVE  PageStart(a) + ((a - PageStart(a) + k) % PageWords) = a + k
<1>1. a \in Nat /\ PageStart(a) \in Nat /\ PageStart(a) <= a
  BY PageFacts, SizeFacts DEF Address
<1>2. a - PageStart(a) + k \in Nat /\ a - PageStart(a) + k < PageWords
  BY <1>1, SizeFacts DEF Page
<1> QED
  BY <1>1, <1>2, Remainder

-----------------------------------------------------------------------------
(* The frames of each call.                                                 *)

Kinds == {"rdsr", "in", "wren", "wrdi", "rdid", "ewsr", "wrsr", "value", "erase",
          "sectorErase", "program", "auto", "read", "address", "data", "old"}
Bytes == [kind : Kinds, at : Address]
Frames == Seq(Bytes)

LEMMA ByteFacts ==
  /\ \A kind \in Kinds : Byte(kind) \in Bytes /\ Byte(kind).kind = kind
  /\ \A a \in Address : /\ AddressByte(a) \in Bytes /\ DataByte(a) \in Bytes
                        /\ AddressByte(a).at = a /\ AddressByte(a).kind = "address"
                        /\ DataByte(a).kind = "data" /\ DataByte(a).at = a
  /\ In \in Bytes
  BY SizeFacts DEF Byte, AddressByte, DataByte, Bytes, In, Kinds

LEMMA One ==
  ASSUME NEW S, NEW x \in S
  PROVE  <<x>> \in Seq(S) /\ Len(<<x>>) = 1 /\ <<x>>[1] = x
  OBVIOUS

LEMMA Two ==
  ASSUME NEW S, NEW x \in S, NEW y \in S
  PROVE  <<x, y>> \in Seq(S) /\ Len(<<x, y>>) = 2 /\ <<x, y>>[1] = x /\ <<x, y>>[2] = y
  OBVIOUS

LEMMA Three ==
  ASSUME NEW S, NEW x \in S, NEW y \in S, NEW z \in S
  PROVE  /\ <<x, y, z>> \in Seq(S) /\ Len(<<x, y, z>>) = 3
         /\ <<x, y, z>>[1] = x /\ <<x, y, z>>[2] = y /\ <<x, y, z>>[3] = z
  OBVIOUS

LEMMA FrameTypes ==
  /\ \A kind \in Kinds : <<Byte(kind)>> \in Frames
  /\ Poll \in Frames /\ Len(Poll) = 2 /\ Poll[1] = Byte("rdsr") /\ Poll[2] = In
  /\ WriteEnable \in Seq(Frames) /\ Len(WriteEnable) = 2
  /\ WriteEnable[1] = <<Byte("wren")>> /\ WriteEnable[2] = <<Byte("wren")>>
  /\ WriteDisable \in Seq(Frames) /\ Len(WriteDisable) = 1 /\ WriteDisable[1] = <<Byte("wrdi")>>
<1>1. \A kind \in Kinds : <<Byte(kind)>> \in Frames
  BY ByteFacts, One DEF Frames
<1>2. Poll \in Frames /\ Len(Poll) = 2 /\ Poll[1] = Byte("rdsr") /\ Poll[2] = In
  BY ByteFacts, Two DEF Frames, Poll, Kinds
<1>3. <<Byte("wren")>> \in Frames /\ <<Byte("wrdi")>> \in Frames
  BY <1>1 DEF Kinds
<1> QED
  BY <1>1, <1>2, <1>3, One, Two DEF WriteEnable, WriteDisable

LEMMA Elements ==
  ASSUME NEW S, NEW s \in Seq(S)
  PROVE  Len(s) \in Nat /\ \A i \in 1..Len(s) : s[i] \in S
  OBVIOUS

LEMMA Joined ==
  ASSUME NEW S, NEW s \in Seq(S), NEW t \in Seq(S)
  PROVE  /\ s \o t \in Seq(S) /\ Len(s \o t) = Len(s) + Len(t)
         /\ \A i \in 1..(Len(s) + Len(t)) :
              (s \o t)[i] = IF i <= Len(s) THEN s[i] ELSE t[i - Len(s)]
  BY ConcatProperties, Zenon

LEMMA EraseFrames ==
  ASSUME NEW f \in Frames
  PROVE  /\ Erase(f) \in Seq(Frames) /\ Len(Erase(f)) = 6
         /\ Erase(f)[1] = Poll /\ Erase(f)[2] = <<Byte("wren")>> /\ Erase(f)[3] = <<Byte("wren")>>
         /\ Erase(f)[4] = f /\ Erase(f)[5] = Poll /\ Erase(f)[6] = <<Byte("wrdi")>>
<1> DEFINE first == <<Poll>>
           second == <<f, Poll>>
           s1 == first \o WriteEnable
           s2 == s1 \o second
           s3 == s2 \o WriteDisable
<1>1. first \in Seq(Frames) /\ Len(first) = 1 /\ first[1] = Poll
  BY FrameTypes, One
<1>2. second \in Seq(Frames) /\ Len(second) = 2 /\ second[1] = f /\ second[2] = Poll
  BY FrameTypes, Two
<1>3. Erase(f) = s3
  BY DEF Erase
<1> HIDE DEF first, second
<1>4. /\ s1 \in Seq(Frames) /\ Len(s1) = Len(first) + Len(WriteEnable)
      /\ \A i \in 1..(Len(first) + Len(WriteEnable)) :
           s1[i] = IF i <= Len(first) THEN first[i] ELSE WriteEnable[i - Len(first)]
  BY <1>1, FrameTypes, Joined, Zenon
<1> HIDE DEF s1
<1>5. /\ s2 \in Seq(Frames) /\ Len(s2) = Len(s1) + Len(second)
      /\ \A i \in 1..(Len(s1) + Len(second)) :
           s2[i] = IF i <= Len(s1) THEN s1[i] ELSE second[i - Len(s1)]
  <2>1. s1 \in Seq(Frames) /\ second \in Seq(Frames)
    BY <1>2, <1>4
  <2> QED
    BY <2>1, Joined, Zenon
<1> HIDE DEF s2
<1>6. /\ s3 \in Seq(Frames) /\ Len(s3) = Len(s2) + Len(WriteDisable)
      /\ \A i \in 1..(Len(s2) + Len(WriteDisable)) :
           s3[i] = IF i <= Len(s2) THEN s2[i] ELSE WriteDisable[i - Len(s2)]
  <2>1. s2 \in Seq(Frames) /\ WriteDisable \in Seq(Frames)
    BY <1>5, FrameTypes
  <2> QED
    BY <2>1, Joined, Zenon
<1> HIDE DEF s3
<1>7. /\ Len(s1) = 3
      /\ s1[1] = Poll /\ s1[2] = <<Byte("wren")>> /\ s1[3] = <<Byte("wren")>>
  BY <1>1, <1>4, FrameTypes
<1>8. /\ Len(s2) = 5
      /\ s2[1] = s1[1] /\ s2[2] = s1[2] /\ s2[3] = s1[3] /\ s2[4] = f /\ s2[5] = Poll
  BY <1>2, <1>5, <1>7
<1> QED
  BY <1>3, <1>6, <1>7, <1>8, FrameTypes

(* The data of a program frame, and the frame.                              *)
DataOf(a, n) == [i \in 1..n |-> DataByte(a + i - 1)]
ProgramFrame(a, n) == <<Byte("program"), AddressByte(a)>> \o DataOf(a, n)

LEMMA ProgramFrameIs ==
  ASSUME NEW a \in Address, NEW n \in Nat, n > 0, a + n - 1 \in Address
  PROVE  LET f == ProgramFrame(a, n) IN
         /\ f \in Frames /\ Len(f) = n + 2
         /\ f[1] = Byte("program") /\ f[2] = AddressByte(a)
         /\ \A i \in 3..(n + 2) : f[i] = DataByte(a + i - 3)
<1> DEFINE head == <<Byte("program"), AddressByte(a)>>
           data == DataOf(a, n)
           f == head \o data
<1>1. head \in Seq(Bytes) /\ Len(head) = 2 /\ head[1] = Byte("program") /\ head[2] = AddressByte(a)
  BY ByteFacts, Two DEF Kinds
<1>2. data \in Seq(Bytes) /\ Len(data) = n /\ \A i \in 1..n : data[i] = DataByte(a + i - 1)
  <2>1. \A i \in 1..n : a + i - 1 \in Address
    BY SizeFacts DEF Address
  <2>2. \A i \in 1..n : DataByte(a + i - 1) \in Bytes
    BY <2>1, ByteFacts
  <2>3. data \in [1..n -> Bytes] /\ \A i \in 1..n : data[i] = DataByte(a + i - 1)
    BY <2>2 DEF DataOf
  <2> QED
    BY <2>3, SeqDef
<1> HIDE DEF head, data
<1>3. /\ f \in Seq(Bytes) /\ Len(f) = Len(head) + Len(data)
      /\ \A i \in 1..(Len(head) + Len(data)) :
           f[i] = IF i <= Len(head) THEN head[i] ELSE data[i - Len(head)]
  <2>1. head \in Seq(Bytes) /\ data \in Seq(Bytes)
    BY <1>1, <1>2
  <2> QED
    BY <2>1, Joined, Zenon
<1>4. ProgramFrame(a, n) = f
  BY DEF ProgramFrame, head, data
<1> HIDE DEF f
<1>5. \A i \in 3..(n + 2) : f[i] = DataByte(a + i - 3)
  <2> SUFFICES ASSUME NEW i \in 3..(n + 2) PROVE f[i] = DataByte(a + i - 3)
    OBVIOUS
  <2>1. i - 2 \in 1..n /\ ~(i <= 2) /\ i \in 1..(2 + n) /\ a + (i - 2) - 1 = a + i - 3
    BY SizeFacts DEF Address
  <2>2. f[i] = data[i - 2]
    BY <1>1, <1>2, <1>3, <2>1
  <2> QED
    BY <1>2, <2>1, <2>2
<1> QED
  BY <1>1, <1>2, <1>3, <1>4, <1>5 DEF Frames

LEMMA ProgramFrames ==
  ASSUME NEW a \in Address, NEW n \in Nat, n > 0, a + n - 1 \in Address
  PROVE  LET p == Program(a, n) IN
         /\ p \in Seq(Frames) /\ Len(p) = 5
         /\ p[1] = <<Byte("wren")>> /\ p[2] = <<Byte("wren")>>
         /\ p[3] = ProgramFrame(a, n) /\ p[4] = <<Byte("wrdi")>> /\ p[5] = Poll
<1> DEFINE f == ProgramFrame(a, n)
           one == <<f>>
           last == <<Poll>>
           s1 == WriteEnable \o one
           s2 == s1 \o WriteDisable
           s3 == s2 \o last
<1>1. f \in Frames
  BY ProgramFrameIs
<1>2. Program(a, n) = s3
  BY DEF Program, ProgramFrame, DataOf
<1> HIDE DEF f
<1>3. one \in Seq(Frames) /\ Len(one) = 1 /\ one[1] = f
  BY <1>1, One
<1>4. last \in Seq(Frames) /\ Len(last) = 1 /\ last[1] = Poll
  BY FrameTypes, One
<1> HIDE DEF one, last
<1>5. /\ s1 \in Seq(Frames) /\ Len(s1) = Len(WriteEnable) + Len(one)
      /\ \A i \in 1..(Len(WriteEnable) + Len(one)) :
           s1[i] = IF i <= Len(WriteEnable) THEN WriteEnable[i] ELSE one[i - Len(WriteEnable)]
  <2>1. WriteEnable \in Seq(Frames) /\ one \in Seq(Frames)
    BY <1>3, FrameTypes
  <2> QED
    BY <2>1, Joined, Zenon
<1> HIDE DEF s1
<1>6. /\ s2 \in Seq(Frames) /\ Len(s2) = Len(s1) + Len(WriteDisable)
      /\ \A i \in 1..(Len(s1) + Len(WriteDisable)) :
           s2[i] = IF i <= Len(s1) THEN s1[i] ELSE WriteDisable[i - Len(s1)]
  <2>1. s1 \in Seq(Frames) /\ WriteDisable \in Seq(Frames)
    BY <1>5, FrameTypes
  <2> QED
    BY <2>1, Joined, Zenon
<1> HIDE DEF s2
<1>7. /\ s3 \in Seq(Frames) /\ Len(s3) = Len(s2) + Len(last)
      /\ \A i \in 1..(Len(s2) + Len(last)) :
           s3[i] = IF i <= Len(s2) THEN s2[i] ELSE last[i - Len(s2)]
  <2>1. s2 \in Seq(Frames) /\ last \in Seq(Frames)
    BY <1>4, <1>6
  <2> QED
    BY <2>1, Joined, Zenon
<1> HIDE DEF s3
<1>8. Len(s1) = 3 /\ s1[1] = <<Byte("wren")>> /\ s1[2] = <<Byte("wren")>> /\ s1[3] = f
  BY <1>3, <1>5, FrameTypes
<1>9. Len(s2) = 4 /\ s2[1] = s1[1] /\ s2[2] = s1[2] /\ s2[3] = s1[3] /\ s2[4] = <<Byte("wrdi")>>
  BY <1>6, <1>8, FrameTypes
<1> QED
  BY <1>2, <1>4, <1>7, <1>8, <1>9 DEF f

FirstFrame(a) == <<Byte("auto"), AddressByte(a), DataByte(a)>>
NextFrame(a) == <<Byte("auto"), DataByte(a)>>

LEMMA AutoFrames ==
  ASSUME NEW a \in Address
  PROVE  /\ FirstFrame(a) \in Frames /\ Len(FirstFrame(a)) = 3
         /\ FirstFrame(a)[1] = Byte("auto") /\ FirstFrame(a)[2] = AddressByte(a)
         /\ FirstFrame(a)[3] = DataByte(a)
         /\ NextFrame(a) \in Frames /\ Len(NextFrame(a)) = 2
         /\ NextFrame(a)[1] = Byte("auto") /\ NextFrame(a)[2] = DataByte(a)
  BY ByteFacts, Two, Three DEF Kinds, FirstFrame, NextFrame, Frames

LEMMA SstFrames ==
  ASSUME NEW a \in Address, NEW n \in Nat, n > 0, a + n - 1 \in Address
  PROVE  LET p == SstProgram(a, n) IN
         /\ p \in Seq(Frames) /\ Len(p) = n + 3
         /\ p[1] = <<Byte("wren")>> /\ p[2] = <<Byte("wren")>> /\ p[3] = FirstFrame(a)
         /\ \A i \in 4..(n + 2) : p[i] = NextFrame(a + i - 3)
         /\ p[n + 3] = <<Byte("wrdi")>>
<1> DEFINE one == <<FirstFrame(a)>>
           more == [k \in 1..(n - 1) |-> NextFrame(a + k)]
           s1 == WriteEnable \o one
           s2 == s1 \o more
           s3 == s2 \o WriteDisable
<1>1. one \in Seq(Frames) /\ Len(one) = 1 /\ one[1] = FirstFrame(a)
  BY AutoFrames, One
<1>2. more \in Seq(Frames) /\ Len(more) = n - 1 /\ \A k \in 1..(n - 1) : more[k] = NextFrame(a + k)
  <2>1. \A k \in 1..(n - 1) : a + k \in Address
    BY SizeFacts DEF Address
  <2>2. \A k \in 1..(n - 1) : NextFrame(a + k) \in Frames
    BY <2>1, AutoFrames
  <2>3. n - 1 \in Nat /\ more \in [1..(n - 1) -> Frames] /\ \A k \in 1..(n - 1) : more[k] = NextFrame(a + k)
    BY <2>2
  <2> QED
    BY <2>3, SeqDef
<1>3. SstProgram(a, n) = s3
  BY DEF SstProgram, FirstFrame, NextFrame
<1> HIDE DEF one, more
<1>4. /\ s1 \in Seq(Frames) /\ Len(s1) = Len(WriteEnable) + Len(one)
      /\ \A i \in 1..(Len(WriteEnable) + Len(one)) :
           s1[i] = IF i <= Len(WriteEnable) THEN WriteEnable[i] ELSE one[i - Len(WriteEnable)]
  <2>1. WriteEnable \in Seq(Frames) /\ one \in Seq(Frames)
    BY <1>1, FrameTypes
  <2> QED
    BY <2>1, Joined, Zenon
<1> HIDE DEF s1
<1>5. /\ s2 \in Seq(Frames) /\ Len(s2) = Len(s1) + Len(more)
      /\ \A i \in 1..(Len(s1) + Len(more)) :
           s2[i] = IF i <= Len(s1) THEN s1[i] ELSE more[i - Len(s1)]
  <2>1. s1 \in Seq(Frames) /\ more \in Seq(Frames)
    BY <1>2, <1>4
  <2> QED
    BY <2>1, Joined, Zenon
<1> HIDE DEF s2
<1>6. /\ s3 \in Seq(Frames) /\ Len(s3) = Len(s2) + Len(WriteDisable)
      /\ \A i \in 1..(Len(s2) + Len(WriteDisable)) :
           s3[i] = IF i <= Len(s2) THEN s2[i] ELSE WriteDisable[i - Len(s2)]
  <2>1. s2 \in Seq(Frames) /\ WriteDisable \in Seq(Frames)
    BY <1>5, FrameTypes
  <2> QED
    BY <2>1, Joined, Zenon
<1> HIDE DEF s3
<1>7. Len(s1) = 3 /\ s1[1] = <<Byte("wren")>> /\ s1[2] = <<Byte("wren")>> /\ s1[3] = FirstFrame(a)
  BY <1>1, <1>4, FrameTypes
<1>8. /\ Len(s2) = n + 2 /\ s2[1] = s1[1] /\ s2[2] = s1[2] /\ s2[3] = s1[3]
      /\ \A i \in 4..(n + 2) : s2[i] = NextFrame(a + i - 3)
  <2>1. ASSUME NEW i \in 4..(n + 2) PROVE s2[i] = NextFrame(a + i - 3)
    <3>1. i - 3 \in 1..(n - 1) /\ ~(i <= 3) /\ i \in 1..(3 + (n - 1)) /\ a + (i - 3) = a + i - 3
      BY SizeFacts DEF Address
    <3>2. s2[i] = more[i - 3]
      BY <1>2, <1>5, <1>7, <3>1
    <3> QED
      BY <1>2, <3>1, <3>2
  <2> QED
    BY <1>2, <1>5, <1>7, <2>1
<1>9. /\ Len(s3) = n + 3 /\ \A i \in 1..(n + 2) : s3[i] = s2[i]
      /\ s3[n + 3] = <<Byte("wrdi")>>
  BY <1>6, <1>8, FrameTypes
<1>10. \A i \in 4..(n + 2) : s3[i] = NextFrame(a + i - 3)
  BY <1>8, <1>9
<1>11. s3[1] = <<Byte("wren")>> /\ s3[2] = <<Byte("wren")>> /\ s3[3] = FirstFrame(a)
  BY <1>7, <1>8, <1>9
<1> QED
  BY <1>3, <1>6, <1>9, <1>10, <1>11, Zenon

-----------------------------------------------------------------------------
(* The calls, and the frame of a call that is being sent when a number of   *)
(* them is left.                                                            *)

OpNames == {"none", "identify", "writable", "eraseNvm", "sectorErase", "program",
            "sstProgram", "read"}
OpOK(c) ==
  /\ c \in [op : OpNames, at : Address, n : 0..PageWords, status : {"SUCCESS", "FAIL"}]
  /\ c.op \in {"program", "sstProgram"} => c.n > 0 /\ c.at + c.n - 1 \in Page(c.at)

EraseFrame(c) ==
  IF c.op = "eraseNvm" THEN <<Byte("erase")>> ELSE <<Byte("sectorErase"), AddressByte(c.at)>>

(* The frame of the call c to a flash of that maker when left of its frames *)
(* are left.                                                                *)
IsFrame(c, maker, left, f) ==
  /\ c.op = "identify" => left = 1 /\ f = <<Byte("rdid"), In>>
  /\ c.op = "writable" =>
       \/ left = 2 /\ f = <<Byte(IF maker = "sst" THEN "ewsr" ELSE "wren")>>
       \/ left = 1 /\ f = <<Byte("wrsr"), Byte("value")>>
  /\ c.op \in {"eraseNvm", "sectorErase"} =>
       \/ left \in {2, 6} /\ f = Poll
       \/ left \in {4, 5} /\ f = <<Byte("wren")>>
       \/ left = 3 /\ f = EraseFrame(c)
       \/ left = 1 /\ f = <<Byte("wrdi")>>
  /\ c.op = "program" =>
       \/ left \in {4, 5} /\ f = <<Byte("wren")>>
       \/ left = 3 /\ f = ProgramFrame(c.at, c.n)
       \/ left = 2 /\ f = <<Byte("wrdi")>>
       \/ left = 1 /\ f = Poll
  /\ c.op = "sstProgram" =>
       \/ left \in {c.n + 2, c.n + 3} /\ f = <<Byte("wren")>>
       \/ left = c.n + 1 /\ f = FirstFrame(c.at)
       \/ left \in 2..c.n /\ f = NextFrame(c.at + c.n + 1 - left)
       \/ left = 1 /\ f = <<Byte("wrdi")>>
  /\ c.op = "read" => left = 1 /\ f = <<Byte("read"), AddressByte(c.at), In>>

Count(c) ==
  CASE c.op \in {"identify", "read"}        -> 1
    [] c.op = "writable"                    -> 2
    [] c.op \in {"eraseNvm", "sectorErase"} -> 6
    [] c.op = "program"                     -> 5
    [] c.op = "sstProgram"                  -> c.n + 3

LEMMA EraseFrameIs ==
  ASSUME NEW c, OpOK(c)
  PROVE  EraseFrame(c) \in Frames /\ EraseFrame(c) # <<>>
<1>1. <<Byte("erase")>> \in Frames /\ <<Byte("erase")>> # <<>>
  BY FrameTypes DEF Kinds
<1>2. Byte("sectorErase") \in Bytes /\ AddressByte(c.at) \in Bytes
  BY ByteFacts DEF Kinds, OpOK
<1>3. <<Byte("sectorErase"), AddressByte(c.at)>> \in Frames
  BY <1>2, Two DEF Frames
<1> QED
  BY <1>1, <1>3 DEF EraseFrame

LEMMA BurstFits ==
  ASSUME NEW c, OpOK(c), c.op \in {"program", "sstProgram"}
  PROVE  /\ c.at \in Address /\ c.n \in Nat /\ c.n > 0 /\ c.at + c.n - 1 \in Address
         /\ \A k \in 0..(c.n - 1) : c.at + k \in Page(c.at) /\ c.at + k \in Address
<1>1. c.at \in Address /\ c.n \in Nat /\ c.n > 0 /\ c.at + c.n - 1 \in Page(c.at)
  BY SizeFacts DEF OpOK
<1>2. /\ PageStart(c.at) \in Nat /\ PageStart(c.at) <= c.at /\ Page(c.at) \subseteq Address
  BY <1>1, PageFacts
<1>3. \A k \in 0..(c.n - 1) : c.at + k \in Page(c.at)
  BY <1>1, <1>2, SizeFacts DEF Page, Address
<1> QED
  BY <1>1, <1>2, <1>3

LEMMA CallFrames ==
  ASSUME NEW c, OpOK(c), c.op # "none", id \in {"none", "sst", "other"}
  PROVE  LET F == FramesOf(c) IN
         /\ F \in Seq(Frames)
         /\ \A i \in 1..Len(F) : IsFrame(c, id, Len(F) + 1 - i, F[i])
         /\ Len(F) = Count(c)
<1> DEFINE F == FramesOf(c)
<1>0. c.at \in Address /\ c.n \in Nat
  BY SizeFacts DEF OpOK
<1>1. CASE c.op = "identify"
  <2>1. F = <<<<Byte("rdid"), In>>>>
    BY <1>1 DEF FramesOf, Identify
  <2>2. <<Byte("rdid"), In>> \in Frames
    BY ByteFacts, Two DEF Frames, Kinds
  <2>3. F \in Seq(Frames) /\ Len(F) = 1 /\ F[1] = <<Byte("rdid"), In>>
    BY <2>1, <2>2, One
  <2> QED
    BY <1>1, <2>3 DEF IsFrame, Count
<1>2. CASE c.op = "writable"
  <2> DEFINE first == <<Byte(IF id = "sst" THEN "ewsr" ELSE "wren")>>
             second == <<Byte("wrsr"), Byte("value")>>
  <2>1. F = <<first, second>>
    BY <1>2 DEF FramesOf, WriteStatusRegister
  <2>2. first \in Frames /\ second \in Frames
    BY ByteFacts, FrameTypes, Two DEF Frames, Kinds
  <2> HIDE DEF first, second
  <2>3. F \in Seq(Frames) /\ Len(F) = 2 /\ F[1] = first /\ F[2] = second
    BY <2>1, <2>2, Two
  <2> QED
    BY <1>2, <2>3 DEF IsFrame, Count, first, second
<1>3. CASE c.op \in {"eraseNvm", "sectorErase"}
  <2>1. F = Erase(EraseFrame(c))
    BY <1>3 DEF FramesOf, EraseFrame
  <2>2. EraseFrame(c) \in Frames
    BY EraseFrameIs
  <2>3. /\ F \in Seq(Frames) /\ Len(F) = 6
        /\ F[1] = Poll /\ F[2] = <<Byte("wren")>> /\ F[3] = <<Byte("wren")>>
        /\ F[4] = EraseFrame(c) /\ F[5] = Poll /\ F[6] = <<Byte("wrdi")>>
    BY <2>1, <2>2, EraseFrames
  <2>4. ASSUME NEW i \in 1..Len(F) PROVE IsFrame(c, id, Len(F) + 1 - i, F[i])
    <3>1. i \in {1, 2, 3, 4, 5, 6}
      BY <2>3
    <3> QED
      BY <1>3, <2>3, <3>1 DEF IsFrame
  <2> QED
    BY <1>3, <2>3, <2>4 DEF Count
<1>4. CASE c.op = "program"
  <2>1. F = Program(c.at, c.n)
    BY <1>4 DEF FramesOf
  <2>2. /\ F \in Seq(Frames) /\ Len(F) = 5
        /\ F[1] = <<Byte("wren")>> /\ F[2] = <<Byte("wren")>>
        /\ F[3] = ProgramFrame(c.at, c.n) /\ F[4] = <<Byte("wrdi")>> /\ F[5] = Poll
    BY <1>4, <2>1, BurstFits, ProgramFrames
  <2>3. ASSUME NEW i \in 1..Len(F) PROVE IsFrame(c, id, Len(F) + 1 - i, F[i])
    <3>1. i \in {1, 2, 3, 4, 5}
      BY <2>2
    <3> QED
      BY <1>4, <2>2, <3>1 DEF IsFrame
  <2> QED
    BY <1>4, <2>2, <2>3 DEF Count
<1>5. CASE c.op = "sstProgram"
  <2>1. F = SstProgram(c.at, c.n)
    BY <1>5 DEF FramesOf
  <2>2. /\ F \in Seq(Frames) /\ Len(F) = c.n + 3
        /\ F[1] = <<Byte("wren")>> /\ F[2] = <<Byte("wren")>> /\ F[3] = FirstFrame(c.at)
        /\ \A i \in 4..(c.n + 2) : F[i] = NextFrame(c.at + i - 3)
        /\ F[c.n + 3] = <<Byte("wrdi")>>
    BY <1>5, <2>1, BurstFits, SstFrames
  <2>3. ASSUME NEW i \in 1..Len(F) PROVE IsFrame(c, id, Len(F) + 1 - i, F[i])
    <3> HIDE DEF F
    <3>1. CASE i \in {1, 2}
      BY <1>0, <1>5, <2>2, <3>1 DEF IsFrame
    <3>2. CASE i = 3
      BY <1>0, <1>5, <2>2, <3>2 DEF IsFrame
    <3>3. CASE i \in 4..(c.n + 2)
      <4> DEFINE left == Len(F) + 1 - i
                 at == c.at + i - 3
      <4>1. F[i] = NextFrame(at)
        BY <2>2, <3>3
      <4>2. left \in 2..c.n /\ c.at + c.n + 1 - left = at
        <5>1. c.at \in Int /\ c.n \in Int
          BY <1>0, SizeFacts DEF Address
        <5>2. i \in Int /\ 4 <= i /\ i <= c.n + 2 /\ Len(F) = c.n + 3
          BY <2>2, <3>3, <5>1
        <5>3. left = c.n + 4 - i
          BY <5>1, <5>2
        <5>4. left \in 2..c.n
          BY <5>1, <5>2, <5>3
        <5>5. c.at + c.n + 1 - left = at
          BY <5>1, <5>2, <5>3
        <5> QED
          BY <5>4, <5>5
      <4> HIDE DEF left, at
      <4>3. F[i] = NextFrame(c.at + c.n + 1 - left)
        <5>1. c.at + c.n + 1 - left = at
          BY <4>2
        <5> QED
          BY <4>1, <5>1, Zenon
      <4>4. IsFrame(c, id, left, F[i])
        BY <1>5, <4>2, <4>3 DEF IsFrame
      <4> QED
        BY <4>4 DEF left
    <3>4. CASE i = c.n + 3
      BY <1>0, <1>5, <2>2, <3>4 DEF IsFrame
    <3>5. i \in {1, 2} \/ i = 3 \/ i \in 4..(c.n + 2) \/ i = c.n + 3
      BY <1>0, <2>2
    <3> QED
      BY <3>1, <3>2, <3>3, <3>4, <3>5
  <2> QED
    BY <1>5, <2>2, <2>3 DEF Count
<1>6. CASE c.op = "read"
  <2> DEFINE f == <<Byte("read"), AddressByte(c.at), In>>
  <2>1. F = <<f>>
    BY <1>6 DEF FramesOf, Read
  <2>2. f \in Frames
    BY <1>0, ByteFacts, Three DEF Frames, Kinds
  <2>3. F \in Seq(Frames) /\ Len(F) = 1 /\ F[1] = f
    BY <2>1, <2>2, One
  <2> QED
    BY <1>6, <2>3 DEF IsFrame, Count
<1> QED
  BY <1>1, <1>2, <1>3, <1>4, <1>5, <1>6 DEF OpOK, OpNames

-----------------------------------------------------------------------------
(* The invariant: types first, then what a call, its frames and the lines   *)
(* have to do with each other.                                              *)

FlashType ==
  /\ mem \in [Address -> SUBSET Bytes] /\ protect \in BOOLEAN /\ chip \in {"sst", "other"}
  /\ wel \in {"off", "status", "all"} /\ auto \in Address \cup {NoAuto} /\ busy \in Frames
LinesType ==
  granted \in BOOLEAN /\ cs \in {"low", "high"} /\ line \in Frames /\ cut \in BOOLEAN
ToolType ==
  /\ pc \in {"idle", "ready", "enable", "frame", "bytes"}
  /\ runs \in 0..MaxRuns /\ calls \in 0..MaxCalls /\ polls \in 0..(MaxPolls - 1)
  /\ command \in {"none", "write", "erase", "dump"}
  /\ todo \in Seq(Frames) /\ sent \in Nat
  /\ id \in {"none", "sst", "other"}
  /\ trouble \subseteq {"leftBusy", "leftAuto", "refused", "gaveUp"}
TypeInv == FlashType /\ LinesType /\ ToolType

Left == Len(todo)
Sending == pc \in {"frame", "bytes"}
Detecting == {"identify", "writable"}
ErasingOps == {Op("eraseNvm", 0, 0), Op("sectorErase", 0, 0)}
Writable == Op("writable", 0, 0)

(* The calls of a run: what is left of a detection is what follows it.      *)
CallInv ==
  /\ OpOK(call)
  /\ pc \notin {"idle", "ready"} => call.op # "none"
  /\ pc = "ready" => call.op # "identify"
  /\ pc = "idle" => call.op = "none"
  /\ (pc = "idle") = (command = "none")
  /\ call.op = "none" => id = "none" /\ call.status = "SUCCESS"
  /\ pc \notin {"idle", "ready"} =>
       /\ call.op \notin Detecting => next = <<>>
       /\ call.op = "identify" => next = <<Writable>> \/ \E o \in ErasingOps : next = <<Writable, o>>
       /\ call.op = "writable" => next = <<>> \/ \E o \in ErasingOps : next = <<o>>
  /\ command = "dump" => call.op \in {"none", "read"}
  /\ call.op \in {"program", "sstProgram"} => command = "write"
  /\ call.op = "read" => command \in {"write", "dump"}
  /\ call.status = "FAIL" => "gaveUp" \in trouble

(* The frames left are the last ones of the call.                           *)
TodoInv ==
  Sending =>
  /\ \A i \in 1..Left : IsFrame(call, id, Left + 1 - i, todo[i])
  /\ call.op = "sstProgram" => Left <= call.n + 3
  /\ pc = "bytes" => todo # <<>> /\ sent \in 0..Len(todo[1])

(* The flash has received what was clocked out, if it is connected.         *)
LinesInv ==
  /\ cs = "high" => line = <<>> /\ ~cut
  /\ pc = "bytes" => cs = "low" /\ ~cut /\ line = IF granted THEN SubSeq(todo[1], 1, sent) ELSE <<>>
  /\ pc = "frame" => cs = "high"
  /\ Sending /\ "refused" \notin trouble => granted

BaseInv == TypeInv /\ CallInv /\ TodoInv /\ LinesInv

LEMMA Current ==
  ASSUME BaseInv, pc = "bytes"
  PROVE  /\ todo # <<>> /\ todo \in Seq(Frames) /\ Left \in Nat /\ Left > 0
         /\ todo[1] \in Frames /\ Head(todo) = todo[1] /\ IsFrame(call, id, Left, todo[1])
         /\ sent \in 0..Len(todo[1])
         /\ Tail(todo) \in Seq(Frames) /\ Len(Tail(todo)) = Left - 1
         /\ \A i \in 1..(Left - 1) : Tail(todo)[i] = todo[i + 1]
<1>1. todo # <<>> /\ todo \in Seq(Frames) /\ sent \in 0..Len(todo[1])
  BY DEF BaseInv, TypeInv, FlashType, LinesType, ToolType, TodoInv, Sending
<1>2. Left \in Nat /\ Left > 0 /\ todo[1] \in Frames /\ Head(todo) = todo[1]
  BY <1>1 DEF Left
<1>3. IsFrame(call, id, Left, todo[1])
  <2>1. IsFrame(call, id, Left + 1 - 1, todo[1])
    BY <1>2 DEF BaseInv, TodoInv, Sending
  <2>2. Left + 1 - 1 = Left
    BY <1>2
  <2> QED
    BY <2>1, <2>2, Zenon
<1>4. /\ Tail(todo) \in Seq(Frames) /\ Len(Tail(todo)) = Left - 1
      /\ \A i \in 1..(Left - 1) : Tail(todo)[i] = todo[i + 1]
  BY <1>1, HeadTailProperties DEF Left
<1> QED
  BY <1>1, <1>2, <1>3, <1>4

(* A byte more of a frame.                                                  *)
LEMMA OneMore ==
  ASSUME NEW S, NEW s \in Seq(S), NEW n \in Nat, n < Len(s)
  PROVE  /\ Append(SubSeq(s, 1, n), s[n + 1]) = SubSeq(s, 1, n + 1)
         /\ SubSeq(s, 1, n) \in Seq(S)
<1>1. /\ 1 \in 1..Len(s) /\ n + 1 \in 1..Len(s) /\ (n + 1) - 1 = n /\ s[n + 1] \in S
      /\ \A i \in 1..n : s[i] \in S
  OBVIOUS
<1>2. SubSeq(s, 1, n) \in Seq(S)
  BY <1>1, SubSeqProperties
<1>3. SubSeq(s, 1, n + 1) = SubSeq(s, 1, n) \o <<s[n + 1]>>
  <2>1. SubSeq(s, 1, n + 1) = SubSeq(s, 1, (n + 1) - 1) \o <<s[n + 1]>>
    BY <1>1, SubSeqRecursiveSecond
  <2> QED
    BY <1>1, <2>1
<1>4. Append(SubSeq(s, 1, n), s[n + 1]) = SubSeq(s, 1, n) \o <<s[n + 1]>>
  BY <1>1, <1>2, AppendIsConcat
<1> QED
  BY <1>2, <1>3, <1>4

LEMMA Clocked ==
  ASSUME BaseInv, ClockByte
  PROVE  /\ pc = "bytes" /\ sent < Len(todo[1]) /\ sent \in Nat /\ sent' = sent + 1
         /\ line' = IF granted THEN SubSeq(todo[1], 1, sent + 1) ELSE <<>>
         /\ line' \in Frames /\ todo[1] \in Frames /\ Head(todo) = todo[1]
         /\ line = IF granted THEN SubSeq(todo[1], 1, sent) ELSE <<>>
         /\ UNCHANGED <<flashChip, granted, cs, cut>>
         /\ UNCHANGED <<pc, runs, calls, command, todo, next, polls, id, call, trouble>>
<1>1. pc = "bytes"
  BY DEF ClockByte
<1>2. todo[1] \in Seq(Bytes) /\ Head(todo) = todo[1] /\ sent \in 0..Len(todo[1])
  BY <1>1, Current DEF Frames
<1>3. sent < Len(todo[1]) /\ sent \in Nat
  BY <1>2 DEF ClockByte
<1>4. /\ Append(SubSeq(todo[1], 1, sent), todo[1][sent + 1]) = SubSeq(todo[1], 1, sent + 1)
  BY <1>2, <1>3, OneMore
<1>5. /\ line = IF granted THEN SubSeq(todo[1], 1, sent) ELSE <<>>
      /\ line' = IF granted THEN Append(line, Head(todo)[sent + 1]) ELSE line
  BY <1>1 DEF BaseInv, LinesInv, ClockByte
<1>6. line' = IF granted THEN SubSeq(todo[1], 1, sent + 1) ELSE <<>>
  BY <1>2, <1>4, <1>5
<1>7. SubSeq(todo[1], 1, sent + 1) \in Seq(Bytes)
  <2>1. 1 \in Int /\ sent + 1 \in Int /\ \A i \in 1..(sent + 1) : todo[1][i] \in Bytes
    BY <1>2, <1>3
  <2> QED
    BY <2>1, SubSeqProperties
<1>8. line' \in Frames
  BY <1>6, <1>7 DEF Frames
<1> QED
  BY <1>1, <1>2, <1>3, <1>5, <1>6, <1>8 DEF ClockByte, Frames

(* A frame has ended: the flash has received all of it.                     *)
LEMMA FrameEnds ==
  ASSUME BaseInv, EndsFrame
  PROVE  /\ pc = "bytes" /\ sent = Len(todo[1]) /\ ~cut
         /\ line = IF granted THEN todo[1] ELSE <<>>
<1>1. pc = "bytes" /\ sent = Len(todo[1])
  BY Current DEF EndsFrame
<1>2. todo[1] \in Seq(Bytes)
  BY <1>1, Current DEF Frames
<1>3. SubSeq(todo[1], 1, Len(todo[1])) = todo[1]
  BY <1>2, SubSeqFull
<1> QED
  BY <1>1, <1>3 DEF BaseInv, LinesInv

LEMMA CarriedType ==
  ASSUME TypeInv, busy # <<>>
  PROVE  Carried(busy) \in [Address -> SUBSET Bytes]
<1>1. mem \in [Address -> SUBSET Bytes] /\ busy \in Seq(Bytes)
  BY DEF TypeInv, FlashType, LinesType, ToolType, Frames
<1>2. Erased \in [Address -> SUBSET Bytes]
  BY DEF Erased
<1>3. [a \in Address |-> IF a \in Page(busy[2].at) THEN {} ELSE mem[a]] \in [Address -> SUBSET Bytes]
  BY <1>1
<1>4. Programmed(busy) \in [Address -> SUBSET Bytes]
  <2>1. \A i \in 3..Len(busy) : busy[i] \in Bytes
    BY <1>1
  <2>2. \A x \in Address, K \in SUBSET (3..Len(busy)) : mem[x] \cup {busy[i] : i \in K} \in SUBSET Bytes
    BY <1>1, <2>1
  <2> QED
    BY <2>2 DEF Programmed
<1> QED
  BY <1>1, <1>2, <1>3, <1>4 DEF Carried

LEMMA ObeyType ==
  ASSUME TypeInv, NEW f \in Frames, Obey(f)
  PROVE  /\ mem' \in [Address -> SUBSET Bytes] /\ wel' \in {"off", "status", "all"}
         /\ auto' \in Address \cup {NoAuto} /\ busy' \in Frames
<1>1. wel' \in {"off", "status", "all"}
  BY DEF TypeInv, FlashType, LinesType, ToolType, Obey, Latch
<1>2. busy' \in Frames
  <2>1. <<>> \in Frames
    BY DEF Frames
  <2> QED
    BY <2>1 DEF Obey
<1>3. CASE First(f) \/ Following(f)
  <2>1. AutoAt(f) \in Address /\ Word(f) \in Bytes
    <3>1. CASE auto = NoAuto
      <4>1. f \in Seq(Bytes) /\ Len(f) = 3
        BY <1>3, <3>1 DEF First, Following, Frames
      <4>2. f[2] \in Bytes /\ f[3] \in Bytes
        <5>1. \A i \in 1..Len(f) : f[i] \in Bytes
          BY <4>1, Elements, Zenon
        <5>2. 2 \in 1..Len(f) /\ 3 \in 1..Len(f)
          BY <4>1
        <5> QED
          BY <5>1, <5>2
      <4>3. f[2].at \in Address
        BY <4>2 DEF Bytes
      <4> QED
        BY <3>1, <4>2, <4>3 DEF AutoAt, Word
    <3>2. CASE auto # NoAuto
      BY <1>3, <3>2 DEF AutoAt, Word, First, Following, IsAuto, Frames, TypeInv, FlashType, LinesType, ToolType
    <3> QED
      BY <3>1, <3>2
  <2>2. mem' = [mem EXCEPT ![AutoAt(f)] = @ \cup {Word(f)}] /\ auto' = (AutoAt(f) + 1) % Words
    BY <1>3 DEF Obey
  <2>3. (AutoAt(f) + 1) % Words \in Address
    <3>1. AutoAt(f) + 1 \in Nat
      BY <2>1, SizeFacts DEF Address
    <3> QED
      BY <3>1, Remainder
  <2>4. mem' \in [Address -> SUBSET Bytes]
    BY <2>1, <2>2 DEF TypeInv, FlashType, LinesType, ToolType
  <2> QED
    BY <1>1, <1>2, <2>2, <2>3, <2>4
<1>4. CASE ~(First(f) \/ Following(f))
  BY <1>1, <1>2, <1>4 DEF Obey, TypeInv, FlashType, LinesType, ToolType
<1> QED
  BY <1>3, <1>4

(* The chip select rises: the flash obeys what it has received, or ignores  *)
(* it.                                                                      *)
LEMMA Rises ==
  ASSUME TypeInv, ChipSelectRises
  PROVE  /\ cs' = "high" /\ line' = <<>> /\ cut' = FALSE /\ UNCHANGED <<protect, chip>>
         /\ \/ granted' /\ ~cut /\ busy = <<>> /\ Obey(line)
            \/ UNCHANGED <<mem, wel, auto, busy>>
         /\ auto = NoAuto \/ IsAuto(line) \/ line = <<Byte("wrdi")>> =>
              IF granted' /\ ~cut /\ busy = <<>> THEN Obey(line)
                                                 ELSE UNCHANGED <<mem, wel, auto, busy>>
         /\ mem' \in [Address -> SUBSET Bytes] /\ wel' \in {"off", "status", "all"}
         /\ auto' \in Address \cup {NoAuto} /\ busy' \in Frames /\ line' \in Frames
<1>1. /\ cs' = "high" /\ line' = <<>> /\ cut' = FALSE /\ UNCHANGED <<protect, chip>>
  BY DEF ChipSelectRises
<1>2. PICK heard \in Heard(line) :
        IF granted' /\ ~cut /\ busy = <<>> /\ heard
        THEN Obey(line) ELSE UNCHANGED <<mem, wel, auto, busy>>
  BY DEF ChipSelectRises
<1>3. \/ granted' /\ ~cut /\ busy = <<>> /\ Obey(line)
      \/ UNCHANGED <<mem, wel, auto, busy>>
  BY <1>2
<1>4. auto = NoAuto \/ IsAuto(line) \/ line = <<Byte("wrdi")>> =>
        IF granted' /\ ~cut /\ busy = <<>> THEN Obey(line)
                                           ELSE UNCHANGED <<mem, wel, auto, busy>>
  <2>1. auto = NoAuto \/ IsAuto(line) \/ line = <<Byte("wrdi")>> => heard
    BY <1>2 DEF Heard
  <2> QED
    BY <1>2, <2>1, Zenon
<1>5. line \in Frames /\ <<>> \in Frames
  BY DEF TypeInv, FlashType, LinesType, ToolType, Frames
<1>6. /\ mem' \in [Address -> SUBSET Bytes] /\ wel' \in {"off", "status", "all"}
      /\ auto' \in Address \cup {NoAuto} /\ busy' \in Frames
  BY <1>3, <1>5, ObeyType DEF TypeInv, FlashType, LinesType, ToolType
<1> QED
  BY <1>1, <1>3, <1>4, <1>5, <1>6

LEMMA BaseInit == Init => BaseInv
<1> SUFFICES ASSUME Init PROVE BaseInv
  OBVIOUS
<1>1. <<>> \in Frames /\ <<>> \in Seq(Frames) /\ OldByte \in Bytes
  BY ByteFacts DEF Frames, OldByte, Kinds
<1>2. mem \in [Address -> SUBSET Bytes]
  BY <1>1 DEF Init
<1>3. TypeInv
  BY <1>1, <1>2, SizeFacts DEF Init, TypeInv, FlashType, LinesType, ToolType
<1>4. CallInv
  BY SizeFacts DEF Init, CallInv, OpOK, Op, OpNames
<1> QED
  BY <1>3, <1>4 DEF Init, BaseInv, TodoInv, LinesInv, Sending

(* What each part of a step leaves alone.                                   *)
LEMMA SameFlash == FlashType /\ UNCHANGED flashChip => FlashType'
  BY DEF FlashType, flashChip
LEMMA SameLines == LinesType /\ UNCHANGED lines => LinesType'
  BY DEF LinesType, lines

LEMMA RisenTypes ==
  ASSUME TypeInv, ChipSelectRises, granted' \in BOOLEAN
  PROVE  FlashType' /\ LinesType'
<1>1. /\ cs' = "high" /\ line' \in Frames /\ cut' = FALSE /\ UNCHANGED <<protect, chip>>
      /\ mem' \in [Address -> SUBSET Bytes] /\ wel' \in {"off", "status", "all"}
      /\ auto' \in Address \cup {NoAuto} /\ busy' \in Frames
  BY Rises
<1> QED
  BY <1>1 DEF TypeInv, FlashType, LinesType

LEMMA GoneTypes == TypeInv /\ Gone => ToolType'
  BY SizeFacts DEF Gone, TypeInv, ToolType

LEMMA TypeStep == BaseInv /\ [Next]_vars => TypeInv'
<1> SUFFICES ASSUME BaseInv, [Next]_vars PROVE TypeInv'
  OBVIOUS
<1>0. TypeInv /\ FlashType /\ LinesType /\ ToolType
  BY DEF BaseInv, TypeInv
<1> USE SameFlash, SameLines
<1>1. CASE StartRun
  <2>1. trouble' \subseteq {"leftBusy", "leftAuto"} /\ runs' \in 0..MaxRuns
    BY <1>0, <1>1, SizeFacts DEF StartRun, ToolType
  <2> QED
    BY <1>0, <1>1, <2>1 DEF StartRun, ToolType, TypeInv
<1>2. CASE EndRun
  BY <1>0, <1>2, GoneTypes DEF EndRun, TypeInv
<1>3. CASE \E ops : Begin(ops)
  <2>1. PICK ops : Begin(ops)
    BY <1>3
  <2>2. calls' \in 0..MaxCalls
    BY <1>0, <2>1, SizeFacts DEF Begin, ToolType
  <2> QED
    BY <1>0, <2>1, <2>2 DEF Begin, ToolType, TypeInv
<1>4. CASE AcquireFails
  BY <1>0, <1>4 DEF AcquireFails, Return, ToolType, TypeInv
<1>5. CASE Enable
  <2>1. FramesOf(call) \in Seq(Frames)
    BY <1>0, <1>5, CallFrames DEF BaseInv, CallInv, Enable, ToolType
  <2>2. ChipSelectRises /\ granted' \in BOOLEAN
    BY <1>0, <1>5 DEF Enable, LinesType
  <2>3. trouble' \subseteq {"leftBusy", "leftAuto", "refused", "gaveUp"}
    BY <1>0, <1>5 DEF Enable, ToolType
  <2>4. ToolType'
    BY <1>0, <1>5, <2>1, <2>3, SizeFacts DEF Enable, ToolType
  <2> QED
    BY <1>0, <2>2, <2>4, RisenTypes DEF TypeInv
<1>6. CASE ChipSelectLow
  BY <1>0, <1>6 DEF ChipSelectLow, ToolType, LinesType, TypeInv
<1>7. CASE ClockByte
  <2>1. /\ UNCHANGED flashChip /\ line' \in Frames /\ UNCHANGED <<granted, cs, cut>>
        /\ sent' \in Nat /\ UNCHANGED <<pc, runs, calls, command, todo, polls, id, trouble>>
    BY <1>0, <1>7, Clocked
  <2> QED
    BY <1>0, <2>1 DEF ToolType, LinesType, TypeInv
<1>8. CASE ChipSelectHigh
  <2>1. pc = "bytes" /\ ChipSelectRises /\ granted' \in BOOLEAN
    BY <1>0, <1>8 DEF ChipSelectHigh, EndsFrame, LinesType
  <2>2. id' \in {"none", "sst", "other"}
    BY <1>0, <1>8 DEF ChipSelectHigh, Identified, FlashType, ToolType
  <2>3. todo' \in Seq(Frames)
    BY <1>8, <2>1, Current DEF ChipSelectHigh
  <2>4. ToolType'
    BY <1>0, <1>8, <2>2, <2>3, SizeFacts DEF ChipSelectHigh, ToolType
  <2> QED
    BY <1>0, <2>1, <2>4, RisenTypes DEF TypeInv
<1>9. CASE PollAgain
  <2>1. ChipSelectRises /\ granted' \in BOOLEAN
    BY <1>0, <1>9 DEF PollAgain, LinesType
  <2>2. polls' \in 0..(MaxPolls - 1)
    BY <1>0, <1>9, SizeFacts DEF PollAgain, ToolType
  <2>3. ToolType'
    BY <1>0, <1>9, <2>2 DEF PollAgain, ToolType
  <2> QED
    BY <1>0, <2>1, <2>3, RisenTypes DEF TypeInv
<1>10. CASE PollGivesUp
  <2>1. pc = "bytes" /\ ChipSelectRises /\ granted' \in BOOLEAN
    BY <1>0, <1>10 DEF PollGivesUp, EndsFrame, LinesType
  <2>2. todo' \in Seq(Frames)
    BY <1>10, <2>1, Current DEF PollGivesUp
  <2>3. ToolType'
    BY <1>0, <1>10, <2>2, SizeFacts DEF PollGivesUp, ToolType
  <2> QED
    BY <1>0, <2>1, <2>3, RisenTypes DEF TypeInv
<1>11. CASE Disable
  <2>1. UNCHANGED flashChip /\ granted' \in BOOLEAN /\ UNCHANGED <<cs, line, cut>>
    BY <1>11 DEF Disable
  <2>2. ToolType'
    BY <1>0, <1>11 DEF Disable, Return, ToolType
  <2> QED
    BY <1>0, <2>1, <2>2 DEF LinesType, TypeInv
<1>12. CASE FlashDone
  <2>1. Carried(busy) \in [Address -> SUBSET Bytes] /\ <<>> \in Frames
    BY <1>0, <1>12, CarriedType DEF FlashDone, Frames
  <2>2. protect' \in BOOLEAN
    BY <1>0, <1>12 DEF FlashDone, FlashType
  <2>3. FlashType'
    BY <1>0, <1>12, <2>1, <2>2 DEF FlashDone, FlashType
  <2>4. ToolType'
    BY <1>0, <1>12 DEF FlashDone, tool, ToolType
  <2> QED
    BY <1>0, <1>12, <2>3, <2>4 DEF FlashDone, TypeInv
<1>13. CASE Kill
  <2>1. cut' \in BOOLEAN
    BY <1>0, <1>13 DEF Kill, LinesType
  <2> QED
    BY <1>0, <1>13, <2>1, GoneTypes DEF Kill, TypeInv, LinesType
<1>14. CASE PowerLoss
  <2>1. <<>> \in Frames
    BY DEF Frames
  <2>2. mem' \in [Address -> SUBSET Bytes]
    BY <1>0, <1>14, CarriedType DEF PowerLoss, FlashType
  <2>3. FlashType' /\ LinesType'
    BY <1>0, <1>14, <2>1, <2>2 DEF PowerLoss, FlashType, LinesType
  <2>4. ToolType'
    <3>1. CASE UNCHANGED tool
      BY <1>0, <3>1 DEF tool, ToolType
    <3>2. CASE Gone
      BY <1>0, <3>2, GoneTypes
    <3> QED
      BY <1>14, <3>1, <3>2 DEF PowerLoss
  <2> QED
    BY <2>3, <2>4 DEF TypeInv
<1>15. CASE UNCHANGED vars
  <2>1. UNCHANGED flashChip /\ UNCHANGED lines /\ UNCHANGED tool
    BY <1>15 DEF vars
  <2>2. ToolType'
    BY <1>0, <2>1 DEF tool, ToolType
  <2> QED
    BY <1>0, <2>1, <2>2 DEF TypeInv
<1> QED
  BY <1>1, <1>2, <1>3, <1>4, <1>5, <1>6, <1>7, <1>8, <1>9, <1>10, <1>11, <1>12, <1>13, <1>14,
     <1>15 DEF Next, Step, CallDetect, CallErase, CallSectorErase, CallProgram, CallSstProgram,
               CallRead

-----------------------------------------------------------------------------
(* The calls.                                                               *)

Detects == command \in {"write", "erase"} /\ call' = Op("identify", 0, 0)
           /\ (next' = <<Writable>> \/ \E o \in ErasingOps : next' = <<Writable, o>>)
Erases == command = "write" /\ call.op \notin {"none", "identify"} /\ call' \in ErasingOps /\ next' = <<>>
Programs ==
  \E op \in {"program", "sstProgram"}, a \in Address, n \in 1..PageWords :
    AfterErase /\ a + n - 1 \in Page(a) /\ call' = Op(op, a, n) /\ next' = <<>>
Reads == (AfterErase \/ command = "dump") /\ call' = Op("read", 0, 0) /\ next' = <<>>

Calls == CallDetect \/ CallErase \/ CallSectorErase \/ CallProgram \/ CallSstProgram \/ CallRead

LEMMA Ops ==
  /\ \A o \in {"none", "identify", "writable", "eraseNvm", "sectorErase", "read"} :
       OpOK(Op(o, 0, 0)) /\ Op(o, 0, 0).op = o /\ Op(o, 0, 0).status = "SUCCESS"
  /\ \A o \in {"program", "sstProgram"}, a \in Address, n \in 1..PageWords :
       a + n - 1 \in Page(a) =>
         OpOK(Op(o, a, n)) /\ Op(o, a, n).op = o /\ Op(o, a, n).status = "SUCCESS"
<1>1. 0 \in Address /\ 0 \in 0..PageWords /\ 1..PageWords \subseteq 0..PageWords
  BY SizeFacts
<1> QED
  BY <1>1 DEF OpOK, Op, OpNames

LEMMA FirstOfThree ==
  ASSUME NEW x, NEW y, NEW z
  PROVE  Head(<<x, y, z>>) = x /\ Tail(<<x, y, z>>) = <<y, z>>
  OBVIOUS

LEMMA TwoAndOne ==
  ASSUME NEW x, NEW y, NEW z
  PROVE  <<x, y>> \o <<z>> = <<x, y, z>>
<1> DEFINE S == {x, y, z}
           s == <<x, y>>
           t == <<z>>
           u == s \o t
<1>1. s \in Seq(S) /\ Len(s) = 2 /\ s[1] = x /\ s[2] = y /\ t \in Seq(S) /\ Len(t) = 1 /\ t[1] = z
  BY One, Two
<1>2. <<x, y, z>> \in Seq(S) /\ Len(<<x, y, z>>) = 3
  BY Three
<1> HIDE DEF s, t
<1>3. /\ u \in Seq(S) /\ Len(u) = Len(s) + Len(t)
      /\ \A i \in 1..(Len(s) + Len(t)) : u[i] = IF i <= Len(s) THEN s[i] ELSE t[i - Len(s)]
  <2>1. s \in Seq(S) /\ t \in Seq(S)
    BY <1>1
  <2> QED
    BY <2>1, Joined, Zenon
<1> HIDE DEF u
<1>4. Len(u) = 3 /\ u[1] = x /\ u[2] = y /\ u[3] = z
  BY <1>1, <1>3
<1>5. \A i \in 1..3 : u[i] = <<x, y, z>>[i]
  BY <1>4
<1>6. u = <<x, y, z>>
  <2>1. Len(u) = Len(<<x, y, z>>) /\ \A i \in 1..Len(u) : u[i] = <<x, y, z>>[i]
    BY <1>2, <1>4, <1>5
  <2> HIDE DEF S
  <2> QED
    BY <1>2, <1>3, <2>1, SeqEqual
<1> QED
  BY <1>6 DEF u, s, t

LEMMA Begun ==
  ASSUME BaseInv, Calls
  PROVE  /\ pc = "ready" /\ pc' = "enable" /\ seen' = "none"
         /\ UNCHANGED <<flashChip, lines, runs, command, todo, sent, polls, id, trouble>>
         /\ Detects \/ Erases \/ Programs \/ Reads
<1>0. /\ call.op = "none" => id = "none"
      /\ command = "write" \/ command = "erase" \/ command = "dump" \/ command = "none"
  BY DEF BaseInv, CallInv, TypeInv, ToolType
<1>1. CASE CallDetect
  BY <1>1 DEF CallDetect, Begin, Detects, Writable
<1>2. CASE CallErase
  <2>1. Detection = IF id # "none" THEN <<>> ELSE <<Op("identify", 0, 0), Op("writable", 0, 0)>>
    BY DEF Detection
  <2>2. CASE id # "none"
    <3>1. Begin(<<Op("eraseNvm", 0, 0)>>)
      BY <1>2, <2>1, <2>2 DEF CallErase
    <3>2. command = "write" /\ call.op = "writable"
      BY <1>0, <1>2, <2>2 DEF CallErase
    <3> QED
      BY <3>1, <3>2 DEF Begin, Erases, ErasingOps
  <2>3. CASE id = "none"
    <3>1. Begin(<<Op("identify", 0, 0), Op("writable", 0, 0), Op("eraseNvm", 0, 0)>>)
      BY <1>2, <2>1, <2>3, TwoAndOne DEF CallErase
    <3>2. command \in {"write", "erase"}
      BY <1>2 DEF CallErase
    <3>3. call' = Op("identify", 0, 0) /\ next' = <<Writable, Op("eraseNvm", 0, 0)>>
      BY <3>1, FirstOfThree DEF Begin, Writable
    <3> QED
      BY <3>1, <3>2, <3>3 DEF Begin, Detects, ErasingOps
  <2> QED
    BY <2>2, <2>3
<1>3. CASE CallSectorErase
  <2>1. Detection = IF id # "none" THEN <<>> ELSE <<Op("identify", 0, 0), Op("writable", 0, 0)>>
    BY DEF Detection
  <2>2. command = "write" /\ call.op \notin {"none", "identify"}
    BY <1>3 DEF CallSectorErase, AfterErase
  <2>3. CASE id # "none"
    <3>1. Begin(<<Op("sectorErase", 0, 0)>>)
      BY <1>3, <2>1, <2>3 DEF CallSectorErase
    <3> QED
      BY <2>2, <3>1 DEF Begin, Erases, ErasingOps
  <2>4. CASE id = "none"
    <3>1. Begin(<<Op("identify", 0, 0), Op("writable", 0, 0), Op("sectorErase", 0, 0)>>)
      BY <1>3, <2>1, <2>4, TwoAndOne DEF CallSectorErase
    <3>2. call' = Op("identify", 0, 0) /\ next' = <<Writable, Op("sectorErase", 0, 0)>>
      BY <3>1, FirstOfThree DEF Begin, Writable
    <3> QED
      BY <2>2, <3>1, <3>2 DEF Begin, Detects, ErasingOps
  <2> QED
    BY <2>3, <2>4
<1>4. CASE CallProgram
  BY <1>4 DEF CallProgram, Begin, Programs
<1>5. CASE CallSstProgram
  BY <1>5 DEF CallSstProgram, Begin, Programs
<1>6. CASE CallRead
  BY <1>6 DEF CallRead, Begin, Reads
<1> QED
  BY <1>1, <1>2, <1>3, <1>4, <1>5, <1>6 DEF Calls

(* When a call is done, what is left of a detection follows, or the run     *)
(* goes on.                                                                 *)
LEMMA Disabled ==
  ASSUME BaseInv, Disable
  PROVE  /\ pc = "frame" /\ todo = <<>> /\ Left = 0 /\ granted' = FALSE
         /\ UNCHANGED <<flashChip, cs, line, cut>>
         /\ UNCHANGED <<runs, calls, command, todo, sent, polls, seen, id, trouble>>
         /\ \/ call.op # "identify" /\ pc' = "ready" /\ call' = call /\ next' = next
            \/ /\ call.op = "identify" /\ call' = Writable /\ pc' = "enable"
               /\ next' = <<>> \/ \E o \in ErasingOps : next' = <<o>>
            \/ call.op = "writable" /\ call' \in ErasingOps /\ next' = <<>> /\ pc' = "enable"
<1>1. /\ pc = "frame" /\ todo = <<>> /\ Left = 0 /\ granted' = FALSE
      /\ UNCHANGED <<flashChip, cs, line, cut>>
      /\ UNCHANGED <<runs, calls, command, todo, sent, polls, seen, id, trouble>>
  BY DEF Disable, Left
<1>2. CASE next = <<>>
  <2>1. call.op # "identify"
    BY <1>1, <1>2 DEF BaseInv, CallInv
  <2>2. pc' = "ready" /\ call' = [call EXCEPT !.status = call.status] /\ next' = next
    BY <1>2 DEF Disable, Return
  <2>3. call' = call
    BY <2>2 DEF BaseInv, CallInv, OpOK
  <2> QED
    BY <1>1, <2>1, <2>2, <2>3
<1>3. CASE next # <<>>
  <2>1. call' = Head(next) /\ next' = Tail(next) /\ pc' = "enable"
    BY <1>3 DEF Disable
  <2>2. \/ call.op = "identify" /\ (next = <<Writable>> \/ \E o \in ErasingOps : next = <<Writable, o>>)
        \/ call.op = "writable" /\ \E o \in ErasingOps : next = <<o>>
    BY <1>1, <1>3 DEF BaseInv, CallInv, Detecting
  <2>3. CASE next = <<Writable>> /\ call.op = "identify"
    <3>1. call' = Writable /\ next' = <<>>
      BY <2>1, <2>3
    <3> QED
      BY <1>1, <2>1, <2>3, <3>1
  <2>4. ASSUME NEW o \in ErasingOps, next = <<Writable, o>>, call.op = "identify"
        PROVE  call' = Writable /\ next' = <<o>>
    BY <2>1, <2>4
  <2>5. ASSUME NEW o \in ErasingOps, next = <<o>>, call.op = "writable"
        PROVE  call' = o /\ next' = <<>>
    BY <2>1, <2>5
  <2> HIDE DEF Writable, ErasingOps
  <2> QED
    BY <1>1, <2>1, <2>2, <2>3, <2>4, <2>5
<1> QED
  BY <1>2, <1>3

LEMMA CallStep == BaseInv /\ [Next]_vars => CallInv'
<1> SUFFICES ASSUME BaseInv, [Next]_vars PROVE CallInv'
  OBVIOUS
<1>0. CallInv /\ OpOK(call) /\ ToolType
  BY DEF BaseInv, TypeInv, CallInv
<1>1. CASE StartRun
  BY <1>0, <1>1 DEF StartRun, CallInv
<1>2. CASE Gone
  BY <1>0, <1>2, Ops DEF Gone, CallInv
<1>3. CASE Calls
  <2>0. /\ pc = "ready" /\ pc' = "enable" /\ UNCHANGED <<command, id, trouble>> /\ command # "none"
    BY <1>0, <1>3, Begun DEF CallInv
  <2>1. CASE Detects
    <3>1. OpOK(call') /\ call'.op = "identify" /\ call'.status = "SUCCESS" /\ command # "dump"
      BY <2>1, Ops DEF Detects
    <3>2. next' = <<Writable>> \/ \E o \in ErasingOps : next' = <<Writable, o>>
      BY <2>1 DEF Detects
    <3> HIDE DEF Writable, ErasingOps
    <3>3. Writable' = Writable /\ ErasingOps' = ErasingOps
      BY DEF Writable, ErasingOps
    <3> QED
      BY <1>0, <2>0, <3>1, <3>2, <3>3 DEF CallInv, Detecting
  <2>2. CASE Erases
    BY <1>0, <2>0, <2>2, Ops DEF Erases, CallInv, ErasingOps, Detecting
  <2>3. CASE Programs
    <3>1. PICK op \in {"program", "sstProgram"}, a \in Address, n \in 1..PageWords :
            AfterErase /\ a + n - 1 \in Page(a) /\ call' = Op(op, a, n) /\ next' = <<>>
      BY <2>3 DEF Programs
    <3>2. OpOK(call') /\ call'.op = op /\ call'.status = "SUCCESS" /\ command = "write"
      BY <3>1, Ops DEF AfterErase
    <3> QED
      BY <1>0, <2>0, <3>1, <3>2 DEF CallInv, Detecting
  <2>4. CASE Reads
    BY <1>0, <2>0, <2>4, Ops DEF Reads, CallInv, Detecting, AfterErase
  <2> QED
    BY <1>3, <2>1, <2>2, <2>3, <2>4, Begun
<1>4. CASE AcquireFails
  BY <1>0, <1>4 DEF AcquireFails, Return, CallInv, OpOK, Detecting
<1>5. CASE Enable
  BY <1>0, <1>5 DEF Enable, CallInv
<1>6. CASE ChipSelectLow
  BY <1>0, <1>6 DEF ChipSelectLow, CallInv
<1>7. CASE ClockByte
  BY <1>0, <1>7 DEF ClockByte, CallInv
<1>8. CASE ChipSelectHigh
  BY <1>0, <1>8 DEF ChipSelectHigh, EndsFrame, CallInv
<1>9. CASE PollAgain
  BY <1>0, <1>9 DEF PollAgain, EndsFrame, CallInv
<1>10. CASE PollGivesUp
  BY <1>0, <1>10 DEF PollGivesUp, EndsFrame, CallInv, OpOK
<1>11. CASE Disable
  <2>0. pc = "frame" /\ UNCHANGED <<command, id, trouble>>
    BY <1>11, Disabled
  <2>1. CASE call.op # "identify" /\ pc' = "ready" /\ call' = call /\ next' = next
    BY <1>0, <2>0, <2>1 DEF CallInv
  <2>2. CASE /\ call.op = "identify" /\ call' = Writable /\ pc' = "enable"
             /\ next' = <<>> \/ \E o \in ErasingOps : next' = <<o>>
    BY <1>0, <2>0, <2>2, Ops DEF CallInv, Detecting, Writable
  <2>3. CASE call.op = "writable" /\ call' \in ErasingOps /\ next' = <<>> /\ pc' = "enable"
    BY <1>0, <2>0, <2>3, Ops DEF CallInv, Detecting, ErasingOps
  <2> QED
    BY <1>11, <2>1, <2>2, <2>3, Disabled
<1>12. CASE UNCHANGED tool
  BY <1>0, <1>12 DEF tool, CallInv
<1> QED
  BY <1>1, <1>2, <1>3, <1>4, <1>5, <1>6, <1>7, <1>8, <1>9, <1>10, <1>11, <1>12
     DEF Next, Step, Calls, EndRun, Kill, PowerLoss, FlashDone, vars

LEMMA SameFrame ==
  ASSUME NEW c, NEW d, NEW maker, NEW other, NEW left, NEW f, IsFrame(c, maker, left, f),
         d.op = c.op /\ d.at = c.at /\ d.n = c.n, other = maker \/ c.op # "writable"
  PROVE  IsFrame(d, other, left, f)
<1>1. EraseFrame(d) = EraseFrame(c)
  BY DEF EraseFrame
<1> QED
  BY <1>1 DEF IsFrame

LEMMA TodoStep == BaseInv /\ [Next]_vars => TodoInv'
<1> SUFFICES ASSUME BaseInv, [Next]_vars, Sending' PROVE TodoInv'
  BY DEF TodoInv
<1>0. TodoInv /\ CallInv /\ OpOK(call) /\ ToolType /\ Left \in Nat
  BY DEF BaseInv, TypeInv, CallInv, ToolType, Left
<1>1. CASE pc' \notin {"frame", "bytes"}
  BY <1>1 DEF Sending
<1>2. CASE Enable
  <2>1. /\ todo' = FramesOf(call) /\ UNCHANGED <<call, id>> /\ pc' = "frame"
        /\ call.op # "none" /\ id \in {"none", "sst", "other"}
    BY <1>0, <1>2 DEF Enable, CallInv, ToolType
  <2>2. LET F == FramesOf(call) IN
        /\ \A i \in 1..Len(F) : IsFrame(call, id, Len(F) + 1 - i, F[i])
        /\ call.op = "sstProgram" => Len(F) = call.n + 3
    BY <1>0, <2>1, CallFrames DEF Count
  <2>3. Len(FramesOf(call)) \in Nat /\ call.n \in Nat
    BY <1>0, <2>1, CallFrames, Elements, SizeFacts DEF OpOK
  <2> QED
    BY <2>1, <2>2, <2>3 DEF TodoInv, Left
<1>3. CASE ChipSelectLow
  <2>1. UNCHANGED <<todo, call, id>> /\ pc = "frame" /\ todo # <<>> /\ sent' = 0 /\ todo[1] \in Frames
    BY <1>0, <1>3 DEF ChipSelectLow, ToolType
  <2>2. 0 \in 0..Len(todo[1])
    BY <2>1 DEF Frames
  <2> QED
    BY <1>0, <2>1, <2>2 DEF TodoInv, Sending, Left
<1>4. CASE ClockByte
  <2>1. /\ UNCHANGED <<todo, call, id, pc>> /\ pc = "bytes" /\ sent' = sent + 1
        /\ sent \in Nat /\ sent < Len(todo[1]) /\ todo[1] \in Frames
    BY <1>4, Clocked
  <2>2. sent' \in 0..Len(todo[1])
    BY <2>1 DEF Frames
  <2> QED
    BY <1>0, <2>1, <2>2 DEF TodoInv, Sending, Left
<1>5. ASSUME todo' = Tail(todo), pc = "bytes", pc' = "frame",
             call'.op = call.op /\ call'.at = call.at /\ call'.n = call.n,
             id' = id \/ call.op # "writable"
      PROVE  TodoInv'
  <2>1. /\ Left' = Left - 1 /\ \A i \in 1..(Left - 1) : todo'[i] = todo[i + 1]
        /\ Left > 0
    BY <1>5, Current DEF Left
  <2>2. ASSUME NEW i \in 1..Left' PROVE IsFrame(call', id', Left' + 1 - i, todo'[i])
    <3>1. i + 1 \in 1..Left /\ Left' + 1 - i = Left + 1 - (i + 1) /\ todo'[i] = todo[i + 1]
      BY <1>0, <2>1
    <3>2. IsFrame(call, id, Left + 1 - (i + 1), todo[i + 1])
      BY <1>0, <1>5, <3>1 DEF TodoInv, Sending
    <3>3. IsFrame(call', id', Left + 1 - (i + 1), todo[i + 1])
      BY <1>5, <3>2, SameFrame
    <3> QED
      BY <3>1, <3>3, Zenon
  <2>3. call.op = "sstProgram" => Left' <= call.n + 3
    BY <1>0, <1>5, <2>1, SizeFacts DEF TodoInv, Sending, OpOK
  <2> QED
    BY <1>5, <2>2, <2>3 DEF TodoInv
<1>6. ASSUME todo' = <<>>, pc' = "frame", OpOK(call') PROVE TodoInv'
  <2>1. Left' = 0 /\ call'.n \in Nat
    BY <1>6, SizeFacts DEF Left, OpOK
  <2> QED
    BY <1>6, <2>1 DEF TodoInv
<1>7. CASE ChipSelectHigh
  BY <1>5, <1>7 DEF ChipSelectHigh, EndsFrame
<1>8. CASE PollAgain
  <2>1. UNCHANGED <<todo, call, id>> /\ pc = "bytes" /\ pc' = "frame"
    BY <1>8 DEF PollAgain, EndsFrame
  <2> QED
    BY <1>0, <2>1 DEF TodoInv, Sending, Left
<1>9. CASE PollGivesUp
  <2>1. /\ pc = "bytes" /\ pc' = "frame" /\ id' = id /\ (todo' = Tail(todo) \/ todo' = <<>>)
        /\ call' = [call EXCEPT !.status = "FAIL"]
    BY <1>9 DEF PollGivesUp, EndsFrame
  <2>2. call'.op = call.op /\ call'.at = call.at /\ call'.n = call.n /\ OpOK(call')
    BY <1>0, <2>1 DEF OpOK
  <2> QED
    BY <1>5, <1>6, <2>1, <2>2
<1>10. CASE UNCHANGED tool
  BY <1>0, <1>10 DEF tool, TodoInv, Sending, Left
<1>11. StartRun \/ Gone \/ Calls \/ AcquireFails \/ Disable => pc' \notin {"frame", "bytes"}
  BY Begun, Disabled DEF StartRun, Gone, AcquireFails, Return
<1> QED
  BY <1>1, <1>2, <1>3, <1>4, <1>7, <1>8, <1>9, <1>10, <1>11
     DEF Next, Step, Calls, EndRun, Kill, PowerLoss, FlashDone, vars

LEMMA LinesStep == BaseInv /\ [Next]_vars => LinesInv'
<1> SUFFICES ASSUME BaseInv, [Next]_vars PROVE LinesInv'
  OBVIOUS
<1>0. LinesInv /\ ToolType /\ CallInv
  BY DEF BaseInv, TypeInv
<1>1. CASE UNCHANGED lines /\ pc' \notin {"frame", "bytes"}
  BY <1>0, <1>1 DEF lines, LinesInv, Sending
<1>2. ASSUME ChipSelectRises, pc' = "frame", trouble \subseteq trouble',
             (UNCHANGED granted /\ Sending) \/ granted' \/ "refused" \in trouble'
      PROVE  LinesInv'
  <2>1. cs' = "high" /\ line' = <<>> /\ cut' = FALSE
    BY <1>2 DEF ChipSelectRises
  <2> QED
    BY <1>0, <1>2, <2>1 DEF LinesInv, Sending
<1>3. CASE Enable
  BY <1>2, <1>3 DEF Enable
<1>4. CASE ChipSelectLow
  <2>1. /\ pc = "frame" /\ cs' = "low" /\ pc' = "bytes" /\ sent' = 0
        /\ UNCHANGED <<granted, line, cut, todo, trouble>>
    BY <1>4 DEF ChipSelectLow
  <2>2. line = <<>> /\ ~cut /\ (granted \/ "refused" \in trouble)
    BY <1>0, <2>1 DEF LinesInv, Sending
  <2>3. SubSeq(todo[1], 1, 0) = <<>>
    BY SubSeqEmpty
  <2> QED
    BY <2>1, <2>2, <2>3 DEF LinesInv, Sending
<1>5. CASE ClockByte
  <2>1. /\ pc = "bytes" /\ sent' = sent + 1 /\ UNCHANGED <<granted, cs, cut, pc, todo, trouble>>
        /\ line' = IF granted THEN SubSeq(todo[1], 1, sent + 1) ELSE <<>>
    BY <1>5, Clocked
  <2> QED
    BY <1>0, <2>1 DEF LinesInv, Sending
<1>6. CASE ChipSelectHigh
  BY <1>2, <1>6 DEF ChipSelectHigh, EndsFrame, Sending
<1>7. CASE PollAgain
  BY <1>2, <1>7 DEF PollAgain, EndsFrame, Sending
<1>8. CASE PollGivesUp
  BY <1>2, <1>8 DEF PollGivesUp, EndsFrame, Sending
<1>9. CASE Disable
  <2>1. pc' \notin {"frame", "bytes"} /\ UNCHANGED <<cs, line, cut>>
    BY <1>9, Disabled
  <2> QED
    BY <1>0, <2>1 DEF LinesInv, Sending
<1>10. CASE Kill
  <2>1. pc' = "idle" /\ UNCHANGED <<granted, cs, line>> /\ (cut' = cut \/ (cut' => pc = "bytes"))
    BY <1>10 DEF Kill, Gone
  <2>2. cs = "high" => pc # "bytes" /\ line = <<>> /\ ~cut
    BY <1>0 DEF LinesInv
  <2> QED
    BY <1>10, <2>1, <2>2 DEF LinesInv, Sending, Kill
<1>11. CASE PowerLoss
  <2>1. cs' = "high" /\ line' = <<>> /\ cut' = FALSE /\ pc' \notin {"frame", "bytes"}
    BY <1>11 DEF PowerLoss, Gone, tool
  <2> QED
    BY <2>1 DEF LinesInv, Sending
<1>12. CASE UNCHANGED <<lines, tool>>
  BY <1>0, <1>12 DEF lines, tool, LinesInv, Sending
<1>13. StartRun \/ EndRun \/ Calls \/ AcquireFails => UNCHANGED lines /\ pc' \notin {"frame", "bytes"}
  BY Begun DEF StartRun, EndRun, Gone, AcquireFails, Return
<1> QED
  BY <1>1, <1>3, <1>4, <1>5, <1>6, <1>7, <1>8, <1>9, <1>10, <1>11, <1>12, <1>13
     DEF Next, Step, Calls, FlashDone, vars

LEMMA BaseStep == BaseInv /\ [Next]_vars => BaseInv'
  BY TypeStep, CallStep, TodoStep, LinesStep DEF BaseInv

-----------------------------------------------------------------------------
(* What the flash does with each frame.                                     *)

LEMMA Obeyed ==
  ASSUME NEW f \in Frames, Obey(f)
  PROVE  /\ f = <<>> \/ f[1].kind \in {"rdsr", "rdid", "read"} =>
              UNCHANGED <<mem, wel, auto>> /\ busy' = <<>>
         /\ f = <<Byte("wren")>> => UNCHANGED <<mem, auto>> /\ wel' = "all" /\ busy' = <<>>
         /\ f = <<Byte("ewsr")>> =>
              UNCHANGED <<mem, auto>> /\ wel' = (IF chip = "sst" THEN "status" ELSE wel) /\ busy' = <<>>
         /\ f = <<Byte("wrdi")>> =>
              UNCHANGED mem /\ auto' = NoAuto /\ wel' = "off" /\ busy' = <<>>
         /\ f # <<>> /\ f[1].kind \in {"wrsr", "erase", "sectorErase", "program"} =>
              UNCHANGED <<mem, wel, auto>> /\ busy' = IF Starts(f) THEN f ELSE <<>>
         /\ f # <<>> /\ f[1].kind = "auto" =>
              /\ busy' = <<>> /\ UNCHANGED wel
              /\ IF First(f) \/ Following(f)
                 THEN /\ mem' = [mem EXCEPT ![AutoAt(f)] = @ \cup {Word(f)}]
                      /\ auto' = (AutoAt(f) + 1) % Words
                 ELSE UNCHANGED <<mem, auto>>
<1>0. /\ wel' = Latch(f) /\ busy' = IF Starts(f) THEN f ELSE <<>>
      /\ IF First(f) \/ Following(f)
         THEN /\ mem' = [mem EXCEPT ![AutoAt(f)] = @ \cup {Word(f)}]
              /\ auto' = (AutoAt(f) + 1) % Words
         ELSE UNCHANGED mem /\ auto' = IF f = <<Byte("wrdi")>> THEN NoAuto ELSE auto
  BY DEF Obey
<1>1. CASE f = <<>>
  <2>1. ~First(f) /\ ~Following(f) /\ ~Starts(f) /\ f # <<Byte("wrdi")>> /\ Latch(f) = wel
    BY <1>1 DEF First, Following, IsAuto, Starts, Latch
  <2> QED
    BY <1>0, <1>1, <2>1
<1>2. CASE f # <<>> /\ f[1].kind \in {"rdsr", "rdid", "read"}
  <2>1. ~First(f) /\ ~Following(f) /\ ~Starts(f) /\ f # <<Byte("wrdi")>> /\ Latch(f) = wel
    BY <1>2 DEF First, Following, IsAuto, Starts, Latch, Byte
  <2> QED
    BY <1>0, <1>2, <2>1 DEF Byte
<1>3. CASE f = <<Byte("wren")>>
  <2>1. ~First(f) /\ ~Following(f) /\ ~Starts(f) /\ f # <<Byte("wrdi")>> /\ Latch(f) = "all"
    BY <1>3 DEF First, Following, IsAuto, Starts, Latch, Byte
  <2> QED
    BY <1>0, <1>3, <2>1 DEF Byte
<1>4. CASE f = <<Byte("ewsr")>>
  <2>1. /\ ~First(f) /\ ~Following(f) /\ ~Starts(f) /\ f # <<Byte("wrdi")>>
        /\ Latch(f) = IF chip = "sst" THEN "status" ELSE wel
    BY <1>4 DEF First, Following, IsAuto, Starts, Latch, Byte
  <2> QED
    BY <1>0, <1>4, <2>1 DEF Byte
<1>5. CASE f = <<Byte("wrdi")>>
  <2>1. ~First(f) /\ ~Following(f) /\ ~Starts(f) /\ Latch(f) = "off"
    BY <1>5 DEF First, Following, IsAuto, Starts, Latch, Byte
  <2> QED
    BY <1>0, <1>5, <2>1 DEF Byte
<1>6. CASE f # <<>> /\ f[1].kind \in {"wrsr", "erase", "sectorErase", "program"}
  <2>1. ~First(f) /\ ~Following(f) /\ f # <<Byte("wrdi")>> /\ Latch(f) = wel
    BY <1>6 DEF First, Following, IsAuto, Latch, Byte
  <2> QED
    BY <1>0, <1>6, <2>1 DEF Byte
<1>7. CASE f # <<>> /\ f[1].kind = "auto"
  <2>1. ~Starts(f) /\ f # <<Byte("wrdi")>> /\ Latch(f) = wel
    BY <1>7 DEF Starts, Latch, Byte
  <2> QED
    BY <1>0, <1>7, <2>1 DEF Byte
<1> QED
  BY <1>1, <1>2, <1>3, <1>4, <1>5, <1>6, <1>7 DEF Byte

-----------------------------------------------------------------------------
(* No frame gives a word anything but its value: the frames, and any first  *)
(* part of them, are so, and with them what the flash is busy with.         *)

GoodFrame(f) ==
  f # <<>> =>
  /\ f[1].kind = "auto" => Len(f) <= 3 /\ (Len(f) = 3 => f[3] = DataByte(f[2].at))
  /\ f[1].kind = "program" =>
       \A i \in 3..Len(f) : /\ f[2].at + i - 3 \in Page(f[2].at)
                            /\ f[i] = DataByte(f[2].at + i - 3)
GoodBusy ==
  busy # <<>> =>
  /\ busy[1].kind \in {"wrsr", "erase", "sectorErase", "program"}
  /\ busy[1].kind \in {"sectorErase", "program"} => Len(busy) > 1
  /\ protect => busy[1].kind = "wrsr"
GoodInv == GoodFrame(line) /\ GoodFrame(busy) /\ GoodBusy

LEMMA GoodSent ==
  ASSUME NEW c, OpOK(c), c.op # "none", NEW maker, NEW left, NEW f \in Frames,
         IsFrame(c, maker, left, f), NEW n \in 0..Len(f)
  PROVE  GoodFrame(SubSeq(f, 1, n))
<1>0. f \in Seq(Bytes) /\ Len(f) \in Nat /\ n \in Nat /\ n <= Len(f)
  BY DEF Frames
<1>1. /\ Len(SubSeq(f, 1, n)) = n /\ SubSeq(f, 1, n) \in Seq(Bytes)
      /\ \A i \in 1..n : SubSeq(f, 1, n)[i] = f[i]
  <2>1. 1 \in Int /\ n \in Int /\ \A i \in 1..n : f[i] \in Bytes
    BY <1>0
  <2>2. /\ SubSeq(f, 1, n) \in Seq(Bytes)
        /\ Len(SubSeq(f, 1, n)) = IF 1 <= n THEN n - 1 + 1 ELSE 0
        /\ \A i \in 1..(n - 1 + 1) : SubSeq(f, 1, n)[i] = f[1 + i - 1]
    BY <2>1, SubSeqProperties
  <2>3. n - 1 + 1 = n /\ (IF 1 <= n THEN n ELSE 0) = n /\ \A i \in 1..n : 1 + i - 1 = i
    BY <1>0
  <2> QED
    BY <2>2, <2>3
<1>2. \/ f = ProgramFrame(c.at, c.n) /\ c.op = "program"
      \/ f = FirstFrame(c.at) /\ c.op = "sstProgram"
      \/ \E a \in Address : f = NextFrame(a)
      \/ f # <<>> /\ f[1].kind \notin {"auto", "program"}
  <2>1. CASE c.op = "sstProgram"
    <3>1. CASE left \in 2..c.n /\ f = NextFrame(c.at + c.n + 1 - left)
      <4>1. c.n + 1 - left \in 0..(c.n - 1) /\ c.at \in Int /\ c.n \in Int /\ left \in Int
        BY <2>1, <3>1, BurstFits, SizeFacts DEF Address
      <4>2. c.at + (c.n + 1 - left) \in Address
        BY <2>1, <4>1, BurstFits
      <4>3. c.at + (c.n + 1 - left) = c.at + c.n + 1 - left
        BY <4>1
      <4> QED
        BY <3>1, <4>2, <4>3
    <3>2. CASE f = FirstFrame(c.at)
      BY <2>1, <3>2
    <3>3. CASE f = <<Byte("wren")>> \/ f = <<Byte("wrdi")>>
      BY <3>3 DEF Byte
    <3> QED
      BY <2>1, <3>1, <3>2, <3>3 DEF IsFrame
  <2>2. CASE c.op = "program"
    <3>1. f \in {<<Byte("wren")>>, ProgramFrame(c.at, c.n), <<Byte("wrdi")>>, Poll}
      BY <2>2 DEF IsFrame
    <3>2. f \in {<<Byte("wren")>>, <<Byte("wrdi")>>, Poll} => f # <<>> /\ f[1].kind \notin {"auto", "program"}
      BY DEF Byte, Poll
    <3> QED
      BY <2>2, <3>1, <3>2
  <2>3. CASE c.op \in {"eraseNvm", "sectorErase"}
    <3>1. f \in {<<Byte("wren")>>, EraseFrame(c), <<Byte("wrdi")>>, Poll}
      BY <2>3 DEF IsFrame
    <3> QED
      BY <3>1 DEF Byte, Poll, EraseFrame
  <2>4. CASE c.op = "writable"
    <3>1. f \in {<<Byte("ewsr")>>, <<Byte("wren")>>, <<Byte("wrsr"), Byte("value")>>}
      BY <2>4 DEF IsFrame
    <3> QED
      BY <3>1 DEF Byte
  <2>5. CASE c.op \in {"identify", "read"}
    BY <2>5 DEF IsFrame, Byte
  <2> QED
    BY <2>1, <2>2, <2>3, <2>4, <2>5 DEF OpOK, OpNames
<1> DEFINE g == SubSeq(f, 1, n)
<1> HIDE DEF g
<1>3. g # <<>> => n > 0 /\ g[1] = f[1] /\ Len(g) = n /\ (n > 1 => g[2] = f[2])
  BY <1>0, <1>1 DEF g
<1>4. CASE f = ProgramFrame(c.at, c.n) /\ c.op = "program"
  <2>1. /\ Len(f) = c.n + 2 /\ f[1] = Byte("program") /\ f[2] = AddressByte(c.at)
        /\ \A i \in 3..(c.n + 2) : f[i] = DataByte(c.at + i - 3)
    BY <1>4, BurstFits, ProgramFrameIs
  <2>2. f[2].at = c.at
    BY <1>4, <2>1, BurstFits, ByteFacts
  <2>3. ASSUME NEW i \in 3..n
        PROVE  /\ g[i] = f[i] /\ f[i] = DataByte(c.at + i - 3) /\ g[2].at = c.at
               /\ c.at + i - 3 \in Page(c.at)
    <3>1. i \in 3..(c.n + 2) /\ i \in 1..n /\ 2 \in 1..n /\ i - 3 \in 0..(c.n - 1)
      BY <1>0, <1>4, <2>1, BurstFits
    <3>2. c.at + (i - 3) \in Page(c.at)
      BY <1>4, <3>1, BurstFits
    <3>3. c.at + (i - 3) = c.at + i - 3
      BY <1>4, BurstFits, SizeFacts DEF Address
    <3>4. g[i] = f[i] /\ g[2] = f[2]
      BY <1>1, <3>1 DEF g
    <3> QED
      BY <2>1, <2>2, <3>1, <3>2, <3>3, <3>4
  <2>4. g # <<>> => g[1].kind = "program" /\ Len(g) = n
    BY <1>3, <2>1 DEF Byte
  <2>5. GoodFrame(g)
    <3>1. g # <<>> => /\ g[1].kind # "auto" /\ Len(g) = n
                      /\ \A i \in 3..n : /\ g[2].at + i - 3 \in Page(g[2].at)
                                         /\ g[i] = DataByte(g[2].at + i - 3)
      BY <2>3, <2>4
    <3> QED
      BY <3>1 DEF GoodFrame
  <2> QED
    BY <2>5 DEF g
<1>5. CASE f = FirstFrame(c.at) /\ c.op = "sstProgram"
  <2>1. /\ Len(f) = 3 /\ f[1] = Byte("auto") /\ f[2].at = c.at /\ f[3] = DataByte(c.at)
    BY <1>5, BurstFits, AutoFrames, ByteFacts
  <2>2. n = 3 => g[3] = f[3] /\ g[2] = f[2]
    BY <1>1 DEF g
  <2> QED
    BY <1>0, <1>3, <2>1, <2>2 DEF GoodFrame, Byte, g
<1>6. CASE \E a \in Address : f = NextFrame(a)
  <2>1. Len(f) = 2 /\ f[1] = Byte("auto")
    BY <1>6, AutoFrames
  <2> QED
    BY <1>0, <1>3, <2>1 DEF GoodFrame, Byte, g
<1>7. CASE f # <<>> /\ f[1].kind \notin {"auto", "program"}
  BY <1>3, <1>7 DEF GoodFrame, g
<1> QED
  BY <1>2, <1>4, <1>5, <1>6, <1>7

LEMMA NothingGood == GoodFrame(<<>>)
  BY DEF GoodFrame

LEMMA StartsGood ==
  ASSUME TypeInv, GoodInv, Obey(line), UNCHANGED protect
  PROVE  GoodFrame(busy') /\ GoodBusy'
<1>1. busy' = IF Starts(line) THEN line ELSE <<>>
  BY DEF Obey
<1>2. Starts(line) => /\ line[1].kind \in {"wrsr", "erase", "sectorErase", "program"}
                      /\ line[1].kind \in {"sectorErase", "program"} => Len(line) > 1
                      /\ protect => line[1].kind = "wrsr"
  BY DEF Starts, Byte
<1> QED
  BY <1>1, <1>2, NothingGood DEF GoodInv, GoodBusy

LEMMA GoodStep == BaseInv /\ GoodInv /\ [Next]_vars => GoodInv'
<1> SUFFICES ASSUME BaseInv, GoodInv, [Next]_vars PROVE GoodInv'
  OBVIOUS
<1>0. TypeInv
  BY DEF BaseInv
<1>1. CASE ChipSelectRises
  <2>1. /\ line' = <<>> /\ UNCHANGED protect
        /\ \/ Obey(line)
           \/ UNCHANGED busy
    BY <1>0, <1>1, Rises
  <2>2. CASE Obey(line)
    BY <1>0, <2>1, <2>2, StartsGood, NothingGood DEF GoodInv
  <2>3. CASE UNCHANGED busy
    BY <2>1, <2>3, NothingGood DEF GoodInv, GoodBusy
  <2> QED
    BY <2>1, <2>2, <2>3
<1>2. CASE UNCHANGED flashChip /\ UNCHANGED line
  BY <1>2 DEF flashChip, GoodInv, GoodBusy
<1>3. CASE ClockByte
  <2>1. /\ pc = "bytes" /\ sent < Len(todo[1]) /\ sent \in Nat
        /\ line' = IF granted THEN SubSeq(todo[1], 1, sent + 1) ELSE <<>>
        /\ todo[1] \in Frames /\ UNCHANGED flashChip
    BY <1>3, Clocked
  <2>2. sent + 1 \in 0..Len(todo[1])
    BY <2>1 DEF Frames
  <2>3. IsFrame(call, id, Left, todo[1]) /\ OpOK(call) /\ call.op # "none"
    BY <2>1, Current DEF BaseInv, CallInv
  <2>4. GoodFrame(SubSeq(todo[1], 1, sent + 1))
    BY <2>1, <2>2, <2>3, GoodSent
  <2>5. GoodFrame(line')
    BY <2>1, <2>4, NothingGood
  <2> QED
    BY <2>1, <2>5 DEF flashChip, GoodInv, GoodBusy
<1>4. CASE busy' = <<>> /\ (line' = line \/ line' = <<>>)
  BY <1>4, NothingGood DEF GoodInv, GoodBusy
<1>5. FlashDone \/ PowerLoss => busy' = <<>> /\ (line' = line \/ line' = <<>>)
  BY DEF FlashDone, PowerLoss, lines
<1>6. Enable \/ ChipSelectHigh \/ PollAgain \/ PollGivesUp => ChipSelectRises
  BY DEF Enable, ChipSelectHigh, PollAgain, PollGivesUp
<1>7. StartRun \/ EndRun \/ Calls \/ AcquireFails \/ ChipSelectLow \/ Disable \/ Kill \/ UNCHANGED vars
        => UNCHANGED flashChip /\ UNCHANGED line
  BY Begun, Disabled
     DEF StartRun, EndRun, AcquireFails, ChipSelectLow, Kill, lines, vars
<1> QED
  BY <1>1, <1>2, <1>3, <1>4, <1>5, <1>6, <1>7 DEF Next, Step, Calls

-----------------------------------------------------------------------------
(* SST's way: the flash programs on only for the call that made it start,   *)
(* and its next word is the one that the next frame gives.                  *)

Own == pc # "idle" /\ "leftAuto" \notin trouble
AutoInv ==
  Own =>
  /\ pc \in {"ready", "enable"} => ~IsAuto(line)
  /\ auto # NoAuto => /\ Sending /\ call.op = "sstProgram" /\ Left \in 1..call.n
                      /\ auto = (call.at + call.n + 1 - Left) % Words
                      /\ busy = <<>> /\ chip = "sst" /\ granted

LEMMA EnableRises ==
  ASSUME BaseInv, AutoInv, Own, Enable
  PROVE  /\ auto = NoAuto /\ ~IsAuto(line) /\ UNCHANGED <<protect, chip>>
         /\ IF granted' /\ ~cut /\ busy = <<>> THEN Obey(line)
                                               ELSE UNCHANGED <<mem, wel, auto, busy>>
<1>1. pc = "enable" /\ ChipSelectRises
  BY DEF Enable
<1>2. auto = NoAuto /\ ~IsAuto(line)
  BY <1>1 DEF AutoInv, Sending
<1> QED
  BY <1>1, <1>2, Rises DEF BaseInv

LEMMA EndRises ==
  ASSUME BaseInv, AutoInv, Own, EndsFrame, ChipSelectRises, UNCHANGED granted
  PROVE  /\ UNCHANGED <<protect, chip>>
         /\ IF granted /\ busy = <<>> THEN Obey(todo[1])
                                      ELSE UNCHANGED <<mem, wel, auto, busy>>
<1>1. pc = "bytes" /\ ~cut /\ line = IF granted THEN todo[1] ELSE <<>>
  BY FrameEnds
<1>2. auto = NoAuto \/ IsAuto(line) \/ line = <<Byte("wrdi")>>
  <2>1. SUFFICES ASSUME auto # NoAuto PROVE IsAuto(line) \/ line = <<Byte("wrdi")>>
    OBVIOUS
  <2>2. call.op = "sstProgram" /\ Left \in 1..call.n /\ chip = "sst" /\ granted
    BY <2>1 DEF AutoInv
  <2>3. IsFrame(call, id, Left, todo[1]) /\ Left \in Nat /\ call.n \in Nat
    BY <1>1, Current, SizeFacts DEF BaseInv, CallInv, OpOK
  <2>4. todo[1] = NextFrame(call.at + call.n + 1 - Left) \/ todo[1] = <<Byte("wrdi")>>
    BY <2>2, <2>3 DEF IsFrame
  <2>5. \A a : NextFrame(a) # <<>> /\ NextFrame(a)[1] = Byte("auto")
    BY DEF NextFrame
  <2>6. line = todo[1]
    BY <1>1, <2>2
  <2> QED
    BY <2>2, <2>4, <2>5, <2>6 DEF IsAuto
<1> QED
  BY <1>1, <1>2, Rises DEF BaseInv

(* The flash is programming word by word, or starts to, and a frame of the  *)
(* burst has been sent.                                                     *)
LEMMA AutoSent ==
  ASSUME BaseInv, AutoInv, Own, EndsFrame, granted, busy = <<>>, Obey(todo[1]),
         call.op = "sstProgram"
  PROVE  /\ Left \in (call.n + 2)..(call.n + 3) => UNCHANGED <<mem, auto>> /\ wel' = "all" /\ auto = NoAuto
         /\ Left = call.n + 1 =>
              /\ auto = NoAuto /\ UNCHANGED wel
              /\ IF wel = "all" /\ ~protect /\ chip = "sst"
                 THEN /\ mem' = [mem EXCEPT ![call.at] = @ \cup {DataByte(call.at)}]
                      /\ auto' = (call.at + 1) % Words
                 ELSE UNCHANGED <<mem, auto>>
         /\ Left \in 2..call.n =>
              LET a == call.at + call.n + 1 - Left IN
              /\ a \in Address /\ UNCHANGED wel
              /\ IF auto # NoAuto
                 THEN /\ auto = a /\ mem' = [mem EXCEPT ![a] = @ \cup {DataByte(a)}]
                      /\ auto' = (a + 1) % Words
                 ELSE UNCHANGED <<mem, auto>>
         /\ Left = 1 => UNCHANGED mem /\ auto' = NoAuto
         /\ busy' = <<>> /\ Left \in 1..(call.n + 3)
<1>1. pc = "bytes"
  BY FrameEnds
<1>2. /\ todo[1] \in Frames /\ IsFrame(call, id, Left, todo[1]) /\ Left \in Nat /\ Left > 0
      /\ call.n \in Nat /\ call.n > 0 /\ call.at \in Address /\ call.at \in Int
  BY <1>1, Current, BurstFits, SizeFacts DEF BaseInv, CallInv, Address
<1>3. CASE Left \in {call.n + 2, call.n + 3}
  <2>1. todo[1] = <<Byte("wren")>>
    BY <1>2, <1>3 DEF IsFrame
  <2>2. UNCHANGED <<mem, auto>> /\ wel' = "all" /\ busy' = <<>>
    BY <1>2, <2>1, Obeyed
  <2>3. auto = NoAuto
    BY <1>2, <1>3 DEF AutoInv
  <2> QED
    BY <1>2, <1>3, <2>2, <2>3
<1>4. CASE Left = call.n + 1
  <2>1. todo[1] = FirstFrame(call.at)
    BY <1>2, <1>4 DEF IsFrame
  <2>2. auto = NoAuto
    BY <1>2, <1>4 DEF AutoInv
  <2> DEFINE f == todo[1]
  <2>3. /\ f # <<>> /\ f[1].kind = "auto" /\ f[1] = Byte("auto") /\ Len(f) = 3
        /\ f[2].at = call.at /\ f[3] = DataByte(call.at)
    BY <1>2, <2>1, AutoFrames, ByteFacts DEF Byte
  <2>4. /\ AutoAt(f) = call.at /\ Word(f) = DataByte(call.at) /\ ~Following(f)
        /\ First(f) <=> wel = "all" /\ ~protect /\ chip = "sst"
    BY <2>2, <2>3 DEF AutoAt, Word, Following, First, IsAuto
  <2>5. /\ busy' = <<>> /\ UNCHANGED wel
        /\ IF First(f) \/ Following(f)
           THEN /\ mem' = [mem EXCEPT ![AutoAt(f)] = @ \cup {Word(f)}]
                /\ auto' = (AutoAt(f) + 1) % Words
           ELSE UNCHANGED <<mem, auto>>
    BY <1>2, <2>3, Obeyed
  <2> HIDE DEF f
  <2>6. IF wel = "all" /\ ~protect /\ chip = "sst"
        THEN /\ mem' = [mem EXCEPT ![call.at] = @ \cup {DataByte(call.at)}]
             /\ auto' = (call.at + 1) % Words
        ELSE UNCHANGED <<mem, auto>>
    BY <2>4, <2>5, Zenon
  <2>7. Left \notin (call.n + 2)..(call.n + 3) /\ Left \notin 2..call.n /\ Left # 1
        /\ Left \in 1..(call.n + 3)
    BY <1>2, <1>4
  <2> QED
    BY <1>4, <2>2, <2>5, <2>6, <2>7
<1>5. CASE Left \in 2..call.n
  <2> DEFINE a == call.at + call.n + 1 - Left
             f == todo[1]
  <2>1. f = NextFrame(a)
    BY <1>2, <1>5 DEF IsFrame
  <2>2. a \in Address
    <3>1. call.n + 1 - Left \in 0..(call.n - 1)
      BY <1>2, <1>5
    <3>2. call.at + (call.n + 1 - Left) \in Address
      BY <3>1, BurstFits DEF BaseInv, CallInv
    <3>3. call.at + (call.n + 1 - Left) = a
      BY <1>2
    <3> QED
      BY <3>2, <3>3
  <2>3. auto # NoAuto => auto = a /\ chip = "sst"
    <3>1. a \in Nat /\ a < Words
      BY <2>2, SizeFacts DEF Address
    <3>2. a % Words = a
      BY <3>1, Remainder
    <3> QED
      BY <3>2 DEF AutoInv
  <2> HIDE DEF a
  <2>4. f # <<>> /\ f[1].kind = "auto" /\ f[1] = Byte("auto") /\ Len(f) = 2 /\ f[2] = DataByte(a)
    BY <2>1, <2>2, AutoFrames DEF Byte
  <2>5. /\ ~First(f) /\ (Following(f) <=> auto # NoAuto)
        /\ auto # NoAuto => AutoAt(f) = a /\ Word(f) = DataByte(a)
    BY <2>3, <2>4 DEF First, Following, IsAuto, AutoAt, Word
  <2>6. /\ busy' = <<>> /\ UNCHANGED wel
        /\ IF First(f) \/ Following(f)
           THEN /\ mem' = [mem EXCEPT ![AutoAt(f)] = @ \cup {Word(f)}]
                /\ auto' = (AutoAt(f) + 1) % Words
           ELSE UNCHANGED <<mem, auto>>
    BY <1>2, <2>4, Obeyed
  <2> HIDE DEF f
  <2>7. IF auto # NoAuto
        THEN /\ auto = a /\ mem' = [mem EXCEPT ![a] = @ \cup {DataByte(a)}]
             /\ auto' = (a + 1) % Words
        ELSE UNCHANGED <<mem, auto>>
    <3>1. CASE auto # NoAuto
      BY <2>3, <2>5, <2>6, <3>1, Zenon
    <3>2. CASE auto = NoAuto
      BY <2>5, <2>6, <3>2, Zenon
    <3> QED
      BY <3>1, <3>2
  <2>8. Left \notin (call.n + 2)..(call.n + 3) /\ Left # call.n + 1 /\ Left # 1
        /\ Left \in 1..(call.n + 3)
    BY <1>2, <1>5
  <2>9. LET b == call.at + call.n + 1 - Left IN
        /\ b \in Address /\ UNCHANGED wel
        /\ IF auto # NoAuto
           THEN /\ auto = b /\ mem' = [mem EXCEPT ![b] = @ \cup {DataByte(b)}]
                /\ auto' = (b + 1) % Words
           ELSE UNCHANGED <<mem, auto>>
    BY <2>2, <2>6, <2>7, Zenon DEF a
  <2> QED
    BY <2>6, <2>8, <2>9, Zenon
<1>6. CASE Left = 1
  <2>1. todo[1] = <<Byte("wrdi")>>
    BY <1>2, <1>6 DEF IsFrame
  <2>2. UNCHANGED mem /\ auto' = NoAuto /\ busy' = <<>>
    BY <1>2, <2>1, Obeyed
  <2> QED
    BY <1>2, <1>6, <2>2
<1>7. Left \in {call.n + 2, call.n + 3} \/ Left = call.n + 1 \/ Left \in 2..call.n \/ Left = 1
  BY <1>2 DEF IsFrame
<1> QED
  BY <1>3, <1>4, <1>5, <1>6, <1>7

(* Only the burst for SST's flash has such frames, and it polls nothing.    *)
LEMMA KindsSent ==
  ASSUME NEW c, OpOK(c), c.op # "none", NEW maker, NEW left, NEW f, IsFrame(c, maker, left, f)
  PROVE  /\ f # <<>>
         /\ c.op # "sstProgram" => f[1].kind # "auto"
         /\ c.op \in {"sstProgram", "identify", "writable", "read"} => f # Poll
<1>1. CASE c.op = "sstProgram"
  <2>1. \A a : NextFrame(a) # <<>> /\ NextFrame(a) # Poll
    BY DEF NextFrame, Poll, Byte
  <2>2. \A a : FirstFrame(a) # <<>> /\ FirstFrame(a) # Poll
    BY DEF FirstFrame, Poll, Byte
  <2>3. <<Byte("wren")>> # Poll /\ <<Byte("wrdi")>> # Poll
    BY DEF Poll
  <2>4. (\E a : f = NextFrame(a)) \/ f = FirstFrame(c.at) \/ f = <<Byte("wren")>> \/ f = <<Byte("wrdi")>>
    BY <1>1 DEF IsFrame
  <2> QED
    BY <1>1, <2>1, <2>2, <2>3, <2>4
<1>2. CASE c.op = "program"
  <2>1. f \in {<<Byte("wren")>>, ProgramFrame(c.at, c.n), <<Byte("wrdi")>>, Poll}
    BY <1>2 DEF IsFrame
  <2>2. ProgramFrame(c.at, c.n) # <<>> /\ ProgramFrame(c.at, c.n)[1].kind # "auto"
    BY <1>2, BurstFits, ProgramFrameIs DEF Byte
  <2> QED
    BY <1>2, <2>1, <2>2 DEF Byte, Poll
<1>3. CASE c.op \in {"eraseNvm", "sectorErase"}
  <2>1. f \in {<<Byte("wren")>>, EraseFrame(c), <<Byte("wrdi")>>, Poll}
    BY <1>3 DEF IsFrame
  <2> QED
    BY <1>3, <2>1 DEF Byte, Poll, EraseFrame
<1>4. CASE c.op = "writable"
  <2>1. f \in {<<Byte("ewsr")>>, <<Byte("wren")>>, <<Byte("wrsr"), Byte("value")>>}
    BY <1>4 DEF IsFrame
  <2> QED
    BY <1>4, <2>1 DEF Byte, Poll
<1>5. CASE c.op \in {"identify", "read"}
  BY <1>5 DEF IsFrame, Byte, Poll
<1> QED
  BY <1>1, <1>2, <1>3, <1>4, <1>5 DEF OpOK, OpNames

LEMMA EndPlain ==
  ASSUME BaseInv, AutoInv, Own, EndsFrame, ChipSelectRises, UNCHANGED granted, call.op # "sstProgram"
  PROVE  auto = NoAuto /\ auto' = NoAuto /\ UNCHANGED mem
<1>1. pc = "bytes"
  BY DEF EndsFrame
<1>2. auto = NoAuto
  BY DEF AutoInv
<1>3. todo[1] # <<>> /\ todo[1][1].kind # "auto"
  BY <1>1, Current, KindsSent DEF BaseInv, CallInv
<1>4. Obey(todo[1]) \/ UNCHANGED <<auto, mem>>
  BY EndRises
<1>5. ~IsAuto(todo[1])
  BY <1>3 DEF IsAuto, Byte
<1> QED
  BY <1>2, <1>4, <1>5 DEF Obey, First, Following

LEMMA EnablePlain ==
  ASSUME BaseInv, AutoInv, Own, Enable
  PROVE  auto = NoAuto /\ auto' = NoAuto /\ UNCHANGED mem
<1>1. auto = NoAuto /\ ~IsAuto(line) /\ (Obey(line) \/ UNCHANGED <<auto, mem>>)
  BY EnableRises
<1> QED
  BY <1>1 DEF Obey, First, Following

LEMMA OwnSteps ==
  ASSUME [Next]_vars, Own'
  PROVE  \/ StartRun
         \/ /\ Own /\ trouble \subseteq trouble'
            /\ Calls \/ AcquireFails \/ Step \/ FlashDone \/ UNCHANGED vars
<1>1. ~(EndRun \/ Kill \/ PowerLoss)
  BY DEF Own, EndRun, Kill, PowerLoss, Gone, tool
<1>2. Calls \/ AcquireFails \/ Step \/ FlashDone \/ UNCHANGED vars => pc # "idle" /\ trouble \subseteq trouble'
  <2>1. Calls => pc # "idle" /\ trouble \subseteq trouble'
    BY DEF Calls, CallDetect, CallErase, CallSectorErase, CallProgram, CallSstProgram, CallRead, Begin
  <2>2. AcquireFails \/ Step => pc # "idle" /\ trouble \subseteq trouble'
    BY DEF AcquireFails, Step, Enable, ChipSelectLow, ClockByte, ChipSelectHigh, PollAgain,
           PollGivesUp, Disable, EndsFrame
  <2>3. FlashDone \/ UNCHANGED vars => pc # "idle" /\ trouble \subseteq trouble'
    BY DEF FlashDone, vars, tool, Own
  <2> QED
    BY <2>1, <2>2, <2>3
<1> QED
  BY <1>1, <1>2 DEF Next, Calls, Own

LEMMA AutoStep == BaseInv /\ AutoInv /\ [Next]_vars => AutoInv'
<1> SUFFICES ASSUME BaseInv, AutoInv, [Next]_vars, Own' PROVE AutoInv'
  BY DEF AutoInv
<1>0. /\ TypeInv /\ OpOK(call) /\ Left \in Nat
      /\ call.n \in Nat /\ call.at \in Int
  BY SizeFacts DEF BaseInv, CallInv, OpOK, Left, TypeInv, ToolType, Address
<1>1. CASE StartRun
  <2>1. auto = NoAuto /\ ~IsAuto(line) /\ UNCHANGED <<auto, chip, line>>
    BY <1>1 DEF StartRun, Own, flashChip, lines
  <2> QED
    BY <2>1 DEF AutoInv, IsAuto
<1>2. CASE Own /\ (Calls \/ AcquireFails)
  <2>1. pc \in {"ready", "enable"} /\ UNCHANGED <<auto, chip, line>>
    BY <1>2, Begun DEF AcquireFails, flashChip, lines
  <2>2. auto = NoAuto /\ ~IsAuto(line)
    BY <1>2, <2>1 DEF AutoInv, Sending
  <2> QED
    BY <2>1, <2>2 DEF AutoInv, IsAuto
<1>3. CASE Own /\ Enable
  BY <1>3, EnablePlain DEF AutoInv, Enable
<1>4. CASE Own /\ ChipSelectLow
  <2>1. UNCHANGED <<auto, busy, chip, granted, call, todo>> /\ pc = "frame" /\ pc' = "bytes"
    BY <1>4 DEF ChipSelectLow, flashChip
  <2> QED
    BY <1>4, <2>1 DEF AutoInv, Sending, Left
<1>5. CASE Own /\ ClockByte
  <2>1. UNCHANGED <<auto, busy, chip, granted, call, todo>> /\ pc = "bytes" /\ pc' = "bytes"
    BY <1>5, Clocked DEF flashChip
  <2> QED
    BY <1>5, <2>1 DEF AutoInv, Sending, Left
<1>6. ASSUME Own, EndsFrame, ChipSelectRises, UNCHANGED granted, call.op # "sstProgram", pc' = "frame"
      PROVE  AutoInv'
  BY <1>6, EndPlain DEF AutoInv
<1>7. CASE Own /\ ChipSelectHigh /\ call.op = "sstProgram"
  <2>1. /\ EndsFrame /\ ChipSelectRises /\ UNCHANGED <<granted, call>> /\ pc = "bytes" /\ pc' = "frame"
        /\ todo' = Tail(todo)
    BY <1>7 DEF ChipSelectHigh, EndsFrame
  <2>2. Left > 0 /\ Left' = Left - 1
    BY <2>1, Current DEF Left
  <2>3. /\ UNCHANGED <<protect, chip>>
        /\ IF granted /\ busy = <<>> THEN Obey(todo[1]) ELSE UNCHANGED <<mem, wel, auto, busy>>
    BY <1>7, <2>1, EndRises
  <2>4. CASE ~(granted /\ busy = <<>>)
    <3>1. auto' = NoAuto
      BY <1>7, <2>3, <2>4 DEF AutoInv
    <3> QED
      BY <2>1, <3>1 DEF AutoInv
  <2>5. CASE granted /\ busy = <<>>
    <3>1. Obey(todo[1])
      BY <2>3, <2>5
    <3>2. /\ Left \in (call.n + 2)..(call.n + 3) => UNCHANGED auto /\ auto = NoAuto
          /\ Left = call.n + 1 =>
               auto = NoAuto /\ (UNCHANGED auto \/ (chip = "sst" /\ auto' = (call.at + 1) % Words))
          /\ Left \in 2..call.n =>
               LET a == call.at + call.n + 1 - Left IN
               IF auto # NoAuto THEN auto' = (a + 1) % Words ELSE auto' = auto
          /\ Left = 1 => auto' = NoAuto
          /\ busy' = <<>> /\ Left \in 1..(call.n + 3)
      <4>1. /\ Left \in (call.n + 2)..(call.n + 3) => UNCHANGED <<mem, auto>> /\ wel' = "all" /\ auto = NoAuto
            /\ Left = 1 => UNCHANGED mem /\ auto' = NoAuto
            /\ busy' = <<>> /\ Left \in 1..(call.n + 3)
        BY <1>7, <2>1, <2>5, <3>1, AutoSent
      <4>2. Left = call.n + 1 =>
               auto = NoAuto /\ (UNCHANGED auto \/ (chip = "sst" /\ auto' = (call.at + 1) % Words))
        BY <1>7, <2>1, <2>5, <3>1, AutoSent
      <4>3. Left \in 2..call.n =>
               LET a == call.at + call.n + 1 - Left IN
               IF auto # NoAuto THEN auto' = (a + 1) % Words ELSE auto' = auto
        BY <1>7, <2>1, <2>5, <3>1, AutoSent
      <4> QED
        BY <4>1, <4>2, <4>3
    <3>3. auto # NoAuto => chip = "sst" /\ Left \in 1..call.n
      BY <1>7 DEF AutoInv
    <3>4. auto' # NoAuto =>
            /\ Left' \in 1..call.n /\ chip = "sst"
            /\ auto' = (call.at + call.n + 1 - Left') % Words
      <4>1. CASE Left = call.n + 1
        <5>1. call.at + call.n + 1 - Left' = call.at + 1 /\ (auto' # NoAuto => call.n > 0)
          BY <1>0, <1>7, <2>2, <4>1, BurstFits
        <5> QED
          BY <1>0, <2>2, <3>2, <4>1, <5>1
      <4>2. CASE Left \in 2..call.n
        <5>1. call.at + call.n + 1 - Left' = (call.at + call.n + 1 - Left) + 1
              /\ Left' \in 1..call.n
          BY <1>0, <2>2, <4>2
        <5> QED
          BY <3>2, <3>3, <4>2, <5>1
      <4>3. CASE Left = 1 \/ Left \in (call.n + 2)..(call.n + 3)
        BY <3>2, <4>3
      <4> QED
        BY <1>0, <3>2, <4>1, <4>2, <4>3
    <3> QED
      BY <1>7, <2>1, <2>3, <2>5, <3>2, <3>4 DEF AutoInv, Sending
  <2> QED
    BY <2>4, <2>5
<1>8. CASE Own /\ ChipSelectHigh /\ call.op # "sstProgram"
  BY <1>6, <1>8 DEF ChipSelectHigh
<1>9. CASE Own /\ (PollAgain \/ PollGivesUp)
  <2>1. /\ EndsFrame /\ ChipSelectRises /\ UNCHANGED granted /\ IsPoll /\ pc = "bytes" /\ pc' = "frame"
    BY <1>9 DEF PollAgain, PollGivesUp, EndsFrame
  <2>2. todo[1] = Poll
    BY <2>1, Current DEF IsPoll
  <2>3. call.op # "sstProgram"
    BY <1>0, <2>1, <2>2, Current, KindsSent DEF BaseInv, CallInv
  <2> QED
    BY <1>6, <1>9, <2>1, <2>3
<1>10. CASE Own /\ Disable
  <2>1. pc = "frame" /\ Left = 0 /\ UNCHANGED <<auto, chip, line>> /\ pc' \in {"ready", "enable"}
    BY <1>10, Disabled DEF flashChip
  <2>2. auto = NoAuto /\ line = <<>>
    BY <1>10, <2>1 DEF AutoInv, BaseInv, LinesInv
  <2> QED
    BY <2>1, <2>2 DEF AutoInv, IsAuto
<1>11. CASE Own /\ FlashDone
  <2>1. busy # <<>> /\ UNCHANGED <<auto, chip, line, pc>>
    BY <1>11 DEF FlashDone, lines, tool
  <2>2. auto = NoAuto
    BY <1>11, <2>1 DEF AutoInv
  <2> QED
    BY <1>11, <2>1, <2>2 DEF AutoInv, IsAuto
<1>12. CASE Own /\ UNCHANGED vars
  BY <1>12 DEF vars, flashChip, lines, tool, AutoInv, Sending, Left, IsAuto
<1> QED
  BY <1>1, <1>2, <1>3, <1>4, <1>5, <1>7, <1>8, <1>9, <1>10, <1>11, <1>12, OwnSteps DEF Step

-----------------------------------------------------------------------------
(* Words get their own values.                                              *)

Flow == BaseInv /\ GoodInv /\ AutoInv

LEMMA FlowInit == Init => Flow
  BY BaseInit, NothingGood DEF Init, Flow, GoodInv, GoodBusy, AutoInv, Own

LEMMA FlowStep == Flow /\ [Next]_vars => Flow'
  BY BaseStep, GoodStep, AutoStep DEF Flow

LEMMA FlowInvariant == Spec => []Flow
  BY FlowInit, FlowStep, PTL DEF Spec

(* TypeOK, for flashes and pages of any size: also the bytes that the lines *)
(* and the flash hold stay bytes, and a poll is never read too often.       *)
THEOREM TypeCorrect == Spec => []TypeOK
<1>1. Flow => TypeOK
  <2> SUFFICES ASSUME Flow PROVE TypeOK
    OBVIOUS
  <2>1. FlashType /\ LinesType /\ ToolType /\ LinesInv
    BY DEF Flow, BaseInv, TypeInv
  <2>2. /\ DOMAIN mem = Address /\ {protect, granted, cut} \subseteq BOOLEAN
        /\ wel \in {"off", "status", "all"} /\ auto \in Address \cup {NoAuto}
    BY <2>1 DEF FlashType, LinesType
  <2>3. /\ cs \in {"low", "high"} /\ (cs = "high" => line = <<>> /\ ~cut)
        /\ (pc = "frame" => cs = "high")
    BY <2>1 DEF LinesType, LinesInv
  <2>4. /\ id \in {"none", "sst", "other"} /\ pc \in {"idle", "ready", "enable", "frame", "bytes"}
        /\ runs \in 0..MaxRuns /\ calls \in 0..MaxCalls /\ polls \in 0..(MaxPolls - 1)
        /\ trouble \subseteq {"leftBusy", "leftAuto", "refused", "gaveUp"}
    BY <2>1 DEF ToolType
  <2> QED
    BY <2>2, <2>3, <2>4 DEF TypeOK
<1> QED
  BY <1>1, FlowInvariant, PTL

LEMMA CarriedInPlace ==
  ASSUME TypeInv, GoodInv, busy # <<>>, NEW x \in Address
  PROVE  Carried(busy)[x] \subseteq mem[x] \cup {DataByte(x)}
<1>1. busy \in Seq(Bytes) /\ Len(busy) \in Nat /\ \A i \in 1..Len(busy) : busy[i] \in Bytes
  <2>1. busy \in Seq(Bytes)
    BY DEF TypeInv, FlashType, Frames
  <2> QED
    BY <2>1, Elements, Zenon
<1>2. CASE busy[1].kind = "erase"
  BY <1>2 DEF Carried, Erased
<1>3. CASE busy[1].kind = "sectorErase"
  BY <1>3 DEF Carried
<1>4. CASE busy[1].kind = "program"
  <2> DEFINE a == busy[2].at
             At(i) == PageStart(a) + ((a - PageStart(a) + i - 3) % PageWords)
  <2>1. a \in Address
    <3>1. Len(busy) > 1
      BY <1>4 DEF GoodInv, GoodBusy
    <3>2. busy[2] \in Bytes
      BY <1>1, <3>1
    <3> QED
      BY <3>2 DEF Bytes
  <2>2. ASSUME NEW i \in 3..Len(busy) PROVE At(i) = a + i - 3 /\ busy[i] = DataByte(a + i - 3)
    <3>1. a + i - 3 \in Page(a) /\ busy[i] = DataByte(a + i - 3)
      BY <1>4 DEF GoodInv, GoodFrame
    <3>2. i - 3 \in Nat /\ a \in Int /\ a + (i - 3) = a + i - 3 /\ PageStart(a) \in Int
          /\ a - PageStart(a) + (i - 3) = a - PageStart(a) + i - 3
      BY <1>1, <2>1, PageFacts, SizeFacts DEF Address
    <3>3. PageStart(a) + ((a - PageStart(a) + (i - 3)) % PageWords) = a + (i - 3)
      BY <2>1, <3>1, <3>2, InPage
    <3> QED
      BY <3>1, <3>2, <3>3
  <2> HIDE DEF a
  <2>3. Carried(busy)[x] = mem[x] \cup {busy[i] : i \in {k \in 3..Len(busy) : At(k) = x}}
    BY <1>4 DEF Carried, Programmed, a
  <2> HIDE DEF At
  <2>4. \A i \in {k \in 3..Len(busy) : At(k) = x} : busy[i] = DataByte(x)
    BY <2>2
  <2> QED
    BY <2>3, <2>4
<1>5. CASE busy[1].kind \notin {"erase", "sectorErase", "program"}
  BY <1>5 DEF Carried
<1> QED
  BY <1>2, <1>3, <1>4, <1>5

LEMMA SetAt ==
  ASSUME NEW a \in Address, mem \in [Address -> SUBSET Bytes],
         NEW f, f = [mem EXCEPT ![a] = @ \cup {DataByte(a)}], NEW x \in Address
  PROVE  f[x] \subseteq mem[x] \cup {DataByte(x)}
  OBVIOUS

(* ValuesInPlace, for flashes and pages of any size: what reaches the flash *)
(* is a first part of one frame, because the chip select is raised before   *)
(* the next is sent (Enable_Serial_Flash_Bit_Interface), so it never takes  *)
(* a word's value for another's, unless a dead run left SST's flash         *)
(* programming.                                                             *)
THEOREM InPlace == Spec => ValuesInPlace
<1>1. Flow /\ [Next]_vars =>
        [\A a \in Address : mem'[a] \subseteq mem[a] \cup {DataByte(a)} \/ "leftAuto" \in trouble]_mem
  <2> SUFFICES ASSUME Flow, [Next]_vars, mem' # mem, "leftAuto" \notin trouble, NEW x \in Address
               PROVE  mem'[x] \subseteq mem[x] \cup {DataByte(x)}
    OBVIOUS
  <2>0. BaseInv /\ GoodInv /\ AutoInv /\ TypeInv /\ mem \in [Address -> SUBSET Bytes]
    BY DEF Flow, BaseInv, TypeInv, FlashType
  <2>1. CASE FlashDone \/ PowerLoss
    <3>1. busy # <<>> /\ mem' = Carried(busy)
      BY <2>1 DEF FlashDone, PowerLoss
    <3> QED
      BY <2>0, <3>1, CarriedInPlace
  <2>2. CASE Enable
    <3>1. Own
      BY <2>2 DEF Enable, Own
    <3> QED
      BY <2>0, <2>2, <3>1, EnablePlain
  <2>3. CASE ChipSelectHigh \/ PollAgain \/ PollGivesUp
    <3>1. EndsFrame /\ ChipSelectRises /\ UNCHANGED granted /\ Own /\ pc = "bytes"
      BY <2>3 DEF ChipSelectHigh, PollAgain, PollGivesUp, EndsFrame, Own
    <3>2. call.op = "sstProgram"
      BY <2>0, <3>1, EndPlain
    <3>3. granted /\ busy = <<>> /\ Obey(todo[1])
      BY <2>0, <3>1, EndRises
    <3>4. /\ Left \in (call.n + 2)..(call.n + 3) => UNCHANGED mem
          /\ Left = 1 => UNCHANGED mem
          /\ Left \in 1..(call.n + 3)
      BY <2>0, <3>1, <3>2, <3>3, AutoSent
    <3>5. Left = call.n + 1 => \/ UNCHANGED mem
                               \/ mem' = [mem EXCEPT ![call.at] = @ \cup {DataByte(call.at)}]
      BY <2>0, <3>1, <3>2, <3>3, AutoSent
    <3>6. Left \in 2..call.n =>
            \/ UNCHANGED mem
            \/ \E a \in Address : mem' = [mem EXCEPT ![a] = @ \cup {DataByte(a)}]
      BY <2>0, <3>1, <3>2, <3>3, AutoSent
    <3>7. Left \in Nat /\ call.n \in Nat /\ call.at \in Address
      BY <2>0, SizeFacts DEF BaseInv, CallInv, OpOK, TypeInv, ToolType, Left
    <3>8. PICK a \in Address : mem' = [mem EXCEPT ![a] = @ \cup {DataByte(a)}]
      BY <3>4, <3>5, <3>6, <3>7
    <3> QED
      BY <2>0, <3>8, SetAt
  <2>4. StartRun \/ EndRun \/ Calls \/ AcquireFails \/ ChipSelectLow \/ ClockByte \/ Disable \/ Kill
        \/ UNCHANGED vars => UNCHANGED mem
    BY <2>0, Begun, Disabled
       DEF StartRun, EndRun, AcquireFails, ChipSelectLow, ClockByte, Kill, flashChip, vars
  <2> QED
    BY <2>1, <2>2, <2>3, <2>4 DEF Next, Step, Calls
<1> QED
  BY <1>1, FlowInvariant, PTL DEF Spec, ValuesInPlace

-----------------------------------------------------------------------------
(* A run whose lines reach the flash: the flash obeys each frame, unless it *)
(* is busy.                                                                 *)

Hears == Own /\ "refused" \notin trouble

LEMMA HearsSteps ==
  ASSUME [Next]_vars, Hears'
  PROVE  \/ StartRun
         \/ /\ Hears /\ trouble \subseteq trouble'
            /\ Calls \/ AcquireFails \/ Step \/ FlashDone \/ UNCHANGED vars
  BY OwnSteps DEF Hears

LEMMA HeardEnable ==
  ASSUME Flow, Hears, Hears', Enable
  PROVE  /\ UNCHANGED <<protect, chip, call, id, command>> /\ pc = "enable" /\ pc' = "frame"
         /\ Left' = Count(call)
         /\ \/ busy = <<>> /\ Obey(line)
            \/ UNCHANGED <<mem, wel, auto, busy>>
<1>1. /\ pc = "enable" /\ pc' = "frame" /\ UNCHANGED <<call, id, command>> /\ todo' = FramesOf(call)
  BY DEF Enable
<1>2. /\ UNCHANGED <<protect, chip>>
      /\ \/ busy = <<>> /\ Obey(line)
         \/ UNCHANGED <<mem, wel, auto, busy>>
  BY EnableRises DEF Flow, Hears
<1>3. OpOK(call) /\ call.op # "none" /\ id \in {"none", "sst", "other"}
  BY <1>1 DEF Flow, BaseInv, CallInv, TypeInv, ToolType
<1>4. Len(FramesOf(call)) = Count(call)
  BY <1>3, CallFrames
<1> QED
  BY <1>1, <1>2, <1>4 DEF Left

(* The end of a frame f of a run that is heard.                             *)
LEMMA HeardEnd ==
  ASSUME Flow, Hears, EndsFrame, ChipSelectRises, UNCHANGED granted
  PROVE  /\ UNCHANGED <<protect, chip>> /\ pc = "bytes" /\ sent = Len(todo[1])
         /\ todo[1] \in Frames /\ IsFrame(call, id, Left, todo[1]) /\ Left \in Nat /\ Left > 0
         /\ OpOK(call) /\ call.op # "none"
         /\ Head(todo) = todo[1] /\ granted
         /\ todo' = Tail(todo) => Left' = Left - 1
         /\ \/ busy = <<>> /\ Obey(todo[1])
            \/ busy # <<>> /\ UNCHANGED <<mem, wel, auto, busy>>
<1>1. pc = "bytes" /\ sent = Len(todo[1])
  BY FrameEnds DEF Flow
<1>2. granted
  BY <1>1 DEF Flow, BaseInv, LinesInv, Hears, Sending
<1>3. /\ UNCHANGED <<protect, chip>>
      /\ IF granted /\ busy = <<>> THEN Obey(todo[1]) ELSE UNCHANGED <<mem, wel, auto, busy>>
  BY EndRises DEF Flow, Hears
<1>4. /\ todo[1] \in Frames /\ IsFrame(call, id, Left, todo[1]) /\ Left \in Nat /\ Left > 0
      /\ Head(todo) = todo[1] /\ Len(Tail(todo)) = Left - 1
  BY <1>1, Current DEF Flow
<1>5. OpOK(call) /\ call.op # "none"
  BY <1>1 DEF Flow, BaseInv, CallInv
<1>6. todo' = Tail(todo) => Left' = Left - 1
  BY <1>4 DEF Left
<1> QED
  BY <1>1, <1>2, <1>3, <1>4, <1>5, <1>6

(* While a frame is sent nothing of the flash changes.                      *)
LEMMA Sends ==
  ASSUME Flow, ChipSelectLow \/ ClockByte
  PROVE  /\ UNCHANGED <<mem, protect, chip, wel, auto, busy>>
         /\ UNCHANGED <<command, todo, id, call, trouble>> /\ Left' = Left
         /\ Sending /\ pc' = "bytes" /\ Left > 0
<1>1. CASE ChipSelectLow
  BY <1>1 DEF ChipSelectLow, flashChip, Left, Sending, Flow, BaseInv, TypeInv, ToolType
<1>2. CASE ClockByte
  <2>1. pc = "bytes" /\ UNCHANGED flashChip /\ UNCHANGED <<pc, command, todo, id, call, trouble>>
    BY <1>2, Clocked DEF Flow
  <2> QED
    BY <2>1, Current DEF Flow, flashChip, Left, Sending
<1> QED
  BY <1>1, <1>2

LEMMA SameVars ==
  ASSUME UNCHANGED vars
  PROVE  /\ UNCHANGED <<mem, protect, chip, wel, auto, busy, granted, cs, line, cut>>
         /\ UNCHANGED <<pc, command, todo, next, sent, seen, id, call, trouble>> /\ Left' = Left
  BY DEF vars, flashChip, lines, tool, Left

-----------------------------------------------------------------------------
(* FlashDetectAndSetWritable has cleared the protection, or the flash is    *)
(* still at it, once it is done: it knew whose flash it is, or it was that  *)
(* the flash was writing its status register.                               *)

ProtOK == protect => busy # <<>>
DetectInv ==
  Hears =>
  /\ call.op = "identify" /\ Sending =>
       /\ pc = "bytes" /\ sent = 2 => seen = "true" \/ ProtOK
       /\ Left = 0 => id = chip \/ ProtOK
  /\ call.op = "writable" =>
       /\ id = chip \/ ProtOK
       /\ Sending /\ Left <= 1 => wel # "off" \/ ProtOK
       /\ (Sending /\ Left = 0) \/ pc = "ready" => ProtOK
  /\ command # "dump" /\ call.op \notin {"none", "identify", "writable"} => ProtOK

LEMMA ProtKept ==
  ASSUME Flow, ProtOK \/ FlashDone,
         Calls \/ AcquireFails \/ Step \/ FlashDone \/ UNCHANGED vars
  PROVE  ProtOK'
<1>1. CASE FlashDone
  <2>1. protect => busy[1].kind = "wrsr"
    BY <1>1 DEF FlashDone, Flow, GoodInv, GoodBusy
  <2>2. ~protect'
    BY <1>1, <2>1 DEF FlashDone
  <2> QED
    BY <2>2 DEF ProtOK
<1>2. CASE ProtOK /\ ChipSelectRises
  <2>1. UNCHANGED protect /\ (busy = <<>> \/ UNCHANGED busy)
    BY <1>2, Rises DEF Flow, BaseInv
  <2> QED
    BY <1>2, <2>1 DEF ProtOK
<1>3. CASE ProtOK /\ UNCHANGED <<protect, busy>>
  BY <1>3 DEF ProtOK
<1>4. Enable \/ ChipSelectHigh \/ PollAgain \/ PollGivesUp => ChipSelectRises
  BY DEF Enable, ChipSelectHigh, PollAgain, PollGivesUp
<1>5. Calls \/ AcquireFails \/ ChipSelectLow \/ ClockByte \/ Disable \/ UNCHANGED vars
        => UNCHANGED <<protect, busy>>
  BY Begun, Disabled, Sends, SameVars DEF Flow, AcquireFails, flashChip
<1> QED
  BY <1>1, <1>2, <1>3, <1>4, <1>5 DEF Step

(* What the tool reads from a flash that listens and is not busy.           *)
LEMMA Told ==
  ASSUME Flow, Hears, ClockByte, busy = <<>>, auto = NoAuto, todo[1] # Poll,
         todo[1][sent + 1] = In
  PROVE  seen' = "true"
<1>1. pc = "bytes" /\ Head(todo) = todo[1] /\ line = IF granted THEN SubSeq(todo[1], 1, sent) ELSE <<>>
  BY Clocked DEF Flow
<1>2. granted /\ ~cut
  BY <1>1 DEF Flow, BaseInv, LinesInv, Hears, Sending
<1>3. seen' \in Answers
  BY <1>1 DEF ClockByte
<1>4. Answers = {"true"}
  BY <1>1, <1>2 DEF Answers
<1> QED
  BY <1>3, <1>4

LEMMA DetectStep == Flow /\ DetectInv /\ [Next]_vars => DetectInv'
<1> SUFFICES ASSUME Flow, DetectInv, [Next]_vars, Hears' PROVE DetectInv'
  BY DEF DetectInv
<1>0. BaseInv /\ CallInv /\ OpOK(call) /\ id \in {"none", "sst", "other"} /\ chip \in {"sst", "other"}
  BY DEF Flow, BaseInv, CallInv, TypeInv, ToolType, FlashType
<1>1. CASE StartRun
  <2>1. call'.op = "none" /\ pc' = "ready"
    BY <1>0, <1>1 DEF StartRun, CallInv
  <2> QED
    BY <2>1 DEF DetectInv
<1> SUFFICES ASSUME Hears, Calls \/ AcquireFails \/ Step \/ FlashDone \/ UNCHANGED vars
             PROVE  DetectInv'
  BY <1>1, HearsSteps
<1>2. ProtOK' => DetectInv'
  BY DEF DetectInv
<1> SUFFICES ASSUME ~ProtOK, ~FlashDone PROVE DetectInv'
  BY <1>2, ProtKept
<1>3. /\ protect /\ busy = <<>>
      /\ call.op = "identify" /\ Sending =>
           (pc = "bytes" /\ sent = 2 => seen = "true") /\ (Left = 0 => id = chip)
      /\ call.op = "writable" =>
           /\ id = chip /\ (Sending /\ Left <= 1 => wel # "off")
           /\ pc # "ready" /\ (Sending => Left # 0)
      /\ command = "dump" \/ call.op \in {"none", "identify", "writable"}
  BY DEF DetectInv, ProtOK
<1>4. CASE Calls
  <2>1. pc = "ready" /\ pc' = "enable" /\ command' = command
    BY <1>0, <1>4, Begun
  <2>2. call.op = "none" \/ command = "dump"
    BY <1>0, <1>3, <2>1 DEF CallInv
  <2>3. ~Erases /\ ~Programs
    BY <1>3, <2>1, <2>2 DEF Erases, Programs, AfterErase
  <2>4. CASE Detects
    <3>1. call'.op = "identify"
      BY <2>4, Ops DEF Detects
    <3> QED
      BY <2>1, <3>1 DEF DetectInv, Sending
  <2>5. CASE Reads
    <3>1. call'.op = "read" /\ command = "dump"
      BY <1>3, <2>2, <2>5, Ops DEF Reads, AfterErase
    <3> QED
      BY <2>1, <3>1 DEF DetectInv
  <2> QED
    BY <1>0, <1>4, <2>3, <2>4, <2>5, Begun
<1>5. CASE AcquireFails
  <2>1. call.op \notin {"identify", "writable"} /\ call.op # "none" /\ command' = command
        /\ call' = [call EXCEPT !.status = "FAIL"]
    BY <1>0, <1>5 DEF AcquireFails, Return, CallInv
  <2>2. call'.op = call.op
    BY <1>0, <2>1 DEF OpOK
  <2> QED
    BY <1>3, <2>1, <2>2 DEF DetectInv
<1>6. CASE Enable
  <2>1. /\ UNCHANGED <<protect, chip, call, id, command>> /\ pc' = "frame" /\ Left' = Count(call)
    BY <1>6, HeardEnable
  <2>2. /\ call.op = "identify" => Left' = 1
        /\ call.op = "writable" => Left' = 2
    BY <2>1 DEF Count
  <2> QED
    BY <1>3, <2>1, <2>2 DEF DetectInv
<1>7. CASE ChipSelectLow
  <2>1. /\ UNCHANGED <<wel, chip, command, id, call>> /\ Left' = Left /\ Sending /\ Left > 0
        /\ pc' = "bytes" /\ sent' = 0
    BY <1>7, Sends DEF ChipSelectLow
  <2> QED
    BY <1>3, <2>1 DEF DetectInv
<1>8. CASE ClockByte
  <2>1. /\ UNCHANGED <<wel, chip, command, id, call>> /\ Left' = Left /\ Sending /\ Left > 0
        /\ pc' = "bytes"
    BY <1>8, Sends
  <2>2. call.op = "identify" /\ sent' = 2 => seen' = "true"
    <3> SUFFICES ASSUME call.op = "identify", sent' = 2 PROVE seen' = "true"
      OBVIOUS
    <3>1. pc = "bytes" /\ sent + 1 = 2
      BY <1>0, <1>8, Clocked
    <3>2. todo[1] = <<Byte("rdid"), In>>
      BY <1>0, <3>1, Current DEF IsFrame
    <3>3. todo[1] # Poll /\ todo[1][2] = In
      BY <3>2 DEF Poll, Byte
    <3>4. auto = NoAuto
      BY DEF Flow, AutoInv, Hears
    <3> QED
      BY <1>3, <1>8, <3>1, <3>3, <3>4, Told
  <2> QED
    BY <1>3, <2>1, <2>2 DEF DetectInv
<1>9. CASE ChipSelectHigh
  <2>1. /\ EndsFrame /\ ChipSelectRises /\ UNCHANGED <<granted, command, call>> /\ todo' = Tail(todo)
        /\ pc' = "frame" /\ UNCHANGED seen
        /\ id' \in IF call.op = "identify" THEN Identified ELSE {id}
    BY <1>9 DEF ChipSelectHigh
  <2>2. /\ UNCHANGED <<protect, chip>> /\ pc = "bytes" /\ sent = Len(todo[1])
        /\ todo[1] \in Frames /\ IsFrame(call, id, Left, todo[1]) /\ Left \in Nat /\ Left > 0
        /\ Left' = Left - 1 /\ Obey(todo[1])
    BY <1>3, <2>1, HeardEnd
  <2>3. CASE call.op = "identify"
    <3>1. todo[1] = <<Byte("rdid"), In>>
      BY <2>2, <2>3 DEF IsFrame
    <3>2. sent = 2
      BY <2>2, <3>1
    <3>3. seen = "true"
      BY <1>3, <2>2, <2>3, <3>2 DEF Sending
    <3>4. id' = chip
      BY <2>1, <2>3, <3>3 DEF Identified
    <3> QED
      BY <2>1, <2>2, <2>3, <3>4 DEF DetectInv
  <2>4. CASE call.op = "writable"
    <3>0. id' = id /\ id = chip
      BY <1>3, <2>1, <2>4
    <3>1. CASE Left = 2
      <4>1. todo[1] = <<Byte(IF id = "sst" THEN "ewsr" ELSE "wren")>>
        BY <2>2, <2>4, <3>1 DEF IsFrame
      <4>2. wel' # "off"
        <5>1. CASE id = "sst"
          <6>1. todo[1] = <<Byte("ewsr")>>
            BY <4>1, <5>1
          <6> QED
            BY <2>2, <3>0, <5>1, <6>1, Obeyed
        <5>2. CASE id # "sst"
          <6>1. todo[1] = <<Byte("wren")>>
            BY <4>1, <5>2
          <6> QED
            BY <2>2, <6>1, Obeyed
        <5> QED
          BY <5>1, <5>2
      <4> QED
        BY <2>1, <2>2, <2>4, <3>0, <3>1, <4>2 DEF DetectInv
    <3>2. CASE Left = 1
      <4>1. todo[1] = <<Byte("wrsr"), Byte("value")>> /\ wel # "off"
        BY <1>3, <2>2, <2>4, <3>2 DEF IsFrame, Sending
      <4>2. todo[1] # <<>> /\ todo[1][1].kind = "wrsr" /\ Starts(todo[1])
        BY <4>1 DEF Starts, Byte
      <4>3. busy' = todo[1]
        BY <2>2, <4>2, Obeyed
      <4> QED
        BY <1>2, <4>2, <4>3 DEF ProtOK
    <3> QED
      BY <2>2, <2>4, <3>1, <3>2 DEF IsFrame
  <2>5. CASE call.op \notin {"identify", "writable"}
    BY <1>3, <2>1, <2>5 DEF DetectInv
  <2> QED
    BY <2>3, <2>4, <2>5
<1>10. CASE PollAgain \/ PollGivesUp
  <2>1. EndsFrame /\ ChipSelectRises /\ UNCHANGED granted /\ IsPoll
    BY <1>10 DEF PollAgain, PollGivesUp
  <2>2. /\ IsFrame(call, id, Left, todo[1]) /\ call.op # "none" /\ todo[1] = Poll
    BY <2>1, HeardEnd DEF IsPoll
  <2>3. call.op \notin {"identify", "writable", "read", "sstProgram"}
    BY <1>0, <2>2, KindsSent
  <2> QED
    BY <1>0, <1>3, <2>2, <2>3 DEF CallInv
<1>11. CASE Disable
  <2>1. pc = "frame" /\ Left = 0 /\ UNCHANGED <<chip, command, id>> /\ call.op # "writable"
    BY <1>0, <1>3, <1>11, Disabled DEF flashChip, Sending
  <2>2. CASE call.op = "identify"
    <3>1. call'.op = "writable" /\ pc' = "enable" /\ id = chip
      BY <1>0, <1>3, <1>11, <2>1, <2>2, Disabled DEF Writable, Op, Sending
    <3> QED
      BY <2>1, <3>1 DEF DetectInv, Sending
  <2>3. CASE call.op # "identify"
    <3>1. call' = call
      BY <1>0, <1>11, <2>1, <2>3, Disabled
    <3> QED
      BY <1>3, <2>1, <2>3, <3>1 DEF DetectInv
  <2> QED
    BY <2>2, <2>3
<1>12. CASE UNCHANGED vars
  BY <1>12, SameVars DEF DetectInv, Sending, ProtOK, Hears, Own
<1> QED
  BY <1>4, <1>5, <1>6, <1>7, <1>8, <1>9, <1>10, <1>11, <1>12 DEF Step

(* A poll that read that the flash is ready: it is, and stays so.           *)
PollInv ==
  Hears /\ pc = "bytes" /\ todo[1] = Poll /\ seen = "ready" => sent = 2 /\ busy = <<>>

LEMMA PollStep == Flow /\ PollInv /\ [Next]_vars => PollInv'
<1> SUFFICES ASSUME Flow, PollInv, [Next]_vars, Hears', pc' = "bytes", todo'[1] = Poll, seen' = "ready"
             PROVE  sent' = 2 /\ busy' = <<>>
  BY DEF PollInv
<1>1. \/ Hears /\ (Calls \/ AcquireFails \/ Step \/ FlashDone \/ UNCHANGED vars)
  BY HearsSteps DEF StartRun
<1>2. CASE ClockByte
  <2>1. /\ pc = "bytes" /\ sent \in Nat /\ sent' = sent + 1 /\ sent < Len(todo[1])
        /\ UNCHANGED <<flashChip, todo>> /\ Head(todo) = todo[1]
        /\ line = IF granted THEN SubSeq(todo[1], 1, sent) ELSE <<>>
    BY <1>2, Clocked DEF Flow
  <2>2. todo[1] = Poll /\ Len(todo[1]) = 2
    BY <2>1, FrameTypes
  <2>3. seen # "ready"
    BY <1>1, <2>1, <2>2 DEF PollInv
  <2>4. seen' \in Answers /\ todo[1][sent + 1] = In
    BY <1>2, <2>1, <2>3 DEF ClockByte
  <2>5. sent = 1
    <3>1. Poll[1] # In
      BY DEF Poll, In, Byte
    <3> QED
      BY <2>1, <2>2, <2>4, <3>1
  <2>6. granted /\ ~cut
    BY <1>1, <2>1 DEF Flow, BaseInv, LinesInv, Hears, Sending
  <2>7. Answers = {IF busy # <<>> THEN "busy" ELSE "ready"}
    BY <2>1, <2>2, <2>6 DEF Answers
  <2> QED
    BY <2>1, <2>4, <2>5, <2>7 DEF flashChip
<1>3. ~ChipSelectLow
  BY DEF ChipSelectLow
<1>4. CASE FlashDone
  BY <1>1, <1>4 DEF FlashDone, tool, PollInv
<1>5. CASE UNCHANGED vars
  BY <1>1, <1>5, SameVars DEF PollInv
<1>6. ~(Calls \/ AcquireFails \/ Enable \/ ChipSelectHigh \/ PollAgain \/ PollGivesUp \/ Disable)
  BY Begun, Disabled DEF Flow, AcquireFails, Return, Enable, ChipSelectHigh, PollAgain, PollGivesUp
<1> QED
  BY <1>1, <1>2, <1>3, <1>4, <1>5, <1>6 DEF Step

-----------------------------------------------------------------------------
(* An erase: the flash is awaited, then the frame falls on a flash that is  *)
(* free, enabled and unprotected, and its end is awaited.                   *)

Blanked == IF call.op = "eraseNvm" THEN mem = Erased ELSE \A a \in Page(call.at) : mem[a] = {}
Erasing == call.op \in {"eraseNvm", "sectorErase"} /\ call.status = "SUCCESS"
EraseInv ==
  Hears /\ Erasing =>
  /\ Sending => /\ Left < 6 /\ Left # 2 => busy = <<>>
                /\ Left = 3 => wel = "all"
                /\ Left = 2 => busy = EraseFrame(call) \/ (busy = <<>> /\ Blanked)
                /\ Left < 2 => Blanked
  /\ pc = "ready" => busy = <<>> /\ Blanked

LEMMA EraseStep == Flow /\ DetectInv /\ PollInv /\ EraseInv /\ [Next]_vars => EraseInv'
<1> SUFFICES ASSUME Flow, DetectInv, PollInv, EraseInv, [Next]_vars, Hears', Erasing'
             PROVE  EraseInv'
  BY DEF EraseInv
<1>0. BaseInv /\ CallInv /\ OpOK(call) /\ Left \in Nat
  BY DEF Flow, BaseInv, CallInv, TypeInv, ToolType, Left
<1>1. ~StartRun
  BY <1>0 DEF StartRun, CallInv, Erasing
<1>2. Hears /\ (Calls \/ AcquireFails \/ Step \/ FlashDone \/ UNCHANGED vars)
  BY <1>1, HearsSteps
<1>3. CASE Calls
  <2>1. pc' = "enable"
    BY <1>0, <1>3, Begun
  <2> QED
    BY <2>1 DEF EraseInv, Sending
<1>4. CASE AcquireFails
  BY <1>0, <1>4 DEF AcquireFails, Return, Erasing, OpOK
<1>5. CASE Enable
  <2>1. UNCHANGED call /\ pc' = "frame" /\ Left' = Count(call)
    BY <1>2, <1>5, HeardEnable
  <2>2. Left' = 6
    BY <2>1 DEF Count, Erasing
  <2> QED
    BY <2>1, <2>2 DEF EraseInv
<1>6. CASE ChipSelectLow \/ ClockByte
  <2>1. UNCHANGED <<mem, wel, busy, call>> /\ Left' = Left /\ Sending /\ pc' = "bytes"
    BY <1>6, Sends
  <2> QED
    BY <1>2, <2>1 DEF EraseInv, Erasing, Blanked
<1>7. CASE ChipSelectHigh
  <2>1. /\ EndsFrame /\ ChipSelectRises /\ UNCHANGED <<granted, command, call>> /\ todo' = Tail(todo)
        /\ pc' = "frame" /\ (IsPoll => seen = "ready")
    BY <1>7 DEF ChipSelectHigh
  <2>2. /\ pc = "bytes" /\ todo[1] \in Frames /\ IsFrame(call, id, Left, todo[1])
        /\ Head(todo) = todo[1] /\ Left > 0 /\ Left' = Left - 1
        /\ \/ busy = <<>> /\ Obey(todo[1])
           \/ busy # <<>> /\ UNCHANGED <<mem, wel, auto, busy>>
    BY <1>2, <2>1, HeardEnd
  <2>3. Erasing
    BY <2>1 DEF Erasing
  <2>4. Blanked /\ mem' = mem => Blanked'
    BY <2>1 DEF Blanked
  <2>5. todo[1] = Poll => busy = <<>>
    BY <1>2, <2>1, <2>2 DEF IsPoll, PollInv
  <2>6. \/ Left \in {2, 6} /\ todo[1] = Poll
        \/ Left \in {4, 5} /\ todo[1] = <<Byte("wren")>>
        \/ Left = 3 /\ todo[1] = EraseFrame(call)
        \/ Left = 1 /\ todo[1] = <<Byte("wrdi")>>
    BY <2>2, <2>3 DEF IsFrame, Erasing
  <2>7. CASE Left \in {2, 6} /\ todo[1] = Poll
    <3>1. Obey(todo[1]) /\ todo[1][1].kind = "rdsr" /\ busy = <<>>
      BY <2>2, <2>5, <2>7 DEF Poll, Byte
    <3>2. busy' = <<>> /\ mem' = mem
      BY <2>2, <3>1, Obeyed
    <3>3. EraseFrame(call) # <<>>
      BY <1>0, EraseFrameIs
    <3>4. Left = 2 => Blanked'
      BY <1>2, <2>2, <2>3, <2>4, <3>1, <3>2, <3>3 DEF EraseInv, Sending
    <3> QED
      BY <2>1, <2>2, <2>7, <3>2, <3>4 DEF EraseInv
  <2>8. CASE Left \in {4, 5} /\ todo[1] = <<Byte("wren")>>
    <3>1. busy = <<>>
      BY <1>2, <2>2, <2>3, <2>8 DEF EraseInv, Sending
    <3>2. busy' = <<>> /\ wel' = "all"
      BY <2>2, <2>8, <3>1, Obeyed
    <3> QED
      BY <2>1, <2>2, <2>8, <3>2 DEF EraseInv
  <2>9. CASE Left = 3 /\ todo[1] = EraseFrame(call)
    <3>1. busy = <<>> /\ wel = "all"
      BY <1>2, <2>2, <2>3, <2>9 DEF EraseInv, Sending
    <3>2. ~protect
      BY <1>0, <1>2, <2>3, <3>1 DEF DetectInv, CallInv, Erasing, ProtOK
    <3>3. /\ todo[1] # <<>> /\ todo[1][1].kind \in {"erase", "sectorErase"}
          /\ Starts(todo[1])
      BY <2>9, <3>1, <3>2 DEF EraseFrame, Starts, Byte
    <3>4. busy' = todo[1]
      BY <2>2, <3>1, <3>3, Obeyed
    <3> QED
      BY <2>1, <2>2, <2>9, <3>4 DEF EraseInv
  <2>10. CASE Left = 1 /\ todo[1] = <<Byte("wrdi")>>
    <3>1. busy = <<>> /\ Blanked
      BY <1>2, <2>2, <2>3, <2>10 DEF EraseInv, Sending
    <3>2. busy' = <<>> /\ mem' = mem
      BY <2>2, <2>10, <3>1, Obeyed
    <3> QED
      BY <2>1, <2>2, <2>4, <2>10, <3>1, <3>2 DEF EraseInv
  <2> QED
    BY <2>6, <2>7, <2>8, <2>9, <2>10
<1>8. CASE PollAgain
  <2>1. /\ EndsFrame /\ ChipSelectRises /\ UNCHANGED <<granted, command, call, todo>>
        /\ pc' = "frame" /\ IsPoll /\ Left' = Left
    BY <1>8 DEF PollAgain, Left
  <2>2. /\ pc = "bytes" /\ todo[1] \in Frames /\ IsFrame(call, id, Left, todo[1])
        /\ todo[1] = Poll
        /\ \/ busy = <<>> /\ Obey(todo[1])
           \/ busy # <<>> /\ UNCHANGED <<mem, wel, auto, busy>>
    BY <1>2, <2>1, HeardEnd DEF IsPoll
  <2>3. Erasing
    BY <2>1 DEF Erasing
  <2>4. Left \in {2, 6}
    BY <2>2, <2>3 DEF IsFrame, Erasing, Poll, Byte, EraseFrame
  <2>5. busy' = busy /\ mem' = mem
    <3>1. todo[1] # <<>> /\ todo[1][1].kind = "rdsr"
      BY <2>2 DEF Poll, Byte
    <3> QED
      BY <2>2, <3>1, Obeyed
  <2> QED
    BY <1>2, <2>1, <2>2, <2>3, <2>4, <2>5 DEF EraseInv, Sending, Blanked
<1>9. CASE PollGivesUp
  BY <1>0, <1>9 DEF PollGivesUp, Erasing, OpOK
<1>10. CASE Disable
  <2>1. pc = "frame" /\ Left = 0 /\ UNCHANGED <<mem, busy>>
    BY <1>0, <1>10, Disabled DEF flashChip
  <2>2. CASE pc' = "enable"
    BY <2>2 DEF EraseInv, Sending
  <2>3. CASE pc' = "ready" /\ call' = call
    BY <1>2, <2>1, <2>3 DEF EraseInv, Sending, Erasing, Blanked
  <2> QED
    BY <1>0, <1>10, <2>2, <2>3, Disabled
<1>11. CASE FlashDone
  <2>1. /\ busy # <<>> /\ mem' = Carried(busy) /\ busy' = <<>> /\ UNCHANGED <<pc, call>> /\ Left' = Left
    BY <1>11 DEF FlashDone, tool, Left
  <2>2. Erasing
    BY <2>1 DEF Erasing
  <2>3. pc # "ready" /\ (Sending => Left >= 6 \/ Left = 2)
    BY <1>0, <1>2, <2>1, <2>2 DEF EraseInv
  <2>4. CASE Sending /\ Left = 2
    <3>1. busy = EraseFrame(call)
      BY <1>2, <2>1, <2>2, <2>4 DEF EraseInv
    <3>2. CASE call.op = "eraseNvm"
      <4>1. mem' = Erased
        BY <2>1, <3>1, <3>2 DEF EraseFrame, Carried, Byte
      <4> QED
        BY <2>1, <2>4, <3>2, <4>1 DEF EraseInv, Sending, Blanked, Erased
    <3>3. CASE call.op # "eraseNvm"
      <4>1. busy[1].kind = "sectorErase" /\ busy[2].at = call.at
        BY <3>1, <3>3 DEF EraseFrame, Byte, AddressByte
      <4>2. mem' = [a \in Address |-> IF a \in Page(call.at) THEN {} ELSE mem[a]]
        BY <2>1, <4>1 DEF Carried
      <4>3. Page(call.at) \subseteq Address
        BY <1>0, PageFacts DEF OpOK
      <4>4. \A a \in Page(call.at) : mem'[a] = {}
        BY <4>2, <4>3
      <4> QED
        BY <2>1, <2>4, <3>3, <4>4 DEF EraseInv, Sending, Blanked
    <3> QED
      BY <3>2, <3>3
  <2>5. CASE ~Sending \/ Left >= 6
    BY <1>0, <2>1, <2>3, <2>5 DEF EraseInv, Sending
  <2> QED
    BY <2>3, <2>4, <2>5
<1>12. CASE UNCHANGED vars
  BY <1>2, <1>12, SameVars DEF EraseInv, Sending, Erasing, Blanked
<1> QED
  BY <1>2, <1>3, <1>4, <1>5, <1>6, <1>7, <1>8, <1>9, <1>10, <1>11, <1>12 DEF Step

-----------------------------------------------------------------------------
(* A writing run that was refused nothing and gave up nothing: once it has  *)
(* erased, it finds the flash free and unprotected whenever it begins, so   *)
(* what it programs is programmed.                                          *)

Calm == trouble \subseteq {"leftBusy"}
Quiet == busy = <<>> /\ ~protect
AfterOps == {"eraseNvm", "program", "sstProgram", "read", "sectorErase"}
Held(k) == \A a \in call.at..(call.at + k - 1) : DataByte(a) \in mem[a]

ReadyQuiet ==
  (pc = "ready" /\ call.op \in AfterOps) \/ (pc = "enable" /\ call.op \in {"program", "sstProgram", "read"})
    => Quiet /\ line = <<>>
ReadQuiet == call.op = "read" /\ Sending => Quiet
ProgramQuiet ==
  call.op = "program" /\ Sending =>
  /\ ~protect
  /\ Left > 2 => busy = <<>>
  /\ Left = 3 => wel = "all"
  /\ chip = "sst" => busy = <<>>
  /\ Left \in 1..2 /\ chip # "sst" =>
       busy = ProgramFrame(call.at, call.n) \/ (busy = <<>> /\ Held(call.n))
  /\ Left = 0 => busy = <<>> /\ (chip # "sst" => Held(call.n))
SstQuiet ==
  call.op = "sstProgram" /\ Sending =>
  /\ Quiet
  /\ Left = call.n + 1 => wel = "all"
  /\ chip = "sst" /\ Left \in 1..call.n => auto # NoAuto /\ Held(call.n + 1 - Left)
  /\ chip = "sst" /\ Left = 0 => Held(call.n)
Written ==
  pc = "ready" /\ call.op = (IF chip = "sst" THEN "sstProgram" ELSE "program") => Held(call.n)

Writing == command = "write" /\ Calm
QuietInv == Writing => ReadyQuiet /\ ReadQuiet /\ ProgramQuiet /\ SstQuiet /\ Written

SuccessInv == Flow /\ DetectInv /\ PollInv /\ EraseInv /\ QuietInv

LEMMA WritingSteps ==
  ASSUME Flow, [Next]_vars, Writing'
  PROVE  \/ StartRun
         \/ /\ Writing /\ Hears /\ Hears' /\ "gaveUp" \notin trouble'
            /\ Calls \/ Step \/ FlashDone \/ UNCHANGED vars
<1>1. CallInv' /\ CallInv
  BY FlowStep DEF Flow, BaseInv
<1>2. Hears' /\ "gaveUp" \notin trouble'
  BY <1>1 DEF Writing, Calm, CallInv, Hears, Own
<1>3. CASE Hears /\ trouble \subseteq trouble'
           /\ (Calls \/ AcquireFails \/ Step \/ FlashDone \/ UNCHANGED vars)
  <2>1. Calls \/ AcquireFails \/ Step \/ FlashDone \/ UNCHANGED vars => command' = command
    BY Begun, Disabled, Sends, SameVars
       DEF Flow, AcquireFails, Step, Enable, ChipSelectHigh, PollAgain, PollGivesUp, FlashDone, tool
  <2>2. ~AcquireFails
    BY <1>2 DEF AcquireFails
  <2>3. Writing
    BY <1>3, <2>1 DEF Writing, Calm
  <2> QED
    BY <1>2, <1>3, <2>2, <2>3
<1> QED
  BY <1>2, <1>3, HearsSteps

LEMMA QuietEnable ==
  ASSUME Flow, Hears, Hears', Enable, busy = <<>>, line = <<>>
  PROVE  busy' = <<>> /\ UNCHANGED protect /\ UNCHANGED call /\ pc = "enable" /\ pc' = "frame"
         /\ Left' = Count(call)
<1>1. <<>> \in Frames
  BY DEF Frames
<1>2. Obey(<<>>) => busy' = <<>>
  BY <1>1, Obeyed
<1> QED
  BY <1>2, HeardEnable

(* The frame of a read, and a poll, do nothing.                             *)
LEMMA QuietEnd ==
  ASSUME Flow, Hears, EndsFrame, ChipSelectRises, UNCHANGED granted,
         call.op = "read" \/ todo[1] = Poll
  PROVE  UNCHANGED <<mem, wel, auto, busy, protect, chip>>
<1>1. /\ UNCHANGED <<protect, chip>> /\ IsFrame(call, id, Left, todo[1]) /\ todo[1] \in Frames
      /\ \/ busy = <<>> /\ Obey(todo[1])
         \/ busy # <<>> /\ UNCHANGED <<mem, wel, auto, busy>>
  BY HeardEnd
<1>2. CASE call.op = "read"
  <2>1. todo[1] = <<Byte("read"), AddressByte(call.at), In>>
    BY <1>1, <1>2 DEF IsFrame
  <2>2. todo[1] # <<>> /\ todo[1][1].kind = "read"
    BY <2>1 DEF Byte
  <2> QED
    BY <1>1, <2>2, Obeyed
<1>3. CASE todo[1] = Poll
  <2>1. todo[1] # <<>> /\ todo[1][1].kind = "rdsr"
    BY <1>3 DEF Poll, Byte
  <2> QED
    BY <1>1, <2>1, Obeyed
<1> QED
  BY <1>2, <1>3

LEMMA ReadStep == SuccessInv /\ [Next]_vars /\ Writing' => ReadQuiet'
<1> SUFFICES ASSUME SuccessInv, [Next]_vars, Writing', call'.op = "read", Sending' PROVE Quiet'
  BY DEF ReadQuiet
<1>0. Flow /\ CallInv /\ OpOK(call)
  BY DEF SuccessInv, Flow, BaseInv, CallInv
<1>1. Writing /\ Hears /\ Hears' /\ (Calls \/ Step \/ FlashDone \/ UNCHANGED vars)
  BY <1>0, WritingSteps DEF StartRun, Sending
<1>2. ReadyQuiet /\ ReadQuiet
  BY <1>1 DEF SuccessInv, QuietInv
<1>3. CASE Enable
  <2>1. pc = "enable" /\ call.op = "read"
    BY <1>3 DEF Enable
  <2> QED
    BY <1>0, <1>1, <1>2, <1>3, <2>1, QuietEnable DEF ReadyQuiet, Quiet
<1>4. CASE ChipSelectLow \/ ClockByte
  BY <1>0, <1>2, <1>4, Sends DEF ReadQuiet, Quiet
<1>5. CASE ChipSelectHigh \/ PollAgain
  <2>1. EndsFrame /\ ChipSelectRises /\ UNCHANGED <<granted, call>> /\ pc = "bytes"
    BY <1>5 DEF ChipSelectHigh, PollAgain, EndsFrame
  <2>2. UNCHANGED <<busy, protect>>
    BY <1>0, <1>1, <2>1, QuietEnd
  <2> QED
    BY <1>2, <2>1, <2>2 DEF ReadQuiet, Quiet, Sending
<1>6. CASE PollGivesUp
  BY <1>0, <1>6 DEF PollGivesUp, Writing, Calm
<1>7. CASE FlashDone
  BY <1>2, <1>7 DEF FlashDone, tool, ReadQuiet, Quiet, Sending
<1>8. CASE UNCHANGED vars
  BY <1>2, <1>8, SameVars DEF ReadQuiet, Quiet, Sending
<1>9. ~Calls /\ ~Disable
  BY <1>0, Begun, Disabled DEF Flow, Sending
<1> QED
  BY <1>1, <1>3, <1>4, <1>5, <1>6, <1>7, <1>8, <1>9 DEF Step

LEMMA ReadyStep == SuccessInv /\ [Next]_vars /\ Writing' => ReadyQuiet' /\ Written'
<1> SUFFICES ASSUME SuccessInv, [Next]_vars, Writing' PROVE ReadyQuiet' /\ Written'
  OBVIOUS
<1>0. Flow /\ BaseInv /\ CallInv /\ OpOK(call)
  BY DEF SuccessInv, Flow, BaseInv, CallInv
<1>1. CASE StartRun
  <2>1. call'.op = "none" /\ pc' = "ready"
    BY <1>0, <1>1 DEF StartRun, CallInv
  <2> QED
    BY <2>1 DEF ReadyQuiet, Written, AfterOps
<1> SUFFICES ASSUME Writing, Hears, Calls \/ Step \/ FlashDone \/ UNCHANGED vars
             PROVE  ReadyQuiet' /\ Written'
  BY <1>0, <1>1, WritingSteps
<1>2. ReadyQuiet /\ ReadQuiet /\ ProgramQuiet /\ SstQuiet /\ Written /\ DetectInv /\ EraseInv
  BY DEF SuccessInv, QuietInv
<1>3. CASE Calls
  <2>1. pc = "ready" /\ pc' = "enable" /\ UNCHANGED <<busy, protect, line>>
    BY <1>0, <1>3, Begun DEF flashChip, lines
  <2>2. Detects \/ Erases => call'.op \notin {"program", "sstProgram", "read"}
    BY Ops DEF Detects, Erases, ErasingOps
  <2>3. Programs \/ Reads => Quiet /\ line = <<>>
    BY <1>2, <2>1 DEF Programs, Reads, AfterErase, Writing, ReadyQuiet, AfterOps
  <2>4. Detects \/ Erases \/ Programs \/ Reads
    BY <1>0, <1>3, Begun
  <2> QED
    BY <2>1, <2>2, <2>3, <2>4 DEF ReadyQuiet, Written, Quiet
<1>4. CASE Disable
  <2>1. /\ pc = "frame" /\ Left = 0 /\ UNCHANGED <<mem, busy, protect, chip, line, trouble>>
        /\ Sending
    BY <1>0, <1>4, Disabled DEF flashChip, Sending
  <2>2. line = <<>>
    BY <1>0, <2>1 DEF BaseInv, LinesInv
  <2>3. CASE pc' = "enable"
    <3>1. call'.op \notin {"program", "sstProgram", "read"}
      BY <1>0, <1>4, <2>3, Disabled, Ops DEF Writable, ErasingOps
    <3> QED
      BY <2>3, <3>1 DEF ReadyQuiet, Written
  <2>4. CASE pc' = "ready" /\ call' = call
    <3>1. CASE call.op \in {"eraseNvm", "sectorErase"}
      <4>1. call.status = "SUCCESS"
        BY <1>0 DEF CallInv, Writing, Calm, OpOK
      <4>2. busy = <<>>
        BY <1>2, <2>1, <3>1, <4>1 DEF EraseInv, Erasing
      <4>3. ~protect
        BY <1>2, <3>1, <4>2 DEF DetectInv, ProtOK, Writing
      <4> QED
        BY <2>1, <2>2, <2>4, <3>1, <4>2, <4>3 DEF ReadyQuiet, Written, Quiet
    <3>2. CASE call.op = "read"
      BY <1>2, <2>1, <2>2, <2>4, <3>2 DEF ReadyQuiet, Written, ReadQuiet, Quiet
    <3>3. CASE call.op = "program"
      <4>1. busy = <<>> /\ ~protect /\ (chip # "sst" => Held(call.n))
        BY <1>2, <2>1, <3>3 DEF ProgramQuiet
      <4> QED
        BY <2>1, <2>2, <2>4, <3>3, <4>1 DEF ReadyQuiet, Written, Quiet, Held
    <3>4. CASE call.op = "sstProgram"
      <4>1. Quiet /\ (chip = "sst" => Held(call.n))
        BY <1>2, <2>1, <3>4 DEF SstQuiet
      <4> QED
        BY <2>1, <2>2, <2>4, <3>4, <4>1 DEF ReadyQuiet, Written, Quiet, Held
    <3>5. CASE call.op \notin AfterOps
      BY <2>4, <3>5 DEF ReadyQuiet, Written, AfterOps
    <3> QED
      BY <3>1, <3>2, <3>3, <3>4, <3>5 DEF AfterOps
  <2> QED
    BY <1>0, <1>4, <2>3, <2>4, Disabled
<1>5. CASE FlashDone
  <2>1. busy # <<>> /\ UNCHANGED <<pc, call, line, chip>>
    BY <1>5 DEF FlashDone, tool, lines
  <2>2. ~(pc = "ready" /\ call.op \in AfterOps)
        /\ ~(pc = "enable" /\ call.op \in {"program", "sstProgram", "read"})
    BY <1>2, <2>1 DEF ReadyQuiet, Quiet
  <2> QED
    BY <2>1, <2>2 DEF ReadyQuiet, Written, AfterOps
<1>6. CASE UNCHANGED vars
  BY <1>2, <1>6, SameVars DEF ReadyQuiet, Written, Quiet, Held
<1>7. Enable \/ ChipSelectLow \/ ClockByte \/ ChipSelectHigh \/ PollAgain \/ PollGivesUp
        => pc' \in {"frame", "bytes"}
  BY <1>0, Sends DEF Enable, ChipSelectHigh, PollAgain, PollGivesUp
<1>8. pc' \in {"frame", "bytes"} => ReadyQuiet' /\ Written'
  BY DEF ReadyQuiet, Written
<1> QED
  BY <1>3, <1>4, <1>5, <1>6, <1>7, <1>8 DEF Step

(* What the flash does of the frame that programs a burst.                  *)
LEMMA BurstHeld ==
  ASSUME TypeInv, OpOK(call), call.op = "program", busy = ProgramFrame(call.at, call.n),
         NEW x \in call.at..(call.at + call.n - 1)
  PROVE  DataByte(x) \in Carried(busy)[x]
<1> DEFINE a == call.at
           n == call.n
           At(i) == PageStart(a) + ((a - PageStart(a) + i - 3) % PageWords)
<1>1. a \in Address /\ n \in Nat /\ n > 0 /\ a + n - 1 \in Address /\ a \in Int
  BY BurstFits, SizeFacts DEF Address
<1>2. /\ Len(busy) = n + 2 /\ busy[1] = Byte("program") /\ busy[2] = AddressByte(a)
      /\ \A i \in 3..(n + 2) : busy[i] = DataByte(a + i - 3)
  BY <1>1, ProgramFrameIs
<1> DEFINE k == x - a
<1>3. k \in 0..(n - 1) /\ k \in Nat /\ a + k = x /\ k + 3 \in 3..(n + 2) /\ a + (k + 3) - 3 = x
  BY <1>1
<1>4. x \in Address /\ x \in Page(a)
  <2>1. a + k \in Page(a) /\ a + k \in Address
    BY <1>3, BurstFits
  <2> QED
    BY <1>3, <2>1
<1>5. PageStart(a) + ((a - PageStart(a) + k) % PageWords) = x
  BY <1>1, <1>3, <1>4, InPage
<1>6. a - PageStart(a) + (k + 3) - 3 = a - PageStart(a) + k
  BY <1>1, <1>3, PageFacts
<1>7. At(k + 3) = x
  BY <1>5, <1>6
<1>8. busy[k + 3] = DataByte(x)
  BY <1>2, <1>3
<1>9. busy[1].kind = "program" /\ busy[2].at = a
  BY <1>2 DEF Byte, AddressByte
<1> HIDE DEF At, k, a, n
<1>10. Carried(busy) = [y \in Address |-> mem[y] \cup {busy[i] : i \in {j \in 3..Len(busy) : At(j) = y}}]
  BY <1>9 DEF Carried, Programmed, At
<1>11. k + 3 \in 3..Len(busy)
  BY <1>2, <1>3
<1>12. busy[k + 3] \in {busy[i] : i \in {j \in 3..Len(busy) : At(j) = x}}
  BY <1>7, <1>11
<1> QED
  BY <1>4, <1>8, <1>10, <1>12

LEMMA ProgramStep == SuccessInv /\ [Next]_vars /\ Writing' => ProgramQuiet'
<1> SUFFICES ASSUME SuccessInv, [Next]_vars, Writing', call'.op = "program", Sending' PROVE ProgramQuiet'
  BY DEF ProgramQuiet
<1>0. Flow /\ CallInv /\ OpOK(call) /\ TypeInv
  BY DEF SuccessInv, Flow, BaseInv, CallInv
<1>1. Writing /\ Hears /\ Hears' /\ (Calls \/ Step \/ FlashDone \/ UNCHANGED vars)
  BY <1>0, WritingSteps DEF StartRun, Sending
<1>2. ReadyQuiet /\ ProgramQuiet /\ PollInv
  BY <1>1 DEF SuccessInv, QuietInv
<1>3. CASE Enable
  <2>1. pc = "enable" /\ call.op = "program"
    BY <1>3 DEF Enable
  <2>2. busy = <<>> /\ line = <<>> /\ ~protect
    BY <1>2, <2>1 DEF ReadyQuiet, Quiet
  <2>3. busy' = <<>> /\ ~protect' /\ UNCHANGED call /\ Left' = Count(call)
    BY <1>0, <1>1, <1>3, <2>2, QuietEnable
  <2>4. Left' = 5
    BY <2>1, <2>3 DEF Count
  <2> QED
    BY <2>3, <2>4 DEF ProgramQuiet
<1>4. CASE ChipSelectLow \/ ClockByte
  <2>1. UNCHANGED <<mem, protect, chip, wel, busy, call>> /\ Left' = Left /\ Sending
    BY <1>0, <1>4, Sends
  <2> QED
    BY <1>2, <2>1 DEF ProgramQuiet, Held
<1>5. CASE ChipSelectHigh
  <2>1. /\ EndsFrame /\ ChipSelectRises /\ UNCHANGED <<granted, call>> /\ todo' = Tail(todo)
        /\ (IsPoll => seen = "ready")
    BY <1>5 DEF ChipSelectHigh
  <2>2. /\ UNCHANGED <<protect, chip>> /\ pc = "bytes" /\ todo[1] \in Frames
        /\ IsFrame(call, id, Left, todo[1]) /\ Head(todo) = todo[1]
        /\ Left \in Nat /\ Left > 0 /\ Left' = Left - 1
        /\ \/ busy = <<>> /\ Obey(todo[1])
           \/ busy # <<>> /\ UNCHANGED <<mem, wel, auto, busy>>
    BY <1>0, <1>1, <2>1, HeardEnd
  <2>3. /\ call.op = "program" /\ ~protect /\ ~protect'
        /\ Left > 2 => busy = <<>>
        /\ Left = 3 => wel = "all"
        /\ chip = "sst" => busy = <<>>
        /\ Left \in 1..2 /\ chip # "sst" =>
             busy = ProgramFrame(call.at, call.n) \/ (busy = <<>> /\ Held(call.n))
    BY <1>2, <2>1, <2>2 DEF ProgramQuiet, Sending
  <2>4. Held(call.n) /\ UNCHANGED mem => Held(call.n)'
    BY <2>1 DEF Held
  <2>5. \/ Left \in {4, 5} /\ todo[1] = <<Byte("wren")>>
        \/ Left = 3 /\ todo[1] = ProgramFrame(call.at, call.n)
        \/ Left = 2 /\ todo[1] = <<Byte("wrdi")>>
        \/ Left = 1 /\ todo[1] = Poll
    BY <2>2, <2>3 DEF IsFrame
  <2>6. CASE Left \in {4, 5} /\ todo[1] = <<Byte("wren")>>
    <3>1. busy' = <<>> /\ wel' = "all"
      BY <2>2, <2>3, <2>6, Obeyed
    <3> QED
      BY <2>2, <2>3, <2>6, <3>1 DEF ProgramQuiet
  <2>7. CASE Left = 3 /\ todo[1] = ProgramFrame(call.at, call.n)
    <3>1. call.at \in Address /\ call.n \in Nat /\ call.n > 0 /\ call.at + call.n - 1 \in Address
      BY <1>0, <2>3, BurstFits
    <3>2. Len(todo[1]) = call.n + 2 /\ todo[1][1] = Byte("program")
      BY <2>7, <3>1, ProgramFrameIs
    <3>3. todo[1] # <<>> /\ todo[1][1].kind = "program" /\ Len(todo[1]) > 2 /\ Len(todo[1]) # 2
      BY <2>2, <3>1, <3>2 DEF Byte, Frames
    <3>4. busy' = IF Starts(todo[1]) THEN todo[1] ELSE <<>>
      BY <2>2, <2>3, <2>7, <3>3, Obeyed
    <3>5. CASE chip = "sst"
      <4>1. ~Starts(todo[1])
        BY <3>2, <3>3, <3>5 DEF Starts, Byte
      <4> QED
        BY <2>2, <2>3, <2>7, <3>4, <3>5, <4>1 DEF ProgramQuiet
    <3>6. CASE chip # "sst"
      <4>1. chip = "other"
        BY <1>0, <3>6 DEF TypeInv, FlashType
      <4>2. Starts(todo[1])
        BY <2>3, <2>7, <3>2, <3>3, <4>1 DEF Starts
      <4>3. busy' = ProgramFrame(call'.at, call'.n)
        BY <2>1, <2>7, <3>4, <4>2
      <4> QED
        BY <2>2, <2>3, <2>7, <3>6, <4>3 DEF ProgramQuiet
    <3> QED
      BY <3>5, <3>6
  <2>8. CASE Left = 2 /\ todo[1] = <<Byte("wrdi")>>
    <3>1. (busy = <<>> => busy' = <<>> /\ UNCHANGED mem) /\ (busy # <<>> => UNCHANGED <<mem, busy>>)
      BY <2>2, <2>8, Obeyed
    <3>2. chip # "sst" => busy' = ProgramFrame(call'.at, call'.n) \/ (busy' = <<>> /\ Held(call.n)')
      BY <2>1, <2>3, <2>4, <2>8, <3>1
    <3> QED
      BY <2>1, <2>2, <2>3, <2>8, <3>1, <3>2 DEF ProgramQuiet
  <2>9. CASE Left = 1 /\ todo[1] = Poll
    <3>1. busy = <<>>
      BY <1>1, <1>2, <2>1, <2>2, <2>9 DEF IsPoll, PollInv
    <3>2. UNCHANGED <<mem, busy>>
      BY <1>0, <1>1, <2>1, <2>9, QuietEnd
    <3>3. call.n \in Nat /\ call.n > 0 /\ call.at \in Address
      BY <1>0, <2>3, BurstFits
    <3>4. chip # "sst" => Held(call.n)
      <4>1. ProgramFrame(call.at, call.n) # <<>>
        <5>1. Len(ProgramFrame(call.at, call.n)) = call.n + 2
          BY <1>0, <2>3, BurstFits, ProgramFrameIs
        <5> QED
          BY <3>3, <5>1
      <4> QED
        BY <2>3, <2>9, <3>1, <4>1
    <3> QED
      BY <2>1, <2>2, <2>3, <2>4, <2>9, <3>1, <3>2, <3>4 DEF ProgramQuiet
  <2> QED
    BY <2>5, <2>6, <2>7, <2>8, <2>9
<1>6. CASE PollAgain
  <2>1. /\ EndsFrame /\ ChipSelectRises /\ UNCHANGED <<granted, call, todo>> /\ IsPoll
        /\ pc = "bytes" /\ Left' = Left
    BY <1>6 DEF PollAgain, EndsFrame, Left
  <2>2. todo[1] = Poll
    BY <1>0, <1>1, <2>1, HeardEnd DEF IsPoll
  <2>3. UNCHANGED <<mem, wel, busy, protect, chip>>
    BY <1>0, <1>1, <2>1, <2>2, QuietEnd
  <2> QED
    BY <1>2, <2>1, <2>3 DEF ProgramQuiet, Sending, Held
<1>7. ~PollGivesUp
  BY DEF PollGivesUp, Writing, Calm
<1>8. CASE FlashDone
  <2>1. /\ busy # <<>> /\ mem' = Carried(busy) /\ busy' = <<>> /\ UNCHANGED <<pc, call, chip>>
        /\ Left' = Left /\ (~protect => ~protect')
    BY <1>8 DEF FlashDone, tool, Left
  <2>2. /\ call.op = "program" /\ ~protect /\ Left \in Nat /\ ~(Left > 2) /\ Left # 0 /\ chip # "sst"
        /\ Left \in 1..2 => busy = ProgramFrame(call.at, call.n)
    BY <1>0, <1>2, <2>1 DEF ProgramQuiet, Sending, Left, TypeInv, ToolType
  <2>3. Left \in 1..2
    BY <2>2
  <2>4. \A x \in call.at..(call.at + call.n - 1) : DataByte(x) \in Carried(busy)[x]
    BY <1>0, <2>2, <2>3, BurstHeld
  <2>5. Held(call.n)'
    BY <2>1, <2>4 DEF Held
  <2> QED
    BY <2>1, <2>2, <2>3, <2>5 DEF ProgramQuiet
<1>9. CASE UNCHANGED vars
  BY <1>2, <1>9, SameVars DEF ProgramQuiet, Sending, Held
<1>10. ~Calls /\ ~Disable
  BY <1>0, Begun, Disabled DEF Flow, Sending
<1> QED
  BY <1>1, <1>3, <1>4, <1>5, <1>6, <1>7, <1>8, <1>9, <1>10 DEF Step

LEMMA SstStep == SuccessInv /\ [Next]_vars /\ Writing' => SstQuiet'
<1> SUFFICES ASSUME SuccessInv, [Next]_vars, Writing', call'.op = "sstProgram", Sending' PROVE SstQuiet'
  BY DEF SstQuiet
<1>0. Flow /\ BaseInv /\ AutoInv /\ CallInv /\ OpOK(call) /\ TypeInv
  BY DEF SuccessInv, Flow, BaseInv, CallInv
<1>1. Writing /\ Hears /\ Hears' /\ (Calls \/ Step \/ FlashDone \/ UNCHANGED vars)
  BY <1>0, WritingSteps DEF StartRun, Sending
<1>2. ReadyQuiet /\ SstQuiet
  BY <1>1 DEF SuccessInv, QuietInv
<1>3. CASE Enable
  <2>1. pc = "enable" /\ call.op = "sstProgram"
    BY <1>3 DEF Enable
  <2>2. busy = <<>> /\ line = <<>> /\ ~protect
    BY <1>2, <2>1 DEF ReadyQuiet, Quiet
  <2>3. busy' = <<>> /\ ~protect' /\ UNCHANGED call /\ Left' = Count(call)
    BY <1>0, <1>1, <1>3, <2>2, QuietEnable
  <2>4. Left' = call.n + 3 /\ call.n \in Nat
    BY <1>0, <2>1, <2>3, BurstFits DEF Count
  <2> QED
    BY <2>3, <2>4 DEF SstQuiet, Quiet
<1>4. CASE ChipSelectLow \/ ClockByte
  <2>1. UNCHANGED <<mem, protect, chip, wel, auto, busy, call>> /\ Left' = Left /\ Sending
    BY <1>0, <1>4, Sends
  <2> QED
    BY <1>2, <2>1 DEF SstQuiet, Quiet, Held
<1>5. CASE ChipSelectHigh
  <2>1. /\ EndsFrame /\ ChipSelectRises /\ UNCHANGED <<granted, call>> /\ todo' = Tail(todo)
    BY <1>5 DEF ChipSelectHigh
  <2>2. /\ UNCHANGED <<protect, chip>> /\ pc = "bytes" /\ granted
        /\ Left \in Nat /\ Left > 0 /\ Left' = Left - 1
        /\ \/ busy = <<>> /\ Obey(todo[1])
           \/ busy # <<>> /\ UNCHANGED <<mem, wel, auto, busy>>
    BY <1>0, <1>1, <2>1, HeardEnd
  <2>3. /\ call.op = "sstProgram" /\ busy = <<>> /\ ~protect /\ ~protect'
        /\ Left = call.n + 1 => wel = "all"
        /\ chip = "sst" /\ Left \in 1..call.n => auto # NoAuto /\ Held(call.n + 1 - Left)
    BY <1>2, <2>1, <2>2 DEF SstQuiet, Quiet, Sending
  <2>4. call.n \in Nat /\ call.n > 0 /\ call.at \in Address
    BY <1>0, <2>3, BurstFits
  <2>5. Own /\ Obey(todo[1])
    BY <1>1, <2>2, <2>3 DEF Hears
  <2>6. busy' = <<>> /\ Left \in 1..(call.n + 3)
    BY <1>0, <2>1, <2>2, <2>3, <2>5, AutoSent
  <2>7. CASE Left \in (call.n + 2)..(call.n + 3)
    <3>1. wel' = "all"
      BY <1>0, <2>1, <2>2, <2>3, <2>5, <2>7, AutoSent
    <3> QED
      BY <2>1, <2>2, <2>3, <2>4, <2>6, <2>7, <3>1 DEF SstQuiet, Quiet
  <2>8. CASE Left = call.n + 1
    <3>1. chip = "sst" =>
            /\ mem' = [mem EXCEPT ![call.at] = @ \cup {DataByte(call.at)}]
            /\ auto' = (call.at + 1) % Words
      BY <1>0, <2>1, <2>2, <2>3, <2>5, <2>8, AutoSent
    <3>2. (call.at + 1) % Words # NoAuto
      BY <2>4, SizeFacts DEF Address, NoAuto
    <3>3. chip = "sst" => DataByte(call.at) \in mem'[call.at]
      BY <1>0, <2>4, <3>1 DEF TypeInv, FlashType
    <3>4. call.n + 1 - Left' = 1 /\ Left' = call.n /\ call'.at..(call'.at + 1 - 1) = {call.at}
      BY <2>1, <2>2, <2>4, <2>8, SizeFacts DEF Address
    <3>5. chip = "sst" => Held(1)'
      BY <2>1, <3>3, <3>4 DEF Held
    <3> QED
      BY <2>1, <2>2, <2>3, <2>4, <2>6, <3>1, <3>2, <3>4, <3>5 DEF SstQuiet, Quiet
  <2>9. CASE Left \in 2..call.n
    <3> DEFINE a == call.at + call.n + 1 - Left
               k == call.n + 1 - Left
    <3>1. k + 1 = call'.n + 1 - Left' /\ k \in Nat /\ a = call.at + k /\ call.at \in Int
      BY <2>1, <2>2, <2>4, <2>9, SizeFacts DEF Address
    <3>2. chip = "sst" => auto # NoAuto /\ Held(k)
      BY <2>3, <2>9
    <3>3. /\ a \in Address
          /\ auto # NoAuto => /\ auto = a /\ mem' = [mem EXCEPT ![a] = @ \cup {DataByte(a)}]
                              /\ auto' = (a + 1) % Words
      BY <1>0, <2>1, <2>2, <2>3, <2>5, <2>9, AutoSent
    <3> HIDE DEF a, k
    <3>4. (a + 1) % Words # NoAuto
      BY <3>3, SizeFacts DEF Address, NoAuto
    <3>5. chip = "sst" => \A x \in call.at..(call.at + (k + 1) - 1) : DataByte(x) \in mem'[x]
      <4> SUFFICES ASSUME chip = "sst", NEW x \in call.at..(call.at + (k + 1) - 1)
                   PROVE  DataByte(x) \in mem'[x]
        OBVIOUS
      <4>1. x = a \/ x \in call.at..(call.at + k - 1)
        BY <3>1
      <4>2. CASE x = a
        BY <1>0, <3>2, <3>3, <4>2 DEF TypeInv, FlashType
      <4>3. CASE x \in call.at..(call.at + k - 1)
        <5>1. DataByte(x) \in mem[x]
          BY <3>2, <4>3 DEF Held
        <5>2. mem' = [mem EXCEPT ![a] = @ \cup {DataByte(a)}] /\ mem \in [Address -> SUBSET Bytes]
          BY <1>0, <3>2, <3>3 DEF TypeInv, FlashType
        <5> QED
          BY <3>3, <5>1, <5>2
      <4> QED
        BY <4>1, <4>2, <4>3
    <3>6. Left' \in 1..call.n /\ Left' # 0 /\ Left' # call.n + 1
      BY <2>2, <2>4, <2>9
    <3>7. chip = "sst" => auto' # NoAuto /\ Held(call.n + 1 - Left)'
      BY <2>1, <3>1, <3>2, <3>3, <3>4, <3>5 DEF Held
    <3> QED
      BY <2>1, <2>2, <2>3, <2>6, <3>6, <3>7 DEF SstQuiet, Quiet
  <2>10. CASE Left = 1
    <3>1. UNCHANGED mem
      BY <1>0, <2>1, <2>2, <2>3, <2>5, <2>10, AutoSent
    <3>2. chip = "sst" => Held(call.n)'
      <4>1. call.n + 1 - Left = call.n /\ Left \in 1..call.n
        BY <2>4, <2>10
      <4>2. chip = "sst" => Held(call.n)
        BY <2>3, <4>1
      <4> QED
        BY <2>1, <3>1, <4>2 DEF Held
    <3>3. Left' = 0
      BY <2>2, <2>10
    <3> QED
      BY <2>1, <2>2, <2>3, <2>4, <2>6, <3>2, <3>3 DEF SstQuiet, Quiet
  <2> QED
    BY <2>2, <2>4, <2>6, <2>7, <2>8, <2>9, <2>10
<1>6. ~PollAgain
  <2> SUFFICES ASSUME PollAgain PROVE FALSE
    OBVIOUS
  <2>1. EndsFrame /\ IsPoll /\ ChipSelectRises /\ UNCHANGED <<granted, call>>
    BY DEF PollAgain
  <2>2. IsFrame(call, id, Left, todo[1]) /\ todo[1] = Poll /\ call.op # "none"
    BY <1>0, <1>1, <2>1, HeardEnd DEF IsPoll
  <2> QED
    BY <1>0, <2>1, <2>2, KindsSent
<1>7. ~PollGivesUp
  BY DEF PollGivesUp, Writing, Calm
<1>8. ~FlashDone
  BY <1>2 DEF FlashDone, tool, SstQuiet, Quiet, Sending
<1>9. CASE UNCHANGED vars
  BY <1>2, <1>9, SameVars DEF SstQuiet, Quiet, Sending, Held
<1>10. ~Calls /\ ~Disable
  BY <1>0, Begun, Disabled DEF Flow, Sending
<1> QED
  BY <1>1, <1>3, <1>4, <1>5, <1>6, <1>7, <1>8, <1>9, <1>10 DEF Step

LEMMA QuietStep == SuccessInv /\ [Next]_vars => QuietInv'
  BY ReadStep, ReadyStep, ProgramStep, SstStep DEF QuietInv

-----------------------------------------------------------------------------
(* A run that nothing went wrong in reads what is there: the flash is free  *)
(* whenever it reads, be it a dump or a run that writes.                    *)

DumpInv ==
  trouble = {} /\ command = "dump" => busy = <<>> /\ (pc \in {"ready", "enable"} => line = <<>>)
ReadInv ==
  trouble = {} /\ call.op = "read" =>
  /\ pc = "bytes" /\ sent = 3 => seen = "true"
  /\ (Sending /\ Left = 0) \/ pc = "ready" => seen = "true"
TruthInv == SuccessInv /\ DumpInv /\ ReadInv

LEMMA UntroubledSteps ==
  ASSUME Flow, [Next]_vars, trouble' = {}, call'.op # "none" \/ command' # "none"
  PROVE  \/ StartRun
         \/ /\ trouble = {} /\ Hears /\ Hears' /\ command' = command
            /\ Calls \/ Step \/ FlashDone \/ UNCHANGED vars
<1>1. CallInv' /\ CallInv
  BY FlowStep DEF Flow, BaseInv
<1>2. Hears'
  BY <1>1 DEF CallInv, Hears, Own
<1>3. Calls \/ AcquireFails \/ Step \/ FlashDone \/ UNCHANGED vars => command' = command
  BY Begun, Disabled, Sends, SameVars
     DEF Flow, AcquireFails, Step, Enable, ChipSelectHigh, PollAgain, PollGivesUp, FlashDone, tool
<1>4. ~AcquireFails
  BY DEF AcquireFails
<1> QED
  BY <1>2, <1>3, <1>4, HearsSteps

(* A read sends one frame, and never polls.                                 *)
LEMMA ReadSends ==
  ASSUME Flow, Hears, call.op = "read"
  PROVE  /\ pc = "bytes" => todo[1] = <<Byte("read"), AddressByte(call.at), In>> /\ Left = 1
         /\ ~PollAgain /\ ~PollGivesUp
<1>1. pc = "bytes" => todo[1] = <<Byte("read"), AddressByte(call.at), In>> /\ Left = 1
  BY Current DEF Flow, IsFrame
<1>2. PollAgain \/ PollGivesUp => pc = "bytes" /\ todo[1] = Poll
  BY Current DEF Flow, PollAgain, PollGivesUp, EndsFrame, IsPoll
<1>3. <<Byte("read"), AddressByte(call.at), In>> # Poll
  BY DEF Poll
<1> QED
  BY <1>1, <1>2, <1>3

LEMMA DumpStep == Flow /\ DumpInv /\ [Next]_vars => DumpInv'
<1> SUFFICES ASSUME Flow, DumpInv, [Next]_vars, trouble' = {}, command' = "dump"
             PROVE  busy' = <<>> /\ (pc' \in {"ready", "enable"} => line' = <<>>)
  BY DEF DumpInv
<1>0. BaseInv /\ CallInv /\ LinesInv
  BY DEF Flow, BaseInv
<1>1. CASE StartRun
  BY <1>1 DEF StartRun, flashChip, lines
<1> SUFFICES ASSUME trouble = {}, Hears, Hears', command = "dump",
                    Calls \/ Step \/ FlashDone \/ UNCHANGED vars
             PROVE  busy' = <<>> /\ (pc' \in {"ready", "enable"} => line' = <<>>)
  BY <1>1, UntroubledSteps
<1>2. busy = <<>> /\ (pc \in {"ready", "enable"} => line = <<>>)
  BY DEF DumpInv
<1>3. Sending => call.op = "read"
  BY <1>0 DEF CallInv, Sending
<1>4. CASE Calls
  BY <1>0, <1>2, <1>4, Begun DEF flashChip, lines
<1>5. CASE Enable
  <2>1. pc = "enable"
    BY <1>5 DEF Enable
  <2> QED
    BY <1>2, <1>5, <2>1, QuietEnable
<1>6. CASE ChipSelectLow \/ ClockByte
  BY <1>2, <1>6, Sends
<1>7. CASE ChipSelectHigh
  <2>1. EndsFrame /\ ChipSelectRises /\ UNCHANGED granted /\ pc = "bytes" /\ pc' = "frame"
    BY <1>7 DEF ChipSelectHigh, EndsFrame
  <2>2. call.op = "read"
    BY <1>3, <2>1 DEF Sending
  <2>3. UNCHANGED busy
    BY <2>1, <2>2, QuietEnd
  <2> QED
    BY <1>2, <2>1, <2>3
<1>8. ~PollAgain /\ ~PollGivesUp
  BY <1>3, ReadSends DEF PollAgain, PollGivesUp, EndsFrame, Sending
<1>9. CASE Disable
  BY <1>0, <1>2, <1>9, Disabled DEF flashChip, LinesInv
<1>10. ~FlashDone
  BY <1>2 DEF FlashDone
<1>11. CASE UNCHANGED vars
  BY <1>2, <1>11, SameVars
<1> QED
  BY <1>4, <1>5, <1>6, <1>7, <1>8, <1>9, <1>10, <1>11 DEF Step

LEMMA TruthStep == TruthInv /\ [Next]_vars => ReadInv'
<1> SUFFICES ASSUME TruthInv, [Next]_vars, trouble' = {}, call'.op = "read" PROVE ReadInv'
  BY DEF ReadInv
<1>0. Flow /\ BaseInv /\ CallInv /\ LinesInv /\ OpOK(call) /\ AutoInv /\ QuietInv /\ DumpInv
  BY DEF TruthInv, SuccessInv, Flow, BaseInv, CallInv
<1>1. ~StartRun
  BY <1>0 DEF StartRun, CallInv
<1>2. /\ trouble = {} /\ Hears /\ Hears'
      /\ Calls \/ Step \/ FlashDone \/ UNCHANGED vars
  BY <1>0, <1>1, UntroubledSteps
<1>3. /\ call.op = "read" /\ pc = "bytes" /\ sent = 3 => seen = "true"
      /\ call.op = "read" /\ ((Sending /\ Left = 0) \/ pc = "ready") => seen = "true"
  BY <1>2 DEF TruthInv, ReadInv
<1>4. CASE Calls
  <2>1. pc' = "enable"
    BY <1>0, <1>4, Begun
  <2> QED
    BY <2>1 DEF ReadInv, Sending
<1>5. CASE Enable
  <2>1. UNCHANGED call /\ pc' = "frame" /\ Left' = Count(call)
    BY <1>0, <1>2, <1>5, HeardEnable
  <2>2. Left' = 1
    BY <2>1 DEF Count
  <2> QED
    BY <2>1, <2>2 DEF ReadInv
<1>6. CASE ChipSelectLow
  <2>1. Left' = Left /\ Left > 0 /\ pc' = "bytes" /\ sent' = 0
    BY <1>0, <1>6, Sends DEF ChipSelectLow
  <2> QED
    BY <2>1 DEF ReadInv
<1>7. CASE ClockByte
  <2>1. UNCHANGED call /\ Left' = Left /\ Left > 0 /\ pc' = "bytes" /\ Sending
    BY <1>0, <1>7, Sends
  <2>2. pc = "bytes" /\ sent \in Nat /\ sent' = sent + 1
    BY <1>0, <1>7, Clocked
  <2>3. sent' = 3 => seen' = "true"
    <3> SUFFICES ASSUME sent' = 3 PROVE seen' = "true"
      OBVIOUS
    <3>1. todo[1] = <<Byte("read"), AddressByte(call.at), In>>
      BY <1>0, <1>2, <2>1, <2>2, ReadSends
    <3>2. sent + 1 = 3
      BY <2>2
    <3>3. todo[1][3] = In /\ todo[1] # Poll
      BY <3>1 DEF Poll
    <3>4. command \in {"write", "dump"}
      BY <1>0, <2>1 DEF CallInv
    <3>5. command = "write" => busy = <<>>
      BY <1>0, <1>2, <2>1 DEF QuietInv, Writing, Calm, ReadQuiet, Quiet
    <3>6. command = "dump" => busy = <<>>
      BY <1>0, <1>2 DEF DumpInv
    <3>7. auto = NoAuto
      BY <1>0, <1>2, <2>1 DEF AutoInv, Hears
    <3> QED
      BY <1>0, <1>2, <1>7, <3>2, <3>3, <3>4, <3>5, <3>6, <3>7, Told
  <2> QED
    BY <2>1, <2>3 DEF ReadInv
<1>8. CASE ChipSelectHigh
  <2>1. /\ EndsFrame /\ ChipSelectRises /\ UNCHANGED <<granted, call, seen>> /\ pc' = "frame"
    BY <1>8 DEF ChipSelectHigh
  <2>2. pc = "bytes" /\ sent = Len(todo[1])
    BY <1>0, <2>1, FrameEnds
  <2>3. todo[1] = <<Byte("read"), AddressByte(call.at), In>>
    BY <1>0, <1>2, <2>1, <2>2, ReadSends
  <2>4. sent = 3
    BY <2>2, <2>3
  <2> QED
    BY <1>3, <2>1, <2>2, <2>4 DEF ReadInv
<1>9. ~PollAgain /\ ~PollGivesUp
  <2>1. ~PollGivesUp
    BY DEF PollGivesUp
  <2>2. PollAgain => call.op = "read"
    BY DEF PollAgain
  <2> QED
    BY <1>0, <1>2, <2>1, <2>2, ReadSends
<1>10. CASE Disable
  <2>1. call' = call /\ pc = "frame" /\ Left = 0 /\ UNCHANGED seen
    BY <1>0, <1>10, Disabled DEF Writable, ErasingOps, Op
  <2>2. seen' = "true"
    BY <1>3, <2>1 DEF Sending
  <2> QED
    BY <2>2 DEF ReadInv
<1>11. CASE FlashDone
  BY <1>3, <1>11 DEF FlashDone, tool, ReadInv, Sending, Left
<1>12. CASE UNCHANGED vars
  BY <1>3, <1>12, SameVars DEF ReadInv, Sending
<1> QED
  BY <1>2, <1>4, <1>5, <1>6, <1>7, <1>8, <1>9, <1>10, <1>11, <1>12 DEF Step

LEMMA TruthInit == Init => TruthInv
<1> SUFFICES ASSUME Init PROVE TruthInv
  OBVIOUS
<1>1. Flow
  BY FlowInit
<1>2. /\ pc = "idle" /\ command = "none" /\ call.op = "none"
  BY DEF Init, Op
<1> QED
  BY <1>1, <1>2
     DEF TruthInv, SuccessInv, DetectInv, PollInv, EraseInv, QuietInv, DumpInv, ReadInv, Hears, Own, Writing

LEMMA TruthKept == TruthInv /\ [Next]_vars => TruthInv'
  BY FlowStep, DetectStep, PollStep, EraseStep, QuietStep, DumpStep, TruthStep DEF TruthInv, SuccessInv

LEMMA TruthInvariant == Spec => []TruthInv
  BY TruthInit, TruthKept, PTL DEF Spec

(* SuccessIsTrue, for flashes, pages, numbers of polls, calls and runs of   *)
(* any size: the poll before an erase, its own end awaited, the detection   *)
(* that clears the protection, and the flash a run leaves free for the call *)
(* that follows are what makes SUCCESS true, whenever an earlier run was    *)
(* killed (BitBangFlashEraseI210, BitBangFlashSectorEraseI210,              *)
(* GenericBitBangFlashWriteI210, SstBitBangFlashWriteI210,                  *)
(* GenericBitBangFlashReadI210).                                            *)
THEOREM SuccessMeansDone == Spec => []SuccessIsTrue
<1>1. TruthInv => SuccessIsTrue
  <2> SUFFICES ASSUME TruthInv PROVE SuccessIsTrue
    OBVIOUS
  <2>0. EraseInv /\ QuietInv /\ ReadInv /\ CallInv
    BY DEF TruthInv, SuccessInv, Flow, BaseInv
  <2>1. EraseReported
    <3>1. pc = "ready" /\ trouble \cap {"refused", "leftAuto"} = {} => Hears
      BY DEF Hears, Own
    <3>2. trouble \subseteq {"leftBusy"} => trouble \cap {"refused", "leftAuto"} = {}
      OBVIOUS
    <3> QED
      BY <2>0, <3>1, <3>2 DEF EraseReported, Returned, EraseInv, Erasing, Blanked
  <2>2. WriteReported
    BY <2>0 DEF WriteReported, Returned, CallInv, QuietInv, Writing, Calm, Written, Held, Burst
  <2>3. ReadsTruth
    BY <2>0 DEF ReadsTruth, Returned, ReadInv
  <2> QED
    BY <2>1, <2>2, <2>3 DEF SuccessIsTrue
<1> QED
  BY <1>1, TruthInvariant, PTL
=============================================================================
