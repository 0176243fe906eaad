--------------------------- MODULE X5NvmDataProofs ---------------------------
(***************************************************************************)
(* Proofs about what the commands of X5Nvm carry and leave behind: the     *)
(* types of every variable, and that an update of the X553 that reports    *)
(* success has put the run's words on the flash, for shadow RAMs and MAC   *)
(* addresses of any size and place.                                        *)
(***************************************************************************)
EXTENDS X5NvmProofs, SequenceTheorems

(* What is there when a step of the tool needs it: its calls are made as    *)
(* long as there are some.                                                  *)
Commands == [op : Ops \cup {"none"}, at : Addresses, data : Values]
RunSet ==
  [count : 0..MaxRuns, kind : {"write", "dump", "mac"}, calls : Seq(Calls),
   found : SUBSET {"eep", "mng"}, buf : [Addresses -> Values], missed : BOOLEAN,
   update : {"none", "ok", "fail"}, end : {"none", "killed", "done"}]
DataType ==
  /\ run \in RunSet
  /\ mail \in [pending : BOOLEAN, valid : BOOLEAN, cmd : Commands]
  /\ task \in Commands
  /\ shadow \in [Addresses -> Values] /\ flash \in [Addresses -> Values]
  /\ (tool.pc = "idle") = (run.calls = <<>>)
CountType ==
  /\ tool.tries \in 0..MaxAttempts /\ tool.hwTries \in 0..HwAttempts - 1
  /\ tool.pc \in {"put1", "putw", "put2"} /\ tool.then = "again" => tool.tries < MaxAttempts
  /\ fwUses \in 0..MaxFwUses /\ faults \in 0..MaxFaults
  /\ forced \in BOOLEAN /\ late \in BOOLEAN

-----------------------------------------------------------------------------
(* The order of the calls of a run: what is written is summed up later, by  *)
(* a checksum that goes before the copies, and the words are read again     *)
(* between what is written and the checksum, into a buffer that the probe   *)
(* has emptied.  A dump only reads, and a result is there only once nothing *)
(* but copies to the flash is left.                                         *)
Later(s, i, call) == \E j \in 1..Len(s) : j > i /\ s[j] = call
Ordered(s) ==
  \A i \in 1..Len(s) :
    /\ s[i].op \in {"write", "probe"} =>
         /\ \A a \in Words : Later(s, i, Call("read", a))
         /\ Later(s, i, Call("sum", Chk))
    /\ s[i].op = "sum" => s[i].at = Chk
    /\ s[i].op \in {"sum", "commit"} => \A j \in 1..Len(s) : j > i => s[j].op = "commit"
In(s, call) == \E i \in 1..Len(s) : s[i] = call
Pending(call) == In(run.calls, call)

OrderInv ==
  /\ Ordered(run.calls)
  /\ run.kind = "dump" =>
       run.update = "none" /\ \A i \in 1..Len(run.calls) : run.calls[i].op = "read"
  /\ run.update # "none" => \A i \in 1..Len(run.calls) : run.calls[i].op = "commit"
  /\ tool.pc # "idle" => run.end = "none"

(* A command that was not given up stands in the mailbox only while the     *)
(* tool waits for it, and what the tool holds for done is done.             *)
Data(c) == IF c.op = "sum" THEN SumOf(run.buf) ELSE Plain(IF c.at = Chk THEN "file" ELSE "new")
Effect(c) ==
  /\ c.op \in {"write", "sum"} => shadow[c.at] = Data(c)
  /\ c.op = "commit" => flash = shadow
  /\ c.op = "read" => mail.cmd.data = shadow[c.at]
Fetched ==
  \/ tool.pc = "ret"
  \/ tool.pc \in {"smbi", "reg", "look", "set", "put1", "putw", "put2"} /\ tool.bit = "eep"
MailInv ==
  ~late =>
  /\ mail.pending \/ task # NoTask =>
       /\ tool.pc = "poll" /\ mail.pending
       /\ mail.cmd.op = Head(run.calls).op /\ mail.cmd.at = Head(run.calls).at
       /\ mail.cmd.op \in {"write", "sum"} => mail.cmd.data = Data(Head(run.calls))
       /\ task # NoTask => task = mail.cmd
  /\ tool.ok \/ (tool.pc = "poll" /\ ~mail.pending /\ mail.valid) => Effect(Head(run.calls))
  /\ tool.ok /\ Head(run.calls).op = "read" /\ Fetched =>
       run.buf[Head(run.calls).at] = shadow[Head(run.calls).at]
OkInv ==
  tool.ok =>
    \/ tool.pc \in {"fetch", "ret"}
    \/ tool.pc \in {"smbi", "reg", "look", "set", "put1", "putw", "put2"} /\ tool.phase = "rel"

(* What the calls made so far have done to the shadow RAM and the flash, if *)
(* none was given up and none failed: each word that the run writes is new  *)
(* or still to be written, each word of the buffer is that of the shadow    *)
(* RAM or still to be read, the checksum is right or still to be written.   *)
KnownInv ==
  ~late =>
  /\ run.update = "ok" => flash = shadow
  /\ ~run.missed /\ run.end # "killed" /\ run.kind # "dump" =>
       /\ \A a \in Rewritten : shadow[a] = Plain("new") \/ Pending(Call("write", a))
       /\ \A a \in Words : run.buf[a] = shadow[a] \/ Pending(Call("read", a)) \/ run.calls = <<>>
       /\ shadow[Chk] = SumOf(shadow) \/ Pending(Call("sum", Chk))

-----------------------------------------------------------------------------
(* The calls of a run.                                                      *)

LEMMA WordFacts ==
  /\ NWords \in Nat /\ NWords > 0 /\ Words \subseteq Addresses /\ Chk \in Addresses /\ Chk \notin Words
  /\ 0 \in Addresses /\ MacWords \subseteq Words
  /\ MacLoc \in Nat /\ AltMacLoc \in Nat /\ MacLen \in Nat /\ MacLen > 0
  BY WordsAssumption DEF Words, Addresses, Chk, MacWords

LEMMA CallIs ==
  ASSUME NEW op \in Ops, NEW a \in Addresses
  PROVE  Call(op, a) \in Calls /\ Call(op, a).op = op /\ Call(op, a).at = a
  BY DEF Call, Calls

LEMMA Listed ==
  ASSUME NEW S, NEW s \in Seq(S)
  PROVE  Len(s) \in Nat /\ \A i \in 1..Len(s) : s[i] \in S
  OBVIOUS

LEMMA Joined ==
  ASSUME NEW S, NEW s \in Seq(S), NEW t \in Seq(S)
  PROVE  /\ s \o t \in Seq(S) /\ Len(s \o t) = Len(s) + Len(t)
         /\ \A i \in 1..(Len(s) + Len(t)) :
              (s \o t)[i] = IF i <= Len(s) THEN s[i] ELSE t[i - Len(s)]
  BY ConcatProperties, Zenon

LEMMA InJoined ==
  ASSUME NEW s \in Seq(Calls), NEW t \in Seq(Calls)
  PROVE  /\ s \o t \in Seq(Calls)
         /\ \A call \in Calls : In(s, call) \/ In(t, call) => In(s \o t, call)
         /\ \A P \in SUBSET Ops :
              (\A i \in 1..Len(s) : s[i].op \in P) /\ (\A i \in 1..Len(t) : t[i].op \in P) =>
              \A i \in 1..Len(s \o t) : (s \o t)[i].op \in P
<1> DEFINE u == s \o t
<1>1. /\ u \in Seq(Calls) /\ Len(u) = Len(s) + Len(t)
      /\ \A i \in 1..(Len(s) + Len(t)) : u[i] = IF i <= Len(s) THEN s[i] ELSE t[i - Len(s)]
  BY Joined, Zenon
<1>2. Len(s) \in Nat /\ Len(t) \in Nat
  BY Listed
<1> HIDE DEF u
<1>3. ASSUME NEW call \in Calls, In(s, call) PROVE In(u, call)
  <2>1. PICK i \in 1..Len(s) : s[i] = call
    BY <1>3 DEF In
  <2>2. i \in 1..Len(u) /\ u[i] = call
    BY <1>1, <1>2, <2>1
  <2> QED
    BY <2>2 DEF In
<1>4. ASSUME NEW call \in Calls, In(t, call) PROVE In(u, call)
  <2>1. PICK i \in 1..Len(t) : t[i] = call
    BY <1>4 DEF In
  <2>2. i + Len(s) \in 1..Len(u) /\ ~(i + Len(s) <= Len(s)) /\ (i + Len(s)) - Len(s) = i
    BY <1>1, <1>2, <2>1
  <2>3. u[i + Len(s)] = call
    BY <1>1, <2>1, <2>2
  <2> QED
    BY <2>2, <2>3 DEF In
<1>5. ASSUME NEW P \in SUBSET Ops, \A i \in 1..Len(s) : s[i].op \in P,
             \A i \in 1..Len(t) : t[i].op \in P, NEW i \in 1..Len(u)
      PROVE  u[i].op \in P
  BY <1>1, <1>2, <1>5
<1> QED
  BY <1>1, <1>3, <1>4, <1>5 DEF u

(* What may follow a call that writes: all the words are read again, and    *)
(* summed up.                                                               *)
Closing(s) == (\A a \in Words : In(s, Call("read", a))) /\ In(s, Call("sum", Chk))

LEMMA Preceded ==
  ASSUME NEW h \in Seq(Calls), NEW t \in Seq(Calls), Ordered(t),
         \A i \in 1..Len(h) : h[i].op = "read" \/ (h[i].op \in {"write", "probe"} /\ Closing(t))
  PROVE  Ordered(h \o t)
<1> DEFINE s == h \o t
<1>1. /\ s \in Seq(Calls) /\ Len(s) = Len(h) + Len(t)
      /\ \A i \in 1..(Len(h) + Len(t)) : s[i] = IF i <= Len(h) THEN h[i] ELSE t[i - Len(h)]
  BY Joined, Zenon
<1>2. Len(h) \in Nat /\ Len(t) \in Nat
  BY Listed
<1> HIDE DEF s
<1>3. \A i \in 1..Len(t) : i + Len(h) \in 1..Len(s) /\ s[i + Len(h)] = t[i]
  <2> TAKE i \in 1..Len(t)
  <2>1. i + Len(h) \in 1..Len(s) /\ ~(i + Len(h) <= Len(h)) /\ (i + Len(h)) - Len(h) = i
    BY <1>1, <1>2
  <2> QED
    BY <1>1, <2>1
<1>4. ASSUME NEW i \in 1..Len(s) PROVE
      /\ s[i].op \in {"write", "probe"} =>
           /\ \A a \in Words : Later(s, i, Call("read", a))
           /\ Later(s, i, Call("sum", Chk))
      /\ s[i].op = "sum" => s[i].at = Chk
      /\ s[i].op \in {"sum", "commit"} => \A j \in 1..Len(s) : j > i => s[j].op = "commit"
  <2>1. CASE i <= Len(h)
    <3>1. s[i] = h[i] /\ i \in 1..Len(h)
      BY <1>1, <1>2, <2>1
    <3>2. ASSUME NEW call, In(t, call) PROVE Later(s, i, call)
      <4>1. PICK j \in 1..Len(t) : t[j] = call
        BY <3>2 DEF In
      <4>2. j + Len(h) \in 1..Len(s) /\ s[j + Len(h)] = call
        BY <1>3, <4>1
      <4>3. j + Len(h) > i
        BY <1>2, <2>1
      <4> QED
        BY <4>2, <4>3 DEF Later
    <3> QED
      BY <3>1, <3>2 DEF Closing
  <2>2. CASE ~(i <= Len(h))
    <3> DEFINE k == i - Len(h)
    <3>1. k \in 1..Len(t) /\ s[i] = t[k] /\ k + Len(h) = i
      BY <1>1, <1>2, <2>2
    <3>2. ASSUME NEW call, Later(t, k, call) PROVE Later(s, i, call)
      <4>1. PICK j \in 1..Len(t) : j > k /\ t[j] = call
        BY <3>2 DEF Later
      <4>2. j + Len(h) \in 1..Len(s) /\ s[j + Len(h)] = call
        BY <1>3, <4>1
      <4>3. j + Len(h) > i
        BY <1>2, <3>1, <4>1
      <4> QED
        BY <4>2, <4>3 DEF Later
    <3>3. ASSUME NEW j \in 1..Len(s), j > i PROVE j - Len(h) \in 1..Len(t) /\ s[j] = t[j - Len(h)] /\ j - Len(h) > k
      BY <1>1, <1>2, <2>2, <3>3
    <3> HIDE DEF k
    <3> QED
      BY <3>1, <3>2, <3>3 DEF Ordered
  <2> QED
    BY <2>1, <2>2
<1> QED
  BY <1>4 DEF Ordered, s

LEMMA EachIs ==
  ASSUME NEW op \in Ops
  PROVE  /\ EachAddress(op) \in Seq(Calls) /\ Len(EachAddress(op)) = NWords + 1
         /\ \A i \in 1..Len(EachAddress(op)) : EachAddress(op)[i].op = op
         /\ \A a \in Addresses : In(EachAddress(op), Call(op, a))
<1> DEFINE s == EachAddress(op)
<1>1. \A i \in 1..NWords + 1 : Call(op, i - 1) \in Calls /\ Call(op, i - 1).op = op
  <2> TAKE i \in 1..NWords + 1
  <2>1. i - 1 \in Addresses
    BY WordFacts DEF Addresses
  <2> QED
    BY <2>1, CallIs
<1>2. s \in Seq(Calls) /\ Len(s) = NWords + 1 /\ \A i \in 1..NWords + 1 : s[i] = Call(op, i - 1)
  BY <1>1, WordFacts DEF EachAddress
<1>3. ASSUME NEW a \in Addresses PROVE In(s, Call(op, a))
  <2>1. a + 1 \in 1..NWords + 1 /\ (a + 1) - 1 = a
    BY WordFacts DEF Addresses
  <2>2. s[a + 1] = Call(op, a)
    BY <1>2, <2>1
  <2> QED
    BY <1>2, <2>1, <2>2 DEF In
<1> QED
  BY <1>1, <1>2, <1>3

LEMMA MacIs ==
  ASSUME NEW loc \in Nat, loc + MacLen <= NWords
  PROVE  /\ MacAt(loc) \in Seq(Calls)
         /\ \A i \in 1..Len(MacAt(loc)) : MacAt(loc)[i].op = "write"
         /\ \A a \in loc..loc + MacLen - 1 : In(MacAt(loc), Call("write", a))
<1> DEFINE s == MacAt(loc)
<1>1. \A i \in 1..MacLen : Call("write", loc + i - 1) \in Calls /\ Call("write", loc + i - 1).op = "write"
  <2> TAKE i \in 1..MacLen
  <2>1. loc + i - 1 \in Addresses
    BY WordFacts DEF Addresses
  <2> QED
    BY <2>1, CallIs DEF Ops
<1>2. s \in Seq(Calls) /\ Len(s) = MacLen /\ \A i \in 1..MacLen : s[i] = Call("write", loc + i - 1)
  BY <1>1, WordFacts DEF MacAt
<1>3. ASSUME NEW a \in loc..loc + MacLen - 1 PROVE In(s, Call("write", a))
  <2>1. a - loc + 1 \in 1..MacLen /\ loc + (a - loc + 1) - 1 = a
    BY WordFacts
  <2>2. s[a - loc + 1] = Call("write", a)
    BY <1>2, <2>1
  <2> QED
    BY <1>2, <2>1, <2>2 DEF In
<1> QED
  BY <1>1, <1>2, <1>3

LEMMA SumIs ==
  LET s == <<Call("sum", Chk), Call("commit", 0), Call("commit", 0), Call("commit", 0)>>
  IN  s \in Seq(Calls) /\ Ordered(s) /\ In(s, Call("sum", Chk))
<1> DEFINE s == <<Call("sum", Chk), Call("commit", 0), Call("commit", 0), Call("commit", 0)>>
<1>1. /\ Call("sum", Chk) \in Calls /\ Call("sum", Chk).op = "sum" /\ Call("sum", Chk).at = Chk
      /\ Call("commit", 0) \in Calls /\ Call("commit", 0).op = "commit"
  BY CallIs, WordFacts DEF Ops
<1>2. /\ s \in Seq(Calls) /\ Len(s) = 4 /\ s[1] = Call("sum", Chk)
      /\ \A i \in 2..4 : s[i] = Call("commit", 0)
  BY <1>1
<1> HIDE DEF s
<1>3. Ordered(s)
  BY <1>1, <1>2 DEF Ordered
<1>4. In(s, Call("sum", Chk))
  BY <1>2 DEF In
<1> QED
  BY <1>2, <1>3, <1>4 DEF s

LEMMA UpdateIs ==
  /\ Update \in Seq(Calls)
  /\ Device = "X553" => Ordered(Update) /\ Closing(Update)
<1>1. CASE Device = "X550"
  <2>1. Call("probe", 0) \in Calls /\ Call("sum", Chk) \in Calls /\ Call("commit", 0) \in Calls
    BY CallIs, WordFacts DEF Ops
  <2>2. Update = <<Call("probe", 0), Call("probe", 0), Call("sum", Chk), Call("commit", 0)>>
    BY <1>1 DEF Update
  <2> QED
    BY <1>1, <2>1, <2>2
<1>2. CASE Device = "X553"
  <2> DEFINE p == <<Call("probe", 0)>>
             r == EachAddress("read")
             s == <<Call("sum", Chk), Call("commit", 0), Call("commit", 0), Call("commit", 0)>>
  <2>1. Update = p \o r \o s
    BY <1>2, Zenon DEF Update
  <2>2. /\ p \in Seq(Calls) /\ Len(p) = 1 /\ p[1].op = "probe"
    BY CallIs, WordFacts DEF Ops
  <2>3. /\ r \in Seq(Calls) /\ \A i \in 1..Len(r) : r[i].op = "read"
        /\ \A a \in Addresses : In(r, Call("read", a))
    BY EachIs DEF Ops
  <2>4. s \in Seq(Calls) /\ Ordered(s) /\ In(s, Call("sum", Chk))
    BY SumIs, Zenon
  <2>5. /\ \A a \in Words : Call("read", a) \in Calls
        /\ Call("sum", Chk) \in Calls
    BY CallIs, WordFacts DEF Ops
  <2> HIDE DEF p, r, s
  <2>6. Update = p \o (r \o s)
    <3>1. p \in Seq(Calls) /\ r \in Seq(Calls) /\ s \in Seq(Calls)
      BY <2>2, <2>3, <2>4, Zenon
    <3>2. (p \o r) \o s = p \o (r \o s)
      BY <3>1, ConcatAssociative, SMTT(30)
    <3> QED
      BY <2>1, <3>2, Zenon
  <2> DEFINE t == r \o s
  <2>7. t \in Seq(Calls) /\ Ordered(t)
    BY <2>3, <2>4, InJoined, Preceded, Zenon
  <2>8. /\ \A a \in Words : In(t, Call("read", a))
        /\ In(t, Call("sum", Chk))
    BY <2>3, <2>4, <2>5, InJoined, WordFacts, Zenon
  <2> HIDE DEF t
  <2>9. Closing(t)
    BY <2>8, Zenon DEF Closing
  <2>10. \A i \in 1..Len(p) : p[i].op = "read" \/ (p[i].op \in {"write", "probe"} /\ Closing(t))
    BY <2>2, <2>9
  <2>11. p \o t \in Seq(Calls) /\ Ordered(p \o t)
    BY <2>2, <2>7, <2>10, InJoined, Preceded, Zenon
  <2>12. /\ \A a \in Words : In(p \o t, Call("read", a))
         /\ In(p \o t, Call("sum", Chk))
    BY <2>2, <2>5, <2>7, <2>8, InJoined, Zenon
  <2> QED
    BY <2>6, <2>11, <2>12, Zenon DEF Closing, t
<1> QED
  BY <1>1, <1>2, DeviceAssumption

Kinds == {"write", "dump"} \cup (IF Device = "X553" THEN {"mac"} ELSE {})

LEMMA ProgramIs ==
  ASSUME NEW kind \in Kinds
  PROVE  /\ Program(kind) \in Seq(Calls)
         /\ Device = "X553" =>
              /\ Ordered(Program(kind))
              /\ kind = "dump" => \A i \in 1..Len(Program(kind)) : Program(kind)[i].op = "read"
              /\ kind # "dump" => Closing(Program(kind))
              /\ kind = "write" => \A a \in Words : In(Program(kind), Call("write", a))
              /\ kind = "mac" => \A a \in MacWords : In(Program(kind), Call("write", a))
<1> DEFINE r == EachAddress("read")
           w == EachAddress("write")
           m == MacAt(MacLoc)
           n == MacAt(AltMacLoc)
           u == Update
<1>1. /\ r \in Seq(Calls) /\ \A i \in 1..Len(r) : r[i].op = "read"
      /\ \A a \in Addresses : In(r, Call("read", a))
  BY EachIs DEF Ops
<1>2. /\ w \in Seq(Calls) /\ \A i \in 1..Len(w) : w[i].op = "write"
      /\ \A a \in Addresses : In(w, Call("write", a))
  BY EachIs DEF Ops
<1>3. u \in Seq(Calls) /\ (Device = "X553" => Ordered(u) /\ Closing(u))
  BY UpdateIs
<1>4. /\ m \in Seq(Calls) /\ \A i \in 1..Len(m) : m[i].op = "write"
      /\ \A a \in MacLoc..MacLoc + MacLen - 1 : In(m, Call("write", a))
  BY MacIs, WordsAssumption
<1>5. /\ n \in Seq(Calls) /\ \A i \in 1..Len(n) : n[i].op = "write"
      /\ \A a \in AltMacLoc..AltMacLoc + MacLen - 1 : In(n, Call("write", a))
  BY MacIs, WordsAssumption
<1>6. /\ \A a \in Words : Call("read", a) \in Calls /\ Call("write", a) \in Calls
      /\ Call("sum", Chk) \in Calls /\ Words \subseteq Addresses /\ MacWords \subseteq Words
  BY CallIs, WordFacts DEF Ops
<1>7. /\ kind = "write" => Program(kind) = w \o u
      /\ kind = "dump" => Program(kind) = r
      /\ kind = "mac" => Program(kind) = r \o m \o n \o u
  BY Zenon DEF Program
<1> HIDE DEF r, w, m, n, u
<1>8. CASE kind = "dump"
  <2>1. Ordered(r)
    BY <1>1 DEF Ordered
  <2> QED
    BY <1>1, <1>7, <1>8, <2>1
<1>9. CASE kind = "write"
  <2>1. w \o u \in Seq(Calls)
    BY <1>2, <1>3, InJoined, Zenon
  <2>2. ASSUME Device = "X553" PROVE Ordered(w \o u) /\ Closing(w \o u)
    <3>1. \A i \in 1..Len(w) : w[i].op = "read" \/ (w[i].op \in {"write", "probe"} /\ Closing(u))
      BY <1>2, <1>3, <2>2
    <3>2. Ordered(w \o u)
      BY <1>2, <1>3, <2>2, <3>1, Preceded, Zenon
    <3>3. Closing(w \o u)
      BY <1>2, <1>3, <1>6, <2>2, InJoined, Zenon DEF Closing
    <3> QED
      BY <3>2, <3>3
  <2>3. \A a \in Words : In(w \o u, Call("write", a))
    BY <1>2, <1>3, <1>6, InJoined, Zenon
  <2> QED
    BY <1>7, <1>9, <2>1, <2>2, <2>3
<1>10. CASE kind = "mac"
  <2>1. Device = "X553"
    BY <1>10 DEF Kinds
  <2> DEFINE P == {"read", "write"}
  <2>2. /\ P \in SUBSET Ops
        /\ \A i \in 1..Len(r) : r[i].op \in P
        /\ \A i \in 1..Len(m) : m[i].op \in P
        /\ \A i \in 1..Len(n) : n[i].op \in P
    BY <1>1, <1>4, <1>5 DEF Ops
  <2>3. r \o m \in Seq(Calls)
    BY <1>1, <1>4, InJoined, Zenon
  <2>4. r \o m \o n \in Seq(Calls)
    BY <1>5, <2>3, InJoined, Zenon
  <2> HIDE DEF P
  <2>5. \A i \in 1..Len(r \o m) : (r \o m)[i].op \in P
    BY <1>1, <1>4, <2>2, InJoined, Zenon
  <2> DEFINE g == r \o m
  <2> HIDE DEF g
  <2>6. /\ g \in Seq(Calls) /\ \A i \in 1..Len(g) : g[i].op \in P
        /\ \A a \in MacLoc..MacLoc + MacLen - 1 : a \in Words => In(g, Call("write", a))
    BY <1>1, <1>4, <1>6, <2>3, <2>5, InJoined, Zenon DEF g
  <2> DEFINE h == g \o n
  <2>7. h \in Seq(Calls) /\ \A i \in 1..Len(h) : h[i].op \in P
    BY <1>5, <2>2, <2>6, InJoined, Zenon
  <2>8. /\ \A a \in MacLoc..MacLoc + MacLen - 1 : a \in Words => In(h, Call("write", a))
        /\ \A a \in AltMacLoc..AltMacLoc + MacLen - 1 : a \in Words => In(h, Call("write", a))
    BY <1>5, <1>6, <2>6, InJoined, Zenon
  <2> HIDE DEF h
  <2>9. \A a \in MacWords : In(h, Call("write", a))
    BY <1>6, <2>8, Zenon DEF MacWords
  <2>10. \A i \in 1..Len(h) : h[i].op = "read" \/ (h[i].op \in {"write", "probe"} /\ Closing(u))
    BY <1>3, <2>1, <2>7 DEF P
  <2>11. h \o u \in Seq(Calls) /\ Ordered(h \o u)
    BY <1>3, <2>1, <2>7, <2>10, InJoined, Preceded, Zenon
  <2>12. Closing(h \o u)
    BY <1>3, <1>6, <2>1, <2>7, InJoined, Zenon DEF Closing
  <2>13. \A a \in MacWords : In(h \o u, Call("write", a))
    BY <1>3, <1>6, <2>7, <2>9, InJoined, Zenon
  <2>14. Program(kind) = h \o u
    BY <1>7, <1>10 DEF g, h
  <2> QED
    BY <1>10, <2>11, <2>12, <2>13, <2>14
<1> QED
  BY <1>8, <1>9, <1>10 DEF Kinds

-----------------------------------------------------------------------------
(* The values.                                                              *)

LEMMA ValuesAre ==
  /\ \A value \in {"zero", "old", "new", "file"} : Plain(value) \in Values
  /\ \A content \in [Addresses -> Values] : SumOf(content) \in Values
  /\ Blank \in [Addresses -> Values] /\ NoTask \in Commands
<1>1. \A value \in {"zero", "old", "new", "file"} : Plain(value) \in Values
  BY DEF Plain, Values
<1>2. ASSUME NEW content \in [Addresses -> Values] PROVE SumOf(content) \in Values
  <2>1. \A a \in Words : content[a][a] \in {"zero", "old", "new", "file"}
    BY WordFacts DEF Values
  <2> QED
    BY <2>1 DEF SumOf, Values
<1>3. Blank \in [Addresses -> Values] /\ NoTask \in Commands
  BY <1>1, WordFacts DEF Blank, NoTask, Commands
<1> QED
  BY <1>1, <1>2, <1>3

(* The tool is idle exactly when there is nothing left to call.             *)
LEMMA BegunIdle ==
  ASSUME ToolType, NEW calls
  PROVE  /\ (Begin(calls).pc = "idle") = (calls = <<>>)
         /\ Begin(calls).ok = FALSE /\ Begin(calls).tries = 0 /\ Begin(calls).hwTries = 0
         /\ Begin(calls).pc \in {"idle", "smbi"} /\ Begin(calls).phase = "acq"
<1>1. CASE calls = <<>>
  BY <1>1 DEF Begin, NoTool
<1>2. CASE calls # <<>>
  <2> DEFINE bit == IF Head(calls).op = "commit" THEN "mng" ELSE "eep"
             t == TakeBit("acq", bit)
  <2>1. Begin(calls) = [t EXCEPT !.ok = FALSE]
    BY <1>2 DEF Begin
  <2>2. bit \in {"eep", "mng"}
    OBVIOUS
  <2> HIDE DEF bit
  <2>3. t \in ToolSet /\ Fresh([t EXCEPT !.ok = FALSE], "acq", bit)
    BY <2>2, TakeBitIs
  <2> HIDE DEF t
  <2>4. [t EXCEPT !.ok = FALSE].ok = FALSE
    BY <2>3 DEF ToolSet
  <2> QED
    BY <1>2, <2>1, <2>3, <2>4 DEF Fresh
<1> QED
  BY <1>1, <1>2

LEMMA RunFields ==
  ASSUME DataType
  PROVE  /\ run.count \in 0..MaxRuns /\ run.kind \in {"write", "dump", "mac"}
         /\ run.calls \in Seq(Calls) /\ run.buf \in [Addresses -> Values]
         /\ run.found \in SUBSET {"eep", "mng"} /\ run.missed \in BOOLEAN
         /\ run.update \in {"none", "ok", "fail"} /\ run.end \in {"none", "killed", "done"}
  BY DEF DataType, RunSet

(* A step of the tool other than from idle has a call to make.              *)
LEMMA Calling ==
  ASSUME DataType, tool.pc # "idle"
  PROVE  /\ run.calls # <<>> /\ Head(run.calls) \in Calls /\ Tail(run.calls) \in Seq(Calls)
         /\ Len(run.calls) \in Nat /\ Len(run.calls) > 0
         /\ Head(run.calls) = run.calls[1] /\ Len(Tail(run.calls)) = Len(run.calls) - 1
         /\ \A i \in 1..Len(Tail(run.calls)) :
              i + 1 \in 1..Len(run.calls) /\ Tail(run.calls)[i] = run.calls[i + 1]
<1>1. run.calls \in Seq(Calls) /\ run.calls # <<>>
  BY RunFields DEF DataType
<1> DEFINE s == run.calls
<1> HIDE DEF s
<1>2. s \in Seq(Calls) /\ s # <<>>
  BY <1>1 DEF s
<1>3. Len(s) \in Nat /\ Len(s) > 0 /\ Head(s) = s[1] /\ Len(Tail(s)) = Len(s) - 1
  BY <1>2
<1>4. \A i \in 1..Len(Tail(s)) : i + 1 \in 1..Len(s) /\ Tail(s)[i] = s[i + 1]
  BY <1>2, <1>3
<1> QED
  BY <1>2, <1>3, <1>4 DEF s

(* What Return makes of the run.                                            *)
Failed == Head(run.calls).op \in {"probe", "sum"} /\ ~tool.ok
Rest == IF Failed THEN <<>> ELSE Tail(run.calls)

LEMMA ReturnIs ==
  ASSUME DataType, Return
  PROVE  /\ tool.pc = "ret" /\ tool' = Begin(Rest) /\ Rest \in Seq(Calls)
         /\ run'.calls = Rest /\ run'.count = run.count /\ run'.kind = run.kind
         /\ run'.found = run.found
         /\ run'.buf = IF Head(run.calls).op = "probe" \/ Rest = <<>> THEN Blank ELSE run.buf
         /\ run'.missed = (run.missed \/ (Head(run.calls).op # "commit" /\ ~tool.ok))
         /\ Failed => run'.update = "fail"
         /\ ~Failed /\ Head(run.calls).op = "commit" =>
              run'.update = IF tool.ok THEN "ok" ELSE "fail"
         /\ ~Failed /\ Head(run.calls).op # "commit" => run'.update = run.update
         /\ run'.end = IF Rest = <<>> THEN "done" ELSE run.end
         /\ run' \in RunSet
<1>1. tool.pc = "ret" /\ tool' = Begin(Rest)
  BY DEF Return, At, Set, Rest, Failed
<1>2. Rest \in Seq(Calls)
  BY <1>1, Calling DEF Rest
<1> DEFINE update == CASE Failed -> "fail"
                       [] Head(run.calls).op = "commit" -> (IF tool.ok THEN "ok" ELSE "fail")
                       [] OTHER -> run.update
           buf == IF Head(run.calls).op = "probe" \/ Rest = <<>> THEN Blank ELSE run.buf
           missed == run.missed \/ (Head(run.calls).op # "commit" /\ ~tool.ok)
           end == IF Rest = <<>> THEN "done" ELSE run.end
<1>3. run' = [run EXCEPT !.calls = Rest, !.buf = buf, !.missed = missed,
                         !.update = update, !.end = end]
  BY Zenon DEF Return, Rest, Failed
<1>4. /\ Failed => update = "fail"
      /\ ~Failed /\ Head(run.calls).op = "commit" => update = IF tool.ok THEN "ok" ELSE "fail"
      /\ ~Failed /\ Head(run.calls).op # "commit" => update = run.update
  <2>1. Failed => Head(run.calls).op # "commit"
    BY DEF Failed
  <2> QED
    BY <2>1
<1>5. /\ update \in {"none", "ok", "fail"} /\ buf \in [Addresses -> Values]
      /\ missed \in BOOLEAN /\ end \in {"none", "killed", "done"}
  BY RunFields, ValuesAre
<1> HIDE DEF update, buf, missed, end
<1>6. /\ run'.calls = Rest /\ run'.count = run.count /\ run'.kind = run.kind
      /\ run'.found = run.found /\ run'.buf = buf /\ run'.missed = missed
      /\ run'.update = update /\ run'.end = end /\ run' \in RunSet
  BY <1>2, <1>3, <1>5 DEF DataType, RunSet
<1> QED
  BY <1>1, <1>2, <1>4, <1>6 DEF buf, missed, end

LEMMA StartIs ==
  ASSUME Types, DataType, Start
  PROVE  /\ tool.pc = "idle" /\ run' \in RunSet /\ run'.kind \in Kinds
         /\ run'.calls = Program(run'.kind) /\ tool' = Begin(run'.calls)
         /\ run'.buf = Blank /\ run'.missed = FALSE /\ run'.update = "none" /\ run'.end = "none"
<1>1. PICK kind \in Kinds :
        /\ run' = [count |-> run.count + 1, kind |-> kind, calls |-> Program(kind),
                   found |-> sw, buf |-> Blank,
                   missed |-> FALSE, update |-> "none", end |-> "none"]
        /\ tool' = Begin(Program(kind))
  BY DEF Start, Set, Kinds
<1>2. tool.pc = "idle" /\ run.count + 1 \in 0..MaxRuns
  BY RunFields, BoundsAssumption DEF Start, At
<1>3. Program(kind) \in Seq(Calls) /\ kind \in {"write", "dump", "mac"}
  BY ProgramIs DEF Kinds
<1>4. Blank \in [Addresses -> Values] /\ sw \in SUBSET {"eep", "mng"}
  BY ValuesAre DEF Types, SyncType
<1> QED
  BY <1>1, <1>2, <1>3, <1>4 DEF RunSet

LEMMA KillIs ==
  ASSUME DataType, Kill
  PROVE  /\ tool.pc # "idle" /\ tool' = NoTool /\ run' \in RunSet
         /\ run'.calls = <<>> /\ run'.end = "killed" /\ run'.buf = Blank
         /\ run'.kind = run.kind /\ run'.update = run.update /\ run'.missed = run.missed
<1>1. tool.pc # "idle" /\ tool' = NoTool
  BY DEF Kill, At, Set
<1>2. run' = [run EXCEPT !.end = "killed", !.calls = <<>>, !.buf = Blank]
  BY DEF Kill
<1>3. run \in RunSet /\ Blank \in [Addresses -> Values] /\ <<>> \in Seq(Calls)
  BY ValuesAre DEF DataType
<1>4. run' \in RunSet
  BY <1>2, <1>3 DEF RunSet
<1>5. /\ run'.calls = <<>> /\ run'.end = "killed" /\ run'.buf = Blank
      /\ run'.kind = run.kind /\ run'.update = run.update /\ run'.missed = run.missed
  BY <1>2, <1>3 DEF RunSet
<1> QED
  BY <1>1, <1>4, <1>5

LEMMA FetchRun ==
  ASSUME DataType, Fetch
  PROVE  /\ tool.pc = "fetch" /\ run' \in RunSet
         /\ run'.calls = run.calls /\ run'.end = run.end /\ run'.kind = run.kind
         /\ run'.update = run.update /\ run'.missed = run.missed
         /\ run'.buf = IF Head(run.calls).op = "read"
                       THEN [run.buf EXCEPT ![Head(run.calls).at] = mail.cmd.data]
                       ELSE run.buf
<1>1. tool.pc = "fetch" /\ mail.cmd.data \in Values
  BY DEF Fetch, At, DataType, Commands
<1>2. CASE Head(run.calls).op = "read"
  <2> DEFINE buf == [run.buf EXCEPT ![Head(run.calls).at] = mail.cmd.data]
  <2>1. buf \in [Addresses -> Values]
    BY <1>1, RunFields
  <2>2. run' = [run EXCEPT !.buf = buf]
    BY <1>2, RunFields DEF Fetch
  <2> HIDE DEF buf
  <2>3. run' \in RunSet /\ run'.buf = buf /\ run'.calls = run.calls /\ run'.end = run.end
        /\ run'.kind = run.kind /\ run'.update = run.update /\ run'.missed = run.missed
    BY <2>1, <2>2 DEF DataType, RunSet
  <2> QED
    BY <1>1, <1>2, <2>3 DEF buf
<1>3. CASE Head(run.calls).op # "read"
  BY <1>1, <1>3 DEF Fetch, DataType
<1> QED
  BY <1>2, <1>3

-----------------------------------------------------------------------------
(* The types.                                                               *)

(* The steps within an acquire or a release.                                *)
LEMMA LockingIs ==
  ASSUME ToolType, Smbi \/ RegGot \/ RegBusy \/ PutRead \/ PutReg \/ Look \/ SetBits
  PROVE  /\ tool.pc \in Locking \ {"put2"} /\ tool'.pc \in Locking /\ Same
         /\ tool'.ok = tool.ok
<1> tool \in ToolSet
  BY DEF ToolType
<1> USE DEF Locking
<1>1. CASE Smbi
  <2>1. CASE tool' = [tool EXCEPT !.hwTries = tool.hwTries + 1]
    BY <1>1, <2>1, SmbiIs DEF ToolSet
  <2>2. CASE tool' = [tool EXCEPT !.pc = "reg", !.hwTries = 0]
    BY <1>1, <2>2, SmbiIs DEF ToolSet
  <2> QED
    BY <1>1, <2>1, <2>2 DEF Smbi, Set
<1>2. CASE RegGot
  BY <1>2, RegGotIs DEF RegGot, Set, ToolSet
<1>3. CASE RegBusy
  <2>1. CASE tool' = [tool EXCEPT !.hwTries = tool.hwTries + 1]
    BY <1>3, <2>1, RegBusyIs DEF ToolSet
  <2>2. CASE tool' = [tool EXCEPT !.pc = "put1", !.then = "out"]
    BY <1>3, <2>2, RegBusyIs DEF ToolSet
  <2> QED
    BY <1>3, <2>1, <2>2 DEF RegBusy, Set
<1>4. CASE PutRead \/ PutReg
  BY <1>4, PutRegIs DEF PutRead, PutReg, Goto, Set, ToolSet
<1>5. CASE Look
  BY <1>5, LookIs DEF Look, Set, ToolSet
<1>6. CASE SetBits
  BY <1>6, SetBitsIs DEF SetBits, Set, ToolSet
<1> QED
  BY <1>1, <1>2, <1>3, <1>4, <1>5, <1>6

(* Putting the hardware semaphore back leaves a call where it was: an       *)
(* acquire has no result yet.                                               *)
LEMMA PutKeeps ==
  ASSUME Types, StageInv, OkInv, PutHwSemaphore
  PROVE  /\ tool.pc = "put2" /\ tool'.pc \in {"ret", "mail", "fetch", "smbi"}
         /\ tool'.ok = tool.ok
         /\ tool.ok => tool'.pc \in {"ret", "fetch"} \/ (tool'.pc = "smbi" /\ tool'.phase = "rel")
         /\ tool.ok /\ Head(run.calls).op = "read" =>
              tool.bit = "eep" \/ tool'.pc = "fetch" \/ (tool'.pc = "smbi" /\ tool'.bit = "mng")
         /\ tool'.pc = "smbi" =>
              tool'.hwTries = 0 /\ (tool'.tries = 0 \/ (tool.then = "again" /\ Retried))
<1>1. /\ ToolType /\ tool \in ToolSet /\ tool.bit \in {"eep", "mng"}
      /\ tool.phase \in {"acq", "rel"} /\ tool.then \in Outcomes /\ tool.ok \in BOOLEAN
  BY ToolFields DEF Types, ToolType
<1>2. tool.pc = "put2"
  BY <1>1, PutHwSemaphoreIs
<1>3. /\ tool.then \in {"again", "lost", "won"} => tool.phase = "acq"
      /\ tool.ok => tool.phase = "rel"
  BY <1>1, <1>2 DEF StageInv, OkInv
<1>t. \A phase \in {"acq", "rel"}, bit \in {"eep", "mng"} :
        TakeBit(phase, bit).ok = tool.ok /\ [TakeBit(phase, bit) EXCEPT !.ok = FALSE].ok = FALSE
  <2> TAKE phase \in {"acq", "rel"}, bit \in {"eep", "mng"}
  <2>1. TakeBit(phase, bit) \in ToolSet
    BY <1>1, TakeBitIs
  <2>2. [TakeBit(phase, bit) EXCEPT !.ok = FALSE].ok = FALSE
    BY <2>1 DEF ToolSet
  <2>3. TakeBit(phase, bit).ok = tool.ok
    BY DEF TakeBit, NoTool
  <2> QED
    BY <2>2, <2>3
<1>f. \A phase \in {"acq", "rel"}, bit \in {"eep", "mng"} :
        /\ Fresh(TakeBit(phase, bit), phase, bit)
        /\ Fresh([TakeBit(phase, bit) EXCEPT !.ok = FALSE], phase, bit)
  BY <1>1, TakeBitIs
<1>4. CASE tool.then = "won"
  <2>1. tool' = Won /\ ~tool.ok
    BY <1>1, <1>3, <1>4, PutHwSemaphoreIs
  <2>2. CASE tool.bit = "eep"
    <3>1. tool' = TakeBit("acq", "mng")
      BY <2>1, <2>2 DEF Won
    <3> QED
      BY <1>2, <1>t, <1>f, <2>1, <3>1 DEF Fresh
  <2>3. CASE tool.bit = "mng"
    <3>1. tool' = [tool EXCEPT !.pc = "mail"]
      BY <2>1, <2>3 DEF Won
    <3> QED
      BY <1>1, <1>2, <2>1, <3>1 DEF ToolSet
  <2> QED
    BY <1>1, <2>2, <2>3
<1>5. CASE tool.then = "released"
  <2>1. tool' = Released
    BY <1>1, <1>5, PutHwSemaphoreIs
  <2> DEFINE back == tool.bit = "eep" \/ ~Nested
             fetched == Head(run.calls).op \in {"read", "probe"} /\ tool.ok
  <2>2. CASE back
    <3>1. tool' = [tool EXCEPT !.pc = "ret"]
      BY <2>1, <2>2 DEF Released
    <3>2. Head(run.calls).op = "read" => tool.bit = "eep"
      BY <2>2 DEF Nested
    <3> QED
      BY <1>1, <1>2, <3>1, <3>2 DEF ToolSet
  <2>3. CASE ~back /\ fetched
    <3>1. tool' = [tool EXCEPT !.pc = "fetch"]
      BY <2>1, <2>3 DEF Released
    <3> QED
      BY <1>1, <1>2, <3>1 DEF ToolSet
  <2>4. CASE ~back /\ ~fetched
    <3>1. tool' = TakeBit("rel", "eep")
      BY <2>1, <2>4 DEF Released
    <3> QED
      BY <1>2, <1>t, <1>f, <2>4, <3>1 DEF Fresh
  <2> QED
    BY <2>2, <2>3, <2>4
<1>6. CASE tool' = Lost /\ tool.phase = "acq"
  <2>1. ~tool.ok
    BY <1>1, <1>3, <1>6
  <2>2. CASE tool.bit = "mng" /\ Nested
    <3>1. tool' = [TakeBit("rel", "eep") EXCEPT !.ok = FALSE]
      BY <1>6, <2>2, Zenon DEF Lost
    <3> QED
      BY <1>1, <1>2, <1>t, <1>f, <2>1, <3>1 DEF Fresh
  <2>3. CASE ~(tool.bit = "mng" /\ Nested)
    <3>1. tool' = [tool EXCEPT !.pc = "ret", !.ok = FALSE]
      BY <1>6, <2>3, Zenon DEF Lost
    <3> QED
      BY <1>1, <1>2, <2>1, <3>1 DEF ToolSet
  <2> QED
    BY <2>2, <2>3
<1>7. CASE tool.then = "out" /\ tool.phase = "rel"
  <2>1. tool' = TakeBit("rel", tool.bit)
    BY <1>7 DEF PutHwSemaphore, Set
  <2> QED
    BY <1>1, <1>2, <1>t, <1>f, <2>1 DEF Fresh
<1>8. CASE tool.then = "again" /\ ~(tool' = Lost)
  <2>1. tool' = Again /\ Retried /\ ~tool.ok
    BY <1>1, <1>3, <1>8, PutHwSemaphoreIs DEF PutHwSemaphore, Set
  <2>2. tool' = [tool EXCEPT !.pc = "smbi", !.tries = @ + 1, !.hwTries = 0]
    BY <1>8, <2>1 DEF Again
  <2>3. tool'.ok = tool.ok /\ tool'.hwTries = 0 /\ tool'.pc = "smbi"
    BY <1>1, <2>2 DEF ToolSet
  <2> QED
    BY <1>2, <1>8, <2>1, <2>3
<1> QED
  BY <1>1, <1>3, <1>4, <1>5, <1>6, <1>7, <1>8, PutHwSemaphoreIs DEF Outcomes

(* The steps of the host command and of the fetch.                          *)
LEMMA HostIs ==
  ASSUME Types, HostInterfaceCommand \/ Fetch
  PROVE  /\ tool.pc \in {"mail", "poll", "fetch"} /\ tool'.pc \in {"poll", "smbi"}
         /\ Post => tool.pc = "mail" /\ tool'.pc = "poll" /\ tool'.ok = tool.ok
                    /\ tool'.tries = tool.tries /\ tool'.hwTries = tool.hwTries
         /\ ~Post => tool'.pc = "smbi" /\ tool'.phase = "rel" /\ tool'.tries = 0
                     /\ tool'.hwTries = 0
         /\ Disabled \/ PollTimeout => ~tool'.ok /\ tool'.bit = "mng"
         /\ PollDone => tool.pc = "poll" /\ tool'.ok = mail.valid /\ tool'.bit = "mng"
         /\ Fetch => tool.pc = "fetch" /\ tool'.ok = tool.ok /\ tool'.bit = "eep"
<1>1. ToolType /\ tool \in ToolSet /\ mail.valid \in BOOLEAN
  BY DEF Types, MailType, ToolType
<1> DEFINE t == TakeBit("rel", "mng")
<1>2. t \in ToolSet /\ \A b \in BOOLEAN : Fresh([t EXCEPT !.ok = b], "rel", "mng")
  BY <1>1, TakeBitIs
<1>3. /\ Disabled \/ PollTimeout => tool' = [t EXCEPT !.ok = FALSE]
      /\ PollDone => tool' = [t EXCEPT !.ok = mail.valid]
  BY DEF Disabled, PollTimeout, PollDone, Set
<1> HIDE DEF t
<1>4. \A b \in BOOLEAN : [t EXCEPT !.ok = b].ok = b
  BY <1>2 DEF ToolSet
<1>5. CASE Post
  <2>1. tool.pc = "mail" /\ tool' = [tool EXCEPT !.pc = "poll"]
    BY <1>5 DEF Post, At, Goto, Set
  <2>3. tool'.pc = "poll" /\ tool'.ok = tool.ok /\ tool'.tries = tool.tries /\ tool'.hwTries = tool.hwTries
    BY <1>1, <2>1 DEF ToolSet
  <2>4. ~Disabled /\ ~PollTimeout /\ ~PollDone /\ ~Fetch
    <3>1. ~Disabled
      BY <1>2, <1>3, <2>3 DEF Fresh
    <3> QED
      BY <2>1, <3>1 DEF PollTimeout, PollDone, Fetch, At
  <2> QED
    BY <1>5, <2>1, <2>3, <2>4
<1>6. CASE Disabled \/ PollTimeout \/ PollDone
  <2>1. tool.pc \in {"mail", "poll"} /\ ~Fetch
    BY <1>6 DEF Disabled, PollTimeout, PollDone, Fetch, At
  <2>2. Fresh(tool', "rel", "mng") /\ (PollDone => tool.pc = "poll" /\ tool'.ok = mail.valid)
        /\ (Disabled \/ PollTimeout => ~tool'.ok)
    BY <1>1, <1>2, <1>3, <1>4, <1>6 DEF PollDone, At
  <2> QED
    BY <2>1, <2>2, PostIs, <1>1 DEF Fresh
<1>7. CASE Fetch
  <2>1. tool.pc = "fetch" /\ tool' = TakeBit("rel", "eep")
    BY <1>7 DEF Fetch, At, Set
  <2>2. Fresh(tool', "rel", "eep") /\ tool'.ok = tool.ok
    <3>1. TakeBit("rel", "eep").ok = tool.ok
      BY DEF TakeBit, NoTool
    <3> QED
      BY <1>1, <2>1, <3>1, TakeBitIs
  <2>3. ~Post /\ ~Disabled /\ ~PollTimeout /\ ~PollDone
    BY <2>1 DEF Post, Disabled, PollTimeout, PollDone, At
  <2> QED
    BY <1>7, <2>1, <2>2, <2>3 DEF Fresh
<1> QED
  BY <1>5, <1>6, <1>7 DEF HostInterfaceCommand

LEMMA ToolSplit ==
  ASSUME [Next]_vars
  PROVE  \/ Smbi \/ RegGot \/ RegBusy \/ PutRead \/ PutReg \/ Look \/ SetBits
         \/ PutHwSemaphore \/ HostInterfaceCommand \/ Fetch
         \/ Start \/ Return \/ Kill \/ UNCHANGED <<tool, run>>
  BY DEF Next, ToolStep, Semaphores, Mailbox, TakeUp, Answer, Refuse, FwHolding, FwLook, FwClear,
         FwWant, FwTakeReg, FwRetry, vars

LEMMA MemorySplit ==
  ASSUME [Next]_vars
  PROVE  UNCHANGED memory \/ Post \/ Mailbox
  BY DEF Next, ToolStep, Semaphores, HostInterfaceCommand, Mailbox, FwHolding,
         Smbi, RegGot, RegBusy, PutRead, PutReg, Look, SetBits, PutHwSemaphore, PutSmbi,
         Disabled, PollDone, PollTimeout, Fetch, Start, Return, Kill,
         FwWant, FwTakeReg, FwLook, FwRetry, FwClear, vars, memory

LEMMA RunSplit ==
  ASSUME [Next]_vars
  PROVE  UNCHANGED run \/ Start \/ Return \/ Kill \/ Fetch
  BY Frame

MailSet == [pending : BOOLEAN, valid : BOOLEAN, cmd : Commands]

LEMMA MailFields ==
  ASSUME DataType
  PROVE  /\ mail \in MailSet /\ mail.pending \in BOOLEAN /\ mail.valid \in BOOLEAN
         /\ mail.cmd \in Commands /\ mail.cmd.data \in Values /\ mail.cmd.at \in Addresses
         /\ task \in Commands /\ task.data \in Values /\ task.at \in Addresses
  BY DEF DataType, MailSet, Commands

(* What the host command posts, and what becomes of it.                     *)
LEMMA PostMail ==
  ASSUME Types, DataType, Post
  PROVE  /\ tool.pc = "mail" /\ mail' \in MailSet
         /\ mail'.pending = TRUE /\ mail'.cmd.op = Head(run.calls).op
         /\ mail'.cmd.at = Head(run.calls).at
         /\ mail'.cmd.op \in {"write", "sum"} => mail'.cmd.data = Data(Head(run.calls))
<1> DEFINE call == Head(run.calls)
           data == CASE call.op = "sum" -> SumOf(run.buf)
                     [] call.op = "write" -> Plain(IF call.at = Chk THEN "file" ELSE "new")
                     [] OTHER -> mail.cmd.data
<1>1. tool.pc = "mail" /\ mail' = [mail EXCEPT !.pending = TRUE, !.cmd = Command(call)]
  BY DEF Post, At
<1>2. call \in Calls
  BY <1>1, Calling
<1>3. mail \in MailSet
  BY MailFields
<1>4. /\ call.op = "sum" => data = SumOf(run.buf)
      /\ call.op = "write" => data = Plain(IF call.at = Chk THEN "file" ELSE "new")
      /\ call.op \notin {"sum", "write"} => data = mail.cmd.data
  OBVIOUS
<1>5. Command(call) = [op |-> call.op, at |-> call.at, data |-> data]
  BY Zenon DEF Command
<1>6. data \in Values
  BY <1>4, ValuesAre, RunFields, MailFields
<1>7. call.op \in {"write", "sum"} => data = Data(call)
  BY <1>4 DEF Data
<1> HIDE DEF call, data
<1>8. Command(call) \in Commands
  BY <1>2, <1>5, <1>6 DEF Commands, Calls
<1>9. mail' \in MailSet /\ mail'.pending = TRUE /\ mail'.cmd = Command(call)
  BY <1>1, <1>3, <1>8 DEF MailSet
<1> QED
  BY <1>1, <1>5, <1>7, <1>9 DEF call

LEMMA AnswerIs ==
  ASSUME DataType, Answer
  PROVE  /\ task # NoTask /\ task' = NoTask /\ mail' \in MailSet
         /\ mail'.pending = FALSE /\ mail'.valid = TRUE
         /\ mail'.cmd.op = mail.cmd.op /\ mail'.cmd.at = mail.cmd.at
         /\ task.op = "read" => mail'.cmd.data = shadow[task.at]
         /\ shadow' = IF task.op \in {"write", "sum"}
                      THEN [shadow EXCEPT ![task.at] = task.data] ELSE shadow
         /\ shadow' \in [Addresses -> Values]
         /\ flash' = IF task.op = "commit" THEN shadow ELSE flash
<1>1. task # NoTask /\ task' = NoTask
  BY DEF Answer
<1> DEFINE cmd == IF task.op = "read"
                  THEN [mail.cmd EXCEPT !.data = shadow[task.at]] ELSE mail.cmd
<1>2. mail' = [pending |-> FALSE, valid |-> TRUE, cmd |-> cmd]
  BY DEF Answer
<1>3. /\ cmd \in Commands /\ cmd.op = mail.cmd.op /\ cmd.at = mail.cmd.at
      /\ task.op = "read" => cmd.data = shadow[task.at]
  <2>1. shadow[task.at] \in Values /\ mail.cmd \in Commands
    BY MailFields DEF DataType
  <2> QED
    BY <2>1 DEF Commands
<1> HIDE DEF cmd
<1>4. mail' \in MailSet /\ mail'.cmd = cmd /\ mail'.pending = FALSE /\ mail'.valid = TRUE
  BY <1>2, <1>3 DEF MailSet
<1>5. /\ shadow' = IF task.op \in {"write", "sum"}
                   THEN [shadow EXCEPT ![task.at] = task.data] ELSE shadow
      /\ flash' = IF task.op = "commit" THEN shadow ELSE flash
  BY DEF Answer
<1>6. shadow' \in [Addresses -> Values]
  BY <1>5, MailFields DEF DataType
<1> QED
  BY <1>1, <1>3, <1>4, <1>5, <1>6

LEMMA RefuseIs ==
  ASSUME DataType, Refuse
  PROVE  /\ task # NoTask /\ task' = NoTask /\ mail' \in MailSet
         /\ mail'.pending = FALSE /\ mail'.valid = FALSE /\ mail'.cmd = mail.cmd
         /\ UNCHANGED <<shadow, flash>>
<1>1. mail' = [mail EXCEPT !.pending = FALSE, !.valid = FALSE] /\ mail \in MailSet
  BY MailFields DEF Refuse
<1>2. /\ mail' \in MailSet /\ mail'.cmd = mail.cmd
      /\ mail'.pending = FALSE /\ mail'.valid = FALSE
  BY <1>1 DEF MailSet
<1> QED
  BY <1>2 DEF Refuse

LEMMA DataTypeStep ==
  ASSUME Types, StageInv, OkInv, DataType, [Next]_vars
  PROVE  DataType'
<1>1. run' \in RunSet
  <2>1. CASE UNCHANGED run
    BY <2>1 DEF DataType
  <2>2. CASE Start \/ Return \/ Kill \/ Fetch
    BY <2>2, StartIs, ReturnIs, KillIs, FetchRun
  <2> QED
    BY <2>1, <2>2, RunSplit
<1>2. /\ mail' \in MailSet /\ task' \in Commands
      /\ shadow' \in [Addresses -> Values] /\ flash' \in [Addresses -> Values]
  <2>1. /\ mail \in MailSet /\ mail.cmd \in Commands /\ task \in Commands /\ NoTask \in Commands
        /\ shadow \in [Addresses -> Values] /\ flash \in [Addresses -> Values]
    BY MailFields, ValuesAre DEF DataType
  <2>2. CASE UNCHANGED memory
    BY <2>1, <2>2 DEF memory
  <2>3. CASE Post
    <3>1. UNCHANGED <<task, shadow, flash>>
      BY <2>3 DEF Post
    <3> QED
      BY <2>1, <2>3, <3>1, PostMail
  <2>4. CASE TakeUp
    BY <2>1, <2>4 DEF TakeUp
  <2>5. CASE Answer
    BY <2>1, <2>5, AnswerIs
  <2>6. CASE Refuse
    BY <2>1, <2>6, RefuseIs
  <2> QED
    BY <2>2, <2>3, <2>4, <2>5, <2>6, MemorySplit DEF Mailbox
<1>3. (tool'.pc = "idle") = (run'.calls = <<>>)
  <2>1. (tool.pc = "idle") = (run.calls = <<>>) /\ ToolType
    BY DEF DataType, Types
  <2>2. CASE Start \/ Return
    <3>1. tool' = Begin(run'.calls)
      BY <2>2, StartIs, ReturnIs
    <3> QED
      BY <2>1, <3>1, BegunIdle
  <2>3. CASE Kill
    BY <2>3, KillIs DEF NoTool
  <2>4. CASE ~Start /\ ~Return /\ ~Kill
    <3>1. run'.calls = run.calls
      BY <2>4, RunSplit, FetchRun
    <3>2. UNCHANGED <<tool, run>> \/ (tool.pc # "idle" /\ tool'.pc # "idle")
      <4>1. CASE Smbi \/ RegGot \/ RegBusy \/ PutRead \/ PutReg \/ Look \/ SetBits
        BY <2>1, <4>1, LockingIs DEF Locking
      <4>2. CASE PutHwSemaphore
        BY <4>2, PutKeeps
      <4>3. CASE HostInterfaceCommand \/ Fetch
        BY <4>3, HostIs
      <4> QED
        BY <2>4, <4>1, <4>2, <4>3, ToolSplit
    <3> QED
      BY <2>1, <3>1, <3>2
  <2> QED
    BY <2>2, <2>3, <2>4
<1> QED
  BY <1>1, <1>2, <1>3 DEF DataType, MailSet

LEMMA CountTypeStep ==
  ASSUME Types, StageInv, OkInv, DataType, CountType, [Next]_vars
  PROVE  CountType'
<1>1. /\ tool \in ToolSet /\ ToolType /\ ToolType'
      /\ MaxAttempts \in Nat /\ MaxAttempts > 0 /\ HwAttempts \in Nat /\ HwAttempts > 0
      /\ tool.tries \in 0..MaxAttempts /\ tool.hwTries \in 0..HwAttempts - 1
      /\ tool.pc \in {"put1", "putw", "put2"} /\ tool.then = "again" => tool.tries < MaxAttempts
  BY AttemptsAssumption, ToolTypeStep DEF CountType, Types, ToolType
<1> DEFINE Limits ==
      /\ tool'.tries \in 0..MaxAttempts /\ tool'.hwTries \in 0..HwAttempts - 1
      /\ tool'.pc \in {"put1", "putw", "put2"} /\ tool'.then = "again" => tool'.tries < MaxAttempts
<1>2. Limits
  <2>1. CASE Smbi
    <3>1. CASE tool.hwTries + 1 < HwAttempts /\ tool' = [tool EXCEPT !.hwTries = tool.hwTries + 1]
      BY <1>1, <2>1, <3>1, SmbiIs DEF ToolSet
    <3>2. CASE tool' = [tool EXCEPT !.pc = "reg", !.hwTries = 0]
      BY <1>1, <2>1, <3>2, SmbiIs DEF ToolSet
    <3> QED
      BY <2>1, <3>1, <3>2 DEF Smbi, Set
  <2>2. CASE RegGot
    BY <1>1, <2>2 DEF RegGot, Set, ToolSet
  <2>3. CASE RegBusy
    <3>1. CASE tool.hwTries + 1 < HwAttempts /\ tool' = [tool EXCEPT !.hwTries = tool.hwTries + 1]
      BY <1>1, <2>3, <3>1 DEF ToolSet, RegBusy, At
    <3>2. CASE tool' = [tool EXCEPT !.pc = "put1", !.then = "out"]
      BY <1>1, <2>3, <3>2 DEF ToolSet
    <3> QED
      BY <2>3, <3>1, <3>2 DEF RegBusy, Set
  <2>4. CASE PutRead \/ PutReg
    BY <1>1, <2>4 DEF PutRead, PutReg, Goto, Set, At, ToolSet
  <2>5. CASE Look
    <3>1. tool'.tries = tool.tries /\ tool'.hwTries = tool.hwTries
      BY <1>1, <2>5 DEF Look, Set, ToolSet
    <3>2. CASE tool' = [tool EXCEPT !.pc = "set", !.seen = fwBit, !.reg = (regsmp # "free")]
      BY <1>1, <3>1, <3>2 DEF ToolSet
    <3>3. CASE tool' = [tool EXCEPT !.pc = "put1",
                                    !.then = IF ~LastLook THEN "again"
                                             ELSE IF SwBusy THEN "lost" ELSE "won"]
      <4>1. tool'.then = "again" => tool.tries # MaxAttempts
        BY <1>1, <3>3 DEF ToolSet, LastLook
      <4> QED
        BY <1>1, <3>1, <4>1
    <3> QED
      BY <2>5, <3>2, <3>3 DEF Look, Set
  <2>6. CASE SetBits
    <3>1. tool'.tries = tool.tries /\ tool'.hwTries = tool.hwTries
      BY <1>1, <2>6 DEF SetBits, Set, ToolSet
    <3> QED
      BY <1>1, <2>6, <3>1, SetBitsIs
  <2>7. CASE PutHwSemaphore
    <3>1. /\ tool.pc = "put2" /\ tool'.pc \in {"ret", "mail", "fetch", "smbi"}
          /\ tool'.pc = "smbi" =>
               tool'.hwTries = 0 /\ (tool'.tries = 0 \/ (tool.then = "again" /\ Retried))
      BY <2>7, PutKeeps
    <3>3. CASE tool'.pc = "smbi"
      BY <1>1, <3>1, <3>3 DEF Retried
    <3>4. CASE tool'.pc # "smbi"
      <4>1. tool'.tries = tool.tries /\ tool'.hwTries = tool.hwTries
        <5>1. tool.then = "won" \/ tool.then = "released" \/ tool' = Lost
          BY <1>1, <2>7, <3>4, PutHwSemaphoreIs DEF Fresh, Retried
        <5>2. CASE tool.then = "won"
          <6>1. tool' = Won /\ tool.bit # "eep"
            BY <1>1, <2>7, <3>4, <5>2, PutHwSemaphoreIs, WonIs DEF Fresh
          <6>2. tool' = [tool EXCEPT !.pc = "mail"]
            BY <1>1, <6>1, ToolFields DEF Won
          <6> QED
            BY <1>1, <6>2 DEF ToolSet
        <5>3. CASE tool' = Lost
          <6>1. tool' = [tool EXCEPT !.pc = "ret", !.ok = FALSE]
            BY <1>1, <3>4, <5>3, LostIs, Zenon DEF Lost, Fresh
          <6> QED
            BY <1>1, <6>1 DEF ToolSet
        <5>4. CASE tool.then = "released"
          <6>1. tool' = Released
            BY <1>1, <2>7, <5>4, PutHwSemaphoreIs
          <6>2. TakeBit("rel", "eep").pc = "smbi"
            BY <1>1, TakeBitIs DEF Fresh
          <6>3. tool' = [tool EXCEPT !.pc = "ret"] \/ tool' = [tool EXCEPT !.pc = "fetch"]
            BY <3>4, <6>1, <6>2 DEF Released
          <6> QED
            BY <1>1, <6>3 DEF ToolSet
        <5> QED
          BY <5>1, <5>2, <5>3, <5>4
      <4> QED
        BY <1>1, <3>1, <3>4, <4>1
    <3> QED
      BY <3>3, <3>4
  <2>8. CASE HostInterfaceCommand \/ Fetch
    <3>1. tool'.pc \in {"poll", "smbi"} /\ (tool'.tries = 0 \/ tool'.tries = tool.tries)
          /\ (tool'.hwTries = 0 \/ tool'.hwTries = tool.hwTries)
      BY <2>8, HostIs
    <3> QED
      BY <1>1, <3>1
  <2>9. CASE Start \/ Return \/ Kill
    <3>1. NoTool.pc = "idle" /\ NoTool.tries = 0 /\ NoTool.hwTries = 0
      BY DEF NoTool
    <3>2. tool'.pc \in {"idle", "smbi"} /\ tool'.tries = 0 /\ tool'.hwTries = 0
      BY <1>1, <2>9, <3>1, BegunIs DEF Fresh, Types
    <3> QED
      BY <1>1, <3>2
  <2>10. CASE UNCHANGED <<tool, run>>
    BY <1>1, <2>10
  <2> QED
    BY <2>1, <2>2, <2>3, <2>4, <2>5, <2>6, <2>7, <2>8, <2>9, <2>10, ToolSplit
<1> HIDE DEF Limits
<1>3. fwUses' \in 0..MaxFwUses
  <2>1. fwUses' = fwUses \/ (fwUses < MaxFwUses /\ fwUses' = fwUses + 1)
    BY DEF Next, ToolStep, Semaphores, HostInterfaceCommand, Mailbox, FwHolding,
           Smbi, RegGot, RegBusy, PutRead, PutReg, Look, SetBits, PutHwSemaphore, PutSmbi,
           Post, Disabled, PollDone, PollTimeout, Fetch, Start, Return, Kill,
           TakeUp, Answer, Refuse, FwWant, FwTakeReg, FwLook, FwRetry, FwClear,
           vars, firmware
  <2> QED
    BY <2>1, BoundsAssumption DEF CountType
<1>4. faults' \in 0..MaxFaults
  <2>1. faults' = faults \/ (faults < MaxFaults /\ faults' = faults + 1)
    BY DEF Next, ToolStep, Semaphores, HostInterfaceCommand, Mailbox, FwHolding,
           Smbi, RegGot, RegBusy, PutRead, PutReg, Look, SetBits, PutHwSemaphore, PutSmbi,
           Post, Disabled, PollDone, PollTimeout, Fetch, Start, Return, Kill,
           TakeUp, Answer, Refuse, FwWant, FwTakeReg, FwLook, FwRetry, FwClear,
           vars, history
  <2> QED
    BY <2>1, BoundsAssumption DEF CountType
<1>5. forced' \in BOOLEAN /\ late' \in BOOLEAN
  <2>1. forced' \in {forced, TRUE, FALSE}
    BY DEF Next, ToolStep, Semaphores, HostInterfaceCommand, Mailbox, FwHolding,
           Smbi, RegGot, RegBusy, PutRead, PutReg, Look, SetBits, PutHwSemaphore, PutSmbi,
           Post, Disabled, PollDone, PollTimeout, Fetch, Start, Return, Kill,
           TakeUp, Answer, Refuse, FwWant, FwTakeReg, FwLook, FwRetry, FwClear,
           vars, history
  <2>2. late' \in {late, TRUE, FALSE}
    BY DEF Next, ToolStep, Semaphores, HostInterfaceCommand, Mailbox, FwHolding,
           Smbi, RegGot, RegBusy, PutRead, PutReg, Look, SetBits, PutHwSemaphore, PutSmbi,
           Post, Disabled, PollDone, PollTimeout, Fetch, Start, Return, Kill,
           TakeUp, Answer, Refuse, FwWant, FwTakeReg, FwLook, FwRetry, FwClear,
           vars, history
  <2> QED
    BY <2>1, <2>2 DEF CountType
<1> QED
  BY <1>2, <1>3, <1>4, <1>5 DEF CountType, Limits

LEMMA OkStep ==
  ASSUME Types, StageInv, OkInv, DataType, [Next]_vars
  PROVE  OkInv'
<1> USE DEF OkInv, Locking
<1>1. ToolType /\ NoTool.ok = FALSE
  BY DEF Types, NoTool
<1>2. CASE Smbi \/ RegGot \/ RegBusy \/ PutRead \/ PutReg \/ Look \/ SetBits
  <2>1. /\ tool.pc \in Locking /\ tool'.pc \in Locking /\ tool'.phase = tool.phase
        /\ tool'.ok = tool.ok
    BY <1>1, <1>2, LockingIs DEF Same
  <2> QED
    BY <2>1
<1>3. CASE PutHwSemaphore
  BY <1>3, PutKeeps
<1>4. CASE HostInterfaceCommand \/ Fetch
  BY <1>1, <1>4, HostIs
<1>5. CASE Start \/ Return
  <2>1. PICK calls : tool' = Begin(calls)
    BY <1>5, StartIs, ReturnIs
  <2> QED
    BY <1>1, <2>1, BegunIdle
<1>6. CASE Kill
  BY <1>1, <1>6, KillIs
<1>7. CASE UNCHANGED <<tool, run>>
  BY <1>7
<1> QED
  BY <1>2, <1>3, <1>4, <1>5, <1>6, <1>7, ToolSplit

LEMMA DataInit == Init => DataType /\ CountType /\ OkInv /\ StageInv
<1> SUFFICES ASSUME Init PROVE DataType /\ CountType /\ OkInv /\ StageInv
  OBVIOUS
<1>1. Plain("old") \in Values /\ NoTask \in Commands /\ Blank \in [Addresses -> Values]
  BY ValuesAre
<1>2. run \in RunSet /\ run.calls = <<>>
  BY <1>1, BoundsAssumption DEF Init, RunSet
<1>3. mail \in MailSet /\ task \in Commands
  BY <1>1 DEF Init, MailSet
<1>4. shadow \in [Addresses -> Values] /\ flash \in [Addresses -> Values]
  BY <1>1 DEF Init
<1>5. tool.pc = "idle" /\ tool.ok = FALSE /\ tool.tries = 0 /\ tool.hwTries = 0
  BY DEF Init, NoTool
<1>6. DataType
  BY <1>2, <1>3, <1>4, <1>5 DEF DataType, MailSet
<1>7. CountType
  <2>1. /\ MaxAttempts \in Nat /\ HwAttempts \in Nat /\ HwAttempts > 0
        /\ MaxFwUses \in Nat /\ MaxFaults \in Nat
    BY AttemptsAssumption, BoundsAssumption
  <2>2. fwUses = 0 /\ faults = 0 /\ forced \in BOOLEAN /\ late \in BOOLEAN
    BY DEF Init
  <2>3. 0 \in 0..MaxFwUses /\ 0 \in 0..MaxFaults /\ 0 \in 0..MaxAttempts /\ 0 \in 0..HwAttempts - 1
    BY <2>1
  <2> QED
    BY <1>5, <2>2, <2>3 DEF CountType
<1> QED
  BY <1>5, <1>6, <1>7 DEF OkInv, StageInv, Locking

(* Every variable stays in its type, whatever the sizes, the limits of the  *)
(* loops and the bounds: no counter of AcquireNvm* and GetHwSemaphore* runs *)
(* past its limit, and no call addresses a word that is not there.          *)
THEOREM TypeCorrect == Spec => []TypeOK
<1> DEFINE Inv == Types /\ StageInv /\ OkInv /\ DataType /\ CountType
<1>1. Init => Inv
  BY TypesInit, DataInit
<1>2. Inv /\ [Next]_vars => Inv'
  BY TypesStep, StageStep, OkStep, DataTypeStep, CountTypeStep
<1>3. Inv => TypeOK
  <2> SUFFICES ASSUME Inv PROVE TypeOK
    OBVIOUS
  <2>1. /\ smbi \in BOOLEAN /\ regsmp \in {"free", "tool", "fw"}
        /\ sw \subseteq {"eep", "mng"} /\ fwBit \in BOOLEAN /\ fw \in FwStates
    BY DEF Types, SyncType
  <2>2. /\ DOMAIN mail = {"pending", "valid", "cmd"}
        /\ mail.pending \in BOOLEAN /\ mail.valid \in BOOLEAN
        /\ mail.cmd \in Commands /\ task \in Commands
    BY MailFields DEF MailSet
  <2>3. /\ {shadow, flash, run.buf} \subseteq [Addresses -> Values]
        /\ run.count \in 0..MaxRuns /\ run.calls \in Seq(Calls)
        /\ run.update \in {"none", "ok", "fail"} /\ run.end \in {"none", "killed", "done"}
    BY RunFields DEF DataType
  <2>4. tool \in [pc : Steps, phase : {"acq", "rel"}, bit : {"eep", "mng"},
                  then : Outcomes, seen : BOOLEAN, reg : BOOLEAN, tries : 0..MaxAttempts,
                  hwTries : 0..HwAttempts - 1, ok : BOOLEAN]
    BY DEF CountType, Types, ToolType, ToolSet
  <2> QED
    BY <2>1, <2>2, <2>3, <2>4 DEF TypeOK, CountType, Commands
<1> HIDE DEF Inv
<1> QED
  BY <1>1, <1>2, <1>3, PTL DEF Spec

-----------------------------------------------------------------------------
(* The order of the calls.                                                  *)

LEMMA CallOf ==
  ASSUME NEW c \in Calls
  PROVE  c = Call(c.op, c.at) /\ c.op \in Ops /\ c.at \in Addresses
  BY DEF Calls, Call

(* What is behind the call that is made.                                    *)
LEMMA HeadIs ==
  ASSUME DataType, tool.pc # "idle", Ordered(run.calls)
  PROVE  /\ Ordered(Tail(run.calls))
         /\ Head(run.calls).op \in {"write", "probe"} => Closing(Tail(run.calls))
         /\ Head(run.calls).op = "sum" => Head(run.calls).at = Chk
         /\ Head(run.calls).op \in {"sum", "commit"} =>
              \A i \in 1..Len(Tail(run.calls)) : Tail(run.calls)[i].op = "commit"
         /\ \A call : In(Tail(run.calls), call) => Pending(call)
         /\ \A call : Pending(call) => call = Head(run.calls) \/ In(Tail(run.calls), call)
         /\ Pending(Head(run.calls))
<1> DEFINE s == run.calls
           t == Tail(run.calls)
<1>1. /\ Len(s) \in Nat /\ Len(s) > 0 /\ Head(s) = s[1] /\ Len(t) = Len(s) - 1
      /\ \A i \in 1..Len(t) : i + 1 \in 1..Len(s) /\ t[i] = s[i + 1]
  BY Calling
<1>2. Ordered(s)
  OBVIOUS
<1> HIDE DEF s, t
<1>3. \A j \in 1..Len(s) : j > 1 => j - 1 \in 1..Len(t) /\ t[j - 1] = s[j]
  <2> SUFFICES ASSUME NEW j \in 1..Len(s), j > 1 PROVE j - 1 \in 1..Len(t) /\ t[j - 1] = s[j]
    OBVIOUS
  <2>1. j - 1 \in 1..Len(t) /\ (j - 1) + 1 = j
    BY <1>1
  <2> QED
    BY <1>1, <2>1
<1>4. ASSUME NEW i \in 1..Len(s), NEW call, Later(s, i, call) PROVE In(t, call)
  <2>1. PICK j \in 1..Len(s) : j > i /\ s[j] = call
    BY <1>4 DEF Later
  <2>2. j > 1
    BY <1>1, <2>1
  <2> QED
    BY <1>3, <2>1, <2>2 DEF In
<1>5. ASSUME NEW i \in 1..Len(t), NEW call, Later(s, i + 1, call) PROVE Later(t, i, call)
  <2>1. PICK j \in 1..Len(s) : j > i + 1 /\ s[j] = call
    BY <1>5 DEF Later
  <2>2. j > 1 /\ j - 1 > i
    BY <1>1, <2>1
  <2> QED
    BY <1>3, <2>1, <2>2 DEF Later
<1>6. Ordered(t)
  <2>1. ASSUME NEW i \in 1..Len(t) PROVE
        /\ t[i].op \in {"write", "probe"} =>
             /\ \A a \in Words : Later(t, i, Call("read", a))
             /\ Later(t, i, Call("sum", Chk))
        /\ t[i].op = "sum" => t[i].at = Chk
        /\ t[i].op \in {"sum", "commit"} => \A j \in 1..Len(t) : j > i => t[j].op = "commit"
    <3>1. i + 1 \in 1..Len(s) /\ t[i] = s[i + 1]
      BY <1>1
    <3>2. ASSUME NEW j \in 1..Len(t), j > i
          PROVE  j + 1 \in 1..Len(s) /\ j + 1 > i + 1 /\ t[j] = s[j + 1]
      BY <1>1, <3>2
    <3> QED
      BY <1>2, <1>5, <3>1, <3>2 DEF Ordered
  <2> QED
    BY <2>1 DEF Ordered
<1>7. 1 \in 1..Len(s)
  BY <1>1
<1>8. /\ s[1].op \in {"write", "probe"} => Closing(t)
      /\ s[1].op = "sum" => s[1].at = Chk
  BY <1>2, <1>4, <1>7 DEF Ordered, Closing
<1>9. ASSUME s[1].op \in {"sum", "commit"}, NEW i \in 1..Len(t) PROVE t[i].op = "commit"
  <2>1. i + 1 \in 1..Len(s) /\ i + 1 > 1 /\ t[i] = s[i + 1]
    BY <1>1
  <2> QED
    BY <1>2, <1>7, <1>9, <2>1 DEF Ordered
<1>10. ASSUME NEW call, In(t, call) PROVE In(s, call)
  BY <1>1, <1>10 DEF In
<1>11. ASSUME NEW call, In(s, call) PROVE call = s[1] \/ In(t, call)
  <2>1. PICK j \in 1..Len(s) : s[j] = call
    BY <1>11 DEF In
  <2>2. CASE j > 1
    BY <1>3, <2>1, <2>2 DEF In
  <2>3. CASE ~(j > 1)
    <3>1. j = 1
      BY <1>1, <2>3
    <3> QED
      BY <2>1, <3>1
  <2> QED
    BY <2>2, <2>3
<1>12. In(s, s[1])
  BY <1>7 DEF In
<1> QED
  BY <1>1, <1>6, <1>8, <1>9, <1>10, <1>11, <1>12 DEF Pending, s, t

LEMMA Nothing == Len(<<>>) = 0 /\ Ordered(<<>>) /\ \A call : ~In(<<>>, call)
  BY DEF Ordered, In

LEMMA OrderStep ==
  ASSUME Device = "X553", Types, StageInv, OkInv, DataType, OrderInv, [Next]_vars
  PROVE  OrderInv'
<1>1. /\ Ordered(run.calls)
      /\ run.kind = "dump" =>
           run.update = "none" /\ \A i \in 1..Len(run.calls) : run.calls[i].op = "read"
      /\ run.update # "none" => \A i \in 1..Len(run.calls) : run.calls[i].op = "commit"
      /\ tool.pc # "idle" => run.end = "none"
  BY DEF OrderInv
<1>2. CASE run'.calls = <<>> /\ run'.kind = run.kind
           /\ (run.kind = "dump" => run'.update = run.update) /\ tool'.pc = "idle"
  <2>1. Ordered(run'.calls) /\ Len(run'.calls) = 0
    BY <1>2, Nothing, Zenon
  <2> QED
    BY <1>1, <1>2, <2>1 DEF OrderInv, Ordered, Later
<1>3. CASE Start
  <2>1. /\ run'.kind \in Kinds /\ run'.calls = Program(run'.kind) /\ run'.update = "none"
        /\ run'.end = "none"
    BY <1>3, StartIs
  <2>2. /\ Ordered(run'.calls)
        /\ run'.kind = "dump" => \A i \in 1..Len(run'.calls) : run'.calls[i].op = "read"
    BY <2>1, ProgramIs
  <2> QED
    BY <2>1, <2>2 DEF OrderInv, Ordered, Later
<1>4. CASE Return
  <2>1. /\ tool.pc = "ret" /\ run'.calls = Rest /\ run'.kind = run.kind
        /\ tool' = Begin(Rest) /\ run'.end = IF Rest = <<>> THEN "done" ELSE run.end
        /\ ~Failed /\ Head(run.calls).op # "commit" => run'.update = run.update
    BY <1>4, ReturnIs
  <2>2. run.kind = "dump" => run'.update = run.update
    <3>1. run.kind = "dump" => Head(run.calls).op = "read"
      BY <1>1, <2>1, Calling
    <3> QED
      BY <2>1, <3>1 DEF Failed
  <2>3. CASE Rest = <<>>
    <3>1. tool'.pc = "idle"
      BY <2>1, <2>3, BegunIdle DEF Types
    <3> QED
      BY <1>2, <2>1, <2>2, <2>3, <3>1
  <2>4. CASE Rest # <<>>
    <3>1. Rest = Tail(run.calls) /\ ~Failed
      BY <2>4 DEF Rest
    <3>2. /\ Ordered(Rest)
          /\ Head(run.calls).op = "commit" => \A i \in 1..Len(Rest) : Rest[i].op = "commit"
      BY <1>1, <2>1, <3>1, HeadIs
    <3>3. \A i \in 1..Len(Rest) : i + 1 \in 1..Len(run.calls) /\ Rest[i] = run.calls[i + 1]
      BY <2>1, <3>1, Calling
    <3>4. run.kind = "dump" => run'.update = "none" /\ \A i \in 1..Len(Rest) : Rest[i].op = "read"
      BY <1>1, <2>2, <3>3
    <3>5. run'.update # "none" => \A i \in 1..Len(Rest) : Rest[i].op = "commit"
      BY <1>1, <2>1, <3>1, <3>2, <3>3
    <3>6. run'.end = "none"
      BY <1>1, <2>1, <2>4
    <3> QED
      BY <2>1, <3>2, <3>4, <3>5, <3>6 DEF OrderInv, Ordered, Later
  <2> QED
    BY <2>3, <2>4
<1>5. CASE Kill
  <2>1. tool'.pc = "idle"
    BY <1>5, KillIs DEF NoTool
  <2> QED
    BY <1>2, <1>5, <2>1, KillIs
<1>6. CASE ~Start /\ ~Return /\ ~Kill
  <2>1. /\ run'.calls = run.calls /\ run'.kind = run.kind /\ run'.update = run.update
        /\ run'.end = run.end
    BY <1>6, RunSplit, FetchRun
  <2>2. tool.pc = "idle" => tool'.pc = "idle"
    <3>1. (tool.pc = "idle") = (run.calls = <<>>) /\ (tool'.pc = "idle") = (run'.calls = <<>>)
      BY DataTypeStep DEF DataType
    <3> QED
      BY <2>1, <3>1
  <2> QED
    BY <1>1, <2>1, <2>2 DEF OrderInv, Ordered, Later
<1> QED
  BY <1>3, <1>4, <1>5, <1>6

-----------------------------------------------------------------------------
(* The mailbox.                                                             *)

(* The lasting steps: those that neither give a command up nor make a call. *)
LEMMA Unlate ==
  ASSUME [Next]_vars, late \in BOOLEAN, late' \in BOOLEAN, ~late'
  PROVE  /\ ~late /\ ~PollTimeout
         /\ Kill => ~mail.pending /\ task = NoTask
<1>1. late' = late \/ PollTimeout \/ Kill
  BY DEF Next, ToolStep, Semaphores, HostInterfaceCommand, Mailbox, FwHolding,
         Smbi, RegGot, RegBusy, PutRead, PutReg, Look, SetBits, PutHwSemaphore, PutSmbi,
         Post, Disabled, PollDone, Fetch, Start, Return,
         TakeUp, Answer, Refuse, FwWant, FwTakeReg, FwLook, FwRetry, FwClear,
         vars, history
<1>2. ~PollTimeout
  BY DEF PollTimeout
<1>3. Kill => ~late /\ ~mail.pending /\ task = NoTask
  BY DEF Kill
<1> QED
  BY <1>1, <1>2, <1>3

(* A tool that is not waiting for an answer, and that has no result or has  *)
(* one that nothing of the step disturbs.                                   *)
LEMMA MailQuiet ==
  ASSUME ~mail.pending, task = NoTask, UNCHANGED memory, ~tool'.ok, tool'.pc # "poll"
  PROVE  MailInv'
  BY DEF MailInv, memory

LEMMA MailKept ==
  ASSUME MailInv, ~late, UNCHANGED memory, UNCHANGED run, tool'.ok = tool.ok,
         tool.pc # "poll", tool'.pc # "poll",
         tool.ok /\ Head(run.calls).op = "read" /\ Fetched' => Fetched
  PROVE  MailInv'
<1>1. /\ ~mail.pending /\ task = NoTask
      /\ tool.ok => Effect(Head(run.calls))
      /\ tool.ok /\ Head(run.calls).op = "read" /\ Fetched =>
           run.buf[Head(run.calls).at] = shadow[Head(run.calls).at]
  BY DEF MailInv
<1>2. mail' = mail /\ task' = task /\ shadow' = shadow /\ flash' = flash /\ run' = run
  BY DEF memory
<1>3. tool.ok => Effect(Head(run.calls))'
  BY <1>1, <1>2 DEF Effect, Data, SumOf
<1> QED
  BY <1>1, <1>2, <1>3 DEF MailInv

LEMMA MailStep ==
  ASSUME Types, StageInv, OkInv, DataType, CountType, CountType', MailInv, [Next]_vars
  PROVE  MailInv'
<1> SUFFICES ASSUME ~late' PROVE MailInv'
  BY DEF MailInv
<1>1. ~late /\ ~PollTimeout /\ (Kill => ~mail.pending /\ task = NoTask)
  BY Unlate DEF CountType
<1>2. /\ mail.pending \/ task # NoTask =>
           /\ tool.pc = "poll" /\ mail.pending
           /\ mail.cmd.op = Head(run.calls).op /\ mail.cmd.at = Head(run.calls).at
           /\ mail.cmd.op \in {"write", "sum"} => mail.cmd.data = Data(Head(run.calls))
           /\ task # NoTask => task = mail.cmd
      /\ tool.ok \/ (tool.pc = "poll" /\ ~mail.pending /\ mail.valid) => Effect(Head(run.calls))
      /\ tool.ok /\ Head(run.calls).op = "read" /\ Fetched =>
           run.buf[Head(run.calls).at] = shadow[Head(run.calls).at]
  BY <1>1 DEF MailInv
<1>3. /\ ToolType /\ tool.ok \in BOOLEAN /\ NoTool.ok = FALSE /\ NoTool.pc = "idle"
      /\ tool.ok => tool.pc \in {"fetch", "ret"} \/ tool.pc \in Locking
  BY ToolFields DEF Types, NoTool, OkInv, Locking
<1>4. CASE Smbi \/ RegGot \/ RegBusy \/ PutRead \/ PutReg \/ Look \/ SetBits
  <2>1. UNCHANGED memory /\ UNCHANGED run
    BY <1>4 DEF Smbi, RegGot, RegBusy, PutRead, PutReg, Look, SetBits
  <2>2. /\ tool.pc \in Locking /\ tool'.pc \in Locking /\ tool'.bit = tool.bit
        /\ tool'.ok = tool.ok
    BY <1>3, <1>4, LockingIs DEF Same
  <2> QED
    BY <1>1, <2>1, <2>2, MailKept DEF Locking, Fetched
<1>5. CASE PutHwSemaphore
  <2>1. UNCHANGED memory /\ UNCHANGED run
    BY <1>5 DEF PutHwSemaphore, PutSmbi
  <2>2. /\ tool.pc = "put2" /\ tool'.pc \in {"ret", "mail", "fetch", "smbi"}
        /\ tool'.ok = tool.ok
        /\ tool.ok /\ Head(run.calls).op = "read" =>
             tool.bit = "eep" \/ tool'.pc = "fetch" \/ (tool'.pc = "smbi" /\ tool'.bit = "mng")
    BY <1>5, PutKeeps
  <2> QED
    BY <1>1, <2>1, <2>2, MailKept DEF Fetched
<1>6. CASE Post
  <2>1. /\ tool.pc = "mail" /\ tool'.pc = "poll" /\ ~tool'.ok
    BY <1>3, <1>6, HostIs DEF Locking, HostInterfaceCommand
  <2>2. task' = task /\ task = NoTask /\ run' = run /\ shadow' = shadow
    BY <1>2, <1>6, <2>1 DEF Post
  <2>3. /\ mail'.pending = TRUE /\ mail'.cmd.op = Head(run.calls).op
        /\ mail'.cmd.at = Head(run.calls).at
        /\ mail'.cmd.op \in {"write", "sum"} => mail'.cmd.data = Data(Head(run.calls))
    BY <1>6, PostMail
  <2>4. Data(Head(run.calls))' = Data(Head(run.calls))
    BY <2>2 DEF Data, SumOf
  <2> QED
    BY <2>1, <2>2, <2>3, <2>4 DEF MailInv
<1>7. CASE Disabled
  <2>1. tool.pc = "mail" /\ ~tool'.ok /\ tool'.pc = "smbi" /\ UNCHANGED memory
    <3>1. tool.pc = "mail" /\ UNCHANGED memory
      BY <1>7 DEF Disabled, At
    <3>2. ~Post
      <4>1. Disabled => ~tool'.ok /\ tool'.bit = "mng" /\ Fresh(tool', "rel", "mng")
        BY HostIs, AnsweredIs DEF HostInterfaceCommand
      <4> QED
        BY <1>3, <1>7, <4>1, PostIs DEF Fresh
    <3> QED
      BY <1>7, <3>1, <3>2, HostIs DEF HostInterfaceCommand
  <2> QED
    BY <1>2, <2>1, MailQuiet
<1>8. CASE PollDone
  <2>1. ~mail.pending /\ UNCHANGED memory /\ UNCHANGED run /\ tool.pc = "poll"
    BY <1>8 DEF PollDone, At
  <2>2. tool'.ok = mail.valid /\ tool'.bit = "mng" /\ tool'.pc = "smbi"
    <3>1. ~Post
      BY <2>1 DEF Post, At
    <3> QED
      BY <1>8, <3>1, HostIs DEF HostInterfaceCommand
  <2>3. task = NoTask /\ (mail.valid => Effect(Head(run.calls)))
    BY <1>2, <2>1
  <2>4. Effect(Head(run.calls)) => Effect(Head(run.calls))'
    BY <2>1 DEF Effect, Data, SumOf, memory
  <2> QED
    BY <2>1, <2>2, <2>3, <2>4 DEF MailInv, Fetched, memory
<1>9. CASE Fetch
  <2>1. /\ tool.pc = "fetch" /\ tool'.pc = "smbi" /\ tool'.ok = tool.ok /\ UNCHANGED memory
    <3>1. tool.pc = "fetch" /\ ~Post
      BY <1>9 DEF Fetch, Post, At
    <3> QED
      BY <1>9, <3>1, HostIs DEF Fetch
  <2>2. /\ ~mail.pending /\ task = NoTask /\ (tool.ok => Effect(Head(run.calls)))
    BY <1>2, <2>1
  <2>3. /\ run'.calls = run.calls
        /\ run'.buf = IF Head(run.calls).op = "read"
                      THEN [run.buf EXCEPT ![Head(run.calls).at] = mail.cmd.data]
                      ELSE run.buf
    BY <1>9, FetchRun
  <2>4. Head(run.calls).at \in Addresses /\ run.buf \in [Addresses -> Values]
    BY <2>1, Calling, CallOf, RunFields
  <2>5. mail' = mail /\ task' = task /\ shadow' = shadow /\ flash' = flash
    BY <2>1 DEF memory
  <2>6. tool.ok => Effect(Head(run.calls))'
    <3>1. CASE Head(run.calls).op = "read"
      BY <2>2, <2>3, <2>5, <3>1 DEF Effect
    <3>2. CASE Head(run.calls).op # "read"
      BY <2>2, <2>3, <2>5, <3>2 DEF Effect, Data, SumOf
    <3> QED
      BY <3>1, <3>2
  <2>7. tool.ok /\ Head(run.calls).op = "read" =>
          run'.buf[Head(run.calls).at] = shadow[Head(run.calls).at]
    BY <2>2, <2>3, <2>4 DEF Effect
  <2> QED
    BY <2>1, <2>2, <2>3, <2>5, <2>6, <2>7 DEF MailInv
<1>10. CASE Start \/ Return
  <2>1. /\ tool.pc \in {"idle", "ret"} /\ UNCHANGED memory
        /\ tool' = Begin(run'.calls)
    BY <1>10, StartIs, ReturnIs DEF Start, Return
  <2>2. ~tool'.ok /\ tool'.pc \in {"idle", "smbi"}
    BY <1>3, <2>1, BegunIdle
  <2> QED
    BY <1>2, <2>1, <2>2, MailQuiet
<1>11. CASE Kill
  <2>1. ~tool'.ok /\ tool'.pc = "idle" /\ UNCHANGED memory
    BY <1>3, <1>11, KillIs DEF Kill
  <2> QED
    BY <1>1, <1>11, <2>1, MailQuiet
<1>12. CASE UNCHANGED <<tool, run>>
  <2>0. tool' = tool /\ run' = run
    BY <1>12
  <2>1. CASE UNCHANGED memory
    <3>1. mail' = mail /\ task' = task /\ shadow' = shadow /\ flash' = flash
      BY <2>1 DEF memory
    <3>2. /\ Effect(Head(run.calls)) => Effect(Head(run.calls))'
          /\ Data(Head(run.calls))' = Data(Head(run.calls)) /\ Fetched' = Fetched
      BY <2>0, <3>1 DEF Effect, Data, SumOf, Fetched
    <3> QED
      BY <1>2, <2>0, <3>1, <3>2 DEF MailInv
  <2>2. CASE TakeUp
    <3>1. mail.pending /\ mail' = mail /\ task' = mail.cmd
      BY <2>2 DEF TakeUp
    <3>2. tool.pc = "poll" /\ ~tool.ok
      BY <1>2, <1>3, <3>1 DEF Locking
    <3>3. Data(Head(run.calls))' = Data(Head(run.calls))
      BY <2>0 DEF Data, SumOf
    <3> QED
      BY <1>2, <2>0, <3>1, <3>2, <3>3 DEF MailInv
  <2>3. CASE Answer
    <3> DEFINE call == Head(run.calls)
    <3>1. /\ task # NoTask /\ task' = NoTask /\ mail'.pending = FALSE
          /\ task.op = "read" => mail'.cmd.data = shadow[task.at]
          /\ shadow' = IF task.op \in {"write", "sum"}
                       THEN [shadow EXCEPT ![task.at] = task.data] ELSE shadow
          /\ flash' = IF task.op = "commit" THEN shadow ELSE flash
      BY <2>3, AnswerIs
    <3>2. /\ tool.pc = "poll" /\ ~tool.ok /\ task.op = call.op /\ task.at = call.at
          /\ task.op \in {"write", "sum"} => task.data = Data(call)
      BY <1>2, <1>3, <3>1 DEF Locking
    <3>3. call \in Calls /\ call.at \in Addresses /\ shadow \in [Addresses -> Values]
      BY <3>2, Calling, CallOf DEF DataType
    <3>4. Data(call)' = Data(call)
      BY <2>0 DEF Data, SumOf
    <3>5. /\ call.op \in {"write", "sum"} => shadow'[call.at] = Data(call)
          /\ call.op = "commit" => flash' = shadow'
          /\ call.op = "read" => mail'.cmd.data = shadow'[call.at]
      BY <3>1, <3>2, <3>3
    <3>6. Effect(call)'
      BY <2>0, <3>4, <3>5 DEF Effect
    <3> QED
      BY <2>0, <3>1, <3>2, <3>6 DEF MailInv
  <2>4. CASE Refuse
    <3>1. task # NoTask /\ task' = NoTask /\ ~mail'.pending /\ ~mail'.valid
      BY <2>4, RefuseIs
    <3>2. ~tool.ok
      BY <1>2, <1>3, <3>1 DEF Locking
    <3> QED
      BY <2>0, <3>1, <3>2 DEF MailInv
  <2>5. CASE Post
    BY <2>0, <2>5, PostIs, <1>3
  <2> QED
    BY <2>1, <2>2, <2>3, <2>4, <2>5, MemorySplit DEF Mailbox
<1> QED
  BY <1>1, <1>4, <1>5, <1>6, <1>7, <1>8, <1>9, <1>10, <1>11, <1>12, ToolSplit
     DEF HostInterfaceCommand

-----------------------------------------------------------------------------
(* What the calls have done.                                                *)

LEMMA RewrittenIs == Rewritten \subseteq Words
  BY WordFacts DEF Rewritten

LEMMA SumOfSame ==
  ASSUME NEW c, NEW d, \A a \in Words : c[a] = d[a]
  PROVE  SumOf(c) = SumOf(d)
  BY DEF SumOf

LEMMA KnownReturn ==
  ASSUME DataType, OrderInv, MailInv, KnownInv, ToolType, ~late, Return, UNCHANGED memory
  PROVE  KnownInv'
<1> DEFINE head == Head(run.calls)
           tail == Tail(run.calls)
<1>1. /\ tool.pc = "ret" /\ run'.calls = Rest /\ run'.kind = run.kind
      /\ run'.buf = IF head.op = "probe" \/ Rest = <<>> THEN Blank ELSE run.buf
      /\ run'.missed = (run.missed \/ (head.op # "commit" /\ ~tool.ok))
      /\ Failed => run'.update = "fail"
      /\ ~Failed /\ head.op = "commit" => run'.update = IF tool.ok THEN "ok" ELSE "fail"
      /\ ~Failed /\ head.op # "commit" => run'.update = run.update
  BY ReturnIs
<1>2. /\ tool.ok => Effect(head)
      /\ tool.ok /\ head.op = "read" => run.buf[head.at] = shadow[head.at]
  BY <1>1 DEF MailInv, Fetched
<1>3. /\ head.op \in {"write", "probe"} => Closing(tail)
      /\ head.op = "sum" => head.at = Chk
      /\ head.op \in {"sum", "commit"} => \A i \in 1..Len(tail) : tail[i].op = "commit"
      /\ \A call : Pending(call) => call = head \/ In(tail, call)
  BY <1>1, HeadIs DEF OrderInv
<1>4. head \in Calls /\ head = Call(head.op, head.at) /\ run.calls # <<>> /\ run.end = "none"
  BY <1>1, Calling, CallOf DEF OrderInv
<1>5. /\ run.update = "ok" => flash = shadow
      /\ ~run.missed /\ run.end # "killed" /\ run.kind # "dump" =>
           /\ \A a \in Rewritten : shadow[a] = Plain("new") \/ Pending(Call("write", a))
           /\ \A a \in Words : run.buf[a] = shadow[a] \/ Pending(Call("read", a)) \/ run.calls = <<>>
           /\ shadow[Chk] = SumOf(shadow) \/ Pending(Call("sum", Chk))
  BY DEF KnownInv
<1>6. mail' = mail /\ shadow' = shadow /\ flash' = flash /\ Rewritten' = Rewritten
  BY <1>1 DEF memory, Rewritten
<1>c. \A op \in Ops, a \in Addresses : Call(op, a).op = op /\ Call(op, a).at = a
  BY CallIs
<1>7. run'.update = "ok" => flash = shadow
  <2>1. CASE head.op = "commit"
    BY <1>1, <1>2, <2>1 DEF Failed, Effect
  <2>2. CASE head.op # "commit"
    BY <1>1, <1>5, <2>2
  <2> QED
    BY <2>1, <2>2
<1>8. ASSUME ~run'.missed, run.kind # "dump"
      PROVE  /\ \A a \in Rewritten : shadow[a] = Plain("new") \/ In(Rest, Call("write", a))
             /\ \A a \in Words : run'.buf[a] = shadow[a] \/ In(Rest, Call("read", a)) \/ Rest = <<>>
             /\ shadow[Chk] = SumOf(shadow) \/ In(Rest, Call("sum", Chk))
  <2>1. ~run.missed /\ (head.op = "commit" \/ tool.ok)
    BY <1>1, <1>8, RunFields
  <2>2. Rest = tail
    BY <2>1 DEF Rest, Failed
  <2> HIDE DEF head, tail
  <2>3. ASSUME NEW a \in Rewritten PROVE shadow[a] = Plain("new") \/ In(tail, Call("write", a))
    <3>1. a \in Words /\ a \in Addresses /\ a # Chk
      BY RewrittenIs, WordFacts
    <3>2. CASE Call("write", a) = head
      <4>1. head.op = "write" /\ head.at = a
        BY <1>c, <3>1, <3>2 DEF Ops
      <4>2. shadow[a] = Data(head) /\ Data(head) = Plain("new")
        BY <1>2, <2>1, <3>1, <4>1 DEF Effect, Data
      <4> QED
        BY <4>2
    <3>3. CASE Call("write", a) # head
      BY <1>3, <1>4, <1>5, <1>8, <2>1, <3>3
    <3> QED
      BY <3>2, <3>3
  <2>4. ASSUME NEW a \in Words, Rest # <<>> PROVE run'.buf[a] = shadow[a] \/ In(tail, Call("read", a))
    <3>1. CASE head.op = "probe"
      BY <1>3, <3>1 DEF Closing
    <3>2. CASE head.op # "probe"
      <4>1. run'.buf = run.buf /\ a \in Addresses
        BY <1>1, <2>4, <3>2, WordFacts
      <4>2. CASE Call("read", a) = head
        <5>1. head.op = "read" /\ head.at = a
          BY <1>c, <4>1, <4>2 DEF Ops
        <5> QED
          BY <1>2, <2>1, <4>1, <5>1
      <4>3. CASE Call("read", a) # head
        BY <1>3, <1>4, <1>5, <1>8, <2>1, <4>1, <4>3
      <4> QED
        BY <4>2, <4>3
    <3> QED
      BY <3>1, <3>2
  <2>5. shadow[Chk] = SumOf(shadow) \/ In(tail, Call("sum", Chk))
    <3>1. CASE Call("sum", Chk) = head
      <4>1. head.op = "sum" /\ head.at = Chk
        BY <1>c, <3>1, WordFacts DEF Ops
      <4>2. shadow[Chk] = SumOf(run.buf)
        BY <1>2, <2>1, <4>1 DEF Effect, Data
      <4>3. ASSUME NEW a \in Words PROVE run.buf[a] = shadow[a]
        <5>1. a \in Addresses /\ Call("read", a).op = "read"
          BY <1>c, WordFacts DEF Ops
        <5>2. Call("read", a) # head
          BY <4>1, <5>1
        <5>3. ~In(tail, Call("read", a))
          BY <1>3, <4>1, <5>1 DEF In
        <5>4. ~Pending(Call("read", a))
          BY <1>3, <5>2, <5>3
        <5> QED
          BY <1>4, <1>5, <1>8, <2>1, <5>4
      <4>4. SumOf(run.buf) = SumOf(shadow)
        BY <4>3, SumOfSame, Zenon
      <4> QED
        BY <4>2, <4>4
    <3>2. CASE Call("sum", Chk) # head
      BY <1>3, <1>4, <1>5, <1>8, <2>1, <3>2
    <3> QED
      BY <3>1, <3>2
  <2> QED
    BY <2>2, <2>3, <2>4, <2>5
<1> HIDE DEF head, tail
<1>9. SumOf(shadow)' = SumOf(shadow) /\ Plain("new")' = Plain("new")
      /\ \A op, a : Call(op, a)' = Call(op, a)
  BY <1>6 DEF SumOf, Plain, Call
<1>10. /\ run'.update = "ok" => flash' = shadow'
       /\ ~run'.missed /\ run'.kind # "dump" =>
           /\ \A a \in Rewritten' : shadow'[a] = Plain("new") \/ In(run'.calls, Call("write", a))
           /\ \A a \in Words : run'.buf[a] = shadow'[a] \/ In(run'.calls, Call("read", a))
                               \/ run'.calls = <<>>
           /\ shadow'[Chk] = SumOf(shadow)' \/ In(run'.calls, Call("sum", Chk))
  BY <1>1, <1>6, <1>7, <1>8, <1>9
<1> QED
  BY <1>10, Zenon DEF KnownInv, Pending, In, Call, Plain, Chk, Words

LEMMA KnownStart ==
  ASSUME Device = "X553", Types, DataType, Start
  PROVE  KnownInv'
<1>1. /\ run'.kind \in Kinds /\ run'.calls = Program(run'.kind) /\ run'.update = "none"
  BY StartIs
<1>2. ASSUME run'.kind # "dump"
      PROVE  /\ Closing(run'.calls)
             /\ \A a \in Rewritten' : In(run'.calls, Call("write", a))
  <2>1. Closing(run'.calls)
    BY <1>1, <1>2, ProgramIs
  <2>2. CASE run'.kind = "write"
    <3>1. Rewritten' = Words
      BY <2>2 DEF Rewritten, Words
    <3> QED
      BY <1>1, <2>1, <2>2, <3>1, ProgramIs
  <2>3. CASE run'.kind = "mac"
    <3>1. Rewritten' = MacWords
      BY <2>3 DEF Rewritten, Words, MacWords
    <3> QED
      BY <1>1, <2>1, <2>3, <3>1, ProgramIs
  <2> QED
    BY <1>1, <1>2, <2>2, <2>3 DEF Kinds
<1>3. run'.kind # "dump" =>
        /\ \A a \in Rewritten' : In(run'.calls, Call("write", a))
        /\ \A a \in Words : In(run'.calls, Call("read", a))
        /\ In(run'.calls, Call("sum", Chk))
  BY <1>2, Zenon DEF Closing
<1> QED
  BY <1>1, <1>3 DEF KnownInv, Pending, In, Call, Chk, Words

LEMMA KnownAnswer ==
  ASSUME DataType, OrderInv, MailInv, KnownInv, ToolType, ~late, Answer
  PROVE  KnownInv'
<1> DEFINE head == Head(run.calls)
<1>1. /\ task # NoTask
      /\ shadow' = IF task.op \in {"write", "sum"}
                   THEN [shadow EXCEPT ![task.at] = task.data] ELSE shadow
      /\ flash' = IF task.op = "commit" THEN shadow ELSE flash
  BY AnswerIs
<1>2. run' = run
  BY DEF Answer
<1>3. /\ tool.pc = "poll" /\ task.op = head.op /\ task.at = head.at
      /\ task.op \in {"write", "sum"} => task.data = Data(head)
  BY <1>1 DEF MailInv
<1>4. /\ head \in Calls /\ head = Call(head.op, head.at) /\ head.at \in Addresses
      /\ run.calls # <<>> /\ head = run.calls[1] /\ 1 \in 1..Len(run.calls)
  BY <1>3, Calling, CallOf
<1>5. /\ head.op \in {"write", "probe"} => Closing(Tail(run.calls))
      /\ head.op = "sum" => head.at = Chk
      /\ \A call : In(Tail(run.calls), call) => Pending(call)
      /\ Pending(head)
  BY <1>3, HeadIs DEF OrderInv
<1>6. /\ run.update = "ok" => flash = shadow
      /\ ~run.missed /\ run.end # "killed" /\ run.kind # "dump" =>
           /\ \A a \in Rewritten : shadow[a] = Plain("new") \/ Pending(Call("write", a))
           /\ \A a \in Words : run.buf[a] = shadow[a] \/ Pending(Call("read", a)) \/ run.calls = <<>>
           /\ shadow[Chk] = SumOf(shadow) \/ Pending(Call("sum", Chk))
  BY DEF KnownInv
<1>7. run.update = "ok" => head.op = "commit"
  BY <1>4 DEF OrderInv
<1> HIDE DEF head
<1>8. run.update = "ok" => flash' = shadow'
  BY <1>1, <1>3, <1>7
<1>9. ASSUME ~run.missed, run.end # "killed", run.kind # "dump"
      PROVE  /\ \A a \in Rewritten : shadow'[a] = Plain("new") \/ Pending(Call("write", a))
             /\ \A a \in Words : run.buf[a] = shadow'[a] \/ Pending(Call("read", a))
             /\ shadow'[Chk] = SumOf(shadow') \/ Pending(Call("sum", Chk))
  <2>1. CASE head.op \notin {"write", "sum"}
    BY <1>1, <1>3, <1>4, <1>6, <1>9, <2>1
  <2>2. CASE head.op = "sum"
    <3>1. shadow' = [shadow EXCEPT ![Chk] = task.data] /\ Pending(Call("sum", Chk))
      BY <1>1, <1>3, <1>4, <1>5, <2>2
    <3>2. \A a \in Words : shadow'[a] = shadow[a]
      BY <3>1, WordFacts DEF DataType
    <3> QED
      BY <1>4, <1>6, <1>9, <3>1, <3>2, RewrittenIs
  <2>3. CASE head.op = "write"
    <3>1. /\ shadow' = [shadow EXCEPT ![head.at] = task.data]
          /\ Pending(Call("write", head.at))
      BY <1>1, <1>3, <1>4, <1>5, <2>3
    <3>2. \A a \in Words : a # head.at => shadow'[a] = shadow[a]
      BY <1>4, <3>1, WordFacts DEF DataType
    <3>3. /\ \A a \in Words : Pending(Call("read", a))
          /\ Pending(Call("sum", Chk))
      BY <1>5, <2>3 DEF Closing
    <3> QED
      BY <1>6, <1>9, <3>1, <3>2, <3>3, RewrittenIs
  <2> QED
    BY <2>1, <2>2, <2>3
<1>10. Rewritten' = Rewritten
  BY <1>2 DEF Rewritten
<1> QED
  BY <1>2, <1>8, <1>9, <1>10 DEF KnownInv, Pending, In, Call, Chk, Words, SumOf, Plain

LEMMA KnownStep ==
  ASSUME Device = "X553", Types, StageInv, OkInv, DataType, CountType, CountType',
         OrderInv, MailInv, KnownInv, [Next]_vars
  PROVE  KnownInv'
<1> SUFFICES ASSUME ~late' PROVE KnownInv'
  BY DEF KnownInv
<1>1. ~late /\ ToolType
  BY Unlate DEF CountType, Types
<1>2. CASE Answer
  BY <1>1, <1>2, KnownAnswer
<1>3. CASE ~Answer
  <2>1. shadow' = shadow /\ flash' = flash
    BY <1>3, MemorySplit DEF Mailbox, TakeUp, Refuse, Post, memory
  <2>2. /\ run.update = "ok" => flash = shadow
        /\ ~run.missed /\ run.end # "killed" /\ run.kind # "dump" =>
             /\ \A a \in Rewritten : shadow[a] = Plain("new") \/ Pending(Call("write", a))
             /\ \A a \in Words : run.buf[a] = shadow[a] \/ Pending(Call("read", a)) \/ run.calls = <<>>
             /\ shadow[Chk] = SumOf(shadow) \/ Pending(Call("sum", Chk))
    BY <1>1 DEF KnownInv
  <2>3. CASE Start
    BY <2>3, KnownStart
  <2>4. CASE Return
    <3>1. UNCHANGED memory
      BY <2>4 DEF Return
    <3> QED
      BY <1>1, <2>4, <3>1, KnownReturn
  <2>5. CASE Kill
    <3>1. run'.end = "killed" /\ run'.update = run.update
      BY <2>5, KillIs
    <3> QED
      BY <2>1, <2>2, <3>1 DEF KnownInv
  <2>6. CASE Fetch
    <3>1. /\ tool.pc = "fetch" /\ run'.calls = run.calls /\ run'.end = run.end
          /\ run'.kind = run.kind /\ run'.update = run.update /\ run'.missed = run.missed
          /\ run'.buf = IF Head(run.calls).op = "read"
                        THEN [run.buf EXCEPT ![Head(run.calls).at] = mail.cmd.data]
                        ELSE run.buf
      BY <2>6, FetchRun
    <3>2. /\ Head(run.calls) = Call(Head(run.calls).op, Head(run.calls).at)
          /\ Pending(Head(run.calls)) /\ Head(run.calls).at \in Addresses
      BY <3>1, Calling, CallOf, HeadIs DEF OrderInv
    <3>3. ASSUME NEW a \in Words
          PROVE  run'.buf[a] = run.buf[a] \/ Pending(Call("read", a))
      <4>1. CASE Head(run.calls).op = "read" /\ Head(run.calls).at = a
        BY <3>2, <4>1
      <4>2. CASE ~(Head(run.calls).op = "read" /\ Head(run.calls).at = a)
        BY <3>1, <4>2, WordFacts, RunFields
      <4> QED
        BY <4>1, <4>2
    <3>4. Rewritten' = Rewritten /\ SumOf(shadow)' = SumOf(shadow)
      BY <2>1, <3>1 DEF Rewritten, SumOf
    <3>5. /\ run'.update = "ok" => flash' = shadow'
          /\ ~run'.missed /\ run'.end # "killed" /\ run'.kind # "dump" =>
               /\ \A a \in Rewritten' : shadow'[a] = Plain("new") \/ In(run'.calls, Call("write", a))
               /\ \A a \in Words : run'.buf[a] = shadow'[a] \/ In(run'.calls, Call("read", a))
                                   \/ run'.calls = <<>>
               /\ shadow'[Chk] = SumOf(shadow)' \/ In(run'.calls, Call("sum", Chk))
      BY <2>1, <2>2, <3>1, <3>3, <3>4 DEF Pending
    <3> QED
      BY <3>5, Zenon DEF KnownInv, Pending, In, Call, Plain, Chk, Words
  <2>7. CASE UNCHANGED run
    <3>1. Rewritten' = Rewritten /\ SumOf(shadow)' = SumOf(shadow) /\ run' = run
      BY <2>1, <2>7 DEF Rewritten, SumOf
    <3> QED
      BY <2>1, <2>2, <3>1 DEF KnownInv, Pending, In, Call, Plain, Chk, Words
  <2> QED
    BY <2>3, <2>4, <2>5, <2>6, <2>7, RunSplit
<1> QED
  BY <1>2, <1>3

LEMMA KnownInit == Init => OrderInv /\ MailInv /\ KnownInv
<1> SUFFICES ASSUME Init PROVE OrderInv /\ MailInv /\ KnownInv
  OBVIOUS
<1>1. /\ run.calls = <<>> /\ run.kind = "dump" /\ run.update = "none"
      /\ tool.pc = "idle" /\ ~tool.ok /\ ~mail.pending /\ task = NoTask
  BY DEF Init, NoTool
<1>2. OrderInv
  BY <1>1 DEF OrderInv, Ordered
<1> QED
  BY <1>1, <1>2 DEF MailInv, KnownInv

(* An update of the X553 that reports success, when no command was given up *)
(* before its answer, has copied the shadow RAM to the flash; and when all  *)
(* its reads and writes went through, the words that the run wrote are      *)
(* there under a checksum computed from exactly the flash's words, although *)
(* their results are not looked at one by one (UpdateNvmChecksumX553,       *)
(* WriteNvmX550, ReprogramMacAddress).                                      *)
THEOREM Committed ==
  ASSUME Device = "X553"
  PROVE  Spec => []UpdateCommitted
<1> DEFINE Inv == /\ Types /\ StageInv /\ OkInv /\ DataType /\ CountType
                  /\ OrderInv /\ MailInv /\ KnownInv
<1>1. Init => Inv
  BY TypesInit, DataInit, KnownInit
<1>2. Inv /\ [Next]_vars => Inv'
  <2> SUFFICES ASSUME Inv, [Next]_vars PROVE Inv'
    OBVIOUS
  <2>1. Types' /\ StageInv' /\ OkInv' /\ DataType' /\ CountType'
    BY TypesStep, StageStep, OkStep, DataTypeStep, CountTypeStep
  <2>2. OrderInv' /\ MailInv' /\ KnownInv'
    BY <2>1, OrderStep, MailStep, KnownStep
  <2> QED
    BY <2>1, <2>2
<1>3. Inv => UpdateCommitted
  <2> SUFFICES ASSUME Inv, At("idle"), run.end = "done", run.update = "ok", ~late
               PROVE  /\ flash = shadow
                      /\ ~run.missed =>
                           /\ flash[Chk] = SumOf(flash)
                           /\ \A a \in Rewritten : flash[a] = Plain("new")
    BY DEF UpdateCommitted
  <2>1. run.calls = <<>> /\ run.kind # "dump"
    BY DEF At, DataType, OrderInv
  <2>2. \A call : ~Pending(call)
    BY <2>1, Nothing DEF Pending
  <2> QED
    BY <2>1, <2>2 DEF KnownInv
<1> HIDE DEF Inv
<1> QED
  BY <1>1, <1>2, <1>3, PTL DEF Spec
=============================================================================
