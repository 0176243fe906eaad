----------------------------- MODULE X5NvmProofs -----------------------------
(***************************************************************************)
(* Proofs about X5Nvm for shadow RAMs of any size, any limits of the       *)
(* retries and any number of runs, uses by the firmware and faults.        *)
(***************************************************************************)
EXTENDS X5Nvm, TLAPS

(* The types of what the semaphores depend on.                              *)
ToolSet ==
  [pc : Steps, phase : {"acq", "rel"}, bit : {"eep", "mng"},
   then : Outcomes, seen : BOOLEAN, reg : BOOLEAN, tries : Nat, hwTries : Nat, ok : BOOLEAN]
ToolType == tool \in ToolSet
SyncType ==
  /\ smbi \in BOOLEAN /\ regsmp \in {"free", "tool", "fw"}
  /\ sw \subseteq {"eep", "mng"} /\ fwBit \in BOOLEAN
  /\ fw \in FwStates
RunType == {"calls", "found", "end", "buf"} \subseteq DOMAIN run
MailType == {"pending", "valid", "cmd"} \subseteq DOMAIN mail /\ mail.valid \in BOOLEAN
Types == ToolType /\ SyncType /\ RunType /\ MailType

LEMMA ToolFields ==
  ASSUME ToolType
  PROVE  /\ tool.pc \in Steps /\ tool.phase \in {"acq", "rel"} /\ tool.bit \in {"eep", "mng"}
         /\ tool.then \in Outcomes /\ tool.seen \in BOOLEAN /\ tool.reg \in BOOLEAN
         /\ tool.tries \in Nat /\ tool.hwTries \in Nat /\ tool.ok \in BOOLEAN
  BY DEF ToolType, ToolSet

(* Counting an attempt.                                                     *)
LEMMA Counted ==
  ASSUME NEW t \in ToolSet, NEW n \in Nat
  PROVE  /\ [t EXCEPT !.hwTries = n] \in ToolSet
         /\ [t EXCEPT !.pc = "smbi", !.tries = n, !.hwTries = 0] \in ToolSet
  BY DEF ToolSet, Steps

-----------------------------------------------------------------------------
(* Where the tool goes when it has put the hardware semaphore back.         *)

(* The start of an acquire or a release.                                    *)
Fresh(t, phase, bit) ==
  /\ t.pc = "smbi" /\ t.phase = phase /\ t.bit = bit /\ t.then = "again"
  /\ t.seen = FALSE /\ t.tries = 0 /\ t.hwTries = 0

LEMMA TakeBitIs ==
  ASSUME ToolType, NEW phase \in {"acq", "rel"}, NEW bit \in {"eep", "mng"}
  PROVE  /\ TakeBit(phase, bit) \in ToolSet
         /\ Fresh(TakeBit(phase, bit), phase, bit)
         /\ \A b \in BOOLEAN : /\ [TakeBit(phase, bit) EXCEPT !.ok = b] \in ToolSet
                               /\ Fresh([TakeBit(phase, bit) EXCEPT !.ok = b], phase, bit)
<1> DEFINE t == TakeBit(phase, bit)
<1>1. NoTool \in ToolSet /\ NoTool.seen = FALSE /\ NoTool.tries = 0 /\ NoTool.hwTries = 0
      /\ NoTool.then = "again"
  BY DEF NoTool, ToolSet, Steps, Outcomes
<1>2. t = [NoTool EXCEPT !.pc = "smbi", !.phase = phase, !.bit = bit, !.ok = tool.ok]
  BY DEF TakeBit
<1>3. tool.ok \in BOOLEAN
  BY DEF ToolType, ToolSet
<1> HIDE DEF t
<1>4. t \in ToolSet /\ Fresh(t, phase, bit)
  BY <1>1, <1>2, <1>3 DEF ToolSet, Steps, Fresh
<1>5. ASSUME NEW b \in BOOLEAN
      PROVE  [t EXCEPT !.ok = b] \in ToolSet /\ Fresh([t EXCEPT !.ok = b], phase, bit)
  BY <1>4 DEF ToolSet, Fresh
<1> QED
  BY <1>4, <1>5 DEF t

LEMMA LostIs ==
  ASSUME ToolType
  PROVE  /\ Lost \in ToolSet
         /\ tool.bit = "mng" /\ Nested => Fresh(Lost, "rel", "eep")
         /\ ~(tool.bit = "mng" /\ Nested) => Lost.pc = "ret"
<1>1. CASE tool.bit = "mng" /\ Nested
  <2>1. Lost = [TakeBit("rel", "eep") EXCEPT !.ok = FALSE]
    BY <1>1, Zenon DEF Lost
  <2> QED
    BY <1>1, <2>1, TakeBitIs
<1>2. CASE ~(tool.bit = "mng" /\ Nested)
  <2>1. Lost = [tool EXCEPT !.pc = "ret", !.ok = FALSE]
    BY <1>2, Zenon DEF Lost
  <2> QED
    BY <1>2, <2>1 DEF ToolType, ToolSet, Steps
<1> QED
  BY <1>1, <1>2

LEMMA WonIs ==
  ASSUME ToolType
  PROVE  /\ Won \in ToolSet
         /\ tool.bit = "eep" => Fresh(Won, "acq", "mng")
         /\ tool.bit = "mng" => Won.pc = "mail"
<1>1. CASE tool.bit = "eep"
  <2>1. Won = TakeBit("acq", "mng")
    BY <1>1 DEF Won
  <2> QED
    BY <1>1, <2>1, TakeBitIs
<1>2. CASE tool.bit = "mng"
  <2>1. Won = [tool EXCEPT !.pc = "mail"]
    BY <1>2 DEF Won
  <2> QED
    BY <1>2, <2>1 DEF ToolType, ToolSet, Steps
<1> QED
  BY <1>1, <1>2, ToolFields

LEMMA ReleasedIs ==
  ASSUME ToolType
  PROVE  /\ Released \in ToolSet
         /\ tool.bit = "eep" \/ ~Nested => Released.pc = "ret"
         /\ tool.bit = "mng" /\ Nested =>
              Released.pc = "fetch" \/ Fresh(Released, "rel", "eep")
<1> DEFINE fetched == Head(run.calls).op \in {"read", "probe"} /\ tool.ok
<1>1. CASE tool.bit = "eep" \/ ~Nested
  <2>1. Released = [tool EXCEPT !.pc = "ret"]
    BY <1>1 DEF Released
  <2> QED
    BY <1>1, <2>1, ToolFields DEF ToolType, ToolSet, Steps
<1>2. CASE ~(tool.bit = "eep" \/ ~Nested) /\ fetched
  <2>1. Released = [tool EXCEPT !.pc = "fetch"]
    BY <1>2 DEF Released
  <2> QED
    BY <1>2, <2>1 DEF ToolType, ToolSet, Steps
<1>3. CASE ~(tool.bit = "eep" \/ ~Nested) /\ ~fetched
  <2>1. Released = TakeBit("rel", "eep")
    BY <1>3 DEF Released
  <2> QED
    BY <1>3, <2>1, TakeBitIs
<1> QED
  BY <1>1, <1>2, <1>3

-----------------------------------------------------------------------------
(* The steps of the tool keep the types.                                    *)

(* What becomes of the tool after a step.                                   *)
Retried == /\ tool'.pc = "smbi" /\ tool'.tries = tool.tries + 1
           /\ tool'.phase = tool.phase /\ tool'.bit = tool.bit
           /\ (Device = "X550" \/ tool.bit = "mng" => tool.tries + 1 # MaxAttempts)

LEMMA PutHwSemaphoreIs ==
  ASSUME ToolType, PutHwSemaphore
  PROVE  /\ tool.pc = "put2" /\ tool' \in ToolSet
         /\ \/ tool.then = "won" /\ tool' = Won
            \/ tool.then = "released" /\ tool' = Released
            \/ tool.then \in {"lost", "again"} /\ tool' = Lost
            \/ tool.then = "out" /\ tool.phase = "acq" /\ tool' = Lost
            \/ tool.then = "out" /\ tool.phase = "rel" /\ Fresh(tool', "rel", tool.bit)
            \/ tool.then = "again" /\ Retried
<1> tool.then \in Outcomes /\ tool.phase \in {"acq", "rel"} /\ tool.bit \in {"eep", "mng"}
  BY ToolFields
<1>1. CASE tool.then = "won"
  BY <1>1, WonIs DEF PutHwSemaphore, Set, At
<1>2. CASE tool.then = "released"
  BY <1>2, ReleasedIs DEF PutHwSemaphore, Set, At
<1>3. CASE tool.then = "lost"
  BY <1>3, LostIs DEF PutHwSemaphore, Set, At
<1>4. CASE tool.then = "out"
  <2>1. tool' = IF tool.phase = "acq" THEN Lost ELSE TakeBit("rel", tool.bit)
    BY <1>4 DEF PutHwSemaphore, Set, At
  <2> QED
    BY <1>4, <2>1, LostIs, TakeBitIs DEF PutHwSemaphore, At
<1>5. CASE tool.then = "again"
  <2>1. tool' = Again /\ tool.pc = "put2"
    BY <1>5 DEF PutHwSemaphore, Set, At
  <2> DEFINE last == tool.tries + 1 = MaxAttempts /\ (Device = "X550" \/ tool.bit = "mng")
  <2>2. CASE last
    BY <1>5, <2>1, <2>2, LostIs DEF Again
  <2>3. CASE ~last
    <3>1. tool' = [tool EXCEPT !.pc = "smbi", !.tries = @ + 1, !.hwTries = 0]
      BY <2>1, <2>3 DEF Again
    <3>2. tool' \in ToolSet
      <4>1. tool.tries + 1 \in Nat
        BY ToolFields
      <4> QED
        BY <3>1, <4>1, Counted DEF ToolType
    <3>3. Retried
      BY <2>3, <3>1 DEF ToolType, ToolSet, Retried
    <3> QED
      BY <1>5, <2>1, <3>2, <3>3
  <2> QED
    BY <2>2, <2>3
<1> QED
  BY <1>1, <1>2, <1>3, <1>4, <1>5 DEF Outcomes

LEMMA BeginIs ==
  ASSUME ToolType, NEW calls
  PROVE  /\ Begin(calls) \in ToolSet
         /\ \/ Begin(calls) = NoTool
            \/ Head(calls).op # "commit" /\ Fresh(Begin(calls), "acq", "eep")
            \/ Head(calls).op = "commit" /\ Fresh(Begin(calls), "acq", "mng")
<1>1. NoTool \in ToolSet
  BY DEF NoTool, ToolSet, Steps, Outcomes
<1> QED
  BY <1>1, TakeBitIs DEF Begin

LEMMA ToolTypeStep == Types /\ [Next]_vars => ToolType'
<1> SUFFICES ASSUME Types, [Next]_vars PROVE tool' \in ToolSet
  BY DEF ToolType
<1> ToolType /\ SyncType /\ MailType
  BY DEF Types
<1> tool \in ToolSet
  BY DEF ToolType
<1>c. tool.hwTries + 1 \in Nat
  BY ToolFields
<1> USE DEF At, Set, Goto
<1>1. CASE Smbi \/ RegGot \/ RegBusy \/ PutRead \/ PutReg
  <2>1. CASE Smbi
    <3>1. CASE tool' = [tool EXCEPT !.hwTries = tool.hwTries + 1]
      BY <1>c, <3>1, Counted
    <3>2. CASE tool' = [tool EXCEPT !.pc = "reg", !.hwTries = 0]
      BY <3>2 DEF ToolSet, Steps
    <3> QED
      BY <2>1, <3>1, <3>2 DEF Smbi
  <2>2. CASE RegGot
    BY <2>2 DEF RegGot, ToolSet, Steps
  <2>3. CASE PutRead \/ PutReg
    BY <2>3 DEF PutRead, PutReg, SyncType, ToolSet, Steps
  <2>4. CASE RegBusy
    <3>1. CASE tool' = [tool EXCEPT !.hwTries = tool.hwTries + 1]
      BY <1>c, <3>1, Counted
    <3>2. CASE tool' = [tool EXCEPT !.pc = "put1", !.then = "out"]
      BY <3>2 DEF ToolSet, Steps, Outcomes
    <3> QED
      BY <2>4, <3>1, <3>2 DEF RegBusy
  <2> QED
    BY <1>1, <2>1, <2>2, <2>3, <2>4
<1>2. CASE Look \/ SetBits
  BY <1>2 DEF Look, SetBits, SyncType, ToolSet, Steps, Outcomes
<1>3. CASE PutHwSemaphore
  BY <1>3, PutHwSemaphoreIs
<1>4. CASE Post
  BY <1>4 DEF Post, ToolSet, Steps
<1>5. CASE Disabled \/ PollDone \/ PollTimeout \/ Fetch
  BY <1>5, TakeBitIs DEF Disabled, PollDone, PollTimeout, Fetch, MailType
<1>6. CASE Start
  BY <1>6, BeginIs DEF Start
<1>7. CASE Return
  BY <1>7, BeginIs DEF Return
<1>8. CASE Kill
  <2>1. tool' = NoTool
    BY <1>8 DEF Kill
  <2> QED
    BY <2>1 DEF NoTool, ToolSet, Steps, Outcomes
<1>9. CASE Mailbox \/ FwHolding \/ FwWant \/ FwTakeReg \/ FwRetry \/ UNCHANGED vars
  BY <1>9 DEF Mailbox, TakeUp, Answer, Refuse, FwHolding, FwLook, FwClear, FwWant, FwTakeReg,
              FwRetry, vars
<1> QED
  BY <1>1, <1>2, <1>3, <1>4, <1>5, <1>6, <1>7, <1>8, <1>9
     DEF Next, ToolStep, Semaphores, HostInterfaceCommand

(* What the steps have in common, by what they may change.                  *)
LEMMA Frame ==
  ASSUME [Next]_vars
  PROVE  /\ UNCHANGED run \/ Start \/ Return \/ Kill \/ Fetch
         /\ UNCHANGED sw \/ SetBits
         /\ UNCHANGED fwBit \/ SetBits \/ PutReg \/ FwLook \/ FwClear
         /\ UNCHANGED mail \/ Post \/ Answer \/ Refuse
         /\ UNCHANGED smbi \/ Smbi \/ PutHwSemaphore
         /\ UNCHANGED regsmp \/ RegGot \/ Look \/ SetBits \/ PutRead \/ PutReg \/ FwTakeReg
            \/ FwLook \/ FwClear
         /\ UNCHANGED fw \/ FwWant \/ FwTakeReg \/ FwLook \/ FwRetry \/ FwClear
         /\ UNCHANGED tool \/ Semaphores \/ HostInterfaceCommand \/ Fetch \/ Return \/ Start \/ Kill
  BY DEF Next, ToolStep, Semaphores, HostInterfaceCommand, Mailbox, FwHolding,
         Smbi, RegGot, RegBusy, PutRead, PutReg, Look, SetBits, PutHwSemaphore, PutSmbi,
         Post, Disabled, PollDone, PollTimeout, Fetch, Start, Return, Kill,
         TakeUp, Answer, Refuse, FwWant, FwTakeReg, FwLook, FwRetry, FwClear,
         vars, semaphores, firmware, memory, history

LEMMA TypesStep == Types /\ [Next]_vars => Types'
<1> SUFFICES ASSUME Types, [Next]_vars PROVE Types'
  OBVIOUS
<1>1. ToolType'
  BY ToolTypeStep
<1>2. SyncType'
  <2>1. SyncType
    BY DEF Types
  <2>2. smbi' \in BOOLEAN
    BY <2>1, Frame DEF SyncType, Smbi, PutHwSemaphore, PutSmbi
  <2>3. regsmp' \in {"free", "tool", "fw"}
    BY <2>1, Frame DEF SyncType, RegGot, PutRead, PutReg, ReadSync, WriteSync,
                               Look, SetBits, FwTakeReg, FwLook, FwClear
  <2>4. sw' \subseteq {"eep", "mng"}
    <3>1. tool.bit \in {"eep", "mng"}
      BY ToolFields DEF Types
    <3>2. sw' = sw \/ sw' = sw \cup Wanted \/ sw' = sw \ GivenBack
      BY Frame DEF SetBits
    <3> QED
      BY <2>1, <3>1, <3>2 DEF SyncType, Wanted
  <2>5. fwBit' \in BOOLEAN
    <3>1. tool.seen \in BOOLEAN
      BY ToolFields DEF Types
    <3>2. fwBit' \in {fwBit, tool.seen, TRUE, FALSE}
      BY Frame DEF SetBits, PutReg, FwLook, FwClear
    <3> QED
      BY <2>1, <3>1, <3>2 DEF SyncType
  <2>6. fw' \in FwStates
    BY <2>1, Frame DEF SyncType, FwStates, FwWant, FwTakeReg, FwLook, FwRetry, FwClear
  <2> QED
    BY <2>2, <2>3, <2>4, <2>5, <2>6 DEF SyncType
<1>3. RunType'
  <2>1. RunType
    BY DEF Types
  <2>2. CASE UNCHANGED run
    BY <2>1, <2>2 DEF RunType
  <2>3. CASE Start
    BY <2>3 DEF Start, RunType
  <2>4. CASE Return \/ Kill \/ Fetch
    <3>1. DOMAIN run' = DOMAIN run
      BY <2>4 DEF Return, Kill, Fetch
    <3> QED
      BY <2>1, <3>1 DEF RunType
  <2> QED
    BY <2>2, <2>3, <2>4, Frame
<1>4. MailType'
  <2>1. MailType
    BY DEF Types
  <2>2. CASE UNCHANGED mail
    BY <2>1, <2>2 DEF MailType
  <2>3. CASE Post
    BY <2>1, <2>3 DEF Post, MailType
  <2>4. CASE Answer
    BY <2>4 DEF Answer, MailType
  <2>5. CASE Refuse
    BY <2>1, <2>5 DEF Refuse, MailType
  <2> QED
    BY <2>2, <2>3, <2>4, <2>5, Frame
<1> QED
  BY <1>1, <1>2, <1>3, <1>4 DEF Types

LEMMA TypesInit == Init => Types
<1> SUFFICES ASSUME Init PROVE Types
  OBVIOUS
<1>1. ToolType
  BY DEF Init, ToolType, ToolSet, NoTool, Steps, Outcomes
<1>2. SyncType
  BY DEF Init, SyncType, FwStates
<1>3. RunType /\ MailType
  BY DEF Init, RunType, MailType
<1> QED
  BY <1>1, <1>2, <1>3 DEF Types

-----------------------------------------------------------------------------
(* What the steps do to the fields of the tool.                             *)

Same == tool'.phase = tool.phase /\ tool'.bit = tool.bit /\ tool'.tries = tool.tries

LEMMA SmbiIs ==
  ASSUME ToolType, Smbi
  PROVE  Same /\ tool.pc = "smbi" /\ tool'.pc \in {"smbi", "reg"}
<1>1. CASE tool' = [tool EXCEPT !.hwTries = tool.hwTries + 1]
  BY <1>1 DEF Smbi, At, ToolType, ToolSet, Same
<1>2. CASE tool' = [tool EXCEPT !.pc = "reg", !.hwTries = 0]
  BY <1>2 DEF Smbi, At, ToolType, ToolSet, Same
<1> QED
  BY <1>1, <1>2 DEF Smbi, Set

LEMMA RegGotIs ==
  ASSUME ToolType, RegGot
  PROVE  Same /\ tool.pc = "reg" /\ tool'.pc = "look"
  BY DEF RegGot, Set, At, ToolType, ToolSet, Same

LEMMA RegBusyIs ==
  ASSUME ToolType, RegBusy
  PROVE  /\ Same /\ tool.pc = "reg"
         /\ \/ tool'.pc = "reg"
            \/ tool'.pc = "put1" /\ tool'.then = "out" /\ regsmp = "tool"
<1>1. CASE tool' = [tool EXCEPT !.hwTries = tool.hwTries + 1]
  BY <1>1 DEF RegBusy, At, ToolType, ToolSet, Same
<1>2. CASE regsmp = "tool" /\ tool' = [tool EXCEPT !.pc = "put1", !.then = "out"]
  BY <1>2 DEF RegBusy, At, ToolType, ToolSet, Same
<1> QED
  BY <1>1, <1>2 DEF RegBusy, Set

LEMMA PutRegIs ==
  ASSUME ToolType, PutRead \/ PutReg
  PROVE  /\ Same /\ tool'.then = tool.then
         /\ \/ PutRead /\ tool.pc = "put1" /\ tool'.pc = "putw" /\ tool'.seen = fwBit
            \/ PutReg /\ tool.pc = "putw" /\ tool'.pc = "put2"
  BY DEF PutRead, PutReg, Set, Goto, At, ToolType, ToolSet, Same

Decides == tool.phase = "rel" \/ (~LastLook /\ ~FwBusy /\ ~SwBusy) \/ (LastLook /\ FwBusy)

LEMMA LookIs ==
  ASSUME ToolType, Look
  PROVE  /\ Same /\ tool.pc = "look"
         /\ \/ Decides /\ tool'.pc = "set" /\ tool'.seen = fwBit /\ tool'.reg = (regsmp # "free")
            \/ /\ ~Decides /\ tool'.pc = "put1" /\ tool'.then \in {"again", "lost", "won"}
               /\ tool'.then = "won" => LastLook
<1>1. CASE Decides
  <2>1. tool' = [tool EXCEPT !.pc = "set", !.seen = fwBit, !.reg = (regsmp # "free")]
    BY <1>1 DEF Look, Set, Decides
  <2> QED
    BY <1>1, <2>1 DEF Look, At, ToolType, ToolSet, Same
<1>2. CASE ~Decides
  <2> DEFINE then == IF ~LastLook THEN "again" ELSE IF SwBusy THEN "lost" ELSE "won"
  <2>1. tool' = [tool EXCEPT !.pc = "put1", !.then = then]
    BY <1>2 DEF Look, Set, Decides
  <2>2. then \in {"again", "lost", "won"} /\ (then = "won" => LastLook)
    OBVIOUS
  <2> HIDE DEF then
  <2> QED
    BY <1>2, <2>1, <2>2 DEF Look, At, ToolType, ToolSet, Same
<1> QED
  BY <1>1, <1>2

LEMMA SetBitsIs ==
  ASSUME ToolType, SetBits
  PROVE  /\ Same /\ tool.pc = "set" /\ tool'.pc = "put1"
         /\ \/ tool.phase = "acq" /\ sw' = sw \cup Wanted /\ tool'.then = "won"
            \/ tool.phase = "rel" /\ sw' = sw \ GivenBack /\ tool'.then = "released"
<1>1. CASE tool.phase = "acq"
  <2>1. tool' = [tool EXCEPT !.pc = "put1", !.then = "won"]
    BY <1>1 DEF SetBits, Set
  <2> QED
    BY <1>1, <2>1 DEF SetBits, At, ToolType, ToolSet, Same
<1>2. CASE tool.phase = "rel"
  <2>1. tool' = [tool EXCEPT !.pc = "put1", !.then = "released"]
    BY <1>2 DEF SetBits, Set
  <2> QED
    BY <1>2, <2>1 DEF SetBits, At, ToolType, ToolSet, Same
<1> QED
  BY <1>1, <1>2, ToolFields

LEMMA PostIs ==
  ASSUME ToolType, Post
  PROVE  tool.pc = "mail" /\ tool'.pc = "poll"
  BY DEF Post, Goto, Set, At, ToolType, ToolSet

LEMMA AnsweredIs ==
  ASSUME Types, Disabled \/ PollDone \/ PollTimeout
  PROVE  tool.pc \in {"mail", "poll"} /\ Fresh(tool', "rel", "mng")
<1>1. ToolType /\ mail.valid \in BOOLEAN
  BY DEF Types, MailType
<1>2. PICK b \in BOOLEAN : tool' = [TakeBit("rel", "mng") EXCEPT !.ok = b]
  BY <1>1 DEF Disabled, PollDone, PollTimeout, Set
<1> QED
  BY <1>1, <1>2, TakeBitIs DEF Disabled, PollDone, PollTimeout, At

LEMMA FetchIs ==
  ASSUME Types, Fetch
  PROVE  tool.pc = "fetch" /\ Fresh(tool', "rel", "eep")
  BY TakeBitIs DEF Types, Fetch, Set, At

LEMMA BegunIs ==
  ASSUME Types, Start \/ Return \/ Kill
  PROVE  \/ tool' = NoTool
         \/ Fresh(tool', "acq", "eep") \/ Fresh(tool', "acq", "mng")
<1>1. ToolType
  BY DEF Types
<1>2. CASE Start
  BY <1>1, <1>2, BeginIs DEF Start, Set
<1>3. CASE Return
  BY <1>1, <1>3, BeginIs DEF Return, Set
<1>4. CASE Kill
  BY <1>4 DEF Kill, Set
<1> QED
  BY <1>2, <1>3, <1>4

-----------------------------------------------------------------------------
(* The firmware's bit and the software's.                                   *)

Locking == {"smbi", "reg", "look", "set", "put1", "putw", "put2"}

(* On an X553 REGSMP covers every look and what is then set, on both sides, *)
(* and the writing back in PutHwSemaphore.  An X550 has no such cover: its  *)
(* tool never overrules, and writes back whatever it saw of the firmware's  *)
(* bit.                                                                     *)
LockInv ==
  /\ Device = "X553" /\ fw \in {"look", "clear"} => regsmp = "fw"
  /\ Device = "X553" /\ tool.pc \in {"look", "set", "put1", "putw"} => regsmp = "tool"
  /\ tool.pc \in Locking /\ (Device = "X550" \/ tool.bit = "mng") => tool.tries < MaxAttempts
  /\ tool.pc = "set" =>
       /\ Device = "X553" => tool.seen = fwBit /\ tool.reg
       /\ tool.phase = "acq" /\ tool.seen /\ "eep" \in Wanted => Device = "X553" /\ LastLook
  /\ Device = "X553" /\ tool.pc = "putw" => tool.seen = fwBit

(* What the tool reads of SW_FW_SYNC and writes to it leaves an X553's      *)
(* REGSMP with the tool, until it is put back.                              *)
LEMMA RegsmpStays ==
  ASSUME LockInv, Device = "X553", Look \/ SetBits \/ PutRead
  PROVE  regsmp = "tool" /\ regsmp' = "tool"
<1>1. regsmp = "tool"
  BY DEF LockInv, Look, SetBits, PutRead, At
<1>2. CASE Look \/ PutRead
  BY <1>1, <1>2 DEF Look, PutRead, ReadSync
<1>3. CASE SetBits
  BY <1>1, <1>3 DEF LockInv, SetBits, At, WriteSync
<1> QED
  BY <1>1, <1>2, <1>3

LEMMA LockTool ==
  ASSUME Types, LockInv, ToolStep \/ Start \/ Kill
  PROVE  LockInv'
<1> USE DEF Locking
<1>1. /\ ToolType /\ tool.bit \in {"eep", "mng"} /\ tool.tries \in Nat
      /\ MaxAttempts \in Nat /\ MaxAttempts > 0 /\ Device \in {"X550", "X553"}
  BY ToolFields, AttemptsAssumption, DeviceAssumption DEF Types
<1>2. CASE Smbi \/ RegGot \/ RegBusy
  <2>1. Same /\ UNCHANGED <<fw, fwBit>> /\ tool.pc \in {"smbi", "reg"}
        /\ tool'.pc \in {"smbi", "reg", "look", "put1"}
        /\ (tool'.pc = "look" /\ Device = "X553" => regsmp' = "tool")
        /\ (tool'.pc = "put1" => regsmp' = "tool")
        /\ (regsmp' = regsmp \/ regsmp = "free")
    BY <1>1, <1>2, SmbiIs, RegGotIs, RegBusyIs
       DEF Smbi, RegGot, RegBusy, firmware, semaphores
  <2> QED
    BY <1>1, <2>1 DEF LockInv, Same
<1>3. CASE PutRead \/ PutReg
  <2>1. Same /\ UNCHANGED fw
    BY <1>1, <1>3, PutRegIs DEF PutRead, PutReg, firmware
  <2>2. CASE PutRead
    <3>1. fwBit' = fwBit /\ tool.pc = "put1" /\ tool'.pc = "putw" /\ tool'.seen = fwBit
      BY <1>1, <2>2, PutRegIs DEF PutRead, PutReg, At
    <3> QED
      BY <1>1, <2>1, <2>2, <3>1, RegsmpStays DEF LockInv, Same
  <2>3. CASE PutReg
    <3>1. tool.pc = "putw" /\ tool'.pc = "put2"
      BY <1>1, <2>3, PutRegIs DEF PutRead, PutReg, At
    <3>2. Device = "X553" => fw \notin {"look", "clear"}
      BY <3>1 DEF LockInv
    <3> QED
      BY <1>1, <2>1, <3>1, <3>2 DEF LockInv, Same
  <2> QED
    BY <1>3, <2>2, <2>3
<1>4. CASE Look
  <2>1. /\ Same /\ UNCHANGED <<fw, fwBit>> /\ tool.pc = "look"
        /\ tool'.pc \in {"set", "put1"}
        /\ Device = "X553" => regsmp' = "tool" /\ regsmp = "tool"
    BY <1>1, <1>4, LookIs, RegsmpStays DEF Look, firmware
  <2>2. ASSUME tool'.pc = "set"
        PROVE  /\ tool'.seen = fwBit /\ (Device = "X553" => tool'.reg)
               /\ tool.phase = "acq" /\ fwBit /\ "eep" \in Wanted => LastLook
    BY <1>1, <1>4, <2>1, <2>2, LookIs DEF Decides, FwBusy
  <2>3. LastLook => Device = "X553"
    BY <1>1, <2>1 DEF LockInv, LastLook
  <2>4. Wanted' = Wanted /\ LastLook' = LastLook
    BY <2>1 DEF Same, Wanted, LastLook
  <2> QED
    BY <1>1, <2>1, <2>2, <2>3, <2>4 DEF LockInv, Same
<1>5. CASE SetBits
  BY <1>1, <1>5, SetBitsIs, RegsmpStays DEF LockInv, Same, SetBits, firmware
<1>6. CASE PutHwSemaphore
  <2>1. UNCHANGED <<fw, fwBit, regsmp>> /\ tool.pc = "put2"
    BY <1>6, <1>1, PutHwSemaphoreIs DEF PutHwSemaphore, PutSmbi, firmware
  <2>2. /\ tool'.pc \in {"ret", "mail", "fetch", "smbi"}
        /\ tool'.pc = "smbi" => tool'.tries = 0 \/ Retried
    BY <1>1, <1>6, PutHwSemaphoreIs, LostIs, WonIs, ReleasedIs DEF Fresh, Retried
  <2>3. ASSUME Retried, Device = "X550" \/ tool.bit = "mng" PROVE tool'.tries < MaxAttempts
    BY <1>1, <2>1, <2>3 DEF LockInv, Retried
  <2> QED
    BY <1>1, <2>1, <2>2, <2>3 DEF LockInv, Retried
<1>7. CASE HostInterfaceCommand \/ Fetch
  <2>1. UNCHANGED <<fw, fwBit, regsmp>>
    BY <1>7 DEF HostInterfaceCommand, Post, Disabled, PollDone, PollTimeout, Fetch,
                firmware, semaphores
  <2>2. tool'.pc = "poll" \/ (tool'.pc = "smbi" /\ tool'.tries = 0)
    BY <1>1, <1>7, PostIs, AnsweredIs, FetchIs DEF HostInterfaceCommand, Fresh
  <2> QED
    BY <1>1, <2>1, <2>2 DEF LockInv
<1>8. CASE Start \/ Return \/ Kill
  <2>1. UNCHANGED <<fw, fwBit, regsmp>>
    BY <1>8 DEF Start, Return, Kill, firmware, semaphores
  <2>2. tool'.pc = "idle" \/ (tool'.pc = "smbi" /\ tool'.tries = 0)
    <3>1. NoTool.pc = "idle"
      BY DEF NoTool
    <3> QED
      BY <1>8, <3>1, BegunIs DEF Fresh
  <2> QED
    BY <1>1, <2>1, <2>2 DEF LockInv
<1> QED
  BY <1>2, <1>3, <1>4, <1>5, <1>6, <1>7, <1>8 DEF ToolStep, Semaphores

LEMMA LockStep == Types /\ LockInv /\ [Next]_vars => LockInv'
<1> SUFFICES ASSUME Types, LockInv, [Next]_vars PROVE LockInv'
  OBVIOUS
<1>1. CASE ToolStep \/ Start \/ Kill
  BY <1>1, LockTool
<1>2. CASE ~(ToolStep \/ Start \/ Kill)
  <2>1. UNCHANGED <<tool, sw>>
    BY <1>2, Frame DEF ToolStep, Semaphores
  <2>2. Wanted' = Wanted /\ LastLook' = LastLook
    BY <2>1 DEF Wanted, LastLook
  <2>3. CASE FwTakeReg
    BY <2>1, <2>2, <2>3 DEF FwTakeReg, LockInv, Locking
  <2>4. CASE FwLook \/ FwClear
    <3>1. (Device = "X553" => regsmp = "fw") /\ fw' \notin {"look", "clear"}
      BY <2>4 DEF FwLook, FwClear, LockInv
    <3> QED
      BY <2>1, <2>2, <3>1 DEF LockInv, Locking
  <2>5. CASE ~(FwTakeReg \/ FwLook \/ FwClear)
    <3>1. UNCHANGED <<fwBit, regsmp>> /\ (UNCHANGED fw \/ FwWant \/ FwRetry)
      BY <1>2, <2>5, Frame DEF ToolStep, Semaphores
    <3>2. fw' \in {"look", "clear"} => fw' = fw
      BY <3>1 DEF FwWant, FwRetry
    <3> QED
      BY <2>1, <2>2, <3>1, <3>2 DEF LockInv, Locking
  <2> QED
    BY <2>3, <2>4, <2>5
<1> QED
  BY <1>1, <1>2

(* So does what is written back when the hardware semaphore is put.         *)
PutInv == tool.pc = "putw" /\ tool.seen /\ "eep" \in sw => forced

LEMMA ExclusiveStep == Types /\ LockInv /\ PutInv /\ SyncExclusive /\ [Next]_vars => SyncExclusive'
<1> SUFFICES ASSUME Types, LockInv, PutInv, SyncExclusive, [Next]_vars,
                    "eep" \in sw', fwBit'
             PROVE  forced'
  BY DEF SyncExclusive
<1>1. CASE SetBits
  <2>1. /\ ToolType /\ tool.phase \in {"acq", "rel"} /\ Device \in {"X550", "X553"}
    BY ToolFields, DeviceAssumption DEF Types
  <2>2. fwBit' = tool.seen /\ forced' = (forced \/ Overruling) /\ tool.pc = "set"
    BY <1>1 DEF SetBits, At
  <2>3. CASE "eep" \in sw /\ fwBit
    BY <2>2, <2>3 DEF SyncExclusive
  <2>4. CASE "eep" \notin sw
    <3>1. tool.phase = "acq" /\ "eep" \in Wanted
      BY <1>1, <2>1, <2>4, SetBitsIs
    <3> QED
      BY <2>2, <3>1 DEF LockInv, Overruling
  <2>5. CASE ~fwBit
    <3>1. Device = "X550"
      BY <2>1, <2>2, <2>5 DEF LockInv
    <3>2. tool.phase = "acq"
      BY <1>1, <2>1, <3>1, SetBitsIs DEF GivenBack
    <3> QED
      BY <2>2, <3>1, <3>2 DEF LockInv, Wanted
  <2> QED
    BY <2>3, <2>4, <2>5
<1>2. CASE ~SetBits
  <2>1. sw' = sw /\ (UNCHANGED fwBit \/ PutReg \/ FwLook \/ FwClear)
    BY <1>2, Frame
  <2>2. UNCHANGED fwBit \/ (tool.pc = "putw" /\ fwBit' = tool.seen)
    BY <2>1 DEF PutReg, FwLook, FwClear, At
  <2>3. forced' = forced
    BY <1>2 DEF Next, ToolStep, Semaphores, HostInterfaceCommand, Mailbox, FwHolding,
                Smbi, RegGot, RegBusy, PutRead, PutReg, Look, PutHwSemaphore, history,
                Post, Disabled, PollDone, PollTimeout, Fetch, Start, Return, Kill,
                TakeUp, Answer, Refuse, FwWant, FwTakeReg, FwLook, FwRetry, FwClear, vars
  <2> QED
    BY <2>1, <2>2, <2>3 DEF PutInv, SyncExclusive
<1> QED
  BY <1>1, <1>2

LEMMA PutStep == Types /\ PutInv /\ SyncExclusive /\ [Next]_vars => PutInv'
<1> SUFFICES ASSUME Types, PutInv, SyncExclusive, [Next]_vars PROVE PutInv'
  OBVIOUS
<1>1. ToolType /\ tool.bit \in {"eep", "mng"}
  BY ToolFields DEF Types
<1>2. CASE PutRead
  <2>1. UNCHANGED <<sw, forced>> /\ tool'.seen = fwBit
    BY <1>1, <1>2, PutRegIs DEF PutRead, PutReg, At, history
  <2> QED
    BY <2>1 DEF PutInv, SyncExclusive
<1>3. CASE UNCHANGED tool
  <2>1. sw' = sw /\ forced' = forced
    <3>1. ~SetBits
      BY <1>1, <1>3, SetBitsIs
    <3> QED
      BY <3>1, Frame DEF Next, ToolStep, Semaphores, HostInterfaceCommand, Mailbox, FwHolding,
                Smbi, RegGot, RegBusy, PutRead, PutReg, Look, PutHwSemaphore, history,
                Post, Disabled, PollDone, PollTimeout, Fetch, Start, Return, Kill,
                TakeUp, Answer, Refuse, FwWant, FwTakeReg, FwLook, FwRetry, FwClear, vars
  <2> QED
    BY <1>3, <2>1 DEF PutInv
<1>4. CASE ~PutRead /\ ~UNCHANGED tool
  <2>1. \/ Smbi \/ RegGot \/ RegBusy \/ PutReg \/ Look \/ SetBits \/ PutHwSemaphore
        \/ HostInterfaceCommand \/ Fetch \/ Start \/ Return \/ Kill
    BY <1>4, Frame DEF Semaphores
  <2>2. CASE Smbi \/ RegGot \/ RegBusy \/ PutReg \/ Look \/ SetBits
    BY <1>1, <1>4, <2>2, SmbiIs, RegGotIs, RegBusyIs, PutRegIs, LookIs, SetBitsIs DEF PutInv
  <2>3. CASE PutHwSemaphore
    BY <1>1, <2>3, PutHwSemaphoreIs, LostIs, WonIs, ReleasedIs DEF Fresh, Retried, PutInv
  <2>4. CASE HostInterfaceCommand \/ Fetch
    BY <1>1, <2>4, PostIs, AnsweredIs, FetchIs DEF HostInterfaceCommand, Fresh, PutInv
  <2>5. CASE Start \/ Return \/ Kill
    BY <2>5, BegunIs DEF Fresh, NoTool, PutInv
  <2> QED
    BY <2>1, <2>2, <2>3, <2>4, <2>5
<1> QED
  BY <1>2, <1>3, <1>4

(* The NVM is the software's and the firmware's at once only after an       *)
(* acquire that overruled the firmware, on either device, for any number of *)
(* kills, stale bits and uses by the firmware.                              *)
THEOREM Exclusive == Spec => []SyncExclusive
<1> DEFINE Inv == Types /\ LockInv /\ PutInv /\ SyncExclusive
<1>1. Init => Inv
  <2> SUFFICES ASSUME Init PROVE Inv
    OBVIOUS
  <2>1. Types
    BY TypesInit
  <2>2. SyncExclusive
    BY DEF Init, SyncExclusive
  <2>3. LockInv /\ PutInv
    BY DEF Init, LockInv, PutInv, NoTool, Locking
  <2> QED
    BY <2>1, <2>2, <2>3
<1>2. Inv /\ [Next]_vars => Inv'
  BY TypesStep, LockStep, PutStep, ExclusiveStep
<1>3. Inv => SyncExclusive
  OBVIOUS
<1> QED
  BY <1>1, <1>2, <1>3, PTL DEF Spec

(* On an X553 the firmware's bit stands as long as the firmware uses the    *)
(* NVM, whatever the tool writes to the register: a read takes REGSMP, and  *)
(* what is written back is still what stands there.                         *)
THEOREM FirmwareIsMarked == ASSUME Device = "X553" PROVE Spec => []FirmwareMarked
<1> DEFINE Inv == Types /\ LockInv /\ FirmwareMarked
<1>1. Init => Inv
  <2> SUFFICES ASSUME Init PROVE Inv
    OBVIOUS
  <2> QED
    BY TypesInit DEF Init, LockInv, FirmwareMarked, NoTool, Locking
<1>2. Types /\ LockInv /\ FirmwareMarked /\ [Next]_vars => FirmwareMarked'
  <2> SUFFICES ASSUME Types, LockInv, FirmwareMarked, [Next]_vars PROVE FirmwareMarked'
    OBVIOUS
  <2>1. CASE SetBits \/ PutReg
    <3>1. fwBit' = fwBit /\ fw' = fw
      BY <2>1 DEF SetBits, PutReg, LockInv, At, firmware
    <3> QED
      BY <3>1 DEF FirmwareMarked
  <2>2. CASE FwLook \/ FwClear
    BY <2>2 DEF FwLook, FwClear, FirmwareMarked
  <2>3. CASE FwTakeReg
    BY <2>3 DEF FwTakeReg, FirmwareMarked
  <2>4. CASE ~(SetBits \/ PutReg \/ FwLook \/ FwClear \/ FwTakeReg)
    <3>1. UNCHANGED fwBit /\ (UNCHANGED fw \/ FwWant \/ FwRetry)
      BY <2>4, Frame
    <3>2. fw' \in {"use", "clear"} => fw' = fw
      BY <3>1 DEF FwWant, FwRetry
    <3> QED
      BY <3>1, <3>2 DEF FirmwareMarked
  <2> QED
    BY <2>1, <2>2, <2>3, <2>4
<1>3. Inv /\ [Next]_vars => Inv'
  BY <1>2, TypesStep, LockStep
<1>4. Inv => FirmwareMarked
  OBVIOUS
<1> QED
  BY <1>1, <1>3, <1>4, PTL DEF Spec

-----------------------------------------------------------------------------
(* Who set the mailbox bit.                                                 *)

LEMMA RunIs ==
  ASSUME Types, [Next]_vars, ~Start
  PROVE  /\ run'.found = run.found
         /\ ~Return /\ ~Kill => run'.calls = run.calls /\ run'.end = run.end
<1>1. RunType
  BY DEF Types
<1>2. CASE UNCHANGED run
  BY <1>2
<1>3. CASE Return
  BY <1>1, <1>3 DEF Return, RunType
<1>4. CASE Kill
  BY <1>1, <1>4 DEF Kill, RunType
<1>5. CASE Fetch
  BY <1>1, <1>5 DEF Fetch, RunType
<1> QED
  BY <1>2, <1>3, <1>4, <1>5, Frame

(* A mailbox bit that the run found set stays set and is never given back;  *)
(* one that it waits for an answer under is one that it set itself.         *)
OwnInv ==
  /\ tool.pc # "idle" /\ "mng" \in run.found => "mng" \in sw
  /\ tool.pc \in Locking /\ tool.phase = "rel" /\ tool.bit = "mng" => "mng" \notin run.found
  /\ tool.pc = "set" /\ tool.phase = "acq" /\ tool.bit = "mng" => "mng" \notin sw
  /\ tool.pc \in {"put1", "putw", "put2"} /\ tool.then = "won" /\ tool.bit = "mng" =>
       "mng" \in sw /\ "mng" \notin run.found
  /\ tool.pc \in {"mail", "poll"} => "mng" \in sw /\ "mng" \notin run.found

LEMMA OwnStep == Types /\ LockInv /\ OwnInv /\ [Next]_vars => OwnInv'
<1> SUFFICES ASSUME Types, LockInv, OwnInv, [Next]_vars PROVE OwnInv'
  OBVIOUS
<1> USE DEF Locking
<1>1. /\ ToolType /\ tool.bit \in {"eep", "mng"} /\ tool.phase \in {"acq", "rel"}
      /\ tool.tries \in Nat /\ MaxAttempts \in Nat /\ Device \in {"X550", "X553"}
  BY ToolFields, AttemptsAssumption, DeviceAssumption DEF Types
<1>2. CASE Start
  <2>1. run'.found = sw /\ sw' = sw
    BY <1>2 DEF Start, semaphores
  <2>2. tool'.pc = "idle" \/ (tool'.pc = "smbi" /\ tool'.phase = "acq" /\ tool'.then = "again")
    <3>1. NoTool.pc = "idle"
      BY DEF NoTool
    <3> QED
      BY <1>2, <3>1, BegunIs DEF Fresh
  <2> QED
    BY <2>1, <2>2 DEF OwnInv
<1>3. CASE Return \/ Kill
  <2>1. run'.found = run.found /\ sw' = sw /\ tool.pc # "idle"
    <3>1. ~Start
      BY <1>3 DEF Start, Return, Kill, At
    <3> QED
      BY <1>3, <3>1, RunIs DEF Return, Kill, semaphores, At
  <2>2. tool'.pc = "idle" \/ (tool'.pc = "smbi" /\ tool'.phase = "acq")
    <3>1. NoTool.pc = "idle"
      BY DEF NoTool
    <3> QED
      BY <1>3, <3>1, BegunIs DEF Fresh
  <2> QED
    BY <2>1, <2>2 DEF OwnInv
<1>4. ASSUME ~Start, ~Return, ~Kill PROVE run'.found = run.found
  BY <1>4, RunIs
<1>5. CASE Smbi \/ RegGot \/ RegBusy \/ PutRead \/ PutReg
  <2>1. run' = run /\ sw' = sw
    BY <1>5 DEF Smbi, RegGot, RegBusy, PutRead, PutReg, semaphores
  <2>2. Same /\ tool.pc \in Locking /\ tool'.pc \in Locking /\ tool'.pc # "set"
        /\ (tool'.pc \in {"put1", "putw", "put2"} =>
              tool'.then = "out" \/ (tool.pc \in {"put1", "putw"} /\ tool'.then = tool.then))
    BY <1>1, <1>5, SmbiIs, RegGotIs, RegBusyIs, PutRegIs
  <2> QED
    BY <2>1, <2>2 DEF OwnInv, Same
<1>6. CASE Look
  <2>1. run' = run /\ sw' = sw
    BY <1>6 DEF Look, semaphores
  <2>2. Same /\ tool.pc = "look" /\ tool'.pc \in {"set", "put1"}
    BY <1>1, <1>6, LookIs
  <2>3. ASSUME tool.bit = "mng" PROVE ~LastLook
    BY <1>1, <2>2, <2>3 DEF LockInv, LastLook
  <2>4. ASSUME tool.bit = "mng", tool'.pc = "set", tool.phase = "acq" PROVE "mng" \notin sw
    <3>1. ~SwBusy
      BY <1>1, <1>6, <2>3, <2>4, LookIs DEF Decides
    <3> QED
      BY <2>4, <3>1 DEF SwBusy, Wanted
  <2>5. tool.bit = "mng" /\ tool'.pc = "put1" => tool'.then # "won"
    BY <1>1, <1>6, <2>3, LookIs
  <2> QED
    BY <2>1, <2>2, <2>4, <2>5 DEF OwnInv, Same
<1>7. CASE SetBits
  <2>1. run' = run
    BY <1>7 DEF SetBits
  <2>2. CASE tool.phase = "acq"
    <3>1. /\ Same /\ tool.pc = "set" /\ tool'.pc = "put1" /\ sw' = sw \cup Wanted
      BY <1>1, <1>7, <2>2, SetBitsIs
    <3>2. tool.bit = "mng" => "mng" \in sw' /\ "mng" \notin run.found
      BY <2>2, <3>1 DEF OwnInv, Wanted
    <3> QED
      BY <2>1, <2>2, <3>1, <3>2 DEF OwnInv, Same
  <2>3. CASE tool.phase = "rel"
    <3>1. /\ Same /\ tool.pc = "set" /\ tool'.pc = "put1" /\ sw' = sw \ GivenBack
          /\ tool'.then = "released"
      BY <1>1, <1>7, <2>3, SetBitsIs
    <3>2. "mng" \in GivenBack => tool.bit = "mng"
      BY DEF GivenBack
    <3> QED
      BY <2>1, <2>3, <3>1, <3>2 DEF OwnInv, Same
  <2> QED
    BY <1>1, <2>2, <2>3
<1>8. CASE PutHwSemaphore
  <2>1. run' = run /\ sw' = sw /\ tool.pc = "put2"
    BY <1>8 DEF PutHwSemaphore, PutSmbi, At
  <2>2. tool'.pc \in {"ret", "fetch"}
        \/ (tool'.pc = "smbi" /\ tool'.phase = tool.phase /\ tool'.bit = tool.bit)
        \/ (tool'.pc = "smbi" /\ tool'.bit = "eep")
        \/ (tool'.pc = "smbi" /\ tool'.phase = "acq")
        \/ (tool'.pc = "mail" /\ tool.then = "won" /\ tool.bit = "mng")
    BY <1>1, <1>8, PutHwSemaphoreIs, LostIs, WonIs, ReleasedIs DEF Fresh, Retried
  <2> QED
    BY <2>1, <2>2 DEF OwnInv
<1>9. CASE Post \/ Disabled \/ PollDone \/ PollTimeout
  <2>1. run' = run /\ sw' = sw
    BY <1>9 DEF Post, Disabled, PollDone, PollTimeout, semaphores
  <2>2. /\ tool.pc \in {"mail", "poll"}
        /\ tool'.pc = "poll" \/ tool'.pc = "smbi"
    BY <1>1, <1>9, PostIs, AnsweredIs DEF Fresh
  <2> QED
    BY <2>1, <2>2 DEF OwnInv
<1>10. CASE Fetch
  <2>1. sw' = sw /\ run'.found = run.found
    <3>1. (~Start /\ ~Return /\ ~Kill) \/ Kill \/ Return
      BY <1>10 DEF Fetch, Start, At
    <3> QED
      BY <1>10, <3>1, <1>4, RunIs DEF Fetch, semaphores, Start, At
  <2>2. tool.pc = "fetch" /\ tool'.pc = "smbi" /\ tool'.bit = "eep"
    BY <1>10, FetchIs DEF Fresh
  <2> QED
    BY <2>1, <2>2 DEF OwnInv
<1>11. CASE ~(ToolStep \/ Start \/ Kill)
  <2>1. UNCHANGED <<tool, sw, run>>
    BY <1>11, Frame DEF ToolStep, Semaphores
  <2> QED
    BY <2>1 DEF OwnInv
<1> QED
  BY <1>2, <1>3, <1>5, <1>6, <1>7, <1>8, <1>9, <1>10, <1>11
     DEF ToolStep, Semaphores, HostInterfaceCommand

(* A command is only ever posted, and waited for, under a mailbox bit that  *)
(* this run of the tool has set, on either device.                          *)
THEOREM MailboxIsOwn == Spec => []MailboxOwned
<1> DEFINE Inv == Types /\ LockInv /\ OwnInv
<1>1. Init => Inv
  <2> SUFFICES ASSUME Init PROVE Inv
    OBVIOUS
  <2>1. Types
    BY TypesInit
  <2>2. tool.pc = "idle" /\ fw = "idle"
    BY DEF Init, NoTool
  <2> QED
    BY <2>1, <2>2 DEF LockInv, OwnInv, Locking
<1>2. Inv /\ [Next]_vars => Inv'
  BY TypesStep, LockStep, OwnStep
<1>3. Inv => MailboxOwned
  BY DEF OwnInv, MailboxOwned, At
<1> QED
  BY <1>1, <1>2, <1>3, PTL DEF Spec

-----------------------------------------------------------------------------
(* What a run of an X553 has taken at each of its steps.                    *)

Releasing(bit) ==
  /\ tool.pc \in Locking /\ tool.bit = bit /\ tool.phase = "rel"
  /\ ~(tool.pc \in {"put1", "putw", "put2"} /\ tool.then = "released")
Gained(bit) == tool.pc \in {"put1", "putw", "put2"} /\ tool.bit = bit /\ tool.then = "won"

HasMng == tool.pc \in {"mail", "poll"} \/ Releasing("mng") \/ Gained("mng")
HasEep ==
  \/ tool.pc = "fetch"
  \/ tool.pc \in {"mail", "poll"} /\ Nested
  \/ tool.pc \in Locking /\ tool.bit = "mng" /\ Nested
  \/ Releasing("eep") \/ Gained("eep")

(* The NVM bit is only wanted by commands that nest the mailbox in it, and  *)
(* an acquire and a release end in their own ways.                          *)
StageInv ==
  /\ tool.pc \in Locking /\ tool.bit = "eep" => Nested
  /\ tool.pc = "fetch" => Nested
  /\ tool.pc \in {"put1", "putw", "put2"} =>
       /\ tool.then \in {"again", "lost", "won"} => tool.phase = "acq"
       /\ tool.then = "released" => tool.phase = "rel"

HwInv ==
  /\ tool.pc \in {"ret", "mail", "poll", "fetch"} => ~smbi /\ regsmp # "tool"
  /\ tool.pc = "put2" => regsmp # "tool"
  /\ tool.pc = "idle" /\ run.end = "done" => ~smbi /\ regsmp # "tool"

HeldInv ==
  tool.pc # "idle" \/ run.end = "done" =>
    /\ "mng" \in sw => "mng" \in run.found \/ HasMng
    /\ "eep" \in sw => "eep" \in run.found \/ HasEep

LEMMA BegunStages ==
  ASSUME Types, Start \/ Return \/ Kill
  PROVE  /\ tool'.pc = "idle" \/ (tool'.pc = "smbi" /\ tool'.phase = "acq")
         /\ tool'.pc = "smbi" /\ tool'.bit = "eep" => Nested'
         /\ Return /\ tool'.pc = "idle" => run'.end = "done"
         /\ Start => run'.end = "none"
         /\ Kill => run'.end = "killed"
<1>1. ToolType /\ RunType /\ NoTool.pc = "idle" /\ NoTool.bit = "mng"
  BY DEF Types, NoTool
<1>2. ASSUME NEW calls, run'.calls = calls, tool' = Begin(calls)
      PROVE  /\ tool'.pc = "idle" \/ (tool'.pc = "smbi" /\ tool'.phase = "acq")
             /\ tool'.pc = "smbi" /\ tool'.bit = "eep" => Nested'
             /\ tool'.pc = "idle" => calls = <<>>
  <2>1. calls # <<>> => ~(Begin(calls) = NoTool)
    <3>1. ASSUME calls # <<>> PROVE Begin(calls).pc = "smbi"
      <4> DEFINE bit == IF Head(calls).op = "commit" THEN "mng" ELSE "eep"
      <4>1. Begin(calls) = [TakeBit("acq", bit) EXCEPT !.ok = FALSE]
        BY <3>1 DEF Begin
      <4>2. bit \in {"eep", "mng"}
        OBVIOUS
      <4> HIDE DEF bit
      <4> QED
        BY <1>1, <4>1, <4>2, TakeBitIs DEF Fresh
    <3> QED
      BY <1>1, <3>1
  <2> QED
    BY <1>1, <1>2, <2>1, BeginIs DEF Fresh, Nested
<1>3. CASE Start
  <2>1. PICK kind : run'.calls = Program(kind) /\ tool' = Begin(Program(kind)) /\ run'.end = "none"
    BY <1>3 DEF Start, Set
  <2>2. ~Return /\ ~Kill
    BY <1>3 DEF Start, Return, Kill, At
  <2> QED
    BY <1>2, <2>1, <2>2
<1>4. CASE Return
  <2> DEFINE rest == IF Head(run.calls).op \in {"probe", "sum"} /\ ~tool.ok
                     THEN <<>> ELSE Tail(run.calls)
  <2>1. /\ tool' = Begin(rest) /\ run'.calls = rest
        /\ rest = <<>> => run'.end = "done"
    BY <1>1, <1>4 DEF Return, Set, RunType
  <2> HIDE DEF rest
  <2>2. ~Start
    BY <1>4 DEF Start, Return, At
  <2>3. Kill => tool' = NoTool /\ run'.end = "killed"
    BY <1>1 DEF Kill, Set, RunType
  <2> QED
    BY <1>1, <1>2, <2>1, <2>2, <2>3
<1>5. CASE Kill
  <2>1. tool' = NoTool /\ run'.end = "killed" /\ ~Start
    BY <1>1, <1>5 DEF Kill, Set, RunType, Start
  <2>2. Return /\ tool'.pc = "idle" => run'.end = "done"
    BY <1>4, <1>5
  <2> QED
    BY <1>1, <2>1, <2>2
<1> QED
  BY <1>3, <1>4, <1>5

LEMMA NestedIs ==
  ASSUME Types, [Next]_vars, ~Start, ~Return, ~Kill
  PROVE  Nested' = Nested /\ run'.found = run.found /\ run'.end = run.end
  BY RunIs DEF Nested

(* Where the put of the hardware semaphore leads to, by what is held.       *)
LEMMA PutIs ==
  ASSUME Types, StageInv, PutHwSemaphore
  PROVE  /\ tool.pc = "put2"
         /\ \/ Gained("eep") /\ Fresh(tool', "acq", "mng") /\ Nested
            \/ Gained("mng") /\ tool'.pc = "mail"
            \/ tool.then = "released" /\ (tool.bit = "eep" \/ ~Nested) /\ tool'.pc = "ret"
            \/ tool.bit = "mng" /\ Nested /\ tool.then = "released"
               /\ (tool'.pc = "fetch" \/ Fresh(tool', "rel", "eep"))
            \/ tool.bit = "mng" /\ Nested /\ tool.phase = "acq" /\ tool.then # "won"
               /\ Fresh(tool', "rel", "eep")
            \/ tool.phase = "acq" /\ tool.then # "won" /\ tool'.pc = "ret"
               /\ ~(tool.bit = "mng" /\ Nested)
            \/ tool.phase = "rel" /\ tool.then # "released" /\ Fresh(tool', "rel", tool.bit)
            \/ tool.phase = "acq" /\ tool.then = "again" /\ tool'.pc = "smbi"
               /\ tool'.phase = "acq" /\ tool'.bit = tool.bit
<1>1. ToolType /\ tool.bit \in {"eep", "mng"} /\ tool.phase \in {"acq", "rel"}
      /\ tool.then \in Outcomes
  BY ToolFields DEF Types
<1>2. tool.pc = "put2"
  BY <1>1, PutHwSemaphoreIs
<1>3. /\ tool.then \in {"again", "lost", "won"} => tool.phase = "acq"
      /\ tool.then = "released" => tool.phase = "rel"
      /\ tool.bit = "eep" => Nested
  BY <1>2 DEF StageInv, Locking
<1>4. CASE tool.then = "won"
  <2>1. tool' = Won
    BY <1>1, <1>4, PutHwSemaphoreIs
  <2> QED
    BY <1>1, <1>2, <1>3, <1>4, <2>1, WonIs DEF Gained
<1>5. CASE tool.then = "released"
  <2>1. tool' = Released
    BY <1>1, <1>5, PutHwSemaphoreIs
  <2> QED
    BY <1>1, <1>2, <1>5, <2>1, ReleasedIs
<1>6. CASE tool' = Lost /\ tool.phase = "acq" /\ tool.then # "won"
  BY <1>1, <1>2, <1>6, LostIs
<1>7. CASE tool.then = "out" /\ tool.phase = "rel"
  BY <1>1, <1>2, <1>7, PutHwSemaphoreIs
<1>8. CASE tool.then = "again" /\ Retried
  BY <1>2, <1>3, <1>8 DEF Retried
<1> QED
  BY <1>1, <1>2, <1>3, <1>4, <1>5, <1>6, <1>7, <1>8, PutHwSemaphoreIs

LEMMA StageStep == Types /\ StageInv /\ [Next]_vars => StageInv'
<1> SUFFICES ASSUME Types, StageInv, [Next]_vars PROVE StageInv'
  OBVIOUS
<1> USE DEF Locking
<1>1. ToolType /\ tool.bit \in {"eep", "mng"} /\ tool.phase \in {"acq", "rel"}
  BY ToolFields DEF Types
<1>2. CASE Start \/ Return \/ Kill
  BY <1>2, BegunStages DEF StageInv
<1>3. CASE Smbi \/ RegGot \/ RegBusy \/ PutRead \/ PutReg
  <2>1. Nested' = Nested
    BY <1>3 DEF Smbi, RegGot, RegBusy, PutRead, PutReg, Nested
  <2>2. Same /\ tool.pc \in Locking /\ tool'.pc \in Locking
        /\ (tool'.pc \in {"put1", "putw", "put2"} =>
              tool'.then = "out" \/ (tool.pc \in {"put1", "putw"} /\ tool'.then = tool.then))
    BY <1>1, <1>3, SmbiIs, RegGotIs, RegBusyIs, PutRegIs
  <2> QED
    BY <2>1, <2>2 DEF StageInv, Same
<1>4. CASE Look
  <2>1. Nested' = Nested
    BY <1>4 DEF Look, Nested
  <2>2. Same /\ tool.pc = "look" /\ tool'.pc \in {"set", "put1"}
        /\ (tool'.pc = "put1" => tool.phase = "acq" /\ tool'.then # "released")
    BY <1>1, <1>4, LookIs DEF Decides
  <2> QED
    BY <2>1, <2>2 DEF StageInv, Same
<1>5. CASE SetBits
  <2>1. Nested' = Nested
    BY <1>5 DEF SetBits, Nested
  <2> QED
    BY <1>1, <1>5, <2>1, SetBitsIs DEF StageInv, Same
<1>6. CASE PutHwSemaphore
  <2>1. Nested' = Nested
    BY <1>6 DEF PutHwSemaphore, PutSmbi, Nested
  <2>2. /\ tool.pc = "put2"
        /\ \/ tool'.pc \in {"ret", "mail"}
           \/ tool'.pc = "fetch" /\ Nested
           \/ tool'.pc = "smbi" /\ (tool'.bit = "mng" \/ Nested)
           \/ tool'.pc = "smbi" /\ tool'.bit = tool.bit
    BY <1>6, PutIs DEF Fresh
  <2> QED
    BY <2>1, <2>2 DEF StageInv
<1>7. CASE HostInterfaceCommand
  <2>1. tool'.pc = "poll" \/ (tool'.pc = "smbi" /\ tool'.bit = "mng")
    BY <1>1, <1>7, PostIs, AnsweredIs DEF HostInterfaceCommand, Fresh
  <2> QED
    BY <2>1 DEF StageInv
<1>8. CASE Fetch
  <2>1. tool.pc = "fetch" /\ tool'.pc = "smbi"
    BY <1>8, FetchIs DEF Fresh
  <2>2. Nested' = Nested
    BY <1>8 DEF Fetch, Types, RunType, Nested
  <2> QED
    BY <2>1, <2>2 DEF StageInv
<1>9. CASE ~(ToolStep \/ Start \/ Kill)
  <2>1. UNCHANGED <<tool, run>>
    BY <1>9, Frame DEF ToolStep, Semaphores
  <2> QED
    BY <2>1 DEF StageInv, Nested
<1> QED
  BY <1>2, <1>3, <1>4, <1>5, <1>6, <1>7, <1>8, <1>9 DEF ToolStep, Semaphores

LEMMA HwStep == Types /\ StageInv /\ HwInv /\ [Next]_vars => HwInv'
<1> SUFFICES ASSUME Types, StageInv, HwInv, [Next]_vars PROVE HwInv'
  OBVIOUS
<1>1. ToolType
  BY DEF Types
<1>2. CASE Start \/ Return \/ Kill
  <2>1. UNCHANGED <<smbi, regsmp>>
    BY <1>2 DEF Start, Return, Kill, semaphores
  <2>2. tool'.pc \in {"idle", "smbi"} /\ (Start => run'.end = "none") /\ (Kill => run'.end = "killed")
    BY <1>2, BegunStages
  <2>3. Return => tool.pc = "ret"
    BY DEF Return, At
  <2> QED
    BY <1>2, <2>1, <2>2, <2>3 DEF HwInv
<1>3. CASE Smbi \/ RegGot \/ RegBusy \/ Look \/ SetBits
  <2>1. tool'.pc \in {"smbi", "reg", "look", "set", "put1"}
    BY <1>1, <1>3, SmbiIs, RegGotIs, RegBusyIs, LookIs, SetBitsIs
  <2> QED
    BY <2>1 DEF HwInv
<1>4. CASE PutRead \/ PutReg
  <2>1. tool'.pc = "putw" \/ (tool'.pc = "put2" /\ regsmp' = "free")
    BY <1>1, <1>4, PutRegIs DEF PutReg, WriteSync
  <2> QED
    BY <2>1 DEF HwInv
<1>5. CASE PutHwSemaphore
  <2>1. /\ tool.pc = "put2" /\ regsmp' = regsmp /\ smbi' = FALSE
        /\ tool'.pc \in {"ret", "mail", "fetch", "smbi"}
    BY <1>5, PutIs DEF PutHwSemaphore, PutSmbi, Fresh
  <2> QED
    BY <2>1 DEF HwInv
<1>6. CASE HostInterfaceCommand \/ Fetch
  <2>1. UNCHANGED <<smbi, regsmp>>
    BY <1>6 DEF HostInterfaceCommand, Post, Disabled, PollDone, PollTimeout, Fetch, semaphores
  <2>2. tool.pc \in {"mail", "poll", "fetch"} /\ tool'.pc \in {"poll", "smbi"}
    BY <1>1, <1>6, PostIs, AnsweredIs, FetchIs DEF HostInterfaceCommand, Fresh
  <2> QED
    BY <2>1, <2>2 DEF HwInv
<1>7. CASE ~(ToolStep \/ Start \/ Kill)
  <2>1. UNCHANGED <<tool, run, smbi>> /\ (regsmp' = regsmp \/ regsmp' \in {"fw", "free"})
    BY <1>7, Frame DEF ToolStep, Semaphores, FwTakeReg, FwLook, FwClear
  <2> QED
    BY <2>1 DEF HwInv
<1> QED
  BY <1>2, <1>3, <1>4, <1>5, <1>6, <1>7 DEF ToolStep, Semaphores

LEMMA HeldStep ==
  ASSUME Device = "X553"
  PROVE  Types /\ StageInv /\ HeldInv /\ [Next]_vars => HeldInv'
<1> SUFFICES ASSUME Types, StageInv, HeldInv, [Next]_vars PROVE HeldInv'
  OBVIOUS
<1> USE DEF Locking
<1>1. ToolType /\ tool.bit \in {"eep", "mng"} /\ tool.phase \in {"acq", "rel"}
  BY ToolFields DEF Types
<1>2. CASE Start
  <2>1. run'.found = sw /\ sw' = sw
    BY <1>2 DEF Start, semaphores
  <2> QED
    BY <2>1 DEF HeldInv
<1>3. CASE Kill
  <2>1. tool'.pc = "idle" /\ run'.end = "killed"
    <3>1. tool' = NoTool /\ NoTool.pc = "idle"
      BY <1>3 DEF Kill, Set, NoTool
    <3> QED
      BY <1>3, <3>1, BegunStages
  <2> QED
    BY <2>1 DEF HeldInv
<1>4. CASE Return
  <2>1. /\ run'.found = run.found /\ sw' = sw /\ tool.pc = "ret"
    BY <1>4 DEF Return, Types, RunType, semaphores, At
  <2>2. ~HasMng /\ ~HasEep
    BY <2>1 DEF HasMng, HasEep, Releasing, Gained
  <2> QED
    BY <2>1, <2>2 DEF HeldInv
<1> SUFFICES ASSUME ~Start, ~Kill, ~Return PROVE HeldInv'
  BY <1>2, <1>3, <1>4
<1>5. Nested' = Nested /\ run'.found = run.found /\ run'.end = run.end
  BY NestedIs
<1>6. CASE Smbi \/ RegGot \/ RegBusy \/ PutRead \/ PutReg
  <2>1. sw' = sw
    BY <1>6 DEF Smbi, RegGot, RegBusy, PutRead, PutReg, semaphores
  <2>2. Same /\ tool.pc \in Locking /\ tool'.pc \in Locking /\ tool'.pc # "idle"
        /\ (tool'.pc \in {"put1", "putw", "put2"} =>
              tool'.then = "out" \/ (tool.pc \in {"put1", "putw"} /\ tool'.then = tool.then))
        /\ (tool.pc \in {"put1", "putw"} =>
              tool'.pc \in {"putw", "put2"} /\ tool'.then = tool.then)
        /\ tool.pc # "put2"
    BY <1>1, <1>6, SmbiIs, RegGotIs, RegBusyIs, PutRegIs
  <2>3. (HasMng => HasMng') /\ (HasEep => HasEep')
    BY <1>5, <2>2 DEF HasMng, HasEep, Releasing, Gained, Same
  <2> QED
    BY <1>5, <2>1, <2>2, <2>3 DEF HeldInv
<1>7. CASE Look
  <2>1. sw' = sw
    BY <1>7 DEF Look, semaphores
  <2>2. Same /\ tool.pc = "look" /\ tool'.pc \in {"set", "put1"}
        /\ (tool'.pc = "put1" => tool.phase = "acq" /\ tool'.then # "released")
    BY <1>1, <1>7, LookIs DEF Decides
  <2>3. (HasMng => HasMng') /\ (HasEep => HasEep')
    BY <1>5, <2>2 DEF HasMng, HasEep, Releasing, Gained, Same
  <2> QED
    BY <1>5, <2>1, <2>2, <2>3 DEF HeldInv
<1>8. CASE SetBits
  <2>1. /\ Same /\ tool.pc = "set" /\ tool'.pc = "put1"
        /\ \/ tool.phase = "acq" /\ sw' = sw \cup {tool.bit} /\ tool'.then = "won"
           \/ tool.phase = "rel" /\ sw' = sw \ {tool.bit} /\ tool'.then = "released"
    BY <1>1, <1>8, SetBitsIs DEF Wanted, GivenBack
  <2>2. CASE tool.bit = "eep"
    <3>1. ~HasMng
      BY <2>1, <2>2 DEF HasMng, Releasing, Gained
    <3>2. tool.phase = "acq" => HasEep'
      BY <2>1, <2>2 DEF HasEep, Gained, Same
    <3> QED
      BY <1>5, <2>1, <2>2, <3>1, <3>2 DEF HeldInv
  <2>3. CASE tool.bit = "mng"
    <3>1. tool.phase = "acq" => HasMng'
      BY <2>1, <2>3 DEF HasMng, Gained, Same
    <3>2. HasEep => HasEep'
      BY <1>5, <2>1, <2>3 DEF HasEep, Releasing, Gained, Same
    <3> QED
      BY <1>5, <2>1, <2>3, <3>1, <3>2 DEF HeldInv
  <2> QED
    BY <1>1, <2>2, <2>3
<1>9. CASE PutHwSemaphore
  <2>1. sw' = sw /\ tool.pc = "put2"
    BY <1>9, PutIs DEF PutHwSemaphore, PutSmbi
  <2>2. (HasMng => HasMng') /\ (HasEep => HasEep')
    BY <1>1, <1>5, <1>9, <2>1, PutIs DEF HasMng, HasEep, Releasing, Gained, Fresh
  <2> QED
    BY <1>5, <2>1, <2>2 DEF HeldInv
<1>10. CASE HostInterfaceCommand
  <2>1. sw' = sw
    BY <1>10 DEF HostInterfaceCommand, Post, Disabled, PollDone, PollTimeout, semaphores
  <2>2. tool.pc \in {"mail", "poll"} /\ (tool'.pc = "poll" \/ Fresh(tool', "rel", "mng"))
    BY <1>1, <1>10, PostIs, AnsweredIs DEF HostInterfaceCommand
  <2>3. (HasMng => HasMng') /\ (HasEep => HasEep')
    BY <1>5, <2>2 DEF HasMng, HasEep, Releasing, Gained, Fresh
  <2> QED
    BY <1>5, <2>1, <2>2, <2>3 DEF HeldInv
<1>11. CASE Fetch
  <2>1. sw' = sw /\ tool.pc = "fetch" /\ Fresh(tool', "rel", "eep")
    BY <1>11, FetchIs DEF Fetch, semaphores
  <2>2. ~HasMng /\ HasEep'
    BY <2>1 DEF HasMng, HasEep, Releasing, Gained, Fresh
  <2> QED
    BY <1>5, <2>1, <2>2 DEF HeldInv
<1>12. CASE ~ToolStep
  <2>1. UNCHANGED <<tool, run, sw>>
    BY <1>12, Frame DEF ToolStep, Semaphores
  <2>2. HasMng' = HasMng /\ HasEep' = HasEep
    BY <1>5, <2>1 DEF HasMng, HasEep, Releasing, Gained
  <2> QED
    BY <1>5, <2>1, <2>2 DEF HeldInv
<1> QED
  BY <1>6, <1>7, <1>8, <1>9, <1>10, <1>11, <1>12 DEF ToolStep, Semaphores

(* A run of an X553 that ends by itself leaves no hardware semaphore taken  *)
(* and no bit set that it did not find set, by whichever of its gotos and   *)
(* early returns it came there.                                             *)
THEOREM NothingLeft ==
  ASSUME Device = "X553"
  PROVE  Spec => []LeavesNoMore
<1> DEFINE Inv == Types /\ StageInv /\ HwInv /\ HeldInv
<1>1. Init => Inv
  <2> SUFFICES ASSUME Init PROVE Inv
    OBVIOUS
  <2>1. Types
    BY TypesInit
  <2>2. tool.pc = "idle" /\ run.end = "none"
    BY DEF Init, NoTool
  <2> QED
    BY <2>1, <2>2 DEF StageInv, HwInv, HeldInv, Locking
<1>2. Inv /\ [Next]_vars => Inv'
  BY TypesStep, StageStep, HwStep, HeldStep
<1>3. Inv => LeavesNoMore
  <2> SUFFICES ASSUME Inv, At("idle"), run.end = "done"
               PROVE  ~smbi /\ regsmp # "tool" /\ sw \subseteq run.found
    BY DEF LeavesNoMore
  <2>1. tool.pc = "idle" /\ ~HasMng /\ ~HasEep
    BY DEF At, HasMng, HasEep, Releasing, Gained, Locking
  <2>2. sw \subseteq {"eep", "mng"}
    BY DEF Types, SyncType
  <2> QED
    BY <2>1, <2>2 DEF HwInv, HeldInv
<1> QED
  BY <1>1, <1>2, <1>3, PTL DEF Spec
=============================================================================
