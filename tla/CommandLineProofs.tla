------------------------- MODULE CommandLineProofs -------------------------
(***************************************************************************)
(* The properties of CommandLine for any list of devices, any number of    *)
(* parameters, any numbers typed and any limit on NICs.                    *)
(***************************************************************************)
EXTENDS CommandLine, FiniteSetTheorems, TLAPS

(* Nothing goes on after an error.                                          *)
ErrorEnds == pc # "done" => ~error

(* An address is there by its parameter only, and where one is rewritten.   *)
MacFlag ==
  /\ mac => "mac" \in actions
  /\ pc = "route" /\ command = "REPROGRAM_MAC" => mac

(* What the command line asked for, by the command decided on.              *)
Asked ==
  /\ command = "PROGRAM" => actions \in {{"nic", "file"}, {"nic", "file", "mac"}}
  /\ command = "ERASE" => actions = {"nic", "erase"}
  /\ command = "WRITELOCKBITS" => actions = {"nic", "file", "writelock"}
  /\ command = "REPROGRAM_MAC" => actions = {"nic", "mac"}
CommandAsked == pc \in {"run", "route"} => Asked

(* Nothing is started before a device is found, and that is one of those    *)
(* which have the number.                                                   *)
NotYet == pc \in {"parse", "run", "route"} => op = "none"
Mapped == pc = "route" => touched = Found(nic, Numbered) /\ device \in touched

(* What holds of the command line while the tool runs.                      *)
LineInv ==
  ErrorEnds /\ MacFlag /\ CommandAsked /\ NotYet /\ WritesAsAsked

-----------------------------------------------------------------------------
(* Types.                                                                   *)

(* A number typed is one of 16 bits after all.                              *)
LEMMA Truncation ==
  /\ 0 \in NicIds
  /\ \A number \in Int : U16(number) \in NicIds
  /\ NicIds \subseteq Nat
<1>1. Word \in Nat /\ 0 < Word
  BY DEF Word
<1> QED
  BY <1>1 DEF NicIds, U16

(* The sets of the types are the same in the next state.                    *)
LEMMA Unmoved ==
  /\ NicIds' = NicIds /\ Options' = Options /\ Commands' = Commands
  /\ Buses' = Buses /\ Operations' = Operations
<1>1. NicIds' = NicIds
  <2>1. Word' = Word
    BY SMT DEF Word
  <2> QED
    BY <2>1 DEF NicIds
<1>2. Options' = Options /\ Commands' = Commands /\ Operations' = Operations
  BY SMT DEF Options, Commands, Operations
<1>3. Buses' = Buses
  BY DEF Buses, Kinds
<1> QED
  BY <1>1, <1>2, <1>3

(* The devices of a list are numbered from one, up to the bound.            *)
LEMMA BusDomain ==
  ASSUME bus \in Buses
  PROVE  \E n \in 0..MaxDevices : bus \in [1..n -> Kinds] /\ DOMAIN bus = 1..n
<1>1. \E S \in {[1..n -> Kinds] : n \in 0..MaxDevices} : bus \in S
  BY Zenon DEF Buses
<1>2. PICK n \in 0..MaxDevices : bus \in [1..n -> Kinds]
  BY <1>1, Zenon
<1>3. DOMAIN bus = 1..n
  BY <1>2, Zenon
<1> QED
  BY <1>2, <1>3

(* The types of what parsing works on, and of the rest.                     *)
ResultType ==
  /\ pc \in {"parse", "run", "route", "done", "aborted"} /\ actions \subseteq Options
  /\ error \in BOOLEAN /\ command \in Commands
LineType ==
  /\ params \in 0..MaxParams /\ asked \in Typed \cup {0}
  /\ nic \in 0..MaxNics /\ mac \in BOOLEAN /\ ResultType
DeviceType ==
  /\ bus \in Buses
  /\ device \in 0..MaxDevices /\ mapped \in BOOLEAN
  /\ touched \subseteq DOMAIN bus /\ op \in Operations

LEMMA TypeParts ==
  /\ TypeOK <=> LineType /\ DeviceType
  /\ TypeOK' <=> LineType' /\ DeviceType'
BY Zenon DEF TypeOK, LineType, ResultType, DeviceType

(* Parsing does not touch a device.                                         *)
LEMMA ParsingOnly ==
  ASSUME ParseCommand
  PROVE  /\ bus' = bus /\ device' = device /\ mapped' = mapped
         /\ touched' = touched /\ op' = op
<1>1. ASSUME NEW f, Singular(f)
      PROVE  /\ bus' = bus /\ device' = device /\ mapped' = mapped
             /\ touched' = touched /\ op' = op
  BY <1>1 DEF Singular
<1> QED
  BY <1>1, Zenon DEF ParseCommand, Flag, Nic, File, Mac, Unknown, EndOfLine

(* The parsing of a line keeps the types; a number in 16 bits that was not  *)
(* judged valid does not reach main.                                        *)
LEMMA TypeParse ==
  ASSUME TypeOK, ParseCommand
  PROVE  TypeOK'
<1> USE BoundsAssumption, NumbersAssumption, Unmoved
<1>t. LineType /\ DeviceType
  BY TypeParts
<1>d. DeviceType'
  BY <1>t, ParsingOnly DEF DeviceType
<1>p. ASSUME Next1 PROVE params' \in 0..MaxParams
  BY <1>p, <1>t DEF Next1, LineType
<1>a. ASSUME NEW option \in Options, Accepted(option)
      PROVE  ResultType'
  <2>1. actions' \subseteq Options
    BY <1>a, <1>t, Zenon DEF Accepted, LineType, ResultType
  <2> QED
    BY <1>a, <1>t, <2>1, Zenon DEF Accepted, LineType, ResultType
<1>b. ASSUME Rejected
      PROVE  ResultType' /\ nic' = nic /\ mac' = mac
  BY <1>b, <1>t, Zenon DEF Rejected, LineType, ResultType
<1>o. {"nic", "file", "mac"} \subseteq Options
  BY DEF Options
<1>1. ASSUME NEW f \in {"HELP", "VERSION"}, Singular(f)
      PROVE  LineType'
  <2>1. f \in Commands
    BY <1>1 DEF Commands
  <2> QED
    BY <1>1, <2>1, <1>p, <1>t, Zenon DEF Singular, LineType, ResultType
<1>2. ASSUME Flag PROVE LineType'
  BY <1>2, <1>a, <1>p, <1>t, Zenon DEF Flag, LineType, ResultType
<1>3. ASSUME Nic PROVE LineType'
  <2>1. PICK number \in Typed : asked' = number /\ Judge(U16(number))
    BY <1>3, Zenon DEF Nic
  <2> DEFINE id == U16(number)
  <2>2. id \in NicIds
    BY Truncation
  <2> HIDE DEF id
  <2>3. ResultType' /\ nic' \in 0..MaxNics /\ mac' \in BOOLEAN
    <3>1. CASE Rejected
      BY <3>1, <1>b, <1>t, Zenon DEF LineType
    <3>2. CASE Valid(id) /\ nic' = id /\ Accepted("nic") /\ UNCHANGED mac
      <4>1. nic' \in 0..MaxNics
        BY <2>2, <3>2, Truncation DEF Valid
      <4> QED
        BY <3>2, <4>1, <1>a, <1>o, <1>t, Zenon DEF LineType
    <3> QED
      BY <2>1, <3>1, <3>2, Zenon DEF Judge, id
  <2>4. params' \in 0..MaxParams
    BY <1>3, <1>p, Zenon DEF Nic
  <2>5. asked' \in Typed \cup {0}
    BY <2>1, Zenon
  <2> QED
    BY <2>3, <2>4, <2>5, Zenon DEF LineType, ResultType
<1>4. ASSUME File PROVE LineType'
  BY <1>4, <1>a, <1>b, <1>o, <1>p, <1>t, Zenon DEF File, LineType, ResultType
<1>5. ASSUME Mac PROVE LineType'
  BY <1>5, <1>a, <1>b, <1>o, <1>p, <1>t, Zenon DEF Mac, LineType, ResultType
<1>6. ASSUME Unknown PROVE LineType'
  <2>1. CASE UNCHANGED <<pc, actions, nic, mac, error, command>>
    BY <1>6, <2>1, <1>p, <1>t, Zenon DEF Unknown, LineType, ResultType
  <2>2. CASE Rejected
    BY <1>6, <2>2, <1>b, <1>p, <1>t, Zenon DEF Unknown, LineType, ResultType
  <2> QED
    BY <1>6, <2>1, <2>2, Zenon DEF Unknown
<1>7. ASSUME EndOfLine PROVE LineType'
  <2>1. Decided \in Commands /\ "SHOWADAPTERS" \in Commands
    <3>1. {"TEST", "PROGRAM", "DUMP", "ERASE", "READLOCKBITS", "WRITELOCKBITS",
           "REPROGRAM_MAC", "none", "SHOWADAPTERS"} \subseteq Commands
      BY DEF Commands
    <3> QED
      BY <3>1, Zenon DEF Decided
  <2>2. command' \in Commands /\ pc' \in {"parse", "run", "route", "done"}
    BY <1>7, <2>1, Zenon DEF EndOfLine
  <2>3. error' \in BOOLEAN
    BY <1>7 DEF EndOfLine
  <2> QED
    BY <1>7, <2>2, <2>3, <1>t, Zenon DEF EndOfLine, LineType, ResultType, parse
<1>8. LineType'
  <2>1. Singular("HELP") \/ Singular("VERSION") => LineType'
    BY <1>1
  <2> QED
    BY <2>1, <1>2, <1>3, <1>4, <1>5, <1>6, <1>7, Zenon DEF ParseCommand
<1> QED
  BY <1>8, <1>d, TypeParts, Zenon

(* So does carrying the command out.                                        *)
LEMMA TypeCarryOut ==
  ASSUME TypeOK, Inform \/ DisplayAllDevices \/ AssertFails \/ GetDevice \/ Route
  PROVE  TypeOK'
<1> USE BoundsAssumption, NumbersAssumption, Unmoved
<1>1. PICK n \in 0..MaxDevices : bus \in [1..n -> Kinds] /\ DOMAIN bus = 1..n
  BY BusDomain DEF TypeOK
<1>2. CASE Inform
  BY <1>2 DEF Inform, TypeOK, parse
<1>3. CASE DisplayAllDevices
  BY <1>3 DEF DisplayAllDevices, TypeOK, parse, Operations
<1>4. CASE GetDevice
  <2>1. touched' \subseteq DOMAIN bus
    BY <1>4 DEF GetDevice, Found
  <2>2. device' \in 0..MaxDevices
    BY <1>1, <1>4, <2>1 DEF GetDevice
  <2> QED
    BY <1>4, <2>1, <2>2 DEF GetDevice, TypeOK, parse
<1>5. CASE Route
  <2>1. Choices(bus[device]) \subseteq Operations
    <3>1. /\ {"WriteNvm", "WriteOtp", "WriteNvmX550", "DumpNvm", "EraseNvm"} \subseteq Operations
          /\ {"ReadInvmLockBits", "WriteInvmLockBits", "ReprogramMacAddress"} \subseteq Operations
          /\ {"DumpInvmI211", "DumpNvm"} \subseteq Operations
      BY DEF Operations
    <3> QED
      BY <3>1, Zenon DEF Choices
  <2>2. op' \in Operations /\ error' \in BOOLEAN
    <3>1. op \in Operations /\ error \in BOOLEAN
      BY Zenon DEF TypeOK
    <3> QED
      BY <1>5, <2>1, <3>1, Zenon DEF Route
  <2> QED
    BY <1>5, <2>2, Zenon DEF Route, TypeOK, parse
<1>6. CASE AssertFails
  BY <1>6 DEF AssertFails, TypeOK, parse
<1> QED
  BY <1>2, <1>3, <1>4, <1>5, <1>6, Zenon

(* The initial states are of the types.                                     *)
LEMMA TypeInit == Init => TypeOK
<1> SUFFICES ASSUME Init
             PROVE  TypeOK
  OBVIOUS
<1>0. 0 \in 0..MaxParams /\ 0 \in 0..MaxNics
  BY BoundsAssumption, NumbersAssumption
<1>1. ResultType
  BY DEF Init, InitOf, ResultType, Commands
<1>2. LineType
  BY <1>0, <1>1, Zenon DEF Init, InitOf, LineType
<1>3. DeviceType
  <2>1. 0 \in 0..MaxDevices /\ "none" \in Operations
    BY BoundsAssumption DEF Operations
  <2>2. bus \in Buses /\ device = 0 /\ mapped = FALSE /\ touched = {} /\ op = "none"
    BY Zenon DEF Init, InitOf
  <2> QED
    BY <2>1, <2>2, Zenon DEF DeviceType
<1> QED
  BY <1>2, <1>3, TypeParts, Zenon

(* TypeOK, for any bounds: a NIC number that was taken over is within       *)
(* MAX_NICS, whatever was typed (ParseCommand).                             *)
THEOREM TypeCorrect == Spec => []TypeOK
<1>1. TypeOK /\ [Next]_vars => TypeOK'
  <2> SUFFICES ASSUME TypeOK, [Next]_vars
               PROVE  TypeOK'
    OBVIOUS
  <2>1. CASE Next
    BY <2>1, TypeParse, TypeCarryOut DEF Next
  <2>2. CASE UNCHANGED vars
    BY <2>2 DEF TypeOK, vars, parse
  <2> QED
    BY <2>1, <2>2
<1> QED
  BY TypeInit, <1>1, PTL DEF Spec

-----------------------------------------------------------------------------
(* What is written was asked for.                                           *)

(* The command that is decided on is one the parameters ask for, and there  *)
(* is none when parameters are missing.                                     *)
LEMMA DecidedRightly ==
  /\ Decided = "PROGRAM" => actions \in {{"nic", "file"}, {"nic", "file", "mac"}}
  /\ Decided = "ERASE" => actions = {"nic", "erase"}
  /\ Decided = "WRITELOCKBITS" => actions = {"nic", "file", "writelock"}
  /\ Decided = "REPROGRAM_MAC" => actions = {"nic", "mac"}
  /\ actions \in {{"nic"}, {"file"}} => Decided = "none"
<1>1. ASSUME actions \in {{"nic"}, {"file"}}
      PROVE  /\ actions # {"nic", "file", "test"}
             /\ actions \notin {{"nic", "file"}, {"nic", "file", "mac"}}
             /\ actions # {"nic", "dump"} /\ actions # {"nic", "erase"}
             /\ actions # {"nic", "readlock"} /\ actions # {"nic", "mac"}
             /\ actions # {"nic", "file", "writelock"}
  BY <1>1
<1> QED
  BY <1>1, Zenon DEF Decided

(* While the line is parsed nothing is in error, and the MAC address is set *)
(* by its parameter only.                                                   *)
LEMMA LineParse ==
  ASSUME LineInv, ParseCommand
  PROVE  LineInv'
<1>n. op = "none" /\ pc = "parse" /\ ~error
  BY DEF LineInv, NotYet, ErrorEnds, ParseCommand, Singular, Flag, Nic, File, Mac, Unknown,
         EndOfLine, Next1
<1>w. NotYet' /\ AskedInFull' /\ MacOnlyIfGiven'
  <2>1. op' = "none"
    BY <1>n, ParsingOnly
  <2> QED
    BY <2>1 DEF NotYet, WritesAsAsked, AskedInFull, MacOnlyIfGiven, Writing
<1>a. ASSUME NEW option, Accepted(option)
      PROVE  ErrorEnds' /\ CommandAsked' /\ actions' = actions \cup {option}
  BY <1>a, <1>n DEF Accepted, ErrorEnds, CommandAsked
<1>b. ASSUME Rejected
      PROVE  ErrorEnds' /\ CommandAsked' /\ actions' = actions /\ mac' = mac
  BY <1>b DEF Rejected, ErrorEnds, CommandAsked
<1>m. mac => "mac" \in actions
  BY DEF LineInv, MacFlag
<1>r. pc' # "route"
  BY <1>n, Zenon DEF ParseCommand, Singular, Flag, Nic, File, Mac, Unknown, EndOfLine,
                     Judge, Accepted, Rejected
<1>1. ASSUME NEW f \in {"HELP", "VERSION"}, Singular(f)
      PROVE  ErrorEnds' /\ CommandAsked' /\ MacFlag'
  BY <1>1, <1>n, <1>m, <1>r DEF Singular, ErrorEnds, CommandAsked, Asked, MacFlag
<1>2. ASSUME Flag PROVE ErrorEnds' /\ CommandAsked' /\ MacFlag'
  BY <1>2, <1>a, <1>m, <1>r DEF Flag, MacFlag
<1>3. ASSUME Nic PROVE ErrorEnds' /\ CommandAsked' /\ MacFlag'
  <2>1. PICK id : Judge(id)
    BY <1>3, Zenon DEF Nic
  <2> QED
    BY <2>1, <1>a, <1>b, <1>m, <1>r DEF Judge, MacFlag
<1>4. ASSUME File PROVE ErrorEnds' /\ CommandAsked' /\ MacFlag'
  BY <1>4, <1>a, <1>b, <1>m, <1>r DEF File, MacFlag
<1>5. ASSUME Mac PROVE ErrorEnds' /\ CommandAsked' /\ MacFlag'
  BY <1>5, <1>a, <1>b, <1>m, <1>r DEF Mac, MacFlag
<1>6. ASSUME Unknown PROVE ErrorEnds' /\ CommandAsked' /\ MacFlag'
  <2>1. CASE Rejected
    BY <2>1, <1>b, <1>m, <1>r DEF MacFlag
  <2>2. CASE UNCHANGED <<pc, actions, nic, mac, error, command>>
    BY <2>2, <1>n, <1>m, <1>r DEF ErrorEnds, CommandAsked, MacFlag
  <2> QED
    BY <1>6, <2>1, <2>2 DEF Unknown
<1>7. ASSUME EndOfLine PROVE ErrorEnds' /\ CommandAsked' /\ MacFlag'
  <2>1. actions' = actions /\ mac' = mac
    BY <1>7 DEF EndOfLine, parse
  <2>2. CommandAsked'
    <3>1. CASE command' = Decided
      BY <2>1, <3>1, DecidedRightly, Zenon DEF CommandAsked, Asked
    <3>2. CASE command' = "SHOWADAPTERS"
      BY <3>2, Zenon DEF CommandAsked, Asked
    <3> QED
      BY <1>7, <3>1, <3>2, Zenon DEF EndOfLine
  <2>3. ErrorEnds'
    <3>1. CASE params > 0 /\ actions \in {{"nic"}, {"file"}}
      <4>1. params # 0
        BY <3>1
      <4>2. pc' = "done"
        BY <1>7, <3>1, <4>1, DecidedRightly, Zenon DEF EndOfLine
      <4> QED
        BY <4>2 DEF ErrorEnds
    <3>2. CASE ~(params > 0 /\ actions \in {{"nic"}, {"file"}})
      BY <1>7, <3>2, Zenon DEF EndOfLine, ErrorEnds
    <3> QED
      BY <3>1, <3>2
  <2> QED
    BY <2>1, <2>2, <2>3, <1>m, <1>r DEF MacFlag
<1>8. Singular("HELP") \/ Singular("VERSION") => ErrorEnds' /\ CommandAsked' /\ MacFlag'
  BY <1>1
<1> QED
  BY <1>w, <1>2, <1>3, <1>4, <1>5, <1>6, <1>7, <1>8, Zenon DEF ParseCommand, LineInv, WritesAsAsked

(* Carrying the command out leaves what was asked for as it is, and starts  *)
(* the operation of the command and no other.                               *)
LEMMA LineCarryOut ==
  ASSUME LineInv, Inform \/ DisplayAllDevices \/ AssertFails \/ GetDevice \/ Route
  PROVE  LineInv'
<1>1. actions' = actions /\ mac' = mac /\ command' = command
  BY DEF Inform, DisplayAllDevices, AssertFails, GetDevice, Route, parse
<1>2. op = "none" /\ ~error /\ Asked /\ (mac => "mac" \in actions)
  BY DEF LineInv, NotYet, ErrorEnds, CommandAsked, MacFlag,
         Inform, DisplayAllDevices, AssertFails, GetDevice, Route
<1>3. Asked'
  BY <1>1, <1>2 DEF Asked
<1>4. CASE Inform \/ DisplayAllDevices \/ AssertFails
  <2>1. op' \notin Writing /\ pc' \in {"done", "aborted"} /\ ~error'
    BY <1>2, <1>4 DEF Inform, DisplayAllDevices, AssertFails, Writing
  <2> QED
    BY <1>1, <1>2, <2>1
       DEF LineInv, ErrorEnds, MacFlag, CommandAsked, NotYet, WritesAsAsked, AskedInFull, MacOnlyIfGiven
<1>6. CASE GetDevice
  <2>1. op' = "none" /\ pc' \in {"route", "done"} /\ (pc' = "route" => ~error')
    BY <1>2, <1>6 DEF GetDevice
  <2>2. MacFlag'
    BY <1>1, <1>2, <1>6 DEF GetDevice, AddressGiven, MacFlag
  <2> QED
    BY <1>3, <2>1, <2>2
       DEF LineInv, ErrorEnds, CommandAsked, NotYet, WritesAsAsked, AskedInFull, MacOnlyIfGiven, Writing
<1>7. CASE Route
  <2>1. pc' = "done"
    BY <1>7 DEF Route
  <2>2. AskedInFull'
    <3> SUFFICES ASSUME op' \in Writing
                 PROVE  /\ ~error'
                        /\ Needed' \subseteq actions' /\ actions' \subseteq Needed' \cup {"mac"}
      BY DEF AskedInFull
    <3>1. op' \in Choices(bus[device]) /\ error' = error
      BY <1>2, <1>7 DEF Route, Writing
    <3>2. \/ command = "PROGRAM" /\ op' \in {"WriteNvm", "WriteOtp", "WriteNvmX550"}
          \/ command = "ERASE" /\ op' = "EraseNvm"
          \/ command = "WRITELOCKBITS" /\ op' = "WriteInvmLockBits"
          \/ command = "REPROGRAM_MAC" /\ op' = "ReprogramMacAddress"
      <4>1. op' \notin {"DumpNvm", "DumpInvmI211", "ReadInvmLockBits"}
        BY DEF Writing
      <4> QED
        BY <3>1, <4>1, Zenon DEF Choices
    <3>3. Needed' = CASE command = "PROGRAM" -> {"nic", "file"}
                      [] command = "WRITELOCKBITS" -> {"nic", "file", "writelock"}
                      [] command = "REPROGRAM_MAC" -> {"nic", "mac"}
                      [] command = "ERASE" -> {"nic", "erase"}
      BY <3>2 DEF Needed
    <3> QED
      BY <1>1, <1>2, <3>1, <3>2, <3>3 DEF Asked
  <2>3. MacOnlyIfGiven'
    <3>1. op' = "ReprogramMacAddress" => command = "REPROGRAM_MAC"
      BY <1>2, <1>7, Zenon DEF Route, Choices
    <3> QED
      BY <1>1, <1>2, <1>7, <3>1 DEF Route, LineInv, MacFlag, MacOnlyIfGiven
  <2> QED
    BY <1>1, <1>2, <2>1, <2>2, <2>3 DEF LineInv, WritesAsAsked, ErrorEnds, MacFlag, CommandAsked, NotYet
<1> QED
  BY <1>4, <1>6, <1>7

(* So this holds at all times.                                             *)
LEMMA LineInvariant == Spec => []LineInv
<1>1. Init => LineInv
  BY DEF Init, InitOf, LineInv, ErrorEnds, MacFlag, CommandAsked, NotYet, WritesAsAsked, AskedInFull,
         MacOnlyIfGiven, Writing
<1>2. LineInv /\ [Next]_vars => LineInv'
  <2> SUFFICES ASSUME LineInv, [Next]_vars
               PROVE  LineInv'
    OBVIOUS
  <2>1. CASE Next
    BY <2>1, LineParse, LineCarryOut DEF Next
  <2>2. CASE UNCHANGED vars
    BY <2>2 DEF LineInv, ErrorEnds, MacFlag, CommandAsked, Asked, NotYet, WritesAsAsked, AskedInFull,
                Needed, MacOnlyIfGiven, vars, parse
  <2> QED
    BY <2>1, <2>2
<1> QED
  BY <1>1, <1>2, PTL DEF Spec

(* WritesAsAsked, for any line and any list: nothing is written by a line   *)
(* with an error, or besides what it asks for (ParseCommand, main).         *)
THEOREM WritesOnlyAsAsked == Spec => []WritesAsAsked
<1>1. LineInv => WritesAsAsked
  BY DEF LineInv
<1> QED
  BY LineInvariant, <1>1, PTL

(* MacOnlyIfGiven, for any line: an operation that goes by MacAddress only  *)
(* finds an address there that -MAC= put there, and the rewriting of the    *)
(* address alone finds one (ParseCommand, main, ReprogramMacAddress).       *)
THEOREM MacOnlyAsAsked == Spec => []MacOnlyIfGiven
<1>1. LineInv => MacOnlyIfGiven
  BY DEF LineInv, WritesAsAsked
<1> QED
  BY LineInvariant, <1>1, PTL

-----------------------------------------------------------------------------
(* The device that is worked on is the one shown.                           *)

(* Two devices of the list that are numbered have two numbers.              *)
LEMMA NumbersDiffer ==
  ASSUME bus \in Buses, NEW K,
         NEW i \in DOMAIN bus, NEW j \in DOMAIN bus, i < j, bus[j] \in K
  PROVE  Number(i, K) # Number(j, K)
<1>1. PICK n \in 0..MaxDevices : bus \in [1..n -> Kinds] /\ DOMAIN bus = 1..n
  BY BusDomain
<1>2. i \in Nat /\ j \in Nat
  BY <1>1, BoundsAssumption
<1> DEFINE A == {k \in 1..i : bus[k] \in K}
           B == {k \in 1..j : bus[k] \in K}
<1>3. IsFiniteSet(B) /\ IsFiniteSet(B \ {j})
  <2>1. IsFiniteSet(1..j)
    BY <1>2, FS_Interval
  <2> QED
    BY <2>1, FS_Subset
<1>4. A \subseteq B \ {j} /\ j \in B
  BY <1>2
<1>5. Cardinality(B \ {j}) = Cardinality(B) - 1
  BY <1>3, <1>4, FS_RemoveElement
<1>6. Cardinality(A) <= Cardinality(B \ {j})
  BY <1>3, <1>4, FS_Subset
<1>7. Cardinality(A) \in Nat /\ Cardinality(B) \in Nat
  BY <1>3, <1>4, FS_Subset, FS_CardinalityType
<1>8. Cardinality(A) # Cardinality(B)
  BY <1>5, <1>6, <1>7
<1> QED
  BY <1>8 DEF Number

(* So at most one device has the number that is looked for.                 *)
LEMMA FoundOne ==
  ASSUME bus \in Buses, NEW id, NEW K, NEW i \in Found(id, K)
  PROVE  Found(id, K) = {i}
<1>1. DOMAIN bus \subseteq Int
  BY BusDomain
<1>2. ASSUME NEW j \in Found(id, K)
      PROVE  j = i
  <2>1. /\ i \in DOMAIN bus /\ bus[i] \in K /\ Number(i, K) = id
        /\ j \in DOMAIN bus /\ bus[j] \in K /\ Number(j, K) = id
    BY DEF Found
  <2>2. ~(i < j) /\ ~(j < i)
    BY <2>1, NumbersDiffer
  <2> QED
    BY <1>1, <2>1, <2>2
<1> QED
  BY <1>2

(* What GetDevice finds is still what the operation is started on.          *)
DeviceInv == NotYet /\ Mapped /\ WorksOnNic

LEMMA DeviceStep ==
  ASSUME TypeOK, DeviceInv, Next
  PROVE  DeviceInv'
<1>0. bus' = bus
  BY DEF Next, ParseCommand, Singular, Flag, Nic, File, Mac, Unknown, EndOfLine, Inform,
         DisplayAllDevices, AssertFails, GetDevice, Route
<1>1. CASE ParseCommand
  <2>1. op' = "none" /\ pc' # "route"
    <3>1. op = "none" /\ pc = "parse"
      BY <1>1 DEF DeviceInv, NotYet, ParseCommand, Singular, Flag, Nic, File, Mac, Unknown,
                  EndOfLine, Next1
    <3>2. pc' \in {pc, "run", "done"}
      BY <1>1, Zenon DEF ParseCommand, Singular, Flag, Nic, File, Mac, Unknown, EndOfLine,
                         Judge, Accepted, Rejected
    <3> QED
      BY <1>1, <3>1, <3>2, ParsingOnly
  <2> QED
    BY <2>1 DEF DeviceInv, NotYet, Mapped, WorksOnNic
<1>2. CASE Inform \/ DisplayAllDevices \/ AssertFails
  BY <1>2 DEF Inform, DisplayAllDevices, AssertFails, DeviceInv, NotYet, Mapped, WorksOnNic
<1>3. CASE GetDevice
  <2>1. op' = "none" /\ nic' = nic
    BY <1>3 DEF GetDevice, DeviceInv, NotYet, parse
  <2>2. Found(nic, Numbered)' = Found(nic, Numbered)
    BY <1>0, <2>1 DEF Found, Number, Numbered, Kinds
  <2>3. Mapped'
    BY <1>3, <2>2 DEF GetDevice, Mapped
  <2> QED
    BY <2>1, <2>3 DEF DeviceInv, NotYet, WorksOnNic
<1>4. CASE Route
  <2>1. touched = Found(nic, Numbered) /\ device \in touched
    BY <1>4 DEF Route, DeviceInv, Mapped
  <2>2. bus \in Buses
    BY DEF TypeOK
  <2>3. touched = {device}
    BY <2>1, <2>2, FoundOne
  <2>4. touched' = touched /\ device' = device /\ nic' = nic /\ pc' = "done"
    BY <1>4 DEF Route, parse
  <2>5. Found(nic, Shown)' = Found(nic, Numbered)
    BY <1>0, <2>4 DEF Found, Number, Numbered, Shown, Kinds
  <2> QED
    BY <2>1, <2>3, <2>4, <2>5 DEF DeviceInv, NotYet, Mapped, WorksOnNic
<1> QED
  BY <1>1, <1>2, <1>3, <1>4 DEF Next

-----------------------------------------------------------------------------
(* The number typed.                                                        *)

(* The number of a device that is shown is not above SupportedNicsFound,    *)
(* where that counts all that are shown.                                    *)
LEMMA ShownIsWithin ==
  ASSUME bus \in Buses, AllCounted, NEW id, Found(id, Shown) # {}
  PROVE  id <= SupportedNicsFound
<1>1. PICK n \in 0..MaxDevices : bus \in [1..n -> Kinds] /\ DOMAIN bus = 1..n
  BY BusDomain
<1>2. PICK i \in Found(id, Shown) : TRUE
  OBVIOUS
<1> DEFINE A == {j \in 1..i : bus[j] \in Shown}
           B == {j \in DOMAIN bus : bus[j] \in Counted}
<1>3. i \in 1..n /\ id = Cardinality(A)
  BY <1>1, <1>2 DEF Found, Number
<1>4. n \in Nat
  BY <1>1, BoundsAssumption
<1>5. 1..i \subseteq DOMAIN bus
  BY <1>1, <1>3, <1>4
<1>6. A \subseteq B
  BY <1>5 DEF AllCounted
<1>7. IsFiniteSet(B)
  <2>1. IsFiniteSet(1..n)
    BY <1>4, FS_Interval
  <2> QED
    BY <1>1, <2>1, FS_Subset
<1>8. Cardinality(A) <= Cardinality(B)
  BY <1>6, <1>7, FS_Subset
<1> QED
  BY <1>3, <1>8 DEF SupportedNicsFound

(* As long as there was no error the number is the one typed, and one that  *)
(* means a device is no error.                                              *)
NumberInv ==
  asked \in NicIds =>
    /\ pc # "done" \/ op \notin {"none", "DisplayAllDevices"} => nic = asked
    /\ AllCounted /\ asked \in 1..MaxNics /\ Found(asked, Shown) # {} => nic = asked

LEMMA NumberStep ==
  ASSUME TypeOK, DeviceInv, NumberInv, Next
  PROVE  NumberInv'
<1>0. bus' = bus
  BY DEF Next, ParseCommand, Singular, Flag, Nic, File, Mac, Unknown, EndOfLine, Inform,
         DisplayAllDevices, AssertFails, GetDevice, Route
<1>1. AllCounted' = AllCounted /\ \A id : Found(id, Shown)' = Found(id, Shown)
  BY <1>0 DEF AllCounted, Found, Number, Shown, Counted, Kinds
<1>2. CASE Nic
  <2>1. PICK number \in Typed : asked' = number /\ Judge(U16(number))
    BY <1>2 DEF Nic
  <2>2. op' = "none"
    BY <1>2 DEF Nic, Next1, DeviceInv, NotYet
  <2>3. ASSUME number \in NicIds PROVE U16(number) = number
    <3>1. number \in Int /\ 0 <= number /\ number < 65536
      BY <2>3 DEF NicIds, Word
    <3>2. number % 65536 = number
      BY <3>1, SMT
    <3> QED
      BY <3>2 DEF U16, Word
  <2>4. CASE number \notin NicIds
    BY <2>1, <2>4 DEF NumberInv
  <2>5. CASE number \in NicIds /\ Valid(number)
    BY <2>1, <2>3, <2>5 DEF NumberInv, Judge
  <2>6. CASE number \in NicIds /\ ~Valid(number)
    <3>1. pc' = "done"
      BY <2>1, <2>3, <2>6 DEF Judge, Rejected
    <3>2. ~(AllCounted /\ number \in 1..MaxNics /\ Found(number, Shown) # {})
      <4>1. bus \in Buses
        BY DEF TypeOK
      <4>2. number \in 1..MaxNics => 0 < number /\ number <= MaxNics
        BY NumbersAssumption
      <4> QED
        BY <2>6, <4>1, <4>2, ShownIsWithin DEF Valid
    <3> QED
      BY <1>1, <2>1, <2>2, <3>1, <3>2 DEF NumberInv
  <2> QED
    BY <2>4, <2>5, <2>6
<1>3. CASE ~Nic
  <2>1. pc # "done" /\ asked' = asked /\ nic' = nic
    BY <1>3 DEF Next, ParseCommand, Singular, Flag, File, Mac, Unknown, EndOfLine, Inform,
                DisplayAllDevices, AssertFails, GetDevice, Route, Next1, Rejected, parse
  <2> QED
    BY <2>1 DEF NumberInv
<1> QED
  BY <1>2, <1>3

(* ActsOnShown, for any list of devices and any number typed: what is       *)
(* worked on is the NIC that is shown under the number, nothing else is     *)
(* touched, and the number is the one typed, which is refused only where a  *)
(* device that is shown is not counted (ParseCommand, SupportedNicsFound,   *)
(* GetDevice, DisplayAllDevices).                                           *)
THEOREM WorksOnShown == Spec => []ActsOnShown
<1> DEFINE Inv == DeviceInv /\ NumberInv
<1>1. Init => Inv
  BY DEF Init, InitOf, DeviceInv, NotYet, Mapped, WorksOnNic, NumberInv
<1>2. TypeOK /\ Inv /\ [Next]_vars => Inv'
  <2> SUFFICES ASSUME TypeOK, Inv, [Next]_vars
               PROVE  Inv'
    OBVIOUS
  <2>1. CASE UNCHANGED vars
    <3>1. DeviceInv'
      BY <2>1 DEF DeviceInv, NotYet, Mapped, WorksOnNic, Found, Number, Numbered, Shown, Kinds,
                  vars, parse
    <3>2. NumberInv'
      <4>1. AllCounted' = AllCounted /\ Found(asked, Shown)' = Found(asked, Shown)
        BY <2>1 DEF AllCounted, Found, Number, Shown, Counted, Kinds, vars, parse
      <4> QED
        BY <2>1, <4>1 DEF NumberInv, vars, parse
    <3> QED
      BY <3>1, <3>2
  <2> QED
    BY <2>1, DeviceStep, NumberStep
<1>3. Inv => ActsOnShown
  BY DEF DeviceInv, NumberInv, NicIsTyped, ActsOnShown
<1> QED
  BY TypeCorrect, <1>1, <1>2, <1>3, PTL DEF Spec

=============================================================================
