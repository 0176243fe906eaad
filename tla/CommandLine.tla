---------------------------- MODULE CommandLine ----------------------------
(***************************************************************************)
(* From the command line of EepromAccessTool to the operation on one NIC:  *)
(* ParseCommand (HelperFunctions.c) takes the parameters one by one and    *)
(* maps the set of them to a command, main.c calls its function, and that  *)
(* finds the NIC in the system's list of PCI devices (GetDevice,           *)
(* PciEeprom.c), maps it and chooses the operation by the memory it has.   *)
(*                                                                         *)
(* The list is read three times by separate code: to show it, to judge     *)
(* -NIC=X and to find X.  It is taken not to change while the tool runs.   *)
(***************************************************************************)
EXTENDS Integers, FiniteSets

CONSTANTS
  MaxDevices,  \* bound: devices on the PCI buses
  MaxParams,   \* bound: parameters on the command line
  Typed,       \* numbers typed after -NIC=
  MaxNics      \* MAX_NICS (32)

ASSUME NumbersAssumption == Typed \subseteq Int /\ MaxNics \in Nat
ASSUME BoundsAssumption == MaxDevices \in Nat /\ MaxParams \in Nat

VARIABLES
  bus,      \* the devices of /proc/bus/pci/devices in their order
  pc,       \* where the tool is
  params,   \* number of parameters parsed
  actions,  \* ActionsPresent, as the set of parameters behind its bits
  asked,    \* number typed after the last -NIC=, 0 if none
  nic,      \* NicId of main
  mac,      \* MacAddress[0] is not 0xFF, the mark of "no address"
  error,    \* an error has been reported
  command,  \* CommandIndex
  device,   \* place in the list of the device that was found, 0 if none
  mapped,   \* its memory is mapped
  touched,  \* devices whose PCI command word was seen to
  op        \* the operation that was started on the device

parse == <<params, actions, asked, nic, mac>>
vars == <<bus, pc, parse, error, command, device, mapped, touched, op>>

Kinds == {"82574", "82574 gig", "flash", "invm", "X550", "X553", "other"}
Buses == UNION {[1..n -> Kinds] : n \in 0..MaxDevices}
Options == {"test", "dump", "nic", "file", "mac", "erase", "readlock", "writelock"}
Commands == {"none", "HELP", "VERSION", "SHOWADAPTERS", "TEST", "PROGRAM", "DUMP",
             "ERASE", "READLOCKBITS", "WRITELOCKBITS", "REPROGRAM_MAC"}
OnDevice == {"PROGRAM", "DUMP", "ERASE", "READLOCKBITS", "WRITELOCKBITS", "REPROGRAM_MAC"}
Operations == {"none", "DisplayAllDevices", "WriteNvm", "WriteOtp", "WriteNvmX550",
               "EraseNvm", "DumpNvm", "DumpInvmI211", "ReadInvmLockBits",
               "WriteInvmLockBits", "ReprogramMacAddress"}
Writing == {"WriteNvm", "WriteOtp", "WriteNvmX550", "EraseNvm", "WriteInvmLockBits",
            "ReprogramMacAddress"}

InitOf(mark) ==
  /\ bus \in Buses
  /\ pc = "parse" /\ params = 0 /\ actions = {} /\ asked = 0 /\ nic = 0
  /\ mac = ~mark /\ error = FALSE /\ command = "none"
  /\ device = 0 /\ mapped = FALSE /\ touched = {} /\ op = "none"

(* Mutant: MacAddress is left as it is loaded, all zero.                    *)
InitUnmarked == InitOf(FALSE)

Init == InitOf(TRUE)

-----------------------------------------------------------------------------
(* The three lists.                                                         *)

(* Mutant: GetDevice numbers fewer kinds.                                   *)
NumberedFewer == Kinds \ {"other", "X553"}

(* The kinds that GetDevice numbers.                                        *)
Numbered == Kinds \ {"other"}

(* The kinds that DisplayAllDevices shows.                                  *)
Shown == Kinds \ {"other"}

(* SupportedNicsFound counts neither the other 82574 nor any X553.          *)
Counted == Kinds \ {"other", "82574 gig", "X553"}
SupportedNicsFound == Cardinality({i \in DOMAIN bus : bus[i] \in Counted})

(* The number of a device among those of some kinds before and with it.     *)
Number(i, kinds) == Cardinality({j \in 1..i : bus[j] \in kinds})
Found(id, kinds) == {i \in DOMAIN bus : bus[i] \in kinds /\ Number(i, kinds) = id}

-----------------------------------------------------------------------------
(* ParseCommand.                                                            *)

Next1 == pc = "parse" /\ params < MaxParams /\ params' = params + 1

Rejected ==
  /\ pc' = "done" /\ error' = TRUE
  /\ UNCHANGED <<actions, nic, mac, command>>

Accepted(option) ==
  /\ actions' = actions \cup {option}
  /\ UNCHANGED <<pc, error, command>>

Singular(function) ==
  /\ Next1
  /\ command' = function /\ pc' = "run"
  /\ UNCHANGED <<bus, actions, asked, nic, mac, error, device, mapped, touched, op>>

Flag ==
  /\ Next1
  /\ \E option \in Options \ {"nic", "file", "mac"} : Accepted(option)
  /\ UNCHANGED <<bus, asked, nic, mac, device, mapped, touched, op>>

(* NicId is 16 bits wide.                                                   *)
Word == 65536
NicIds == 0..(Word - 1)
U16(number) == number % Word

(* Mutant: the last of the devices found is one too many.                   *)
ValidBelow(id) == 0 < id /\ id <= MaxNics /\ id < SupportedNicsFound

Valid(id) == 0 < id /\ id <= MaxNics /\ id <= SupportedNicsFound

(* Mutant: the number is taken over before it is judged, and an error does  *)
(* not end the parsing.                                                     *)
NicLenient(id) ==
  /\ nic' = id
  /\ IF Valid(id) THEN Accepted("nic") /\ UNCHANGED mac
     ELSE actions' = actions \cup {"nic"} /\ error' = TRUE /\ UNCHANGED <<pc, mac, command>>

Judge(id) ==
  \/ Valid(id) /\ nic' = id /\ Accepted("nic") /\ UNCHANGED mac
  \/ ~Valid(id) /\ Rejected

(* The number is kept in 16 bits before it is judged.                       *)
Nic ==
  /\ Next1
  /\ \E number \in Typed : asked' = number /\ Judge(U16(number))
  /\ UNCHANGED <<bus, device, mapped, touched, op>>

File ==
  /\ Next1
  /\ (Accepted("file") /\ UNCHANGED <<nic, mac>>) \/ Rejected
  /\ UNCHANGED <<bus, asked, device, mapped, touched, op>>

(* Twelve characters, neither all zero nor all F; that they are digits is   *)
(* not looked at.  Convert2Hex makes 0xFF of any other, and as the first    *)
(* that leaves the mark of "no address", whatever an earlier -MAC= gave.    *)
Mac ==
  /\ Next1
  /\ (Accepted("mac") /\ mac' \in BOOLEAN /\ UNCHANGED nic) \/ Rejected
  /\ UNCHANGED <<bus, asked, device, mapped, touched, op>>

(* A parameter that begins with a singular one is an error, one that begins *)
(* with none at all is passed over, and so are -NIC=, -F= and -MAC= with    *)
(* nothing behind.                                                          *)
Unknown ==
  /\ Next1
  /\ (UNCHANGED <<pc, actions, nic, mac, error, command>>) \/ Rejected
  /\ UNCHANGED <<bus, asked, device, mapped, touched, op>>

(* Mutant: superfluous parameters do no harm.                               *)
DecidedLoosely ==
  IF "nic" \notin actions THEN "none"
  ELSE IF "file" \in actions THEN "PROGRAM"
  ELSE IF "dump" \in actions THEN "DUMP"
  ELSE IF "erase" \in actions THEN "ERASE" ELSE "none"

Decided ==
  CASE actions = {"nic", "file", "test"} -> "TEST"
    [] actions \in {{"nic", "file"}, {"nic", "file", "mac"}} -> "PROGRAM"
    [] actions = {"nic", "dump"} -> "DUMP"
    [] actions = {"nic", "erase"} -> "ERASE"
    [] actions = {"nic", "readlock"} -> "READLOCKBITS"
    [] actions = {"nic", "file", "writelock"} -> "WRITELOCKBITS"
    [] actions = {"nic", "mac"} -> "REPROGRAM_MAC"
    [] OTHER -> "none"

(* Without parameters the adapters are shown.                               *)
EndOfLine ==
  /\ pc = "parse"
  /\ command' = IF params = 0 THEN "SHOWADAPTERS" ELSE Decided
  /\ error' = (params > 0 /\ actions \in {{"nic"}, {"file"}})
  /\ pc' = IF command' = "none" THEN "done" ELSE "run"
  /\ UNCHANGED <<bus, parse, device, mapped, touched, op>>

ParseCommand ==
  \/ Singular("HELP") \/ Singular("VERSION") \/ Flag \/ Nic \/ File \/ Mac \/ Unknown
  \/ EndOfLine

-----------------------------------------------------------------------------
(* main and the functions it calls.                                         *)

Inform ==
  /\ pc = "run" /\ command \in {"HELP", "VERSION", "TEST"}
  /\ pc' = "done"
  /\ UNCHANGED <<bus, parse, error, command, device, mapped, touched, op>>

DisplayAllDevices ==
  /\ pc = "run" /\ command = "SHOWADAPTERS"
  /\ touched' = {i \in DOMAIN bus : bus[i] \in Shown}
  /\ op' = "DisplayAllDevices"
  /\ pc' = "done"
  /\ UNCHANGED <<bus, parse, error, command, device, mapped>>

(* ReprogramMacAddress begins with the assertion that there is an address.  *)
AddressGiven == command = "REPROGRAM_MAC" => mac
AssertFails ==
  /\ pc = "run" /\ command \in OnDevice /\ ~AddressGiven
  /\ pc' = "aborted"
  /\ UNCHANGED <<bus, parse, error, command, device, mapped, touched, op>>

(* The first device with the number is mapped, which may fail.  All the     *)
(* functions but ReprogramMacAddress look at that.                          *)
GetDevice ==
  /\ pc = "run" /\ command \in OnDevice /\ AddressGiven
  /\ touched' = Found(nic, Numbered)
  /\ \/ device' \in touched' /\ mapped' \in BOOLEAN
     \/ touched' = {} /\ device' = 0 /\ mapped' = FALSE
  /\ LET goesOn == device' # 0 /\ (mapped' \/ command = "REPROGRAM_MAC")
     IN pc' = (IF goesOn THEN "route" ELSE "done") /\ error' = ~goesOn
  /\ UNCHANGED <<bus, parse, command, op>>

NvmPresent(kind) == kind \in {"82574", "82574 gig", "flash"}
InvmPresent(kind) == kind \in {"invm", "flash"}
NvmPresentX550(kind) == kind \in {"X550", "X553"}

(* The operations of a command on a device with the memory DetermineNvmType *)
(* finds.  PciDevice leaves NvmPresentX550 as it is on the stack and only   *)
(* DetermineNvmType for a mapped X5xx sets it, which the dump of a device   *)
(* with a one-time memory alone gets to see, and so does ReprogramMacAddress*)
(* of an X553 that is not mapped.                                           *)
Choices(kind) ==
  CASE command = "PROGRAM" ->
         (IF NvmPresent(kind) THEN {"WriteNvm"}
          ELSE IF InvmPresent(kind) THEN {"WriteOtp"} ELSE {"WriteNvmX550"})
    [] command = "DUMP" ->
         (IF NvmPresent(kind) \/ NvmPresentX550(kind) THEN {"DumpNvm"}
          ELSE {"DumpInvmI211", "DumpNvm"})
    [] command = "ERASE" /\ NvmPresent(kind) -> {"EraseNvm"}
    [] command = "READLOCKBITS" /\ InvmPresent(kind) -> {"ReadInvmLockBits"}
    [] command = "WRITELOCKBITS" /\ InvmPresent(kind) -> {"WriteInvmLockBits"}
    [] command = "REPROGRAM_MAC" /\ kind = "X553" -> {"ReprogramMacAddress"}
    [] OTHER -> {}

Route ==
  /\ pc = "route"
  /\ LET choices == Choices(bus[device])
     IN \/ op' \in choices /\ UNCHANGED error
        \/ (choices = {} \/ ~mapped) /\ error' = TRUE /\ UNCHANGED op
  /\ pc' = "done"
  /\ UNCHANGED <<bus, parse, command, device, mapped, touched>>

Next == ParseCommand \/ Inform \/ DisplayAllDevices \/ AssertFails \/ GetDevice \/ Route

Spec == Init /\ [][Next]_vars

-----------------------------------------------------------------------------
(* Properties.                                                              *)

(* Every variable stays in its type; in particular a NIC number that was    *)
(* accepted is within the limits.                                           *)
TypeOK ==
  /\ bus \in Buses /\ pc \in {"parse", "run", "route", "done", "aborted"}
  /\ params \in 0..MaxParams /\ actions \subseteq Options
  /\ asked \in Typed \cup {0} /\ nic \in 0..MaxNics
  /\ mac \in BOOLEAN /\ error \in BOOLEAN /\ command \in Commands
  /\ device \in 0..MaxDevices /\ mapped \in BOOLEAN
  /\ touched \subseteq DOMAIN bus /\ op \in Operations

(* The NIC an operation works on is the one that DisplayAllDevices shows    *)
(* under the number given, and no other device's PCI command word is seen   *)
(* to, although showing, judging and finding count devices by three         *)
(* separate lists of device ids.  Given is what was typed, if it has 16     *)
(* bits, and it is not refused where SupportedNicsFound counts all that are *)
(* shown.                                                                   *)
AllCounted == \A i \in DOMAIN bus : bus[i] \in Shown => bus[i] \in Counted
WorksOnNic ==
  op \notin {"none", "DisplayAllDevices"} =>
    touched = {device} /\ device \in Found(nic, Shown)
NicIsTyped ==
  asked \in NicIds =>
    /\ op \notin {"none", "DisplayAllDevices"} => nic = asked
    /\ AllCounted /\ asked \in 1..MaxNics /\ Found(asked, Shown) # {} => nic = asked
ActsOnShown == WorksOnNic /\ NicIsTyped

(* Nothing is written by a command line that an error was found in, that    *)
(* asked for anything besides, or that lacks the NIC or what the operation  *)
(* writes.  Without -MAC= the memory keeps the address it has: what is      *)
(* behind the mark in MacAddress[0], which every operation that writes an   *)
(* address goes by, was given on the line, and where only the address is    *)
(* rewritten there is one.                                                  *)
Needed ==
  CASE op \in {"WriteNvm", "WriteOtp", "WriteNvmX550"} -> {"nic", "file"}
    [] op = "WriteInvmLockBits" -> {"nic", "file", "writelock"}
    [] op = "ReprogramMacAddress" -> {"nic", "mac"}
    [] op = "EraseNvm" -> {"nic", "erase"}
AskedInFull ==
  op \in Writing =>
    ~error /\ Needed \subseteq actions /\ actions \subseteq Needed \cup {"mac"}
MacOnlyIfGiven ==
  op \in Writing =>
    (mac => "mac" \in actions) /\ (op = "ReprogramMacAddress" => mac)
WritesAsAsked == AskedInFull /\ MacOnlyIfGiven

-----------------------------------------------------------------------------
(* What the code says of itself and does not do.                            *)

(* Every device that is shown can be chosen by its number (the help: "To    *)
(* see what the choices are run the tool without any parameters.").         *)
ChoicesAccepted ==
  asked \in 1..MaxNics /\ Found(asked, Shown) # {} => nic = asked

(* An operation works on the device of the number that was typed (the help: *)
(* "Where X is the device you want to program.").                           *)
ActsOnTyped == op \notin {"none", "DisplayAllDevices"} => nic = asked

(* The mark in MacAddress[0] stands for a line without -MAC= (main: "set    *)
(* this to a bad value to show don't change the MAC").                      *)
MarkMeansNoMac == op \in Writing => (mac <=> "mac" \in actions)

(* The assertion of ReprogramMacAddress holds.                              *)
AssertionHolds == pc # "aborted"

=============================================================================
