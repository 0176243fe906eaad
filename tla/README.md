# Verification of the ECP layer's I210 tool in TLA+

The repository is a Yocto layer for the Rototype ECP board (i.MX8MQ). Most of it
is configuration and patches; the program in it that can destroy hardware is
**EepromAccessTool** (`src/recipes-core/i210/files`), which programs the flash,
the one-time memory or the firmware-owned NVM of Intel NICs from user space, by
register accesses, next to a firmware that uses the same memory. These modules
model that tool; paths below are relative to that directory unless they say
otherwise.

## 1. Inventory

| Component | State | Operations | Talks to | Hard behaviour |
|---|---|---|---|---|
| Command line and device selection (`HelperFunctions.c`, `main.c`, `GetDevice`, `DetermineNvmType`) | `ActionsPresent`, `NicId`, `MacAddress`, the PCI list in /proc | `ParseCommand`, `SupportedNicsFound`, dispatch | every operation below | three separate lists of device ids; numbers kept in 16 bits; errors after good parameters |
| NVM semaphores of the I210 (`AcquireNvmI210` ...) | `SWSM.SWESMBI`, `SW_FW_SYNC` | get/put the hardware semaphore, acquire, release | firmware of the NIC, all flash operations | read-modify-write of a shared register, nested acquires, a missing release, kills |
| Flash image programming (`WriteNvm`, `SetupWriteMethod`, `UpdateNvmChecksumI210`) | the flash's words, which method works | erase, test, sector erase, bursts, checksum | semaphores, serial flash | ignored results, kills between bursts, stale test patterns |
| Bit-banged serial flash (`BitBang*`, `Serial*`) | lines of `I210_FLA`, the flash's latch, protection and busy bit | identify, unprotect, erase, program (by pages, or word by word on SST's), read | the flash chip | kills within a frame, a busy flash, a flash left programming, polls that give up |
| One-time memory (`WriteOtp`, `WriteInvmLockBits`) | burnt bits, lock bits, write protection | check, burn word by word, lock | the memory | bits cannot be taken back; kills, power loss, failed words |
| NVM of X550 and X553 (`AcquireNvmX55*`, `HostInterfaceCommandX550`, `ReadNvm/WriteNvm/UpdateNvmChecksum*`, `WriteNvmX550`, `ReprogramMacAddress`) | SMBI, REGSMP, `SW_FW_SYNC`, the mailbox, shadow RAM | acquire, command, read, write, checksum, commit | firmware | nested acquires, late answers, overruling the firmware, kills |
| Register access to the NVM (FLSW of a blank I210: `ReadNvmFlswI210`, `WriteNvmFlswI210`; EERD and EEWR of an 82574: `ReadNvmEerd`, `WriteNvmEewr82574`) | `FLSWCTL`, `FLSWCNT`, `EERD`, `EEWR` | read, write, poll, checksum, dump | the NIC, `WriteNvm`, `DumpData` | waits given up and ignored, kills with an access under way, a loop bound one too many |
| Register access (`MapPciDevice`, `ReadReg`, `WriteReg`) | /dev/mem mapping | map, read, write, unmap | everything | none of its own |
| Start-up and upgrade scripts (`src/recipes-core/rototypescript/files`) | flag files, flash partitions, gpios | start-up order, upgrade, programming of FPGA, SoC, kernel, I210 | EepromAccessTool, flashcp | partial failure, power loss, flags |
| Network and gadget scripts, boot loader and kernel patches, cups, browser, splash, web server, machine and image configuration | - | - | - | third-party or data |

What makes each correct:

* **Semaphores**: software and firmware never drive the NVM together; the
  firmware's half of the register is never undone; a command ends; nothing stays
  locked that the firmware waits for.
* **Flash programming**: an undisturbed run leaves exactly the image; a checksum
  is over what is there and is the last thing written; the method used is one
  that was seen to work.
* **Serial flash**: a word only ever holds what was asked for at it; what a call
  reports is what the flash did.
* **Register access**: a word only ever receives what was meant for it; a read
  brings what is there, or says that it failed; a checksum reported as written is
  over what is there.
* **One-time memory**: success means programmed; an interrupted run can be
  repeated; a MAC address is placed whole; nothing is locked that was not listed.
* **X5xx**: the mailbox is guarded; the firmware's bit is never written over while it
  uses the NVM; an update that reports success is on the flash; no semaphore outlives a
  run.
* **Command line**: the operation works on the NIC the user was shown, nothing is
  written that was not asked for, and no MAC address that was not given.

## 2. Modules

| Module | What it is | Checked by | Proved in |
|---|---|---|---|
| `NvmArbiter` | abstract: the NVM belongs to software, firmware or nobody, and changes hands through nobody | as `ArbiterSpec` | - |
| `NvmSync` | I210 semaphores by single register accesses, under write, erase and dump | `NvmSync.cfg`, `NvmSyncUpdate.cfg`, `NvmSyncTwoTools.cfg` | `NvmSyncProofs` |
| `OneTimeStore` | abstract: what programming a store whose bits stay burnt promises | as `StoreSpec` | - |
| `InvmOtp`, `InvmOtpMC` | programming and locking of the one-time memory | `InvmOtp.cfg` | `InvmOtpProofs` |
| `FlashProgram` | programming an image: setup, bursts, MAC address, checksum | `FlashProgram.cfg`, `FlashProgramBin.cfg`, `FlashProgramSmall.cfg` | `FlashProgramProofs` |
| `SerialFlash` | frames on the lines and the flash that listens | `SerialFlash.cfg` | `SerialFlashProofs` |
| `NvmRegisters` | the registers of a blank I210 and of an 82574, under a write or a dump | `NvmRegisters.cfg` | `NvmRegistersProofs` |
| `X5Nvm` | the X550/X553 through the firmware's mailbox | `X5Nvm.cfg`, `X5NvmUnowned.cfg`, `X5NvmMask.cfg`, `X5NvmRegsmp.cfg`, `X5NvmChecksum.cfg`, `X5NvmStale.cfg` | `X5NvmProofs`, `X5NvmDataProofs` |
| `CommandLine` | from argv to the operation on one NIC | `CommandLine.cfg`, `CommandLineShown.cfg`, `CommandLineNumber.cfg`, `CommandLineMac.cfg`, `CommandLineAssert.cfg` | `CommandLineProofs` |

Each module looks at one layer and abstracts the next. `NvmSync` sees the flash
as "being driven". `FlashProgram` sees an operation on the flash as a step that
works or fails, where a failure may leave all, a part or none of its effect;
`SerialFlash` opens that step up into bytes and shows when it fails, and has the
semaphore only as "got or not", which `NvmSync` opens up. `NvmRegisters`
opens the same operations for the NICs that are not bit banged, down to single
register accesses, with the file and MAC address reduced to what these need, and
stops where `SetupWriteMethod` falls back to bit banging. `CommandLine` ends
where the operations of the others start. The modules are joined by these
assumptions rather than by one product, which TLC could not explore.

### Correspondence to the code

`PROJECT.json` "map" has the lines behind every definition. In outline:

* **NvmSync.** `swesmbi`, `swBit`, `fwBit` are the register bits; `pc[t]` is the
  access that tool `t` makes next and `sync[t]` is `SyncVal`, so that the
  read-modify-write of `SW_FW_SYNC` is as many steps as in the code. `run[t]`
  holds which operation of which command is being executed: `Entry` and
  `Detecting` choose whether it starts with the acquire or with the unguarded
  detection (`FlashDetectAndSetWritable`), `Unreleased` names the sector erase,
  which returns without a release. `UpdateNvmChecksumI210` is its acquire
  (`updOpen`), the reads and the write with acquires and releases of their own, and
  its release (`updClose`). `Kill` ends the process between any two accesses.
  The firmware (`FwMove`) is external: it takes the hardware semaphore, looks at
  `swBit`, sets `fwBit`, uses the NVM, and lets go the same way. A time-out of the
  hardware semaphore calls `PutHwSemaphore82574`, which clears a bit of
  another register; it is modelled so (`mdioBit`), and SWESMBI stays.
* **InvmOtp.** A word is the set of its bits that are one; a write burns any
  subset of what it asks for, or nothing if writing is off, the word is locked or
  the memory is busy, since the result of `WaitForOtp` is ignored. The text of the
  files is abstracted to words and to lock lines. The last three words are the
  hardware's (`OTP_HARDWARE_USAGE`).
* **FlashProgram.** A word is the set of values written since its last erasure,
  because programming flash only clears bits; it reads as a value only if that is
  the only one. `Value` names what was written, for which word and by which run.
  `LeftOut` keeps the code's arithmetic for the checksum's place, and `Injected`
  its two different tests for the first burst.
* **SerialFlash.** `FramesOf` is the sequence of frames each call clocks out;
  `ClockByte`, `ChipSelectLow` and `ChipSelectHigh` are the lines; `FlashDone`, `Starts`
  and `Carried` are the chip. Enabling the interface raises the chip select
  first, which is what ends the frame of a killed run. SST's flash is `chip`: its
  status register has a write enable of its own (`wel` = "status"), and
  its programming gives an address once and then a word per frame, up to the write
  disable; `auto` is where the flash is in that. Which of the two ways the tool
  uses follows `id`, the ManufacturerId it has read.
* **NvmRegisters.** `engine` is the access that the NIC was told to make and how far
  it is, `count` is FLSWCNT. `phase` is the place in `WriteNvm` or `DumpData`, `pc` the
  one in the call to `nvmops.read` or `nvmops.write`. `Last` keeps the bounds of the
  four loops as they are written, the dword loop of `WriteNvmFlswI210`
  included, and `Datum` is `Junk` beyond the caller's buffer. `Ignored` names the
  two waits whose result the code drops. `Landed` is the memory once the access
  under way has ended. A second command to a busy NIC is refused (FLSW has
  FLSWCTL_CMDV) or, with EERD where nothing tells, any of three outcomes.
* **X5Nvm.** `tool` holds the step and the locals of the call chain buffer
  operation / acquire / host command / release, `run.calls` the reads, writes and
  the checksum's steps still to do. `Device` chooses between the two sets of
  `nvmops`; where `AcquireNvmX550` and `AcquireNvmX553` differ the model does too
  (`Wanted`, `Again`, `LastLook`). `Program` lists what each operation calls, in the
  order of its loops; `MacAt` is the loop over the words of a MAC address, which
  `ReprogramMacAddress` runs at `macLoc` and at `altMacLoc`, places that may overlap.
  REGSMP is a bit of `SW_FW_SYNC` that a read takes if it is free, whatever the register
  is read for (`ReadSync`), and that a write leaves or clears (`WriteSync`);
  `PutHwSemaphore*` is three steps, the read of `SW_FW_SYNC` (`PutRead`), the write of
  what was read (`PutReg`) and SWSM. `GetHwSemaphoreX550` looks for REGSMP in SWSM, where
  it is not, and so never waits for it (`RegGot`). A time-out puts REGSMP back whoever
  holds it; `RegBusy` has only the tool's own left-over there, which rests on the
  assumption about the firmware under Fairness.
* **CommandLine.** `actions` is `ActionsPresent` as a set; `Numbered`, `Shown` and
  `SupportedNicsFound` are the three lists of ids, by kind of device; `Choices` is
  what main's functions do with the memory `DetermineNvmType` finds. `nic` is what the
  code keeps in 16 bits, `asked` what was typed. `mac` is the code's own mark,
  `MacAddress[0]` is not 0xFF, apart from `"mac" \in actions` (MAC_ID): `Convert2Hex` makes
  0xFF of anything that is not a hex digit, nobody looks at that, and so an accepted
  address leaves the mark either way. `AssertFails` is the assertion
  at the head of `ReprogramMacAddress`. `mapped` says whether `GetDevice` could map the
  device; `ReprogramMacAddress` does not look and goes by `NvmPresentX550`, which is
  then uninitialized.

## 3. Runs

| Run | Expected | Shows |
|---|---|---|
| `nvm_sync` | pass | One tool, killed and restarted at will, against the firmware: `SyncExclusive`, `AccessExclusive`, `FirmwareBitKept`, `WriteLeavesNothing`, both sides progress (`CommandEnds`, `FirmwareServed`), and `NvmArbiter` is implemented |
| `nvm_sync_update` | violation | The checksum update is not under one acquisition |
| `nvm_sync_two_tools` | violation | Two tools both get SUCCESS and both drive the flash |
| `invm_otp` | pass | Three runs on one chip with kills and power losses: success is programmed, interrupted runs resume, MAC and locks are placed, writing is off afterwards, runs end, `OneTimeStore` is implemented |
| `flash_program` | pass | What undisturbed runs leave, and what can be said after failures and kills |
| `nvm_registers` | pass | Two runs on a blank I210 or an 82574, dumps and writes, with waits given up, refused commands and kills: no word gets another's data, reads and checksums are true, runs end |
| `flash_program_bin` | violation | A MAC address with a BIN image never reaches the flash |
| `serial_flash` | pass | On SST's flash and others': values stay in place, erase, write and read report the truth, calls return |
| `x5_nvm` | pass | An X553 with late, invalid and refused answers, kills and a firmware that wants the NVM: both sides' bits exclude each other and survive each other's writes, the mailbox is guarded, a reported update is on the flash, nothing is left taken, runs end |
| `x5_nvm_unowned` | violation | The X553 acquire returns success without its bit |
| `x5_nvm_mask` | violation | On the X550 no read or write ever gets through |
| `command_line` | pass | Every line of up to four parameters over every list of up to three devices: the NIC worked on is the one shown under the number, a number of 16 bits is refused only where a device shown is not counted, nothing is written that was not asked for, no MAC address without its parameter |

Eight more configurations are not among the runs. Each checks one property that says of the
code what a comment, the help or an assertion of the repository says, and TLC finds it
violated (`tlc -config CommandLineMac.cfg CommandLine.tla`); Findings has what each shows.

| Configuration | Violated | Shows |
|---|---|---|
| `X5NvmRegsmp.cfg` | `FirmwareMarked` | On the X550 the tool's write-back takes the firmware's bit away |
| `X5NvmChecksum.cfg` | `SuccessIsChecksum` | A checksum over a word that was not read is reported as a success |
| `X5NvmStale.cfg` | `StaleBitsCleared` | A killed run's bit is not cleared, the acquire just fails |
| `CommandLineShown.cfg` | `ChoicesAccepted` | A device that is shown is refused under its number |
| `CommandLineNumber.cfg` | `ActsOnTyped` | A number beyond 16 bits is another NIC |
| `CommandLineMac.cfg` | `MarkMeansNoMac` | An accepted MAC address leaves the mark of none, and the image is programmed without it |
| `CommandLineAssert.cfg` | `AssertionHolds` | The same address runs into `ReprogramMacAddress`'s assertion |
| `FlashProgramSmall.cfg` | `ChecksumMatches` | With a burst shorter than the checksum's offset two checksums are programmed |

Runs set `CHECK_DEADLOCK FALSE` because the system stops: after the last
allowed run, or when the command has been carried out.

### Bounds

All `Max...` constants are either limits of the code made small (attempts, tries,
polls, bursts) or bounds that keep the state space finite (runs, uses by the
firmware, faults, calls), and each is commented as the one or the other.

* *Attempts and polls = 2*: the first, which may be repeated, and the last, which
  gives up; more add states that differ in a counter only.
* *Runs = 2 or 3*: one that is killed, one that finds what it left; the one-time
  memory has a third, because an image can be interrupted and then be followed by
  another one.
* *NvmSync*: two bursts and two reads of the checksum loop, hence a nested
  operation after another; the firmware wants the NVM, or presses for it without
  waiting, twice in a behaviour. `FwRetryAtOnce` counts as such a use; without
  the bound a firmware that never waits can starve the tool, which no code here can
  prevent.
* *InvmOtp*: eight words of which three are the hardware's, so that a MAC address
  fits in some images, just fits or does not fit; two tries per word; two locks.
* *FlashProgram*: eight words, bursts of four made of lines of two, the checksum
  at word 3: in the first burst, in its second line, as word 63 is in the first
  burst of 128 in the code. The sector is longer than a burst and shorter than the
  flash. Files of every length from none to full. `FlashProgramSmall.cfg` has bursts of
  two, so that the checksum is in the second one, as with a BURST_SIZE of 8, 16 or 32.
* *SerialFlash*: four words in pages of two, three calls per run; a call killed
  at any edge of a byte is followed by a run that detects, erases, programs or
  reads, on either chip. Addresses count as one byte.
* *NvmRegisters*: four words in bursts of two: a FLSW burst of 128 words is 64
  dwords in the code, here one, after which the loop goes round once more
  than the words need, as in the code; the checksum is the last word, so that the
  sum is over two FLSW reads or three EERD reads; it is in the second burst, so that
  files end before it and after it. The sector is a part of the flash.
* *X5Nvm*: one word and its checksum, which distinguishes a stale, a lost and a
  committed word and a checksum of the wrong words; both places of the MAC address are
  that word; one fault, one use by
  the firmware, and two runs. With more of each TLC needs more than the minutes a run
  should take.
* *CommandLine*: numbers 0, 1, 2, 4 and 65538 around `MAX_NICS` = 2 and the width
  of `u16`; three devices, so that a device that is not counted can stand before,
  between and after the ones that are. The violations need two devices and three
  parameters.

### Fairness

* Tool steps are weakly fair: the process is scheduled by Linux, and nothing in the
  code waits other than by polling. Starting and killing a run are not fair.
* The firmware's steps in `NvmSync` and `X5Nvm` that give a semaphore back are
  weakly fair: a firmware that keeps the hardware semaphore stops every client,
  and the code's own release loops without a limit for it. That it ever
  stops *wanting* the NVM, or starts, is not assumed. In `X5Nvm` it is also assumed
  that a posted command is answered or refused at some time, and that the firmware
  does not hold REGSMP through the whole of the tool's time-out.
* `SerialFlash` makes only the tool fair: the flash may stay busy for ever, which
  is what the bounded polls are for. `NvmRegisters` likewise: only the tool's
  `Program` is fair, an access of the NIC may never end.

## 4. Proofs

`TLAPS` checks these for all values of the constants that satisfy the named
assumptions; those say that sizes are natural numbers, how they fit into each other
and that limits are not zero. What a theorem assumes beyond them is a hypothesis in its
statement and is named here.

**NvmSyncProofs.** `TypeCorrect` holds for any set of tools, and needs `TriesLeft`
(while an acquire runs, another attempt is left) besides `TypeOK`. The safety
theorems `BitsExclude`, `AccessIsExclusive`, `FirmwareBitIsKept` and
`ImplementsArbiter` assume `OneTool`, any two tools are the same, which is what
`nvm_sync_two_tools` shows to be necessary. The exclusion of the bits is not
inductive: that the tool finds the firmware's bit clear helps only if it
is still clear three accesses later. The invariant `IInv` therefore adds

* `HwInv`: a tool at a step of `HwOwned` holds SWESMBI, and then the firmware is at
  none of its steps under the hardware semaphore;
* `SyncInv`: `sync`, the firmware's bit as read, is still what the register has at
  every step until it is written back, and the firmware's place and its
  bit agree.

With these the write-backs cannot undo a firmware update (`FirmwareBitIsKept`), the
bits exclude each other, driving the flash implies software's bit
(`AccessIsExclusive`), and each step maps to a step of `NvmArbiter` or a
stutter. The proof has a lemma per group of actions (acquire, release, command,
firmware) for types and for exclusion.

`WriteLeavesThemFree`, also under `OneTool`, needs to know where a semaphore may be
held at all: `LeaveInv` says that once a write command has programmed a burst, the
hardware semaphore is held only inside the routines that take and put it back,
and software's bit only between setting and clearing it or while
`UpdateNvmChecksumI210` has it (`MayHold`). The sector erase, which returns without
releasing, comes before the first burst, whose release makes up for it; this is why
the theorem speaks of commands that programmed a burst.

**InvmOtpProofs.** `TypeCorrect`, `SuccessMeansProgrammed`, `InterruptedRunsResume` and
`ImplementsStore` for any number of words, bits, tries, images and runs.
`SuccessIsProgrammed` is not inductive either; `IInv` adds `WrittenSoFar` (the
words before `count` hold what they should) and `ResultPending` (no result
is claimed while burning). `CheckAdmits` and `TryBurns` are the lemmas about the two
places where burning is decided: the check admits a run only if everything in
the memory belongs to its image, and a try burns only bits of its word.

`RunsEndClosed` (writing is off after a run that wrote and was not killed) holds of any
file. `LocksAsListed` needs that while lock bits are burnt their buffer is what the
lines of the file ask for, and that no line has a number out of range (`LockInv`).
`MacIsPlaced` assumes that no more than three words are the hardware's and that the three
structures are not zero, as the code's constants 0x19, 0x219 and 0x419 are; it uses that
the first free place is a least number, with the library's theorem on well-founded
sets.

**FlashProgramProofs.** For any sizes, files and numbers of runs: `TypeCorrect`, and
`MethodWorks`, from what word 0 holds around the test (`TestInv`): as long as the erase
and the semaphore did not fail, a pattern that is read back was put there by the method
in use. The other three assume `ChecksumReg < BurstSize`, as 63 < 128 in the code: the
checksum lies in the first burst.

* `ChecksumIsCommit`: until the update the flash has no checksum of this run (`SumInv`),
  every word of the bursts so far has something in it (`FilledInv`), and the update comes
  only when less than a burst of the file is left (`FileInv`);
* `ChecksumIsRight`: from the erase to the update the checksum's word is empty
  (`CleanInv`), so that it holds the one sum and nothing else;
* `Programming`: after the erase only word 0 is used, then the bursts fill the flash from
  its start, each word with its own value (`ExactInv`).

Bursts start at multiples of `BurstSize` (`InBursts`), so a word is in one burst.

**X5NvmProofs.** `Exclusive` and `MailboxIsOwn` hold on either device. On the X553 REGSMP
covers each look at `SW_FW_SYNC` and what is then set, on the X550 the tool never
overrules the firmware (`LockInv`), and what a release writes back is nothing that
would put both bits together (`PutInv`); a tool at the mailbox has set the mailbox bit itself,
and one it found set it never gives back (`OwnInv`). `NothingLeft` assumes an X553 and
counts what is held by the place of the tool: `StageInv` the order of the nested
acquires and releases, `HwInv` the hardware semaphores, `HeldInv` the bits that
were not there at the start (`run.found`). The part of the argument about REGSMP
is for the X553 only: the X550's release writes REGSMP back even when the firmware
has it. So is `FirmwareIsMarked`: from the read of `SW_FW_SYNC` to its write REGSMP is with
the tool, and what is written back still stands there (`RegsmpStays`), which
`X5NvmRegsmp.cfg` shows to fail on the X550.

**X5NvmDataProofs.** What the commands carry. `TypeCorrect` is for either device, and
needs more than the types: the tool is idle exactly when no call is left (`DataType`),
another attempt is left while one is to be repeated (`CountType`), and a result exists
only between the mailbox's release and the return (`OkInv`). `Committed` assumes an X553
(no update of an X550 gets that far, see `x5_nvm_mask`) and any number of words and any
places and length of the MAC address. Its invariant speaks of the calls still to be made:

* `OrderInv`: after every call that writes, and after the probe, which empties the
  buffer, all words are still to be read and then summed up; after the sum there are only
  copies to the flash. That `Program` begins so is shown along the concatenations it is
  made of (`Preceded`, `InJoined`), and that taking the first call away keeps it so by
  `HeadIs`;
* `MailInv`: as long as no command was given up, a command stands in the mailbox only
  while the tool polls for that command, and a result says that its effect is there
  (`Effect`): the word in the shadow RAM, the shadow RAM on the flash, the word read in
  the ram and then, by the time of the return, in the buffer;
* `KnownInv`: each word to be rewritten is new or still to be written, each word of the
  buffer is the shadow RAM's or still to be read, the checksum is right or still to be
  written. When the sum is posted no read is left, so that the buffer is the shadow RAM.

**SerialFlashProofs.** All of the module's invariants and its action property, for
flashes and pages of any size, either chip, and any number of polls, calls and runs.
What a frame means depends on which call it belongs to and how many are left of it, so
that the proofs start from `Flow`, which has three parts: `BaseInv` (`IsFrame`: the
frame to be sent is the one its call has at this place, and the flash has received
exactly its bytes so far), `GoodInv` (whatever else stands in the flash's latch or keeps
it busy is the first part of some call's frame), and `AutoInv` (where SST's flash is in
its programming and where the tool is in its frames agree).

* `TypeCorrect` follows from `Flow`.
* `InPlace`: what ends at a chip select is the first part of one frame, whoever was
  killed, since enabling the interface raises the chip select before anything is sent.
* `SuccessMeansDone`: what the tool has seen is true of the flash, which takes one part
  for each thing that SUCCESS rests on: `DetectInv` (identified, and the protection
  cleared), `PollInv` (a flash seen ready is not busy), `EraseInv` (before the erase's
  own poll the flash is blank or about to be), `QuietInv` (a run that writes finds the
  flash free, and the words so far are there) and `DumpInv` with `ReadInv` (nothing keeps
  the flash from answering a read).

**NvmRegistersProofs.** `TypeCorrect`, `OnlyItsOwn`, `ReadsAreTrue` and `Programming` for
memories, bursts and sectors of any size. The loops and the NIC count the same words
in two places, in dwords and in words, and nothing in the code compares them; the
invariant does:

* `TypeInv` bounds each counter by the others (`CallInv`, `OffsetInv`, `LoopInv`);
* `WireInv`: in a run that gave up no wait, the NIC is busy only where the tool waits
  (`QuietInv`), both agree on the next word of the transfer (`TransferInv`), and the data
  under way is meant for its words (`DataInv`). So the dwords beyond the buffer
  find a NIC that expects none;
* `ReadInv`: the words read so far are those of the memory;
* `ImageInv` and `SumInv` say of `Landed`, the memory with the access under way
  ended, what the bursts and the sum have made of it.

**CommandLineProofs.** `TypeCorrect`, `WritesOnlyAsAsked`, `MacOnlyAsAsked` and
`WorksOnShown` for any list of devices, number of parameters, numbers typed and
limit on NICs. What was asked for has to be carried from the parsing to the
operation: `LineInv` says that nothing goes on after an error, that the mark in
`MacAddress[0]` changes only with a MAC parameter, and that the command decided on is
the one of the parameters (`CommandAsked`). `MacOnlyAsAsked` states the part
`MacOnlyIfGiven` of `WritesAsAsked` alone; it goes by the mark, as the code does, and is
one direction only, since a MAC parameter may leave the mark (`CommandLineMac.cfg`).
For the device, `DeviceInv` keeps what `GetDevice` found, and `FoundOne` shows that it
is one device: along the list the number of numbered devices grows
(`NumbersDiffer`, with the library's facts on cardinalities). That finding and showing
use equal sets of device ids is read off the code and is an assumption of the model,
not a result. `NumberInv` carries the number typed to the operation, and
`ShownIsWithin` compares the number of a device shown with `SupportedNicsFound`; where a
device that is shown is not counted there is nothing to compare (`AllCounted`).

Only model-checked: liveness (`CommandEnds`, `FirmwareServed`, `RunEnds`, `CallEnds`), which
is out of the prover's reach, and the disagreements that a run shows. Every invariant and
every action property of the passing runs, and both refinements, are proved.

## 5. Findings

Shown by a run (quotes in `PROJECT.json`):

1. `UpdateNvmChecksumI210` loses the semaphore with its first nested read.
2. `AcquireNvmI210` does not look at software's own bit: two tools are not excluded.
3. For BIN images `WriteNvm` tests `i` where it tests `j` for HEX images: the MAC
   address is not injected.
4. `AcquireNvmX553` returns SUCCESS without the bit if the firmware lets go
   between the last attempt and the look after it (PciEeprom.c:1061-1109).
5. `AcquireNvmX550` always asks for the NVM bit too, so the mailbox acquire
   inside a read or write refuses its own caller.
Shown by a configuration beside the runs (section 3, in the order of its table):

6. `GetHwSemaphoreX550` looks for REGSMP in SWSM (PciEeprom.c:1221) and so does not hold
   it: `SW_FW_SYNC` is written back over the firmware's bit.
7. `UpdateNvmChecksumX553` counts words it could not read as zero and still succeeds.
8. After a killed run of the X553 software's bits stay set: PciEeprom.c:1090 says
   that they should be cleared and the acquire repeated, the code returns FAIL,
   on this and every later run.
9. `SupportedNicsFound` leaves out the X553 and some of the 82574, so `-NIC=X` refuses
   numbers that are shown, and `ReprogramMacAddress` cannot be reached on a board
   that has X553 only.
10. `-NIC=65537` is NIC 1.
11. `-MAC=` takes any twelve characters. One that is no hex digit becomes the
    digit 0xFF, and as the first it is the mark of "no address": the image is programmed
    with the address it brings along, and SUCCESS. Elsewhere than first the
    address is written with bits that nobody typed.
12. `ReprogramMacAddress` asserts that the mark is not there, which such a line violates.
13. `temp_offset` in `WriteNvm` multiplies a word offset by `BURST_SIZE`: right for the
    first burst only. At 8, 16 and 32, which the header calls safe, the checksum is in
    another one and is programmed twice.

Met while modelling; no text of the repository promises the opposite, or the
effect is outside of the models:

* An answer that comes after `COMMAND_TIMEOUT` is taken for that of the next command
  (`late` in `X5Nvm`); a read posts only half of its command
  (`sizeof(buffer) / 2`, PciEeprom.c:1425).
* `PciDevice` leaves `NvmPresentX550` uninitialized; `DumpData` reads it, and so does
  `ReprogramMacAddress`, which has no other check that the device could be mapped
  (main.c:671-685).
* A time-out of the X553's REGSMP while the firmware holds it takes it from the
  firmware (PciEeprom.c:1291-1297); `X5Nvm` assumes that it is not held so long.
* `Enable_Serial_Flash_Bit_Interface` reports a missing grant and goes on; a
  write can then report success (`SuccessIsTrue` excepts such runs by "refused").
* `NvmRegisters` leaves the checksum's word out of whichever burst it is in (`Datum`),
  which is what `temp_offset` does in the first burst only; that difference is
  `FlashProgramSmall.cfg`'s.
* A `ManufacturerId` read from a busy flash is kept; one that reads as 0 makes
  the identification be repeated.
* The last line of a lock file without a newline is dropped.
* The words of a raw OTP image beyond the usable ones are dropped silently.
* `WriteNvmFlswI210` loops while `i <= NumWords` over double words and reads past the
  caller's data (PciEeprom.c:2869). Unless a wait was given up, what it reads there
  reaches no word (`OnlyItsOwn`).
* The two FLSW waits of `Ignored` go on after they were given up: the rest of the
  burst is then sent to a busy NIC, and the next burst's data may follow the
  old command.
* On an 82574 nothing takes a semaphore and nothing is erased, so the test pattern
  of `SetupWriteMethod` stays in word 0 if the file cannot be opened (it is opened only
  afterwards) or has no full burst; what "Erasing first sector after test writing"
  (PciEeprom.c:3151) announces does nothing there.
* `DumpData` does not look at the result of its reads: a dump with zeros for the
  words that could not be read is written and reported as a success (main.c:330).
* A run killed while it programs an SST flash leaves the flash expecting words. Unless a
  frame of the next run ends that (its erase did not happen, say), the address that
  starts its programming may be taken for data ("leftAuto" in `SerialFlash`).
* Scripts: `prFpga.sh` and `prSoc.sh` set the same multiplexer lines and so erase the
  same flash; `prFpga.sh` erases and then copies an undefined `$file_soc`; `prI210.sh`
  passes the literal `-MAC=cat $file_i210`; `30-upgrade-init.sh` removes `_update`
  whatever the scripts returned, and never removes `_program`; `11-fpga_init.sh:42`
  reads `$MC_SOC_DONE_PIN/value` instead of the gpio's path.

## 6. Not modelled

* `UpdateFlashI210`, `FlswFlashEraseI210`, the SRRD/SRWR functions and
  `ValidateNvmChecksum*`: they have no caller.
* Text of image files (comments, ragged lines, what `sscanf` leaves in the
  buffer): `InvmOtp` and `FlashProgram` start from words and lines.
* Register mapping (`MapPciDevice`): pure input and output.
* Start-up and upgrade scripts: straight shell around external programs, whose only
  state is which flag files exist; what is wrong with them (see Findings) is
  in what they pass and test, not in an order of steps.
* Patches, vendor code and configuration.
* Two tools on the one-time memory or on the X5xx: the code has no lock on the
  first; planned for both.

## 7. Plan

1. (done) `NvmSync` with `NvmArbiter`, the semaphores everything else stands on,
   and its proofs.
2. (done) `InvmOtp` with `OneTimeStore`, where mistakes are for good, and its proofs.
3. (done) `FlashProgram` and `SerialFlash`; (done) `X5Nvm`; (done) `CommandLine`
   and its proofs.
4. (done) `NvmRegisters` and its proofs: a blank I210 and an 82574; SST's method in
   `SerialFlash`.
5. (done) Proofs of `FlashProgram`, of the semaphores of `X5Nvm`, of what `NvmSync` leaves
   and of MAC address, locks and write protection in `InvmOtp`.
6. `ImageFile`: lines to words for HEX, raw OTP and lock files, against a
   reference definition over bounded inputs.
7. Two tools in `InvmOtp` and `X5Nvm`.
8. (done) Proofs of all of `SerialFlash` but its liveness, and of the types and
   `UpdateCommitted` of `X5Nvm`.
9. Proofs of what 6 and 7 add.
