# libatsha204 in TLA+

libatsha204 lets programs talk to an Atmel ATSHA204, a chip that keeps secret
keys and answers challenges with them.  This directory holds a TLA+ model of the
library and of the tools that come with it, the TLC runs that check it, and
proofs of its main safety properties.  File names below are relative to `src/`
in the repository (`api.c` and the like are in `src/libatsha204`).

## The system

| Component | State it keeps | Operations | What makes it correct |
|---|---|---|---|
| Opening and locking (`api.c` 74-206, 293-314) | lock file, pending alarm, disposition of SIGALRM, what of these it saved | `atsha_open*`, `atsha_close`, death of the program | one user of the device at a time; a hung user is killed; SIGALRM is given back; nobody waits for ever |
| API functions (`api.c` 316-955, `operations.c`) | none beyond the handle | one wake, one or two commands, one idle | an answer that is returned as OK is the answer to this request |
| Communication (`communication.c`) | `wake_is_expected`, loop counters | `wake`, `command`, `idle` | calls end, retries do no harm, the flag agrees with the chip |
| Programs sharing the chip | a handle each, one chip | all of the above | what a program has learned holds while its handle is open; no update is undone |
| Native I2C (`layer_ni2c.c`) | file descriptor | write, wait 100 ms, read | losses are noticed |
| Packets (`operations.c`, `tools.c`) | - | packing, CRC, unpacking | the chip does what was meant; damage is noticed |
| ATSHA204 (not code of the repository) | mode, TempKey, output buffer, memory, locks, watchdog | wake, idle, commands | - |
| Emulation (`emulation.c`, `api.c` 208-291) | file or one key, `sn`, `nonce` | the same commands | the answers of the chip it stands for |
| Slot number (`dnsmagic.c`, `tools.c` 41-50) | `key_origin` and its flag | `atsha_find_slot_number` | the slot of the key that the DNS names |
| Authentication (`api.c` 485-504, `python/atsha204.c`) | DNS record, key in the server's database, challenge | challenge, digest on the device and on the server, comparison | a device answers with the key the DNS names; none is refused while DNS and database agree |
| chiptools (`chiptools/*.c`) and atsha204cmd | position, buffer for the CRC; the chip's memory and locks outlive them | init, test, set-address, dumps, `mac n` | nothing incomplete is locked for ever; test tells the truth; commands do not undo each other |
| developer programs, error texts, build | - | straight-line trials and output | - |

Interaction: programs meet at the lock file and at the chip.  The API functions
call communication, which calls either the I2C layer or the emulation.  The
emulation of a digest calls the API again to read a slot.  `dnsmagic.c` calls
libunbound and `atsha_raw_otp_read`.  `init` calls the API.  The file it programs
a chip from is later read by the emulation, with other code.  A server and a
device agree on a key through the DNS, a database and the arithmetic of both.

What is hard here: several programs race for the lock while signals kill them;
handles of one process share one alarm; the bus loses and damages anything; the
chip's watchdog may expire at each of the many waits; a program may be killed
with the chip awake; commands are retried though executed; locks of the chip are
for ever; two commands change different bytes of one word.  `PROJECT.json` lists
each such hazard at its line with the properties that cover it, or says why none
does.

## Modules

| Module | Models |
|---|---|
| `DeviceOwnership` | abstract: one user of the device at a time, who leaves it at some time |
| `DeviceLock` | `atsha_open_ni2c_dev` and `atsha_close`, one action per system call, several programs and threads, SIGALRM, time |
| `Chip` | the ATSHA204 as operators on a record (external; from how the library uses it and the data sheet in `devdoc/`) |
| `Api` | each API function as a sequence of chip commands; what its caller may rely on |
| `ChipService` | abstract: what a call promises |
| `Communication` | one handle and the chip: `wake`, `command`, `idle` over an unreliable bus |
| `SharedChip` | two programs, each with a handle of `Communication`, the lock and one chip |
| `Packets` | one exchange byte by byte, with a chip that decodes packets and noise that flips bits |
| `ConfigFile` | the configuration file as both of its readers read it |
| `Provision` | the sixty calls of `chiptools init` and what should come of them (no state) |
| `Tools` | the commands of chiptools and `atsha204cmd mac`, run one after the other on one chip |
| `Emulation` | emulated devices, from a file or on a server |
| `SlotNumber` | `atsha_find_slot_number` |
| `Authentication` | device, DNS and server with their keys and challenges, on top of `SlotNumber` |
| `MC*` | values of the constants for TLC |
| `*_proofs` | theorems and proofs |

`Communication` and `Tools` extend `Api` and `Chip`; `Provision` and `Emulation`
extend `Api` and `ConfigFile`; `Tools` extends `Provision`; `Authentication`
extends `SlotNumber`.  `SharedChip` has two instances of `Communication`, which
have the chip in common, and one of `DeviceOwnership`: that is how it composes
them with the lock, for `DeviceLock` is shown to implement `DeviceOwnership`.
`DeviceLock` instantiates `DeviceOwnership`, and `Communication` and `SharedChip`
instantiate `ChipService`, with refinement mappings.  Definitions that begin with
the comment "Mutant" are plausible mistakes; each property is broken by one of
them, and nothing else uses them.

### State and code

`DeviceLock`: `pc` is the place in `atsha_open_ni2c_dev` or `atsha_close`; `lock`
the open file description that has the `flock`; `alarm` and `sigact` belong to the
process, `orig_alarm` and `orig_sigact` are the fields of the handle.  `elapsed`
counts seconds from the first try for the lock, then from arming the alarm;
`wanted` and `handler` record what the program itself had asked for and are never
read by the library.  `LOCK_TRY_MAX` is 2.2 seconds compared with a difference of
whole seconds: more than 2.  The write of the process id to the lock file and
its `fsync` have no effect on anything modelled.

`Communication`: `pc` says which transfer comes next; `tries` is the local
counter of `wake` and `command`; `step` is the command of the call.  Each send
and each receive is a step that includes the wait of 100 ms after it, during
which the watchdog may expire.  A transfer that fails leaves one of several
states: the pulse or command not sent, sent and not executed, executed and
the answer lost or damaged, read or still in the buffer.  A packet is an answer
or a loss: CRC, lengths and bytes are the matter of `Packets`, whose
`DamageIsNoticed` and `HeardAsMeant` justify this abstraction.  `trouble` is
history: whether a transfer of the current call failed, or the call began out of
step with the chip.

`SharedChip`: the variables of a handle are those of `Communication`, once for
each program; a program that closes or dies forgets them (`Forget`), the chip
keeps what it has.  The contents of the configuration word in question are the
set of fields that were changed in it; program A changes the address by
`atsha_change_address`, B the OTP mode by `set_otp_mode`, each with a read and a
write in calls of their own.  `done` is history: the changes that were reported
to succeed.

`Packets`: a byte is a number, the CRC register the set of its bits.  The host
computes the CRC as `calculate_crc` does, bit by bit; the chip computes a
polynomial remainder, and reads opcodes, zones, addresses and modes as the data
sheet has them.  A first byte that is no length makes the code use memory
outside of the packet: then any verdict is possible.  Parameters of `Sample` are
arbitrary: they give each word and command contents of its own.  Loops over bytes
and bits are recursive functions of the number of rounds (`BitRegisters`,
`Registers`, `Rests`, `Divisions`), which proofs can unfold.

`Tools`: `pos` is the number of the call that a command makes next; a call
succeeds, fails with or without its effect, or is cut short by the alarm or by a
crash, with or without its effect.  `record` and `config` are the memory of the
process, gone when it ends: the word read last, and the buffer from which the CRC
of the configuration is computed; the chip executes a lock only if the CRC is that
of its contents.  `said` is what the user has been told.  `mem` and `locked` are
the chip, which the next command finds as it was left.  OTP words are written
eight at a time and read one by one.  `test` compares digests with those of the
emulation; two are equal if the keys and, where it is digested, the serial
numbers are.  Its reads of the configuration may fail without its noticing.
`i` is the `char` that counts MAC addresses, signed or not.

`Emulation`: a call of the library is one step, because nothing can come in
between.  A digest is the tuple of what is hashed.  `emul_read` answers for
configuration word 0 with a block of 32 bytes (`Block`), whatever was asked for;
`Received` is what the receiving function takes out of it.

`SlotNumber`: 32 bit words are four bytes, so that the shifts of
`uint32_from_4_bytes` are what they are.

`Authentication`: the slot variables are those of `SlotNumber`; `key` is the number
of the key in the database.  A device answers with a handle that it keeps
(`ChallengeResponse`) or with one it opens for the purpose (`Hmac`, the Python
binding).  A digest is told by its slot and challenge.  The server emulates the
slot that its database names (`ServerSlot`), which is its own arithmetic and not
that of `emulate_hmac`.  `calm` is history: the DNS and the database have agreed
since the challenge was sent.  `AnswersWithNamedKey` is stated by whole numbers:
a chip holds a key if its number is the origin in the OTP word plus a slot
(`HoldsKey`), without a shift or a cast.  If the chip does not hold the key that
the DNS names, the casts may lead to any slot, and only the server notices.

## Runs

| Run | Checks |
|---|---|
| `lock_programs` | `LockHeldWhereExpected`, `DeviceExclusive`, `GuardedHold`, `SignalsRestored`, `OpenReturns` and the refinement to `DeviceOwnership` |
| `lock_parallel` | *violated:* `OriginalStored`, two handles in one process |
| `calls` | `OkMeansDone`, `QuietCallSucceeds`, `HandleKeepsWorking`, `TriesRunOut` and the refinement to `ChipService` |
| `live` | `CallReturns`, `Recovers` |
| `wakeup` | *violated:* `WakeupDevice`, a flag left set after a failed call |
| `shared_chip` | `KnownWhileOpen`, `NoLostUpdate`, `HandleAlone` and the refinement of both programs together to `ChipService` |
| `packets` | `HeardAsMeant`, `QuietExchange`, `DamageIsNoticed` |
| `commands` | `LockedIsWhole`, `LockedAgreesWithEmulation`, `TestTellsTruth`, `AddressAsAsked`, `SharedWordKept`, `MacsAsAsked` |
| `init_alarm` | *violated:* `HealthyRunFinishes`, sixty calls take longer than the alarm |
| `mac_count` | *violated:* `NoMoreThanAsked`, a signed char that counts to 200 |
| `emulated_file` | `AnswersAsChip`, `TestPasses` |
| `authentication` | `SlotIsRight`, `CalmIsAccepted`, `AnswersWithNamedKey` |

Passing runs check the type invariant of their module as well.  The violated
properties say what a comment or a help text says of the code; `PROJECT.json`
quotes it under "findings".  Three of them are visible to users: init is killed
by the alarm of its own library before it has locked the data zone; after a
failed call the next one talks to a sleeping chip without waking it; and where
`char` is signed, `atsha204cmd mac` with more than 127 addresses goes on until the
alarm of its own handle ends it (the handle is closed only at
`atsha204cmd/main.c` 304).

Modelling brought up more that no run is kept for, because no text of the
repository says otherwise or because it is a matter of a line:

- `atsha_dev_rev` does not return the device revision (`operations.h` 70): the
  shifts of `op_dev_rev_recv` (`operations.c` 69-72) lose its first byte and put a
  zero between the second and the third.  `Received` of `Packets` does the same,
  and `QuietExchange` promises nothing of this result.
- An emulated device answers a read of configuration word 0 with 32 bytes
  (`emulation.c` 298-346), where `atsha_raw_conf_read` asks for 4 and a chip sends
  4.  `emul_read` does the same, and `AnswersAsChip` leaves out reads of single
  configuration words.
- An answer of 7 bytes whose length byte loses one bit is taken for one of 5, and
  accepted if two bytes of its data happen to be the CRC of those before.
  `DamageIsNoticed` asks that the length has arrived (`LengthArrived`).
- `ni2c_idle` ignores the result of its write, so that a lost idle word is not
  warned of (`QuietCallSucceeds` allows for it by `trouble`).
- The serial number that `atsha_open_server_emulation` was given can be read by no
  function: `atsha_serial_number` reads OTP words, which `emulation.c` 396
  refuses for a server.
- The shifts of `uint32_from_4_bytes` lose bytes; only the low byte counts for
  slot numbers, so `SlotIsRight` holds all the same.
- The range check of `set-address` (`chiptools/main.c` 298, `api.c` 681) is never
  true; the count of `mac` is taken modulo 256; `get-slot` prints 255 and ends
  with success when the lookup fails; `test` ignores failed reads of the
  configuration.

### Bounds

- Two programs with one thread each.  A third waiter is like the second; the
  theorems hold for any number.  The alarm is 4 seconds instead of 10, still more
  than the time a caller waits, and the program's own alarms are shorter (2) and
  longer (5) than that.  `lock_parallel` has the real 10.
- The tries (5) are those of the code, in `shared_chip` too.  The watchdog expires
  between 7 and 17 waits after the wake-up (0.7 s and 1.7 s, the data sheet's
  bounds), so that it may come between any two commands with retries, and never
  in a call without them.
- Two challenges and two values: enough to tell an old one from a new one.
  All are treated alike (`Symmetry`), which is sound because `calls` and
  `authentication` check no liveness.  One slot, one configuration word, one OTP
  word in `calls`: commands for different words do not interact in the chip.  The
  chip starts with any contents and with any locks.  In `shared_chip` each
  program has a challenge of its own and both have one word.
- `commands`: the 22 configuration words, 16 slots and 16 OTP words there are.
  Two complete files with different contents, one that lacks its last OTP word,
  one that differs from the first by a key that is too short.  Addresses 1, 126 and 300; counts of MAC
  addresses 0, 1, 100, 255 and 257, with 100 addresses left in one of the files.
  Times are in waits of 100 ms: a call takes at least two (one after the wake
  pulse, one after the command).  In `init_alarm` and `mac_count` no call takes
  longer, and in `init_alarm` the alarm is the real 100.  In `commands` a call takes
  two, or 100 for one that stalls, and the alarm is 220, so that all commands, of
  at most 104 calls, can come to their end and can be killed at any late call.
  `char` is unsigned in `commands` and signed in `mac_count`: both are found among
  the compilers the library is built with.
- `packets`: every operation, with all slots and the words at the borders of the
  zones.  Noise on one command of each length: one flipped bit in any packet, two
  in packets of up to seven bytes, three in a status; and a bus that is all ones
  or all zeros.
- Fourteen files, cut or damaged at each border, for `Emulation`.
- OTP bytes 0, 1, 255 and records 0, 8, 255 and 258, so that the differences wrap
  and 255 occurs.

### Fairness

`DeviceLock`: threads inside the library are scheduled, due signals are
delivered, time passes.  No program is assumed to call `atsha_close`; if it hangs,
the alarm ends it.  `Communication`: the host runs (weak fairness of its steps),
and for `Recovers` the program goes on calling, and takes a new handle if
its handle expects an awake chip again and again: strong fairness, because a
call may come in between.  Nothing is assumed of the bus.  The other modules
state safety only: in them a program may stop anywhere.

## Proofs

`DeviceLock_proofs`, for any processes, threads, times and alarms:

- `TypeCorrect`, `LockPlaced` (`[]LockHeldWhereExpected`), from which
  `MutualExclusion` follows: a thread with the device open is at a place where it
  has the flock, and a flock has one owner.  These two are inductive together
  with the types.
- `OwnershipSafe`: each step maps to an acquisition, a release or a stutter.
- `HoldIsGuarded` and `SignalsComeBack` need the assumption that a process has one
  thread in the library; `lock_parallel` shows that they need it.  The invariant
  `SignalInv` says for each place in the code what is pending, whose handler is
  installed and what the handle has saved: without what is saved, restoring could
  not be shown to restore anything.

`Calls_proofs` has what the next two need and no state: what a call consists of,
what a wait does to the chip, what the chip answers to the commands of a call.

`Communication_proofs`, for any requests, contents, tries and watchdog times:

- `AnswersAreRight`: `[]OkMeansDone`.  The invariant `AnswerInv` follows an answer
  on its way: what is in the chip's output buffer when the host is about to read
  is a status or the answer to the command that was sent last, and the HMAC
  command is sent only when TempKey holds the challenge of this call or nothing.
- `TypesAreRight`: `[]TypeOK`, with the retry counters bounded at each place.
- `ImplementsService`: every step is a step of `ChipService` or a stutter.
- `HandleGoesOn`: `[]HandleKeepsWorking`; only `Idle` returns ATSHA_ERR_OK.
- `QuietSucceeds`: `[]QuietCallSucceeds` for a watchdog that takes more than three
  waits (`WD_MIN > 3`; the chip has 7).  The invariant `QuietInv` says for each place
  of a call without trouble how long the chip has been awake, that its buffer holds
  the answer that is read next, and that TempKey is still there for HMAC.
- `TriesDoRunOut` (`TriesRunOut`): `StepsLeft` counts what a call can still do, from
  the commands it has left and the tries of the one it is at; each step of the host
  takes some of it, whatever the bus and the chip do, and it is never more than
  6 * `FirstTry` + 7, which for the six tries of the code is 43 steps.  So the only
  thing that `CallReturns` needs beyond this theorem is that the steps are taken.

`SharedChip_proofs`, for the same constants:

- `HandlesAreAlone` (`HandleAlone`).  The invariant `Exclusive` says that there is one
  user at most and that only a user is in a call: then a step of the other program
  is none while a handle is open, and each step in a hold is a step of
  `Communication`.
- `KnowsTheChip` (`[]KnownWhileOpen`), `UpdatesAreKept` (`[]NoLostUpdate`) and
  `SharedTypesAreRight`.  The theorems of a module cannot be cited for an instance of
  it.  A handle and the chip are therefore taken as records, and `Works` says once,
  for such records, what a step of the library does to them; `WorksA` and `WorksB`
  show that the steps of both instances are of that kind, and the lemmas that
  follow (`WorksKeeps`, `WorksUpdates`, `WorksServes`) are about `Works`.  The inductive
  invariant `SharedInv` has for each handle that an answer under way is right
  (`HandleAnswers`) and that a word which is being written contains all that was
  reported done, because nobody can have written it since it was read
  (`HandleUpdates`): that is what the lock is for.
- `ProgramsAreOneCaller`: the two programs together implement `ChipService`, so that
  whoever holds the lock sees a chip that only he uses.

`Tools_proofs`, for any command lines, files, chips, times, failures and deaths:

- `LockedOnlyWhole` (`LockedIsWhole`), `EmulationAgrees` (`LockedAgreesWithEmulation`),
  `TestIsTruthful` (`TestTellsTruth`), `AddressIsAsAsked`, `SharedWordIsKept`,
  `MacsAreAsAsked` and `ToolsTypesAreRight`.  First come lemmas on what each command asks
  of the chip, call by call (`InitAsks`, `TestAsks` and others), then `CallEffect`: a
  call that is executed does nothing to the chip or one of five things (`Effect`).
  `ToolsInv` adds to these properties where a program can be and what it has said
  by then (`ProgramInv`), that the buffer from which init computes the CRC has all
  it has written (`BufferInv`), that a word which is about to be written back is as
  it was read (`RecordInv`), and what test has compared so far (`TestInv`).
- `MacsAreAsAsked` is for an unsigned `char`; run `mac_count` shows what happens
  otherwise.

`Packets_proofs`, for any set of well-formed commands (all slots, addresses, data,
challenges and CRCs that the library can send):

- `CrcIsRemainder`: the register of `calculate_crc`, fed low bit first, is the
  remainder of the polynomial division of the data sheet, for all sequences of
  bytes.  After each bit the dividend of the division is the register, shifted,
  and the bits that have not been fed yet (`Mixed`).  The recursive functions of
  both are unfolded by lemmas that rest on induction over sets of numbers
  (`Induction`), which follows from the library's theorem that `<` is well-founded;
  the induction theorems themselves take an operator and cannot be used.
- `QuietExchangeRight` (`[]QuietExchange`) and `PacketTypes`: `CommandPacketIs` and
  `AnswerPacketIs` have the bytes of the packets and that they pass the check of the
  other side; `WellFormedArrives` that the chip reads in the packet of each
  command what was meant; `ReceivedIs` what the receiving functions make of the
  answer.
- `OddNoiseIsNoticed` (`[]OddNoiseUnheard`): the polynomial has an even number of
  terms, so each bit that is 1 changes the parity of the register (`CrcStepCount`),
  and a packet that passes a check is even (`IntactIsSealed`, `CheckedIsSealed`).  The
  invariant `NoiseInv` counts the flipped bits by the parity of the packet on the bus.
  An odd number of flipped bits, wherever they are, is noticed by the chip, and by
  the host if the byte that it takes for the length of the packet is spared.
- `TwoFlipsBreak`: two flipped bits in a packet of up to 39 bytes (the longest that
  the library sends) are noticed, whatever the packet.  The register is linear
  (`ShiftIsLinear`), so the flips do in it what they would do among zeros
  (`RegistersDiffer`): they cancel only if one bit, shifted on, becomes the other, and
  a bit does not become itself again in 311 steps (`NoReturn`).  That is computed
  with 21 sets instead of 311: the polynomial is x + 1 times x^15 + x + 1, so fifteen
  steps of a pair of neighbours add the next pair to it (`FifteenSteps`), and the few
  pairs that would come back within fewer steps than that are none of the 21
  (`Rows`, `GoneBack`).
- `FewFlipsHeardAsMeant` (`[]HeardAsMeant`) and `DamagedDataNoticed`, on a bus that flips
  at most three bits of a packet (`MaxFlips(n) \in 0..3`), from both: the invariant
  `FlipsShown` says that the packet on the bus is the one that was sent but for
  the flipped bits.  `DamagedDataNoticed` (`[]DamageIsNoticed`) is about answers whose
  length byte has arrived.  Without this condition it would not be true: with a
  damaged length the host checks another stretch of memory against two bytes of
  data, and with the right data it passes.

`Authentication_proofs`, for any OTP bytes, numbers and challenges:

- `SlotNumberRight`, about `SlotNumber` alone, from the lemma that the low byte
  survives the shifts and the one that addition undoes subtraction modulo 256.
- `DeviceSlotIsRight`: its steps are steps of `SlotNumber`, or leave the slots alone.
- `CalmAccepted`: the invariant `CalmInv` says that in calm times an answer to the
  challenge is given in the slot of the database's number (`SlotOfNumber`: one
  slot, and no other, leads back to a number), which is where the server looks.
- `NamedKeyAnswered` (`AnswersWithNamedKey`): a cached origin is that of the chip,
  and subtraction of the low bytes finds the slot that the whole numbers name
  (`NamedSlot`).
- `AuthenticationTypes`: `[]TypeOK`.

`Emulation_proofs`: `AnswersRight` (`AnswersAsChip`) and `CompleteFilesPass`
(`TestPasses`), for any files and calls, reads of single configuration words left
out of the former.  The lemmas on lines (`SlotLine`, `OtpLine`,
`CompleteLines`) say that the two readers of a file, by different arithmetic, find
the same line; `HandleInv` says that what a handle has in memory came from there;
then each kind of call is right by itself.  `EmulationTypes`: no line that a file
lacks is handed out, and there is an answer exactly when a call succeeds
(`EmulationInv`; lines and digests are told apart from the marks for bad lines and
for no answer by `AnswerAssumption`).

Assumptions are the named `ASSUME`s of the modules, which TLC evaluates in the
runs.  Only model-checked: liveness (`OpenReturns`, `OwnershipSpec` beyond its
safety part, `CallReturns`, `Recovers`), which the provers cannot reason about.  All
other properties
of the passing runs are theorems, some under a stated condition on the constants:
`GuardedHold` and `SignalsRestored` (one thread in a process), `QuietCallSucceeds`
(`WD_MIN > 3`), `MacsAsAsked` (`char` is unsigned), `HeardAsMeant` and
`DamageIsNoticed` (at most three flipped bits in a packet).

## Not modelled

- What is in memory beside a packet whose first byte is no length
  (`layer_ni2c.c` 53-55): `Packets` leaves the verdict open.
- Descriptors leaked on error paths of opening and waking, and failing
  allocations other than that of the handle.
- The alarm of a program coming late by the time a handle was open.
- The byte behind a serial number of eight bytes (`emulation.c` 305).
- `chiptools sleep` (it holds a handle, as any program of `DeviceLock` may) and
  `get-slot` (`SlotNumber` and a line of output); parsing of arguments, files and
  digits; `atsha204cmd feed-entropy`, random bytes passed on to the kernel; the
  glue of the Python module; the network between device and server, of which
  only the order of challenge, answer and check is left.
- Developer programs, error texts and build files: they try out the chip and
  print, and keep no state.

## Plan

Done: lock, communication, chip, sharing, packets, emulation, slot numbers,
authentication, the commands of the tools; their runs; the proofs above.  Left,
in this order:

1. Liveness of `SharedChip`: a program that goes on calling gets answers again
   whatever its predecessor left.
2. Opening a server emulation: the bytes of the serial number that it copies.
