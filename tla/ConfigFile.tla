----------------------------- MODULE ConfigFile -----------------------------
(***************************************************************************)
(* The configuration file that chiptools writes to a chip and that the     *)
(* emulation layer reads instead of a chip: 16 lines with keys, 16 lines   *)
(* with OTP words and, once the chip has been programmed, a line with the  *)
(* serial number of the chip.  The two read it by different code.          *)
(*                                                                         *)
(* A file is a sequence of lines; a line is a value, or Bad when it has    *)
(* too few digits or ends without a line end: both readers refuse those.   *)
(***************************************************************************)
EXTENDS Naturals, Sequences

CONSTANT Bad

SLOT_CNT == 16

-----------------------------------------------------------------------------
(* chiptools/init.c                                                        *)

\* read_config, called when skip lines have been read: are the next SLOT_CNT
\* lines there and complete?
ReadConfig(file, skip) ==
  \A item \in 0..SLOT_CNT - 1 :
    skip + item < Len(file) /\ file[skip + item + 1] # Bad

CompleteFile(file) == ReadConfig(file, 0) /\ ReadConfig(file, SLOT_CNT)

\* data and otp of init().
Key(file, item) == file[item + 1]
Otp(file, item) == file[SLOT_CNT + item + 1]

\* The last line, written by program_and_test_device.sh.
Serial(file) == file[33]

-----------------------------------------------------------------------------
(* emulation.c: emul_read rewinds the file, skips lines and reads one.     *)

\* Mutant: the comparison is off by one.
LineNotLast(file, skip) == IF skip + 1 < Len(file) THEN file[skip + 1] ELSE Bad

LineAfter(file, skip) == IF skip < Len(file) THEN file[skip + 1] ELSE Bad

SLOT_ADDRESSES == [slot \in 0..15 |-> 8 * slot]
get_slot_address(slot) == SLOT_ADDRESSES[slot]

EmulReadSlot(file, address) == LineAfter(file, address \div 8)
\* Mutant: one line too far.
EmulReadNextOtp(file, address) == LineAfter(file, 17 + address)

EmulReadOtp(file, address)  == LineAfter(file, 16 + address)
EmulReadSerial(file)        == LineAfter(file, 2 * 16)
=============================================================================
