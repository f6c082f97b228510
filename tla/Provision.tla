----------------------------- MODULE Provision -----------------------------
(***************************************************************************)
(* What chiptools init (chiptools/init.c) does to a new chip: the sixty    *)
(* calls of the library that give it the contents of a configuration file  *)
(* and lock it for ever, and the chip that should come of it.              *)
(*                                                                         *)
(* A word of the configuration zone is a record: its first byte, which in  *)
(* word 4 is the I2C address, and the rest, which there is the OTP mode.   *)
(***************************************************************************)
EXTENDS Api, ConfigFile

CONSTANTS Configured   \* what init writes to a configuration word

CONFIG_CNT == 22
OtpModeAddr == 4
SlotConfigAddrs == 5..12

ASSUME AddressAssumption ==
  ConfAddr = 0..CONFIG_CNT - 1 /\ Slot = 0..SLOT_CNT - 1 /\ OtpAddr = 0..15

\* OTP words are written eight at a time; the address is that of the first.
OtpBlock(f, base) == [i \in 0..7 |-> Otp(f, base + i)]

\* Mutant: the word is written without a look at what is in it.
WithNothingKept(record, addr) == [first |-> Configured, rest |-> Configured]

\* set_otp_mode sets one byte of the record it has read, set_slot_config all.
WithConfig(record, addr) ==
  IF addr = OtpModeAddr
  THEN [record EXCEPT !.rest = Configured]
  ELSE [first |-> Configured, rest |-> Configured]

\* Read, change and write back; record is what the last read has told.
Update(addr, record) ==
  << RawConfRead(addr), RawConfWrite(addr, WithConfig(record, addr)) >>

\* Calls of create_and_lock_config and of write_and_lock_data.
CONFIG_CALLS == 41
DATA_CALLS == 19

\* After the 22 reads, words 4 to 12 are updated one after the other.
UpdateCall(n, record) ==
  LET k == n - CONFIG_CNT - 1
  IN  Update(OtpModeAddr + (k \div 2), record)[1 + (k % 2)]

\* Mutant: the last word of the slot configuration is forgotten.
lock_config_too_early(record) ==
  [n \in 1..CONFIG_CALLS |->
     IF n <= CONFIG_CNT THEN RawConfRead(n - 1)
     ELSE IF n < CONFIG_CALLS - 2 THEN UpdateCall(n, record) ELSE LockConfig]

create_and_lock_config(record) ==
  [n \in 1..CONFIG_CALLS |->
     IF n <= CONFIG_CNT THEN RawConfRead(n - 1)
     ELSE IF n < CONFIG_CALLS THEN UpdateCall(n, record) ELSE LockConfig]

write_and_lock_data(f) ==
  [n \in 1..DATA_CALLS |->
     IF n <= SLOT_CNT THEN RawSlotWrite(n - 1, Key(f, n - 1))
     ELSE IF n < DATA_CALLS
     THEN LET base == 8 * (n - SLOT_CNT - 1) IN RawOtp32Write(base, OtpBlock(f, base))
     ELSE LockData]

InitCalls(f, record) ==
  [n \in 1..CONFIG_CALLS + DATA_CALLS |->
     IF n <= CONFIG_CALLS THEN create_and_lock_config(record)[n]
     ELSE write_and_lock_data(f)[n - CONFIG_CALLS]]

\* What a chip programmed from file f holds in its slots and OTP words.
DataZone == {w \in Word : w[1] # "conf"}
Programmed(f) ==
  [w \in DataZone |-> IF w[1] = "slot" THEN Key(f, w[2]) ELSE Otp(f, w[2])]
=============================================================================
