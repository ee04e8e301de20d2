------------------------------- MODULE SpiBus -------------------------------
(***************************************************************************)
(* Register access over SPI (enc28j60_ll.c) and the bus side of the        *)
(* ENC28J60.  The controller has four banks of registers behind one set of *)
(* 5-bit addresses; the bank in use is the field BSEL of its own register  *)
(* ECON1, of which the driver keeps a copy, dev->bank.  PHY registers are  *)
(* reached through MII registers and a busy bit.                           *)
(*                                                                         *)
(* Every API call is unfolded into the SPI transactions it makes, in their *)
(* order (variable todo); a transaction only carries a 5-bit address, and  *)
(* what it reaches is decided by the controller.                           *)
(***************************************************************************)
EXTENDS Integers, Sequences

VARIABLES
  \* the controller
  regs,     \* control registers, byte by byte
  phy,      \* PHY registers
  mii,      \* MII transaction under way: "idle", "write" or "read"
  clkrdy,   \* ESTAT.CLKRDY: the MAC and the PHY have their clock
  pattern,  \* where the buffer memory holds the pattern of ll_test
  \* the driver
  bank,     \* dev->bank
  call,     \* the API call under way, or the last one
  todo,     \* its SPI transactions still to be made
  tmp,      \* the byte a read-modify-write has read
  ret       \* what a read has put together so far

chipVars   == <<regs, phy, mii, clkrdy, pattern>>
driverVars == <<bank, call, todo, tmp, ret>>
busVars    == <<regs, phy, mii, clkrdy, pattern,
                bank, call, todo, tmp, ret>>

-----------------------------------------------------------------------------
(* The register map.                                                       *)

Bank0 == 0
Bank1 == 1
Bank2 == 2
Bank3 == 3
Common == 4

Reg(type, bnk, addr, length) ==
  [type |-> type, bank |-> bnk, addr |-> addr, length |-> length]

ESTAT    == Reg("ETH", Common, 29, 1)
ECON2    == Reg("ETH", Common, 30, 1)
ECON1    == Reg("ETH", Common, 31, 1)
ERDPTL   == Reg("ETH", Bank0,  0, 2)
EWRPTL   == Reg("ETH", Bank0,  2, 2)
ETXSTL   == Reg("ETH", Bank0,  4, 2)
ETXNDL   == Reg("ETH", Bank0,  6, 2)
ERXSTL   == Reg("ETH", Bank0,  8, 2)
ERXNDL   == Reg("ETH", Bank0, 10, 2)
ERXRDPTL == Reg("ETH", Bank0, 12, 2)
ERXFCON  == Reg("ETH", Bank1, 24, 1)
EPKTCNT  == Reg("ETH", Bank1, 25, 1)
MACON1   == Reg("MAC", Bank2,  0, 1)
MACON3   == Reg("MAC", Bank2,  2, 1)
MABBIPG  == Reg("MAC", Bank2,  4, 1)
MAMXFLL  == Reg("MAC", Bank2, 10, 2)
MICMD    == Reg("MII", Bank2, 18, 1)
MIREGADR == Reg("MII", Bank2, 20, 1)
MIWRL    == Reg("MII", Bank2, 22, 2)
MIRDL    == Reg("MII", Bank2, 24, 2)
MAADR5   == Reg("MAC", Bank3,  0, 1)
MAADR6   == Reg("MAC", Bank3,  1, 1)
MAADR3   == Reg("MAC", Bank3,  2, 1)
MAADR4   == Reg("MAC", Bank3,  3, 1)
MAADR1   == Reg("MAC", Bank3,  4, 1)
MAADR2   == Reg("MAC", Bank3,  5, 1)
MISTAT   == Reg("MII", Bank3, 10, 1)
PHCON1   == Reg("PHY", Common, 0, 2)
PHLCON   == Reg("PHY", Common, 20, 2)

\* Bytes of a register in the address space of the controller.
Bytes(reg) == {<<reg.bank, a>> : a \in reg.addr..reg.addr + reg.length - 1}

Low(v)  == v % 256
High(v) == v \div 256

\* Bits of the 8-bit registers, as the bit-field types lay them out.
AUTOINC == 128   \* ECON2
PKTDEC  == 64
TXRTS   == 8     \* ECON1
RXEN    == 4
BUSY    == 1     \* MISTAT
MIIRD   == 1     \* MICMD
CLKRDY  == 1     \* ESTAT

HasBit(v, bit) == (v \div bit) % 2 = 1
SetBit(v, bit) == IF HasBit(v, bit) THEN v ELSE v + bit
ClearBit(v, bit) == IF HasBit(v, bit) THEN v - bit ELSE v

\* The bank select field of ECON1, its two lowest bits.
SetBsel(v, bnk) == v - (v % 4) + bnk

-----------------------------------------------------------------------------
(* The bus side of the controller.                                         *)

RegBytes == ((Bank0..Bank3) \X (0..26)) \union ({Common} \X (27..31))
PhyRegs  == 0..31

econ1 == regs[<<Common, 31>>]
BSEL  == econ1 % 4

\* What an address stands for depends on the bank selected.
Located(addr) == IF addr >= 27 THEN <<Common, addr>> ELSE <<BSEL, addr>>

\* MAC and MII registers: they answer a read after a dummy byte.
IsMacMii(byte) == \/ byte[1] = Bank2
                  \/ byte[1] = Bank3 /\ byte[2] \in (0..5) \union {10}

\* What a read of an address returns.  A MAC or MII register read like an
\* ETH register yields the dummy byte, an ETH register read like them the
\* byte after its own.
DummyByte == 165
ByteAt(addr, skip) ==
  LET byte == Located(addr)
  IN  IF IsMacMii(byte) # skip THEN DummyByte
      ELSE CASE byte = <<Common, 29>> -> IF clkrdy THEN 1 ELSE 0
             [] byte = <<Bank3, 10>>  -> IF mii = "idle" THEN 0 ELSE 1
             [] OTHER                 -> regs[byte]

Pointer(reg) ==
  regs[<<reg.bank, reg.addr>>] + 256 * regs[<<reg.bank, reg.addr + 1>>]

\* Values after a reset, of the registers that do not start at 0.
ResetValue(byte) == CASE byte = <<Common, 30>> -> AUTOINC
                      [] byte = <<Bank0, 8>>   -> 250      \* ERXST 05FAh
                      [] byte = <<Bank0, 9>>   -> 5
                      [] byte = <<Bank1, 24>>  -> 161      \* ERXFCON
                      [] byte = <<Bank2, 11>>  -> 6        \* MAMXFL 0600h
                      [] OTHER                 -> 0

\* Effect of writing a byte at an address.  Without their
\* clock MAC and MII registers do not take it.  Writing MIWRH starts a PHY
\* write, setting MICMD.MIIRD a PHY read.  ECON2.PKTDEC decrements EPKTCNT
\* and is not stored.
WriteByte(addr, v) ==
  LET byte == Located(addr)
      cnt  == <<Bank1, 25>>
  IN  IF IsMacMii(byte) /\ ~clkrdy THEN UNCHANGED <<regs, mii>>
      ELSE /\ regs' = IF byte = <<Common, 30>> /\ HasBit(v, PKTDEC)
                      THEN [regs EXCEPT ![byte] = v - PKTDEC, ![cnt] = @ - 1]
                      ELSE [regs EXCEPT ![byte] = v]
           /\ mii' = IF byte = <<Bank2, 23>> THEN "write"
                     ELSE IF byte = <<Bank2, 18>> /\ HasBit(v, MIIRD)
                          THEN "read" ELSE mii

\* The MII transaction completes and BUSY clears.
MiiDone ==
  /\ mii # "idle"
  /\ mii' = "idle"
  /\ LET r == regs[<<Bank2, 20>>] % 32
         v == Pointer(MIWRL)
     IN  IF mii = "write"
         THEN phy' = [phy EXCEPT ![r] = v] /\ UNCHANGED regs
         ELSE /\ regs' = [regs EXCEPT ![<<Bank2, 24>>] = Low(phy[r]),
                                      ![<<Bank2, 25>>] = High(phy[r])]
              /\ UNCHANGED phy
  /\ UNCHANGED <<clkrdy, pattern, driverVars>>

\* The oscillator has started.
ClockReady ==
  /\ ~clkrdy
  /\ clkrdy' = TRUE
  /\ UNCHANGED <<regs, phy, mii, pattern, driverVars>>

\* A transmission has ended, well or not.
TxDone ==
  /\ HasBit(econ1, TXRTS)
  /\ regs' = [regs EXCEPT ![<<Common, 31>>] = ClearBit(@, TXRTS)]
  /\ UNCHANGED <<phy, mii, clkrdy, pattern, driverVars>>

\* A frame is accepted; one waiting frame stands for any number of them.
FrameArrives ==
  /\ HasBit(econ1, RXEN)
  /\ regs[<<Bank1, 25>>] = 0
  /\ regs' = [regs EXCEPT ![<<Bank1, 25>>] = 1]
  /\ UNCHANGED <<phy, mii, clkrdy, pattern, driverVars>>

Chip == MiiDone \/ ClockReady \/ TxDone \/ FrameArrives

-----------------------------------------------------------------------------
(* SPI transactions of the API calls.                                      *)

Wcr(addr, v)          == <<[op |-> "wcr", addr |-> addr, v |-> v]>>
Rcr(addr, skip, part) == <<[op |-> "rcr", addr |-> addr, skip |-> skip,
                            part |-> part]>>

\* enc28j60_bank_changing: BSEL is changed by reading and writing ECON1
BankChanging(bnk) ==
  <<[op |-> "sel_read"], [op |-> "sel_write", bank |-> bnk]>>

\* Variant: only accesses to ETH registers change the bank.
SwitchFor_EthOnly(reg) ==
  IF bank # reg.bank /\ reg.bank # Common /\ reg.type = "ETH"
  THEN BankChanging(reg.bank) ELSE <<>>

\* Every access first makes sure of the bank, unless it has the register.
SwitchFor(reg) == IF bank # reg.bank /\ reg.bank # Common
                  THEN BankChanging(reg.bank) ELSE <<>>

\* enc28j60_write_reg
WriteReg(reg, value) ==
  SwitchFor(reg) \o
  (IF reg.type = "PHY"
   THEN Wcr(MIREGADR.addr, reg.addr)
          \o Wcr(MIWRL.addr, Low(value)) \o Wcr(MIWRL.addr + 1, High(value))
          \o <<[op |-> "poll_write"]>>
   ELSE Wcr(reg.addr, Low(value))
          \o (IF reg.length = 2 THEN Wcr(reg.addr + 1, High(value)) ELSE <<>>))

\* Variant: the dummy byte is not skipped.
DummyFirst_Never(reg) == FALSE

\* "For MAC and MII registers first readed byte is dummy and skipped"
DummyFirst(reg) == reg.type # "ETH"

\* enc28j60_read_reg
ReadReg(reg) ==
  SwitchFor(reg) \o
  (IF reg.type = "PHY"
   THEN BankChanging(MIREGADR.bank)
          \o <<[op |-> "micmd_read"]>>
          \o Wcr(MIREGADR.addr, reg.addr)
          \o <<[op |-> "micmd_write", miird |-> TRUE]>>
          \o BankChanging(MISTAT.bank)
          \o <<[op |-> "poll_read"]>>
          \o BankChanging(MIREGADR.bank)
          \o <<[op |-> "micmd_read"], [op |-> "micmd_write", miird |-> FALSE]>>
          \o Rcr(MIRDL.addr, TRUE, 1) \o Rcr(MIRDL.addr + 1, TRUE, 256)
   ELSE Rcr(reg.addr, DummyFirst(reg), 1)
          \o (IF reg.length = 2
              THEN Rcr(reg.addr + 1, DummyFirst(reg), 256) ELSE <<>>))

\* enc28j60_bitfield_set and enc28j60_bitfield_clear: ETH registers only
BitField(op, reg, mask) ==
  IF reg.type = "ETH"
  THEN SwitchFor(reg) \o <<[op |-> op, addr |-> reg.addr, mask |-> mask]>>
  ELSE <<>>

\* The transactions of an API call, made with the driver's copy of the bank.
Transactions(c) ==
  CASE c.kind = "write" -> WriteReg(c.reg, c.value)
    [] c.kind = "read"  -> ReadReg(c.reg)
    [] c.kind \in {"bfs", "bfc"} -> BitField(c.kind, c.reg, c.value)
    [] OTHER -> <<[op |-> c.kind]>>

Call(c) ==
  /\ todo = <<>>
  /\ call' = c
  /\ todo' = Transactions(c)
  /\ ret' = 0
  /\ UNCHANGED <<chipVars, bank, tmp>>

Write(reg, value) == [kind |-> "write", reg |-> reg, value |-> value]
Read(reg)         == [kind |-> "read", reg |-> reg]
BfSet(reg, mask)  == [kind |-> "bfs", reg |-> reg, value |-> mask]
BfClear(reg, mask) == [kind |-> "bfc", reg |-> reg, value |-> mask]
Reset             == [kind |-> "reset"]
BufWrite          == [kind |-> "buf_write"]
BufRead           == [kind |-> "buf_read"]

-----------------------------------------------------------------------------
(* The transactions, one action each.                                      *)

At(op) == todo # <<>> /\ Head(todo).op = op
Pop == todo' = Tail(todo)

\* read ECON1 before the bank is changed
SelRead ==
  /\ At("sel_read")
  /\ tmp' = ByteAt(ECON1.addr, FALSE)
  /\ Pop
  /\ UNCHANGED <<chipVars, bank, call, ret>>

\* write it back with the new bank, and note it
SelWrite ==
  /\ At("sel_write")
  /\ WriteByte(ECON1.addr, SetBsel(tmp, Head(todo).bank))
  /\ bank' = Head(todo).bank
  /\ Pop
  /\ UNCHANGED <<phy, clkrdy, pattern, call, tmp, ret>>

ControlWrite ==
  /\ At("wcr")
  /\ WriteByte(Head(todo).addr, Head(todo).v)
  /\ Pop
  /\ UNCHANGED <<phy, clkrdy, pattern, bank, call, tmp, ret>>

ControlRead ==
  /\ At("rcr")
  /\ ret' = ret + Head(todo).part * ByteAt(Head(todo).addr, Head(todo).skip)
  /\ Pop
  /\ UNCHANGED <<chipVars, bank, call, tmp>>

\* MICMD is read, and written back with MIIRD set or cleared
MicmdRead ==
  /\ At("micmd_read")
  /\ tmp' = ByteAt(MICMD.addr, TRUE)
  /\ Pop
  /\ UNCHANGED <<chipVars, bank, call, ret>>

MicmdWrite ==
  /\ At("micmd_write")
  /\ WriteByte(MICMD.addr, IF Head(todo).miird THEN SetBit(tmp, MIIRD)
                                               ELSE ClearBit(tmp, MIIRD))
  /\ Pop
  /\ UNCHANGED <<phy, clkrdy, pattern, bank, call, tmp, ret>>

\* The loop at the end of a PHY write: read_reg(dev, &MISTAT) until BUSY is
\* clear; the first time round it changes the bank.
PollWrite ==
  /\ At("poll_write")
  /\ IF bank # MISTAT.bank
     THEN todo' = BankChanging(MISTAT.bank) \o todo
     ELSE /\ ~HasBit(ByteAt(MISTAT.addr, TRUE), BUSY)
          /\ Pop
  /\ UNCHANGED <<chipVars, bank, call, tmp, ret>>

\* The loop in the middle of a PHY read.
PollRead ==
  /\ At("poll_read")
  /\ ~HasBit(ByteAt(MISTAT.addr, TRUE), BUSY)
  /\ Pop
  /\ UNCHANGED <<chipVars, bank, call, tmp, ret>>

\* The BFS and BFC commands change the bits of the mask only.
BitFieldOp ==
  /\ At("bfs") \/ At("bfc")
  /\ LET h   == Head(todo)
         old == ByteAt(h.addr, FALSE)
     IN  WriteByte(h.addr, IF h.op = "bfs" THEN SetBit(old, h.mask)
                                           ELSE ClearBit(old, h.mask))
  /\ Pop
  /\ UNCHANGED <<phy, clkrdy, pattern, bank, call, tmp, ret>>

\* enc28j60_soft_reset: the controller forgets its bank, dev->bank stays
SoftReset ==
  /\ At("reset")
  /\ regs' = [byte \in RegBytes |-> ResetValue(byte)]
  /\ phy' = [r \in PhyRegs |-> 0]
  /\ mii' = "idle"
  /\ Pop
  /\ UNCHANGED <<clkrdy, pattern, bank, call, tmp, ret>>

\* enc28j60_write_buf and enc28j60_read_buf with the 4 bytes of ll_test.  The
\* pointer moves with every byte only if AUTOINC is set; without it all bytes
\* go to one address.  ret says whether the bytes read are those written.
Advanced(reg, n) ==
  [regs EXCEPT ![<<reg.bank, reg.addr>>]     = Low(Pointer(reg) + n),
               ![<<reg.bank, reg.addr + 1>>] = High(Pointer(reg) + n)]
AutoInc == HasBit(regs[<<Common, 30>>], AUTOINC)

BufferWrite ==
  /\ At("buf_write")
  /\ pattern' = IF AutoInc THEN Pointer(EWRPTL) ELSE -1
  /\ regs' = IF AutoInc THEN Advanced(EWRPTL, 4) ELSE regs
  /\ Pop
  /\ UNCHANGED <<phy, mii, clkrdy, bank, call, tmp, ret>>

BufferRead ==
  /\ At("buf_read")
  /\ ret' = IF AutoInc /\ Pointer(ERDPTL) = pattern THEN 1 ELSE 0
  /\ regs' = IF AutoInc THEN Advanced(ERDPTL, 4) ELSE regs
  /\ Pop
  /\ UNCHANGED <<phy, mii, clkrdy, pattern, bank, call, tmp>>

RegisterTransaction ==
  \/ SelRead \/ SelWrite \/ ControlWrite \/ ControlRead
  \/ MicmdRead \/ MicmdWrite \/ PollWrite \/ PollRead
  \/ BitFieldOp \/ SoftReset

BufferTransaction == BufferWrite \/ BufferRead

-----------------------------------------------------------------------------
(* Properties of register access, for whatever calls are made.             *)

\* The bytes an API call is allowed to change.  A write of ECON2 may
\* decrement EPKTCNT; a PHY access works through the MII registers.
Targets(c) ==
  CASE c.kind = "reset"     -> RegBytes
    [] c.kind = "buf_write" -> Bytes(EWRPTL)
    [] c.kind = "buf_read"  -> Bytes(ERDPTL)
    [] c.kind \in {"read", "write", "bfs", "bfc"} ->
         IF c.reg.type = "PHY"
         THEN Bytes(MICMD) \union Bytes(MIREGADR) \union Bytes(MIWRL)
         ELSE IF c.kind = "read" THEN {}
         ELSE Bytes(c.reg) \union (IF c.reg = ECON2 THEN Bytes(EPKTCNT) ELSE {})

\* The register file without the bank select bits, which are the driver's
\* own business.
Flat == [byte \in RegBytes |-> IF byte = <<Common, 31>> THEN econ1 - BSEL
                                                        ELSE regs[byte]]

\* No SPI transaction of an API call changes a register byte other than those
\* the call names: bank switching (enc28j60_ll.c:136-146) is invisible, and
\* no access ever lands in the wrong bank (enc28j60_ll.c:149, 192).
OnlyTargetWritten ==
  [][todo' # todo /\ todo # <<>> =>
       \A byte \in RegBytes \ Targets(call) : Flat'[byte] = Flat[byte]]_busVars

\* A PHY write starts with the number of the PHY register in MIREGADR
\* (enc28j60_ll.c:163-165), whatever bank was in use before the call.
PhyWriteAddressed ==
  [][call.kind = "write" /\ call.reg.type = "PHY" /\ At("wcr")
     /\ Head(todo).addr = MIREGADR.addr /\ todo' = Tail(todo) /\ todo # todo'
       => regs'[<<MIREGADR.bank, MIREGADR.addr>>] = call.reg.addr]_busVars

\* The value of a register as the controller holds it.
ValueOf(reg) ==
  IF reg.type = "PHY" THEN phy[reg.addr]
  ELSE CASE reg = ESTAT    -> IF clkrdy THEN CLKRDY ELSE 0
         [] reg = MISTAT   -> IF mii = "idle" THEN 0 ELSE BUSY
         [] reg.length = 2 -> Pointer(reg)
         [] OTHER          -> regs[<<reg.bank, reg.addr>>]

\* A call of enc28j60_read_reg returns what the register named holds at its
\* last transaction: right bank, dummy byte of MAC and MII registers skipped,
\* bytes in the right order, PHY data read only when they are there
\* (enc28j60_ll.c:190-281).
ReadReturnsValue ==
  [][call.kind = "read" /\ Len(todo) = 1 /\ todo' = <<>>
       => ret' = ValueOf(call.reg)]_busVars

\* The transmit request is raised only by a call that writes ECON1: changing
\* the bank never sets it again after the controller has cleared it, which
\* would send the frame a second time (enc28j60_ll.c:139-143).
TransmitOnlyOnRequest ==
  [][~HasBit(econ1, TXRTS) /\ HasBit(econ1', TXRTS)
       => call.kind = "write" /\ call.reg = ECON1]_busVars

\* The driver's copy of the bank is that of the controller, whenever it has
\* one: the reset of enc28j60_ll.c:129-134, which dev->bank does not follow,
\* never happens in another bank than Bank0.
BankShadow == bank = Common \/ bank = BSEL

=============================================================================
