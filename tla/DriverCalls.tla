----------------------------- MODULE DriverCalls -----------------------------
(***************************************************************************)
(* The register accesses the program makes, in the order it makes them:    *)
(* enc28j60_ll_init with the self test ll_test, then for ever the calls of *)
(* enc28j60_receive_packet and of low_level_output.  The lengths and       *)
(* pointers of the frames are those of one sample frame.                   *)
(***************************************************************************)
EXTENDS SpiBus, FiniteSetsExt

VARIABLES
  program,   \* the program run now, or the last one: a name
  at,        \* its next statement
  waiting    \* the call of that statement has been made

callsVars == <<busVars, program, at, waiting>>

-----------------------------------------------------------------------------
(* Statements.                                                             *)

\* An API call of which nothing is used but its effect.
Do(c) == <<[do |-> "call", call |-> c]>>

\* Read a register and stop for ever unless it has the value expected; the
\* lowest bits, below ignored, are not compared.
Check(c, value, ignored) ==
  <<[do |-> "check", call |-> c, value |-> value, ignored |-> ignored]>>

\* Read a register until the bit is as wanted.
Await(reg, bit, wanted) ==
  <<[do |-> "await", call |-> Read(reg), bit |-> bit, wanted |-> wanted]>>

\* Read a register, set bits of the value, write it back.
Modify(reg, bits) ==
  <<[do |-> "call", call |-> Read(reg)],
    [do |-> "store", reg |-> reg, bits |-> bits]>>

\* Leave the program if the register is 0.
Unless0(reg) == <<[do |-> "unless0", call |-> Read(reg)]>>

-----------------------------------------------------------------------------
(* The programs.                                                           *)

TestValue == 4660              \* 1234h
LedOn     == 14467             \* 3883h
MARXEN == 1
RXPAUS == 4
TXPAUS == 8
FULLDPX == 1
FRMLNEN == 2
TXCRCEN == 16
PADCFG_60B == 32               \* MACON3_60B_PADDED in the field PADCFG
CRCEN  == 32
PDPXMD == 128                  \* bit of PHCON1_REG_16.PDPXMD
RX_BUFFER_START_ADDR == 0
RX_BUFFER_END_ADDR   == 6143   \* 17ffh
TX_BUFFER_START_ADDR == 6144   \* 1800h
MAX_FRAME            == 1518
TestAddr             == 4096   \* 1000h
MacAddr              == <<2, 0, 0, 0, 0, 1>>

\* Variant: the MAC is used without waiting for its clock.
LlTest_NoClockWait ==
  Do(Write(ERXSTL, TestValue)) \o Check(Read(ERXSTL), TestValue, 1) \o
  Do(Write(MAMXFLL, TestValue)) \o Check(Read(MAMXFLL), TestValue, 1) \o
  Do(Write(PHLCON, LedOn)) \o Check(Read(PHLCON), LedOn, 2) \o
  Modify(ECON2, {AUTOINC}) \o
  Do(Write(ERXSTL, 0)) \o Do(Write(ERXNDL, 4095)) \o
  Do(Write(EWRPTL, TestAddr)) \o Do(BufWrite) \o
  Do(Write(ERDPTL, TestAddr)) \o Check(BufRead, 1, 1) \o
  Do(Reset)

\* Variant: the controller is reset while a register of Bank1 was last used.
LlTest_ResetInBank1 ==
  Do(Write(ERXSTL, TestValue)) \o Check(Read(ERXSTL), TestValue, 1) \o
  Await(ESTAT, CLKRDY, TRUE) \o
  Do(Read(ERXFCON)) \o Do(Reset)

\* ll_test
LlTest ==
  Do(Write(ERXSTL, TestValue)) \o Check(Read(ERXSTL), TestValue, 1) \o
  Await(ESTAT, CLKRDY, TRUE) \o
  Do(Write(MAMXFLL, TestValue)) \o Check(Read(MAMXFLL), TestValue, 1) \o
  Do(Write(PHLCON, LedOn)) \o Check(Read(PHLCON), LedOn, 2) \o
  Modify(ECON2, {AUTOINC}) \o
  Do(Write(ERXSTL, 0)) \o Do(Write(ERXNDL, 4095)) \o
  Do(Write(EWRPTL, TestAddr)) \o Do(BufWrite) \o
  Do(Write(ERDPTL, TestAddr)) \o Check(BufRead, 1, 1) \o
  Do(Reset)

\* Variant: PHCON1 is written without having been read.
PhySetup_NoRead == Do(Write(PHCON1, PDPXMD))

\* the end of enc28j60_ll_init that concerns the PHY
PhySetup == Modify(PHCON1, {PDPXMD})

\* enc28j60_ll_init
LlInit ==
  Do(Reset) \o LlTest \o
  Do(Write(ERXSTL, RX_BUFFER_START_ADDR)) \o
  Do(Write(ERXNDL, RX_BUFFER_END_ADDR)) \o
  Do(Write(ERXRDPTL, RX_BUFFER_END_ADDR)) \o
  Modify(ERXFCON, {CRCEN}) \o
  Modify(ECON2, {AUTOINC}) \o
  Await(ESTAT, CLKRDY, TRUE) \o
  Modify(MACON1, {MARXEN, TXPAUS, RXPAUS}) \o
  Modify(MACON3, {PADCFG_60B, TXCRCEN, FRMLNEN, FULLDPX}) \o
  Do(Write(MAMXFLL, MAX_FRAME)) \o
  Do(Write(MABBIPG, 21)) \o
  Do(Write(MAADR1, MacAddr[1])) \o Do(Write(MAADR2, MacAddr[2])) \o
  Do(Write(MAADR3, MacAddr[3])) \o Do(Write(MAADR4, MacAddr[4])) \o
  Do(Write(MAADR5, MacAddr[5])) \o Do(Write(MAADR6, MacAddr[6])) \o
  PhySetup \o
  Modify(ECON1, {RXEN})

\* enc28j60_receive_packet
ReceivePacket ==
  Unless0(EPKTCNT) \o
  Do(Write(ERDPTL, RX_BUFFER_START_ADDR)) \o Do(BufRead) \o Do(BufRead) \o
  Do(Write(ERDPTL, 70)) \o Do(Write(ERXRDPTL, 69)) \o
  Modify(ECON2, {PKTDEC})

\* Variant: the frame is not awaited after it was started.
LowLevelOutput_NoWait ==
  Do(Write(EWRPTL, TX_BUFFER_START_ADDR)) \o Do(BufWrite) \o
  Do(Write(EWRPTL, TX_BUFFER_START_ADDR + 1)) \o Do(BufWrite) \o
  Await(ECON1, TXRTS, FALSE) \o
  Do(Write(ETXNDL, TX_BUFFER_START_ADDR + 4)) \o
  Do(Write(ETXSTL, TX_BUFFER_START_ADDR)) \o
  Modify(ECON1, {TXRTS})

\* Variant: the frame is awaited only once it was seen under way.
LowLevelOutput_WaitForStart ==
  Do(Write(EWRPTL, TX_BUFFER_START_ADDR)) \o Do(BufWrite) \o
  Do(Write(EWRPTL, TX_BUFFER_START_ADDR + 1)) \o Do(BufWrite) \o
  Await(ECON1, TXRTS, FALSE) \o
  Do(Write(ETXNDL, TX_BUFFER_START_ADDR + 4)) \o
  Do(Write(ETXSTL, TX_BUFFER_START_ADDR)) \o
  Modify(ECON1, {TXRTS}) \o
  Await(ECON1, TXRTS, TRUE) \o
  Await(ECON1, TXRTS, FALSE)

\* low_level_output: enc28j60_write_to_tx for the control byte and for each
\* pbuf, then enc28j60_ready_to_send
LowLevelOutput ==
  Do(Write(EWRPTL, TX_BUFFER_START_ADDR)) \o Do(BufWrite) \o
  Do(Write(EWRPTL, TX_BUFFER_START_ADDR + 1)) \o Do(BufWrite) \o
  Await(ECON1, TXRTS, FALSE) \o
  Do(Write(ETXNDL, TX_BUFFER_START_ADDR + 4)) \o
  Do(Write(ETXSTL, TX_BUFFER_START_ADDR)) \o
  Modify(ECON1, {TXRTS}) \o
  Await(ECON1, TXRTS, FALSE)

Text(name) == CASE name = "ll_init" -> LlInit
                [] name = "receive" -> ReceivePacket
                [] name = "output"  -> LowLevelOutput

-----------------------------------------------------------------------------
(* Running a program.                                                      *)

\* main is started while the controller is in any state: powered up with it,
\* or still running from before, in any bank, receiving and transmitting.
Init ==
  /\ \E e \in 0..15, m \in {"idle", "write", "read"} :
       /\ regs = [byte \in RegBytes |-> IF byte = <<Common, 31>> THEN e
                                        ELSE ResetValue(byte)]
       /\ mii = m
  /\ phy = [r \in PhyRegs |-> 0]
  /\ clkrdy \in BOOLEAN
  /\ pattern = -1
  /\ bank = Common
  /\ call = Reset
  /\ todo = <<>>
  /\ tmp = 0
  /\ ret = 0
  /\ program = "ll_init"
  /\ at = 1
  /\ waiting = FALSE

Done == at > Len(Text(program))
Statement == Text(program)[at]

Advance == at' = at + 1 /\ waiting' = FALSE

WithBits(v, bits) == v + SumSet({b \in bits : ~HasBit(v, b)})

\* The call of a statement is made.
Issue ==
  /\ ~Done /\ ~waiting
  /\ IF Statement.do = "store"
     THEN Call(Write(Statement.reg, WithBits(ret, Statement.bits)))
     ELSE Call(Statement.call)
  /\ waiting' = TRUE
  /\ UNCHANGED <<program, at>>

\* The call has returned; what follows depends on the statement.  A failed
\* check is "while(1){}": no step follows.
Return ==
  /\ ~Done /\ waiting /\ todo = <<>>
  /\ CASE Statement.do \in {"call", "store"} -> Advance
       [] Statement.do = "check" ->
            /\ ret \div Statement.ignored
                 = Statement.value \div Statement.ignored
            /\ Advance
       [] Statement.do = "await" ->
            IF HasBit(ret, Statement.bit) = Statement.wanted
            THEN Advance ELSE waiting' = FALSE /\ UNCHANGED at
       [] Statement.do = "unless0" ->
            IF ret = 0 THEN at' = Len(Text(program)) + 1 /\ waiting' = FALSE
                       ELSE Advance
  /\ UNCHANGED <<busVars, program>>

\* main's loop: low_level_input, and low_level_output whenever the stack has
\* something to send
Start ==
  /\ Done
  /\ program' \in {"receive", "output"}
  /\ at' = 1
  /\ waiting' = FALSE
  /\ UNCHANGED busVars

Driver == \/ Issue \/ Return \/ Start
          \/ RegisterTransaction /\ UNCHANGED <<program, at, waiting>>
          \/ BufferTransaction /\ UNCHANGED <<program, at, waiting>>

Next == \/ Driver
        \/ Chip /\ UNCHANGED <<program, at, waiting>>

Spec == Init /\ [][Next]_callsVars

\* The program always goes on.  The controller ends every MII transaction and
\* every transmission, and its clock starts: the code waits for each of the
\* three in a loop without a timeout.
FairSpec ==
  /\ Spec
  /\ WF_callsVars(Driver)
  /\ WF_callsVars(MiiDone /\ UNCHANGED <<program, at, waiting>>)
  /\ WF_callsVars(TxDone /\ UNCHANGED <<program, at, waiting>>)
  /\ WF_callsVars(ClockReady /\ UNCHANGED <<program, at, waiting>>)

-----------------------------------------------------------------------------
(* Properties.                                                             *)

Initialized == program # "ll_init" \/ Done

\* Once enc28j60_ll_init has returned the controller is configured as its text
\* says, whatever state it was found in: every write reached its register,
\* nothing of the self test is left, and nothing the loop of main does
\* disturbs it.
Configured ==
  Initialized =>
    /\ Pointer(ERXSTL) = RX_BUFFER_START_ADDR
    /\ Pointer(ERXNDL) = RX_BUFFER_END_ADDR
    /\ HasBit(regs[<<Bank1, ERXFCON.addr>>], CRCEN)
    /\ HasBit(regs[<<Common, ECON2.addr>>], AUTOINC)
    /\ ~HasBit(regs[<<Common, ECON2.addr>>], PKTDEC)
    /\ regs[<<Bank2, MACON1.addr>>] = MARXEN + TXPAUS + RXPAUS
    /\ regs[<<Bank2, MACON3.addr>>] = PADCFG_60B + TXCRCEN + FRMLNEN + FULLDPX
    /\ Pointer(MAMXFLL) = MAX_FRAME
    /\ regs[<<Bank2, MABBIPG.addr>>] = 21
    /\ <<regs[<<Bank3, MAADR1.addr>>], regs[<<Bank3, MAADR2.addr>>],
         regs[<<Bank3, MAADR3.addr>>], regs[<<Bank3, MAADR4.addr>>],
         regs[<<Bank3, MAADR5.addr>>], regs[<<Bank3, MAADR6.addr>>]>> = MacAddr
    /\ phy[PHCON1.addr] = PDPXMD
    /\ HasBit(econ1, RXEN)

\* enc28j60_ll_init returns: no test of ll_test fails on a working
\* controller, and no wait is for something that has already passed or cannot
\* come (enc28j60_ll.c:8-126, 328-428).
InitReturns == <>Initialized

\* Every round of main's loop comes to its end, also those that wait for the
\* transmitter (enc28j60.c:118-135).
RoundsEnd == []<>(Initialized /\ Done)

\* The PHY is set to full duplex, like the MAC (MACON3.FULLDPX): PHCON1 has
\* its duplex mode in bit 8.
PhyFullDuplex == Initialized => HasBit(phy[PHCON1.addr], 256)

=============================================================================
