------------------------------ MODULE BusClient ------------------------------
(***************************************************************************)
(* The register access layer under a client that makes any of the calls    *)
(* it is given, in any order, while the controller runs freely.  Buffer    *)
(* transfers are left to module DriverCalls.                               *)
(***************************************************************************)
EXTENDS SpiBus

CONSTANTS Calls,      \* the API calls the client makes
          MindsBank   \* the client knows which calls depend on the bank

MiiBytes == ({Bank2} \X (18..25)) \union {<<Bank3, 10>>}

\* The registers a client accesses.  The MII registers are the layer's own.
IsRegister(r) ==
  /\ r = Reg(r.type, r.bank, r.addr, r.length)
  /\ r.length \in 1..2
  /\ \/ r.type = "PHY" /\ r.bank = Common /\ r.addr \in PhyRegs
     \/ /\ r.type = "ETH" /\ r.bank = Common
        /\ r.addr \in 27..31 /\ r.length = 1
     \/ /\ r.type \in {"ETH", "MAC"} /\ r.bank \in Bank0..Bank3
        /\ r.addr \in 0..27 - r.length
        /\ \A byte \in Bytes(r) :
             /\ IsMacMii(byte) <=> r.type = "MAC"
             /\ byte \notin MiiBytes
             /\ byte = <<EPKTCNT.bank, EPKTCNT.addr>> => r.length = 1

\* BSEL is not a bit field to set or clear.
Masks(r) == {4, 8, 16, 32, 64, 128} \union (IF r = ECON1 THEN {} ELSE {1, 2})

IsCall(c) ==
  \/ c = Reset
  \/ c.kind = "read" /\ c = Read(c.reg) /\ IsRegister(c.reg)
  \/ c.kind = "write" /\ IsRegister(c.reg) /\ c.value \in 0..2^16 - 1
  \/ c.kind \in {"bfs", "bfc"} /\ IsRegister(c.reg) /\ c.value \in Masks(c.reg)

ASSUME CallsAssumption ==
  MindsBank \in BOOLEAN /\ \A c \in Calls : IsCall(c)

\* The state enc28j60_init leaves dev in; the controller is after its reset,
\* with its clock running or not yet.
Init ==
  /\ regs = [byte \in RegBytes |-> ResetValue(byte)]
  /\ phy = [r \in PhyRegs |-> 0]
  /\ mii = "idle"
  /\ clkrdy \in BOOLEAN
  /\ pattern = -1
  /\ bank = Common
  /\ call = Reset
  /\ todo = <<>>
  /\ tmp = 0
  /\ ret = 0

\* MAC, MII and PHY registers are not to be touched before the clock runs.
ClockMinded(c) ==
  c.kind \in {"read", "write"} /\ c.reg.type # "ETH" => clkrdy

\* What the calls need that do not see to the bank themselves: ll_test makes
\* the first two after an access to the bank in question, and ECON1 is written
\* with the BSEL that was read.
BankMinded(c) ==
  /\ c.kind = "reset" => bank \in {Bank0, Common}
  /\ c.kind = "write" /\ c.reg.type = "PHY" => bank = MIREGADR.bank
  /\ c.kind = "write" /\ c.reg = ECON1 => c.value % 4 = BSEL

\* While a frame is being sent only ECON1 is read: the rest would change the
\* bank by writing an ECON1 back that is no longer up to date.
TransmitMinded(c) == HasBit(econ1, TXRTS) => c = Read(ECON1)

MakeCall == \E c \in Calls :
  /\ ClockMinded(c) /\ TransmitMinded(c)
  /\ MindsBank => BankMinded(c)
  /\ Call(c)

Next == MakeCall \/ RegisterTransaction \/ Chip

Spec == Init /\ [][Next]_busVars

=============================================================================
