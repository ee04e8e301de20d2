--------------------------- MODULE BusClientProofs ---------------------------
(***************************************************************************)
(* Proofs about register access over SPI (SpiBus), for clients that make   *)
(* any calls for any registers, in any order.                              *)
(***************************************************************************)
EXTENDS BusClient, SequenceTheorems, TLAPS

-----------------------------------------------------------------------------
(* The transactions of a call, and what is left of them.                   *)

\* What is left of n transactions after k of them.
Rest(p, n, k) == [i \in 1..n - k |-> p[k + i]]

WcrOp(addr, v)      == [op |-> "wcr", addr |-> addr, v |-> v]
RcrOp(addr, s, part) == [op |-> "rcr", addr |-> addr, skip |-> s, part |-> part]
MicmdOp(on)         == [op |-> "micmd_write", miird |-> on]

TwoBytes(c) == c.kind \in {"read", "write"} /\ c.reg.length = 2

\* The first two only if the bank is to be changed.
PlainSize(c) == IF TwoBytes(c) THEN 4 ELSE 3
PlainPlan(c) ==
  <<[op |-> "sel_read"], [op |-> "sel_write", bank |-> c.reg.bank],
    CASE c.kind = "write" -> WcrOp(c.reg.addr, Low(c.value))
      [] c.kind = "read"  -> RcrOp(c.reg.addr, DummyFirst(c.reg), 1)
      [] OTHER            -> [op |-> c.kind, addr |-> c.reg.addr, mask |-> c.value],
    IF c.kind = "write" THEN WcrOp(c.reg.addr + 1, High(c.value))
                        ELSE RcrOp(c.reg.addr + 1, DummyFirst(c.reg), 256)>>

ReadPlan(c) ==
  <<[op |-> "sel_read"], [op |-> "sel_write", bank |-> 2],
    [op |-> "micmd_read"], WcrOp(20, c.reg.addr), MicmdOp(TRUE),
    [op |-> "sel_read"], [op |-> "sel_write", bank |-> 3],
    [op |-> "poll_read"],
    [op |-> "sel_read"], [op |-> "sel_write", bank |-> 2],
    [op |-> "micmd_read"], MicmdOp(FALSE),
    RcrOp(24, TRUE, 1), RcrOp(25, TRUE, 256)>>

WritePlan(c) ==
  <<WcrOp(20, c.reg.addr), WcrOp(22, Low(c.value)), WcrOp(23, High(c.value)),
    [op |-> "poll_write"]>>

PollPlan ==
  <<[op |-> "sel_read"], [op |-> "sel_write", bank |-> 3],
    [op |-> "poll_write"]>>

-----------------------------------------------------------------------------
(* The inductive invariant.                                                *)

TypeOK ==
  /\ regs \in [RegBytes -> Int] /\ phy \in [PhyRegs -> Int]
  /\ mii \in {"idle", "write", "read"} /\ clkrdy \in BOOLEAN
  /\ bank \in 0..4 /\ tmp \in Int /\ ret \in Int
  /\ IsCall(call)

\* What an ECON1 that was read holds stays true until it is written back.
NotSending ==
  todo # <<>> /\ call # Read(ECON1) => ~HasBit(econ1, TXRTS)

Rested == todo = <<>> /\ mii = "idle"

Resetting == /\ call = Reset /\ todo = <<[op |-> "reset"]>>
             /\ bank \in {Bank0, Common} /\ mii = "idle"

PlainAt(k) ==
  /\ todo = Rest(PlainPlan(call), PlainSize(call), k)
  /\ k < 2 => call.reg.bank # Common
  /\ k = 1 => tmp = econ1
  /\ k >= 2 => call.reg.bank \in {Common, BSEL}
  /\ call.kind = "read" =>
       ret = IF k = 3 THEN regs[<<call.reg.bank, call.reg.addr>>] ELSE 0
  /\ call.kind = "write" /\ call.reg = ECON1 => call.value % 4 = BSEL

\* A register that is not of the PHY is accessed.
Plain ==
  /\ call # Reset
  /\ call.reg.type \in {"ETH", "MAC"}
  /\ call.reg.type = "MAC" => call.kind \in {"read", "write"} /\ clkrdy
  /\ mii = "idle"
  /\ \E k \in 0..PlainSize(call) - 1 : PlainAt(k)

PhyReadHas(k) ==
  /\ k \in {1, 6, 9} => tmp = econ1
  /\ k \in 2..6 \union 10..13 => BSEL = 2
  /\ k = 7 => BSEL = 3
  /\ k >= 4 => regs[<<2, 20>>] = call.reg.addr
  /\ mii = "idle" \/ (k \in 5..7 /\ mii = "read")
  /\ k >= 5 /\ mii = "idle" =>
       /\ regs[<<2, 24>>] = Low(phy[call.reg.addr])
       /\ regs[<<2, 25>>] = High(phy[call.reg.addr])
  /\ ret = IF k = 13 THEN Low(phy[call.reg.addr]) ELSE 0

PhyReadAt(k) == todo = Rest(ReadPlan(call), 14, k) /\ PhyReadHas(k)

PhyRead ==
  /\ call # Reset /\ call.kind = "read" /\ call.reg.type = "PHY" /\ clkrdy
  /\ \E k \in 0..13 : PhyReadAt(k)

PhyWriteAt(k) ==
  /\ todo = Rest(WritePlan(call), 4, k)
  /\ bank \in {2, 3} /\ bank = BSEL
  /\ k < 3 => mii = "idle" /\ bank = 2
  /\ k = 3 => mii \in {"idle", "write"}

PollAt(k) ==
  /\ todo = Rest(PollPlan, 3, k)
  /\ bank = 2 /\ BSEL = 2 /\ mii \in {"idle", "write"}
  /\ k = 1 => tmp = econ1

PhyWrite ==
  /\ call # Reset /\ call.kind = "write" /\ call.reg.type = "PHY" /\ clkrdy
  /\ (\E k \in 0..3 : PhyWriteAt(k)) \/ (\E k \in 0..1 : PollAt(k))

BusInv ==
  /\ TypeOK /\ BankShadow /\ NotSending
  /\ Rested \/ Resetting \/ Plain \/ PhyRead \/ PhyWrite

-----------------------------------------------------------------------------
(* Sequences.                                                              *)

\* The next transaction, and what is left after it.
LEMMA RestIs ==
  ASSUME NEW p, NEW n \in Nat, NEW k \in 0..n
  PROVE  /\ Len(Rest(p, n, k)) = n - k
         /\ Rest(p, n, n) = <<>>
         /\ k < n => /\ Rest(p, n, k) # <<>>
                     /\ Head(Rest(p, n, k)) = p[k + 1]
                     /\ Tail(Rest(p, n, k)) = Rest(p, n, k + 1)
<1> DEFINE S == {p[i] : i \in 1..n}
           r == Rest(p, n, k)
<1>1. r \in Seq(S)
  <2>1. n - k \in Nat /\ \A i \in 1..n - k : p[k + i] \in S
    OBVIOUS
  <2>2. r \in [1..n - k -> S]
    BY <2>1 DEF Rest
  <2> QED
    BY <2>1, <2>2
<1>2. Len(r) = n - k
  BY DEF Rest
<1>3. Rest(p, n, n) = <<>>
  BY DEF Rest
<1>4. ASSUME k < n
      PROVE  r # <<>> /\ Head(r) = p[k + 1] /\ Tail(r) = Rest(p, n, k + 1)
  <2>1. r # <<>> /\ Head(r) = r[1] /\ Len(r) = n - k
    <3>1. Len(r) > 0
      BY <1>2, <1>4
    <3> HIDE DEF r, S
    <3> QED
      BY <1>1, <3>1, <1>2
  <2>2. r[1] = p[k + 1]
    BY <1>4 DEF Rest
  <2>3. Tail(r) = [i \in 1..n - k - 1 |-> r[i + 1]]
    <3> HIDE DEF r, S
    <3>1. /\ Tail(r) \in Seq(S) /\ Len(Tail(r)) = n - k - 1
          /\ \A i \in 1..n - k - 1 : Tail(r)[i] = r[i + 1]
      BY <1>1, <2>1, HeadTailProperties
    <3>2. Tail(r) = [i \in 1..n - k - 1 |-> Tail(r)[i]]
      BY <3>1, LenProperties
    <3> QED
      BY <3>1, <3>2
  <2>4. \A i \in 1..n - k - 1 : r[i + 1] = p[(k + 1) + i]
    BY <1>4 DEF Rest
  <2>5. Rest(p, n, k + 1) = [i \in 1..n - k - 1 |-> p[(k + 1) + i]]
    BY <1>4 DEF Rest
  <2> QED
    BY <2>1, <2>2, <2>3, <2>4, <2>5
<1> QED
  BY <1>2, <1>3, <1>4

\* The first k transactions.
First(p, k) == [i \in 1..k |-> p[i]]

\* More transactions are appended.
LEMMA Joined ==
  ASSUME NEW p, NEW k \in Nat, NEW n \in Nat, NEW q, q = [i \in 1..n |-> p[k + i]]
  PROVE  First(p, k) \o q = First(p, k + n)
<1> DEFINE S == {p[i] : i \in 1..k + n}
           f == First(p, k)
           j == f \o q
<1>1. f \in Seq(S) /\ q \in Seq(S)
  <2>1. f \in [1..k -> S]
    BY DEF First
  <2>2. \A i \in 1..n : k + i \in 1..k + n
    OBVIOUS
  <2>3. q \in [1..n -> S]
    BY <2>2
  <2> HIDE DEF f, S
  <2>4. f \in Seq(S)
    BY <2>1, SeqDef
  <2>5. q \in Seq(S)
    BY <2>3, SeqDef
  <2> QED
    BY <2>4, <2>5
<1>2. Len(f) = k /\ Len(q) = n
  BY DEF First
<1> HIDE DEF S, f
<1>3. /\ j \in Seq(S) /\ Len(j) = k + n
      /\ \A i \in 1..k + n : j[i] = IF i <= k THEN f[i] ELSE q[i - k]
  <2>1. /\ j \in Seq(S) /\ Len(j) = Len(f) + Len(q)
        /\ \A i \in 1..Len(f) + Len(q) : j[i] = IF i <= Len(f) THEN f[i]
                                               ELSE q[i - Len(f)]
    BY <1>1, ConcatProperties
  <2> HIDE DEF j
  <2> QED
    BY <1>2, <2>1
<1>4. \A i \in 1..k + n : j[i] = p[i]
  BY <1>3 DEF f, First
<1>5. j = [i \in 1..k + n |-> j[i]]
  BY <1>3, LenProperties
<1> QED
  BY <1>4, <1>5 DEF f, First

\* One or two of them.
LEMMA JoinNext ==
  ASSUME NEW p, NEW k \in Nat
  PROVE  /\ First(p, k) \o <<p[k + 1]>> = First(p, k + 1)
         /\ First(p, k) \o <<p[k + 1], p[k + 2]>> = First(p, k + 2)
<1>1. First(p, k) \o <<p[k + 1]>> = First(p, k + 1)
  <2>1. PICK n \in Nat : n = 1
    OBVIOUS
  <2>q. PICK q : q = <<p[k + 1]>>
    OBVIOUS
  <2>2. q = [i \in 1..n |-> p[k + i]]
    BY <2>1, <2>q
  <2>3. First(p, k) \o q = First(p, k + n)
    BY <2>2, Joined
  <2> QED
    BY <2>1, <2>q, <2>3
<1>2. First(p, k) \o <<p[k + 1], p[k + 2]>> = First(p, k + 2)
  <2>1. PICK n \in Nat : n = 2
    OBVIOUS
  <2>q. PICK q : q = <<p[k + 1], p[k + 2]>>
    OBVIOUS
  <2>2. q = [i \in 1..n |-> p[k + i]]
    BY <2>1, <2>q
  <2>3. First(p, k) \o q = First(p, k + n)
    BY <2>2, Joined
  <2> QED
    BY <2>1, <2>q, <2>3
<1> QED
  BY <1>1, <1>2

\* A sequence of two with one more behind it.
LEMMA JoinPair ==
  ASSUME NEW a, NEW b, NEW c
  PROVE  <<a, b>> \o <<c>> = <<a, b, c>>
<1>1. PICK p : p = <<a, b, c>>
  OBVIOUS
<1>2. PICK k \in Nat : k = 2
  OBVIOUS
<1>3. First(p, k) \o <<p[k + 1]>> = First(p, k + 1)
  BY JoinNext
<1>4. First(p, k) = <<a, b>> /\ p[k + 1] = c /\ First(p, k + 1) = <<a, b, c>>
  BY <1>1, <1>2 DEF First
<1> QED
  BY <1>3, <1>4

\* Two sequences of two joined.
LEMMA JoinPairs ==
  ASSUME NEW a, NEW b, NEW c, NEW d
  PROVE  <<a, b>> \o <<c, d>> = <<a, b, c, d>>
<1>1. PICK p : p = <<a, b, c, d>>
  OBVIOUS
<1>2. PICK k \in Nat : k = 2
  OBVIOUS
<1>3. First(p, k) \o <<p[k + 1], p[k + 2]>> = First(p, k + 2)
  BY JoinNext
<1>4. First(p, k) = <<a, b>> /\ p[k + 1] = c /\ p[k + 2] = d
  BY <1>1, <1>2 DEF First
<1>5. First(p, k + 2) = <<a, b, c, d>>
  BY <1>1, <1>2 DEF First
<1> QED
  BY <1>3, <1>4, <1>5

\* Short sequences joined.
LEMMA JoinFew ==
  ASSUME NEW c, NEW d
  PROVE  /\ <<c>> \o <<d>> = <<c, d>> /\ <<c>> \o <<>> = <<c>>
         /\ <<>> \o <<c>> = <<c>> /\ <<>> \o <<c, d>> = <<c, d>>
<1>1. <<c>> \o <<d>> = <<c, d>>
  <2>1. PICK p : p = <<c, d>>
    OBVIOUS
  <2>2. PICK k \in Nat : k = 1
    OBVIOUS
  <2>3. First(p, k) \o <<p[k + 1]>> = First(p, k + 1)
    BY JoinNext
  <2>4. First(p, k) = <<c>> /\ First(p, k + 1) = <<c, d>> /\ p[k + 1] = d
    BY <2>1, <2>2 DEF First
  <2> QED
    BY <2>3, <2>4
<1>2. <<c>> \o <<>> = <<c>>
  OBVIOUS
<1>3. <<>> \o <<c>> = <<c>>
  OBVIOUS
<1>4. <<>> \o <<c, d>> = <<c, d>>
  OBVIOUS
<1> QED
  BY <1>1, <1>2, <1>3, <1>4

-----------------------------------------------------------------------------
(* What a transaction does.                                                *)

cnt == <<Bank1, 25>>

\* A byte that is written changes nothing else, but for the packet counter.
LEMMA Wrote ==
  ASSUME TypeOK, NEW addr \in 0..31, NEW v \in Int, WriteByte(addr, v),
         NEW byte, byte = Located(addr)
  PROVE  /\ byte \in RegBytes
         /\ regs' \in [RegBytes -> Int] /\ mii' \in {"idle", "write", "read"}
         /\ \A b \in RegBytes :
              b # byte /\ (byte = <<Common, 30>> => b # cnt) => regs'[b] = regs[b]
         /\ byte # <<Common, 30>> /\ (IsMacMii(byte) => clkrdy) => regs'[byte] = v
         /\ byte \notin {<<Bank2, 23>>, <<Bank2, 18>>} => mii' = mii
         /\ byte = <<Bank2, 23>> => mii' \in {mii, "write"}
         /\ byte = <<Bank2, 18>> =>
              IF HasBit(v, MIIRD) /\ clkrdy THEN mii' = "read" ELSE mii' = mii
         /\ byte # <<Common, 31>> => econ1' = econ1
<1>1. BSEL \in 0..3
  <2>1. <<Common, 31>> \in RegBytes
    BY DEF RegBytes, Common, Bank0, Bank3
  <2>2. econ1 \in Int
    BY <2>1 DEF TypeOK, econ1
  <2> QED
    BY <2>2 DEF BSEL
<1>2. byte \in RegBytes
  BY <1>1 DEF Located, RegBytes, Common, Bank0, Bank3
<1>3. cnt \in RegBytes /\ cnt # <<Common, 30>> /\ <<Common, 31>> \in RegBytes
        /\ <<Common, 31>> # cnt
  BY DEF cnt, RegBytes, Common, Bank0, Bank1, Bank3
<1>4. /\ ~IsMacMii(<<Common, 30>>) /\ ~IsMacMii(<<Common, 31>>)
      /\ IsMacMii(<<Bank2, 23>>) /\ IsMacMii(<<Bank2, 18>>)
      /\ <<Bank2, 23>> # <<Bank2, 18>> /\ <<Common, 30>> # <<Bank2, 23>>
      /\ <<Common, 30>> # <<Bank2, 18>>
  BY DEF IsMacMii, Common, Bank2, Bank3
<1>5. /\ regs \in [RegBytes -> Int] /\ mii \in {"idle", "write", "read"}
      /\ v - PKTDEC \in Int /\ regs[cnt] - 1 \in Int
  BY <1>3 DEF TypeOK, PKTDEC
<1>6. CASE IsMacMii(byte) /\ ~clkrdy
  <2>1. UNCHANGED <<regs, mii>>
    BY <1>6 DEF WriteByte
  <2> QED
    BY <2>1, <1>2, <1>5, <1>6 DEF econ1
<1>7. CASE ~(IsMacMii(byte) /\ ~clkrdy)
  <2>1. /\ regs' = IF byte = <<Common, 30>> /\ HasBit(v, PKTDEC)
                   THEN [regs EXCEPT ![byte] = v - PKTDEC, ![cnt] = @ - 1]
                   ELSE [regs EXCEPT ![byte] = v]
        /\ mii' = IF byte = <<Bank2, 23>> THEN "write"
                  ELSE IF byte = <<Bank2, 18>> /\ HasBit(v, MIIRD)
                       THEN "read" ELSE mii
    BY <1>7 DEF WriteByte, cnt
  <2>2. /\ regs' \in [RegBytes -> Int]
        /\ \A b \in RegBytes :
             b # byte /\ (byte = <<Common, 30>> => b # cnt) => regs'[b] = regs[b]
        /\ byte # <<Common, 30>> => regs'[byte] = v
    BY <2>1, <1>2, <1>3, <1>5
  <2>3. byte # <<Common, 31>> => econ1' = econ1
    BY <2>2, <1>3 DEF econ1
  <2> QED
    BY <2>1, <2>2, <2>3, <1>2, <1>4, <1>5, <1>7
<1> QED
  BY <1>6, <1>7

\* The transaction that is made is the first of those left.
LEMMA Taken ==
  ASSUME todo # <<>>, RegisterTransaction, NEW h, h = Head(todo)
  PROVE  /\ h.op = "sel_read"    => SelRead
         /\ h.op = "sel_write"   => SelWrite
         /\ h.op = "wcr"         => ControlWrite
         /\ h.op = "rcr"         => ControlRead
         /\ h.op = "micmd_read"  => MicmdRead
         /\ h.op = "micmd_write" => MicmdWrite
         /\ h.op = "poll_write"  => PollWrite
         /\ h.op = "poll_read"   => PollRead
         /\ h.op \in {"bfs", "bfc"} => BitFieldOp
         /\ h.op = "reset"       => SoftReset
  BY DEF RegisterTransaction, SelRead, SelWrite, ControlWrite, ControlRead,
     MicmdRead, MicmdWrite, PollWrite, PollRead, BitFieldOp, SoftReset, At

\* The bank select bits do not touch the others.
LEMMA BitsOf ==
  ASSUME NEW v \in Int, NEW bnk \in 0..3
  PROVE  /\ SetBsel(v, bnk) \in Int
         /\ SetBsel(v, bnk) % 4 = bnk
         /\ SetBsel(v, bnk) - bnk = v - (v % 4)
         /\ HasBit(SetBsel(v, bnk), TXRTS) <=> HasBit(v, TXRTS)
<1>1. PICK q \in Int : v = 4 * q + (v % 4)
  <2>1. v = 4 * (v \div 4) + (v % 4) /\ v \div 4 \in Int
    OBVIOUS
  <2> QED
    BY <2>1
<1>2. SetBsel(v, bnk) = 4 * q + bnk
  BY <1>1 DEF SetBsel
<1>3. (4 * q + bnk) \div 8 = v \div 8
  BY <1>1
<1> QED
  BY <1>1, <1>2, <1>3 DEF HasBit, TXRTS

\* Nothing of the register file has changed outside of S.
Kept(S) == \A byte \in RegBytes \ S : Flat'[byte] = Flat[byte]

\* A step that writes only the named registers keeps all others, whichever bank
\* is selected.
LEMMA KeptIs ==
  ASSUME TypeOK, NEW S,
         \A b \in RegBytes \ S : b # <<Common, 31>> => regs'[b] = regs[b],
         <<Common, 31>> \notin S => econ1' - BSEL' = econ1 - BSEL
  PROVE  Kept(S)
<1> SUFFICES ASSUME NEW byte \in RegBytes \ S PROVE Flat'[byte] = Flat[byte]
  BY DEF Kept
<1>1. /\ Flat[byte] = IF byte = <<Common, 31>> THEN econ1 - BSEL ELSE regs[byte]
      /\ Flat'[byte] = IF byte = <<Common, 31>> THEN econ1' - BSEL' ELSE regs'[byte]
  BY DEF Flat
<1> QED
  BY <1>1

\* ECON1 is found in every bank.
LEMMA SelReads ==
  ASSUME TypeOK
  PROVE  ByteAt(ECON1.addr, FALSE) = econ1 /\ econ1 \in Int /\ BSEL \in 0..3
BY DEF ByteAt, Located, IsMacMii, ECON1, Reg, Common, Bank2, Bank3, econ1, BSEL,
   TypeOK, RegBytes, Bank0

\* A bank is selected.
LEMMA SelDone ==
  ASSUME TypeOK, tmp = econ1, NEW bnk \in 0..3, SelWrite,
         Head(todo) = [op |-> "sel_write", bank |-> bnk]
  PROVE  /\ regs' \in [RegBytes -> Int]
         /\ bank' = bnk /\ BSEL' = bnk /\ mii' = mii
         /\ \A b \in RegBytes : b # <<Common, 31>> => regs'[b] = regs[b]
         /\ HasBit(econ1', TXRTS) <=> HasBit(econ1, TXRTS)
         /\ \A S : Kept(S)
<1>1. econ1 \in Int
  BY SelReads
<1>2. Located(31) = <<Common, 31>>
  BY DEF Located
<1>3. /\ SetBsel(tmp, bnk) \in Int
      /\ SetBsel(tmp, bnk) % 4 = bnk
      /\ SetBsel(tmp, bnk) - bnk = econ1 - (econ1 % 4)
      /\ HasBit(SetBsel(tmp, bnk), TXRTS) <=> HasBit(econ1, TXRTS)
  BY <1>1, BitsOf
<1>4. WriteByte(31, SetBsel(tmp, bnk)) /\ bank' = bnk
  BY DEF SelWrite, ECON1, Reg
<1>5. /\ <<Common, 31>> # <<Common, 30>> /\ ~IsMacMii(<<Common, 31>>)
      /\ <<Common, 31>> \notin {<<Bank2, 23>>, <<Bank2, 18>>}
  BY DEF IsMacMii, Common, Bank2, Bank3
<1>6. /\ regs' \in [RegBytes -> Int] /\ mii' = mii
      /\ \A b \in RegBytes : b # <<Common, 31>> => regs'[b] = regs[b]
      /\ econ1' = SetBsel(tmp, bnk)
  <2>1. PICK byte : byte = Located(31)
    OBVIOUS
  <2>2. PICK v \in Int, addr \in 0..31 :
          v = SetBsel(tmp, bnk) /\ addr = 31 /\ WriteByte(addr, v)
    BY <1>3, <1>4
  <2>3. /\ regs' \in [RegBytes -> Int]
        /\ \A b \in RegBytes :
             b # byte /\ (byte = <<Common, 30>> => b # cnt) => regs'[b] = regs[b]
        /\ byte # <<Common, 30>> /\ (IsMacMii(byte) => clkrdy) => regs'[byte] = v
        /\ byte \notin {<<Bank2, 23>>, <<Bank2, 18>>} => mii' = mii
    BY <2>1, <2>2, Wrote
  <2> QED
    BY <1>2, <1>5, <2>1, <2>2, <2>3 DEF econ1
<1>7. BSEL' = bnk /\ econ1' - BSEL' = econ1 - BSEL
  BY <1>3, <1>6 DEF BSEL
<1>8. \A S : Kept(S)
  BY <1>6, <1>7, KeptIs
<1> QED
  BY <1>3, <1>4, <1>6, <1>7, <1>8

\* The registers a client accesses that are not of the PHY.
LEMMA Registers ==
  ASSUME NEW r, IsRegister(r), r.type \in {"ETH", "MAC"},
         NEW a \in r.addr..r.addr + r.length - 1
  PROVE  /\ a \in 0..31 /\ r.length \in 1..2 /\ r.addr \in 0..31
         /\ <<r.bank, a>> \in RegBytes /\ <<r.bank, a>> \in Bytes(r)
         /\ r.bank = Common => a \in 27..31 /\ r.length = 1
         /\ r.bank # Common => r.bank \in 0..3 /\ a < 27
         /\ IsMacMii(<<r.bank, a>>) <=> r.type = "MAC"
         /\ <<r.bank, a>> \notin MiiBytes
         /\ <<r.bank, a>> = <<Common, 31>> => r = ECON1
         /\ <<r.bank, a>> = <<Common, 30>> => r = ECON2
         /\ <<r.bank, a>> = <<Common, 29>> => r = ESTAT
         /\ <<r.bank, a>> = cnt => r.length = 1
<1>1. r = Reg(r.type, r.bank, r.addr, r.length) /\ r.length \in 1..2
  BY DEF IsRegister
<1>2. <<r.bank, a>> \in Bytes(r)
  BY DEF Bytes
<1>3. CASE r.type = "ETH" /\ r.bank = Common /\ r.addr \in 27..31 /\ r.length = 1
  <2>1. a = r.addr
    BY <1>3
  <2>2. ~IsMacMii(<<Common, a>>) /\ <<Common, a>> \notin MiiBytes /\ <<Common, a>> # cnt
    BY DEF IsMacMii, MiiBytes, cnt, Common, Bank1, Bank2, Bank3
  <2>3. <<r.bank, a>> \in RegBytes
    BY <1>3, <2>1 DEF RegBytes
  <2> QED
    BY <1>1, <1>2, <1>3, <2>1, <2>2, <2>3 DEF ECON1, ECON2, ESTAT, Reg, Common
<1>4. CASE /\ r.bank \in Bank0..Bank3 /\ r.addr \in 0..27 - r.length
           /\ \A byte \in Bytes(r) :
                /\ IsMacMii(byte) <=> r.type = "MAC"
                /\ byte \notin MiiBytes
                /\ byte = <<EPKTCNT.bank, EPKTCNT.addr>> => r.length = 1
  <2>1. /\ r.bank \in 0..3 /\ r.addr \in 0..27 - r.length /\ a \in 0..26
        /\ r.bank # Common /\ r.addr \in 0..31
    BY <1>1, <1>4 DEF Bank0, Bank3, Common
  <2>2. <<r.bank, a>> \in RegBytes
    BY <2>1 DEF RegBytes, Bank0, Bank3
  <2>3. <<EPKTCNT.bank, EPKTCNT.addr>> = cnt
    BY DEF EPKTCNT, Reg, cnt
  <2> QED
    BY <1>1, <1>2, <1>4, <2>1, <2>2, <2>3 DEF Common
<1> QED
  BY <1>3, <1>4 DEF IsRegister

\* In its bank an address stands for the register.
LEMMA LocatedIn ==
  ASSUME TypeOK, NEW r, IsRegister(r), r.type \in {"ETH", "MAC"},
         NEW a \in r.addr..r.addr + r.length - 1, r.bank \in {Common, BSEL}
  PROVE  Located(a) = <<r.bank, a>>
<1>1. BSEL \in 0..3
  BY SelReads
<1>2. /\ r.bank = Common => a \in 27..31
      /\ r.bank # Common => a < 27 /\ a \in 0..31
  BY Registers
<1> QED
  BY <1>1, <1>2 DEF Located, Common

\* A byte of a register is read.
LEMMA PlainReads ==
  ASSUME TypeOK, NEW r, IsRegister(r), r.type \in {"ETH", "MAC"},
         NEW a \in r.addr..r.addr + r.length - 1, r.bank \in {Common, BSEL}
  PROVE  /\ r # ESTAT => ByteAt(a, DummyFirst(r)) = regs[<<r.bank, a>>]
         /\ r = ESTAT => ByteAt(a, DummyFirst(r)) = IF clkrdy THEN 1 ELSE 0
         /\ regs[<<r.bank, a>>] \in Int
<1>1. Located(a) = <<r.bank, a>>
  BY LocatedIn
<1>2. /\ IsMacMii(<<r.bank, a>>) <=> r.type = "MAC"
      /\ <<r.bank, a>> \notin MiiBytes /\ <<r.bank, a>> \in RegBytes
      /\ <<r.bank, a>> = <<Common, 29>> => r = ESTAT
  BY Registers
<1>3. DummyFirst(r) = IsMacMii(<<r.bank, a>>)
  BY <1>2 DEF DummyFirst, IsMacMii
<1>4. r = ESTAT => <<r.bank, a>> = <<Common, 29>>
  BY DEF ESTAT, Reg
<1>5. <<r.bank, a>> # <<Bank3, 10>> /\ <<Common, 29>> # <<Bank3, 10>>
  BY <1>2 DEF MiiBytes, Common, Bank3
<1>6. ByteAt(a, DummyFirst(r)) =
        CASE <<r.bank, a>> = <<Common, 29>> -> IF clkrdy THEN 1 ELSE 0
          [] <<r.bank, a>> = <<Bank3, 10>>  -> IF mii = "idle" THEN 0 ELSE 1
          [] OTHER                          -> regs[<<r.bank, a>>]
  BY <1>1, <1>3 DEF ByteAt
<1> QED
  BY <1>2, <1>4, <1>5, <1>6 DEF TypeOK

\* A byte of a register is written.
LEMMA PlainWrote ==
  ASSUME TypeOK, NEW r, IsRegister(r), r.type \in {"ETH", "MAC"},
         NEW a \in r.addr..r.addr + r.length - 1, r.bank \in {Common, BSEL},
         r.type = "MAC" => clkrdy,
         NEW v \in Int, r = ECON1 => v % 4 = BSEL, WriteByte(a, v)
  PROVE  /\ regs' \in [RegBytes -> Int] /\ mii' = mii /\ BSEL' = BSEL
         /\ r # ECON1 => econ1' = econ1
         /\ Kept(Bytes(r) \union (IF r = ECON2 THEN Bytes(EPKTCNT) ELSE {}))
<1> DEFINE b == <<r.bank, a>>
           S == Bytes(r) \union (IF r = ECON2 THEN Bytes(EPKTCNT) ELSE {})
<1>1. Located(a) = b
  BY LocatedIn
<1>2. /\ a \in 0..31 /\ b \in RegBytes /\ b \in Bytes(r) /\ b \notin MiiBytes
      /\ b = <<Common, 31>> => r = ECON1
      /\ b = <<Common, 30>> => r = ECON2
      /\ IsMacMii(b) <=> r.type = "MAC"
  BY Registers
<1>3. b \notin {<<Bank2, 23>>, <<Bank2, 18>>}
  BY <1>2 DEF MiiBytes
<1>4. r = ECON1 => b = <<Common, 31>>
  BY DEF ECON1, Reg
<1>5. cnt \in Bytes(EPKTCNT)
  BY DEF cnt, Bytes, EPKTCNT, Reg
<1> HIDE DEF b
<1>6. /\ regs' \in [RegBytes -> Int] /\ mii' = mii
      /\ \A c \in RegBytes :
           c # b /\ (b = <<Common, 30>> => c # cnt) => regs'[c] = regs[c]
      /\ b # <<Common, 30>> => regs'[b] = v
      /\ b # <<Common, 31>> => econ1' = econ1
  BY <1>1, <1>2, <1>3, Wrote
<1>7. BSEL' = BSEL
  <2>1. CASE r = ECON1
    BY <1>4, <1>6, <2>1 DEF BSEL, econ1, Common
  <2>2. CASE r # ECON1
    BY <1>2, <1>6, <2>2 DEF BSEL
  <2> QED
    BY <2>1, <2>2
<1>8. \A c \in RegBytes \ S : regs'[c] = regs[c]
  BY <1>2, <1>5, <1>6
<1>9. <<Common, 31>> \notin S => econ1' = econ1
  BY <1>2, <1>6
<1>10. Kept(S)
  <2> HIDE DEF S
  <2> QED
    BY <1>7, <1>8, <1>9, KeptIs
<1> QED
  BY <1>2, <1>6, <1>7, <1>10

-----------------------------------------------------------------------------
(* The transactions of a call.                                             *)

\* The last transaction of a read gives the value of the register.
ReadTrue ==
  call.kind = "read" /\ Len(todo) = 1 /\ todo' = <<>> => ret' = ValueOf(call.reg)

\* A step that is made of a call.
Good == BusInv' /\ Kept(Targets(call)) /\ ReadTrue

\* The fields of a call.
LEMMA CallIs ==
  ASSUME NEW c, IsCall(c)
  PROVE  /\ c = Reset <=> c.kind = "reset"
         /\ c # Reset => /\ c.kind \in {"read", "write", "bfs", "bfc"}
                         /\ IsRegister(c.reg)
                         /\ c.kind = "read" => c = Read(c.reg)
                         /\ c.kind = "write" => c.value \in 0..2^16 - 1
                         /\ c.kind \in {"bfs", "bfc"} =>
                              c.value \in Masks(c.reg)
<1>1. Reset.kind = "reset"
  BY DEF Reset
<1> QED
  BY <1>1 DEF IsCall

\* The controller is reset in Bank0, or when the driver has no bank.
LEMMA ResetStep ==
  ASSUME BusInv, Resetting, RegisterTransaction
  PROVE  Good
<1>1. Head(todo) = [op |-> "reset"] /\ Tail(todo) = <<>> /\ todo # <<>>
  BY DEF Resetting
<1>2. SoftReset
  BY <1>1, Taken
<1>3. /\ todo' = <<>> /\ mii' = "idle"
      /\ regs' = [byte \in RegBytes |-> ResetValue(byte)]
      /\ phy' = [r \in PhyRegs |-> 0]
      /\ UNCHANGED <<clkrdy, bank, call, tmp, ret>>
  BY <1>1, <1>2 DEF SoftReset, Pop
<1>4. \A byte \in RegBytes : ResetValue(byte) \in Int
  BY DEF ResetValue, AUTOINC
<1>5. TypeOK'
  BY <1>3, <1>4 DEF BusInv, TypeOK
<1>6. econ1' = 0 /\ BSEL' = 0
  <2>1. <<Common, 31>> \in RegBytes /\ ResetValue(<<Common, 31>>) = 0
    BY DEF RegBytes, ResetValue, Common, Bank0, Bank1, Bank2, Bank3
  <2>2. econ1' = 0
    BY <1>3, <2>1 DEF econ1
  <2> QED
    BY <2>2 DEF BSEL
<1>7. BankShadow'
  BY <1>3, <1>6 DEF BankShadow, Resetting, Bank0
<1>8. Rested' /\ NotSending'
  BY <1>3 DEF Rested, NotSending
<1>9. call.kind = "reset"
  BY DEF Resetting, Reset
<1>10. Kept(Targets(call)) /\ ReadTrue
  BY <1>9 DEF Kept, Targets, ReadTrue
<1> QED
  BY <1>5, <1>7, <1>8, <1>10 DEF Good, BusInv

\* What is left of the call that is under way.
LEMMA PlainHead ==
  ASSUME TypeOK, NEW k \in 0..PlainSize(call) - 1, PlainAt(k)
  PROVE  LET p == PlainPlan(call)
             n == PlainSize(call)
         IN  /\ todo # <<>> /\ Head(todo) = p[k + 1] /\ Len(todo) = n - k
             /\ Tail(todo) = IF k + 1 = n THEN <<>> ELSE Rest(p, n, k + 1)
             /\ n \in {3, 4} /\ (n = 4 <=> TwoBytes(call))
<1> DEFINE p == PlainPlan(call)
           n == PlainSize(call)
<1>1. n \in {3, 4} /\ (n = 4 <=> TwoBytes(call))
  BY DEF PlainSize
<1>2. todo = Rest(p, n, k)
  BY DEF PlainAt
<1> HIDE DEF p, n
<1>3. /\ Len(todo) = n - k /\ Rest(p, n, n) = <<>>
      /\ todo # <<>> /\ Head(todo) = p[k + 1] /\ Tail(todo) = Rest(p, n, k + 1)
  <2>1. k \in 0..n /\ n \in Nat /\ k < n
    BY <1>1 DEF n
  <2> QED
    BY <1>2, <2>1, RestIs
<1> QED
  BY <1>1, <1>3 DEF p, n

\* The bank is changed.
LEMMA PlainSelects ==
  ASSUME BusInv, Plain, RegisterTransaction, NEW k \in 0..1,
         PlainAt(k)
  PROVE  Good
<1>1. /\ todo # <<>> /\ Head(todo) = PlainPlan(call)[k + 1]
      /\ Tail(todo) = Rest(PlainPlan(call), PlainSize(call), k + 1)
      /\ k + 1 \in 0..PlainSize(call) - 1
      /\ Len(todo) # 1
  <2>1. PlainSize(call) \in {3, 4} /\ TypeOK
    BY DEF PlainSize, BusInv
  <2>2. k \in 0..PlainSize(call) - 1
    BY <2>1
  <2>3. /\ todo # <<>> /\ Head(todo) = PlainPlan(call)[k + 1]
        /\ Len(todo) = PlainSize(call) - k
        /\ Tail(todo) = IF k + 1 = PlainSize(call) THEN <<>>
                        ELSE Rest(PlainPlan(call), PlainSize(call), k + 1)
    BY <2>1, <2>2, PlainHead
  <2>4. k + 1 < PlainSize(call)
    BY <2>1
  <2> QED
    BY <2>1, <2>3, <2>4
<1>2. /\ TypeOK /\ BankShadow /\ NotSending
      /\ call # Reset /\ IsRegister(call.reg) /\ call.reg.type \in {"ETH", "MAC"}
      /\ call.reg.type = "MAC" => call.kind \in {"read", "write"} /\ clkrdy
      /\ mii = "idle"
  <2>1. TypeOK /\ BankShadow /\ NotSending /\ IsCall(call)
    BY DEF BusInv, TypeOK
  <2>2. /\ call # Reset /\ call.reg.type \in {"ETH", "MAC"}
        /\ call.reg.type = "MAC" => call.kind \in {"read", "write"} /\ clkrdy
        /\ mii = "idle"
    BY DEF Plain
  <2> QED
    BY <2>1, <2>2, CallIs
<1>3. call.reg.bank \in 0..3
  BY <1>2 DEF PlainAt, IsRegister, Bank0, Bank3
<1>4. CASE k = 0
  <2>1. Head(todo) = [op |-> "sel_read"]
    BY <1>1, <1>4 DEF PlainPlan
  <2>2. SelRead
    BY <1>1, <2>1, Taken
  <2>3. /\ tmp' = econ1 /\ todo' = Rest(PlainPlan(call), PlainSize(call), 1)
        /\ UNCHANGED <<regs, phy, mii, clkrdy, bank, call, ret>>
    <3>1. tmp' = ByteAt(ECON1.addr, FALSE) /\ todo' = Tail(todo)
      BY <2>2 DEF SelRead, Pop
    <3>2. UNCHANGED <<regs, phy, mii, clkrdy, bank, call, ret>>
      BY <2>2 DEF SelRead, chipVars
    <3>3. ByteAt(ECON1.addr, FALSE) = econ1
      BY <1>2, SelReads
    <3>4. k + 1 = 1
      BY <1>4
    <3> QED
      BY <1>1, <3>1, <3>2, <3>3, <3>4
  <2>4. econ1' = econ1 /\ BSEL' = BSEL /\ econ1 \in Int
    BY <1>2, <2>3, SelReads DEF econ1, BSEL
  <2>5. TypeOK'
    BY <1>2, <2>3, <2>4 DEF TypeOK
  <2>6. BankShadow' /\ NotSending'
    BY <1>1, <1>2, <2>3, <2>4 DEF BankShadow, NotSending
  <2>7. PlainAt(1)'
    BY <1>4, <2>3, <2>4 DEF PlainAt
  <2>8. Plain'
    BY <1>1, <1>2, <1>4, <2>3, <2>7 DEF Plain
  <2>9. Kept(Targets(call))
    BY <2>3 DEF Kept, Flat, econ1, BSEL
  <2>10. ReadTrue
    BY <1>1 DEF ReadTrue
  <2> QED
    BY <2>5, <2>6, <2>8, <2>9, <2>10 DEF Good, BusInv
<1>5. CASE k = 1
  <2>1. Head(todo) = [op |-> "sel_write", bank |-> call.reg.bank]
    BY <1>1, <1>5 DEF PlainPlan
  <2>2. SelWrite
    BY <1>1, <2>1, Taken
  <2>3. /\ todo' = Rest(PlainPlan(call), PlainSize(call), 2)
        /\ UNCHANGED <<phy, clkrdy, call, tmp, ret>>
    BY <1>1, <1>5, <2>2 DEF SelWrite, Pop
  <2>4. tmp = econ1
    BY <1>5 DEF PlainAt
  <2>5. /\ regs' \in [RegBytes -> Int]
        /\ bank' = call.reg.bank /\ BSEL' = call.reg.bank /\ mii' = mii
        /\ HasBit(econ1', TXRTS) <=> HasBit(econ1, TXRTS)
        /\ Kept(Targets(call))
    BY <1>2, <1>3, <2>1, <2>2, <2>4, SelDone
  <2>6. TypeOK'
    BY <1>2, <1>3, <2>3, <2>5 DEF TypeOK
  <2>7. BankShadow' /\ NotSending'
    BY <1>1, <1>2, <2>3, <2>5 DEF BankShadow, NotSending
  <2>8. PlainAt(2)'
    <3>1. call.reg # ECON1
      BY <1>3 DEF ECON1, Reg, Common
    <3>2. call.kind = "read" => ret = 0
      BY <1>5 DEF PlainAt
    <3> QED
      BY <2>3, <2>5, <3>1, <3>2 DEF PlainAt
  <2>9. Plain'
    BY <1>1, <1>2, <1>5, <2>3, <2>5, <2>8 DEF Plain
  <2>10. ReadTrue
    BY <1>1 DEF ReadTrue
  <2> QED
    BY <2>5, <2>6, <2>7, <2>9, <2>10 DEF Good, BusInv
<1> QED
  BY <1>4, <1>5

\* The bank is right; the next byte of the register is at hand.
LEMMA PlainFacts ==
  ASSUME BusInv, Plain, NEW k \in 2..PlainSize(call) - 1, PlainAt(k)
  PROVE  /\ TypeOK /\ BankShadow /\ NotSending
         /\ call # Reset /\ IsRegister(call.reg)
         /\ call.reg.type \in {"ETH", "MAC"} /\ call.kind # "reset"
         /\ call.reg.type = "MAC" => call.kind \in {"read", "write"} /\ clkrdy
         /\ mii = "idle" /\ call.reg.bank \in {Common, BSEL}
         /\ k \in {2, 3} /\ call.reg.addr \in Int /\ call.reg.length \in 1..2
         /\ call.reg.addr + k - 2 \in call.reg.addr..call.reg.addr + call.reg.length - 1
         /\ todo # <<>> /\ Head(todo) = PlainPlan(call)[k + 1]
         /\ Len(todo) = PlainSize(call) - k
         /\ Tail(todo) = IF k + 1 = PlainSize(call) THEN <<>>
                         ELSE Rest(PlainPlan(call), PlainSize(call), k + 1)
         /\ k + 1 # PlainSize(call) =>
              k = 2 /\ PlainSize(call) = 4 /\ call.reg.length = 2
         /\ k = 3 => PlainSize(call) = 4 /\ call.reg.length = 2
<1>1. TypeOK /\ BankShadow /\ NotSending /\ IsCall(call)
  BY DEF BusInv, TypeOK
<1>2. /\ call # Reset /\ call.reg.type \in {"ETH", "MAC"}
      /\ call.reg.type = "MAC" => call.kind \in {"read", "write"} /\ clkrdy
      /\ mii = "idle"
  BY DEF Plain
<1>3. IsRegister(call.reg) /\ call.kind # "reset"
  BY <1>1, <1>2, CallIs
<1>4. PlainSize(call) \in {3, 4} /\ (PlainSize(call) = 4 => call.reg.length = 2)
  BY DEF PlainSize, TwoBytes
<1>5. k \in 0..PlainSize(call) - 1 /\ k \in {2, 3} /\ (k = 3 => PlainSize(call) = 4)
  BY <1>4
<1>6. /\ todo # <<>> /\ Head(todo) = PlainPlan(call)[k + 1]
      /\ Len(todo) = PlainSize(call) - k
      /\ Tail(todo) = IF k + 1 = PlainSize(call) THEN <<>>
                      ELSE Rest(PlainPlan(call), PlainSize(call), k + 1)
  BY <1>1, <1>5, PlainHead
<1>7. call.reg.addr \in Int /\ call.reg.length \in 1..2
  BY <1>2, <1>3 DEF IsRegister
<1>8. call.reg.addr + k - 2 \in call.reg.addr..call.reg.addr + call.reg.length - 1
  BY <1>4, <1>5, <1>7
<1>9. call.reg.bank \in {Common, BSEL}
  BY <1>5 DEF PlainAt
<1> QED
  BY <1>1, <1>2, <1>3, <1>4, <1>5, <1>6, <1>7, <1>8, <1>9

\* After it another byte follows, or nothing.
LEMMA PlainGoesOn ==
  ASSUME BusInv, Plain, NEW k \in 2..PlainSize(call) - 1, PlainAt(k),
         todo' = Tail(todo), UNCHANGED <<phy, mii, clkrdy, bank, call>>,
         regs' \in [RegBytes -> Int], BSEL' = BSEL, tmp' \in Int, ret' \in Int,
         call.reg # ECON1 => econ1' = econ1,
         call.kind = "read" /\ k + 1 # PlainSize(call) =>
           ret' = regs'[<<call.reg.bank, call.reg.addr>>]
  PROVE  BusInv'
<1>1. /\ TypeOK /\ BankShadow /\ NotSending /\ call # Reset /\ mii = "idle"
      /\ call.reg.type \in {"ETH", "MAC"} /\ todo # <<>>
      /\ call.reg.type = "MAC" => call.kind \in {"read", "write"} /\ clkrdy
      /\ call.reg.bank \in {Common, BSEL} /\ k \in {2, 3}
      /\ Tail(todo) = IF k + 1 = PlainSize(call) THEN <<>>
                      ELSE Rest(PlainPlan(call), PlainSize(call), k + 1)
      /\ k + 1 # PlainSize(call) =>
           k = 2 /\ PlainSize(call) = 4 /\ call.reg.length = 2
  BY PlainFacts
<1>2. TypeOK' /\ BankShadow'
  BY <1>1 DEF TypeOK, BankShadow
<1>3. CASE k + 1 = PlainSize(call)
  BY <1>1, <1>2, <1>3 DEF Rested, NotSending, BusInv
<1>4. CASE k + 1 # PlainSize(call)
  <2>1. todo' = Rest(PlainPlan(call), PlainSize(call), 3) /\ PlainSize(call) = 4
    BY <1>1, <1>4
  <2>2. call.reg # ECON1
    BY <1>1, <1>4 DEF ECON1, Reg
  <2>3. NotSending'
    BY <1>1, <2>2 DEF NotSending
  <2>4. PlainAt(3)'
    BY <1>1, <1>4, <2>1, <2>2 DEF PlainAt
  <2>5. Plain'
    BY <1>1, <2>1, <2>4 DEF Plain
  <2> QED
    BY <1>2, <2>3, <2>5 DEF BusInv
<1> QED
  BY <1>3, <1>4

\* A register is written.
LEMMA PlainWrites ==
  ASSUME BusInv, Plain, RegisterTransaction, call.kind = "write",
         NEW k \in 2..PlainSize(call) - 1, PlainAt(k)
  PROVE  Good
<1> DEFINE r == call.reg
           a == r.addr + k - 2
           v == IF k = 2 THEN Low(call.value) ELSE High(call.value)
<1>1. /\ TypeOK /\ BankShadow /\ NotSending /\ call # Reset /\ IsRegister(r)
      /\ r.type \in {"ETH", "MAC"} /\ (r.type = "MAC" => clkrdy)
      /\ r.bank \in {Common, BSEL} /\ r.addr \in Int
      /\ k \in {2, 3} /\ a \in r.addr..r.addr + r.length - 1
      /\ todo # <<>> /\ Head(todo) = PlainPlan(call)[k + 1]
      /\ k = 3 => r.length = 2
  BY PlainFacts
<1>2. call.value \in Nat
  BY <1>1, CallIs DEF TypeOK
<1>3. Head(todo) = WcrOp(a, v)
  BY <1>1 DEF PlainPlan
<1>4. v \in Int /\ (r = ECON1 => v % 4 = BSEL)
  <2>1. v \in Int
    BY <1>2 DEF Low, High
  <2>2. ASSUME r = ECON1 PROVE v % 4 = BSEL
    <3>1. k = 2 /\ call.value % 4 = BSEL
      BY <1>1, <2>2 DEF PlainAt, ECON1, Reg
    <3>2. (call.value % 256) % 4 = call.value % 4
      BY <1>2
    <3> QED
      BY <3>1, <3>2 DEF Low
  <2> QED
    BY <2>1, <2>2
<1> HIDE DEF a, v
<1>5. ControlWrite
  BY <1>1, <1>3, Taken DEF WcrOp
<1>6. /\ WriteByte(a, v) /\ todo' = Tail(todo)
      /\ UNCHANGED <<phy, clkrdy, bank, call, tmp, ret>>
  BY <1>3, <1>5 DEF ControlWrite, Pop, WcrOp
<1>7. /\ regs' \in [RegBytes -> Int] /\ mii' = mii /\ BSEL' = BSEL
      /\ r # ECON1 => econ1' = econ1
      /\ Kept(Bytes(r) \union (IF r = ECON2 THEN Bytes(EPKTCNT) ELSE {}))
  BY <1>1, <1>4, <1>6, PlainWrote
<1>8. tmp' \in Int /\ ret' \in Int
  BY <1>1, <1>6 DEF TypeOK
<1>9. BusInv'
  BY <1>6, <1>7, <1>8, PlainGoesOn
<1>10. Kept(Targets(call)) /\ ReadTrue
  BY <1>1, <1>7 DEF Targets, ReadTrue
<1> QED
  BY <1>9, <1>10 DEF Good

\* A register is read.
LEMMA PlainReadsStep ==
  ASSUME BusInv, Plain, RegisterTransaction, call.kind = "read",
         NEW k \in 2..PlainSize(call) - 1, PlainAt(k)
  PROVE  Good
<1> DEFINE r == call.reg
           a == r.addr + k - 2
           part == IF k = 2 THEN 1 ELSE 256
           byte == ByteAt(a, DummyFirst(r))
<1>1. /\ TypeOK /\ call # Reset /\ IsRegister(r) /\ mii = "idle"
      /\ r.type \in {"ETH", "MAC"}
      /\ r.bank \in {Common, BSEL} /\ r.addr \in Int /\ r.length \in 1..2
      /\ k \in {2, 3} /\ a \in r.addr..r.addr + r.length - 1
      /\ todo # <<>> /\ Head(todo) = PlainPlan(call)[k + 1]
      /\ Len(todo) = PlainSize(call) - k
      /\ k + 1 # PlainSize(call) => k = 2 /\ r.length = 2
      /\ k = 3 => r.length = 2
  BY PlainFacts
<1>2. Head(todo) = RcrOp(a, DummyFirst(r), part)
  <2>1. CASE k = 2
    <3>1. Head(todo) = RcrOp(r.addr, DummyFirst(r), 1)
      BY <1>1, <2>1 DEF PlainPlan
    <3>2. a = r.addr
      BY <1>1, <2>1
    <3> QED
      BY <2>1, <3>1, <3>2
  <2>2. CASE k = 3
    <3>1. Head(todo) = RcrOp(r.addr + 1, DummyFirst(r), 256)
      BY <1>1, <2>2 DEF PlainPlan
    <3>2. a = r.addr + 1
      BY <1>1, <2>2
    <3> QED
      BY <2>2, <3>1, <3>2
  <2> QED
    BY <1>1, <2>1, <2>2
<1>3. /\ r # ESTAT => byte = regs[<<r.bank, a>>]
      /\ r = ESTAT => byte = IF clkrdy THEN 1 ELSE 0
      /\ regs[<<r.bank, a>>] \in Int /\ byte \in Int
  BY <1>1, PlainReads
<1>4. ret = IF k = 3 THEN regs[<<r.bank, r.addr>>] ELSE 0
  BY DEF PlainAt
<1>5. k = 2 => a = r.addr
  BY <1>1
<1>6. k = 3 => a = r.addr + 1
  BY <1>1
<1>7. r.length = 2 => r # ESTAT
  BY DEF ESTAT, Reg
<1>8. r # MISTAT
  BY <1>1 DEF MISTAT, Reg
<1> HIDE DEF a, part, byte
<1>9. ControlRead
  BY <1>1, <1>2, Taken DEF RcrOp
<1>10. /\ ret' = ret + part * byte /\ todo' = Tail(todo)
       /\ UNCHANGED <<regs, phy, mii, clkrdy, bank, call, tmp>>
  BY <1>2, <1>9 DEF ControlRead, Pop, RcrOp, chipVars, byte
<1>11. /\ k = 2 => ret' = byte
       /\ k = 3 => ret' = regs[<<r.bank, r.addr>>] + 256 * regs[<<r.bank, r.addr + 1>>]
  <2>1. k = 2 => ret' = byte
    BY <1>3, <1>4, <1>10 DEF part
  <2>2. ASSUME k = 3
        PROVE  ret' = regs[<<r.bank, r.addr>>] + 256 * regs[<<r.bank, r.addr + 1>>]
    <3>1. byte = regs[<<r.bank, r.addr + 1>>]
      BY <1>1, <1>3, <1>6, <1>7, <2>2
    <3> QED
      BY <1>4, <1>10, <2>2, <3>1 DEF part
  <2> QED
    BY <2>1, <2>2
<1>12. ret' \in Int
  BY <1>1, <1>3, <1>10 DEF part, TypeOK
<1>13. BusInv'
  <2>1. BSEL' = BSEL /\ econ1' = econ1 /\ regs' \in [RegBytes -> Int] /\ tmp' \in Int
    BY <1>1, <1>10 DEF BSEL, econ1, TypeOK
  <2>2. k + 1 # PlainSize(call) => ret' = regs'[<<r.bank, r.addr>>]
    BY <1>1, <1>3, <1>5, <1>7, <1>10, <1>11
  <2> QED
    BY <1>10, <1>12, <2>1, <2>2, PlainGoesOn
<1>14. ReadTrue
  <2> SUFFICES ASSUME Len(todo) = 1 PROVE ret' = ValueOf(r)
    BY DEF ReadTrue
  <2>1. k + 1 = PlainSize(call)
    <3>1. PlainSize(call) \in Int
      BY DEF PlainSize
    <3> QED
      BY <1>1, <3>1
  <2>2. k = 3 <=> r.length = 2
    BY <1>1, <2>1 DEF PlainSize, TwoBytes
  <2>3. CASE r = ESTAT
    <3>1. ret' = IF clkrdy THEN 1 ELSE 0
      BY <1>1, <1>3, <1>7, <1>11, <2>2, <2>3
    <3>2. ValueOf(r) = IF clkrdy THEN CLKRDY ELSE 0
      <4>1. ESTAT.type # "PHY" /\ ESTAT # MISTAT /\ ESTAT.length # 2
        BY DEF ESTAT, MISTAT, Reg
      <4> QED
        BY <2>3, <4>1 DEF ValueOf
    <3> QED
      BY <3>1, <3>2 DEF CLKRDY
  <2>4. CASE r # ESTAT /\ r.length = 2
    BY <1>1, <1>8, <1>11, <2>2, <2>4 DEF ValueOf, Pointer
  <2>5. CASE r # ESTAT /\ r.length # 2
    <3>1. ret' = regs[<<r.bank, r.addr>>]
      BY <1>1, <1>3, <1>5, <1>11, <2>2, <2>5
    <3> QED
      BY <1>1, <1>8, <2>5, <3>1 DEF ValueOf
  <2> QED
    BY <2>3, <2>4, <2>5
<1>15. Kept(Targets(call))
  BY <1>10 DEF Kept, Flat, econ1, BSEL
<1> QED
  BY <1>13, <1>14, <1>15 DEF Good

\* The mask of a bit field leaves the bank select bits alone.
LEMMA BitsKept ==
  ASSUME NEW v \in Int, NEW m \in {4, 8, 16, 32, 64, 128}
  PROVE  SetBit(v, m) % 4 = v % 4 /\ ClearBit(v, m) % 4 = v % 4
<1>1. (v + m) % 4 = v % 4 /\ (v - m) % 4 = v % 4
  <2>1. CASE m = 4
    BY <2>1
  <2>2. CASE m = 8
    BY <2>2
  <2>3. CASE m = 16
    BY <2>3
  <2>4. CASE m = 32
    BY <2>4
  <2>5. CASE m = 64
    BY <2>5
  <2>6. CASE m = 128
    BY <2>6
  <2> QED
    BY <2>1, <2>2, <2>3, <2>4, <2>5, <2>6
<1> QED
  BY <1>1 DEF SetBit, ClearBit

\* Bits of a register are set or cleared.
LEMMA PlainBits ==
  ASSUME BusInv, Plain, RegisterTransaction, call.kind \in {"bfs", "bfc"},
         NEW k \in 2..PlainSize(call) - 1, PlainAt(k)
  PROVE  Good
<1> DEFINE r == call.reg
           a == r.addr
           m == call.value
           old == ByteAt(a, FALSE)
           v == IF call.kind = "bfs" THEN SetBit(old, m) ELSE ClearBit(old, m)
<1>1. /\ TypeOK /\ call # Reset /\ IsRegister(r)
      /\ r.type \in {"ETH", "MAC"}
      /\ r.type = "MAC" => call.kind \in {"read", "write"} /\ clkrdy
      /\ r.bank \in {Common, BSEL} /\ r.addr \in Int /\ r.length \in 1..2
      /\ k \in {2, 3}
      /\ todo # <<>> /\ Head(todo) = PlainPlan(call)[k + 1]
      /\ k + 1 # PlainSize(call) => k = 2 /\ PlainSize(call) = 4
      /\ k = 3 => PlainSize(call) = 4
  BY PlainFacts
<1>2. k = 2 /\ PlainSize(call) = 3 /\ r.type = "ETH" /\ ~DummyFirst(r)
  BY <1>1 DEF PlainSize, TwoBytes, DummyFirst
<1>3. Head(todo) = [op |-> call.kind, addr |-> a, mask |-> m]
  BY <1>1, <1>2 DEF PlainPlan
<1>4. m \in Masks(r)
  BY <1>1, CallIs DEF TypeOK
<1>5. a \in r.addr..r.addr + r.length - 1
  BY <1>1
<1>6. /\ r # ESTAT => old = regs[<<r.bank, a>>]
      /\ old \in Int
  <2>1. DummyFirst(r) = FALSE
    BY <1>2 DEF DummyFirst
  <2>2. /\ r # ESTAT => ByteAt(a, DummyFirst(r)) = regs[<<r.bank, a>>]
        /\ ByteAt(a, DummyFirst(r)) \in Int
    BY <1>1, <1>5, PlainReads
  <2> QED
    BY <2>1, <2>2
<1>7. v \in Int
  <2>1. m \in Int
    BY <1>4 DEF Masks
  <2> HIDE DEF old, m
  <2> QED
    BY <1>6, <2>1 DEF SetBit, ClearBit
<1>8. r = ECON1 => v % 4 = BSEL
  <2> SUFFICES ASSUME r = ECON1 PROVE v % 4 = BSEL
    OBVIOUS
  <2>1. m \in {4, 8, 16, 32, 64, 128}
    BY <1>4 DEF Masks
  <2>2. old = econ1
    <3>1. r # ESTAT /\ r.bank = Common /\ r.addr = 31
      BY DEF ECON1, ESTAT, Reg
    <3> QED
      BY <1>6, <3>1 DEF econ1
  <2> HIDE DEF old, m
  <2> QED
    BY <1>6, <2>1, <2>2, BitsKept DEF BSEL
<1>9. BitFieldOp
  BY <1>1, <1>3, Taken
<1>10. /\ WriteByte(a, v) /\ todo' = Tail(todo)
       /\ UNCHANGED <<phy, clkrdy, bank, call, tmp, ret>>
  <2> DEFINE h == Head(todo)
  <2>1. h.op = call.kind /\ h.addr = a /\ h.mask = m
    BY <1>3
  <2>2. WriteByte(h.addr, IF h.op = "bfs" THEN SetBit(ByteAt(h.addr, FALSE), h.mask)
                          ELSE ClearBit(ByteAt(h.addr, FALSE), h.mask))
    BY <1>9 DEF BitFieldOp
  <2>3. todo' = Tail(todo) /\ UNCHANGED <<phy, clkrdy, bank, call, tmp, ret>>
    BY <1>9 DEF BitFieldOp, Pop
  <2> QED
    BY <2>1, <2>2, <2>3
<1> HIDE DEF a, v
<1>11. /\ regs' \in [RegBytes -> Int] /\ mii' = mii /\ BSEL' = BSEL
       /\ r # ECON1 => econ1' = econ1
       /\ Kept(Bytes(r) \union (IF r = ECON2 THEN Bytes(EPKTCNT) ELSE {}))
  BY <1>1, <1>2, <1>5, <1>7, <1>8, <1>10, PlainWrote
<1>12. BusInv'
  BY <1>1, <1>2, <1>10, <1>11, PlainGoesOn DEF TypeOK
<1>13. Kept(Targets(call)) /\ ReadTrue
  BY <1>1, <1>11 DEF Targets, ReadTrue
<1> QED
  BY <1>12, <1>13 DEF Good

\* A transaction for a register that is not of the PHY.
LEMMA PlainStep ==
  ASSUME BusInv, Plain, RegisterTransaction
  PROVE  Good
<1>1. PICK k \in 0..PlainSize(call) - 1 : PlainAt(k)
  BY DEF Plain
<1>2. call.kind \in {"read", "write", "bfs", "bfc"}
  BY CallIs DEF BusInv, TypeOK, Plain
<1>3. PlainSize(call) \in Int
  BY DEF PlainSize
<1>4. k \in 0..1 \/ k \in 2..PlainSize(call) - 1
  BY <1>3
<1> QED
  BY <1>1, <1>2, <1>4, PlainSelects, PlainWrites, PlainReadsStep, PlainBits

-----------------------------------------------------------------------------
(* The MII registers.                                                      *)

\* In Bank2 an address stands for a MAC or MII register.
LEMMA MiiRead ==
  ASSUME TypeOK, BSEL = 2, NEW a \in 0..26
  PROVE  /\ Located(a) = <<2, a>> /\ IsMacMii(<<2, a>>) /\ <<2, a>> \in RegBytes
         /\ ByteAt(a, TRUE) = regs[<<2, a>>] /\ regs[<<2, a>>] \in Int
<1>1. Located(a) = <<2, a>>
  BY DEF Located
<1>2. IsMacMii(<<2, a>>) /\ <<2, a>> \in RegBytes
  BY DEF IsMacMii, Bank2, RegBytes, Bank0, Bank3
<1>3. <<2, a>> # <<Common, 29>> /\ <<2, a>> # <<Bank3, 10>>
  BY DEF Common, Bank3
<1> QED
  BY <1>1, <1>2, <1>3 DEF ByteAt, TypeOK

MiiTargets == Bytes(MICMD) \union Bytes(MIREGADR) \union Bytes(MIWRL)

\* A MII register is written.
LEMMA MiiWrote ==
  ASSUME TypeOK, BSEL = 2, clkrdy, NEW a \in {18, 20, 22, 23}, NEW v \in Int,
         WriteByte(a, v)
  PROVE  /\ regs' \in [RegBytes -> Int] /\ mii' \in {"idle", "write", "read"}
         /\ regs'[<<2, a>>] = v
         /\ \A b \in 0..26 : b # a => regs'[<<2, b>>] = regs[<<2, b>>]
         /\ econ1' = econ1 /\ BSEL' = BSEL
         /\ a \in {20, 22} => mii' = mii
         /\ a = 23 => mii' \in {mii, "write"}
         /\ a = 18 => mii' = IF HasBit(v, MIIRD) THEN "read" ELSE mii
         /\ Kept(MiiTargets)
<1> DEFINE byte == <<2, a>>
<1>1. /\ a \in 0..26 /\ a \in 0..31
      /\ Located(a) = byte /\ IsMacMii(byte) /\ byte \in RegBytes
  <2>1. a \in 0..26 /\ a \in 0..31
    OBVIOUS
  <2> QED
    BY <2>1, MiiRead
<1>2. /\ byte # <<Common, 30>> /\ byte # <<Common, 31>>
      /\ byte = <<Bank2, 23>> <=> a = 23
      /\ byte = <<Bank2, 18>> <=> a = 18
  BY DEF Common, Bank2
<1>3. \A b \in 0..26 : b # a => <<2, b>> # byte /\ <<2, b>> \in RegBytes
  BY DEF RegBytes, Bank0, Bank3
<1>4. byte \in MiiTargets
  BY DEF MiiTargets, Bytes, MICMD, MIREGADR, MIWRL, Reg, Bank2
<1> HIDE DEF byte
<1>5. /\ regs' \in [RegBytes -> Int] /\ mii' \in {"idle", "write", "read"}
      /\ \A b \in RegBytes : b # byte => regs'[b] = regs[b]
      /\ regs'[byte] = v
      /\ byte \notin {<<Bank2, 23>>, <<Bank2, 18>>} => mii' = mii
      /\ byte = <<Bank2, 23>> => mii' \in {mii, "write"}
      /\ byte = <<Bank2, 18>> =>
           IF HasBit(v, MIIRD) /\ clkrdy THEN mii' = "read" ELSE mii' = mii
      /\ econ1' = econ1
  <2>1. PICK addr \in 0..31 : addr = a
    BY <1>1
  <2> QED
    BY <1>1, <1>2, <2>1, Wrote
<1>6. BSEL' = BSEL
  BY <1>5 DEF BSEL
<1>7. Kept(MiiTargets)
  <2>1. \A b \in RegBytes \ MiiTargets : regs'[b] = regs[b]
    BY <1>4, <1>5
  <2> QED
    BY <1>5, <1>6, <2>1, KeptIs
<1>8. /\ a \in {20, 22} => mii' = mii
      /\ a = 23 => mii' \in {mii, "write"}
      /\ a = 18 => mii' = IF HasBit(v, MIIRD) THEN "read" ELSE mii
  BY <1>2, <1>5
<1>9. \A b \in 0..26 : b # a => regs'[<<2, b>>] = regs[<<2, b>>]
  BY <1>3, <1>5
<1>10. regs'[<<2, a>>] = v
  BY <1>5 DEF byte
<1> QED
  BY <1>5, <1>6, <1>7, <1>8, <1>9, <1>10

\* MIIRD is set and cleared.
LEMMA ReadBit ==
  ASSUME NEW v \in Int
  PROVE  /\ SetBit(v, MIIRD) \in Int /\ HasBit(SetBit(v, MIIRD), MIIRD)
         /\ ClearBit(v, MIIRD) \in Int /\ ~HasBit(ClearBit(v, MIIRD), MIIRD)
  BY DEF SetBit, ClearBit, HasBit, MIIRD

-----------------------------------------------------------------------------
(* A PHY register is read.                                                 *)

\* What is known within a read of a PHY register.
LEMMA PhyReadFacts ==
  ASSUME BusInv, PhyRead, NEW k \in 0..13, PhyReadAt(k)
  PROVE  /\ TypeOK /\ BankShadow /\ ~HasBit(econ1, TXRTS) /\ clkrdy
         /\ call # Reset /\ call.kind = "read" /\ call.reg.type = "PHY"
         /\ call.reg.addr \in PhyRegs /\ call # Read(ECON1)
         /\ phy[call.reg.addr] \in Int
         /\ todo # <<>> /\ Head(todo) = ReadPlan(call)[k + 1]
         /\ Len(todo) = 14 - k /\ Tail(todo) = Rest(ReadPlan(call), 14, k + 1)
         /\ Targets(call) = MiiTargets
<1>1. /\ TypeOK /\ BankShadow /\ NotSending /\ IsCall(call) /\ clkrdy
      /\ call # Reset /\ call.kind = "read" /\ call.reg.type = "PHY"
  BY DEF BusInv, PhyRead, TypeOK
<1>2. IsRegister(call.reg)
  BY <1>1, CallIs
<1>3. call.reg.addr \in PhyRegs
  BY <1>1, <1>2 DEF IsRegister
<1>4. phy[call.reg.addr] \in Int
  BY <1>1, <1>3 DEF TypeOK
<1>5. call # Read(ECON1)
  BY <1>1 DEF Read, ECON1, Reg
<1> DEFINE p == ReadPlan(call)
<1>6. todo = Rest(p, 14, k)
  BY DEF PhyReadAt
<1> HIDE DEF p
<1>7. /\ todo # <<>> /\ Head(todo) = p[k + 1]
      /\ Len(todo) = 14 - k /\ Tail(todo) = Rest(p, 14, k + 1)
  <2>1. k \in 0..14 /\ 14 \in Nat /\ k < 14
    OBVIOUS
  <2>2. PICK n \in Nat : n = 14
    OBVIOUS
  <2>3. PICK r : r = Rest(p, n, k)
    OBVIOUS
  <2>4. /\ Len(r) = n - k /\ r # <<>> /\ Head(r) = p[k + 1]
        /\ Tail(r) = Rest(p, n, k + 1)
    BY <2>1, <2>2, <2>3, RestIs
  <2>5. todo = r
    BY <1>6, <2>2, <2>3
  <2> QED
    BY <2>2, <2>4, <2>5
<1>8. Targets(call) = MiiTargets
  BY <1>1 DEF Targets, MiiTargets
<1> QED
  BY <1>1, <1>3, <1>4, <1>5, <1>7, <1>8 DEF NotSending, p

\* The next transaction follows.
LEMMA PhyReadGoesOn ==
  ASSUME BusInv, PhyRead, NEW k \in 0..12, PhyReadAt(k),
         todo' = Tail(todo), UNCHANGED <<phy, clkrdy, call>>,
         regs' \in [RegBytes -> Int], bank' \in 0..4, tmp' \in Int, ret' \in Int,
         BankShadow', HasBit(econ1', TXRTS) <=> HasBit(econ1, TXRTS),
         PhyReadHas(k + 1)', Kept(Targets(call))
  PROVE  Good
<1>1. /\ TypeOK /\ ~HasBit(econ1, TXRTS) /\ clkrdy
      /\ call # Reset /\ call.kind = "read" /\ call.reg.type = "PHY"
      /\ Len(todo) = 14 - k /\ Tail(todo) = Rest(ReadPlan(call), 14, k + 1)
  <2>1. k \in 0..13
    OBVIOUS
  <2> QED
    BY <2>1, PhyReadFacts
<1>2. mii' \in {"idle", "write", "read"}
  BY DEF PhyReadHas
<1>3. TypeOK' /\ NotSending'
  BY <1>1, <1>2 DEF TypeOK, NotSending
<1>4. PhyRead'
  <2>1. k + 1 \in 0..13
    OBVIOUS
  <2>2. PhyReadAt(k + 1)'
    BY <1>1 DEF PhyReadAt
  <2> QED
    BY <1>1, <2>1, <2>2 DEF PhyRead
<1>5. ReadTrue
  <2>1. Len(todo) # 1
    BY <1>1
  <2> QED
    BY <2>1 DEF ReadTrue
<1> QED
  BY <1>3, <1>4, <1>5 DEF Good, BusInv

\* ECON1 is read.
LEMMA PhyReadSelRead ==
  ASSUME BusInv, PhyRead, RegisterTransaction, NEW k \in {0, 5, 8}, PhyReadAt(k)
  PROVE  Good
<1>1. k \in 0..13 /\ k \in 0..12
  OBVIOUS
<1>2. /\ TypeOK /\ BankShadow /\ todo # <<>>
      /\ Head(todo) = ReadPlan(call)[k + 1]
  BY <1>1, PhyReadFacts
<1>3. Head(todo) = [op |-> "sel_read"]
  BY <1>2 DEF ReadPlan
<1>4. SelRead
  BY <1>2, <1>3, Taken
<1>5. /\ tmp' = econ1 /\ todo' = Tail(todo) /\ econ1 \in Int
      /\ UNCHANGED <<regs, phy, mii, clkrdy, bank, call, ret>>
  <2>1. tmp' = ByteAt(ECON1.addr, FALSE) /\ todo' = Tail(todo)
    BY <1>4 DEF SelRead, Pop
  <2>2. UNCHANGED <<regs, phy, mii, clkrdy, bank, call, ret>>
    BY <1>4 DEF SelRead, chipVars
  <2> QED
    BY <1>2, <2>1, <2>2, SelReads
<1>6. econ1' = econ1 /\ BSEL' = BSEL
  BY <1>5 DEF econ1, BSEL
<1>7. PhyReadHas(k + 1)'
  BY <1>5, <1>6 DEF PhyReadAt, PhyReadHas
<1>8. Kept(Targets(call))
  BY <1>5 DEF Kept, Flat, econ1, BSEL
<1>9. /\ regs' \in [RegBytes -> Int] /\ bank' \in 0..4 /\ tmp' \in Int /\ ret' \in Int
      /\ BankShadow'
  BY <1>2, <1>5, <1>6 DEF TypeOK, BankShadow
<1> QED
  BY <1>1, <1>5, <1>6, <1>7, <1>8, <1>9, PhyReadGoesOn

\* A bank is selected.
LEMMA PhyReadSelWrite ==
  ASSUME BusInv, PhyRead, RegisterTransaction, NEW k \in {1, 6, 9}, PhyReadAt(k)
  PROVE  Good
<1> DEFINE bnk == IF k = 6 THEN 3 ELSE 2
<1>1. k \in 0..13 /\ k \in 0..12 /\ bnk \in 0..3
  OBVIOUS
<1>2. /\ TypeOK /\ BankShadow /\ todo # <<>>
      /\ Head(todo) = ReadPlan(call)[k + 1]
  BY <1>1, PhyReadFacts
<1>3. Head(todo) = [op |-> "sel_write", bank |-> bnk]
  BY <1>2 DEF ReadPlan
<1>4. SelWrite
  BY <1>2, <1>3, Taken
<1>5. todo' = Tail(todo) /\ UNCHANGED <<phy, clkrdy, call, tmp, ret>>
  BY <1>4 DEF SelWrite, Pop
<1>6. tmp = econ1
  BY DEF PhyReadAt, PhyReadHas
<1>7. /\ regs' \in [RegBytes -> Int]
      /\ bank' = bnk /\ BSEL' = bnk /\ mii' = mii
      /\ \A b \in RegBytes : b # <<Common, 31>> => regs'[b] = regs[b]
      /\ HasBit(econ1', TXRTS) <=> HasBit(econ1, TXRTS)
      /\ Kept(Targets(call))
  <2> HIDE DEF bnk
  <2> QED
    BY <1>1, <1>2, <1>3, <1>4, <1>6, SelDone
<1>8. \A a \in 0..26 : regs'[<<2, a>>] = regs[<<2, a>>]
  BY <1>7 DEF RegBytes, Common, Bank0, Bank3
<1>9. PhyReadHas(k + 1)'
  <2>1. PhyReadHas(k)
    BY DEF PhyReadAt
  <2>2. /\ regs'[<<2, 20>>] = regs[<<2, 20>>] /\ regs'[<<2, 24>>] = regs[<<2, 24>>]
        /\ regs'[<<2, 25>>] = regs[<<2, 25>>]
    BY <1>8
  <2> QED
    BY <1>5, <1>7, <2>1, <2>2 DEF PhyReadHas
<1>10. /\ bank' \in 0..4 /\ tmp' \in Int /\ ret' \in Int /\ BankShadow'
  BY <1>1, <1>2, <1>5, <1>7 DEF TypeOK, BankShadow
<1> HIDE DEF bnk
<1> QED
  BY <1>1, <1>5, <1>7, <1>9, <1>10, PhyReadGoesOn

\* MICMD is read.
LEMMA PhyReadMicmd ==
  ASSUME BusInv, PhyRead, RegisterTransaction, NEW k \in {2, 10}, PhyReadAt(k)
  PROVE  Good
<1>1. k \in 0..13 /\ k \in 0..12
  OBVIOUS
<1>2. /\ TypeOK /\ BankShadow /\ todo # <<>>
      /\ Head(todo) = ReadPlan(call)[k + 1]
  BY <1>1, PhyReadFacts
<1>3. Head(todo) = [op |-> "micmd_read"]
  BY <1>2 DEF ReadPlan
<1>4. MicmdRead
  BY <1>2, <1>3, Taken
<1>5. /\ tmp' = ByteAt(MICMD.addr, TRUE) /\ todo' = Tail(todo)
      /\ UNCHANGED <<regs, phy, mii, clkrdy, bank, call, ret>>
  BY <1>4 DEF MicmdRead, Pop, chipVars
<1>6. tmp' \in Int
  <2>1. PICK a \in 0..26 : a = 18
    OBVIOUS
  <2>2. BSEL = 2
    BY DEF PhyReadAt, PhyReadHas
  <2>3. ByteAt(a, TRUE) \in Int
    BY <1>2, <2>2, MiiRead
  <2>4. MICMD.addr = a
    BY <2>1 DEF MICMD, Reg
  <2> QED
    BY <1>5, <2>3, <2>4
<1>7. econ1' = econ1 /\ BSEL' = BSEL
  BY <1>5 DEF econ1, BSEL
<1>8. PhyReadHas(k + 1)'
  <2>1. CASE k = 2
    BY <1>5, <1>7, <2>1 DEF PhyReadAt, PhyReadHas
  <2>2. CASE k = 10
    BY <1>5, <1>7, <2>2 DEF PhyReadAt, PhyReadHas
  <2> QED
    BY <2>1, <2>2
<1>9. Kept(Targets(call))
  BY <1>5 DEF Kept, Flat, econ1, BSEL
<1>10. /\ regs' \in [RegBytes -> Int] /\ bank' \in 0..4 /\ ret' \in Int
       /\ BankShadow'
  BY <1>2, <1>5, <1>7 DEF TypeOK, BankShadow
<1> QED
  BY <1>1, <1>5, <1>6, <1>7, <1>8, <1>9, <1>10, PhyReadGoesOn

\* The number of the register goes to MIREGADR.
LEMMA PhyReadAddress ==
  ASSUME BusInv, PhyRead, RegisterTransaction, PhyReadAt(3)
  PROVE  Good
<1>1. PICK k \in 0..12 : k = 3
  OBVIOUS
<1>2. /\ TypeOK /\ BankShadow /\ todo # <<>> /\ clkrdy
      /\ Head(todo) = ReadPlan(call)[k + 1]
      /\ call.reg.addr \in PhyRegs /\ Targets(call) = MiiTargets
  <2>1. k \in 0..13 /\ PhyReadAt(k)
    BY <1>1
  <2> QED
    BY <2>1, PhyReadFacts
<1>3. Head(todo) = WcrOp(20, call.reg.addr)
  BY <1>1, <1>2 DEF ReadPlan
<1>4. ControlWrite
  BY <1>2, <1>3, Taken DEF WcrOp
<1>5. /\ WriteByte(20, call.reg.addr) /\ todo' = Tail(todo)
      /\ UNCHANGED <<phy, clkrdy, bank, call, tmp, ret>>
  BY <1>3, <1>4 DEF ControlWrite, Pop, WcrOp
<1>6. BSEL = 2 /\ mii = "idle" /\ ret = 0
  BY DEF PhyReadAt, PhyReadHas
<1>7. PICK a \in {18, 20, 22, 23}, v \in Int : a = 20 /\ v = call.reg.addr
  <2>1. PhyRegs \subseteq Int
    BY DEF PhyRegs
  <2>2. call.reg.addr \in Int
    BY <1>2, <2>1, Zenon
  <2>3. \E a \in {18, 20, 22, 23} : a = 20
    OBVIOUS
  <2> QED
    BY <2>2, <2>3
<1>8. /\ regs' \in [RegBytes -> Int] /\ regs'[<<2, 20>>] = call.reg.addr
      /\ econ1' = econ1 /\ BSEL' = BSEL /\ mii' = mii /\ Kept(MiiTargets)
  <2>1. WriteByte(a, v)
    BY <1>5, <1>7
  <2>2. /\ regs' \in [RegBytes -> Int] /\ regs'[<<2, a>>] = v
        /\ econ1' = econ1 /\ BSEL' = BSEL /\ mii' = mii /\ Kept(MiiTargets)
    BY <1>2, <1>6, <1>7, <2>1, MiiWrote
  <2> QED
    BY <1>7, <2>2
<1>9. PhyReadHas(k + 1)'
  BY <1>1, <1>5, <1>6, <1>8 DEF PhyReadHas
<1>10. /\ bank' \in 0..4 /\ tmp' \in Int /\ ret' \in Int /\ BankShadow'
  BY <1>2, <1>5, <1>8 DEF TypeOK, BankShadow
<1> QED
  BY <1>1, <1>2, <1>5, <1>8, <1>9, <1>10, PhyReadGoesOn

\* MIIRD is set, which starts the MII transaction, or cleared.
LEMMA PhyReadCommand ==
  ASSUME BusInv, PhyRead, RegisterTransaction, NEW k \in {4, 11}, PhyReadAt(k)
  PROVE  Good
<1> DEFINE on == k = 4
           v == IF on THEN SetBit(tmp, MIIRD) ELSE ClearBit(tmp, MIIRD)
<1>1. k \in 0..13 /\ k \in 0..12
  OBVIOUS
<1>2. /\ TypeOK /\ BankShadow /\ todo # <<>> /\ clkrdy
      /\ Head(todo) = ReadPlan(call)[k + 1]
      /\ Targets(call) = MiiTargets
  BY <1>1, PhyReadFacts
<1>3. Head(todo) = MicmdOp(on)
  <2>1. CASE k = 4
    <3>1. Head(todo) = MicmdOp(TRUE)
      BY <1>2, <2>1 DEF ReadPlan, MicmdOp
    <3>2. on = TRUE
      BY <2>1
    <3> QED
      BY <3>1, <3>2
  <2>2. CASE k = 11
    <3>1. Head(todo) = MicmdOp(FALSE)
      BY <1>2, <2>2 DEF ReadPlan, MicmdOp
    <3>2. on = FALSE
      BY <2>2
    <3> QED
      BY <3>1, <3>2
  <2> QED
    BY <2>1, <2>2
<1>4. MicmdWrite
  BY <1>2, <1>3, Taken DEF MicmdOp
<1>5. /\ WriteByte(18, v) /\ todo' = Tail(todo)
      /\ UNCHANGED <<phy, clkrdy, bank, call, tmp, ret>>
  <2>1. Head(todo).miird = on
    BY <1>3 DEF MicmdOp
  <2>2. WriteByte(18, IF Head(todo).miird THEN SetBit(tmp, MIIRD)
                                          ELSE ClearBit(tmp, MIIRD))
    BY <1>4 DEF MicmdWrite, MICMD, Reg
  <2>3. todo' = Tail(todo) /\ UNCHANGED <<phy, clkrdy, bank, call, tmp, ret>>
    BY <1>4 DEF MicmdWrite, Pop
  <2> QED
    BY <2>1, <2>2, <2>3
<1>6. PhyReadHas(k) /\ BSEL = 2 /\ mii = "idle" /\ ret = 0
  BY DEF PhyReadAt, PhyReadHas
<1>7. v \in Int /\ (HasBit(v, MIIRD) <=> on)
  BY <1>2, ReadBit DEF TypeOK
<1> HIDE DEF v
<1>8. PICK a \in {18, 20, 22, 23} : a = 18
  OBVIOUS
<1>9. /\ regs' \in [RegBytes -> Int]
      /\ \A b \in 19..26 : regs'[<<2, b>>] = regs[<<2, b>>]
      /\ econ1' = econ1 /\ BSEL' = BSEL /\ Kept(MiiTargets)
      /\ mii' = IF on THEN "read" ELSE mii
  <2>1. WriteByte(a, v)
    BY <1>5, <1>8
  <2>2. /\ regs' \in [RegBytes -> Int]
        /\ \A b \in 0..26 : b # a => regs'[<<2, b>>] = regs[<<2, b>>]
        /\ econ1' = econ1 /\ BSEL' = BSEL /\ Kept(MiiTargets)
        /\ mii' = IF HasBit(v, MIIRD) THEN "read" ELSE mii
    BY <1>2, <1>6, <1>7, <1>8, <2>1, MiiWrote
  <2> QED
    BY <1>7, <1>8, <2>2
<1>10. PhyReadHas(k + 1)'
  <2>1. /\ regs'[<<2, 20>>] = regs[<<2, 20>>] /\ regs'[<<2, 24>>] = regs[<<2, 24>>]
        /\ regs'[<<2, 25>>] = regs[<<2, 25>>]
    BY <1>9
  <2>2. BSEL' = 2 /\ tmp' = tmp /\ ret' = 0 /\ UNCHANGED <<phy, call>>
    BY <1>5, <1>6, <1>9
  <2>3. mii' = IF on THEN "read" ELSE "idle"
    BY <1>6, <1>9
  <2>4. CASE k = 4
    BY <1>6, <2>1, <2>2, <2>3, <2>4 DEF PhyReadHas
  <2>5. CASE k = 11
    BY <1>6, <2>1, <2>2, <2>3, <2>5 DEF PhyReadHas
  <2> QED
    BY <2>4, <2>5
<1>11. /\ bank' \in 0..4 /\ tmp' \in Int /\ ret' \in Int /\ BankShadow'
  BY <1>2, <1>5, <1>9 DEF TypeOK, BankShadow
<1> QED
  BY <1>1, <1>2, <1>5, <1>9, <1>10, <1>11, PhyReadGoesOn

\* MISTAT is read in Bank3 and says whether a transaction is under way.
LEMMA Polled ==
  ASSUME BSEL = 3, mii \in {"idle", "write", "read"},
         ~HasBit(ByteAt(MISTAT.addr, TRUE), BUSY)
  PROVE  mii = "idle"
<1>1. Located(10) = <<3, 10>>
  BY DEF Located
<1>2. IsMacMii(<<3, 10>>) /\ <<3, 10>> # <<Common, 29>>
  BY DEF IsMacMii, Bank2, Bank3, Common
<1>3. ByteAt(10, TRUE) = IF mii = "idle" THEN 0 ELSE 1
  BY <1>1, <1>2 DEF ByteAt, Bank3
<1>4. MISTAT.addr = 10
  BY DEF MISTAT, Reg
<1>5. HasBit(1, 1)
  BY DEF HasBit
<1> QED
  BY <1>3, <1>4, <1>5 DEF BUSY

\* The transaction has been waited for.
LEMMA PhyReadPoll ==
  ASSUME BusInv, PhyRead, RegisterTransaction, PhyReadAt(7)
  PROVE  Good
<1>1. PICK k \in 0..12 : k = 7
  OBVIOUS
<1>2. /\ TypeOK /\ BankShadow /\ todo # <<>>
      /\ Head(todo) = ReadPlan(call)[k + 1]
  <2>1. k \in 0..13 /\ PhyReadAt(k)
    BY <1>1
  <2> QED
    BY <2>1, PhyReadFacts
<1>3. Head(todo) = [op |-> "poll_read"]
  BY <1>1, <1>2 DEF ReadPlan
<1>4. PollRead
  BY <1>2, <1>3, Taken
<1>5. /\ todo' = Tail(todo) /\ ~HasBit(ByteAt(MISTAT.addr, TRUE), BUSY)
      /\ UNCHANGED <<regs, phy, mii, clkrdy, bank, call, tmp, ret>>
  BY <1>4 DEF PollRead, Pop, chipVars
<1>6. PhyReadHas(7) /\ BSEL = 3
  BY DEF PhyReadAt, PhyReadHas
<1>7. mii = "idle"
  BY <1>2, <1>5, <1>6, Polled DEF TypeOK
<1>8. econ1' = econ1 /\ BSEL' = BSEL
  BY <1>5 DEF econ1, BSEL
<1>9. PhyReadHas(k + 1)'
  BY <1>1, <1>5, <1>6, <1>7, <1>8 DEF PhyReadHas
<1>10. Kept(Targets(call))
  BY <1>5 DEF Kept, Flat, econ1, BSEL
<1>11. /\ regs' \in [RegBytes -> Int] /\ bank' \in 0..4 /\ tmp' \in Int /\ ret' \in Int
       /\ BankShadow'
  BY <1>2, <1>5, <1>8 DEF TypeOK, BankShadow
<1> QED
  BY <1>1, <1>5, <1>8, <1>9, <1>10, <1>11, PhyReadGoesOn

\* What the bytes of a value put together again are.
LEMMA LowHigh ==
  ASSUME NEW v \in Int
  PROVE  Low(v) \in Int /\ High(v) \in Int /\ Low(v) + 256 * High(v) = v
  BY DEF Low, High

\* The data are read, low byte first.
LEMMA PhyReadData ==
  ASSUME BusInv, PhyRead, RegisterTransaction, NEW k \in {12, 13}, PhyReadAt(k)
  PROVE  Good
<1> DEFINE a == IF k = 12 THEN 24 ELSE 25
           part == IF k = 12 THEN 1 ELSE 256
           data == phy[call.reg.addr]
<1>1. k \in 0..13 /\ a \in 0..26 /\ part \in Int
  OBVIOUS
<1>2. /\ TypeOK /\ BankShadow /\ ~HasBit(econ1, TXRTS) /\ clkrdy
      /\ todo # <<>> /\ Head(todo) = ReadPlan(call)[k + 1]
      /\ Len(todo) = 14 - k /\ Tail(todo) = Rest(ReadPlan(call), 14, k + 1)
      /\ data \in Int /\ call.reg.type = "PHY" /\ call.kind = "read"
  BY <1>1, PhyReadFacts
<1>3. Head(todo) = RcrOp(a, TRUE, part)
  <2>1. CASE k = 12
    BY <1>2, <2>1 DEF ReadPlan, RcrOp
  <2>2. CASE k = 13
    BY <1>2, <2>2 DEF ReadPlan, RcrOp
  <2> QED
    BY <2>1, <2>2
<1>4. ControlRead
  BY <1>2, <1>3, Taken DEF RcrOp
<1> HIDE DEF a, part
<1>5. /\ ret' = ret + part * ByteAt(a, TRUE) /\ todo' = Tail(todo)
      /\ UNCHANGED <<regs, phy, mii, clkrdy, bank, call, tmp>>
  <2>1. Head(todo).addr = a /\ Head(todo).skip = TRUE /\ Head(todo).part = part
    BY <1>3 DEF RcrOp
  <2> QED
    BY <1>4, <2>1 DEF ControlRead, Pop, chipVars
<1>6. /\ PhyReadHas(k) /\ BSEL = 2 /\ mii = "idle"
      /\ regs[<<2, 24>>] = Low(data) /\ regs[<<2, 25>>] = High(data)
      /\ ret = IF k = 13 THEN Low(data) ELSE 0
  BY DEF PhyReadAt, PhyReadHas
<1>7. ByteAt(a, TRUE) = regs[<<2, a>>]
  BY <1>1, <1>2, <1>6, MiiRead
<1> HIDE DEF data
<1>8. Low(data) \in Int /\ High(data) \in Int /\ Low(data) + 256 * High(data) = data
  BY <1>2, LowHigh
<1>9. ret' = IF k = 12 THEN Low(data) ELSE data
  <2>1. CASE k = 12
    <3>1. a = 24 /\ part = 1 /\ ret = 0
      BY <1>6, <2>1 DEF a, part
    <3>2. ByteAt(a, TRUE) = Low(data)
      BY <1>6, <1>7, <3>1
    <3>3. ret' = 0 + 1 * Low(data)
      BY <1>5, <3>1, <3>2
    <3> QED
      BY <1>8, <2>1, <3>3
  <2>2. CASE k = 13
    <3>1. a = 25 /\ part = 256 /\ ret = Low(data)
      BY <1>6, <2>2 DEF a, part
    <3>2. ByteAt(a, TRUE) = High(data)
      BY <1>6, <1>7, <3>1
    <3>3. ret' = Low(data) + 256 * High(data)
      BY <1>5, <3>1, <3>2
    <3> QED
      BY <1>8, <2>2, <3>3
  <2> QED
    BY <2>1, <2>2
<1>10. /\ econ1' = econ1 /\ BSEL' = BSEL
  BY <1>5 DEF econ1, BSEL
<1>11. Kept(Targets(call))
  BY <1>5 DEF Kept, Flat, econ1, BSEL
<1>12. /\ regs' \in [RegBytes -> Int] /\ bank' \in 0..4 /\ tmp' \in Int /\ ret' \in Int
       /\ BankShadow'
  BY <1>2, <1>5, <1>8, <1>9, <1>10 DEF TypeOK, BankShadow
<1>13. CASE k = 12
  <2>1. PICK j \in 0..12 : j = k
    BY <1>13
  <2>2. PhyReadHas(j + 1)'
    <3>1. ret' = Low(data) /\ j + 1 = 13
      BY <1>9, <1>13, <2>1
    <3>2. regs[<<2, 20>>] = call.reg.addr
      BY <1>6, <1>13 DEF PhyReadHas
    <3>3. /\ regs'[<<2, 20>>] = call'.reg.addr /\ BSEL' = 2 /\ mii' = "idle"
          /\ regs'[<<2, 24>>] = Low(phy'[call'.reg.addr])
          /\ regs'[<<2, 25>>] = High(phy'[call'.reg.addr])
          /\ ret' = Low(phy'[call'.reg.addr])
      BY <1>5, <1>6, <1>10, <3>1, <3>2 DEF data
    <3>4. PhyReadHas(13)'
      BY <3>3 DEF PhyReadHas
    <3> QED
      BY <3>1, <3>4
  <2> QED
    BY <1>5, <1>10, <1>11, <1>12, <2>1, <2>2, PhyReadGoesOn
<1>14. CASE k = 13
  <2>1. todo' = <<>>
    <3>1. Rest(ReadPlan(call), 14, 14) = <<>>
      BY DEF Rest
    <3> QED
      BY <1>2, <1>5, <1>14, <3>1
  <2>2. TypeOK' /\ NotSending'
    BY <1>2, <1>5, <1>12, <2>1 DEF TypeOK, NotSending
  <2>3. Rested'
    BY <1>5, <1>6, <2>1 DEF Rested
  <2>4. ReadTrue
    BY <1>2, <1>9, <1>14 DEF ReadTrue, ValueOf, data
  <2> QED
    BY <1>11, <1>12, <2>2, <2>3, <2>4 DEF Good, BusInv
<1> QED
  BY <1>13, <1>14

\* A transaction of a PHY read.
LEMMA PhyReadStep ==
  ASSUME BusInv, PhyRead, RegisterTransaction
  PROVE  Good
<1>1. PICK k \in 0..13 : PhyReadAt(k)
  BY DEF PhyRead
<1>2. \/ k \in {0, 5, 8} \/ k \in {1, 6, 9} \/ k \in {2, 10} \/ k = 3
      \/ k \in {4, 11} \/ k = 7 \/ k \in {12, 13}
  OBVIOUS
<1> QED
  BY <1>1, <1>2, PhyReadSelRead, PhyReadSelWrite, PhyReadMicmd, PhyReadAddress,
     PhyReadCommand, PhyReadPoll, PhyReadData

-----------------------------------------------------------------------------
(* A PHY register is written.                                              *)

\* What is known within a write of a PHY register.
LEMMA PhyWriteFacts ==
  ASSUME BusInv, PhyWrite
  PROVE  /\ TypeOK /\ BankShadow /\ clkrdy
         /\ todo # <<>> => ~HasBit(econ1, TXRTS)
         /\ call # Reset /\ call.kind = "write" /\ call.reg.type = "PHY"
         /\ call.reg.addr \in Int /\ call # Read(ECON1)
         /\ Low(call.value) \in Int /\ High(call.value) \in Int
         /\ Targets(call) = MiiTargets /\ ReadTrue
<1>1. /\ TypeOK /\ BankShadow /\ NotSending /\ IsCall(call) /\ clkrdy
      /\ call # Reset /\ call.kind = "write" /\ call.reg.type = "PHY"
  BY DEF BusInv, PhyWrite, TypeOK
<1>2. IsRegister(call.reg) /\ call.value \in 0..2^16 - 1
  BY <1>1, CallIs
<1>3. call.reg.addr \in Int
  BY <1>1, <1>2 DEF IsRegister, PhyRegs
<1>4. Low(call.value) \in Int /\ High(call.value) \in Int
  <2>1. call.value \in Int
    BY <1>2
  <2> QED
    BY <2>1, LowHigh
<1>5. call # Read(ECON1)
  <2>1. Read(ECON1).kind = "read"
    BY DEF Read
  <2> QED
    BY <1>1, <2>1
<1>6. Targets(call) = MiiTargets /\ ReadTrue
  BY <1>1 DEF Targets, MiiTargets, ReadTrue
<1> QED
  BY <1>1, <1>3, <1>4, <1>5, <1>6 DEF NotSending

\* The call goes on.
LEMMA PhyWriteGoesOn ==
  ASSUME BusInv, PhyWrite, todo # <<>>, UNCHANGED <<phy, clkrdy, call>>,
         regs' \in [RegBytes -> Int], mii' \in {"idle", "write", "read"},
         bank' \in 0..4, tmp' \in Int, ret' \in Int, BankShadow',
         HasBit(econ1', TXRTS) <=> HasBit(econ1, TXRTS), Kept(MiiTargets),
         \/ \E k \in 0..3 : PhyWriteAt(k)'
         \/ \E k \in 0..1 : PollAt(k)'
         \/ Rested'
  PROVE  Good
<1>1. /\ TypeOK /\ ~HasBit(econ1, TXRTS) /\ clkrdy
      /\ call # Reset /\ call.kind = "write" /\ call.reg.type = "PHY"
      /\ Targets(call) = MiiTargets /\ ReadTrue
  BY PhyWriteFacts
<1>2. TypeOK' /\ NotSending'
  BY <1>1 DEF TypeOK, NotSending
<1>3. PhyWrite' \/ Rested'
  BY <1>1 DEF PhyWrite
<1> QED
  BY <1>1, <1>2, <1>3 DEF Good, BusInv

\* What is left of a PHY write.
LEMMA PhyWriteLeft ==
  ASSUME NEW k \in 0..3, PhyWriteAt(k)
  PROVE  /\ todo # <<>> /\ Head(todo) = WritePlan(call)[k + 1]
         /\ Tail(todo) = Rest(WritePlan(call), 4, k + 1)
<1> DEFINE p == WritePlan(call)
<1>1. todo = Rest(p, 4, k)
  BY DEF PhyWriteAt
<1> HIDE DEF p
<1>2. PICK n \in Nat : n = 4
  OBVIOUS
<1>3. k \in 0..n /\ k < n
  BY <1>2
<1>4. todo # <<>> /\ Head(todo) = p[k + 1] /\ Tail(todo) = Rest(p, n, k + 1)
  BY <1>1, <1>2, <1>3, RestIs
<1> QED
  BY <1>2, <1>4 DEF p

\* What is left to do at each point before a poll of the busy bit.
LEMMA PollLeft ==
  ASSUME NEW k \in 0..1, PollAt(k)
  PROVE  /\ todo # <<>> /\ Head(todo) = PollPlan[k + 1]
         /\ Tail(todo) = Rest(PollPlan, 3, k + 1)
<1> DEFINE p == PollPlan
<1>1. todo = Rest(p, 3, k)
  BY DEF PollAt
<1> HIDE DEF p
<1>2. PICK n \in Nat : n = 3
  OBVIOUS
<1>3. k \in 0..n /\ k < n
  BY <1>2
<1>4. todo # <<>> /\ Head(todo) = p[k + 1] /\ Tail(todo) = Rest(p, n, k + 1)
  BY <1>1, <1>2, <1>3, RestIs
<1> QED
  BY <1>2, <1>4 DEF p

\* The number of the register and its value go to the MII registers.
LEMMA PhyWriteByte ==
  ASSUME BusInv, PhyWrite, RegisterTransaction, NEW k \in 0..2, PhyWriteAt(k)
  PROVE  Good
<1> DEFINE a == IF k = 0 THEN 20 ELSE IF k = 1 THEN 22 ELSE 23
           v == IF k = 0 THEN call.reg.addr
                ELSE IF k = 1 THEN Low(call.value) ELSE High(call.value)
<1>1. /\ k \in 0..3 /\ k + 1 \in 0..3 /\ (k + 1 < 3 => k # 2)
      /\ a \in {18, 20, 22, 23} /\ (k # 2 => a \in {20, 22})
      /\ k = 2 => a = 23
  OBVIOUS
<1>2. /\ todo # <<>> /\ Head(todo) = WritePlan(call)[k + 1]
      /\ Tail(todo) = Rest(WritePlan(call), 4, k + 1)
  BY <1>1, PhyWriteLeft
<1>3. TypeOK /\ clkrdy /\ v \in Int
  BY PhyWriteFacts
<1>4. Head(todo) = WcrOp(a, v)
  <2>1. CASE k = 0
    BY <1>2, <2>1 DEF WritePlan
  <2>2. CASE k = 1
    BY <1>2, <2>2 DEF WritePlan
  <2>3. CASE k = 2
    BY <1>2, <2>3 DEF WritePlan
  <2> QED
    BY <2>1, <2>2, <2>3
<1> HIDE DEF a, v
<1>5. ControlWrite
  BY <1>2, <1>4, Taken DEF WcrOp
<1>6. /\ WriteByte(a, v) /\ todo' = Tail(todo)
      /\ UNCHANGED <<phy, clkrdy, bank, call, tmp, ret>>
  BY <1>4, <1>5 DEF ControlWrite, Pop, WcrOp
<1>7. bank = 2 /\ BSEL = 2 /\ mii = "idle"
  BY DEF PhyWriteAt
<1>8. /\ regs' \in [RegBytes -> Int] /\ mii' \in {"idle", "write", "read"}
      /\ econ1' = econ1 /\ BSEL' = BSEL /\ Kept(MiiTargets)
      /\ k # 2 => mii' = "idle"
      /\ mii' \in {"idle", "write"}
  <2>1. /\ regs' \in [RegBytes -> Int] /\ mii' \in {"idle", "write", "read"}
        /\ econ1' = econ1 /\ BSEL' = BSEL /\ Kept(MiiTargets)
        /\ a \in {20, 22} => mii' = mii
        /\ a = 23 => mii' \in {mii, "write"}
    BY <1>1, <1>3, <1>6, <1>7, MiiWrote
  <2> QED
    BY <1>1, <1>7, <2>1
<1>9. PhyWriteAt(k + 1)'
  <2>1. todo' = Rest(WritePlan(call'), 4, k + 1)
    BY <1>2, <1>6
  <2> QED
    BY <1>1, <1>6, <1>7, <1>8, <2>1 DEF PhyWriteAt
<1>10. bank' \in 0..4 /\ tmp' \in Int /\ ret' \in Int /\ BankShadow'
  BY <1>3, <1>6, <1>7, <1>8 DEF TypeOK, BankShadow
<1> QED
  BY <1>1, <1>2, <1>6, <1>8, <1>9, <1>10, PhyWriteGoesOn

\* MISTAT is polled, for which the bank is changed once.
LEMMA PhyWritePoll ==
  ASSUME BusInv, PhyWrite, RegisterTransaction, PhyWriteAt(3)
  PROVE  Good
<1>1. PICK k \in 0..3 : k = 3
  OBVIOUS
<1>2. /\ todo # <<>> /\ Head(todo) = WritePlan(call)[k + 1]
      /\ Tail(todo) = Rest(WritePlan(call), 4, k + 1)
  BY <1>1, PhyWriteLeft
<1>3. TypeOK /\ clkrdy /\ call.kind = "write"
  BY PhyWriteFacts
<1>4. Head(todo) = [op |-> "poll_write"]
  BY <1>1, <1>2 DEF WritePlan
<1>5. PollWrite
  BY <1>2, <1>4, Taken
<1>6. UNCHANGED <<regs, phy, mii, clkrdy, bank, call, tmp, ret>>
  BY <1>5 DEF PollWrite, chipVars
<1>7. bank \in {2, 3} /\ bank = BSEL /\ mii \in {"idle", "write"}
  BY DEF PhyWriteAt
<1>8. econ1' = econ1 /\ BSEL' = BSEL /\ Kept(MiiTargets)
  BY <1>6 DEF econ1, BSEL, Kept, Flat
<1>9. MISTAT.bank = 3
  BY DEF MISTAT, Reg, Bank3
<1>10. CASE bank = 2
  <2>1. todo' = BankChanging(3) \o todo
    BY <1>5, <1>9, <1>10 DEF PollWrite
  <2>2. todo = <<[op |-> "poll_write"]>>
    BY DEF PhyWriteAt, Rest, WritePlan
  <2>3. todo' = PollPlan
    BY <2>1, <2>2, JoinPair DEF BankChanging, PollPlan
  <2>4. PollPlan = Rest(PollPlan, 3, 0)
    BY DEF Rest, PollPlan
  <2>5. PollAt(0)'
    BY <1>6, <1>7, <1>8, <1>10, <2>3, <2>4 DEF PollAt
  <2>6. /\ regs' \in [RegBytes -> Int] /\ mii' \in {"idle", "write", "read"}
        /\ bank' \in 0..4 /\ tmp' \in Int /\ ret' \in Int /\ BankShadow'
    BY <1>3, <1>6, <1>7, <1>8 DEF TypeOK, BankShadow
  <2> QED
    BY <1>2, <1>6, <1>8, <2>5, <2>6, PhyWriteGoesOn
<1>11. CASE bank = 3
  <2>1. /\ todo' = Tail(todo) /\ ~HasBit(ByteAt(MISTAT.addr, TRUE), BUSY)
    BY <1>5, <1>9, <1>11 DEF PollWrite, Pop
  <2>2. mii = "idle"
    BY <1>7, <1>11, <2>1, Polled
  <2>3. todo' = <<>>
    <3>1. Rest(WritePlan(call), 4, 4) = <<>>
      BY DEF Rest
    <3> QED
      BY <1>1, <1>2, <2>1, <3>1
  <2>4. Rested'
    BY <1>6, <2>2, <2>3 DEF Rested
  <2>5. /\ regs' \in [RegBytes -> Int] /\ mii' \in {"idle", "write", "read"}
        /\ bank' \in 0..4 /\ tmp' \in Int /\ ret' \in Int /\ BankShadow'
    BY <1>3, <1>6, <1>7, <1>8 DEF TypeOK, BankShadow
  <2> QED
    BY <1>2, <1>6, <1>8, <2>4, <2>5, PhyWriteGoesOn
<1> QED
  BY <1>7, <1>10, <1>11

\* The bank of MISTAT is selected.
LEMMA PhyWriteSelect ==
  ASSUME BusInv, PhyWrite, RegisterTransaction, NEW k \in 0..1, PollAt(k)
  PROVE  Good
<1>1. /\ todo # <<>> /\ Head(todo) = PollPlan[k + 1]
      /\ Tail(todo) = Rest(PollPlan, 3, k + 1)
  BY PollLeft
<1>2. TypeOK /\ BankShadow /\ clkrdy
  BY PhyWriteFacts
<1>3. bank = 2 /\ BSEL = 2 /\ mii \in {"idle", "write"}
  BY DEF PollAt
<1>4. CASE k = 0
  <2>1. Head(todo) = [op |-> "sel_read"]
    BY <1>1, <1>4 DEF PollPlan
  <2>2. SelRead
    BY <1>1, <2>1, Taken
  <2>3. /\ tmp' = econ1 /\ todo' = Rest(PollPlan, 3, 1) /\ econ1 \in Int
        /\ UNCHANGED <<regs, phy, mii, clkrdy, bank, call, ret>>
    <3>1. tmp' = ByteAt(ECON1.addr, FALSE) /\ todo' = Tail(todo)
      BY <2>2 DEF SelRead, Pop
    <3>2. UNCHANGED <<regs, phy, mii, clkrdy, bank, call, ret>>
      BY <2>2 DEF SelRead, chipVars
    <3>3. k + 1 = 1
      BY <1>4
    <3> QED
      BY <1>1, <1>2, <3>1, <3>2, <3>3, SelReads
  <2>4. econ1' = econ1 /\ BSEL' = BSEL /\ Kept(MiiTargets)
    BY <2>3 DEF econ1, BSEL, Kept, Flat
  <2>5. PollAt(1)'
    BY <1>3, <2>3, <2>4 DEF PollAt
  <2>6. /\ regs' \in [RegBytes -> Int] /\ mii' \in {"idle", "write", "read"}
        /\ bank' \in 0..4 /\ tmp' \in Int /\ ret' \in Int /\ BankShadow'
    BY <1>2, <1>3, <2>3, <2>4 DEF TypeOK, BankShadow
  <2> QED
    BY <1>1, <2>3, <2>4, <2>5, <2>6, PhyWriteGoesOn
<1>5. CASE k = 1
  <2>1. Head(todo) = [op |-> "sel_write", bank |-> 3]
    BY <1>1, <1>5 DEF PollPlan
  <2>2. SelWrite
    BY <1>1, <2>1, Taken
  <2>3. todo' = Rest(PollPlan, 3, 2) /\ UNCHANGED <<phy, clkrdy, call, tmp, ret>>
    BY <1>1, <1>5, <2>2 DEF SelWrite, Pop
  <2>4. tmp = econ1
    BY <1>5 DEF PollAt
  <2>5. PICK bnk \in 0..3 : bnk = 3
    OBVIOUS
  <2>6. /\ regs' \in [RegBytes -> Int] /\ bank' = 3 /\ BSEL' = 3 /\ mii' = mii
        /\ HasBit(econ1', TXRTS) <=> HasBit(econ1, TXRTS)
        /\ Kept(MiiTargets)
    BY <1>2, <2>1, <2>2, <2>4, <2>5, SelDone
  <2>7. Rest(PollPlan, 3, 2) = Rest(WritePlan(call'), 4, 3)
    BY DEF Rest, PollPlan, WritePlan
  <2>8. PhyWriteAt(3)'
    BY <1>3, <2>3, <2>6, <2>7 DEF PhyWriteAt
  <2>9. /\ mii' \in {"idle", "write", "read"}
        /\ bank' \in 0..4 /\ tmp' \in Int /\ ret' \in Int /\ BankShadow'
    BY <1>2, <1>3, <2>3, <2>6 DEF TypeOK, BankShadow
  <2>10. 3 \in 0..3
    OBVIOUS
  <2> QED
    BY <1>1, <2>3, <2>6, <2>8, <2>9, <2>10, PhyWriteGoesOn
<1> QED
  BY <1>4, <1>5

\* A transaction of a PHY write.
LEMMA PhyWriteStep ==
  ASSUME BusInv, PhyWrite, RegisterTransaction
  PROVE  Good
<1>1. CASE \E k \in 0..3 : PhyWriteAt(k)
  <2>1. PICK k \in 0..3 : PhyWriteAt(k)
    BY <1>1
  <2>2. k \in 0..2 \/ k = 3
    OBVIOUS
  <2> QED
    BY <2>1, <2>2, PhyWriteByte, PhyWritePoll
<1>2. CASE \E k \in 0..1 : PollAt(k)
  BY <1>2, PhyWriteSelect
<1> QED
  BY <1>1, <1>2 DEF PhyWrite

-----------------------------------------------------------------------------
(* The controller on its own.                                              *)

\* The registers that a step may name are among the registers' bytes.
LEMMA RegBytesHas ==
  /\ cnt \in RegBytes /\ <<Common, 31>> \in RegBytes /\ cnt # <<Common, 31>>
  /\ \A a \in 0..26 : /\ <<2, a>> \in RegBytes /\ <<2, a>> # cnt
                      /\ <<2, a>> # <<Common, 31>>
  BY DEF cnt, RegBytes, Common, Bank0, Bank1, Bank3

\* The MII transaction ends that a PHY read or a PHY write waits for.
LEMMA MiiDoneStep ==
  ASSUME BusInv, MiiDone
  PROVE  BusInv'
<1>1. TypeOK /\ BankShadow /\ NotSending /\ IsCall(call)
  BY DEF BusInv, TypeOK
<1> DEFINE r == regs[<<2, 20>>] % 32
           v == Pointer(MIWRL)
<1>2. /\ mii # "idle" /\ mii' = "idle"
      /\ UNCHANGED <<clkrdy, bank, call, todo, tmp, ret>>
  BY DEF MiiDone, driverVars
<1>3. /\ mii = "write" => phy' = [phy EXCEPT ![r] = v] /\ regs' = regs
      /\ mii # "write" =>
           /\ regs' = [regs EXCEPT ![<<2, 24>>] = Low(phy[r]),
                                   ![<<2, 25>>] = High(phy[r])]
           /\ phy' = phy
  BY DEF MiiDone, Bank2
<1>4. regs[<<2, 20>>] \in Int /\ r \in PhyRegs /\ phy[r] \in Int
  <2>1. PICK a \in 0..26 : a = 20
    OBVIOUS
  <2>2. regs[<<2, a>>] \in Int
    BY <1>1, RegBytesHas DEF TypeOK
  <2>3. r \in 0..31
    BY <2>1, <2>2
  <2> QED
    BY <1>1, <2>1, <2>2, <2>3 DEF TypeOK, PhyRegs
<1>5. v \in Int
  <2>1. PICK a \in 0..26, b \in 0..26 : a = 22 /\ b = 23
    OBVIOUS
  <2>2. regs[<<2, a>>] \in Int /\ regs[<<2, b>>] \in Int
    BY <1>1, RegBytesHas DEF TypeOK
  <2>3. v = regs[<<2, 22>>] + 256 * regs[<<2, 23>>]
    BY DEF Pointer, MIWRL, Reg, Bank2
  <2> QED
    BY <2>1, <2>2, <2>3
<1> HIDE DEF v
<1>6. Low(phy[r]) \in Int /\ High(phy[r]) \in Int
  BY <1>4, LowHigh
<1>7. /\ <<2, 24>> \in RegBytes /\ <<2, 25>> \in RegBytes
      /\ <<Common, 31>> \in RegBytes /\ <<2, 20>> \in RegBytes
      /\ <<2, 24>> # <<Common, 31>> /\ <<2, 25>> # <<Common, 31>>
  <2>1. PICK a \in 0..26, b \in 0..26, c \in 0..26 : a = 24 /\ b = 25 /\ c = 20
    OBVIOUS
  <2> QED
    BY <2>1, RegBytesHas
<1>8. /\ regs' \in [RegBytes -> Int] /\ phy' \in [PhyRegs -> Int]
      /\ econ1' = econ1 /\ regs'[<<2, 20>>] = regs[<<2, 20>>]
      /\ mii # "write" => /\ regs'[<<2, 24>>] = Low(phy[r])
                          /\ regs'[<<2, 25>>] = High(phy[r])
  <2>1. regs \in [RegBytes -> Int] /\ phy \in [PhyRegs -> Int]
    BY <1>1 DEF TypeOK
  <2>2. CASE mii = "write"
    BY <1>3, <1>4, <1>5, <2>1, <2>2 DEF econ1
  <2>3. CASE mii # "write"
    <3> HIDE DEF r
    <3>1. /\ regs' = [regs EXCEPT ![<<2, 24>>] = Low(phy[r]),
                                  ![<<2, 25>>] = High(phy[r])]
          /\ phy' = phy
      BY <1>3, <2>3
    <3>2. regs' \in [RegBytes -> Int]
      BY <1>6, <1>7, <2>1, <3>1
    <3>3. /\ regs'[<<2, 24>>] = Low(phy[r]) /\ regs'[<<2, 25>>] = High(phy[r])
          /\ regs'[<<2, 20>>] = regs[<<2, 20>>]
      BY <1>7, <2>1, <3>1
    <3>4. econ1' = econ1
      BY <1>7, <2>1, <3>1 DEF econ1
    <3> QED
      BY <2>1, <3>1, <3>2, <3>3, <3>4
  <2> QED
    BY <2>2, <2>3
<1>9. BSEL' = BSEL
  BY <1>8 DEF BSEL
<1>10. TypeOK' /\ BankShadow' /\ NotSending'
  BY <1>1, <1>2, <1>8, <1>9 DEF TypeOK, BankShadow, NotSending
<1>11. PhyRead \/ PhyWrite
  BY <1>2 DEF BusInv, Rested, Resetting, Plain
<1>12. CASE PhyRead
  <2>1. PICK k \in 0..13 : PhyReadAt(k)
    BY <1>12 DEF PhyRead
  <2>2. k \in 5..7 /\ mii = "read" /\ PhyReadHas(k)
    BY <1>2, <2>1 DEF PhyReadAt, PhyReadHas
  <2>3. call.reg.addr \in PhyRegs
    BY <1>12, <2>1, PhyReadFacts
  <2>4. r = call.reg.addr
    BY <2>2, <2>3 DEF PhyReadHas, PhyRegs
  <2> HIDE DEF r
  <2>5. phy' = phy
    BY <1>3, <2>2
  <2>6. /\ regs'[<<2, 24>>] = Low(phy'[call'.reg.addr])
        /\ regs'[<<2, 25>>] = High(phy'[call'.reg.addr])
    BY <1>2, <1>8, <2>2, <2>4, <2>5
  <2>7. PhyReadHas(k)'
    BY <1>2, <1>8, <1>9, <2>2, <2>5, <2>6 DEF PhyReadHas
  <2>8. PhyReadAt(k)'
    BY <1>2, <2>1, <2>7 DEF PhyReadAt
  <2> QED
    BY <1>2, <1>10, <1>12, <2>8 DEF BusInv, PhyRead
<1>13. CASE PhyWrite
  <2>1. CASE \E k \in 0..3 : PhyWriteAt(k)
    <3>1. PICK k \in 0..3 : PhyWriteAt(k)
      BY <2>1
    <3>2. PhyWriteAt(k)'
      BY <1>2, <1>9, <3>1 DEF PhyWriteAt
    <3> QED
      BY <1>2, <1>10, <1>13, <3>2 DEF BusInv, PhyWrite
  <2>2. CASE \E k \in 0..1 : PollAt(k)
    <3>1. PICK k \in 0..1 : PollAt(k)
      BY <2>2
    <3>2. PollAt(k)'
      BY <1>2, <1>8, <1>9, <3>1 DEF PollAt
    <3> QED
      BY <1>2, <1>10, <1>13, <3>2 DEF BusInv, PhyWrite
  <2> QED
    BY <1>13, <2>1, <2>2 DEF PhyWrite
<1> QED
  BY <1>11, <1>12, <1>13

\* The clock starts.
LEMMA ClockReadyStep ==
  ASSUME BusInv, ClockReady
  PROVE  BusInv'
<1>1. /\ ~clkrdy /\ clkrdy' = TRUE
      /\ UNCHANGED <<regs, phy, mii, bank, call, todo, tmp, ret>>
  BY DEF ClockReady, driverVars
<1>2. econ1' = econ1 /\ BSEL' = BSEL
  BY <1>1 DEF econ1, BSEL
<1>3. TypeOK' /\ BankShadow' /\ NotSending'
  BY <1>1, <1>2 DEF BusInv, TypeOK, BankShadow, NotSending
<1>4. CASE Rested \/ Resetting
  BY <1>1, <1>3, <1>4 DEF BusInv, Rested, Resetting
<1>5. CASE Plain
  <2>1. PICK k \in 0..PlainSize(call) - 1 : PlainAt(k)
    BY <1>5 DEF Plain
  <2>2. PlainAt(k)'
    BY <1>1, <1>2, <2>1 DEF PlainAt
  <2>3. Plain'
    BY <1>1, <1>5, <2>2 DEF Plain
  <2> QED
    BY <1>3, <2>3 DEF BusInv
<1> QED
  BY <1>1, <1>4, <1>5 DEF BusInv, PhyRead, PhyWrite

\* Nothing is left of the last call.
LEMMA RestedIs ==
  ASSUME BusInv, todo = <<>>
  PROVE  Rested
<1>1. ~Resetting
  BY DEF Resetting
<1>2. ~Plain
  <2>1. SUFFICES ASSUME NEW k \in 0..PlainSize(call) - 1, PlainAt(k) PROVE FALSE
    BY DEF Plain
  <2> QED
    BY <2>1, PlainHead DEF BusInv
<1>3. ~PhyRead
  <2>1. SUFFICES ASSUME PhyRead, NEW k \in 0..13, PhyReadAt(k) PROVE FALSE
    BY DEF PhyRead
  <2> QED
    BY <2>1, PhyReadFacts
<1>4. ~PhyWrite
  <2>1. \A k \in 0..3 : ~PhyWriteAt(k)
    BY PhyWriteLeft
  <2>2. \A k \in 0..1 : ~PollAt(k)
    BY PollLeft
  <2> QED
    BY <2>1, <2>2 DEF PhyWrite
<1> QED
  BY <1>1, <1>2, <1>3, <1>4 DEF BusInv

\* A transmission ends: nothing is under way that has ECON1 read.
LEMMA TxDoneStep ==
  ASSUME BusInv, TxDone
  PROVE  BusInv'
<1>1. /\ HasBit(econ1, TXRTS)
      /\ regs' = [regs EXCEPT ![<<Common, 31>>] = ClearBit(@, TXRTS)]
      /\ UNCHANGED <<phy, mii, clkrdy, bank, call, todo, tmp, ret>>
  BY DEF TxDone, driverVars
<1>2. TypeOK /\ BankShadow /\ NotSending /\ IsCall(call)
  BY DEF BusInv, TypeOK
<1>3. econ1 \in Int /\ ClearBit(econ1, TXRTS) \in Int
      /\ ClearBit(econ1, TXRTS) % 4 = econ1 % 4
  <2>1. econ1 \in Int
    BY <1>2, SelReads
  <2>2. PICK m \in {4, 8, 16, 32, 64, 128} : m = TXRTS
    BY DEF TXRTS
  <2>3. ClearBit(econ1, m) % 4 = econ1 % 4 /\ ClearBit(econ1, m) \in Int
    BY <2>1, BitsKept DEF ClearBit
  <2> QED
    BY <2>1, <2>2, <2>3
<1>4. regs' \in [RegBytes -> Int] /\ econ1' = ClearBit(econ1, TXRTS)
  <2>1. regs \in [RegBytes -> Int] /\ <<Common, 31>> \in RegBytes
    BY <1>2, RegBytesHas DEF TypeOK
  <2> QED
    BY <1>1, <1>3, <2>1 DEF econ1
<1>5. BSEL' = BSEL
  BY <1>3, <1>4 DEF BSEL
<1>6. TypeOK' /\ BankShadow'
  BY <1>1, <1>2, <1>4, <1>5 DEF TypeOK, BankShadow
<1>7. todo = <<>> \/ call = Read(ECON1)
  BY <1>1, <1>2 DEF NotSending
<1>8. NotSending'
  BY <1>1, <1>7 DEF NotSending
<1>9. CASE todo = <<>>
  <2>1. Rested
    BY <1>9, RestedIs
  <2>2. Rested'
    BY <1>1, <2>1 DEF Rested
  <2> QED
    BY <1>6, <1>8, <2>2 DEF BusInv
<1>10. CASE todo # <<>>
  <2>1. /\ call.kind = "read" /\ call.reg = ECON1 /\ call # Reset
        /\ ECON1.type = "ETH" /\ ECON1.bank = Common /\ ECON1.length = 1
        /\ ECON1.addr = 31
    BY <1>7, <1>10 DEF Read, ECON1, Reg, Reset
  <2>2. Plain
    BY <1>10, <2>1 DEF BusInv, Rested, Resetting, PhyRead, PhyWrite
  <2>3. PlainSize(call) = 3
    BY <2>1 DEF PlainSize, TwoBytes
  <2>4. PICK k \in 0..PlainSize(call) - 1 : PlainAt(k)
    BY <2>2 DEF Plain
  <2>5. k = 2
    BY <2>1, <2>3, <2>4 DEF PlainAt
  <2>6. PlainAt(k)'
    BY <1>1, <1>5, <2>1, <2>4, <2>5 DEF PlainAt
  <2>7. Plain'
    BY <1>1, <2>2, <2>6 DEF Plain
  <2> QED
    BY <1>6, <1>8, <2>7 DEF BusInv
<1> QED
  BY <1>9, <1>10

\* A frame is received.
LEMMA FrameArrivesStep ==
  ASSUME BusInv, FrameArrives
  PROVE  BusInv'
<1>1. /\ regs' = [regs EXCEPT ![cnt] = 1]
      /\ UNCHANGED <<phy, mii, clkrdy, bank, call, todo, tmp, ret>>
  BY DEF FrameArrives, driverVars, cnt
<1>2. TypeOK /\ BankShadow /\ NotSending /\ IsCall(call)
  BY DEF BusInv, TypeOK
<1>3. /\ regs' \in [RegBytes -> Int]
      /\ \A b \in RegBytes : b # cnt => regs'[b] = regs[b]
  BY <1>1, <1>2, RegBytesHas DEF TypeOK
<1>4. econ1' = econ1 /\ BSEL' = BSEL
  BY <1>3, RegBytesHas DEF econ1, BSEL
<1>5. TypeOK' /\ BankShadow' /\ NotSending'
  BY <1>1, <1>2, <1>3, <1>4 DEF TypeOK, BankShadow, NotSending
<1>6. CASE Rested \/ Resetting
  BY <1>1, <1>5, <1>6 DEF BusInv, Rested, Resetting
<1>7. CASE Plain
  <2>1. PICK k \in 0..PlainSize(call) - 1 : PlainAt(k)
    BY <1>7 DEF Plain
  <2>2. ASSUME k = 3, call.kind = "read"
        PROVE  regs'[<<call.reg.bank, call.reg.addr>>]
                 = regs[<<call.reg.bank, call.reg.addr>>]
    <3>1. call.reg.length = 2
      BY <2>1, <2>2 DEF PlainSize, TwoBytes
    <3>2. IsRegister(call.reg) /\ call.reg.type \in {"ETH", "MAC"}
      BY <1>2, <1>7, CallIs DEF Plain
    <3>3. call.reg.addr \in call.reg.addr..call.reg.addr + call.reg.length - 1
      BY <3>1, <3>2 DEF IsRegister
    <3>4. /\ <<call.reg.bank, call.reg.addr>> \in RegBytes
          /\ <<call.reg.bank, call.reg.addr>> # cnt
      BY <3>1, <3>2, <3>3, Registers
    <3> QED
      BY <1>3, <3>4
  <2>3. PlainAt(k)'
    BY <1>1, <1>4, <2>1, <2>2 DEF PlainAt
  <2>4. Plain'
    BY <1>1, <1>7, <2>3 DEF Plain
  <2> QED
    BY <1>5, <2>4 DEF BusInv
<1>8. CASE PhyRead
  <2>1. PICK k \in 0..13 : PhyReadAt(k)
    BY <1>8 DEF PhyRead
  <2>2. /\ regs'[<<2, 20>>] = regs[<<2, 20>>] /\ regs'[<<2, 24>>] = regs[<<2, 24>>]
        /\ regs'[<<2, 25>>] = regs[<<2, 25>>]
    <3>1. \A a \in 0..26 : regs'[<<2, a>>] = regs[<<2, a>>]
      BY <1>3, RegBytesHas
    <3> QED
      BY <3>1
  <2>3. PhyReadHas(k)'
    BY <1>1, <1>4, <2>1, <2>2 DEF PhyReadAt, PhyReadHas
  <2>4. PhyReadAt(k)'
    BY <1>1, <2>1, <2>3 DEF PhyReadAt
  <2> QED
    BY <1>1, <1>5, <1>8, <2>4 DEF BusInv, PhyRead
<1>9. CASE PhyWrite
  <2>1. \A k \in 0..3 : PhyWriteAt(k) => PhyWriteAt(k)'
    BY <1>1, <1>4 DEF PhyWriteAt
  <2>2. \A k \in 0..1 : PollAt(k) => PollAt(k)'
    BY <1>1, <1>4 DEF PollAt
  <2> QED
    BY <1>1, <1>5, <1>9, <2>1, <2>2 DEF BusInv, PhyWrite
<1> QED
  BY <1>6, <1>7, <1>8, <1>9 DEF BusInv

\* The controller does nothing to the call that is under way.
LEMMA ChipStep ==
  ASSUME BusInv, Chip
  PROVE  BusInv' /\ todo' = todo
<1>1. todo' = todo
  BY DEF Chip, MiiDone, ClockReady, TxDone, FrameArrives, driverVars
<1>2. BusInv'
  BY MiiDoneStep, ClockReadyStep, TxDoneStep, FrameArrivesStep DEF Chip
<1> QED
  BY <1>1, <1>2

-----------------------------------------------------------------------------
(* A call is made.                                                         *)

\* What a PHY read is made of.
LEMMA ReadUnfolds ==
  ASSUME NEW c, c.kind = "read", c.reg.type = "PHY", c.reg.bank = Common
  PROVE  Transactions(c) = Rest(ReadPlan(c), 14, 0)
<1>1. PICK p : p = ReadPlan(c)
  OBVIOUS
<1>2. /\ <<p[1], p[2]>> = BankChanging(2)
      /\ <<p[3]>> = <<[op |-> "micmd_read"]>>
      /\ <<p[4]>> = Wcr(20, c.reg.addr)
      /\ <<p[5]>> = <<[op |-> "micmd_write", miird |-> TRUE]>>
  BY <1>1 DEF ReadPlan, BankChanging, Wcr, WcrOp, MicmdOp
<1>3. /\ <<p[6], p[7]>> = BankChanging(3)
      /\ <<p[8]>> = <<[op |-> "poll_read"]>>
      /\ <<p[9], p[10]>> = BankChanging(2)
  BY <1>1 DEF ReadPlan, BankChanging
<1>4. /\ <<p[11], p[12]>> = <<[op |-> "micmd_read"], [op |-> "micmd_write", miird |-> FALSE]>>
      /\ <<p[13]>> = Rcr(24, TRUE, 1)
      /\ <<p[14]>> = Rcr(25, TRUE, 256)
  BY <1>1 DEF ReadPlan, MicmdOp, Rcr, RcrOp
<1>5. Transactions(c) = ReadReg(c.reg)
  BY DEF Transactions
<1>6. SwitchFor(c.reg) = <<>>
  BY DEF SwitchFor
<1>7. /\ MIREGADR.bank = 2 /\ MIREGADR.addr = 20 /\ MISTAT.bank = 3
      /\ MIRDL.addr = 24 /\ MIRDL.addr + 1 = 25
  BY DEF MIREGADR, MISTAT, MIRDL, Reg, Bank2, Bank3
<1>8. ReadReg(c.reg) =
        <<>> \o (<<p[1], p[2]>> \o <<p[3]>> \o <<p[4]>> \o <<p[5]>>
                 \o <<p[6], p[7]>> \o <<p[8]>> \o <<p[9], p[10]>>
                 \o <<p[11], p[12]>> \o <<p[13]>> \o <<p[14]>>)
  BY <1>2, <1>3, <1>4, <1>6, <1>7 DEF ReadReg
<1>9. <<p[1], p[2]>> = First(p, 2)
  BY DEF First
<1>10. /\ First(p, 2) \o <<p[3]>> = First(p, 3)
       /\ First(p, 3) \o <<p[4]>> = First(p, 4)
       /\ First(p, 4) \o <<p[5]>> = First(p, 5)
       /\ First(p, 5) \o <<p[6], p[7]>> = First(p, 7)
       /\ First(p, 7) \o <<p[8]>> = First(p, 8)
       /\ First(p, 8) \o <<p[9], p[10]>> = First(p, 10)
       /\ First(p, 10) \o <<p[11], p[12]>> = First(p, 12)
       /\ First(p, 12) \o <<p[13]>> = First(p, 13)
       /\ First(p, 13) \o <<p[14]>> = First(p, 14)
  <2>1. First(p, 2) \o <<p[3]>> = First(p, 3)
    <3>1. PICK k \in Nat : k = 2
      OBVIOUS
    <3>2. k + 1 = 3
      BY <3>1
    <3> QED
      BY <3>1, <3>2, JoinNext
  <2>2. First(p, 3) \o <<p[4]>> = First(p, 4)
    <3>1. PICK k \in Nat : k = 3
      OBVIOUS
    <3>2. k + 1 = 4
      BY <3>1
    <3> QED
      BY <3>1, <3>2, JoinNext
  <2>3. First(p, 4) \o <<p[5]>> = First(p, 5)
    <3>1. PICK k \in Nat : k = 4
      OBVIOUS
    <3>2. k + 1 = 5
      BY <3>1
    <3> QED
      BY <3>1, <3>2, JoinNext
  <2>4. First(p, 5) \o <<p[6], p[7]>> = First(p, 7)
    <3>1. PICK k \in Nat : k = 5
      OBVIOUS
    <3>2. k + 1 = 6 /\ k + 2 = 7
      BY <3>1
    <3> QED
      BY <3>1, <3>2, JoinNext
  <2>5. First(p, 7) \o <<p[8]>> = First(p, 8)
    <3>1. PICK k \in Nat : k = 7
      OBVIOUS
    <3>2. k + 1 = 8
      BY <3>1
    <3> QED
      BY <3>1, <3>2, JoinNext
  <2>6. First(p, 8) \o <<p[9], p[10]>> = First(p, 10)
    <3>1. PICK k \in Nat : k = 8
      OBVIOUS
    <3>2. k + 1 = 9 /\ k + 2 = 10
      BY <3>1
    <3> QED
      BY <3>1, <3>2, JoinNext
  <2>7. First(p, 10) \o <<p[11], p[12]>> = First(p, 12)
    <3>1. PICK k \in Nat : k = 10
      OBVIOUS
    <3>2. k + 1 = 11 /\ k + 2 = 12
      BY <3>1
    <3> QED
      BY <3>1, <3>2, JoinNext
  <2>8. First(p, 12) \o <<p[13]>> = First(p, 13)
    <3>1. PICK k \in Nat : k = 12
      OBVIOUS
    <3>2. k + 1 = 13
      BY <3>1
    <3> QED
      BY <3>1, <3>2, JoinNext
  <2>9. First(p, 13) \o <<p[14]>> = First(p, 14)
    <3>1. PICK k \in Nat : k = 13
      OBVIOUS
    <3>2. k + 1 = 14
      BY <3>1
    <3> QED
      BY <3>1, <3>2, JoinNext
  <2> QED
    BY <2>1, <2>2, <2>3, <2>4, <2>5, <2>6, <2>7, <2>8, <2>9
<1>11. ReadReg(c.reg) = <<>> \o First(p, 14)
  BY <1>8, <1>9, <1>10
<1>12. First(p, 14) = Rest(p, 14, 0)
  BY DEF First, Rest
<1>13. PICK S : First(p, 14) \in Seq(S)
  <2> DEFINE T == {p[i] : i \in 1..14}
  <2>1. First(p, 14) \in [1..14 -> T]
    BY DEF First
  <2> HIDE DEF T
  <2>2. First(p, 14) \in Seq(T)
    <3>1. PICK n \in Nat : n = 14
      OBVIOUS
    <3>2. First(p, n) \in [1..n -> T]
      BY <2>1, <3>1
    <3> QED
      BY <3>1, <3>2, SeqDef
  <2> QED
    BY <2>2
<1>14. <<>> \o First(p, 14) = First(p, 14)
  BY <1>13
<1> QED
  BY <1>1, <1>5, <1>11, <1>12, <1>14

\* What a PHY write is made of.
LEMMA WriteUnfolds ==
  ASSUME NEW c, c.kind = "write", c.reg.type = "PHY", c.reg.bank = Common
  PROVE  Transactions(c) = Rest(WritePlan(c), 4, 0)
<1>1. Transactions(c) = WriteReg(c.reg, c.value)
  BY DEF Transactions
<1>2. SwitchFor(c.reg) = <<>>
  BY DEF SwitchFor
<1>3. MIREGADR.addr = 20 /\ MIWRL.addr = 22 /\ MIWRL.addr + 1 = 23
  BY DEF MIREGADR, MIWRL, Reg
<1>4. PICK p : p = WritePlan(c)
  OBVIOUS
<1>5. /\ <<p[1]>> = Wcr(20, c.reg.addr) /\ <<p[2]>> = Wcr(22, Low(c.value))
      /\ <<p[3]>> = Wcr(23, High(c.value)) /\ <<p[4]>> = <<[op |-> "poll_write"]>>
  BY <1>4 DEF WritePlan, Wcr, WcrOp
<1>6. WriteReg(c.reg, c.value) =
        <<>> \o (<<p[1]>> \o <<p[2]>> \o <<p[3]>> \o <<p[4]>>)
  BY <1>2, <1>3, <1>5 DEF WriteReg
<1>7. <<p[1]>> \o <<p[2]>> = <<p[1], p[2]>>
  BY JoinFew
<1>8. <<p[1], p[2]>> \o <<p[3]>> = <<p[1], p[2], p[3]>>
  BY JoinPair
<1>9. <<p[1], p[2], p[3]>> \o <<p[4]>> = First(p, 4)
  <2>1. PICK k \in Nat : k = 3
    OBVIOUS
  <2>2. First(p, k) \o <<p[k + 1]>> = First(p, k + 1)
    BY JoinNext
  <2>3. First(p, 3) = <<p[1], p[2], p[3]>> /\ k + 1 = 4
    BY <2>1 DEF First
  <2> QED
    BY <2>1, <2>2, <2>3
<1>10. First(p, 4) = <<p[1], p[2], p[3], p[4]>> /\ First(p, 4) = Rest(p, 4, 0)
  BY DEF First, Rest
<1>11. <<>> \o <<p[1], p[2], p[3], p[4]>> = <<p[1], p[2], p[3], p[4]>>
  OBVIOUS
<1>12. WriteReg(c.reg, c.value) = Rest(p, 4, 0)
  BY <1>6, <1>7, <1>8, <1>9, <1>10, <1>11
<1> QED
  BY <1>1, <1>4, <1>12

\* What the access to a register is made of that is not of the PHY.
Switches(c) == bank # c.reg.bank /\ c.reg.bank # Common

\* The transactions of a plain call are its plan, without the bank switch when
\* the bank is selected already.
LEMMA PlainUnfolds ==
  ASSUME NEW c, c.kind \in {"read", "write", "bfs", "bfc"},
         c.reg.type \in {"ETH", "MAC"}, c.reg.length \in 1..2,
         c.kind \in {"bfs", "bfc"} => c.reg.type = "ETH"
  PROVE  Transactions(c)
           = Rest(PlainPlan(c), PlainSize(c), IF Switches(c) THEN 0 ELSE 2)
<1>1. PICK p : p = PlainPlan(c)
  OBVIOUS
<1>2. <<p[1], p[2]>> = BankChanging(c.reg.bank)
  BY <1>1 DEF PlainPlan, BankChanging
<1>3. SwitchFor(c.reg) = IF Switches(c) THEN <<p[1], p[2]>> ELSE <<>>
  BY <1>2 DEF SwitchFor, Switches
<1> DEFINE q == IF TwoBytes(c) THEN <<p[3], p[4]>> ELSE <<p[3]>>
<1>4. Transactions(c) = SwitchFor(c.reg) \o q
  <2>1. CASE c.kind = "write"
    <3>1. Transactions(c) = WriteReg(c.reg, c.value)
      BY <2>1 DEF Transactions
    <3>2. <<p[3]>> = Wcr(c.reg.addr, Low(c.value))
      BY <1>1, <2>1 DEF PlainPlan, Wcr, WcrOp
    <3>3. <<p[4]>> = Wcr(c.reg.addr + 1, High(c.value))
      BY <1>1, <2>1 DEF PlainPlan, Wcr, WcrOp
    <3>4. WriteReg(c.reg, c.value) = SwitchFor(c.reg) \o
            (<<p[3]>> \o IF c.reg.length = 2 THEN <<p[4]>> ELSE <<>>)
      BY <3>2, <3>3 DEF WriteReg
    <3>5. <<p[3]>> \o <<p[4]>> = <<p[3], p[4]>> /\ <<p[3]>> \o <<>> = <<p[3]>>
      BY JoinFew
    <3> QED
      BY <2>1, <3>1, <3>4, <3>5 DEF TwoBytes
  <2>2. CASE c.kind = "read"
    <3>1. Transactions(c) = ReadReg(c.reg)
      BY <2>2 DEF Transactions
    <3>2. <<p[3]>> = Rcr(c.reg.addr, DummyFirst(c.reg), 1)
      BY <1>1, <2>2 DEF PlainPlan, Rcr, RcrOp
    <3>3. <<p[4]>> = Rcr(c.reg.addr + 1, DummyFirst(c.reg), 256)
      BY <1>1, <2>2 DEF PlainPlan, Rcr, RcrOp
    <3>4. ReadReg(c.reg) = SwitchFor(c.reg) \o
            (<<p[3]>> \o IF c.reg.length = 2 THEN <<p[4]>> ELSE <<>>)
      BY <3>2, <3>3 DEF ReadReg
    <3>5. <<p[3]>> \o <<p[4]>> = <<p[3], p[4]>> /\ <<p[3]>> \o <<>> = <<p[3]>>
      BY JoinFew
    <3> QED
      BY <2>2, <3>1, <3>4, <3>5 DEF TwoBytes
  <2>3. CASE c.kind \in {"bfs", "bfc"}
    <3>1. Transactions(c) = BitField(c.kind, c.reg, c.value)
      BY <2>3 DEF Transactions
    <3>2. p[3] = [op |-> c.kind, addr |-> c.reg.addr, mask |-> c.value]
      BY <1>1, <2>3 DEF PlainPlan
    <3>3. BitField(c.kind, c.reg, c.value) = SwitchFor(c.reg) \o <<p[3]>>
      BY <2>3, <3>2 DEF BitField
    <3> QED
      BY <2>3, <3>1, <3>3 DEF TwoBytes
  <2> QED
    BY <2>1, <2>2, <2>3
<1>5. CASE Switches(c)
  <2>1. Transactions(c) = <<p[1], p[2]>> \o q
    BY <1>3, <1>4, <1>5
  <2>2. /\ <<p[1], p[2]>> \o <<p[3]>> = <<p[1], p[2], p[3]>>
        /\ <<p[1], p[2]>> \o <<p[3], p[4]>> = <<p[1], p[2], p[3], p[4]>>
    BY JoinPair, JoinPairs
  <2>3. /\ Rest(p, 3, 0) = <<p[1], p[2], p[3]>>
        /\ Rest(p, 4, 0) = <<p[1], p[2], p[3], p[4]>>
    BY DEF Rest
  <2> QED
    BY <1>1, <1>5, <2>1, <2>2, <2>3 DEF PlainSize
<1>6. CASE ~Switches(c)
  <2>1. Transactions(c) = <<>> \o q
    BY <1>3, <1>4, <1>6
  <2>2. <<>> \o <<p[3]>> = <<p[3]>> /\ <<>> \o <<p[3], p[4]>> = <<p[3], p[4]>>
    BY JoinFew
  <2>3. Rest(p, 3, 2) = <<p[3]>> /\ Rest(p, 4, 2) = <<p[3], p[4]>>
    BY DEF Rest
  <2> QED
    BY <1>1, <1>6, <2>1, <2>2, <2>3 DEF PlainSize
<1> QED
  BY <1>5, <1>6

\* The next call.
LEMMA CallStep ==
  ASSUME BusInv, MakeCall, MindsBank
  PROVE  BusInv'
<1>1. PICK c \in Calls :
        ClockMinded(c) /\ TransmitMinded(c) /\ BankMinded(c) /\ Call(c)
  BY DEF MakeCall
<1>2. /\ todo = <<>> /\ call' = c /\ todo' = Transactions(c) /\ ret' = 0
      /\ UNCHANGED <<regs, phy, mii, clkrdy, bank, tmp>>
  BY <1>1 DEF Call, chipVars
<1>3. IsCall(c)
  BY CallsAssumption
<1>4. TypeOK /\ BankShadow /\ mii = "idle"
  BY <1>2, RestedIs DEF BusInv, Rested
<1>5. econ1' = econ1 /\ BSEL' = BSEL
  BY <1>2 DEF econ1, BSEL
<1>6. TypeOK' /\ BankShadow' /\ NotSending'
  BY <1>1, <1>2, <1>3, <1>4, <1>5 DEF TypeOK, BankShadow, NotSending, TransmitMinded
<1>7. CASE c = Reset
  <2>1. c.kind = "reset"
    BY <1>7 DEF Reset
  <2>2. Transactions(c) = <<[op |-> "reset"]>>
    BY <2>1 DEF Transactions
  <2>3. Resetting'
    BY <1>1, <1>2, <1>4, <1>7, <2>1, <2>2 DEF Resetting, BankMinded
  <2> QED
    BY <1>6, <2>3 DEF BusInv
<1>8. CASE c # Reset
  <2>1. c.kind \in {"read", "write", "bfs", "bfc"} /\ IsRegister(c.reg)
    BY <1>3, <1>8, CallIs
  <2>2. /\ c.reg.type \in {"PHY", "ETH", "MAC"} /\ c.reg.length \in 1..2
        /\ c.reg.type = "PHY" => c.reg.bank = Common
    BY <2>1 DEF IsRegister
  <2>3. c.kind \in {"read", "write"} /\ c.reg.type # "ETH" => clkrdy
    BY <1>1 DEF ClockMinded
  <2>4. CASE c.kind = "read" /\ c.reg.type = "PHY"
    <3>1. Transactions(c) = Rest(ReadPlan(c), 14, 0)
      BY <2>2, <2>4, ReadUnfolds
    <3>2. PhyReadHas(0)'
      BY <1>2, <1>4 DEF PhyReadHas
    <3>3. PhyReadAt(0)'
      BY <1>2, <3>1, <3>2 DEF PhyReadAt
    <3>4. 0 \in 0..13
      OBVIOUS
    <3>5. PhyRead'
      BY <1>2, <1>8, <2>3, <2>4, <3>3, <3>4 DEF PhyRead
    <3> QED
      BY <1>6, <3>5 DEF BusInv
  <2>5. CASE c.kind = "write" /\ c.reg.type = "PHY"
    <3>1. Transactions(c) = Rest(WritePlan(c), 4, 0)
      BY <2>2, <2>5, WriteUnfolds
    <3>2. bank = 2
      BY <1>1, <2>5 DEF BankMinded, MIREGADR, Reg, Bank2
    <3>3. BSEL = 2
      BY <1>4, <3>2 DEF BankShadow, Common
    <3>4. PhyWriteAt(0)'
      BY <1>2, <1>4, <1>5, <3>1, <3>2, <3>3 DEF PhyWriteAt
    <3>5. 0 \in 0..3
      OBVIOUS
    <3>6. PhyWrite'
      BY <1>2, <1>8, <2>3, <2>5, <3>4, <3>5 DEF PhyWrite
    <3> QED
      BY <1>6, <3>6 DEF BusInv
  <2>6. CASE c.kind \in {"bfs", "bfc"} /\ c.reg.type # "ETH"
    <3>1. Transactions(c) = <<>>
      BY <2>6 DEF Transactions, BitField
    <3>2. Rested'
      BY <1>2, <1>4, <3>1 DEF Rested
    <3> QED
      BY <1>6, <3>2 DEF BusInv
  <2>7. CASE /\ c.reg.type \in {"ETH", "MAC"}
             /\ c.kind \in {"bfs", "bfc"} => c.reg.type = "ETH"
    <3>1. PICK k : k = IF Switches(c) THEN 0 ELSE 2
      OBVIOUS
    <3>2. Transactions(c) = Rest(PlainPlan(c), PlainSize(c), k)
      BY <2>1, <2>2, <2>7, <3>1, PlainUnfolds
    <3>3. k \in 0..PlainSize(c) - 1
      BY <3>1 DEF PlainSize
    <3>4. k >= 2 => c.reg.bank \in {Common, BSEL}
      BY <1>4, <3>1 DEF Switches, BankShadow
    <3>5. k < 2 => c.reg.bank # Common
      BY <3>1 DEF Switches
    <3>6. c.kind = "write" /\ c.reg = ECON1 => c.value % 4 = BSEL
      BY <1>1 DEF BankMinded
    <3>7. k # 1 /\ k # 3
      BY <3>1
    <3>8. PlainAt(k)'
      BY <1>2, <1>5, <3>2, <3>4, <3>5, <3>6, <3>7 DEF PlainAt
    <3>9. Plain'
      <4>1. c.reg.type = "MAC" => c.kind \in {"read", "write"} /\ clkrdy
        BY <2>1, <2>3, <2>7
      <4> QED
        BY <1>2, <1>4, <1>8, <2>7, <3>3, <3>8, <4>1 DEF Plain
    <3> QED
      BY <1>6, <3>9 DEF BusInv
  <2> QED
    BY <2>1, <2>2, <2>4, <2>5, <2>6, <2>7
<1> QED
  BY <1>7, <1>8

-----------------------------------------------------------------------------
(* The theorems.                                                           *)

\* The bus invariant holds initially.
LEMMA BusInit == Init => BusInv
<1> SUFFICES ASSUME Init PROVE BusInv
  OBVIOUS
<1>1. TypeOK
  <2>1. regs \in [RegBytes -> Int]
    <3>1. \A byte \in RegBytes : ResetValue(byte) \in Int
      BY DEF ResetValue, AUTOINC
    <3> QED
      BY <3>1 DEF Init
  <2>2. IsCall(call)
    BY DEF Init, IsCall
  <2>3. phy \in [PhyRegs -> Int] /\ bank \in 0..4
    BY DEF Init, Common
  <2> QED
    BY <2>1, <2>2, <2>3 DEF TypeOK, Init
<1>2. BankShadow /\ NotSending /\ Rested
  BY DEF Init, BankShadow, NotSending, Rested
<1> QED
  BY <1>1, <1>2 DEF BusInv

\* A transaction that is made for a call.
LEMMA TransactionStep ==
  ASSUME BusInv, RegisterTransaction
  PROVE  Good /\ todo # <<>>
<1>1. todo # <<>>
  BY DEF RegisterTransaction, SelRead, SelWrite, ControlWrite, ControlRead,
     MicmdRead, MicmdWrite, PollWrite, PollRead, BitFieldOp, SoftReset, At
<1>2. Good
  BY <1>1, ResetStep, PlainStep, PhyReadStep, PhyWriteStep DEF BusInv, Rested
<1> QED
  BY <1>1, <1>2

\* Nothing changes.
LEMMA BusStutter == BusInv /\ UNCHANGED busVars => BusInv'
<1> SUFFICES ASSUME BusInv, UNCHANGED busVars PROVE BusInv'
  OBVIOUS
<1>1. UNCHANGED <<regs, phy, mii, clkrdy, pattern, bank, call, todo, tmp, ret>>
  BY DEF busVars
<1>2. econ1' = econ1 /\ BSEL' = BSEL
  BY <1>1 DEF econ1, BSEL
<1>3. TypeOK' /\ BankShadow' /\ NotSending'
  BY <1>1, <1>2 DEF BusInv, TypeOK, BankShadow, NotSending
<1>4. /\ Rested => Rested'
      /\ Resetting => Resetting'
  BY <1>1 DEF Rested, Resetting
<1>5. Plain => Plain'
  <2>1. \A k : PlainAt(k) => PlainAt(k)'
    BY <1>1, <1>2 DEF PlainAt
  <2> QED
    BY <1>1, <2>1 DEF Plain
<1>6. PhyRead => PhyRead'
  <2>1. \A k : PhyReadAt(k) => PhyReadAt(k)'
    BY <1>1, <1>2 DEF PhyReadAt, PhyReadHas
  <2> QED
    BY <1>1, <2>1 DEF PhyRead
<1>7. PhyWrite => PhyWrite'
  <2>1. \A k : /\ PhyWriteAt(k) => PhyWriteAt(k)'
               /\ PollAt(k) => PollAt(k)'
    BY <1>1, <1>2 DEF PhyWriteAt, PollAt
  <2> QED
    BY <1>1, <2>1 DEF PhyWrite
<1> QED
  BY <1>3, <1>4, <1>5, <1>6, <1>7 DEF BusInv

\* The invariant, and what it says of a step.
LEMMA BusStep ==
  MindsBank /\ BusInv /\ [Next]_busVars =>
    /\ BusInv'
    /\ todo' # todo /\ todo # <<>> => Kept(Targets(call)) /\ ReadTrue
<1> SUFFICES ASSUME MindsBank, BusInv, [Next]_busVars
             PROVE  /\ BusInv'
                    /\ todo' # todo /\ todo # <<>> =>
                         Kept(Targets(call)) /\ ReadTrue
  OBVIOUS
<1>1. CASE MakeCall
  <2>1. todo = <<>>
    BY <1>1 DEF MakeCall, Call
  <2> QED
    BY <1>1, <2>1, CallStep
<1>2. CASE RegisterTransaction
  BY <1>2, TransactionStep DEF Good
<1>3. CASE Chip
  BY <1>3, ChipStep
<1>4. CASE UNCHANGED busVars
  BY <1>4, BusStutter DEF busVars
<1> QED
  BY <1>1, <1>2, <1>3, <1>4 DEF Next

\* The driver knows the bank the controller is in, whatever registers are
\* accessed in whatever order and whatever the controller does in between,
\* as long as its caller keeps to the conditions of BankMinded
\* (enc28j60_bank_changing and enc28j60_soft_reset, enc28j60_ll.c:129-146).
THEOREM BankIsKnown == MindsBank => (Spec => []BankShadow)
<1> SUFFICES ASSUME MindsBank PROVE Spec => []BankShadow
  OBVIOUS
<1>1. BusInv => BankShadow
  BY DEF BusInv
<1>2. BusInv /\ [Next]_busVars => BusInv'
  BY BusStep
<1> QED
  BY <1>1, <1>2, BusInit, PTL DEF Spec

\* No call changes a byte of the register file that it does not name, so that
\* no access is made in the wrong bank (enc28j60_write_reg and the bit field
\* operations, enc28j60_ll.c:148-187 and 304-326).
THEOREM WritesOnTarget == MindsBank => (Spec => OnlyTargetWritten)
<1> SUFFICES ASSUME MindsBank PROVE Spec => OnlyTargetWritten
  OBVIOUS
<1>1. BusInv /\ [Next]_busVars => BusInv'
  BY BusStep
<1>2. BusInv /\ [Next]_busVars =>
        [todo' # todo /\ todo # <<>> =>
           \A byte \in RegBytes \ Targets(call) : Flat'[byte] = Flat[byte]]_busVars
  BY BusStep DEF Kept
<1> QED
  BY <1>1, <1>2, BusInit, PTL DEF Spec, OnlyTargetWritten

\* A read returns what the register holds when it is answered: it is made in
\* the right bank, skips the dummy byte of MAC and MII registers, and takes a
\* PHY register's data when they are there (enc28j60_read_reg,
\* enc28j60_ll.c:190-281).
THEOREM ReadsAreTrue == MindsBank => (Spec => ReadReturnsValue)
<1> SUFFICES ASSUME MindsBank PROVE Spec => ReadReturnsValue
  OBVIOUS
<1>1. BusInv /\ [Next]_busVars => BusInv'
  BY BusStep
<1>2. BusInv /\ [Next]_busVars =>
        [call.kind = "read" /\ Len(todo) = 1 /\ todo' = <<>>
           => ret' = ValueOf(call.reg)]_busVars
  <2> SUFFICES ASSUME BusInv, [Next]_busVars,
                      call.kind = "read", Len(todo) = 1, todo' = <<>>
               PROVE  ret' = ValueOf(call.reg)
    OBVIOUS
  <2>1. todo # <<>> /\ todo' # todo
    OBVIOUS
  <2> QED
    BY <2>1, BusStep DEF ReadTrue
<1> QED
  BY <1>1, <1>2, BusInit, PTL DEF Spec, ReadReturnsValue
=============================================================================
