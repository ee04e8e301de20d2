------------------------------- MODULE TxPath -------------------------------
(***************************************************************************)
(* The transmit path: low_level_output (main.c:41-50) with                 *)
(* enc28j60_prepare_to_tx, enc28j60_write_to_tx and                        *)
(* enc28j60_ready_to_send (enc28j60.c:101-143), against the transmitter of *)
(* the ENC28J60, which reads the frame from the buffer memory byte by byte *)
(* while the driver goes on.  enc28j60_send_packet, called by nothing, is  *)
(* left out.                                                               *)
(*                                                                         *)
(* As in RxRing a byte is only a name: <<i, k>> is byte k of the i-th call, *)
(* k = 0 being the control byte that precedes the frame.                   *)
(***************************************************************************)
EXTENDS Integers, Sequences

CONSTANTS RX_BUFFER_END_ADDR,  \* last byte of the receive ring
          MEM_END_ADDR,        \* last byte of the buffer memory
          STATUS_SIZE,         \* bytes of the transmit status vector
          Chains,              \* the pbuf chains given to low_level_output
          MaxFrames            \* bound: calls in a behaviour

RX_BUFFER_START_ADDR == 0
TX_BUFFER_START_ADDR == RX_BUFFER_END_ADDR + 1
Addr   == RX_BUFFER_START_ADDR..MEM_END_ADDR
RxAddr == RX_BUFFER_START_ADDR..RX_BUFFER_END_ADDR
TxAddr == TX_BUFFER_START_ADDR..MEM_END_ADDR

\* A pbuf chain: tot_len of a pbuf is its len and that of all that follow.
IsChain(c) ==
  /\ c \in Seq([len : Nat, tot_len : Nat])
  /\ c # <<>>
  /\ \A j \in 1..Len(c) :
       c[j].tot_len = c[j].len + (IF j < Len(c) THEN c[j + 1].tot_len ELSE 0)

\* No frame is empty, and the largest leaves room for the control byte and
\* for the status vector: with frames of at most 1514 bytes (netif mtu 1500,
\* main.c:69) they need 1522 of the 2048 bytes from TX_BUFFER_START_ADDR on.
ASSUME TxAssumption ==
  /\ RX_BUFFER_END_ADDR \in Nat
  /\ MEM_END_ADDR \in Nat
  /\ RX_BUFFER_END_ADDR < MEM_END_ADDR
  /\ STATUS_SIZE \in Nat \ {0}
  /\ MaxFrames \in Nat
  /\ \A c \in Chains :
       /\ IsChain(c)
       /\ c[1].tot_len > 0
       /\ TX_BUFFER_START_ADDR + c[1].tot_len + STATUS_SIZE <= MEM_END_ADDR

VARIABLES
  \* the controller
  mem,          \* buffer memory
  EWRPT,        \* where the next buffer write puts its byte
  ETXST, ETXND, \* first and last byte of the frame to transmit
  TXRTS,        \* ECON1.TXRTS: transmission requested, not ended yet
  out,          \* the bytes of the frame under way that are on the line
  line,         \* history: the complete frames that were on the line
  \* the driver
  pc,           \* next SPI transaction of low_level_output
  chain,        \* p, the pbuf chain
  seg,          \* the pbuf q to be copied next; 0: the control byte
  tx_buff_ptr,  \* dev->tx_buff_ptr
  requested     \* history: lengths of the frames of all calls

chipVars   == <<ETXST, ETXND, TXRTS, out, line>>
vars == <<mem, EWRPT, ETXST, ETXND, TXRTS, out, line,
          pc, chain, seg, tx_buff_ptr, requested>>

\* What the memory holds before anything was written to it, and a byte of
\* the status vector.
Unwritten == <<0, 0>>
Status    == <<0, 1>>

-----------------------------------------------------------------------------
(* The transmitter.                                                        *)

\* Address n bytes after a; the memory continues at its start.
Plus(a, n) == (a + n) % (MEM_END_ADDR + 1)

\* Bytes from a forward to b.
Ahead(a, b) == (b - a) % (MEM_END_ADDR + 1)

\* The next byte goes out; the byte at ETXST is not part of the frame.
TxByte ==
  /\ TXRTS
  /\ ETXST + 1 + Len(out) <= ETXND
  /\ out' = Append(out, mem[Plus(ETXST, 1 + Len(out))])
  /\ UNCHANGED <<mem, EWRPT, ETXST, ETXND, TXRTS, line,
                 pc, chain, seg, tx_buff_ptr, requested>>

\* After the last byte the status vector is written behind the frame.
TxEnd ==
  /\ TXRTS
  /\ ETXST + 1 + Len(out) > ETXND
  /\ TXRTS' = FALSE
  /\ line' = Append(line, out)
  /\ out' = <<>>
  /\ mem' = [a \in Addr |-> IF \E n \in 1..STATUS_SIZE : a = Plus(ETXND, n)
                            THEN Status ELSE mem[a]]
  /\ UNCHANGED <<EWRPT, ETXST, ETXND, pc, chain, seg, tx_buff_ptr, requested>>

\* A frame that cannot be sent is given up.
TxAbort ==
  /\ TXRTS
  /\ TXRTS' = FALSE
  /\ out' = <<>>
  /\ UNCHANGED <<mem, EWRPT, ETXST, ETXND, line,
                 pc, chain, seg, tx_buff_ptr, requested>>

-----------------------------------------------------------------------------
(* The driver.                                                             *)

\* low_level_output is called: enc28j60_prepare_to_tx
Output ==
  /\ pc = "idle"
  /\ Len(requested) < MaxFrames
  /\ \E c \in Chains : /\ chain' = c
                       /\ requested' = Append(requested, c[1].tot_len)
  /\ seg' = 0
  /\ tx_buff_ptr' = TX_BUFFER_START_ADDR
  /\ pc' = "point"
  /\ UNCHANGED <<mem, EWRPT, chipVars>>

\* enc28j60_write_to_tx: EWRPT is set
PointWrite ==
  /\ pc = "point"
  /\ EWRPT' = tx_buff_ptr
  /\ pc' = "write"
  /\ UNCHANGED <<mem, chipVars, chain, seg, tx_buff_ptr, requested>>

\* What is written next: the control byte, or the bytes of a pbuf; its first
\* byte in the frame and its length.
First  == IF seg = 0 THEN 0 ELSE 1 + chain[1].tot_len - chain[seg].tot_len
Length == IF seg = 0 THEN 1 ELSE chain[seg].len

\* ... the bytes are written, and tx_buff_ptr moves behind them
WriteBuf ==
  /\ pc = "write"
  /\ mem' = [a \in Addr |->
               IF \E n \in 0..Length - 1 : a = Plus(EWRPT, n)
               THEN <<Len(requested), First + Ahead(EWRPT, a)>>
               ELSE mem[a]]
  /\ EWRPT' = Plus(EWRPT, Length)
  /\ tx_buff_ptr' = tx_buff_ptr + Length
  /\ IF seg = Len(chain) THEN pc' = "await_free" /\ UNCHANGED seg
                         ELSE pc' = "point" /\ seg' = seg + 1
  /\ UNCHANGED <<chipVars, chain, requested>>

\* enc28j60_ready_to_send: wait while a transmission is in process
AwaitFree ==
  /\ pc = "await_free"
  /\ ~TXRTS
  /\ pc' = "end"
  /\ UNCHANGED <<mem, EWRPT, chipVars, chain, seg, tx_buff_ptr, requested>>

\* Variant: ETXND is one byte too far.
SetEnd_OneMore ==
  /\ pc = "end"
  /\ ETXND' = tx_buff_ptr
  /\ pc' = "start"
  /\ UNCHANGED <<mem, EWRPT, ETXST, TXRTS, out, line, chain, seg,
                 tx_buff_ptr, requested>>

SetEnd ==
  /\ pc = "end"
  /\ ETXND' = tx_buff_ptr - 1
  /\ pc' = "start"
  /\ UNCHANGED <<mem, EWRPT, ETXST, TXRTS, out, line, chain, seg,
                 tx_buff_ptr, requested>>

SetStart ==
  /\ pc = "start"
  /\ ETXST' = TX_BUFFER_START_ADDR
  /\ pc' = "request"
  /\ UNCHANGED <<mem, EWRPT, ETXND, TXRTS, out, line, chain, seg,
                 tx_buff_ptr, requested>>

\* ECON1 is read and written back with TXRTS set
Request ==
  /\ pc = "request"
  /\ TXRTS' = TRUE
  /\ pc' = "await_end"
  /\ UNCHANGED <<mem, EWRPT, ETXST, ETXND, out, line, chain, seg,
                 tx_buff_ptr, requested>>

\* Variants: the end of the transmission is not awaited; only its start is.
AwaitEnd_Never ==
  /\ pc = "await_end"
  /\ tx_buff_ptr' = TX_BUFFER_START_ADDR
  /\ pc' = "idle"
  /\ UNCHANGED <<mem, EWRPT, chipVars, chain, seg, requested>>

AwaitEnd_Busy ==
  /\ pc = "await_end"
  /\ TXRTS
  /\ tx_buff_ptr' = TX_BUFFER_START_ADDR
  /\ pc' = "idle"
  /\ UNCHANGED <<mem, EWRPT, chipVars, chain, seg, requested>>

\* wait to the end, return tx_buff_ptr to its initial value, return
AwaitEnd ==
  /\ pc = "await_end"
  /\ ~TXRTS
  /\ tx_buff_ptr' = TX_BUFFER_START_ADDR
  /\ pc' = "idle"
  /\ UNCHANGED <<mem, EWRPT, chipVars, chain, seg, requested>>

-----------------------------------------------------------------------------
\* After enc28j60_init and enc28j60_ll_init.
Init ==
  /\ mem = [a \in Addr |-> Unwritten]
  /\ EWRPT = RX_BUFFER_START_ADDR
  /\ ETXST = RX_BUFFER_START_ADDR /\ ETXND = RX_BUFFER_START_ADDR
  /\ TXRTS = FALSE
  /\ out = <<>> /\ line = <<>>
  /\ pc = "idle"
  /\ chain \in Chains
  /\ seg = 0
  /\ tx_buff_ptr = TX_BUFFER_START_ADDR
  /\ requested = <<>>

Transmitter == TxByte \/ TxEnd \/ TxAbort

\* A round of main's loop in which the stack has nothing to send.
Quiet == pc = "idle" /\ UNCHANGED vars

Writer == \/ PointWrite \/ WriteBuf \/ AwaitFree \/ SetEnd \/ SetStart
          \/ Request \/ AwaitEnd

Next == Output \/ Quiet \/ Writer \/ Transmitter

Spec == Init /\ [][Next]_vars

\* The driver never pauses inside a call; the controller ends every
\* transmission, well or not: the loops of enc28j60.c:118-120 and 133-135
\* have no other way out.
FairSpec == Spec /\ WF_vars(Writer) /\ WF_vars(Transmitter)

-----------------------------------------------------------------------------
(* Properties.                                                             *)

Byte == (0..MaxFrames) \X Nat

\* A register holds its reset value, an address of the receive ring, until the
\* driver sets it; then it points into the transmit half.
Pointer == TxAddr \union {RX_BUFFER_START_ADDR}

\* Types: no register is ever set to another address of the receive ring, and
\* tx_buff_ptr is in the transmit half throughout (enc28j60.c:105-138).
TypeOK ==
  /\ mem \in [Addr -> Byte]
  /\ EWRPT \in Pointer /\ ETXST \in Pointer /\ ETXND \in Pointer
  /\ TXRTS \in BOOLEAN
  /\ out \in Seq(Byte) /\ line \in Seq(Seq(Byte))
  /\ pc \in {"idle", "point", "write", "await_free", "end", "start",
             "request", "await_end"}
  /\ chain \in Chains
  /\ seg \in 0..Len(chain)
  /\ tx_buff_ptr \in TxAddr
  /\ requested \in Seq(Nat)

\* Nothing the transmit path writes, the controller's status vector included,
\* reaches the receive ring, although neither length nor pointer is ever
\* checked against the end of the memory (enc28j60.c:105-113, 123-124).
ReceiveRingUntouched == \A a \in RxAddr : mem[a] = Unwritten

\* Whenever a register is used it is in the transmit half, and so is all that
\* is used with it: the bytes a write puts into the memory, the control byte
\* and the frame that the transmitter reads, and the status vector behind
\* them.  No length is checked where they are set (enc28j60.c:105-113,
\* 123-126).
PointersInHalf ==
  /\ pc = "write" => EWRPT..EWRPT + Length - 1 \subseteq TxAddr
  /\ TXRTS => /\ ETXST \in TxAddr /\ ETXST < ETXND
              /\ ETXND + STATUS_SIZE \in TxAddr

\* What goes out on the line is what low_level_output was given, frame by
\* frame: the abstract line of module TxLine.
Line == INSTANCE TxLine WITH
  FrameLengths <- {c[1].tot_len : c \in Chains},
  phase <- CASE pc = "idle" -> "idle"
             [] pc = "await_end" /\ ~TXRTS -> "ended"
             [] OTHER -> "queued"
LineSpec == Line!Spec

\* Every call of low_level_output returns: neither wait of
\* enc28j60_ready_to_send is for something that cannot come
\* (enc28j60.c:118-120, 133-135).
OutputReturns == [](pc # "idle" => <>(pc = "idle"))

=============================================================================
