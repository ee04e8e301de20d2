# Verification of the ENC28J60 / STM32F103 Ethernet program

A bare-metal program for the STM32F103: a driver for the Microchip ENC28J60
Ethernet controller on SPI1, and lwIP (`NO_SYS`, IPv4, ARP, ICMP, no TCP and no
UDP) above it. `main` initialises both and then, for ever, polls the controller
for a frame, gives it to lwIP and runs lwIP's timeouts. The only interrupt is
`SysTick`, which counts milliseconds. What runs concurrently with the program is
the controller: it receives, transmits and completes PHY transactions between
any two SPI transactions of the driver.

This directory holds TLA+ models of that program, the TLC configurations that
check them on small instances, and theorems with machine-checked proofs.
`PROJECT.json` lists the runs, the source lines of every definition, the
hazards and the findings.

## 1. Inventory

| Component | State | Operations | Interacts with |
|---|---|---|---|
| Receive path (`interface/src/enc28j60.c`, `main.c`) | `dev->next_rx_packet_ptr`, `enc_header`, caller's buffer | `enc28j60_receive_packet`, `low_level_input` | the controller's receiver, through ring memory, `ERXRDPT`, `EPKTCNT` |
| Transmit path (the same files) | `dev->tx_buff_ptr` | `prepare_to_tx`, `write_to_tx`, `ready_to_send`, `low_level_output`; `send_packet` is unused | the transmitter, through `ETXST/ETXND` and `ECON1.TXRTS` |
| Register access (`lowlayer/src/enc28j60_ll.c`, register map) | `dev->bank`, a copy of `ECON1.BSEL` | read, write, bit-field set/clear, soft reset, buffer transfers, PHY access | everything above it; the controller changes `ECON1`, `MISTAT`, `ESTAT`, `EPKTCNT` on its own |
| Initialisation and self test (`enc28j60_ll.c`) | none of its own | `ll_test`, `enc28j60_ll_init` | register access; stops for ever if a test fails |
| SPI and UART port | SPI1 registers | byte transfers, log output | |
| Main loop and netif (`main.c`, `netif.c`) | `sys_time`, `eth_buffer`, `netif` | `SysTick_Handler`, the loop | all |
| Timeouts (`timeouts.c`) | `next_timeout` list, `current_timeout_due_time` | `sys_timeout`, `sys_untimeout`, `sys_check_timeouts`, `sys_restart_timeouts`, cyclic timers | `sys_now`; calls `ip_reass_tmr` and `etharp_tmr` |
| Heap (`mem.c`) | block list in `ram`, `lfree` | `mem_malloc`, `mem_free`, `mem_trim` | pbufs of type `PBUF_RAM` |
| Pools and pbufs (`memp.c`, `pbuf.c`) | free lists, reference counts, chains | alloc, free, ref, realloc, header, cat, chain, dechain, clone, coalesce; reads, writes, searches and copies of bytes | every protocol layer |
| ARP (`etharp.c`) | table of 10 entries, pending packet each, cached index | input, output, query, timer | timeouts, pbufs, netif |
| Reassembly and fragmentation (`ip4_frag.c`) | list of datagrams with their fragments, count of pbufs | `ip4_reass`, `ip_reass_tmr`, `ip4_frag` | pbufs, timeouts, ICMP errors |
| IPv4 and ICMP (`ip4.c`, `icmp.c`) | none that outlives a packet | input, output, echo reply, errors | Ethernet, ARP, reassembly, pbufs |
| Ethernet layer (`ethernet.c`) | none | dispatch on the type, output | driver, ARP, IP |
| Checksums (`inet_chksum.c`) | none | pure | IP, ICMP |

Behaviours that are hard to get right, and hard to test: the receiver writing
into the ring that is being read; the order in which space is released, the
pointer advanced and the packet counted off; the `ERXRDPT` rule of one before
the next packet at the wrap; the read-modify-write of `ECON1` for every bank
change while the controller clears `TXRTS` in the same register; a software copy
of the bank that a reset does not follow; PHY accesses through four other
registers; waits without a timeout; a 32-bit clock that wraps; cyclic timers
that come late; pools of one or two elements, shared by everything that
receives; packets that share pbufs; an ARP table that recycles entries; a reply
that waits for ARP in the memory of its request; fragments out of order, twice
and mixed. `PROJECT.json` lists each at its line.

What makes each component correct, in a sentence:

- *receive*: frames come out once, in order, with their own bytes, and the ring
  never leaks space;
- *transmit*: a frame goes out at most once, whole and in order, and nothing is
  written outside the transmit half of the memory;
- *registers*: every access reaches the register named and no other;
- *initialisation*: it ends, and leaves the configuration its text says;
- *timeouts*: nothing early, nothing forgotten, across the wrap of the clock;
- *heap, pools, pbufs*: a block belongs to one owner and returns once;
- *ARP*: an address in use is one that the host announced; pending packets are
  sent or freed; entries age out;
- *reassembly*: a datagram is delivered whole or dropped, never mixed;
- *the node*: it sends what the packets it accepts call for and nothing else, and
  gets back every pbuf it lends to a part of itself.

## 2. Modules

| Module | Models | Checked with |
|---|---|---|
| `RxFifo` | abstract: what the receive path promises | refined by `RxRing` |
| `RxRing` | `enc28j60_receive_packet` and the receiver | `MCRxRing`, proofs in `RxRingProofs` |
| `TxLine` | abstract: what the transmit path promises | refined by `TxPath` |
| `TxPath` | `low_level_output` and the transmitter | `MCTxPath`, proofs in `PacketProofs` |
| `SpiBus` | `enc28j60_ll.c` transaction by transaction, register file of the controller | through the next two |
| `BusClient` | any register access in any order | `MCBusClient`, proofs in `BusClientProofs` |
| `DriverCalls` | `ll_test`, `enc28j60_ll_init` and the register accesses of the loop | its own configurations |
| `Timeouts` | `timeouts.c` and the clock | `MCTimeouts`, proofs in `TimeoutsProofs` |
| `Allocator` | abstract: what a heap promises | refined by `Heap` |
| `Heap` | `mem.c` | its own configuration, proofs in `HeapProofs` |
| `ArpCache` | abstract: what an ARP cache promises | refined by `Etharp`, proof in `EtharpProofs` |
| `Etharp` | `etharp.c` | its own configuration, proofs in `EtharpProofs` |
| `Pbuf` | what changes a pbuf in `pbuf.c`, the pools of `memp.c` | through the next but one, proofs in `PacketProofs` |
| `Chksum` | `inet_chksum.c`, pure | in `PbufCopy` and `Node` |
| `PbufCopy` | what reads and writes bytes in `pbuf.c`, pure, over the packets that `Pbuf` makes | its own configuration, proofs in `PacketProofs` |
| `Collector` | abstract: what reassembly promises | refined by `Reass` |
| `Reass` | `ip4_frag.c` | `MCReass`, proofs in `ReassProofs` |
| `Responder` | abstract: what the node promises the network | refined by `Node` |
| `Node` | the loop of `main`, `ethernet.c`, `ip4.c`, `icmp.c`, composed with instances of `Etharp` and `Reass` over one pool | `MCNode`, proofs in `NodeProofs` |

### Receive path: `RxRing`

One action per SPI transaction of `enc28j60_receive_packet`:

    PollFrame / PollNone   read EPKTCNT                      enc28j60.c:45
    PointAtFrame           ERDPT := next_rx_packet_ptr                  47
    ReadHeader             read 6 bytes, compute len              35-41, 50-53
    ReadPayload            read len bytes                               55
    AdvancePointers        next_rx_packet_ptr, enc_header            57-59
    ReleaseSpace           ERXRDPT := next - 1, or the ring's end    60-65
    CountOff               ECON2.PKTDEC, return len                  67-72

Between any two of them the receiver may accept a frame (`RxAccept`: it writes
header and frame into the ring, moves `ERXWRPT`, counts `EPKTCNT`) or start one
and drop it (`RxReject`: junk in the free part of the ring). A byte of the ring
is the name of what was stored: `<<i, k>>` is byte `k` of frame `i`. The header
read is looked up by those names, so reading from a wrong address gives an
arbitrary header, not the right one. `log` and `received` are history.

`RxFifo` has two actions: a frame arrives, a frame is handed over with exactly
its own bytes, without CRC and cut at the size of the buffer. The refinement
maps `log` to the arrivals.

### Transmit path: `TxPath`

`Output` is the call with `prepare_to_tx`; `PointWrite` and `WriteBuf` are
`write_to_tx`, once for the control byte and once for each pbuf of the chain;
`AwaitFree`, `SetEnd`, `SetStart`, `Request` and `AwaitEnd` are
`ready_to_send`. The two loops on `TXRTS` are guards. The transmitter takes one
byte at a time from the memory (`TxByte`), ends and writes its status vector
behind the frame (`TxEnd`), or gives the frame up (`TxAbort`). Addresses wrap at
the end of the memory, as those of the controller do; that they never get there
is something the model has to show.

### Registers: `SpiBus`, `BusClient`, `DriverCalls`

An API call is unfolded into its SPI transactions (`Transactions`), which carry
only an opcode and a 5-bit address. What the address reaches is decided by the
register file, from `BSEL` in `ECON1`. `dev->bank` is the driver's. MAC and MII
registers give a dummy byte first; without their clock they do not take writes.
Reading and writing `ECON1` to change the bank are two transactions, and
`TxDone`, `MiiDone`, `ClockReady` and `FrameArrives` may come between them.

`BusClient` makes any of a set of calls in any order. `IsCall` says which calls
there are: any access to a register as the register map lays them out, except to
the MII registers, which the layer keeps to itself, and except bit-field
operations on the bank bits of `ECON1`. Three kinds of call depend on the bank
and do not see to it themselves: the soft reset, after which `dev->bank` is not
what the controller has, the PHY write, and a write to the whole of `ECON1`. The
client respects that (`BankMinded`), as the program does, and one run shows what
happens to a client that does not. Nor does it touch MAC, MII and PHY registers
before the controller's clock runs, or change banks while a frame is being sent
(`TransmitMinded`): `low_level_output` waits for `TXRTS` to clear before it
returns.

`DriverCalls` runs the program's own sequence: the reset and `ll_test`, the rest
of `enc28j60_ll_init`, then `receive` and `output` for ever. A failed comparison
of `ll_test` is `while(1){}`: no step follows. It starts from any bank, `RXEN`
and `TXRTS` of the controller, with a PHY transaction under way or not, because
the board's reset button does not reset the controller.

### Timeouts: `Timeouts`

The list is a sequence of records with the time the code keeps, a number modulo
`TIME_MOD`, and, as history, the milliseconds that really remain. The
properties speak of the latter; the actions use only the former. `SysTick` may
come between any two steps, also while a handler runs. `sys_check_timeouts` is
`Enter` (reads `now`), `Expire` (takes the first entry, calls its handler),
`HandlerReturns` (a cyclic timer registers itself again, with the overload rule)
and `Leave`. Other code may call `sys_timeout`, `sys_untimeout` and
`sys_restart_timeouts`. The handlers themselves belong to ARP and to
reassembly.

`late` is how many milliseconds have passed since the current call read the
clock, and at most `MaxLate`. `TimeoutsAssumption` asks that intervals and
one-shots are at most a quarter of the range of the clock, and that with
`MaxLate` added none exceeds `LWIP_MAX_TIMEOUT`, half of it: the comparison of
times by `TIME_LESS_THAN` can tell no more apart.

### Heap: `Heap`

A block is its offset in `ram`; `heap` maps the offsets of the linked blocks to
their `struct mem`. `mem_malloc`, `mem_free` and `mem_trim` are one action each,
with everything they change: the split of a block, the two directions of
`plug_holes`, `lfree`. That is right here because the program is `NO_SYS`:
nothing runs between two steps of a call, and the interrupt does not allocate.
`LWIP_MEM_ALIGN_SIZE` is computed modulo the range of `mem_size_t`, so a request
close to its end wraps, which `Impossible` has to notice. The callers are
assumed to return only what they were given, once, and to trim only to a size
they own; that is the contract of `mem.h`.

`Allocator` knows regions only. It may put a region anywhere; what it promises
is that regions share no byte, stay where they are, are aligned and large
enough, and that a request is refused only if no place was left. `Linked` is
what `mem_sanity` of the source would check after each call if `MEM_SANITY` were
compiled in.

### ARP: `Etharp`

The table is a function from indices to entries; an empty entry keeps its old
contents, as in the code. `etharp_input`, `etharp_output` (`OutputLocal`,
`OutputGroup`, `OutputRemote`, with `etharp_query` and
`etharp_output_to_arp_index` inside), `etharp_tmr` and `etharp_cleanup_netif` are
one step each. `etharp_find_entry` is `Find` (the index), `Found` (what is then in
the entry) and `Dropped` (the packet that is freed when an entry is recycled).
Where the code allocates (a request, a copy of a packet), both outcomes are
possible. ARP frames are not recorded: they change nothing on this side, except
whether a request could be sent, which is in the state of the entry. `out` is
the IP packet that leaves in a step. `refs` counts the references that the code
takes and gives back.

`ArpCache` has no indices, no states of entries and no cached index. It knows the
address that each host announced last, how old it is, and the packet that waits
for each host asked for; it says when a packet may leave and for where, and which
host may be forgotten, when. The refinement takes the address of a host from the
history `heard`, not from the table, so that a table that is out of date shows.

Comments in the source that the code has outgrown: a pending entry is kept for
five ticks of a second, not ten (`etharp.c:71-73`); the timer does re-send
requests (`etharp.c:229` against 984); `etharp_query` sends none for a host that
is pending if it has a packet to queue (`etharp.c:979` against 907). Two
ticks between requests (`RerequestsPaced`) are more than one second, not two
(`etharp.c:221`).

### Packet buffers: `Pbuf`, `PbufCopy`, `Chksum`

`Pbuf` has the `struct pbuf`s (`ref`, `next`, `len`, `tot_len`, and for the
payload pointer an offset into memory of `cap` bytes), the free lists of the
pools and the references that callers hold. A call is a step, except the two
loops in which memory changes hands: `pbuf_alloc` takes one buffer per step from
the pool and may find it empty (`AllocPool`, `AllocPoolMore`, `AllocPoolFails`),
and `pbuf_free`, which through a custom free function calls itself for the packet
that a fragment was cut from, drops one reference per step (`FreeStep`).

The callers are any that keep to the comments of `pbuf.c`: they use what they
hold, and reshape packets at their first pbuf only. Beyond the comments they must

- not `pbuf_free_header` a packet that is shared: a pbuf of it that outlives the
  call keeps `next = NULL` with the `tot_len` of the whole packet;
- not append to a packet a fragment that refers to it: both would be kept for
  ever;
- not let `pbuf_cat` exceed 16 bits: it does not look.

The program keeps to all three.

`PbufCopy` has the functions that walk the bytes of a packet as operators. They
are evaluated on every packet that `Pbuf` can make, against the packet as a plain
sequence of bytes, each byte known by the pbuf and offset it lies at, so that a
byte missed or taken twice shows whatever its value. Two limits of
`pbuf_copy_partial_pbuf` came out: its offset must be inside the first pbuf of the
target, and it refuses (`ERR_VAL`) packets that end in empty pbufs, which it
cannot tell from queues of packets. `pbuf_clone` only asserts that this does not
happen (`pbuf.c:1356`); `Pbuf`, which has lengths but no bytes, lets its copy
succeed, and what a clone of such a packet contains is not claimed.

`Chksum` takes the number of values of a byte as its parameter and keeps the
algorithm: words summed as they lie in memory, folded, swapped for odd addresses
and odd lengths; the sum made while the IP header is written; the sum of a reply
made from that of the request. The reference is ones-complement addition.

### Reassembly: `Reass`

A fragment is its datagram, its first and last byte and the more-fragments flag.
What arrives is everything that `ip4_frag` makes of the datagrams for the given
link sizes, or makes of such fragments once more, in any order, any number of
times. `ip4_reass` is one step with everything it may do on the way: give up
other datagrams for room (`ip_reass_remove_oldest_datagram`, twice if need be),
open an entry, refuse a fragment that overlaps, tell the sender of what was given
up, and hand the datagram on when it is complete. `ip_reass_tmr` is the other.

`Collector` knows the set of bytes of each open datagram and its age. It says
that a datagram is handed on in the step in which its bytes are complete and with
exactly its own bytes in order and the header of its first fragment; that a
fragment may be refused only if it brings bytes that are there or if space is
short; and for which reasons a datagram may be given up.

Remarks. `ip4_frag` sets the flag by `left > mtu - IP_HLEN`, which is right only
if that number is a multiple of 8, as 1480 is; `ReassAssumption` asks for it. A
fragment in a chain of pbufs may be refused although a datagram was given up for
it. Fragments that contradict each other about the length of their datagram, and
lengths beyond 16 bits, are not made by `ip4_frag`; the branches that catch them
are not modelled.

### The node: `Node`

`low_level_input` takes pbufs from the pool, or loses the frame. The handler of a
frame, or of a timer, is a step; each ICMP message that it sends is a further
step, and nothing else happens in between, since the program is `NO_SYS`.
`etharp_input`, `etharp_output` with its query, `etharp_tmr`, `ip4_reass` and
`ip_reass_tmr` are the actions of `Etharp` and `Reass`, instantiated over the same
pbufs. `content` says what is in a pbuf that is in use. A reply is the request
itself with addresses and checksum changed; if its host must first be asked for,
the ARP table keeps a reference to it. An error is made in a pbuf of the heap, if
there is memory. In the code the errors of one call are sent at different points
of the same handler; here they go out in any order before the reply.

`Responder` has messages only: those due, the one that waits for each host, and
what leaves. It does not know where they are kept.

What the composition shows about this configuration, in which the pool has one
pbuf of 256 bytes: a frame that is longer cannot be received at all; while a
reply waits for ARP in the only pbuf, the answer it waits for cannot be received
either, so that a request from a host without an entry in the table (a host that
asked for our address has one) goes unanswered, and every frame is lost until
`etharp_tmr` gives the reply up; a fragment that waits in it
keeps out the fragments it waits for. `PbufsReturn` shows that each of these
ends. `opt.h:811-816` advises `PBUF_POOL_SIZE > IP_REASS_MAX_PBUFS`.

## 3. Runs

| Run | Shows | Bounds |
|---|---|---|
| `rx_ring` | no unread byte is overwritten (`UnreadFramesIntact`), an idle driver has the whole ring free (`NoSpaceLost`), FIFO refinement (`FifoSpec`), every frame is received (`EveryFrameReceived`) | ring of 40 bytes, frames of 1, 4, 5 and 8 bytes with a CRC of 4, which take 8 to 14 bytes of the ring, a buffer of 3, `EPKTCNT` up to 3, 5 frames |
| `tx_path` | nothing reaches the receive ring (`ReceiveRingUntouched`), refinement of the line (`LineSpec`), every call returns (`OutputReturns`) | 8 bytes of transmit memory, 4 chains of 1 to 3 pbufs, one of them empty, 3 calls |
| `bus_client` | accesses change only their register (`OnlyTargetWritten`), reads return its value (`ReadReturnsValue`) | 17 calls that cover every register type and every bank, also a write to `ECON1` that starts a transmission |
| `driver_calls` | the bank copy never lies (`BankShadow`), initialisation ends (`InitReturns`) with the configuration its text says (`Configured`), a bank change never restarts a transmission (`TransmitOnlyOnRequest`), no round of the loop hangs (`RoundsEnd`) | none but the sample frame |
| `timeouts` | order and expiry survive the wrap (`Sorted`, `NeverEarly`, `NothingOverdue`), cyclic timers are kept, keep their pace and run for ever (`CyclicKept`, `Paced`, `EveryTimerRuns`), the check returns (`ChecksReturn`) | clock of 16 ms, intervals 2 and 3, one-shots of 0 and 4 ms, up to 3 ms late |
| `heap` | the block list stays what `mem_sanity` asks for (`Linked`), `lfree` is the lowest free block (`LfreeLowest`), refinement of the allocator (`AllocatorSpec`) | 32 bytes, `struct mem` of 2, alignment 2, 64 values of `mem_size_t`, requests of 0, 1, 6, 9, 62 and 63 bytes |
| `arp` | one entry per host (`OneEntryPerHost`), packets freed once (`PacketsAccounted`), requests paced (`RerequestsPaced`), refinement of the cache (`CacheSpec`), no host pending for ever (`PendingEnds`) | 2 entries, 3 hosts, 2 MAC addresses, 3 packets, ages of 2 (pending, request) and 5 ticks |
| `pbuf` | reference counts are exact (`ReferencesExact`), lengths agree along every chain and payloads stay in their memory (`ChainLengths`), what walks bytes touches just those asked for (`ReadsTrue`), copies are true (`CopiesTrue`), so are checksums (`ChecksumTrue`) | 2 buffers of 2 bytes, one pbuf each of the other three kinds, 2 in use when another is asked for, lengths 2 and 4, header of 1, `struct pbuf` of 1, two handles, 5 values of a length and of a byte |
| `reass` | pbufs are accounted for (`PbufsHeld`), refinement of the collector (`CollectorSpec`), no datagram is collected for ever (`DatagramsEnd`) | 4 datagrams of 5 bytes, one with options, from 2 senders that use the same identifications; units of 2, links of 2 and 4 bytes; 3 pbufs, one of them a chain; 2 datagrams at a time; ages 0 and 1 |
| `node` | no pbuf has two owners (`OneOwner`), the node sends what it owes (`ResponderSpec`), pbufs come back (`PbufsReturn`) | pool of 2, heap of 1, 2 hosts, 15 packets, 2 fragmented datagrams, ARP table of 2, 4 values of a byte |
| `phy_write_any_bank` | expected violation, finding 1 | 4 calls |
| `full_duplex` | expected violation, finding 2 | none |

Why the bounds are enough. *`rx_ring`*: with footprints from 8 to 14 in 40
bytes the wrap falls in headers, in payloads and exactly between frames, the
ring is full with frames waiting, and `EPKTCNT` is full with room left; five
frames go round the ring once and half way again, from which on the ring has
only come to stand at another address. Frames below `CRC_SIZE` (1), at it (4,
which the buffer cuts), one byte above (5) and cut after their CRC was dropped
(8) come in every order. *`tx_path`*: the longest frame with
control byte and status vector ends at the last byte of the memory. A third call
finds the memory of two earlier ones. *`timeouts`*: intervals and lateness stay
below half the range, as in the program with its 2^32 ms and 1 s timers; the
clock starts anywhere and goes round for ever. *`heap`*: five blocks of the
smallest size fill the memory, so that blocks merge on either side, on both and
on none, leftovers too small to be a block occur, and 62 and 63 wrap. *`arp`*:
three hosts compete for two entries, so that every kind of entry is recycled,
also one with a packet while a third packet is sent; each host may change its
address; an entry lives long enough to be asked for twice. *`pbuf`*: chains of all
kinds of pbufs up to the whole memory, cut and joined at every border, also at
empty pbufs; a packet that takes both buffers finds the second gone; layer and
length together wrap, and so do these with the `struct pbuf`. With more handles only more of the same pbufs are shared.
*`reass`*: memory is short in both ways, so that datagrams are given up for a
fragment, for a chain and in vain; borders of the two cuts overlap. *`node`*: two
pbufs are the least with which a reply can wait and a frame still be received,
and a packet or a datagram takes both, so that a waiting chain competes with a
frame, a fragment and another reply; three correspondents (two hosts, one
elsewhere) compete for two entries.

Deadlock is checked in every run. Each property of a passing run has a variant
of the code that breaks it, listed in `PROJECT.json`; the variants stand in the
modules before the definitions they replace, marked `Variant`.

### Fairness

- `RxRing`, `TxPath`: weak fairness of the driver, which polls for ever and has
  no other thread, and of the transmitter, which ends every transmission. None
  of the receiver: frames need not come.
- `DriverCalls`: weak fairness of the driver, and of the controller's clock, MII
  transactions and transmissions. The code waits for each of these without a
  timeout, so a controller that fails to provide one of them stops the program;
  this is what the code relies on.
- `Heap`: none; nothing is claimed to happen.
- `Pbuf`: none; nothing is claimed to happen.
- `Reass`: weak fairness of the timer. None of arrivals.
- `Node`: a call returns (weak fairness of its messages). Strong fairness of the
  two timers: they are enabled only between frames, and `main` calls
  `sys_check_timeouts` after each frame, so that however many frames come, a
  cyclic timer that is due is not passed over (`EveryTimerRuns`).
- `Etharp`: weak fairness of the timer, which is what `EveryTimerRuns` of
  `Timeouts` shows. None of input or output.
- `Timeouts`: weak fairness of `sys_check_timeouts`, called in each round of
  `main`, of handlers returning, and of the clock. That every cyclic timer runs
  for ever is claimed only if `sys_restart_timeouts` is not called for ever:
  each call puts off all timeouts but the first, and a caller that makes it
  whenever the loop is late can starve a timer.

## 4. Findings

1. **PHY writes do not select their bank** (`enc28j60_ll.c:165`). PHY registers
   are declared `Common`, so `enc28j60_write_reg` changes no bank for them; it
   then writes to the address of `MIREGADR` in whatever bank is selected. The
   read path selects Bank2 (line 218). The comment at line 164 says the address
   is written into `MIREGADR`. The program's own two PHY writes follow accesses
   to Bank2, and `Configured` shows that they work.
2. **Full duplex is not set in the PHY** (`enc28j60_register_map.h:268`). The
   bit-field type of `PHCON1` is one bit short below `PDPXMD`, so `0080h` is
   written instead of `0100h`, although the comments speak of full duplex and
   the MAC is set to it.

## 5. Proofs

### `RxRingProofs`

For every odd `RX_BUFFER_END_ADDR`, header, CRC and buffer size, `EPKTCNT`
limit, set of byte counts and number of frames (`RingAssumption`):

- `Invariance`: the inductive invariant `IInv`;
- `TypeCorrect`; `UnreadFramesSafe` and `RingNeverLeaks`, the two invariants of
  the run;
- `ImplementsFifo`: the refinement of `RxFifo`.

`UnreadFramesIntact` is not inductive: that the receiver's free space excludes a
frame follows only from where all frames lie. `IInv` describes the ring from
`Base`, the first byte not yet released: the held frames follow each other back
to back (`Chained`), in order and without overlap up to `ERXWRPT` (`Ordered`),
they hold their own bytes (`HeldIntact`), `EPKTCNT` counts them (`Counted`), the
pointers of the driver are at the frame's ends as its position in the call says
(`Pointers`), and so are what it has read (`HeaderRead`) and copied (`Copied`).
The arithmetic is that of `Dist` along the ring. That `ERXRDPT` is always the
byte before `Base` makes the free space of the receiver end there.

### `PacketProofs`

Packets in memory and on their way to the line, in one module because the second
part assumes what the first one shows.

*In memory* (`Pbuf`): for any pools and heap, alignment, size of a buffer, range
of the 16-bit numbers, lengths, headers and callers (`PbufAssumption`, which asks
that the room for headers leaves some of a buffer):

- `PbufInvariant`: the inductive invariant `PbufInv`;
- `PbufCounted` and `PbufLengths`: `ReferencesExact` and `ChainLengths`, the two
  invariants of `Pbuf` that the run checks;
- `PacketsAreChains`: between calls, the lengths of every packet are a chain as
  `TxAssumption` means it.

Counts and lengths cannot be proved apart. Where `pbuf_realloc` cuts depends on
the lengths, and so does whether it finds a place at all (`WalkIs`,
`TotFalls`); that it may then free what is behind the cut
depends on the counts; and while that is freed, one reference per step, the
lengths of what is on its way back do not agree. `PbufInv` names the pbufs that
are exempt (`LengthsKept`): each has one reference left and is reached from what
`pbuf_free` was called with, or begins a packet that `pbuf_alloc` is still
making, of which only the last pbuf lacks what follows (`Making`). A pbuf
with a second reference stays, with all that is behind it, and is not exempt. With
no call under way nothing is (`IdleAgrees`).

The other parts are about the shape: no pbuf is linked twice (`NextOnce`), and no
links go round (`Acyclic`: a rank falls along them), so that `Chain`, `WalkTo`
and `FreeTo`, recursive functions on the links, are defined (`Climb`, `Defined`)
and are what the loops compute (`ChainIs`, `WalkIs`, `FreeToIs`). `pbuf_cat` and
`pbuf_chain` keep `Acyclic` because they append the first pbuf of a packet to the
end of another. `Listed` gives each pool back what nobody refers to, once.

*Their bytes* (`PbufCopy`), on the same assumptions:

- `PbufReads`: `ReadsTrue`. What `pbuf_copy_partial`, `pbuf_take_at`,
  `pbuf_get_at`, `pbuf_get_contiguous` and `pbuf_memfind` read or write is what
  was asked for, and they refuse exactly what is not there;
- `PbufCopies`: `CopiesTrue`, for `pbuf_copy_partial_pbuf`.

All they need of `PbufInv` is `Sound`: links that end, and lengths that agree.
A packet is the sequence of the places of its bytes (`Bytes`), and two predicates
say what a walk does without following it: `CutOf(s, b, o, n)`, `s` is the `n`
bytes of `b` behind the first `o`, and `Meets(p, n, q, k)`, from byte `n` of `p` on
there is the same as from byte `k` of `q` on. The functions are defined along the
links, so what they return is shown from each pbuf to the one before it (`Climb`).
`pbuf_memfind` finds the first place that fits; that this is the place looked for
needs that no byte is in a packet twice (`PlacesApart`). The copy loop changes two
packets at a time and is followed turn by turn: after each it is under way
(`Going`), at corresponding bytes of both, or it is over (`Over`); every turn ends
a pbuf of one side (`SideMoves`), so it is over after as many turns as both chains
have pbufs. `ERR_VAL` in the middle comes only from a pbuf that `Queue` describes,
which is what the run found.

*Their checksums* (`Chksum`, over the segments of `PbufCopy`):

- `PbufChecksums`: `ChecksumTrue`. Whatever the bytes of a packet, `inet_chksum_pbuf`,
  `inet_chksum_pseudo` and `inet_chksum_pseudo_partial` over its segments, and
  the sum that `ip4_output_if_src` makes of a header while it writes it, are the
  one's complement sum of the bytes in their order.

It holds for any number of values of a byte (`ChksumAssumption`) and any packets
whose lengths fit a word (`PbufCopyAssumption`; in the code both are `u16_t`). One's
complement counts modulo `Ones`, the largest word, with two numbers for zero, so
equal sums are more than congruent ones: `Same` asks that both are zero or
neither (`SameIs`: a word is determined by what it is the same as). To fold
changes nothing (`FoldIs`), and to swap the bytes of a word is to weigh it by `BASE`
(`SwapSame`), twice which is nothing (`SameTwice`). A byte weighs 1 or `BASE`
according to its place, and `SumsOf` adds them up; `lwip_standard_chksum` is the
same as that sum, wherever the bytes lie in memory (`StandardIs`). A segment that
begins behind an odd number of bytes counts by the other weights (`PartCounts`),
which is what the swaps of the accumulated sum and their last undoing make good: after
each segment the accumulated word is the sum so far, on the side that `swapped`
names (`Summed`, `PartSummed`, `AccumulateIs`). No sum overflows
32 bits before it is folded (`SumsSmall`), since a segment has fewer bytes than a
word has values.

*To the line* (`TxPath`): for every size of ring, memory and status vector and
every set of chains whose frames fit (`TxAssumption`: the largest frame of this
program needs 1522 of the 2048 bytes):

- `Invariance`: the inductive invariant `IInv`;
- `ReceiveRingSafe`, the invariant of the run;
- `PointersStayInHalf`: what is written, sent or appended as status lies in the
  transmit half;
- `ImplementsLine`: the refinement of `TxLine`.

`IInv` follows the frame of the current call: `tx_buff_ptr` is exactly where the
next pbuf belongs (`Cursor`, from the lengths of the chain), everything before
it is in the memory (`FrameInMemory`), the transmitter is told these bounds
(`FrameBounds`), and it runs only while the driver awaits it, with a prefix of
the frame on the line (`FrameOnLine`). `PointersStayInHalf` follows from it
without an induction of its own. It speaks of `EWRPT`, `ETXST` and `ETXND` where
they are used: until the driver first sets them they are 0, an address of the
receive ring (`TypeOK`, a part of `IInv`).

### `EtharpProofs`

For every size of the table, set of hosts, addresses and packets and every
`ARP_MAXAGE` and `ARP_MAXPENDING`; the unicast limit is at least 2
(`EtharpAssumption`):

- `Invariance`: the inductive invariant `IInv`;
- `TypeCorrect`; `OneHostOneEntry`, `NoPacketLost` and `RequestsPaced`, the three
  invariants of the run;
- `ImplementsCache`: the refinement of `ArpCache`.

Two of these are not inductive. `PacketsAccounted` counts the entries of a
packet; `PacketsHeld` says the same by uniqueness, which a step that frees one
packet and queues another can be followed through. `RerequestsPaced` speaks of
stable entries only; `QuietSince` adds what the two re-requesting states mean,
and that an entry announced after it was asked for is younger than the request.
`InTime` bounds the ages. What `etharp_find_entry` returns is one lemma
(`FindIn`), that ended entries give back just their packets another
(`EntriesEnd`), used for the timer and for the interface that goes down.

The refinement needs one fact that `IInv` does not have (`AddressesTrue`): an
entry with an address has the one its host announced last. With it and `OneEntryPerHost` the
table, read as the maps `Known` and `Asked` from hosts to what the cache knows of
them, determines each of them (`MapIsTrue`); then each step of the table is a
step of the cache, host by host: the host of the entry that was found, the host
whose entry was recycled, all others unchanged.

### `TimeoutsProofs`

For every range of the clock that is a multiple of 4, any cyclic timers and
intervals within `TimeoutsAssumption`, any size of the pool that holds the cyclic
timers, and a loop that comes up to `MaxLate` late:

- `Invariance`: the inductive invariant `IInv`;
- `ListSorted` and `NoTimerLost`, the two invariants of the run;
- `HandlersNotEarly`, `AllDueCalled` and `TimersPaced`, its three action
  properties.

`Sorted` speaks of the time that really remains, and the code compares numbers
that wrap. The invariant ties one to the other: each time that is kept is the
clock plus what remains, modulo the range (`TimesTrue`, `CallTrue`), and what
remains is within half of the range of the clock and of any other entry
(`InWindow`), so that the comparison of the code is that of the real times.
`CyclicKept` needs to know why the pool cannot be full when a cyclic timer comes
back: its place is kept (`PlaceKept`), since it was in the list before (`Once`,
`Present`) and a caller of `sys_timeout` leaves it free.

### `BusClientProofs`

For every set of calls that `IsCall` allows, in every order, with everything that
the controller does on its own between two transactions, and for a client that
minds the bank (`MindsBank`; without it the statements are false, finding 1):

- `BankIsKnown`: `BankShadow` in `BusClient` (the run `driver_calls` checks it of
  the program's own calls);
- `WritesOnTarget` and `ReadsAreTrue`, the two properties of the run.

The invariant says, for each kind of call, which transactions are left of it and
what is known at that point: the bank, the `ECON1` that was read for a bank
change and is still true, the first of two bytes, how far a PHY transaction is
(`Plain`, `PhyRead`, `PhyWrite`, `Resetting`). That the read-modify-write of
`ECON1` loses nothing depends on `NotSending`: `TXRTS`, which only the controller
clears, is clear whenever there is more to do than to read `ECON1`.

### `HeapProofs`

For every alignment and every size of the memory, of `struct mem`, of the
smallest block and of `mem_size_t` that `HeapAssumption` allows (all multiples of
the alignment, the memory and one `struct mem` within the range):

- `HeapInvariance`: the inductive invariant `HeapInv`;
- `ListSound` and `NoneOverlooked`, the two invariants of the run;
- `ImplementsAllocator`: the refinement of `Allocator`.

`Linked` is not inductive: that a block can be split, or joined with the one
before it, without touching a third needs that the list goes up through the
memory without gap or overlap (`GoodBlock`, `GoodPrev`), and that no two free
blocks follow each other needs it before every call (`Plugged`). `Held` ties the
list to what was given out: a block is in use just if its region is owned, and it
reaches to the next block, so that regions are apart. The arithmetic of
`LWIP_MEM_ALIGN_SIZE` at the end of the range is in `Impossible`. That a refused
request had no place goes from the free blocks to the regions: the bytes between
two regions of the allocator are a free block, with its `struct mem`, and by
`Plugged` there is only one.

### `ReassProofs`

For any datagrams, length of data, unit of offsets, sizes of links that are
multiples of it, pbufs (single ones and chains of two), and limits
(`ReassAssumption`):

- `Invariance`: the inductive invariant `IInv`;
- `PbufsAccounted`: `PbufsHeld`, the invariant of the run;
- `ImplementsCollector`: the refinement of `Collector`.

`PbufsHeld` counts pbufs; that a count stays true when a datagram leaves needs to
know that no pbuf is in two entries and that the loops look at every entry.
`IInv` says so by `GoodList`: a datagram has one entry; its fragments are its
own, sorted and apart, each in a pbuf of its own; its length is known once the
last fragment is there, its header is the first fragment's once that is; and no
entry is empty between two calls. What is queued is just what is in use, and the
count is the sum of its `pbuf_clen`.

The two loops are followed by predicates of what they have done so far: `Gone`
(after some datagrams were given up, with the pbufs this freed and the senders it
told) and `Spent` (none that is left had less time) for
`ip_reass_remove_oldest_datagram`, `Ticked` (the last n entries were looked at)
for `ip_reass_tmr`. `Entered` is what can become of a fragment in its entry:
refused, taken, or the last that was missing. That `ip4_reass` has two occasions
to give up datagrams, one for pbufs and one for an entry, is settled in
`FoundRefines`: if the first did, the second has nothing to do.

For the refinement the list is read as a function of names (`View`, `NowIs`,
`AfterIs`). `BytesMeet` shows that the comparison of the ends of neighbours in
the chain finds every overlap of bytes, `FinishedIs` that the walk along the
chain finds out whether every byte is there, and `DeliveryIs` that the parts of a
finished chain, one after the other, are the bytes from 0 to the length.

### `NodeProofs`

For any pool and heap of pbufs, sizes of a pbuf, hosts, packets and fragments
that arrive (`NodeAssumption`), within what the ARP table and reassembly assume
(`PartsAssumption`):

- `Invariance`: the inductive invariant `Inv`;
- `OnePbufOneOwner`: `OneOwner`, the safety invariant of the run.

`Inv` is the invariant of `EtharpProofs`, the one of `ReassProofs`, and what the
handler adds (`Handling`): what is in memory are parts of packets with the pbufs
behind them; the packets of the ARP table, the fragments that wait and the reply
are apart, with what is chained to them (`Apart`); the reply is the whole chain
of its first pbuf; an error has nothing chained to it. `OneOwner` alone is not
inductive: that a handed-on pbuf has no other owner needs the ARP table to hold a
packet once and reassembly to have queued just what is busy, and when a reply is
kept by ARP its chain must be the reply and nothing more.

Nothing about the two components is proved again. `EP` and `RP` are their proof
modules, instantiated over the pbufs of the node as the components are; the
`Same` lemmas say that the operators are the same. What a call to either does to
its pbufs is one lemma each: `LocalResolves`, `RemoteResolves`, `InputResolves`
and `TimerResolves` (at most the packet that was handed over is new in the
table), `FragmentKeeps` and `ListTmrKeeps` (what is delivered was
queued, or has just arrived). `AllocIs` says that `pbuf_alloc` takes pbufs that
are free and each of them once, which rests on `NthIs`: a
finite set of pbufs has one with each number of others below it.

### Only model-checked

All liveness properties (`EveryFrameReceived`, `OutputReturns`, `InitReturns`,
`RoundsEnd`, `EveryTimerRuns`, `ChecksReturn`, `PendingEnds`, `DatagramsEnd`,
`PbufsReturn`): the prover does not reason about fairness. `Configured` and
`TransmitOnlyOnRequest` of `DriverCalls`: a fixed sequence of calls, which the
run covers completely. `ResponderSpec`, the refinement of `Node`: its proof needs
an invariant of what every waiting pbuf contains, from the table of ARP and the
chains of reassembly to the reply, and of the sums in its headers.

## 6. Not modelled

- `enc28j60_send_packet` and `enc28j60_read_payload`: called by nothing. The
  first is `TxPath` with a single segment and without the control byte.
- Bit shifting and waits on `SPI1->SR`, the UART log, `rcc.h` and CMSIS: register
  settings and peripheral I/O.
- The 50 microseconds the PHY needs after a reset: a matter of instruction
  timing.
- That writing `ERXST` also sets `ERXWRPT` of the controller: `RxRing` starts
  after initialisation, with both at the start of the ring.
- What ARP messages look like on the wire, and the answer to a request for our
  address: a frame is built and sent, no state changes.
- `sys_timeouts_sleeptime`, `pbuf_strstr`, `pbuf_header`: no caller, no state.
- In `Node`: replies longer than the MTU, which `ip4_output_if_src` would hand to
  `ip4_frag` (a reply is as long as its request, which fits the MTU unless it was
  reassembled); the copy that `icmp_input` makes when a request leaves no room for
  a link header (`icmp.c:157-196`), since every request came with one; checks of
  the IP header, of which only the verdict is kept (`ok`). That a copy in
  `etharp_query` may fail is kept from `Etharp`; packets of the pool and of the
  heap are referred to, not copied, so it is more than the code does.
- The rest of `netif.c` (several interfaces, changes of address, link state) and
  the parts of lwIP that are not compiled in (TCP, UDP, DHCP, DNS, IPv6, PPP,
  SNMP): nothing in this program calls them.
- Most lines of the repository are vendor headers (`stm32f10x.h`, `core_cm3.h`),
  option defaults (`opt.h`) and code that the configuration leaves out; they have
  no behaviour of this program to model.

## 7. Plan

Every part of the program with state of its own is modelled; the safety invariants
of `RxRing`, `TxPath`, `BusClient`, `Timeouts`, `Heap`, `Etharp`, `Pbuf`, `PbufCopy`, `Reass`
and `Node` are proved, and `RxRing`, `TxPath`, `Etharp`, `Heap` and `Reass` are
proved to implement their abstract specifications. What is left is that `Node`
implements `Responder`, for which its `Inv` must also say that what waits in a
pbuf is left as it is while it waits.
