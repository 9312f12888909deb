------------------------------- MODULE Virtio -------------------------------
(***************************************************************************)
(* Virtio: the queue that driver and device share, and the devices on the  *)
(* buses, from probing to the events they deliver.  They are two systems:  *)
(* each has its variables and its specification.                           *)
(***************************************************************************)
EXTENDS Integers, Sequences, FiniteSets, SequencesExt

(***************************************************************************)
(* The split virtqueue of the virtio component (virtio/src/queue.rs) and   *)
(* the ways the drivers use it (device/network, device/input,              *)
(* device/console, device/block).                                          *)
(*                                                                         *)
(* The queue is a record; an operation maps a queue to a queue, so that a  *)
(* driver can do several under its lock.  A descriptor's address is the    *)
(* place of its buffer in the chain.  The device takes chains from the     *)
(* available ring and returns them in any order.                           *)
(***************************************************************************)

CONSTANTS QueueSize,   \* a power of two
          IdxMod,      \* the range of the u16 ring indices, a multiple of QueueSize
          MaxChain     \* the longest chain a driver posts

VARIABLES driver,    \* how the driver uses the queue, which never changes
          q,         \* the VirtQueue and the memory it shares with the device
          posted,    \* the length of the chain posted at each head, 0 if none
          taken,     \* the heads the device is working on
          devAvail,  \* the device's index in the available ring
          tokens     \* the tokens add_buf and pop_used gave the driver last

qvars == <<driver, q, posted, taken, devAvail, tokens>>

Desc == 0 .. QueueSize - 1
Idx == 0 .. IdxMod - 1
NoToken == -1

(* VirtQueue::new links the descriptors; the memory is zeroed.             *)
New == [next |-> [d \in Desc |-> IF d = QueueSize - 1 THEN 0 ELSE d + 1],
        hasNext |-> [d \in Desc |-> FALSE],
        addr |-> [d \in Desc |-> 0],
        avail |-> [s \in Desc |-> 0], avail_idx |-> 0,
        used |-> [s \in Desc |-> 0], used_idx |-> 0,
        num_used |-> 0, free_head |-> 0, last_used_idx |-> 0]

(* The first n descriptors from d on along next.                           *)
Walk(v, d, n) ==
  LET w[i \in 1 .. n] == IF i = 1 THEN d ELSE v.next[w[i - 1]] IN w

(* The chain at a head, as the device and recycle_descriptors follow it:   *)
(* up to the first descriptor without the NEXT flag.                       *)
ChainEnds(v, head) ==
  {i \in 1 .. QueueSize : ~v.hasNext[Walk(v, head, QueueSize)[i]]}
ChainLen(v, head) ==
  CHOOSE i \in ChainEnds(v, head) : \A j \in ChainEnds(v, head) : i <= j
ChainDescs(v, head) == {Walk(v, head, QueueSize)[i] : i \in 1 .. ChainLen(v, head)}

available_desc(v) == QueueSize - v.num_used
can_pop(v) == v.last_used_idx # v.used_idx

(* add_buf and add_vm of n buffers, when there is room: the descriptors    *)
(* are taken along the free list, the last one ends the chain, and the     *)
(* head is the token.                                                      *)
Chained(v, w, n, free) ==
  LET inChain == {w[i] : i \in 1 .. n}
      place(d) == CHOOSE i \in 1 .. n : w[i] = d /\ \A j \in i + 1 .. n : w[j] # d
  IN  [v EXCEPT
        !.addr = [d \in Desc |-> IF d \in inChain THEN place(d) ELSE @[d]],
        !.hasNext = [d \in Desc |-> IF d \in inChain THEN d # w[n] ELSE @[d]],
        !.free_head = free,
        !.num_used = @ + n,
        !.avail = [@ EXCEPT ![v.avail_idx % QueueSize] = v.free_head],
        !.avail_idx = (@ + 1) % IdxMod]

Add(v, n) ==
  LET w == Walk(v, v.free_head, n) IN Chained(v, w, n, v.next[w[n]])

CanAdd(v, n) == n > 0 /\ n + v.num_used <= QueueSize

(* Mutant: the head of the free list stays where it is.                    *)
RecycleKeepsHead(v, head) ==
  [v EXCEPT !.num_used = @ - ChainLen(v, head)]

(* recycle_descriptors: the chain goes to the front of the free list.  The *)
(* descriptor before the head in the table is linked to the head, whatever *)
(* it is used for.                                                         *)
RecycleDescriptors(v, head) ==
  LET before == IF head = 0 THEN QueueSize - 1 ELSE head - 1
      l == [v EXCEPT !.free_head = head, !.next = [@ EXCEPT ![before] = head]]
      last == Walk(l, head, QueueSize)[ChainLen(l, head)]
  IN  [l EXCEPT !.next = [@ EXCEPT ![last] = v.free_head],
                !.num_used = @ - ChainLen(l, head)]

(* pop_used, and pop_used_with_token for the token at hand.                *)
UsedToken(v) == v.used[v.last_used_idx % QueueSize]

PopUsed(v) == [RecycleDescriptors(v, UsedToken(v)) EXCEPT
                 !.last_used_idx = (@ + 1) % IdxMod]

-----------------------------------------------------------------------------
QInit == /\ driver \in {"refill", "sync"}
        /\ q = New
        /\ posted = [d \in Desc |-> 0]
        /\ taken = {} /\ devAvail = 0
        /\ tokens = [added |-> NoToken, popped |-> NoToken]

(* A driver with all its buffers in the queue at all times (the receive    *)
(* queue of the network device, the event queue of the input device): it   *)
(* fills the queue, and puts a buffer back as soon as it has popped one.   *)
RefillInit ==
  /\ driver = "refill" /\ tokens.popped = NoToken /\ CanAdd(q, 1)
  /\ q' = Add(q, 1)
  /\ posted' = [posted EXCEPT ![q.free_head] = 1]
  /\ tokens' = [tokens EXCEPT !.added = q.free_head]
  /\ UNCHANGED <<taken, devAvail>>

RefillPop ==
  /\ driver = "refill" /\ q.num_used = QueueSize /\ can_pop(q)
  /\ LET v == PopUsed(q)
     IN  /\ CanAdd(v, 1)
         /\ q' = Add(v, 1)
         /\ posted' = [posted EXCEPT ![UsedToken(q)] = 0, ![v.free_head] = 1]
         /\ tokens' = [added |-> v.free_head, popped |-> UsedToken(q)]
  /\ UNCHANGED <<taken, devAvail>>

(* A driver that waits for its request under the lock (send of the network *)
(* and console devices, read and write of the block device).               *)
SyncAdd(n) ==
  /\ driver = "sync" /\ q.num_used = 0 /\ CanAdd(q, n)
  /\ q' = Add(q, n)
  /\ posted' = [posted EXCEPT ![q.free_head] = n]
  /\ tokens' = [added |-> q.free_head, popped |-> NoToken]
  /\ UNCHANGED <<taken, devAvail>>

SyncPop ==
  /\ driver = "sync" /\ can_pop(q)
  /\ q' = PopUsed(q)
  /\ posted' = [posted EXCEPT ![UsedToken(q)] = 0]
  /\ tokens' = [tokens EXCEPT !.popped = UsedToken(q)]
  /\ UNCHANGED <<taken, devAvail>>

(* The device.                                                             *)
DeviceTake ==
  /\ devAvail # q.avail_idx
  /\ taken' = taken \cup {q.avail[devAvail % QueueSize]}
  /\ devAvail' = (devAvail + 1) % IdxMod
  /\ UNCHANGED <<q, posted, tokens>>

DeviceUse(head) ==
  /\ head \in taken
  /\ taken' = taken \ {head}
  /\ q' = [q EXCEPT !.used = [@ EXCEPT ![q.used_idx % QueueSize] = head],
                    !.used_idx = (@ + 1) % IdxMod]
  /\ UNCHANGED <<posted, devAvail, tokens>>

QNext == /\ \/ RefillInit \/ RefillPop
           \/ (\E n \in 1 .. MaxChain : SyncAdd(n)) \/ SyncPop
           \/ DeviceTake \/ (\E head \in Desc : DeviceUse(head))
        /\ UNCHANGED driver

QSpec == QInit /\ [][QNext]_qvars

-----------------------------------------------------------------------------
Heads == {d \in Desc : posted[d] > 0}
Free == {Walk(q, q.free_head, QueueSize)[i] : i \in 1 .. available_desc(q)}

(* Every chain that is posted is still the chain that was posted: what the *)
(* device reads through it is the buffers in their order.                  *)
ChainsIntact ==
  \A h \in Heads :
    LET w == Walk(q, h, posted[h])
    IN  \A i \in 1 .. posted[h] : q.addr[w[i]] = i /\ q.hasNext[w[i]] = (i < posted[h])

(* recycle_descriptors pushes the descriptors of a chain on the free list: *)
(* the free list holds as many distinct descriptors as are not in use, and *)
(* none of them belongs to a chain that is posted.                         *)
FreeListSound ==
  /\ Cardinality(Free) = available_desc(q)
  /\ \A h \in Heads : ChainDescs(q, h) \cap Free = {}

(* A chain that is posted is in one place: offered, with the device, or    *)
(* used and not yet popped, also when the indices wrap around.             *)
Span(from, to) == {i \in Idx : (i - from) % IdxMod < (to - from) % IdxMod}
OfferedChains == {q.avail[i % QueueSize] : i \in Span(devAvail, q.avail_idx)}
Returned == {q.used[i % QueueSize] : i \in Span(q.last_used_idx, q.used_idx)}
ChainInOnePlace ==
  /\ OfferedChains \cup taken \cup Returned = Heads
  /\ OfferedChains \cap taken = {} /\ taken \cap Returned = {} /\ OfferedChains \cap Returned = {}

(* The assertions of the network and the input driver: a buffer that goes  *)
(* back into a full queue gets the token that was just popped.             *)
TokenIsReused == tokens.popped # NoToken => tokens.added = tokens.popped

-----------------------------------------------------------------------------
(***************************************************************************)
(* From the bus to the interrupt handlers of the virtio devices            *)
(* (bus/pci, bus/mmio, comps/virtio/src/{lib,transport,device}, and the    *)
(* registries in comps/{network,input,console}).                           *)
(*                                                                         *)
(* Boot runs with local interrupts disabled: the devices are found, the    *)
(* drivers probe them, each transport is initialised by writing its        *)
(* registers, and the upper layers register their callbacks.  A device     *)
(* works on its own from DRIVER_OK on: it fills posted buffers and raises  *)
(* interrupts.  Then interrupts are enabled and handlers run, one at a     *)
(* time, while the devices go on.                                          *)
(***************************************************************************)

CONSTANTS Machines,   \* which devices a machine has: sequences of records [bus, kind]
          TableSize,  \* MSI-X vectors of a PCI device, at least 2
          Buffers,    \* receive buffers of the network and input drivers
          MaxEvents   \* bound on what the devices report

VARIABLES hw,         \* the machine: rigid
          buses,      \* per bus: common_devices, devices, drivers
          transports, \* per bus: VirtioPciDriver / VirtioMmioDriver.devices
          dev,        \* per device: its registers, lines, buffers
          registry,   \* kind -> the registered device, 0 if none
          upper,      \* kinds whose upper-layer callback is registered
          boot,       \* what is left of the boot sequence
          enabled,    \* local interrupts
          serve,      \* what the CPU is doing for a device
          events      \* how many events the devices have reported

vvars == <<hw, buses, transports, dev, registry, upper, boot, enabled, serve, events>>

Kinds == {"net", "console", "input", "block", "rng"}
Implemented == {"net", "console", "input", "block"}
Dev == DOMAIN hw

\* Features by the 32-bit word they are in.  "dev" stands for the device-specific
\* ones the driver supports, "multiport" for one it does not.
Word(w) == IF w = 0 THEN {"dev", "multiport", "event_idx"} ELSE {"version_1"}
Features == Word(0) \cup Word(1)
Specific == {"dev", "multiport"}
Offered(kind) == IF kind = "input" THEN Features \ Specific
                 ELSE IF kind = "console" THEN Features ELSE Features \ {"multiport"}

\* queue index -> queue size, as each driver asks for it; the first one receives
Queues(kind) == IF kind = "block" THEN <<Buffers>>
                ELSE IF kind = "console" THEN <<2, 2>> ELSE <<Buffers, Buffers>>
Irq == TableSize          \* the single line of an MMIO device
Idle == [d |-> 0, at |-> "idle", todo |-> <<>>, status |-> {}]

----------------------------------------------------------------------------
\* Buses

\* Probing: only a virtio PCI device matches; every MMIO device does.
probe(d) == hw[d].bus = "mmio" \/ hw[d].kind # "other"

register_common_device(bus, d) ==
    IF \E i \in 1..Len(bus.drivers) : probe(d) THEN [bus EXCEPT !.devices = Append(@, d)]
    ELSE [bus EXCEPT !.common_devices = Append(@, d)]

register_mmio_device(bus, d) ==
    IF \E i \in 1..Len(bus.drivers) : probe(d) THEN [bus EXCEPT !.devices = Append(@, d)]
    ELSE [bus EXCEPT !.common_devices = Append(@, d)]

\* MMIO devices are found from the highest address down.
iter_range(bus, ds) == FoldLeft(register_mmio_device, bus, Reverse(ds))

\* Each device that is waiting is taken out, and put back if it does not match.
Offer(bus, d) == IF probe(d) THEN [bus EXCEPT !.devices = Append(@, d), !.common_devices = Tail(@)]
                 ELSE [bus EXCEPT !.common_devices = Append(Tail(@), d)]

register_driver(bus) == [FoldLeft(Offer, bus, bus.common_devices) EXCEPT !.drivers = Append(@, "virtio")]

\* The transports go to the driver's list in the order of their probes.
Probed(bus) == bus.devices

\* PCI transports first, from the end of the list.
pop_device_transport == IF transports["pci"] # <<>> THEN "pci" ELSE "mmio"

----------------------------------------------------------------------------
\* Transport registers.  r is the device's record; reads and writes go through
\* the select registers.

set_device_status(r, status) ==
    IF status = {} THEN [r EXCEPT !.status = {}, !.drv = [w \in {0, 1} |-> {}],
                                  !.q = [i \in DOMAIN r.q |-> [r.q[i] EXCEPT !.ready = FALSE]]]
    ELSE [r EXCEPT !.status = status]

ReadFeatures(r, w) == Offered(r.kind) \cap Word(w)
device_features(r) == ReadFeatures(r, 0) \cup ReadFeatures(r, 1)

WriteWord(r, features) == [r EXCEPT !.drv[r.dsel] = features]
SelectWord(r, w) == [r EXCEPT !.dsel = w]
set_driver_features(r, features) ==
    WriteWord(SelectWord(WriteWord(SelectWord(r, 0), features \cap Word(0)), 1), features \cap Word(1))

NetworkFeatures(features) == features \cap {"dev"}
BlockFeatures(features) == features
InputFeatures(features) == {}            \* asserts that there are none
ConsoleFeatures(features) == features \ {"multiport"}

DeviceSupports(kind, features) ==
    CASE kind = "net" -> NetworkFeatures(features)
      [] kind = "block" -> BlockFeatures(features)
      [] kind = "input" -> InputFeatures(features)
      [] kind = "console" -> ConsoleFeatures(features)
      [] OTHER -> features

negotiate_features(r) ==
    LET features == device_features(r)
        support == (features \ Specific) \ {"event_idx"}
    IN set_driver_features(r, features \cap (support \cup DeviceSupports(r.kind, features \cap Specific)))

select_queue(r, idx) == [r EXCEPT !.qsel = idx]
WriteRings(r, size, rings) == [r EXCEPT !.q[r.qsel] = [@ EXCEPT !.size = size, !.rings = rings, !.ready = TRUE]]

SetQueuePci(r, idx, size, rings) ==
    IF idx > Len(r.q) THEN r ELSE WriteRings(select_queue(r, idx), size, rings)
SetQueueMmio(r, idx, size, rings) == WriteRings(select_queue(r, idx), size, rings)

set_queue(r, idx, size, rings) ==
    IF r.bus = "pci" THEN SetQueuePci(r, idx, size, rings) ELSE SetQueueMmio(r, idx, size, rings)

\* VirtQueue::new for each queue of the driver, in order.
NewQueues(r) == FoldLeft(LAMBDA x, i : set_queue(x, i, Queues(r.kind)[i], <<r.id, i>>),
                         r, [i \in 1..Len(Queues(r.kind)) |-> i])

\* MSI-X: the last vector is for configuration changes, the one before is shared
\* by all queues.
config_msix_irq == TableSize - 1
shared_interrupt_irq == TableSize - 2
VirtioMsixManager == [v \in 0..TableSize |-> <<>>]

\* PCI: the callback goes to the shared line, and the queue is told the vector.
RegisterQueuePci(r, index, func) ==
    LET on == [r EXCEPT !.lines[shared_interrupt_irq] = Append(@, func)]
    IN [select_queue(on, index) EXCEPT !.q[index].vector = shared_interrupt_irq]
RegisterQueueMmio(r, index, func) == [r EXCEPT !.queue_callbacks = Append(@, func)]
register_queue_callback(r, index, func) ==
    IF r.bus = "pci" THEN RegisterQueuePci(r, index, func) ELSE RegisterQueueMmio(r, index, func)

RegisterCfgPci(r) == [r EXCEPT !.lines[config_msix_irq] = Append(@, "cfg")]
RegisterCfgMmio(r) == [r EXCEPT !.cfg_callbacks = Append(@, "cfg")]
register_cfg_callback(r) == IF r.bus = "pci" THEN RegisterCfgPci(r) ELSE RegisterCfgMmio(r)

finish_init(r) == set_device_status(r, {"ACKNOWLEDGE", "DRIVER", "FEATURES_OK", "DRIVER_OK"})

----------------------------------------------------------------------------
\* Driver initialisation, up to the point where the device starts to work.

Post(r, n) == [r EXCEPT !.posted = @ + n]

InitNetwork(r) == finish_init(Post(NewQueues(r), Buffers))
InitInput(r) == finish_init(register_queue_callback(register_cfg_callback(Post(NewQueues(r), Buffers)), 1, "input"))
InitConsole(r) == finish_init(register_cfg_callback(register_queue_callback(Post(NewQueues(r), 1), 1, "console")))
\* A block device with more than one queue is refused.
InitBlock(r) == IF Len(r.q) # 1 THEN r
                ELSE finish_init(register_queue_callback(register_cfg_callback(NewQueues(r)), 1, "block"))

DeviceInit(r) == CASE r.kind = "net" -> InitNetwork(r)
                   [] r.kind = "input" -> InitInput(r)
                   [] r.kind = "console" -> InitConsole(r)
                   [] r.kind = "block" -> InitBlock(r)
                   [] OTHER -> r

\* Reset, acknowledge, negotiate, FEATURES_OK, then the driver.
InitTransport(r) ==
    LET acked == set_device_status(set_device_status(r, {}), {"ACKNOWLEDGE", "DRIVER"})
        negotiated == set_device_status(negotiate_features(acked), {"ACKNOWLEDGE", "DRIVER", "FEATURES_OK"})
    IN DeviceInit(negotiated)

virtio_component_init ==
    /\ boot = "drivers"
    /\ IF transports["pci"] = <<>> /\ transports["mmio"] = <<>>
       THEN boot' = "net" /\ UNCHANGED <<transports, dev, serve>>
       ELSE LET b == pop_device_transport
                d == Last(transports[b])
            IN /\ transports' = [transports EXCEPT ![b] = Front(@)]
               /\ dev' = [dev EXCEPT ![d] = InitTransport(@)]
               /\ serve' = [Idle EXCEPT !.d = d, !.at = IF "DRIVER_OK" \notin dev'[d].status THEN "idle"
                                                        ELSE IF hw[d].kind = "net" THEN "net_cfg"
                                                        ELSE "register"]
               /\ boot' = IF serve'.at = "idle" THEN "drivers" ELSE "device"
    /\ UNCHANGED <<hw, buses, registry, upper, enabled, events>>

\* What is left of NetworkDevice::init after DRIVER_OK, one register access at a time.
NetworkCallbacks ==
    /\ boot = "device" /\ serve.at \in {"net_cfg", "net_queue"}
    /\ dev' = [dev EXCEPT ![serve.d] = IF serve.at = "net_cfg" THEN register_cfg_callback(@)
                                       ELSE register_queue_callback(@, 1, "net")]
    /\ serve' = [serve EXCEPT !.at = IF serve.at = "net_cfg" THEN "net_queue" ELSE "register"]
    /\ UNCHANGED <<hw, buses, transports, registry, upper, boot, enabled, events>>

register_device ==
    /\ boot = "device" /\ serve.at = "register"
    /\ registry' = [registry EXCEPT ![hw[serve.d].kind] = serve.d]
    /\ boot' = "drivers" /\ serve' = Idle
    /\ UNCHANGED <<hw, buses, transports, dev, upper, enabled, events>>

----------------------------------------------------------------------------
\* Boot: find the devices, register the drivers, initialise the transports.

BusesOf(ds, b) == SelectSeq(ds, LAMBDA d : hw[d].bus = b)

bus_init ==
    /\ boot = "buses"
    /\ LET all == [d \in 1..Len(hw) |-> d]
       IN buses' = [buses EXCEPT !["pci"] = FoldLeft(register_common_device, @, BusesOf(all, "pci")),
                                 !["mmio"] = iter_range(@, BusesOf(all, "mmio"))]
    /\ boot' = "transports"
    /\ UNCHANGED <<hw, transports, dev, registry, upper, enabled, serve, events>>

transport_init ==
    /\ boot = "transports"
    /\ buses' = [b \in DOMAIN buses |-> register_driver(buses[b])]
    /\ transports' = [b \in DOMAIN buses |-> Probed(buses'[b])]
    /\ boot' = "drivers"
    /\ UNCHANGED <<hw, dev, registry, upper, enabled, serve, events>>

\* net::init registers the receive callback and polls once; the console callback
\* of the terminal comes later.  Without a network device IfaceVirtio::new panics,
\* so a machine has one.
register_recv_callback ==
    /\ boot = "net" /\ registry["net"] # 0
    /\ upper' = upper \cup {"net"}
    /\ serve' = [Idle EXCEPT !.d = registry["net"], !.at = "poll"]
    /\ boot' = "tty"
    /\ UNCHANGED <<hw, buses, transports, dev, registry, enabled, events>>

tty_init ==
    /\ boot = "tty" /\ serve = Idle
    /\ upper' = upper \cup {k \in {"console"} : registry[k] # 0}
    /\ boot' = "done" /\ enabled' = TRUE
    /\ UNCHANGED <<hw, buses, transports, dev, registry, serve, events>>

----------------------------------------------------------------------------
\* The devices

\* Interrupt a PCI device raises: the vector of the queue, if it has one.
Raise(r) == IF r.bus = "pci"
            THEN {[r EXCEPT !.pending = @ \cup ({r.q[1].vector} \ {-1})]}
            ELSE \* MMIO: the line rises with the status; a raise of a line that is
                 \* already up may or may not be latched by the IO APIC.
                 LET up == [r EXCEPT !.istatus = @ \cup {"queue"}]
                 IN IF r.istatus = {} THEN {[up EXCEPT !.pending = {Irq}]}
                    ELSE {up, [up EXCEPT !.pending = {Irq}]}

\* What a device reports: packets, console input, keys that are pressed or released,
\* events of other types, and those that end the driver's loop: a SYN, or a key that
\* is neither pressed nor released.
Reports(kind) == CASE kind = "input" -> {"key", "end", "rel"} [] OTHER -> {"data"}

UseBuffer(d, e) ==
    /\ events < MaxEvents /\ "DRIVER_OK" \in dev[d].status
    /\ dev[d].posted > 0
    /\ e \in Reports(hw[d].kind)
    /\ \E r \in Raise([dev[d] EXCEPT !.posted = @ - 1, !.used = Append(@, e)]) : dev' = [dev EXCEPT ![d] = r]
    /\ events' = events + 1
    /\ UNCHANGED <<hw, buses, transports, registry, upper, boot, enabled, serve>>

\* A configuration change: PCI devices have no vector for it (msix_config is never
\* written), MMIO devices raise their line.
ConfigChange(d) ==
    /\ events < MaxEvents /\ "DRIVER_OK" \in dev[d].status /\ hw[d].bus = "mmio"
    /\ dev' = [dev EXCEPT ![d].istatus = @ \cup {"cfg"}, ![d].pending = IF dev[d].istatus = {} THEN {Irq} ELSE @]
    /\ events' = events + 1
    /\ UNCHANGED <<hw, buses, transports, registry, upper, boot, enabled, serve>>

----------------------------------------------------------------------------
\* Interrupts

\* MultiplexIrq: the status decides which callbacks run.
multiplex(r) == IF "queue" \in r.istatus THEN r.queue_callbacks ELSE r.cfg_callbacks

call_irq_callback_functions(d, line) ==
    /\ enabled /\ serve = Idle /\ line \in dev[d].pending
    /\ dev' = [dev EXCEPT ![d].pending = @ \ {line}]
    /\ serve' = [d |-> d, at |-> "irq", status |-> dev[d].istatus,
                 todo |-> IF line = Irq THEN multiplex(dev[d]) ELSE dev[d].lines[line]]
    /\ UNCHANGED <<hw, buses, transports, registry, upper, boot, enabled, events>>

\* The callbacks ended.  An MMIO interrupt is acknowledged with the status that was read.
interrupt_ack ==
    /\ serve.at = "irq" /\ serve.todo = <<>>
    /\ dev' = [dev EXCEPT ![serve.d].istatus = @ \ serve.status]
    /\ serve' = Idle
    /\ UNCHANGED <<hw, buses, transports, registry, upper, boot, enabled, events>>

Done(s) == IF s.at = "irq" THEN [s EXCEPT !.todo = Tail(@)] ELSE Idle
Serving(k) == \/ serve.at = "irq" /\ serve.todo # <<>> /\ serve.todo[1] = k
              \/ serve.at = "poll" /\ k = "net"

\* pop_used and a new buffer
Take(r) == [r EXCEPT !.used = Tail(@), !.posted = @ + 1]

\* The callbacks of the upper layer that an interrupt runs.
handle_recv_irq == upper \cap {"net"}

\* IfaceVirtio::poll receives packets until there is none, called back from the
\* interrupt or by a task.
receive ==
    /\ Serving("net")
    /\ LET d == serve.d
       IN IF dev[d].used = <<>> \/ (serve.at = "irq" /\ handle_recv_irq = {})
          THEN serve' = Done(serve) /\ UNCHANGED dev
          ELSE dev' = [dev EXCEPT ![d] = Take(@)] /\ UNCHANGED serve
    /\ UNCHANGED <<hw, buses, transports, registry, upper, boot, enabled, events>>

\* ConsoleDevice::handle_irq takes one buffer, which is the only one.
handle_console_input ==
    /\ Serving("console")
    /\ serve' = Done(serve)
    /\ dev' = IF dev[serve.d].used = <<>> THEN dev ELSE [dev EXCEPT ![serve.d] = Take(@)]
    /\ UNCHANGED <<hw, buses, transports, registry, upper, boot, enabled, events>>

\* InputDevice::handle_irq: keys are reported, until an event ends the loop.
handle_input ==
    /\ Serving("input")
    /\ LET d == serve.d
       IN IF dev[d].used = <<>> THEN serve' = Done(serve) /\ UNCHANGED dev
          ELSE /\ dev' = [dev EXCEPT ![d] = Take(@)]
               /\ serve' = IF dev[d].used[1] = "end" THEN Done(serve) ELSE serve
    /\ UNCHANGED <<hw, buses, transports, registry, upper, boot, enabled, events>>

\* The block driver polls its queue; its interrupt handler, and the ones for
\* configuration changes, only log.
handle_block_device ==
    /\ Serving("block") \/ Serving("cfg")
    /\ serve' = Done(serve)
    /\ UNCHANGED <<hw, buses, transports, dev, registry, upper, boot, enabled, events>>

\* A task polls the network, with interrupts disabled meanwhile.
poll_ifaces ==
    /\ boot = "done" /\ serve = Idle
    /\ serve' = [Idle EXCEPT !.d = registry["net"], !.at = "poll"]
    /\ UNCHANGED <<hw, buses, transports, dev, registry, upper, boot, enabled, events>>

----------------------------------------------------------------------------
NewQueue == [size |-> 0, rings |-> <<0, 0>>, ready |-> FALSE, vector |-> -1]
NewDevice(d) ==
    [id |-> d, bus |-> hw[d].bus, kind |-> hw[d].kind, status |-> {}, dsel |-> 0, qsel |-> 1,
     drv |-> [w \in {0, 1} |-> {}], q |-> [i \in 1..hw[d].num_queues |-> NewQueue],
     lines |-> VirtioMsixManager, queue_callbacks |-> <<>>, cfg_callbacks |-> <<>>,
     posted |-> 0, used |-> <<>>, istatus |-> {}, pending |-> {}]

NewBus == [common_devices |-> <<>>, devices |-> <<>>, drivers |-> <<>>]

VInit ==
    /\ hw \in Machines
    /\ buses = [b \in {"pci", "mmio"} |-> NewBus]
    /\ transports = [b \in {"pci", "mmio"} |-> <<>>]
    /\ dev = [d \in Dev |-> NewDevice(d)]
    /\ registry = [k \in Implemented |-> 0]
    /\ upper = {} /\ boot = "buses" /\ enabled = FALSE /\ serve = Idle /\ events = 0

VNext ==
    \/ bus_init \/ transport_init \/ virtio_component_init \/ NetworkCallbacks
    \/ register_device \/ register_recv_callback \/ tty_init
    \/ \E d \in Dev : \/ \E e \in Reports(hw[d].kind) : UseBuffer(d, e)
                      \/ ConfigChange(d)
                      \/ \E l \in 0..Irq : call_irq_callback_functions(d, l)
    \/ interrupt_ack \/ receive \/ handle_console_input \/ handle_input
    \/ handle_block_device \/ poll_ifaces

VSpec == VInit /\ [][VNext]_vvars

----------------------------------------------------------------------------
\* Properties

Configured(r) ==
    /\ "DRIVER_OK" \in r.status
    /\ r.drv[0] \cup r.drv[1] = Offered(r.kind) \ {"event_idx", "multiport"}
    /\ \A w \in {0, 1} : r.drv[w] \subseteq Word(w)
    /\ \A i \in 1..Len(r.q) : r.q[i] = [NewQueue EXCEPT !.size = Queues(r.kind)[i], !.rings = <<r.id, i>>,
                                        !.ready = TRUE, !.vector = r.q[i].vector]
    /\ IF r.bus = "pci" THEN r.lines[r.q[1].vector] = <<r.kind>> ELSE r.queue_callbacks = <<r.kind>>

Supported(d) == hw[d].kind \in Implemented /\ (hw[d].kind = "block" => hw[d].num_queues = 1)

\* When boot has ended, every virtio device the kernel has a driver for works: it
\* was probed once whatever its bus and place, it knows the features the driver
\* accepted, each queue has its own rings, its receive queue interrupts through the
\* driver's handler, and the handler finds it in the registry.  No other device does,
\* a block device with two queues among them.
DevicesReady ==
    boot \in {"net", "tty", "done"} =>
        \A d \in Dev : IF Supported(d) THEN Configured(dev[d]) /\ registry[hw[d].kind] = d
                       ELSE "DRIVER_OK" \notin dev[d].status /\ \A k \in Implemented : registry[k] # d

\* Nothing is left in the ring of a device whose interrupt is not on its way: it is
\* pending, or a handler or a poll is still going to look.
Stranded(d) == boot = "done" /\ dev[d].used # <<>> /\ dev[d].pending = {} /\ serve.d # d

\* Packets and console input that a PCI device delivers are never left in the ring
\* without an interrupt, whatever is delivered during boot or while a handler runs;
\* and the console always has its one buffer to receive into.
InputReachesDriver ==
    \A d \in Dev : hw[d].kind \in {"net", "console"} =>
        /\ hw[d].bus = "pci" => ~Stranded(d)
        /\ boot = "done" => dev[d].posted + Len(dev[d].used) = IF hw[d].kind = "net" THEN Buffers ELSE 1
=============================================================================
