----------------------------- MODULE MCMachine ------------------------------
(* The scheduler and wait queues, and with them the devices: the virtio    *)
(* queue and drivers, interrupt lines, the clocks and timers, the block    *)
(* layer and the three stages of boot. A behaviour exercises one part,     *)
(* chosen in MCInit; the variables of the others are absent (0) or stay as *)
(* they are.                                                               *)
EXTENDS TaskSched

(* Parts are those that the run exercises.                                 *)
CONSTANTS Parts, init, worker1, worker2

VARIABLES which, vq_driver, vq_q, vq_posted, vq_taken, vq_devAvail,
          vq_tokens, vq_hw, vq_buses, vq_transports, vq_dev, vq_registry,
          vq_upper, vq_boot, vq_enabled, vq_serve, vq_events, il_numbers,
          il_ids, il_lines, il_callback_list, il_entry, il_irqs, ck_freq,
          ck_mode, ck_tsc, ck_chip, ck_rtc, ck_start_time, ck_coeff,
          ck_last_cycles, ck_last_instant, ck_due, ck_phase, ck_vdso,
          ck_start_secs, ck_kr, ck_ur, ck_halt, ck_TICK, ck_timeout_list,
          ck_callback, ck_timer, ck_callbacks, ck_called, bl_bio, bl_queue,
          bl_num_requests, bl_device, bl_sector, bl_waiter, bl_awaited,
          bl_at, bl_halt, bl_written, bl_expected, bt_protocol, bt_map,
          bt_kernel, bt_module, bt_fb, bt_regions, bt_usable, bt_unusable,
          bt_k, bt_frames, bt_framebuffers, bt_stage, bt_g, bt_prioritys,
          bt_todo, bt_infos, bt_called, bt_failed, bt_step, bt_archive,
          bt_bytes, bt_pos, bt_entry, bt_tree, bt_at

(* Tasks that wake each other; interrupts, timeouts and a real-time task.  *)
MCEnvs ==
  {[realtime |-> {}, timeouts |-> {NoTimeout}, wakes |-> {"one", "all"}, irq |-> FALSE],
   [realtime |-> {}, timeouts |-> {0, 1}, wakes |-> {"one"}, irq |-> FALSE],
   [realtime |-> {worker1}, timeouts |-> {NoTimeout}, wakes |-> {"all"}, irq |-> FALSE],
   [realtime |-> {worker1}, timeouts |-> {1}, wakes |-> {"all"}, irq |-> TRUE]}

(* Two devices on either bus and one that no driver wants; five devices;   *)
(* a block device with two queues.                                         *)
OnBus(x, k) == [bus |-> x, kind |-> k, num_queues |-> IF k = "block" THEN 1 ELSE 2]
VirtioMachines ==
  {<<OnBus(x, "net"), OnBus("pci", "other"), OnBus(y, k)>> :
     x \in {"pci", "mmio"}, y \in {"pci", "mmio"}, k \in {"block", "console", "input"}}
  \cup {<<OnBus("pci", "other"), OnBus("mmio", "input"), OnBus("mmio", "block"),
          OnBus("pci", "console"), OnBus("pci", "net")>>,
        <<OnBus("pci", "net"), [OnBus("pci", "block") EXCEPT !.num_queues = 2]>>}

(* Chips in each of their modes, shortly before a carry.                   *)
Chip(f, x, y, z, t) ==
  [freq |-> f, mode |-> [bcd |-> x, h24 |-> y, century |-> z], time |-> t]
ClockMachines ==
  {Chip(2, TRUE, TRUE, TRUE, <<59, 59, 23, 11, 99, 19>>),
   Chip(3, TRUE, FALSE, FALSE, <<58, 59, 19, 3, 23, 20>>),
   Chip(4, FALSE, FALSE, TRUE, <<59, 59, 22, 11, 99, 20>>)}

BlockRanges == {<<0, 2>>, <<2, 2>>, <<4, 2>>, <<6, 2>>, <<0, 4>>}

(* The usable regions of a map do not overlap each other.                  *)
Region(x, n, t) == [base |-> x, len |-> n, typ |-> t]
BootMaps == {<<Region(0, 3, "Usable"), Region(3, 2, "Reserved"), Region(5, 7, "Usable")>>,
             <<Region(1, 11, "Usable"), Region(4, 3, "Reclaimable")>>,
             <<Region(0, 12, "Usable"), Region(7, 2, "Reserved")>>,
             <<Region(0, 4, "Reclaimable"), Region(4, 8, "Usable")>>}
BootPlaced == {<<x, n>> : x \in {0, 2, 5, 7}, n \in {1, 4}}

(* Dependencies go from later to earlier packages: cargo refuses cycles.   *)
BootPackages == {"a", "b", "c", "d"}
BootGraphs ==
  {[deps |-> [a |-> {}, b |-> x, c |-> y, d |-> z], comps |-> u, listed |-> v, registered |-> w] :
     x \in SUBSET {"a"}, y \in SUBSET {"a", "b"}, z \in SUBSET {"a", "b", "c"},
     u \in {BootPackages, BootPackages \ {"b"}}, v \in {BootPackages, BootPackages \ {"c"}},
     w \in {BootPackages, BootPackages \ {"b"}}}

(* Every length of a name and of data modulo 4; a file before its          *)
(* directory; the same path twice; a device; no /dev.                      *)
Entry(p, t, n, l) == [path |-> p, type |-> t, size |-> n, namelen |-> l]
Trailer == Entry(<<"TRAILER!!!">>, "trailer", 0, 10)
Base == <<Entry(<<".">>, "dir", 0, 1), Entry(<<"proc">>, "dir", 0, 4), Entry(<<"dev">>, "dir", 0, 3)>>
BootArchives ==
  {Base \o <<Entry(<<"a">>, "file", n, 1), Entry(<<"b">>, "link", m, 2), Trailer>> :
     n \in 0 .. 5, m \in 1 .. 3}
  \cup {Base \o <<Entry(<<"d">>, "dir", 0, l), Entry(<<"d", "f">>, "file", 3, l + 2), Trailer>> :
          l \in 1 .. 4}
  \cup {Base \o <<Entry(<<"d", "f">>, "file", 1, 3), Entry(<<"d">>, "dir", 0, 1), Trailer>>,
        Base \o <<Entry(<<"a">>, "file", 1, 1), Entry(<<"a">>, "file", 2, 1), Trailer>>,
        Base \o <<Entry(<<"a">>, "device", 0, 1), Trailer>>,
        SubSeq(Base, 1, 2) \o <<Trailer>>}

VQ == INSTANCE Virtio WITH QueueSize <- 4, IdxMod <- 8, MaxChain <- 3,
        Machines <- VirtioMachines, TableSize <- 3, Buffers <- 2,
        MaxEvents <- 4, driver <- vq_driver, q <- vq_q, posted <- vq_posted,
        taken <- vq_taken, devAvail <- vq_devAvail, tokens <- vq_tokens,
        hw <- vq_hw, buses <- vq_buses, transports <- vq_transports,
        dev <- vq_dev, registry <- vq_registry, upper <- vq_upper,
        boot <- vq_boot, enabled <- vq_enabled, serve <- vq_serve,
        events <- vq_events
queueVars == <<vq_driver, vq_q, vq_posted, vq_taken, vq_devAvail, vq_tokens>>
virtioVars == <<vq_hw, vq_buses, vq_transports, vq_dev, vq_registry, vq_upper,
                vq_boot, vq_enabled, vq_serve, vq_events>>
IL == INSTANCE IrqLines WITH START <- 1, MAX <- 4, MaxObjects <- 3,
        MaxCallbacks <- 1, Entries <- {1}, numbers <- il_numbers,
        ids <- il_ids, lines <- il_lines, callback_list <- il_callback_list,
        entry <- il_entry, irqs <- il_irqs
linesVars == <<il_numbers, il_ids, il_lines, il_callback_list, il_entry,
               il_irqs>>
CK == INSTANCE Clock WITH Machines <- ClockMachines, NANOS_PER_SECOND <- 10,
        MAX_DELAY_SECS <- 4, WIDTH <- 4, LATENCY <- 1, BOOT_CYCLES <- 6,
        MAX_CYCLES <- 24, RTC_TICKS <- 1, TimerIds <- {1, 2},
        CallbackIds <- 1 .. 3, Timeouts <- {0, 4, 9}, TIMER_FREQ <- 2,
        NANOS <- 8, MaxTick <- 4, freq <- ck_freq, mode <- ck_mode,
        tsc <- ck_tsc, chip <- ck_chip, rtc <- ck_rtc,
        start_time <- ck_start_time, coeff <- ck_coeff,
        last_cycles <- ck_last_cycles, last_instant <- ck_last_instant,
        due <- ck_due, phase <- ck_phase, vdso <- ck_vdso,
        start_secs <- ck_start_secs, kr <- ck_kr, ur <- ck_ur,
        halt <- ck_halt, TICK <- ck_TICK, timeout_list <- ck_timeout_list,
        callback <- ck_callback, timer <- ck_timer, callbacks <- ck_callbacks,
        called <- ck_called
clockVars == <<ck_freq, ck_mode, ck_tsc, ck_chip, ck_rtc, ck_start_time,
               ck_coeff, ck_last_cycles, ck_last_instant, ck_due, ck_phase,
               ck_vdso, ck_start_secs, ck_kr, ck_ur, ck_halt>>
timersVars == <<ck_TICK, ck_timeout_list, ck_callback, ck_timer, ck_callbacks,
                ck_called>>
BL == INSTANCE Block WITH Threads <- {"t"}, MaxBio <- 4, Disk <- 8,
        SECTOR_SIZE <- 2, BLOCK_SIZE <- 4, QUEUE_SIZE <- 5,
        Ranges <- BlockRanges, bio <- bl_bio, queue <- bl_queue,
        num_requests <- bl_num_requests, device <- bl_device,
        sector <- bl_sector, waiter <- bl_waiter, awaited <- bl_awaited,
        at <- bl_at, halt <- bl_halt, written <- bl_written,
        expected <- bl_expected
blockVars == <<bl_bio, bl_queue, bl_num_requests, bl_device, bl_sector,
               bl_waiter, bl_awaited, bl_at, bl_halt, bl_written,
               bl_expected>>
BT == INSTANCE Boot WITH MEMORY <- 12, PAGE_SIZE <- 2, Maps <- BootMaps,
        Placed <- BootPlaced,
        Protocols <- {"multiboot", "multiboot2", "linux"},
        Packages <- BootPackages, Graphs <- BootGraphs,
        Archives <- BootArchives, HEADER_LEN <- 6, BUFFER <- 2,
        protocol <- bt_protocol, map <- bt_map, kernel <- bt_kernel,
        module <- bt_module, fb <- bt_fb, regions <- bt_regions,
        usable <- bt_usable, unusable <- bt_unusable, k <- bt_k,
        frames <- bt_frames, framebuffers <- bt_framebuffers,
        stage <- bt_stage, g <- bt_g, prioritys <- bt_prioritys,
        todo <- bt_todo, infos <- bt_infos, called <- bt_called,
        failed <- bt_failed, step <- bt_step, archive <- bt_archive,
        bytes <- bt_bytes, pos <- bt_pos, entry <- bt_entry, tree <- bt_tree,
        at <- bt_at
framesVars == <<bt_protocol, bt_map, bt_kernel, bt_module, bt_fb, bt_regions,
                bt_usable, bt_unusable, bt_k, bt_frames, bt_framebuffers,
                bt_stage>>
componentsVars == <<bt_g, bt_prioritys, bt_todo, bt_infos, bt_called,
                    bt_failed, bt_step>>
initramfsVars == <<bt_archive, bt_bytes, bt_pos, bt_entry, bt_tree, bt_at>>

allVars == <<which, vars, queueVars, virtioVars, linesVars, clockVars,
             timersVars, blockVars, framesVars, componentsVars,
             initramfsVars>>

MCInit ==
  /\ which \in Parts
  /\ Init
  /\ which # "sched" => env = CHOOSE e \in Envs : TRUE
  /\ IF which = "queue" THEN VQ!QInit
     ELSE vq_driver = 0 /\ vq_q = 0 /\ vq_posted = 0 /\ vq_taken = 0 /\
          vq_devAvail = 0 /\ vq_tokens = 0
  /\ IF which = "virtio" THEN VQ!VInit
     ELSE vq_hw = 0 /\ vq_buses = 0 /\ vq_transports = 0 /\ vq_dev = 0 /\
          vq_registry = 0 /\ vq_upper = 0 /\ vq_boot = 0 /\ vq_enabled = 0 /\
          vq_serve = 0 /\ vq_events = 0
  /\ IF which = "lines" THEN IL!LInit
     ELSE il_numbers = 0 /\ il_ids = 0 /\ il_lines = 0 /\ il_callback_list = 0
          /\ il_entry = 0 /\ il_irqs = 0
  /\ IF which = "clock" THEN CK!CInit
     ELSE ck_freq = 0 /\ ck_mode = 0 /\ ck_tsc = 0 /\ ck_chip = 0 /\ ck_rtc =
          0 /\ ck_start_time = 0 /\ ck_coeff = 0 /\ ck_last_cycles = 0 /\
          ck_last_instant = 0 /\ ck_due = 0 /\ ck_phase = 0 /\ ck_vdso = 0 /\
          ck_start_secs = 0 /\ ck_kr = 0 /\ ck_ur = 0 /\ ck_halt = 0
  /\ IF which = "timers" THEN CK!TMInit
     ELSE ck_TICK = 0 /\ ck_timeout_list = 0 /\ ck_callback = 0 /\ ck_timer =
          0 /\ ck_callbacks = 0 /\ ck_called = 0
  /\ IF which = "block" THEN BL!BInit
     ELSE bl_bio = 0 /\ bl_queue = 0 /\ bl_num_requests = 0 /\ bl_device = 0
          /\ bl_sector = 0 /\ bl_waiter = 0 /\ bl_awaited = 0 /\ bl_at = 0 /\
          bl_halt = 0 /\ bl_written = 0 /\ bl_expected = 0
  /\ IF which = "frames" THEN BT!BMInit
     ELSE bt_protocol = 0 /\ bt_map = 0 /\ bt_kernel = 0 /\ bt_module = 0 /\
          bt_fb = 0 /\ bt_regions = 0 /\ bt_usable = 0 /\ bt_unusable = 0 /\
          bt_k = 0 /\ bt_frames = 0 /\ bt_framebuffers = 0 /\ bt_stage = 0
  /\ IF which = "components" THEN BT!COInit
     ELSE bt_g = 0 /\ bt_prioritys = 0 /\ bt_todo = 0 /\ bt_infos = 0 /\
          bt_called = 0 /\ bt_failed = 0 /\ bt_step = 0
  /\ IF which = "initramfs" THEN BT!IRInit
     ELSE bt_archive = 0 /\ bt_bytes = 0 /\ bt_pos = 0 /\ bt_entry = 0 /\
          bt_tree = 0 /\ bt_at = 0

MCNext ==
  /\ UNCHANGED which
  /\ \/ which = "sched" /\ Next /\ UNCHANGED <<queueVars, virtioVars,
           linesVars, clockVars, timersVars, blockVars, framesVars,
           componentsVars, initramfsVars>>
     \/ which = "queue" /\ VQ!QNext /\ UNCHANGED <<vars, virtioVars,
           linesVars, clockVars, timersVars, blockVars, framesVars,
           componentsVars, initramfsVars>>
     \/ which = "virtio" /\ VQ!VNext /\ UNCHANGED <<vars, queueVars,
           linesVars, clockVars, timersVars, blockVars, framesVars,
           componentsVars, initramfsVars>>
     \/ which = "lines" /\ IL!LNext /\ UNCHANGED <<vars, queueVars,
           virtioVars, clockVars, timersVars, blockVars, framesVars,
           componentsVars, initramfsVars>>
     \/ which = "clock" /\ CK!CNext /\ UNCHANGED <<vars, queueVars,
           virtioVars, linesVars, timersVars, blockVars, framesVars,
           componentsVars, initramfsVars>>
     \/ which = "timers" /\ CK!TMNext /\ UNCHANGED <<vars, queueVars,
           virtioVars, linesVars, clockVars, blockVars, framesVars,
           componentsVars, initramfsVars>>
     \/ which = "block" /\ BL!BNext /\ UNCHANGED <<vars, queueVars,
           virtioVars, linesVars, clockVars, timersVars, framesVars,
           componentsVars, initramfsVars>>
     \/ which = "frames" /\ BT!BMNext /\ UNCHANGED <<vars, queueVars,
           virtioVars, linesVars, clockVars, timersVars, blockVars,
           componentsVars, initramfsVars>>
     \/ which = "components" /\ BT!CONext /\ UNCHANGED <<vars, queueVars,
           virtioVars, linesVars, clockVars, timersVars, blockVars,
           framesVars, initramfsVars>>
     \/ which = "initramfs" /\ BT!IRNext /\ UNCHANGED <<vars, queueVars,
           virtioVars, linesVars, clockVars, timersVars, blockVars,
           framesVars, componentsVars>>

MCSpec == MCInit /\ [][MCNext]_allVars

(* What a step may not do: no real-time task is passed over twice, and no  *)
(* reading of the clock goes back.                                         *)
StepsSound == /\ RealTimeFirst
              /\ [][which = "clock" => CK!Forward]_allVars

(* The queue that driver and device share, and the devices: descriptors    *)
(* are in one place each, chains are what was posted, every device that    *)
(* the bus found is ready for its driver, and no input stays unseen.       *)
VirtioSound ==
  /\ which = "queue" => /\ VQ!ChainsIntact /\ VQ!FreeListSound
                        /\ VQ!ChainInOnePlace /\ VQ!TokenIsReused
  /\ which = "virtio" => VQ!DevicesReady /\ VQ!InputReachesDriver

(* Interrupt lines, and the bios of the block layer.                       *)
LinesSound == which = "lines" => IL!LinesSound
BlockSound == which = "block" => BL!DiskInOrder /\ BL!BioNotStuck

(* The clocks tell the time, and a timer calls its function in time.       *)
TimeSound == /\ which = "clock" => CK!ClockSound
             /\ which = "timers" => CK!TimersSound

(* The allocator gets the usable frames and only those, components are     *)
(* initialised after what they depend on, and the root file system holds   *)
(* what the archive does.                                                  *)
BootSound == /\ which = "frames" => BT!FramesSound
             /\ which = "components" => BT!DependenciesFirst
             /\ which = "initramfs" => BT!InitramfsSound
=============================================================================
