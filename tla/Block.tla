------------------------------- MODULE Block -------------------------------
(***************************************************************************)
(* The block layer (services/comps/block/) with the single queue and the   *)
(* request thread of the virtio block driver                               *)
(* (services/comps/virtio/src/device/block/device.rs): bios are submitted, *)
(* merged into requests, carried out by the device and completed, and      *)
(* threads wait for them.                                                  *)
(*                                                                         *)
(* The request thread polls the device with interrupts disabled, so that a *)
(* request is one step.  What a sector holds is the bio that wrote it.     *)
(***************************************************************************)
EXTENDS Integers, Sequences

CONSTANTS Threads,
          MaxBio,                   \* bios that are ever made
          Disk,                     \* bytes of the device
          SECTOR_SIZE, BLOCK_SIZE,  \* bytes
          Ranges,                   \* <<offset, length>> of the calls, in bytes
          QUEUE_SIZE                \* descriptors of the virtqueue

VARIABLES bio,            \* Seq of [type, start, end, status, data]
          queue,          \* Seq of requests, newest first
          num_requests,
          device,         \* is the request thread "asleep" in dequeue, or "running"
          sector,         \* what the device holds
          waiter,         \* the bios whose waiter a thread keeps
          awaited,        \* the bios for which it waits, in order
          at,             \* of a thread: "user", "asleep", "woken"
          halt,           \* a panic of the driver
          written, expected   \* ghosts: the last write submitted per sector, and
                              \* what each read was to find

bvars == <<bio, queue, num_requests, device, sector, waiter, awaited, at, halt, written,
           expected>>

Sid(offset) == offset \div SECTOR_SIZE
Bid(offset) == offset \div BLOCK_SIZE
Sectors == 0..(Sid(Disk) - 1)
Span(r) == r.start..(r.end - 1)

BInit == /\ bio = <<>> /\ queue = <<>> /\ num_requests = 0
         /\ device = "running"
         /\ sector = [s \in Sectors |-> 0]
         /\ waiter = [t \in Threads |-> <<>>] /\ awaited = waiter
         /\ at = [t \in Threads |-> "user"]
         /\ halt = FALSE
         /\ written = [s \in Sectors |-> 0] /\ expected = <<>>

-----------------------------------------------------------------------------
(* BioRequest.                                                             *)

can_merge(request, b) == /\ b.type = request.type
                         /\ b.start = request.end \/ b.end = request.start

(* Mutant: a bio that ends where the request starts goes to its end too.   *)
MergeAtTheEnd(request, b, id) ==
  IF b.start = request.end
  THEN [request EXCEPT !.end = b.end, !.bios = Append(@, id)]
  ELSE [request EXCEPT !.start = b.start, !.bios = Append(@, id)]

merge_bio(request, b, id) ==
  IF b.start = request.end
  THEN [request EXCEPT !.end = b.end, !.bios = Append(@, id)]
  ELSE [request EXCEPT !.start = b.start, !.bios = <<id>> \o @]

FromBio(b, id) == [type |-> b.type, start |-> b.start, end |-> b.end, bios |-> <<id>>]

(* BioSingleQueue::enqueue: into the newest request, or a request of its   *)
(* own, which wakes the request thread.                                    *)
enqueue(b, id) ==
  IF queue # <<>> /\ can_merge(Head(queue), b)
  THEN /\ queue' = <<merge_bio(Head(queue), b, id)>> \o Tail(queue)
       /\ UNCHANGED <<num_requests, device>>
  ELSE /\ queue' = <<FromBio(b, id)>> \o queue
       /\ num_requests' = num_requests + 1
       /\ device' = "running"

-----------------------------------------------------------------------------
(* read_bytes, write_bytes and write_bytes_async up to the bio: no bio for *)
(* an unaligned or an empty range.  The buffer covers whole blocks.        *)
Aligned(range) == range[1] % SECTOR_SIZE = 0 /\ range[2] % SECTOR_SIZE = 0
NumBlocks(range) == Bid(range[1] + range[2] - 1) - Bid(range[1]) + 1
MakesBio(range) == Aligned(range) /\ range[2] > 0

(* BioSegment::from_segment asserts that the segment covers the range.     *)
from_segment(range) ==
  (range[1] % BLOCK_SIZE) + range[2] <= NumBlocks(range) * BLOCK_SIZE

NewBio(type, range) ==
  [type |-> type, start |-> Sid(range[1]), end |-> Sid(range[1]) + Sid(range[2]),
   status |-> "Submit", data |-> <<>>]

(* The ghosts at the submission of b.                                      *)
Recorded(b, id) ==
  /\ written' = [s \in Sectors |-> IF b.type = "Write" /\ s \in Span(b) THEN id
                                   ELSE written[s]]
  /\ expected' = Append(expected,
                        IF b.type = "Read" THEN [s \in Span(b) |-> written[s]] ELSE <<>>)

(* BioWaiter::concat.                                                      *)
concat(ids, id) == Append(ids, id)

(* Bio::submit; a synchronous call waits for that bio, an asynchronous one *)
(* keeps the waiter.                                                       *)
submit(t, type, range, sync) ==
  /\ at[t] = "user" /\ Len(bio) < MaxBio
  /\ LET b == NewBio(type, range)
         id == Len(bio) + 1
     IN  /\ bio' = Append(bio, b)
         /\ enqueue(b, id)
         /\ IF sync THEN /\ awaited' = [awaited EXCEPT ![t] = <<id>>]
                         /\ at' = [at EXCEPT ![t] = "asleep"]
                         /\ UNCHANGED waiter
                    ELSE /\ waiter' = [waiter EXCEPT ![t] = concat(@, id)]
                         /\ UNCHANGED <<awaited, at>>
         /\ Recorded(b, id)
  /\ halt' = ~from_segment(range)
  /\ UNCHANGED sector

read_bytes(t, range) == MakesBio(range) /\ submit(t, "Read", range, TRUE)
write_bytes(t, range) == MakesBio(range) /\ submit(t, "Write", range, TRUE)
write_bytes_async(t, range) == MakesBio(range) /\ submit(t, "Write", range, FALSE)

(* The calls that move whole blocks.                                       *)
WholeBlocks(range) == range[1] % BLOCK_SIZE = 0 /\ range[2] % BLOCK_SIZE = 0
read_blocks(t, range) ==
  WholeBlocks(range) /\ \E sync \in BOOLEAN : submit(t, "Read", range, sync)
write_blocks(t, range) ==
  WholeBlocks(range) /\ \E sync \in BOOLEAN : submit(t, "Write", range, sync)

(* BioWaiter::wait goes through its bios and sleeps on the first that is   *)
(* still submitted.                                                        *)
StillSubmitted(ids) == SelectSeq(ids, LAMBDA id : bio[id].status = "Submit")
wait(t) ==
  /\ \/ /\ at[t] = "user" /\ waiter[t] # <<>>
        /\ awaited' = [awaited EXCEPT ![t] = StillSubmitted(waiter[t])]
        /\ waiter' = [waiter EXCEPT ![t] = <<>>]
     \/ /\ at[t] = "woken"
        /\ awaited' = [awaited EXCEPT ![t] = StillSubmitted(awaited[t])]
        /\ UNCHANGED waiter
  /\ at' = [at EXCEPT ![t] = IF awaited'[t] = <<>> THEN "user" ELSE "asleep"]
  /\ UNCHANGED <<bio, queue, num_requests, device, sector, halt, written, expected>>

-----------------------------------------------------------------------------
(* The sectors that the device moves for the i-th bio of a request: the    *)
(* buffers follow each other from the first sector of the request.         *)
Length(id) == bio[id].end - bio[id].start

Before[bios \in Seq(1..MaxBio), i \in 1..MaxBio] ==
  IF i = 1 THEN 0 ELSE Before[bios, i - 1] + Length(bios[i - 1])

Place(request, i) == request.start + Before[request.bios, i]
PlaceOf(request, id) ==
  LET i == CHOOSE i \in 1..Len(request.bios) : request.bios[i] = id
  IN  Place(request, i)
InRequest(request, id) == \E i \in 1..Len(request.bios) : request.bios[i] = id
Holder(request, s) ==
  CHOOSE id \in 1..Len(bio) :
    InRequest(request, id) /\ s - PlaceOf(request, id) \in 0..(Length(id) - 1)

IdsOf(request) == { id \in 1..Len(bio) : InRequest(request, id) }

(* SubmittedBio::complete of all the bios of a request, with the data that *)
(* its reads got, and wake_all of their waiters.                           *)
complete(request, got) ==
  /\ bio' = [id \in 1..Len(bio) |->
               IF ~InRequest(request, id) THEN bio[id]
               ELSE [bio[id] EXCEPT !.status = "Complete", !.data = got[id]]]
  /\ at' = [t \in Threads |->
              IF at[t] = "asleep" /\ InRequest(request, Head(awaited[t])) THEN "woken"
              ELSE at[t]]

(* DeviceInner::read: what arrives in the buffer of a bio.                 *)
ReadInto(request, id, b) == [s \in Span(b) |-> sector[PlaceOf(request, id) + s - b.start]]
(* DeviceInner::write: what the device holds afterwards.                   *)
WrittenFrom(request) == [s \in Sectors |-> IF s \in Span(request) THEN Holder(request, s)
                                           ELSE sector[s]]

do_read(request) ==
  /\ complete(request, [id \in IdsOf(request) |-> ReadInto(request, id, bio[id])])
  /\ UNCHANGED sector

do_write(request) == /\ complete(request, [id \in IdsOf(request) |-> <<>>])
                     /\ sector' = WrittenFrom(request)

(* BioSingleQueue::dequeue takes the oldest request.                       *)
Popped(q) == q[Len(q)]

(* handle_requests: one descriptor for each buffer, one for the header and *)
(* one for the response; add_vm fails when the queue has not that many.    *)
handle_requests ==
  /\ device = "running" /\ num_requests > 0
  /\ LET request == Popped(queue)
     IN  /\ num_requests' = num_requests - 1
         /\ queue' = SelectSeq(queue, LAMBDA r : r # request)
         /\ IF Len(request.bios) + 2 > QUEUE_SIZE
            THEN halt' = TRUE /\ UNCHANGED <<bio, at, sector>>
            ELSE /\ UNCHANGED halt
                 /\ \/ request.type = "Read" /\ do_read(request)
                    \/ request.type = "Write" /\ do_write(request)
  /\ UNCHANGED <<device, waiter, awaited, written, expected>>

(* dequeue sleeps while there is no request.                               *)
SleepInDequeue == /\ device = "running" /\ num_requests = 0
                  /\ device' = "asleep"
                  /\ UNCHANGED <<bio, queue, num_requests, sector, waiter, awaited, at,
                                 halt, written, expected>>

-----------------------------------------------------------------------------
BNext == /\ ~halt
         /\ \/ \E t \in Threads : \/ wait(t)
                                  \/ \E range \in Ranges :
                                       \/ read_bytes(t, range)
                                       \/ write_bytes(t, range)
                                       \/ write_bytes_async(t, range)
                                       \/ read_blocks(t, range)
                                       \/ write_blocks(t, range)
            \/ handle_requests \/ SleepInDequeue

BSpec == BInit /\ [][BNext]_bvars

-----------------------------------------------------------------------------
(* Merging reorders nothing that overlaps: a completed read got what had   *)
(* been written before it was submitted, and when the queue is empty each  *)
(* sector holds the last write that was submitted for it.                  *)
DiskInOrder ==
  ~halt => /\ \A id \in 1..Len(bio) :
                bio[id].type = "Read" /\ bio[id].status = "Complete"
                  => bio[id].data = expected[id]
           /\ queue = <<>> => sector = written

(* Nothing hangs: a bio that is submitted is in exactly one request, the   *)
(* request thread is awake while there is one, num_requests counts them,   *)
(* and a thread sleeps only on a bio that is not complete.                 *)
BioNotStuck ==
  /\ \A id \in 1..Len(bio) : bio[id].status = "Submit" /\ ~halt =>
       \E i \in 1..Len(queue) : /\ InRequest(queue[i], id)
                                /\ \A j \in 1..Len(queue) : InRequest(queue[j], id) => i = j
  /\ queue # <<>> => device = "running"
  /\ num_requests = Len(queue)
  /\ \A t \in Threads : at[t] = "asleep" => bio[Head(awaited[t])].status = "Submit"
=============================================================================
