------------------------------ MODULE VirtioBlk ------------------------------
(***************************************************************************)
(* The virtio-blk driver (drivers/virtio_blk.rs) and the device, which     *)
(* works concurrently on memory it shares with the driver: one request     *)
(* header, one data block and one status byte, used by every request, and  *)
(* the two indices of the virtqueue.  The driver polls for the completion  *)
(* and gives up after a number of turns.                                   *)
(*                                                                         *)
(* Every request occupies descriptors 0 to 2, so the ring entries are all  *)
(* zero and only the free-running 16-bit indices matter.                   *)
(***************************************************************************)
EXTENDS Naturals

CONSTANTS
    Lbas,         \* block numbers callers use
    InRange,      \* those the device has
    Blocks,       \* contents of a block
    IdxMod,       \* 2^16: where avail.idx and used.idx wrap
    NoReq, NoReply, NoJob

ASSUME RangeAssumption == InRange \subseteq Lbas
ASSUME IdxAssumption == IdxMod \in Nat /\ IdxMod > 1

Requests == [kind : {"in", "out"}, lba : Lbas, data : Blocks]
ASSUME NoReqAssumption == NoReq \notin Requests
Jobs == [kind : {"in", "out"}, lba : Lbas, phase : {"fetched", "moved"}]
ASSUME NoJobAssumption == NoJob \notin Jobs

VARIABLES
    pc,              \* where the driver is: "idle", "hdr", "data", "status", "wait", "check", "copy"
    req, reply,      \* the call in progress and what the last one returned
    last_used_idx,   \* VirtioBlk.last_used_idx
    REQ_HDR, REQ_DATA, REQ_STATUS,
    avail_idx, used_idx,
    seen,            \* the device: how far it has taken requests
    job,             \* the request it is working on
    disk,            \* the medium
    late             \* history: a request has timed out

vars == <<pc, req, reply, last_used_idx, REQ_HDR, REQ_DATA, REQ_STATUS,
          avail_idx, used_idx, seen, job, disk, late>>
deviceVars == <<seen, job, disk, used_idx>>
sharedVars == <<REQ_HDR, REQ_DATA, REQ_STATUS, avail_idx>>

Indices == 0..(IdxMod - 1)
wrapping_add1(i) == IF i = IdxMod - 1 THEN 0 ELSE i + 1

Headers == [kind : {"in", "out"}, lba : Lbas]
Replies == [ok : BOOLEAN, data : Blocks]

TypeOK ==
    /\ pc \in {"idle", "hdr", "data", "status", "wait", "check", "copy"}
    /\ req \in Requests \union {NoReq}
    /\ reply \in Replies \union {NoReply}
    /\ REQ_HDR \in Headers
    /\ REQ_DATA \in Blocks
    /\ REQ_STATUS \in {"ok", "error", "unset"}
    /\ last_used_idx \in Indices /\ avail_idx \in Indices
    /\ used_idx \in Indices /\ seen \in Indices
    /\ job \in Jobs \union {NoJob}
    /\ disk \in [Lbas -> Blocks]
    /\ late \in BOOLEAN

\* After try_init.
Init ==
    /\ pc = "idle"
    /\ req = NoReq /\ reply = NoReply
    /\ last_used_idx = 0 /\ avail_idx = 0 /\ used_idx = 0 /\ seen = 0
    /\ REQ_HDR \in Headers
    /\ REQ_DATA \in Blocks
    /\ REQ_STATUS = "unset"
    /\ job = NoJob
    /\ disk \in [Lbas -> Blocks]
    /\ late = FALSE

-----------------------------------------------------------------------------
(* The driver *)

\* read_block(lba, ..) and write_block(lba, data) are entered.
Call(r) ==
    /\ pc = "idle"
    /\ pc' = "hdr"
    /\ req' = r
    /\ UNCHANGED <<reply, last_used_idx, sharedVars, deviceVars, late>>

SetHeader ==
    /\ pc = "hdr"
    /\ REQ_HDR' = [kind |-> req.kind, lba |-> req.lba]
    /\ pc' = "data"
    /\ UNCHANGED <<req, reply, last_used_idx, REQ_DATA, REQ_STATUS, avail_idx, deviceVars, late>>

SetData ==
    /\ pc = "data"
    /\ REQ_DATA' = IF req.kind = "out" THEN req.data ELSE REQ_DATA
    /\ pc' = "status"
    /\ UNCHANGED <<req, reply, last_used_idx, REQ_HDR, REQ_STATUS, avail_idx, deviceVars, late>>

\* do_request up to the notification: descriptors, status sentinel, avail.idx.
Submit ==
    /\ pc = "status"
    /\ REQ_STATUS' = "unset"
    /\ avail_idx' = wrapping_add1(avail_idx)
    /\ pc' = "wait"
    /\ UNCHANGED <<req, reply, last_used_idx, REQ_HDR, REQ_DATA, deviceVars, late>>

\* A loop that compares used.idx with the wrong index.
PollWrongIndex ==
    /\ pc = "wait"
    /\ used_idx # avail_idx
    /\ last_used_idx' = wrapping_add1(last_used_idx)
    /\ pc' = "check"
    /\ UNCHANGED <<req, reply, sharedVars, deviceVars, late>>

\* The polling loop sees used.idx at its target ...
Poll ==
    /\ pc = "wait"
    /\ used_idx = wrapping_add1(last_used_idx)
    /\ last_used_idx' = wrapping_add1(last_used_idx)
    /\ pc' = "check"
    /\ UNCHANGED <<req, reply, sharedVars, deviceVars, late>>

Return(r) ==
    /\ reply' = r
    /\ req' = NoReq
    /\ pc' = "idle"

\* A loop that reports the limit and spins on.
TimeoutSpinsOn ==
    /\ pc = "wait"
    /\ used_idx # wrapping_add1(last_used_idx)
    /\ UNCHANGED vars

\* ... or gives up; last_used_idx stays.
Timeout ==
    /\ pc = "wait"
    /\ used_idx # wrapping_add1(last_used_idx)
    /\ Return([ok |-> FALSE, data |-> req.data])
    /\ late' = TRUE
    /\ UNCHANGED <<last_used_idx, sharedVars, deviceVars>>

\* A driver that does not look at the status byte.
CheckStatusSkipped ==
    /\ pc = "check"
    /\ IF req.kind = "in"
       THEN pc' = "copy" /\ UNCHANGED <<req, reply, late>>
       ELSE Return([ok |-> TRUE, data |-> req.data])
    /\ UNCHANGED <<last_used_idx, sharedVars, deviceVars, late>>

\* The status byte decides; a read goes on to copy the data.
CheckStatus ==
    /\ pc = "check"
    /\ IF REQ_STATUS # "ok"
       THEN Return([ok |-> FALSE, data |-> req.data])
       ELSE IF req.kind = "in"
       THEN pc' = "copy" /\ UNCHANGED <<req, reply, late>>
       ELSE Return([ok |-> TRUE, data |-> req.data])
    /\ UNCHANGED <<last_used_idx, sharedVars, deviceVars, late>>

CopyOut ==
    /\ pc = "copy"
    /\ Return([ok |-> TRUE, data |-> REQ_DATA])
    /\ UNCHANGED <<last_used_idx, sharedVars, deviceVars, late>>

Driver == SetHeader \/ SetData \/ Submit \/ Poll \/ Timeout \/ CheckStatus \/ CopyOut

-----------------------------------------------------------------------------
(* The device *)

Fetch ==
    /\ job = NoJob
    /\ seen # avail_idx
    /\ seen' = wrapping_add1(seen)
    /\ job' = [kind |-> REQ_HDR.kind, lba |-> REQ_HDR.lba, phase |-> "fetched"]
    /\ UNCHANGED <<pc, req, reply, last_used_idx, sharedVars, used_idx, disk, late>>

\* The data moves, if the block exists and the medium does not fail.
Move(ok) ==
    /\ job # NoJob
    /\ job.phase = "fetched"
    /\ ok => job.lba \in InRange
    /\ job' = [job EXCEPT !.phase = "moved"]
    /\ IF ok /\ job.kind = "in" THEN REQ_DATA' = disk[job.lba] ELSE UNCHANGED REQ_DATA
    /\ IF ok /\ job.kind = "out" THEN disk' = [disk EXCEPT ![job.lba] = REQ_DATA]
                                 ELSE UNCHANGED disk
    /\ REQ_STATUS' = IF ok THEN "ok" ELSE "error"
    /\ UNCHANGED <<pc, req, reply, last_used_idx, REQ_HDR, avail_idx, used_idx, seen, late>>

Complete ==
    /\ job # NoJob
    /\ job.phase = "moved"
    /\ used_idx' = wrapping_add1(used_idx)
    /\ job' = NoJob
    /\ UNCHANGED <<pc, req, reply, last_used_idx, sharedVars, seen, disk, late>>

Device == Fetch \/ Complete \/ \E ok \in BOOLEAN : Move(ok)

Next == (\E r \in Requests : Call(r)) \/ Driver \/ Device

Spec == Init /\ [][Next]_vars

\* The driver's code goes on; the device owes nothing.
FairSpec == Spec /\ WF_vars(Driver)

-----------------------------------------------------------------------------
(* Properties *)

\* "single-core bare-metal - no concurrent access possible" (read_block and
\* write_block): until a request times out, the device does not work on the shared
\* buffers while the driver prepares a request.
NoConcurrentAccess ==
    ~late /\ pc \in {"idle", "hdr", "data", "status"} => job = NoJob /\ seen = avail_idx

\* Until a request times out the driver keeps BlockDevice's contract, across the
\* wrap of the indices and device errors.
Contract == INSTANCE BlockDevice
ImplementsBlockDevice == Contract!Spec

\* A device that never answers does not hang the kernel: every call returns.
CallReturns == req # NoReq ~> req = NoReq

=============================================================================
