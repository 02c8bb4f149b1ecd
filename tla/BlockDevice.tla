----------------------------- MODULE BlockDevice -----------------------------
(***************************************************************************)
(* The contract of the BlockDevice trait (fs/block.rs) that BlockIo relies *)
(* on: one request at a time, a read that succeeds returns the block, a    *)
(* write that succeeds is on the medium, a write that fails may be, and    *)
(* nothing else ever changes the medium.  The promise ends when the device *)
(* has once been too slow to answer.                                       *)
(***************************************************************************)
CONSTANTS Lbas, InRange, Blocks, NoReq, NoReply

VARIABLES
    disk,    \* the medium
    req,     \* the call in progress
    reply,   \* what the last call returned
    late     \* the device has once been too slow

vars == <<disk, req, reply, late>>

Requests == [kind : {"in", "out"}, lba : Lbas, data : Blocks]

Init ==
    /\ disk \in [Lbas -> Blocks]
    /\ req = NoReq
    /\ reply = NoReply
    /\ late = FALSE

Call ==
    /\ req = NoReq
    /\ req' \in Requests
    /\ UNCHANGED <<disk, reply>>

Store ==
    /\ req # NoReq
    /\ req.kind = "out"
    /\ req.lba \in InRange
    /\ disk' = [disk EXCEPT ![req.lba] = req.data]
    /\ UNCHANGED <<req, reply>>

ReturnOk ==
    /\ req # NoReq
    /\ req.lba \in InRange
    /\ req.kind = "out" => disk[req.lba] = req.data
    /\ reply' = [ok |-> TRUE, data |-> disk[req.lba]]
    /\ req' = NoReq
    /\ UNCHANGED disk

ReturnErr ==
    /\ req # NoReq
    /\ reply' = [ok |-> FALSE, data |-> req.data]
    /\ req' = NoReq
    /\ UNCHANGED disk

TooSlow == late'

Next ==
    \/ (Call \/ Store \/ ReturnOk \/ ReturnErr) /\ UNCHANGED late
    \/ TooSlow

Spec == Init /\ [][Next]_vars

=============================================================================
