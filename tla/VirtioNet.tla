------------------------------ MODULE VirtioNet ------------------------------
(***************************************************************************)
(* The virtio-net driver (drivers/virtio_net.rs) and the device, which     *)
(* works concurrently on the memory the two share: one receive buffer,     *)
(* posted again after every frame, one transmit buffer, used for every     *)
(* frame, and the indices of two virtqueues.  The driver polls for a frame *)
(* and goes on if there is none; it waits for a transmission to complete   *)
(* and gives up after a number of turns.                                   *)
(*                                                                         *)
(* Every chain starts at descriptor 0, so the ring entries are all zero    *)
(* and only the free-running 16-bit indices matter.                        *)
(***************************************************************************)
EXTENDS Integers, Sequences

CONSTANTS
    IdxMod,       \* 2^16: where avail.idx and used.idx wrap
    NoFrame,      \* what the buffers hold at first
    MaxLate       \* bound: how often the device is too slow

ASSUME RingAssumption == IdxMod \in Nat /\ IdxMod > 1 /\ MaxLate \in Nat

VARIABLES
    rx_last_used, rx_avail,    \* driver
    tx_last_used, tx_avail,
    TX_BUF, waiting,           \* do_tx is in wait_for_used
    RX_BUF, rx_used, rx_seen,  \* device
    tx_used, tx_seen,
    inq,                       \* frames at the device for which there is no buffer yet
    out,                       \* frames on the wire
    buf,                       \* the frame poll received last
    late                       \* history: how often a transmission was given up

rxVars == <<rx_last_used, rx_avail, RX_BUF, rx_used, rx_seen, inq, buf>>
txVars == <<tx_last_used, tx_avail, TX_BUF, waiting, tx_used, tx_seen, out, late>>
linkVars == <<rxVars, txVars>>

wrapping_inc(i) == (i + 1) % IdxMod

\* Mutant: the one receive buffer is posted twice.
LinkInitTwice ==
    /\ rx_last_used = 0 /\ rx_avail = 2 /\ rx_used = 0 /\ rx_seen = 0
    /\ tx_last_used = 0 /\ tx_avail = 0 /\ tx_used = 0 /\ tx_seen = 0
    /\ RX_BUF = NoFrame /\ TX_BUF = NoFrame /\ buf = NoFrame
    /\ waiting = FALSE /\ late = 0
    /\ inq = <<>> /\ out = <<>>

\* After try_init: the receive buffer is posted.
LinkInit ==
    /\ rx_last_used = 0 /\ rx_avail = 1 /\ rx_used = 0 /\ rx_seen = 0
    /\ tx_last_used = 0 /\ tx_avail = 0 /\ tx_used = 0 /\ tx_seen = 0
    /\ RX_BUF = NoFrame /\ TX_BUF = NoFrame /\ buf = NoFrame
    /\ waiting = FALSE /\ late = 0
    /\ inq = <<>> /\ out = <<>>

-----------------------------------------------------------------------------
(* The driver *)

\* The frame is copied out, then the buffer is posted again.
do_rx ==
    /\ ~waiting
    /\ rx_used # rx_last_used
    /\ buf' = RX_BUF
    /\ rx_last_used' = wrapping_inc(rx_last_used)
    /\ rx_avail' = wrapping_inc(rx_avail)
    /\ UNCHANGED <<RX_BUF, rx_used, rx_seen, inq>>

\* Mutant: the frame is posted and not waited for.
net_sendUnawaited(frame) ==
    /\ TX_BUF' = frame
    /\ tx_avail' = wrapping_inc(tx_avail)
    /\ tx_last_used' = wrapping_inc(tx_last_used)
    /\ UNCHANGED <<tx_used, tx_seen, out, late, waiting>>

net_send(frame) ==
    /\ TX_BUF' = frame
    /\ tx_avail' = wrapping_inc(tx_avail)
    /\ waiting' = TRUE
    /\ UNCHANGED <<tx_last_used, tx_used, tx_seen, out, late>>

target == wrapping_inc(tx_last_used)

wait_for_used ==
    /\ waiting /\ tx_used = target
    /\ tx_last_used' = target
    /\ waiting' = FALSE
    /\ UNCHANGED <<tx_avail, TX_BUF, tx_used, tx_seen, out, late, rxVars>>

\* The count may have passed the target: then there is nothing to come and the
\* driver waits in vain.
GivesUp ==
    /\ waiting /\ tx_used # target
    /\ tx_seen = tx_avail \/ late < MaxLate
    /\ waiting' = FALSE
    /\ late' = IF late < MaxLate THEN late + 1 ELSE late
    /\ UNCHANGED <<tx_last_used, tx_avail, TX_BUF, tx_used, tx_seen, out, rxVars>>

-----------------------------------------------------------------------------
(* The device *)

DeviceReceives ==
    /\ inq # <<>> /\ rx_seen # rx_avail
    /\ RX_BUF' = Head(inq)
    /\ inq' = Tail(inq)
    /\ rx_seen' = wrapping_inc(rx_seen)
    /\ rx_used' = wrapping_inc(rx_used)
    /\ UNCHANGED <<rx_last_used, rx_avail, buf, txVars>>

DeviceTransmits ==
    /\ tx_seen # tx_avail
    /\ out' = Append(out, TX_BUF)
    /\ tx_seen' = wrapping_inc(tx_seen)
    /\ tx_used' = wrapping_inc(tx_used)
    /\ UNCHANGED <<tx_last_used, tx_avail, TX_BUF, waiting, late, rxVars>>

Link == wait_for_used \/ GivesUp \/ DeviceReceives \/ DeviceTransmits

-----------------------------------------------------------------------------
(* Frames between the device and the network stack, in order and once.     *)

Received == (IF rx_used # rx_last_used THEN <<RX_BUF>> ELSE <<>>) \o inq

\* The transmissions the device has not got round to.
Pending == (tx_avail - tx_seen) % IdxMod

\* do_tx: a send that was not given up has left nothing behind, so the device
\* never holds more frames than were given up and the one being waited for; TX_BUF
\* is not overwritten under a transmission otherwise.
TxBounded == Pending <= late + (IF waiting THEN 1 ELSE 0)

FQ == INSTANCE FrameQueue WITH q <- Received

\* do_rx: with its one buffer, posted again after each frame, the driver hands
\* over every frame the device received, once, unchanged and in order.
ImplementsFrameQueue == FQ!Spec
=============================================================================
