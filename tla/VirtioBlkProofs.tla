--------------------------- MODULE VirtioBlkProofs ---------------------------
(***************************************************************************)
(* Until a request times out, one request is in flight at a time and the    *)
(* driver keeps the contract of BlockDevice, for every number of   *)
(* blocks and every wrap of the indices.                                   *)
(***************************************************************************)
EXTENDS VirtioBlk, TLAPS

USE RangeAssumption DEF RangeAssumption
USE IdxAssumption DEF IdxAssumption
USE NoReqAssumption DEF NoReqAssumption
USE NoJobAssumption DEF NoJobAssumption

LEMMA AddTyped ==
    ASSUME NEW i \in Indices
    PROVE  wrapping_add1(i) \in Indices /\ wrapping_add1(i) # i
  BY DEF Indices, wrapping_add1

\* Header and data in the shared buffers are those of the call in progress.
HeaderSet == REQ_HDR = [kind |-> req.kind, lba |-> req.lba]
DataSet == req.kind = "out" => REQ_DATA = req.data

\* The device has moved the data of the call in progress and said how it went.
Served ==
    /\ REQ_STATUS \in {"ok", "error"}
    /\ REQ_STATUS = "ok" =>
         /\ req.lba \in InRange
         /\ req.kind = "in" => REQ_DATA = disk[req.lba]
         /\ req.kind = "out" => disk[req.lba] = req.data

\* Nothing is in flight.
Quiet == job = NoJob /\ seen = avail_idx /\ used_idx = avail_idx /\ last_used_idx = avail_idx

\* The stages of the one request in flight: published, fetched, moved, completed.
Published == job = NoJob /\ seen = last_used_idx /\ used_idx = last_used_idx /\ DataSet
Taken == seen = avail_idx /\ used_idx = last_used_idx /\ job \in Jobs
         /\ job.kind = req.kind /\ job.lba = req.lba
Completed == job = NoJob /\ seen = avail_idx /\ used_idx = avail_idx /\ Served

InFlight ==
    /\ avail_idx = wrapping_add1(last_used_idx)
    /\ \/ Published
       \/ Taken /\ job.phase = "fetched" /\ DataSet
       \/ Taken /\ job.phase = "moved" /\ Served
       \/ Completed

DriverInv ==
    /\ TypeOK
    /\ pc = "idle" <=> req = NoReq
    /\ pc \in {"idle", "hdr", "data", "status", "check", "copy"} => Quiet
    /\ pc \in {"data", "status", "wait"} => HeaderSet
    /\ pc = "status" => DataSet
    /\ pc = "wait" => InFlight
    /\ pc \in {"check", "copy"} => Served
    /\ pc = "copy" => req.kind = "in" /\ REQ_STATUS = "ok"

LEMMA InitDriver == Init => DriverInv
  <1> SUFFICES ASSUME Init PROVE DriverInv
    OBVIOUS
  <1>1. 0 \in Indices
    BY DEF Indices
  <1>. QED
    BY <1>1 DEF Init, DriverInv, TypeOK, Quiet

\* Every variable keeps its type, with or without timeouts.
LEMMA StepTyped ==
    ASSUME TypeOK, pc # "idle" => req # NoReq, [Next]_vars
    PROVE  TypeOK' /\ (pc' # "idle" => req' # NoReq)
  <1> USE DEF sharedVars, deviceVars
  <1> DEFINE Goal == TypeOK' /\ (pc' # "idle" => req' # NoReq)
  <1>1. ASSUME NEW r \in Requests, Call(r) PROVE Goal
    BY <1>1 DEF Call, TypeOK
  <1>2. CASE SetHeader
    <2>1. REQ_HDR' \in Headers
      BY <1>2 DEF SetHeader, TypeOK, Requests, Headers
    <2>. QED
      BY <1>2, <2>1 DEF SetHeader, TypeOK
  <1>3. CASE SetData
    <2>1. REQ_DATA' \in Blocks
      BY <1>3 DEF SetData, TypeOK, Requests
    <2>. QED
      BY <1>3, <2>1 DEF SetData, TypeOK
  <1>4. CASE Submit
    BY <1>4, AddTyped DEF Submit, TypeOK
  <1>5. CASE Poll
    BY <1>5, AddTyped DEF Poll, TypeOK
  <1>6. CASE Timeout
    BY <1>6 DEF Timeout, Return, TypeOK, Requests, Replies
  <1>7. CASE CheckStatus
    <2>1. req.data \in Blocks
      BY <1>7 DEF CheckStatus, TypeOK, Requests
    <2>2. reply' \in Replies \union {NoReply}
      <3>1. reply' = reply \/ \E ok \in BOOLEAN : reply' = [ok |-> ok, data |-> req.data]
        BY <1>7 DEF CheckStatus, Return
      <3>. QED
        BY <2>1, <3>1 DEF TypeOK, Replies
    <2>3. req' \in Requests \union {NoReq} /\ pc' \in {"idle", "copy"} /\ (pc' # "idle" => req' # NoReq)
      BY <1>7 DEF CheckStatus, Return, TypeOK
    <2>. QED
      BY <1>7, <2>2, <2>3 DEF CheckStatus, TypeOK
  <1>8. CASE CopyOut
    BY <1>8 DEF CopyOut, Return, TypeOK, Replies
  <1>9. CASE Fetch
    <2>1. job' \in Jobs
      BY <1>9 DEF Fetch, TypeOK, Headers, Jobs
    <2>. QED
      BY <1>9, <2>1, AddTyped DEF Fetch, TypeOK
  <1>10. ASSUME NEW ok \in BOOLEAN, Move(ok) PROVE Goal
    <2>1. job \in Jobs /\ job' \in Jobs
      BY <1>10 DEF Move, TypeOK, Jobs
    <2>2. REQ_DATA' \in Blocks
      BY <1>10, <2>1 DEF Move, TypeOK, Jobs
    <2>3. disk' \in [Lbas -> Blocks]
      BY <1>10, <2>1 DEF Move, TypeOK, Jobs
    <2>4. REQ_STATUS' \in {"ok", "error", "unset"}
      BY <1>10 DEF Move
    <2>. QED
      BY <1>10, <2>1, <2>2, <2>3, <2>4 DEF Move, TypeOK
  <1>11. CASE Complete
    BY <1>11, AddTyped DEF Complete, TypeOK
  <1>12. CASE UNCHANGED vars
    BY <1>12 DEF vars, TypeOK
  <1>. QED
    BY <1>1, <1>2, <1>3, <1>4, <1>5, <1>6, <1>7, <1>8, <1>9, <1>10, <1>11, <1>12
       DEF Next, Driver, Device

LEMMA LateStays == ASSUME late, [Next]_vars PROVE late'
  <1> USE DEF sharedVars, deviceVars
  <1>1. ASSUME NEW r \in Requests, Call(r) PROVE late'
    BY <1>1 DEF Call
  <1>2. ASSUME NEW ok \in BOOLEAN, Move(ok) PROVE late'
    BY <1>2 DEF Move
  <1>. QED
    BY <1>1, <1>2 DEF Next, Driver, Device, SetHeader, SetData, Submit, Poll, Timeout,
       CheckStatus, CopyOut, Fetch, Complete, vars

\* With a device that answers in time, each step of driver and device takes the
\* one request to its next stage.
LEMMA StepDriver ==
    ASSUME ~late', DriverInv, [Next]_vars
    PROVE  DriverInv'
  <1> USE DEF sharedVars, deviceVars
  <1>1. TypeOK /\ (pc # "idle" => req # NoReq)
    BY DEF DriverInv
  <1>2. TypeOK'
    BY <1>1, StepTyped
  <1>3. ASSUME NEW r \in Requests, Call(r) PROVE DriverInv'
    BY <1>2, <1>3 DEF Call, DriverInv, Quiet
  <1>4. CASE SetHeader
    BY <1>1, <1>2, <1>4 DEF SetHeader, DriverInv, Quiet, HeaderSet
  <1>5. CASE SetData
    BY <1>1, <1>2, <1>5 DEF SetData, DriverInv, Quiet, HeaderSet, DataSet, TypeOK
  <1>6. CASE Submit
    BY <1>1, <1>2, <1>6 DEF Submit, DriverInv, Quiet, HeaderSet, DataSet, InFlight, Published
  <1>7. CASE Poll
    <2>1. InFlight /\ used_idx = avail_idx
      BY <1>7 DEF Poll, DriverInv, InFlight
    <2>2. used_idx # last_used_idx
      BY <1>1, <1>7, AddTyped DEF Poll, TypeOK
    <2>3. Completed
      BY <2>1, <2>2 DEF InFlight, Published, Taken
    <2>. QED
      BY <1>1, <1>2, <1>7, <2>1, <2>3 DEF Poll, DriverInv, Quiet, Completed, Served, InFlight
  <1>8. CASE CheckStatus
    <2>1. pc = "check" /\ Quiet /\ Served /\ req # NoReq
      BY <1>1, <1>8 DEF CheckStatus, DriverInv
    <2>2. CASE REQ_STATUS = "ok" /\ req.kind = "in"
      BY <1>2, <1>8, <2>1, <2>2 DEF CheckStatus, DriverInv, Quiet, Served
    <2>3. CASE ~(REQ_STATUS = "ok" /\ req.kind = "in")
      BY <1>2, <1>8, <2>1, <2>3 DEF CheckStatus, Return, DriverInv, Quiet
    <2>. QED
      BY <2>2, <2>3
  <1>9. CASE CopyOut
    BY <1>2, <1>9 DEF CopyOut, Return, DriverInv, Quiet
  <1>10. CASE Fetch
    <2>1. pc = "wait" /\ InFlight
      BY <1>1, <1>10 DEF Fetch, DriverInv, Quiet, TypeOK
    <2>2. Published /\ HeaderSet
      BY <1>1, <1>10, <2>1 DEF Fetch, InFlight, Taken, Completed, DriverInv
    <2>3. Taken' /\ job'.phase = "fetched" /\ DataSet'
      <3>1. job' = [kind |-> req.kind, lba |-> req.lba, phase |-> "fetched"]
        BY <1>10, <2>2 DEF Fetch, HeaderSet
      <3>2. job' \in Jobs
        BY <1>1, <2>1, <3>1 DEF TypeOK, Jobs, Requests
      <3>3. seen' = avail_idx /\ used_idx' = last_used_idx /\ DataSet
        BY <1>10, <2>1, <2>2 DEF Fetch, Published, InFlight
      <3>. QED
        BY <1>10, <3>1, <3>2, <3>3 DEF Fetch, Taken, DataSet
    <2>. QED
      BY <1>1, <1>2, <1>10, <2>1, <2>3 DEF Fetch, DriverInv, InFlight, HeaderSet
  <1>11. ASSUME NEW ok \in BOOLEAN, Move(ok) PROVE DriverInv'
    <2>1. pc = "wait" /\ InFlight
      BY <1>1, <1>11 DEF Move, DriverInv, Quiet, TypeOK
    <2>2. Taken /\ DataSet /\ req \in Requests
      BY <1>1, <1>11, <2>1 DEF Move, InFlight, Published, Completed, TypeOK
    <2>3. Served'
      BY <1>1, <1>11, <2>2 DEF Move, Taken, DataSet, Served, TypeOK, Requests
    <2>4. Taken' /\ job'.phase = "moved"
      BY <1>1, <1>2, <1>11, <2>2 DEF Move, Taken, TypeOK, Jobs
    <2>. QED
      BY <1>1, <1>2, <1>11, <2>1, <2>3, <2>4 DEF Move, DriverInv, InFlight, HeaderSet
  <1>12. CASE Complete
    <2>1. pc = "wait" /\ InFlight
      BY <1>1, <1>12 DEF Complete, DriverInv, Quiet, TypeOK
    <2>2. Taken /\ Served
      BY <1>1, <1>12, <2>1 DEF Complete, InFlight, Published, Completed, TypeOK
    <2>3. Completed'
      BY <1>12, <2>1, <2>2 DEF Complete, Taken, Completed, InFlight, Served
    <2>. QED
      BY <1>1, <1>2, <1>12, <2>1, <2>3 DEF Complete, DriverInv, InFlight, HeaderSet
  <1>13. CASE UNCHANGED vars
    BY <1>2, <1>13 DEF vars, DriverInv, Quiet, HeaderSet, DataSet, InFlight, Published, Taken,
           Completed, Served
  <1>14. ~Timeout
    BY DEF Timeout
  <1>. QED
    BY <1>3, <1>4, <1>5, <1>6, <1>7, <1>8, <1>9, <1>10, <1>11, <1>12, <1>13, <1>14
       DEF Next, Driver, Device

\* Every step of driver and device is a step of the contract, or none.
LEMMA StepContract ==
    ASSUME ~late', DriverInv, [Next]_vars
    PROVE  [Contract!Next]_Contract!vars
  <1> USE DEF sharedVars, deviceVars, Contract!vars
  <1>1. TypeOK /\ (pc # "idle" => req # NoReq)
    BY DEF DriverInv
  <1>2. ASSUME NEW r \in Requests, Call(r) PROVE Contract!Next
    BY <1>2 DEF Call, DriverInv, Contract!Next, Contract!Call, Contract!Requests, Requests
  <1>3. CASE CheckStatus
    <2>1. pc = "check" /\ Served /\ req # NoReq
      BY <1>1, <1>3 DEF CheckStatus, DriverInv
    <2>2. CASE REQ_STATUS # "ok"
      BY <1>3, <2>1, <2>2 DEF CheckStatus, Return, Contract!Next, Contract!ReturnErr
    <2>3. CASE REQ_STATUS = "ok" /\ req.kind = "in"
      BY <1>3, <2>3 DEF CheckStatus
    <2>4. CASE REQ_STATUS = "ok" /\ req.kind # "in"
      <3>1. req.kind = "out"
        BY <1>1, <2>1, <2>4 DEF TypeOK, Requests
      <3>2. reply' = [ok |-> TRUE, data |-> disk[req.lba]] /\ req' = NoReq
            /\ disk' = disk /\ late' = late
        BY <1>3, <2>1, <2>4, <3>1 DEF CheckStatus, Return, Served
      <3>. QED
        BY <2>1, <2>4, <3>1, <3>2 DEF Served, Contract!Next, Contract!ReturnOk
    <2>. QED
      BY <2>2, <2>3, <2>4
  <1>4. CASE CopyOut
    BY <1>1, <1>4 DEF CopyOut, Return, DriverInv, Served, Contract!Next, Contract!ReturnOk
  <1>5. ASSUME NEW ok \in BOOLEAN, Move(ok) PROVE [Contract!Next]_Contract!vars
    <2>1. pc = "wait" /\ InFlight /\ req # NoReq
      BY <1>1, <1>5 DEF Move, DriverInv, Quiet, TypeOK
    <2>2. Taken /\ DataSet
      BY <1>1, <1>5, <2>1 DEF Move, InFlight, Published, Completed, TypeOK
    <2>3. CASE ok /\ job.kind = "out"
      <3>1. disk' = [disk EXCEPT ![req.lba] = req.data] /\ req.kind = "out" /\ req.lba \in InRange
        BY <1>5, <2>2, <2>3 DEF Move, Taken, DataSet
      <3>. QED
        BY <1>5, <2>1, <3>1 DEF Move, Contract!Next, Contract!Store
    <2>4. CASE ~(ok /\ job.kind = "out")
      BY <1>5, <2>4 DEF Move
    <2>. QED
      BY <2>3, <2>4
  <1>6. ASSUME SetHeader \/ SetData \/ Submit \/ Poll \/ Fetch \/ Complete \/ UNCHANGED vars
        PROVE  UNCHANGED Contract!vars
    BY <1>6 DEF SetHeader, SetData, Submit, Poll, Fetch, Complete, vars
  <1>7. ~Timeout
    BY DEF Timeout
  <1>. QED
    BY <1>2, <1>3, <1>4, <1>5, <1>6, <1>7 DEF Next, Driver, Device

\* Every variable keeps its type, late completions and timeouts included.
THEOREM BlkTyped == Spec => []TypeOK
  <1> DEFINE I == TypeOK /\ (pc # "idle" => req # NoReq)
  <1>1. Init => I
    BY InitDriver DEF DriverInv
  <1>2. I /\ [Next]_vars => I'
    BY StepTyped
  <1>. QED
    BY <1>1, <1>2, PTL DEF Spec

\* The invariant of the whole specification: once a request has timed out only
\* the types are left.
LateInv == TypeOK /\ (pc # "idle" => req # NoReq) /\ (late \/ DriverInv)

LEMMA LateInvariant == Spec => []LateInv
  <1>1. Init => LateInv
    BY InitDriver DEF LateInv, DriverInv
  <1>2. LateInv /\ [Next]_vars => LateInv'
    <2> SUFFICES ASSUME LateInv, [Next]_vars PROVE LateInv'
      OBVIOUS
    <2>1. TypeOK' /\ (pc' # "idle" => req' # NoReq)
      BY StepTyped DEF LateInv
    <2>2. late => late'
      BY LateStays DEF LateInv
    <2>3. ASSUME ~late' PROVE DriverInv'
      BY <2>2, <2>3, StepDriver DEF LateInv
    <2>. QED
      BY <2>1, <2>3, Zenon DEF LateInv
  <1>. QED
    BY <1>1, <1>2, PTL DEF Spec

\* Until a request times out, the device never works on the shared request
\* buffers while the driver fills them (REQ_HDR, REQ_DATA, REQ_STATUS).
THEOREM Exclusive == Spec => []NoConcurrentAccess
  <1>1. LateInv => NoConcurrentAccess
    BY DEF LateInv, DriverInv, NoConcurrentAccess, Quiet
  <1>. QED
    BY <1>1, LateInvariant, PTL

\* Until a request times out, the driver implements the contract of BlockDevice.
THEOREM DriverRefines == Spec => ImplementsBlockDevice
  <1>1. Init => Contract!Init
    BY DEF Init, Contract!Init
  <1>2. LateInv /\ [Next]_vars => [Contract!Next]_Contract!vars
    <2> SUFFICES ASSUME LateInv, [Next]_vars PROVE [Contract!Next]_Contract!vars
      OBVIOUS
    <2>1. CASE late'
      BY <2>1 DEF Contract!Next, Contract!TooSlow
    <2>2. CASE ~late'
      <3>1. DriverInv
        BY <2>2, LateStays DEF LateInv
      <3>. QED
        BY <2>2, <3>1, StepContract
    <2>. QED
      BY <2>1, <2>2
  <1>. QED
    BY <1>1, <1>2, LateInvariant, PTL DEF Spec, ImplementsBlockDevice, Contract!Spec

=============================================================================
