------------------------- MODULE InstanceLifecycle -------------------------
(***************************************************************************)
(* What the instance pool of kernel/src/wasm/engine.rs promises to the     *)
(* interpreter: an instance is entered through its export once, re-entered *)
(* only where it yielded, and at most one instance executes at any time.   *)
(* Scheduler.tla is shown to implement this specification.                 *)
(***************************************************************************)

CONSTANT Slots

VARIABLE life   \* life[h]: what the instance in pool slot h has been through

LifeStates == {"free", "fresh", "running", "yielded"}

Init == life = [h \in Slots |-> "free"]

Idle == \A h \in Slots : life[h] # "running"

\* engine::spawn fills a free slot with an instance that has never been called.
Instantiate(h) ==
    /\ life[h] = "free"
    /\ life' = [life EXCEPT ![h] = "fresh"]

\* engine::start_task enters an instance for the first and only time.
Enter(h) ==
    /\ Idle
    /\ life[h] = "fresh"
    /\ life' = [life EXCEPT ![h] = "running"]

\* The module surrenders the CPU through env.yield or env.sleep_ms.
Leave(h) ==
    /\ life[h] = "running"
    /\ life' = [life EXCEPT ![h] = "yielded"]

\* Interpreter::resume: "Do not call this after a normal return or trap".
Reenter(h) ==
    /\ Idle
    /\ life[h] = "yielded"
    /\ life' = [life EXCEPT ![h] = "running"]

\* engine::destroy, after the module returned or trapped, or by task-kill.
Drop(h) ==
    /\ life[h] # "free"
    /\ life' = [life EXCEPT ![h] = "free"]

\* A synchronous `run` enters the slot it has just filled.
InstantiateAndEnter(h) ==
    /\ Idle
    /\ life[h] = "free"
    /\ life' = [life EXCEPT ![h] = "running"]

Next ==
    \E h \in Slots :
        \/ Instantiate(h)
        \/ Enter(h)
        \/ Leave(h)
        \/ Reenter(h)
        \/ Drop(h)
        \/ InstantiateAndEnter(h)

Spec == Init /\ [][Next]_life

=============================================================================
