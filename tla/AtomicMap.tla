----------------------------- MODULE AtomicMap -----------------------------
(***************************************************************************)
(* What a skiplist promises concurrent writers: each Put takes effect      *)
(* exactly once, atomically, between its call and its return.  Puts are    *)
(* numbered in the order they are called.                                  *)
(***************************************************************************)
EXTENDS Naturals

CONSTANTS Keys, Writers

VARIABLES
  map,    \* key -> the Put whose value it has, 0 for none
  calls,  \* the number of Puts called
  call    \* writer -> its Put: [state, key, id]

mapVars == <<map, calls, call>>

NoCall == [state |-> "idle", key |-> 0, id |-> 0]

Init ==
  /\ map = [k \in Keys |-> 0]
  /\ calls = 0
  /\ call = [w \in Writers |-> NoCall]

Call(w) ==
  /\ call[w].state = "idle"
  /\ calls' = calls + 1
  /\ \E k \in Keys : call' = [call EXCEPT ![w] = [state |-> "called", key |-> k, id |-> calls']]
  /\ UNCHANGED map

\* The Put takes effect, and may return at once.
Apply(w) ==
  /\ call[w].state = "called"
  /\ map' = [map EXCEPT ![call[w].key] = call[w].id]
  /\ \/ call' = [call EXCEPT ![w].state = "applied"]
     \/ call' = [call EXCEPT ![w] = NoCall]
  /\ UNCHANGED calls

Return(w) ==
  /\ call[w].state = "applied"
  /\ call' = [call EXCEPT ![w] = NoCall]
  /\ UNCHANGED <<map, calls>>

Next == \E w \in Writers : Call(w) \/ Apply(w) \/ Return(w)

Spec == Init /\ [][Next]_mapVars

=============================================================================
