---- MODULE Lifecycle ----
(***************************************************************************)
(* What the router promises about the stage of an order, without saying    *)
(* how: the stage the running process works with (live) moves along the    *)
(* documented edges, the stage a restart would find (saved) follows it,    *)
(* and losing the process can only take live back to saved.                *)
(***************************************************************************)
EXTENDS OrderStatus

CONSTANT Orders

VARIABLES live, saved

vars == <<live, saved>>

\* Fault: the snapshot that does not exist yet is read as the empty map.
InitNoSnapshot == /\ live  = [o \in Orders |-> NoOrder]
                  /\ saved = [o \in {} |-> NoOrder]

Init == /\ live  = [o \in Orders |-> NoOrder]
        /\ saved = [o \in Orders |-> NoOrder]

\* Fault: a failed order may be started again.
EdgeRetries(s, t) ==
  \/ s \in NoOrder .. SettlementSwapping /\ t = s + 1
  \/ IsActive(s) /\ t = Failed
  \/ IsActive(s) /\ ~ExpiryExempt(s) /\ t = Cancelled
  \/ s = Failed /\ t = Pending

\* The edges of the stage diagram: forward by one, into Failed from every
\* active stage, into Cancelled from those the deadline can still stop.
Edge(s, t) ==
  \/ s \in NoOrder .. SettlementSwapping /\ t = s + 1
  \/ IsActive(s) /\ t = Failed
  \/ IsActive(s) /\ ~ExpiryExempt(s) /\ t = Cancelled

\* Fault: the next stage is written to disk before it has been reached.
StepWriteAhead(o) == /\ \E t \in Stages : /\ Edge(live[o], t)
                                          /\ saved' = [live EXCEPT ![o] = t]
                     /\ live' \in {live, saved'}

Step(o) == /\ \E t \in Stages : /\ Edge(live[o], t)
                                /\ live' = [live EXCEPT ![o] = t]
           /\ saved' \in {saved, live'}

Persist == saved' = live /\ UNCHANGED live

Rollback == live' = saved /\ UNCHANGED saved

Next == (\E o \in Orders : Step(o)) \/ Persist \/ Rollback

Spec == Init /\ [][Next]_vars

\* t can follow s after any number of edges.
Reaches(s, t) ==
  \/ s = t
  \/ s < t /\ s < Complete /\ t <= Failed
  \/ s < AwaitingResolution /\ t = Cancelled

TypeOK == /\ live  \in [Orders -> Stages]
          /\ saved \in [Orders -> Stages]

\* A restart never finds an order ahead of where the process had brought it,
\* nor on another branch of the diagram: what is on disk is a past of what is
\* in memory (README "retrying from the last confirmed on-chain state").
SavedIsPast == \A o \in Orders : Reaches(saved[o], live[o])

\* What is on disk only ever moves forward, however often the process is lost
\* in between; in particular a saved Complete, Failed or Cancelled is final.
SavedForward == [][\A o \in Orders : Reaches(saved[o], saved'[o])]_vars

====
