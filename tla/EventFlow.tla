----------------------------- MODULE EventFlow ------------------------------
(* What the main loop of crashlogd promises to those that send it events:   *)
(* what arrives at an open source is dealt with once, in the order of       *)
(* arrival, and reported when it must be.  A kill of the daemon is the only *)
(* way to lose what has arrived.                                            *)
EXTENDS Sequences, FiniteSets

CONSTANTS Channels, Ids

(* An event and whether it must, may or must not be reported.               *)
Events == [id : Ids, duty : {"must", "may", "no"}]

VARIABLES pending,    \* what has arrived at each source
          done        \* what was dealt with, in order: event and "reported"

flow == <<pending, done>>

FlowInit == pending = [s \in Channels |-> <<>>] /\ done = [s \in Channels |-> <<>>]

Arrive(s) ==
    /\ \E e \in Events : pending' = [pending EXCEPT ![s] = Append(@, e)]
    /\ UNCHANGED done

Deal(s) ==
    /\ pending[s] # <<>>
    /\ \E r \in BOOLEAN :
          LET e == Head(pending[s]) IN
          /\ e.duty # "may" => (r <=> e.duty = "must")
          /\ done' = [done EXCEPT ![s] = Append(@, [event |-> e, reported |-> r])]
    /\ pending' = [pending EXCEPT ![s] = Tail(@)]

Lose == pending' = [s \in Channels |-> <<>>] /\ UNCHANGED done

FlowNext == Lose \/ \E s \in Channels : Arrive(s) \/ Deal(s)

(* Every source is served: none starves behind another.                     *)
FlowSpec == FlowInit /\ [][FlowNext]_flow /\ \A s \in Channels : WF_flow(Deal(s))
=============================================================================
