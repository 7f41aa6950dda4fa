---------------------------- MODULE RequestBroker ----------------------------
(***************************************************************************)
(* What a caller of the data-centre client may rely on                     *)
(* (common/core/core_dc_client.h:56-102): the parameter object it hands in *)
(* with a request comes back once, through one callback or the return of a *)
(* call; a request that is still open has not outlived its delay by more   *)
(* than the reactor's lag, and a timeout is not reported sooner than the   *)
(* delay, but for the lag.                                                 *)
(*                                                                         *)
(* One step can close and open several requests: a callback posts the next *)
(* request, the end of the program hands back everything.                  *)
(***************************************************************************)
EXTENDS Naturals

CONSTANTS Params,     \* parameter objects, a fresh one for every request
          Delay,      \* of every parameter, the delay after which a request times out
          Early,      \* how much sooner a timeout may come
          Late        \* how much later

VARIABLES clock,      \* time
          request     \* of every parameter: where it is and since when

brokerVars == <<clock, request>>

Answers == {"response", "timeout", "exception", "released", "cancelled", "refused"}

Unposted == [is |-> "unposted", at |-> 0]

Open == {p \in Params : request[p].is = "open"}

\* What the variables hold.
BrokerTypeOK ==
    /\ clock \in Nat
    /\ request \in [Params -> [is : {"unposted", "open"} \cup Answers, at : Nat]]

BrokerInit == clock \in Nat /\ request = [p \in Params |-> Unposted]

Overdue(p) == clock > request[p].at + Delay[p] + Late

\* Time passes, but not past the last moment of an open request.
Tick ==
    /\ clock' = clock + 1
    /\ UNCHANGED request
    /\ \A p \in Open : ~Overdue(p)'

\* The parameters of F are handed back and those of A handed in.
Served(F, A, answer, entry) ==
    [p \in Params |->
        IF p \in F THEN [request[p] EXCEPT !.is = answer[p]]
        ELSE IF p \in A THEN [is |-> entry[p], at |-> clock]
        ELSE request[p]]

Serve ==
    \E F \in SUBSET Open, A \in SUBSET {p \in Params : request[p] = Unposted} :
        /\ F \cup A # {}
        /\ \E answer \in [F -> Answers], entry \in [A -> {"open", "refused"}] :
              /\ \A p \in F : answer[p] = "timeout" => clock + Early >= request[p].at + Delay[p]
              /\ request' = Served(F, A, answer, entry)
        /\ UNCHANGED clock

BrokerNext == Tick \/ Serve

BrokerSpec == BrokerInit /\ [][BrokerNext]_brokerVars
=============================================================================
