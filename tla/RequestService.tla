--------------------------- MODULE RequestService ---------------------------
(***************************************************************************)
(* What V2cClient.SendRequest promises the goroutine that calls it, with   *)
(* no queues, goroutines, timers or request ids: a call sends the message  *)
(* once and at most Retries more times, and ends either with the agent's   *)
(* response, which can only follow a send, or with a timeout, which only   *)
(* follows the last send.  RequestTracker implements it.                   *)
(***************************************************************************)
EXTENDS Naturals

CONSTANTS Requests,  \* the calls, named by the request object each one sends
          Retries    \* V2cClient.Retries

VARIABLES call,      \* [Requests -> {"new", "busy", "returned", "done"}]
          tries,     \* how many times the message of the call has been sent
          outcome    \* [Requests -> {"none", "response", "timeout"}]

vars == <<call, tries, outcome>>

Init ==
  /\ call = [r \in Requests |-> "new"]
  /\ tries = [r \in Requests |-> 0]
  /\ outcome = [r \in Requests |-> "none"]

Begin(r) ==
  /\ call[r] = "new"
  /\ call' = [call EXCEPT ![r] = "busy"]
  /\ UNCHANGED <<tries, outcome>>

Attempt(r) ==
  /\ call[r] = "busy"
  /\ tries[r] <= Retries
  /\ tries' = [tries EXCEPT ![r] = @ + 1]
  /\ UNCHANGED <<call, outcome>>

End(r, how) ==
  /\ call[r] = "busy"
  /\ call' = [call EXCEPT ![r] = "returned"]
  /\ outcome' = [outcome EXCEPT ![r] = how]
  /\ UNCHANGED tries

Answer(r) == tries[r] > 0 /\ End(r, "response")

GiveUp(r) == tries[r] = Retries + 1 /\ End(r, "timeout")

Return(r) ==
  /\ call[r] = "returned"
  /\ call' = [call EXCEPT ![r] = "done"]
  /\ UNCHANGED <<tries, outcome>>

Serve(r) == Attempt(r) \/ Answer(r) \/ GiveUp(r)

Next == \E r \in Requests : Begin(r) \/ Serve(r) \/ Return(r)

Spec == Init /\ [][Next]_vars

\* A call that has begun is served until it ends.
FairSpec == Spec /\ \A r \in Requests : WF_vars(Serve(r))
=============================================================================
