------------------------------- MODULE Query -------------------------------
(***************************************************************************)
(* What a caller of GetAccountInfo may rely on, whatever other calls do: a *)
(* call returns at most once, with an error or with news that arrived      *)
(* after it was made, never with what an earlier call was told.            *)
(***************************************************************************)
EXTENDS Naturals

CONSTANTS
  Calls,     (* the calls of a behaviour *)
  NoResult   (* a call has not returned  *)

VARIABLES
  call,     (* each call is "idle", "open" or "returned"   *)
  answer,   (* what it returned: news, 0 for an error      *)
  opened,   (* how much was known when it was made         *)
  news      (* the number of the latest news               *)

vars == <<call, answer, opened, news>>

Init ==
  /\ call = [u \in Calls |-> "idle"]
  /\ answer = [u \in Calls |-> NoResult]
  /\ opened = [u \in Calls |-> 0]
  /\ news = 0

Open(u) ==
  /\ call[u] = "idle" /\ call' = [call EXCEPT ![u] = "open"]
  /\ opened' = [opened EXCEPT ![u] = news]
  /\ UNCHANGED <<answer, news>>

Publish ==
  /\ news' \in Nat /\ news' > news
  /\ UNCHANGED <<call, answer, opened>>

Return(u) ==
  /\ call[u] = "open" /\ call' = [call EXCEPT ![u] = "returned"]
  /\ \E m \in {0} \cup (opened[u] + 1)..news : answer' = [answer EXCEPT ![u] = m]
  /\ UNCHANGED <<opened, news>>

Next == Publish \/ \E u \in Calls : Open(u) \/ Return(u)

Spec == Init /\ [][Next]_vars
=============================================================================
