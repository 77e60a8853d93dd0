------------------------------- MODULE SearchAll -------------------------------
(***************************************************************************)
(* What a search over several sources promises: every source answers, and  *)
(* the search then returns once, with the results of all of them in some   *)
(* order, or with the error of one that failed and no results at all.      *)
(***************************************************************************)
EXTENDS Sequences, FiniteSets, Naturals

CONSTANT Source

VARIABLES answer,   \* what each source answered
          returned  \* what the search returned

vars == <<answer, returned>>

NotYet == [kind |-> "pending", from |-> <<>>]
Results(q) == [kind |-> "results", from |-> q]
Error(s) == [kind |-> "error", from |-> <<s>>]

\* Sequences with every source once.
Arrangements ==
  {q \in [1..Cardinality(Source) -> Source] :
     \A s \in Source : \E i \in DOMAIN q : q[i] = s}

Init ==
  /\ answer = [s \in Source |-> "pending"]
  /\ returned = NotYet

Answer(s) ==
  /\ answer[s] = "pending"
  /\ \E a \in {"ok", "error"} : answer' = [answer EXCEPT ![s] = a]
  /\ UNCHANGED returned

Return ==
  /\ returned = NotYet
  /\ \A s \in Source : answer[s] # "pending"
  /\ \/ \E s \in Source : answer[s] = "error" /\ returned' = Error(s)
     \/ /\ \A s \in Source : answer[s] = "ok"
        /\ \E q \in Arrangements : returned' = Results(q)
  /\ UNCHANGED answer

Next == Return \/ \E s \in Source : Answer(s)

Spec == Init /\ [][Next]_vars /\ WF_vars(Next)
=============================================================================
