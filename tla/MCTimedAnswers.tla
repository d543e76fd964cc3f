--------------------------- MODULE MCTimedAnswers ---------------------------
(***************************************************************************)
(* Instance for TLC of the two parts whose timers race answers from        *)
(* outside and which share no state: the spend authority with its deadline *)
(* and the webhook manager with the timeouts of its posts.  focus chooses  *)
(* the one that runs, the other stays as it begins.                        *)
(***************************************************************************)
EXTENDS MCSpendAuthority, WebhookDelivery

VARIABLE focus

timedVars == <<focus, vars, whVars>>

OneRequest ==
  /\ op = [c \in Calls |-> CHOOSE o \in Op : TRUE]
  /\ request = [c \in Calls |-> CHOOSE r \in Request : TRUE]

(* The one that does not run begins in one of its initial states.           *)
TimedInit ==
  /\ focus \in {"authority", "webhooks"}
  /\ AuthInit /\ (focus # "authority" => OneRequest)
  /\ WhInit   /\ (focus # "webhooks" => signable = [e \in Events |-> TRUE])

TimedNext ==
  /\ \/ focus = "authority" /\ AuthNext /\ UNCHANGED whVars
     \/ focus = "webhooks" /\ WhNext /\ UNCHANGED vars
  /\ UNCHANGED focus

(* Both keep the fairness of their own specification, which asks nothing of  *)
(* requests and emits that have not begun.                                  *)
TimedSpec == TimedInit /\ [][TimedNext]_timedVars /\ AuthFairness /\ WhFairness
-----------------------------------------------------------------------------
(* e1 meets both subscriptions and e2 one of them                           *)
OneFilter == {[e \in Events |-> IF e = "e1" THEN Subs ELSE {"s1"}]}
=============================================================================
