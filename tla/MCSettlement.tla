---------------------------- MODULE MCSettlement ----------------------------
(* SettlementAccount with the fairness its schedule gives it. *)
EXTENDS SettlementAccount

(* A started command goes on until it ends or is killed; days pass and the *)
(* daily timer fires however often the operator runs other commands.       *)
FairSpec ==
  /\ Spec
  /\ WF_vars(Work)
  /\ SF_vars(NextDay)
  /\ SF_vars(Start("run-daily"))

(* A journal left by a crash is replayed: the next daily run does it.      *)
JournalIsReplayed == (journal # None) ~> (journal = None)

(* Queued sale proceeds become cash by their settlement date.              *)
ProceedsBecomeCash ==
  \A a \in Accounts, d \in Dates :
    (\E r \in book.queue[a] : r.settle = d) ~> (\A r \in book.queue[a] : r.settle # d)
=============================================================================
