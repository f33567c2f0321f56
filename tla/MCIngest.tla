------------------------------- MODULE MCIngest -------------------------------
(* Instances of Ingest for TLC.                                              *)
EXTENDS Ingest

Env(type, payload) == [type |-> type, sender |-> "a", corr |-> "c", payload |-> payload]
NoPayload == [empty |-> TRUE]

Request     == Env("request", NoPayload)
Response    == Env("response", NoPayload)
Status      == Env("task_status", NoPayload)
Feedback    == Env("human_feedback", [cycle |-> "c1"])
Memory      == Env("memory", [refs |-> <<"a", "b">>])
Poison      == Env("request", BadPayload)

\* One envelope of each type and of each way a handler can stop early.
AllEnvelopes ==
    { Request, Response, Status, Feedback, Memory, Poison,
      Env("", NoPayload), Env("gossip", NoPayload), Env("trace", NoPayload),
      Env("announce", [agent |-> ""]), Env("announce", [agent |-> "b"]),
      Env("skill_request", [skill |-> "s"]), Env("skill_response", NoPayload),
      Env("audit", NoPayload),
      Env("roster", [agent |-> "", skills |-> <<"s", "t">>]),
      Env("human_feedback", [cycle |-> ""]),
      Env("orchestrator", [from |-> "a", to |-> "b", action |-> "delegate"]),
      Env("orchestrator", [from |-> "a", to |-> "b", action |-> "report"]),
      Env("orchestrator", [from |-> "a", to |-> "b", action |-> "dance"]) }

\* Few envelopes, longer logs: a request, feedback, a poison record.
SomeEnvelopes == { Request, Feedback, Poison }
AllFaults == {"crash", "write", "commit", "load", "read"}
NoLoadFaults == AllFaults \ {"load"}
=============================================================================
