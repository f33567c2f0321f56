------------------------------- MODULE Handlers -------------------------------
(***************************************************************************)
(* Package ingest, handlers.go: what each envelope type writes.  A handler *)
(* is the sequence of its UpsertNode and UpsertEdge calls, in order; it    *)
(* stops at the first call that fails.  Every ID is computed from the      *)
(* envelope and its source offset, so a handler run twice makes the same   *)
(* calls.                                                                  *)
(*                                                                         *)
(* An envelope is a record with fields type, sender, corr (correlation ID) *)
(* and payload; a payload that does not unmarshal is BadPayload.           *)
(***************************************************************************)
EXTENDS Integers, Sequences

BadPayload == [bad |-> TRUE]

(* nodeid.go.  Node IDs are <<label, key>>, edge IDs <<label, from, to>>.  *)
AgentNodeID(a)          == <<"Agent", a>>
ConversationNodeID(c)   == <<"Conversation", c>>
SkillNodeID(s)          == <<"Skill", s>>
CycleNodeID(c)          == <<"ReflectionCycle", c>>
\* Faulty variant: the partition is left out of a message's ID.
MessageNodeIDByOffset(src) == <<"Message", src[2]>>
MessageNodeID(src)      == <<"Message", src>>
SharedMemoryNodeID(src) == <<"SharedMemory", src>>
AuditEventNodeID(src)   == <<"AuditEvent", src>>
HumanFeedbackNodeID(src) == <<"HumanFeedback", src>>
DeterministicEdgeID(label, from, to) == <<label, from, to>>

UpsertNode(id)              == [kind |-> "node", id |-> id]
UpsertEdge(label, from, to) == [kind |-> "edge", id |-> DeterministicEdgeID(label, from, to)]

\* Announce and roster payloads name an agent; "" means the sender.
NamedAgent(env) == IF env.payload.agent = "" THEN env.sender ELSE env.payload.agent

HandleAnnounce(env, src) == <<UpsertNode(AgentNodeID(NamedAgent(env)))>>

\* Faulty variant: the edges are written before the conversation they point to.
HandleRequestEdgesFirst(env, src) ==
    LET sender == AgentNodeID(env.sender)  conv == ConversationNodeID(env.corr)
        msg == MessageNodeID(src)
    IN  << UpsertNode(sender), UpsertNode(msg),
           UpsertEdge("AUTHORED", sender, msg), UpsertEdge("BELONGS_TO", msg, conv),
           UpsertNode(conv) >>
HandleRequest(env, src) ==
    LET sender == AgentNodeID(env.sender)  conv == ConversationNodeID(env.corr)
        msg == MessageNodeID(src)
    IN  << UpsertNode(sender), UpsertNode(conv), UpsertNode(msg),
           UpsertEdge("AUTHORED", sender, msg), UpsertEdge("BELONGS_TO", msg, conv) >>

\* inReplyTo is only a property of the message.
HandleResponse(env, src) == HandleRequest(env, src)

HandleTaskStatus(env, src) == <<UpsertNode(ConversationNodeID(env.corr))>>

HandleSkillRequest(env, src) ==
    LET sender == AgentNodeID(env.sender)  conv == ConversationNodeID(env.corr)
        msg == MessageNodeID(src)          skill == SkillNodeID(env.payload.skill)
    IN  << UpsertNode(sender), UpsertNode(conv), UpsertNode(msg), UpsertNode(skill),
           UpsertEdge("AUTHORED", sender, msg), UpsertEdge("BELONGS_TO", msg, conv),
           UpsertEdge("USES_SKILL", msg, skill) >>

HandleSkillResponse(env, src) == HandleResponse(env, src)

\* One node and one edge per referenced agent, in the order of the payload.
HandleMemory(env, src) ==
    LET mem == SharedMemoryNodeID(src)  sender == AgentNodeID(env.sender)
        refs == env.payload.refs
    IN  << UpsertNode(mem), UpsertNode(sender), UpsertEdge("SHARED_BY", mem, sender) >>
        \o [i \in 1..(2 * Len(refs)) |->
               LET ref == AgentNodeID(refs[(i + 1) \div 2])
               IN  IF i % 2 = 1 THEN UpsertNode(ref) ELSE UpsertEdge("REFERENCES", mem, ref)]

HandleTrace(env, src) == <<UpsertNode(ConversationNodeID(env.corr))>>

HandleAudit(env, src) ==
    LET audit == AuditEventNodeID(src)  sender == AgentNodeID(env.sender)
    IN  << UpsertNode(audit), UpsertNode(sender), UpsertEdge("AUDITED_BY", audit, sender) >>

\* "remove" and "add" write the same edge with different properties.
HandleRoster(env, src) ==
    LET agent == AgentNodeID(NamedAgent(env))  skills == env.payload.skills
    IN  << UpsertNode(agent) >>
        \o [i \in 1..(2 * Len(skills)) |->
               LET skill == SkillNodeID(skills[(i + 1) \div 2])
               IN  IF i % 2 = 1 THEN UpsertNode(skill) ELSE UpsertEdge("HAS_SKILL", agent, skill)]

\* The edge to the cycle is written before the cycle is.  The score overrides
\* that follow only touch edges that already exist.
HandleHumanFeedback(env, src) ==
    LET fb == HumanFeedbackNodeID(src)  cycle == CycleNodeID(env.payload.cycle)
    IN  IF env.payload.cycle = "" THEN <<>>             \* missing CycleID
        ELSE << UpsertNode(fb), UpsertEdge("HAS_FEEDBACK", cycle, fb), UpsertNode(cycle) >>

\* An unknown action is an error, but only after both agents were written.
HandleOrchestrator(env, src) ==
    LET from == AgentNodeID(env.payload.from)  to == AgentNodeID(env.payload.to)
    IN  << UpsertNode(from), UpsertNode(to) >>
        \o (CASE env.payload.action = "delegate" -> << UpsertEdge("DELEGATES_TO", from, to) >>
              [] env.payload.action = "report"   -> << UpsertEdge("REPORTS_TO", from, to) >>
              [] OTHER                           -> <<>>)

\* Processor.ProcessRecord: ParseEnvelope, then Router.Route.  A record without
\* a type, with a payload that does not unmarshal or of an unknown type writes
\* nothing.
ProcessRecord(env, src) ==
    IF env.type = "" \/ env.payload = BadPayload THEN <<>> ELSE
    CASE env.type = "announce"       -> HandleAnnounce(env, src)
      [] env.type = "request"        -> HandleRequest(env, src)
      [] env.type = "response"       -> HandleResponse(env, src)
      [] env.type = "task_status"    -> HandleTaskStatus(env, src)
      [] env.type = "skill_request"  -> HandleSkillRequest(env, src)
      [] env.type = "skill_response" -> HandleSkillResponse(env, src)
      [] env.type = "memory"         -> HandleMemory(env, src)
      [] env.type = "trace"          -> HandleTrace(env, src)
      [] env.type = "audit"          -> HandleAudit(env, src)
      [] env.type = "roster"         -> HandleRoster(env, src)
      [] env.type = "orchestrator"   -> HandleOrchestrator(env, src)
      [] env.type = "human_feedback" -> HandleHumanFeedback(env, src)
      [] OTHER                       -> <<>>
=============================================================================
