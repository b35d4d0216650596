----------------------------- MODULE StatusPath -----------------------------
(* The way of a status from the agent to the display: agent, reassembly,   *)
(* deadline of an HTTPS exchange, and feed.  The parts share no state (what *)
(* passes between them is the payload, which each leaves free), so a       *)
(* behaviour of all is an interleaving of behaviours of each, and it is    *)
(* enough to let one part run at a time.                                   *)
EXTENDS WsAssembler, StatusFeed

CONSTANTS
  Conns, Limit, MaxSeq,     \* of StatusAgent; its channels are those of the feed
  Sockets, Patience, MaxBody \* of HttpDeadline

VARIABLES
  part, \* the part that runs
  seq, snap, lastSeq, agentActive, alertSeq, gather, outbox, drain, handler, first, clients,
  reserved, reads, seen, heard,
  owner, cut, lock, armed, due, fetching, sock, left, bodyUsed, declared, worker

Agent == INSTANCE StatusAgent WITH active <- agentActive
Http == INSTANCE HttpDeadline WITH active <- armed, used <- bodyUsed

ASSUME PathAssumption == Agent!AgentAssumption /\ Http!DeadlineAssumption

agent == <<seq, snap, lastSeq, agentActive, alertSeq, gather, outbox, drain, handler, first, clients,
           reserved, reads, seen, heard>>
deadline == <<owner, cut, lock, armed, due, fetching, sock, left, bodyUsed, declared, worker>>
parts == <<part, vars, feedVars, agent, deadline>>

PathInit ==
  /\ part \in {"feed", "assembler", "agent", "deadline"}
  /\ Init /\ FeedInit /\ Agent!Init /\ Http!Init
  /\ part # "deadline" => owner = [n \in Sockets |-> "free"]

RunFeed == part = "feed" /\ FeedNext /\ UNCHANGED <<part, vars, agent, deadline>>
RunAssembler == part = "assembler" /\ Next /\ UNCHANGED <<part, feedVars, agent, deadline>>
RunAgent == part = "agent" /\ Agent!Next /\ UNCHANGED <<part, vars, feedVars, deadline>>
RunHttp == part = "deadline" /\ Http!Next /\ UNCHANGED <<part, vars, feedVars, agent>>

PathNext == RunFeed \/ RunAssembler \/ RunAgent \/ RunHttp

\* The fairness of Agent!Spec and Http!Spec, for the part that runs.
PathSpec ==
  /\ PathInit /\ [][PathNext]_parts
  /\ WF_agent(part = "agent" /\ Agent!Round) /\ WF_agent(part = "agent" /\ Agent!RoundDone)
  /\ \A c \in Conns : /\ WF_agent(part = "agent" /\ Agent!Sending(c))
                       /\ WF_agent(part = "agent" /\ ~reads[c] /\ Agent!Ends(c))
  /\ WF_deadline(part = "deadline" /\ Http!Tick)
  /\ WF_deadline(part = "deadline" /\ (Http!Look \/ Http!Shut))
  /\ WF_deadline(part = "deadline" /\ Http!Own)
  /\ WF_deadline(part = "deadline" /\ sock \in cut /\ Http!Reads)
  /\ SF_deadline(part = "deadline" /\ Http!Take) /\ SF_deadline(part = "deadline" /\ Http!ArmTake)
  /\ SF_deadline(part = "deadline" /\ Http!DisarmTake)

-----------------------------------------------------------------------------
\* See the modules of the same parts for what these say of the code.
ClientsServed == Agent!ClientsServed
InOrder == Agent!InOrder
AgentGoesOn == Agent!AgentGoesOn
CutsOnlyLate == Http!CutsOnlyLate
FetchEnds == Http!FetchEnds
=============================================================================
