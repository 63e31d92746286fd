------------------------------- MODULE MCShared -------------------------------
(* For TLC: what several users share while others change it: the pool of      *)
(* OpenCode servers with its sign-in flows, the telemetry reads, a transcript  *)
(* that a host reads or attaches to while it is written, what the threads of a *)
(* Codex session ask of the host, the gateway's pairings and configuration     *)
(* under its API, what start() and stop() of a gateway leave, an answer that is  *)
(* cut for its channel.  They share no state: a behaviour is one of one of     *)
(* them, drawn at the start.                                                   *)
EXTENDS OpenCodeRuntime, TelemetryFlights, DurableTranscript, CodexApprovals, GatewayAccess,
        GatewayLifecycle, Chunker, TLC

VARIABLE part

codexVars == <<transcriptVars, approvalVars>>
poolVars == <<runtimeVars, flightsVars>>
gatewayVars == <<accessVars, lifecycleVars, chunkVars>>
sharedVars == <<poolVars, codexVars, gatewayVars, part>>

Letter(channel, sender, chat, target, mentions) ==
    [channel |-> channel, sender |-> sender, chat |-> chat, target |-> target, mentions |-> mentions]

\* Two people, one of them with the same id on two channels; a group; a webhook.
MCLetters ==
    {Letter("slack", "u1", "direct", "u1", FALSE), Letter("telegram", "u1", "direct", "u1", FALSE),
     Letter("slack", "u2", "direct", "u2", FALSE), Letter("slack", "u2", "thread", "room", TRUE),
     Letter("slack", "u1", "channel", "room", FALSE),
     Letter("webhook", "webhook", "direct", "jobs", FALSE)}

Everywhere(policy) == [c \in {"slack", "telegram", "webhook"} |-> policy]

OpenToAll ==
    [dm |-> Everywhere("open"), groups |-> Everywhere("unset"), senders |-> {}, targets |-> {},
     pattern |-> FALSE, scope |-> "per-channel-peer", links |-> << >>, rules |-> << >>, default |-> "main"]

MCRules ==
    <<[match |-> [chat |-> "direct", channel |-> "slack"], agent |-> "coder"],
      [match |-> [channel |-> "slack"], agent |-> "reviewer"]>>

\* Nothing, a short line, the ends of a code block, and a line that no channel takes.
MCTextLines ==
    {<< >>, <<"x">>, <<"y", "z">>, Fence, <<" ">> \o Fence \o <<"j">>,
     <<"a", "b", "c", "d", "e", "f", "g", "h", "i", "j", "k">>}

MCLinks == <<[name |-> "ann", ids |-> {<<"slack", "u2">>, <<"telegram", "u1">>}]>>

\* Every policy and every scope.
MCAccessConfigs ==
    {[OpenToAll EXCEPT !.dm = [Everywhere("unset") EXCEPT !["webhook"] = "open"], !.rules = MCRules],
     [OpenToAll EXCEPT !.scope = "per-peer", !.links = MCLinks, !.rules = MCRules,
                       !.groups = Everywhere("allowlist"), !.targets = {"room"}],
     [OpenToAll EXCEPT !.pattern = TRUE, !.groups = Everywhere("mention")],
     [OpenToAll EXCEPT !.dm = Everywhere("allowlist"), !.senders = {"u1"}, !.scope = "unset",
                       !.groups = Everywhere("disabled")]}

SharedInit ==
    /\ part \in {"servers", "reads", "catching up", "attaching", "asks", "access", "gateway", "answers"}
    /\ RuntimeInit /\ FlightsInit /\ TranscriptInit /\ ApprovalsInit
    /\ IF part = "access" THEN AccessInit ELSE config = OpenToAll /\ AccessBegins
    /\ LifecycleInit
    /\ IF part = "answers" THEN ChunkInit(AnswersOf(MaxTextLines)) ELSE reply = << >> /\ maxLength = 0
    /\ handled => part = "asks"
    /\ provider = "codex" => part \in {"catching up", "attaching"}

\* What a reader has of a line depends on how many events it has alone.
OneOfEach(kind) == kind \in {"speech", "pair", "note"}

SharedNext ==
    /\ UNCHANGED part
    /\ \/ /\ part = "servers" /\ RuntimeNext
          /\ UNCHANGED <<flightsVars, codexVars, gatewayVars>>
       \/ /\ part = "reads" /\ FlightsNext
          /\ UNCHANGED <<runtimeVars, codexVars, gatewayVars>>
       \/ /\ part = "catching up" /\ TranscriptNext /\ UNCHANGED attach
          /\ \A n \in DOMAIN kinds' : OneOfEach(kinds'[n])
          /\ UNCHANGED <<poolVars, approvalVars, gatewayVars>>
       \/ /\ part = "attaching" /\ TranscriptNext /\ UNCHANGED reader
          /\ UNCHANGED <<poolVars, approvalVars, gatewayVars>>
       \/ /\ part = "asks" /\ ApprovalsNext
          /\ UNCHANGED <<poolVars, transcriptVars, gatewayVars>>
       \/ /\ part = "access" /\ AccessNext
          /\ UNCHANGED <<poolVars, codexVars, lifecycleVars, chunkVars>>
       \/ /\ part = "gateway" /\ LifecycleNext
          /\ UNCHANGED <<poolVars, codexVars, accessVars, chunkVars>>

SharedSpec == SharedInit /\ [][SharedNext]_sharedVars

\* What Codex asks the host, and what the gateway asks it about a sender; a gateway that
\* is asked to start serves, and one that is asked to stop holds nothing.
RequestsAreTrue == AsksAreTrue /\ AccessIsSound /\ StartsAndStops

\* What a reader is told: of a transcript, and in the pieces of an answer.
TextsAreTrue == TranscriptIsTrue /\ (part = "answers" => ChunksAreTrue)

\* The instance gives reads the keys of servers, and callers the names of users.
SharedSymmetry == Permutations(Keys) \cup Permutations(Users) \cup Permutations(Args)

=============================================================================
