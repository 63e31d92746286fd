---------------------------- MODULE GatewayAccess ----------------------------
(***************************************************************************)
(* Who gets through to an agent of the gateway, and in which conversation: *)
(* processMessage up to the session (access control, the pairing store,    *)
(* the routing to an agent, the session key), the webhook route, and the   *)
(* control API, which decides pairings and patches the configuration in    *)
(* between.                                                                *)
(*                                                                         *)
(* A sender, a group, a text are what the rules tell apart of them.        *)
(***************************************************************************)
EXTENDS Naturals, Sequences, SequencesExt, FiniteSets

CONSTANTS
    Letters,      \* what may come in: channel, sender, chat, target, whether it mentions the agent
    AccessConfigs, \* config, as it is loaded and as it may be patched
    SignedRoutes, \* whether webhooks must be signed
    TokenIsSet,   \* whether the control API asks for a token
    MaxLetters,   \* bound: messages
    MaxPatches    \* bound: patches of the configuration

VARIABLES
    config,    \* the live configuration
    came,      \* the messages, in order, and what became of each
    pairings,  \* PairingStore: the requests that wait, oldest first
    made,      \* how many requests were made
    released,  \* history: the messages handed back by approvals, in order
    patches

accessVars == <<config, came, pairings, made, released, patches>>

AccessBegins ==
    came = << >> /\ pairings = << >> /\ made = 0 /\ released = << >> /\ patches = 0

AccessInit == config \in AccessConfigs /\ AccessBegins

-----------------------------------------------------------------------------
(* The rules.                                                              *)

Direct(l) == l.chat = "direct"

\* A policy that is not given.
Or(policy, default) == IF policy = "unset" THEN default ELSE policy

\* checkDmAccess, checkGroupAccess: a policy of no known name refuses.
DmAccess(l) ==
    LET policy == Or(config.dm[l.channel], "pairing") IN
    CASE policy = "pairing" -> "pairing"
      [] policy = "open" \/ (policy = "allowlist" /\ l.sender \in config.senders) -> "allowed"
      [] OTHER -> "refused"

GroupAccess(l) ==
    LET policy == Or(config.groups[l.channel], "mention") IN
    IF \/ policy = "open"
       \/ policy = "allowlist" /\ l.target \in config.targets
       \/ policy = "mention" /\ (config.pattern => l.mentions)
    THEN "allowed" ELSE "refused"

CheckAccess(l) == IF Direct(l) THEN DmAccess(l) ELSE GroupAccess(l)

\* A rule leaves open what it does not name.
Matches(rule, l) == \A f \in DOMAIN rule.match : rule.match[f] = l[f]

\* resolveAgent: the first rule that matches.
ResolveAgent(l) ==
    LET hits == SelectSeq(config.rules, LAMBDA rule : Matches(rule, l)) IN
    IF hits = << >> THEN config.default ELSE hits[1].agent

\* The first name that a sender is linked to, if there is one.
Name(l, links) ==
    LET names == SelectSeq(links, LAMBDA link : <<l.channel, l.sender>> \in link.ids) IN
    IF names = << >> THEN << >> ELSE <<names[1].name>>

\* resolveCanonicalPeerId
PeerId(l) == IF Name(l, config.links) = << >> THEN l.sender ELSE Name(l, config.links)[1]

\* Mutant: a sender is its id, whatever the channel.
ChannelDropped(l, agent) ==
    IF Direct(l) THEN <<agent, "direct", l.sender>>
    ELSE <<agent, l.channel, "group", l.target>>

\* resolveSessionKey: any other scope is one conversation for everybody.
SessionKey(l, agent) ==
    CASE ~Direct(l) -> <<agent, l.channel, "group", l.target>>
      [] Direct(l) /\ config.scope = "per-peer" -> <<agent, "direct", PeerId(l)>>
      [] Direct(l) /\ config.scope = "per-channel-peer" -> <<agent, l.channel, "direct", l.sender>>
      [] OTHER -> <<agent, "main">>

-----------------------------------------------------------------------------
(* processMessage.                                                         *)

\* Mutant: every message is a request of its own.
NoneWaiting(l) == {}

\* findBySender: the places of the requests that wait for a sender.
FindBySender(l) ==
    {p \in DOMAIN pairings : pairings[p].channel = l.channel /\ pairings[p].sender = l.sender}

\* request(): the message joins the sender's request, or makes one.
Held(l, n) ==
    IF FindBySender(l) # {}
    THEN LET p == CHOOSE p \in FindBySender(l) : \A q \in FindBySender(l) : p <= q IN
         pairings' = [pairings EXCEPT ![p].held = Append(@, n)] /\ UNCHANGED made
    ELSE /\ pairings' = Append(pairings, [id |-> made + 1, channel |-> l.channel,
                                          sender |-> l.sender, held |-> <<n>>])
         /\ made' = made + 1

Came(l, how, key, agent) ==
    came' = Append(came, [letter |-> l, how |-> how, key |-> key, agent |-> agent,
                          scope |-> config.scope, links |-> config.links])

\* A message passes to its session, is held until its sender is paired, or goes nowhere.
ProcessMessage(l) ==
    LET agent == ResolveAgent(l) IN
    /\ Len(came) < MaxLetters
    /\ CASE CheckAccess(l) = "allowed" ->
              /\ Came(l, "in", SessionKey(l, agent), agent)
              /\ UNCHANGED <<pairings, made>>
         [] CheckAccess(l) = "pairing" ->
              Came(l, "held", << >>, "none") /\ Held(l, Len(came) + 1)
         [] CheckAccess(l) = "refused" ->
              Came(l, "refused", << >>, "none") /\ UNCHANGED <<pairings, made>>
    /\ UNCHANGED <<config, released, patches>>

\* handleWebhook: what is signed wrongly is answered 401; what passes is a message.
Webhook(l, signed) ==
    /\ l.channel = "webhook" /\ (SignedRoutes => signed)
    /\ ProcessMessage(l)

\* What the plugins of the other channels report.
Receives(l) == l.channel # "webhook" /\ ProcessMessage(l)

-----------------------------------------------------------------------------
(* The control API.                                                        *)

Marked(held, how) ==
    came' = [n \in DOMAIN came |->
                IF n \in {held[i] : i \in DOMAIN held} THEN [came[n] EXCEPT !.how = how] ELSE came[n]]

\* Mutant: a request that was decided still waits.
LeftWaiting(p) == UNCHANGED pairings

\* approve() and deny() take the request out.
Decided(p) == pairings' = RemoveAt(pairings, p)

\* A request without the token is answered 401.
Authorized(trusted) == TokenIsSet => trusted

\* POST /api/pairings/:id/approve: the messages are the answer; nothing else has them.
Approve(p) ==
    /\ Decided(p)
    /\ Marked(pairings[p].held, "released")
    /\ released' = released \o pairings[p].held
    /\ UNCHANGED <<config, made, patches>>

\* POST /api/pairings/:id/deny
Deny(p) ==
    /\ Decided(p)
    /\ Marked(pairings[p].held, "denied")
    /\ UNCHANGED <<config, made, released, patches>>

\* PATCH /api/config: what the patch names is replaced, unchecked, once its body is read.
Patch(c, trusted) ==
    /\ Authorized(trusted)
    /\ patches < MaxPatches /\ patches' = patches + 1
    /\ config' = c /\ c # config
    /\ UNCHANGED <<came, pairings, made, released>>

\* A request for an unknown id is answered 404 and changes nothing.
Decision(id, trusted) ==
    /\ Authorized(trusted)
    /\ \E p \in DOMAIN pairings : pairings[p].id = id /\ (Approve(p) \/ Deny(p))

AccessNext ==
    \/ \E l \in Letters : Receives(l) \/ \E signed \in BOOLEAN : Webhook(l, signed)
    \/ \E trusted \in BOOLEAN :
          (\E id \in 1..made : Decision(id, trusted)) \/ \E c \in AccessConfigs : Patch(c, trusted)

AccessSpec == AccessInit /\ [][AccessNext]_accessVars

-----------------------------------------------------------------------------
(* Properties.                                                             *)

WaitingIn(p) == {pairings[p].held[i] : i \in DOMAIN pairings[p].held}

\* A sender that is not paired waits in one request, however often it writes, whatever is
\* decided or patched in between; the request has its messages in order, each is in one
\* request as long as it is held, and is handed back at most once.
HeldOnce ==
    /\ \A p, q \in DOMAIN pairings :
          (pairings[p].channel = pairings[q].channel /\ pairings[p].sender = pairings[q].sender) => p = q
    /\ \A p \in DOMAIN pairings :
          /\ \A i, j \in DOMAIN pairings[p].held : i < j => pairings[p].held[i] < pairings[p].held[j]
          /\ \A n \in WaitingIn(p) :
                /\ came[n].how = "held" /\ came[n].letter.sender = pairings[p].sender
                /\ came[n].letter.channel = pairings[p].channel
    /\ \A n \in DOMAIN came : came[n].how = "held" => \E p \in DOMAIN pairings : n \in WaitingIn(p)
    /\ IsInjective(released)
    /\ \A n \in ToSet(released) : came[n].how = "released"

\* Whether two messages that came in are of one conversation, as the README has the scopes.
Together(a, b) ==
    /\ a.agent = b.agent
    /\ \/ /\ ~Direct(a.letter) /\ ~Direct(b.letter)
          /\ a.letter.channel = b.letter.channel /\ a.letter.target = b.letter.target
       \/ /\ Direct(a.letter) /\ Direct(b.letter) /\ a.scope = b.scope
          /\ CASE a.scope = "per-channel-peer" ->
                    a.letter.channel = b.letter.channel /\ a.letter.sender = b.letter.sender
               [] a.scope = "per-peer" ->
                    IF Name(a.letter, a.links) = << >> /\ Name(b.letter, b.links) = << >>
                    THEN a.letter.sender = b.letter.sender
                    ELSE Name(a.letter, a.links) = Name(b.letter, b.links)
               [] OTHER -> TRUE
       \/ /\ Direct(a.letter) /\ Direct(b.letter)
          /\ {a.scope, b.scope} \cap {"per-peer", "per-channel-peer"} = {}

\* Two messages meet in a session exactly when they belong together: by person, by
\* channel or by group, with the agent that the first rule names, across patches.
KeptApart ==
    \A a, b \in ToSet(came) :
        (a.how = "in" /\ b.how = "in") => (a.key = b.key <=> Together(a, b))

AccessIsSound == HeldOnce /\ KeptApart

=============================================================================
