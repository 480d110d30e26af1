---------------------------- MODULE AgentSandbox ----------------------------
(***************************************************************************)
(* The consent gate and the isolate it shapes: workers/mcp/src/consent.mjs *)
(* and workers/mcp/src/agentSandbox.mjs.                                   *)
(*                                                                         *)
(* A caller reads the situation of a contact (who has objected, the hour,  *)
(* how many contacts there were today), mintAgent decides on it and takes  *)
(* an isolate from the Worker Loader, and the isolate's requests leave     *)
(* through the outbound proxy, or not at all.  The Loader keeps isolates   *)
(* warm under an id: it composes one only when none is warm, and may drop  *)
(* one at any time.  The caller is not in the repository: it may run what  *)
(* it was handed whether or not it was told it is allowed.                 *)
(*                                                                         *)
(* The module an isolate runs, its brief and the headers are left out; an  *)
(* isolate may ask for any host, as the code supposes of model-authored    *)
(* code (the one it generates asks for api.nexmo.com).                     *)
(***************************************************************************)
EXTENDS Naturals, FiniteSets

CONSTANTS
    Consents,       \* the records, each with an id of its own
    Verified,       \* those whose signature verifies
    ChannelsOf,     \* what each record agrees to
    CeilingOf,      \* its max_contacts_per_day
    Contacts        \* the contacts that callers attempt

Channels == {"voice", "whatsapp", "sms", "email"}

ASSUME SandboxAssumption ==
    /\ Verified \subseteq Consents
    /\ ChannelsOf \in [Consents -> SUBSET Channels]
    /\ CeilingOf \in [Consents -> Nat]
    /\ IsFiniteSet(Contacts)

EgressByChannel(ch) ==
    CASE ch = "voice" -> {"api"}
      [] ch = "whatsapp" -> {"api", "messages"}
      [] ch = "sms" -> {"rest"}
      [] ch = "email" -> {}

Hosts == {"api", "messages", "rest", "elsewhere"}

VARIABLES
    hour,       \* "early", "waking" or "late", where the person is
    standing,   \* of each consent: current or ended, for it was withdrawn or
                \* has expired, or the recipient has said stop
    isolate,    \* id |-> the hosts the proxy of a warm isolate lets through
    attempt,    \* the state of each attempt
    reached     \* <<attempt, host>> of each request that got out

sandboxVars == <<hour, standing, isolate, attempt, reached>>

\* An attempt before it is made; `alone` is history: no other overlapped it.
Unmade == [phase |-> "unmade", consent |-> CHOOSE c \in Consents : TRUE,
           channel |-> "email", standing |-> "current", hour |-> "early",
           contactsToday |-> 0, allowed |-> FALSE, alone |-> TRUE]

SandboxInit ==
    /\ hour = "early"
    /\ standing = [c \in Consents |-> "current"]
    /\ isolate = [i \in {} |-> {}]
    /\ attempt = [a \in Contacts |-> Unmade]
    /\ reached = {}

\* The contacts there were today, as whoever places them counts them.
ContactsWith(c) == Cardinality({r \in reached : attempt[r[1]].consent = c})

(***************************************************************************)
(* Deciding.                                                               *)
(***************************************************************************)

\* Mutant: one more than the ceiling.
UpToCeiling(s) == s.contactsToday <= CeilingOf[s.consent]

BelowCeiling(s) == s.contactsToday < CeilingOf[s.consent]

MayContact(s) ==
    /\ s.standing = "current"
    /\ s.consent \in Verified
    /\ s.channel \in ChannelsOf[s.consent]
    /\ s.hour = "waking"
    /\ BelowCeiling(s)

HostsFor(s) == IF MayContact(s) THEN EgressByChannel(s.channel) ELSE {}

\* Mutant: a key that leaves the consent out.
ChannelId(s) == <<"agent", s.channel>>

IsolateId(s) == <<s.consent, s.channel>>

(***************************************************************************)
(* An attempt: the caller reads the situation, has an agent minted on it   *)
(* and runs it.                                                            *)
(***************************************************************************)

UnderWay(a) == attempt[a].phase \in {"read", "minted"}

ReadSituation(a, c, ch) ==
    /\ attempt[a].phase = "unmade"
    /\ attempt' = [b \in Contacts |->
            IF b = a
            THEN [Unmade EXCEPT !.phase = "read", !.consent = c, !.channel = ch,
                        !.standing = standing[c], !.hour = hour,
                        !.contactsToday = ContactsWith(c),
                        !.alone = ~ \E o \in Contacts \ {a} : UnderWay(o)]
            ELSE [attempt[b] EXCEPT !.alone = @ /\ ~ UnderWay(b)]]
    /\ UNCHANGED <<hour, standing, isolate, reached>>

\* LOADER.get: the callback composes an isolate only under an id that has none.
Composed(id, hosts) ==
    IF id \in DOMAIN isolate THEN isolate
    ELSE [i \in DOMAIN isolate \cup {id} |-> IF i = id THEN hosts ELSE isolate[i]]

MintAgent(a) ==
    /\ attempt[a].phase = "read"
    /\ isolate' = Composed(IsolateId(attempt[a]), HostsFor(attempt[a]))
    /\ attempt' = [attempt EXCEPT ![a].phase = "minted",
                                  ![a].allowed = MayContact(attempt[a])]
    /\ UNCHANGED <<hour, standing, reached>>

\* The isolate run for `a` asks for a host, through outboundHandler or, with
\* globalOutbound null, through nothing.
Ask(a, h) ==
    /\ attempt[a].phase = "minted"
    /\ IsolateId(attempt[a]) \in DOMAIN isolate
    /\ attempt' = [attempt EXCEPT ![a].phase = "over"]
    /\ reached' = IF h \in isolate[IsolateId(attempt[a])]
                  THEN reached \cup {<<a, h>>} ELSE reached
    /\ UNCHANGED <<hour, standing, isolate>>

Abandon(a) ==
    /\ attempt[a].phase = "minted"
    /\ attempt' = [attempt EXCEPT ![a].phase = "over"]
    /\ UNCHANGED <<hour, standing, isolate, reached>>

(***************************************************************************)
(* The world.  An objection, a withdrawal and an expiry are for good: a    *)
(* guardian who agrees again signs another record, with another id.        *)
(***************************************************************************)

HourPasses ==
    /\ hour # "late"
    /\ hour' = IF hour = "early" THEN "waking" ELSE "late"
    /\ UNCHANGED <<standing, isolate, attempt, reached>>

Ends(c) ==
    /\ standing[c] = "current"
    /\ standing' = [standing EXCEPT ![c] = "ended"]
    /\ UNCHANGED <<hour, isolate, attempt, reached>>

Evict(id) ==
    /\ id \in DOMAIN isolate
    /\ \A a \in Contacts : attempt[a].phase = "minted" => IsolateId(attempt[a]) # id
    /\ isolate' = [i \in DOMAIN isolate \ {id} |-> isolate[i]]
    /\ UNCHANGED <<hour, standing, attempt, reached>>

SandboxNext ==
    \/ \E a \in Contacts :
        \/ \E c \in Consents, ch \in Channels : ReadSituation(a, c, ch)
        \/ MintAgent(a)
        \/ \E h \in Hosts : Ask(a, h)
        \/ Abandon(a)
    \/ HourPasses
    \/ \E c \in Consents : Ends(c)
    \/ \E id \in DOMAIN isolate : Evict(id)

SandboxSpec == SandboxInit /\ [][SandboxNext]_sandboxVars

-----------------------------------------------------------------------------
(***************************************************************************)
(* Properties.                                                             *)
(***************************************************************************)

\* Whatever a caller runs, warm or cold, allowed or not, reaches only the
\* hosts of its own channel, and only if a contact of that very consent on
\* that very channel was permitted: nobody's agent runs on what another
\* person, or another channel, was agreed to (agentSandbox.mjs:134, :164).
ReachWasAgreed ==
    \A r \in reached :
        LET s == attempt[r[1]] IN
        /\ r[2] \in EgressByChannel(s.channel)
        /\ s.consent \in Verified
        /\ s.channel \in ChannelsOf[s.consent]
        /\ \E b \in Contacts :
                /\ attempt[b].allowed
                /\ attempt[b].consent = s.consent
                /\ attempt[b].channel = s.channel

\* Callers that take turns and run only what they were allowed never contact
\* a person more often in a day than the record says (consent.mjs:103).
TurnsKeepTheCeiling ==
    (\A a \in Contacts : attempt[a].alone)
    /\ (\A r \in reached : attempt[r[1]].allowed)
        => \A c \in Consents : ContactsWith(c) <= CeilingOf[c]
=============================================================================
