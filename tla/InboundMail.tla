---------------------------- MODULE InboundMail -----------------------------
(***************************************************************************)
(* Three scripts over one zone's inbound mail: scripts/email_routing.py    *)
(* (--ensure, with or without --enable), scripts/inbound_switch.py --apply *)
(* and scripts/restore_inbound.py with RESTORE_APPLY.                      *)
(*                                                                         *)
(* Each reads the zone first, decides, and then makes one API call after   *)
(* another.  Each workflow runs once at a time, but nothing keeps the      *)
(* three apart.  A call may fail; what follows depends on the script: one  *)
(* reports and counts, one stops at an exception, one goes on.             *)
(*                                                                         *)
(* External, from how the scripts use it: Cloudflare refuses to enable     *)
(* routing beside another provider's MX and otherwise puts its own, and    *)
(* while routing is on it may put them back.  Runs that only report are    *)
(* left out, and so are records of a zone's subdomains.                    *)
(***************************************************************************)
EXTENDS FiniteSets

CONSTANTS
    Theirs,         \* the MX records of the provider named
    Cloudflares,    \* those of Email Routing
    Others          \* any other provider's

ASSUME MailAssumption ==
    /\ Theirs # {} /\ Cloudflares # {}
    /\ Theirs \cap Cloudflares = {}
    /\ Others \cap (Theirs \cup Cloudflares) = {}

Scripts == {"provision", "switch", "restore"}

VARIABLES
    routing,        \* is Email Routing on
    mx,             \* the zone's MX records
    rule,           \* is there a rule for the reply address
    destination,    \* can choose_destination name one
    script          \* the run of each script

mailVars == <<routing, mx, rule, destination, script>>

\* No run, or one that has ended 0 or not; `alone` is history.
NoScript == [phase |-> "exit", enabled |-> FALSE, hosts |-> {}, ruled |-> FALSE,
             todo |-> {}, failed |-> FALSE, alone |-> TRUE]

MailInit ==
    /\ routing \in BOOLEAN
    /\ mx \in {Cloudflares, {}, Theirs, Theirs \cup Others}
    /\ routing => mx = Cloudflares
    /\ rule \in BOOLEAN
    /\ destination \in BOOLEAN
    /\ script = [s \in Scripts |-> NoScript]

Running(s) == script[s].phase \notin {"exit", "exit0"}

At(s, phase) == script[s].phase = phase

Begin(s) ==
    /\ ~ Running(s)
    /\ script' = [t \in Scripts |->
            IF t = s THEN [NoScript EXCEPT !.phase = "reading",
                                           !.alone = ~ \E o \in Scripts : Running(o)]
            ELSE [script[t] EXCEPT !.alone = @ /\ ~ Running(t)]]
    /\ UNCHANGED <<routing, mx, rule, destination>>

\* The run with the fields `next` changed, and its end.
Goes(s, next) == script' = [script EXCEPT ![s] = next]
Ends0(s) == Goes(s, [NoScript EXCEPT !.phase = "exit0"])
EndsNot0(s) == Goes(s, NoScript)

ZoneKept == UNCHANGED <<routing, mx, rule, destination>>

\* A read that fails, an exception, or the job's timeout.
ScriptDies(s) == Running(s) /\ EndsNot0(s) /\ ZoneKept

(***************************************************************************)
(* email_routing.py --ensure.                                              *)
(***************************************************************************)

ReadRouting ==
    /\ At("provision", "reading")
    /\ Goes("provision", [script["provision"] EXCEPT !.phase = "readingMx", !.enabled = routing])
    /\ ZoneKept

MayEnable(hosts) == hosts \subseteq Cloudflares

\* An MX list that cannot be read is refused (ScriptDies), unless routing is on
\* and the list is only printed.
ReadMx ==
    /\ At("provision", "readingMx")
    /\ Goes("provision", [script["provision"] EXCEPT !.phase = "readingRules", !.hosts = mx])
    /\ ZoneKept

\* A listing that fails reads as no rules.  Only a run with --enable goes on to
\* turn on a routing that is off.
ReadRules ==
    /\ At("provision", "readingRules")
    /\ \E found \in {rule, FALSE}, next \in {"enabling", "ensuring"} :
            /\ next = "enabling" => ~ script["provision"].enabled
            /\ Goes("provision", [script["provision"] EXCEPT !.ruled = found, !.phase = next])
    /\ ZoneKept

Enable ==
    /\ At("provision", "enabling")
    /\ MayEnable(script["provision"].hosts)
    /\ mx \subseteq Cloudflares
    /\ routing' = TRUE
    /\ mx' = Cloudflares
    /\ Goes("provision", [script["provision"] EXCEPT !.phase = "ensuring", !.enabled = TRUE,
                                                 !.hosts = {}])
    /\ UNCHANGED <<rule, destination>>

\* Refused: exit 3, or 1 by Cloudflare.
RefuseToEnable ==
    /\ At("provision", "enabling")
    /\ ~ MayEnable(script["provision"].hosts) \/ ~ mx \subseteq Cloudflares
    /\ EndsNot0("provision")
    /\ ZoneKept

\* verdict: 0 only when what was read, or turned on, says routing is on.
Verdict ==
    IF script["provision"].enabled THEN Ends0("provision") ELSE EndsNot0("provision")

EnsureRule ==
    /\ At("provision", "ensuring")
    /\ IF script["provision"].ruled THEN Verdict /\ rule' = rule
       ELSE /\ rule' = (rule \/ destination)
            /\ IF destination THEN Verdict ELSE EndsNot0("provision")
    /\ UNCHANGED <<routing, mx, destination>>

(***************************************************************************)
(* inbound_switch.py --apply.                                              *)
(***************************************************************************)

Classify ==
    /\ At("switch", "reading")
    /\ IF mx \cap Others # {} THEN EndsNot0("switch")
       ELSE IF mx \cap Theirs = {} THEN Ends0("switch")
       ELSE Goes("switch", [script["switch"] EXCEPT !.phase = "removing", !.todo = mx \cap Theirs])
    /\ ZoneKept

\* One DELETE; a record that is gone answers an error too.
RemoveTheirs(r) ==
    /\ At("switch", "removing")
    /\ r \in script["switch"].todo
    /\ \/ r \in mx /\ mx' = mx \ {r}
          /\ Goes("switch", [script["switch"] EXCEPT !.todo = @ \ {r}])
       \/ mx' = mx
          /\ Goes("switch", [script["switch"] EXCEPT !.todo = @ \ {r}, !.failed = TRUE])
    /\ UNCHANGED <<routing, rule, destination>>

\* Mutant: what failed is not counted.
CountNothing ==
    /\ At("switch", "removing")
    /\ script["switch"].todo = {}
    /\ Ends0("switch")
    /\ ZoneKept

CountRemoved ==
    /\ At("switch", "removing")
    /\ script["switch"].todo = {}
    /\ IF script["switch"].failed THEN EndsNot0("switch") ELSE Ends0("switch")
    /\ ZoneKept

(***************************************************************************)
(* restore_inbound.py.                                                     *)
(***************************************************************************)

ReadApex ==
    /\ At("restore", "reading")
    /\ IF mx \cap Others # {} THEN EndsNot0("restore")
       ELSE Goes("restore", [script["restore"] EXCEPT !.phase = "disabling", !.hosts = mx])
    /\ ZoneKept

\* Not fatal when it fails.
DisableRouting ==
    /\ At("restore", "disabling")
    /\ routing' \in {routing, FALSE}
    /\ Goes("restore", [script["restore"] EXCEPT !.phase = "adding",
                                                 !.todo = Theirs \ script["restore"].hosts])
    /\ UNCHANGED <<mx, rule, destination>>

\* A record that is there already raises (ScriptDies).
AddTheirs(r) ==
    /\ At("restore", "adding")
    /\ r \in script["restore"].todo \ mx
    /\ mx' = mx \cup {r}
    /\ Goes("restore", [script["restore"] EXCEPT !.todo = @ \ {r}])
    /\ UNCHANGED <<routing, rule, destination>>

AddedAll ==
    /\ At("restore", "adding")
    /\ script["restore"].todo = {}
    /\ Goes("restore", [script["restore"] EXCEPT !.phase = "removing",
                                    !.todo = script["restore"].hosts \cap Cloudflares])
    /\ ZoneKept

\* A record that is gone raises (ScriptDies).
RemoveCloudflares(r) ==
    /\ At("restore", "removing")
    /\ r \in script["restore"].todo \cap mx
    /\ mx' = mx \ {r}
    /\ Goes("restore", [script["restore"] EXCEPT !.todo = @ \ {r}])
    /\ UNCHANGED <<routing, rule, destination>>

CheckApex ==
    /\ At("restore", "removing")
    /\ script["restore"].todo = {}
    /\ IF mx = Theirs THEN Ends0("restore") ELSE EndsNot0("restore")
    /\ ZoneKept

\* Cloudflare puts its own records back, in place of any other.
Reassert ==
    /\ routing
    /\ mx # Cloudflares
    /\ mx' = Cloudflares
    /\ UNCHANGED <<routing, rule, destination, script>>

MailNext ==
    \/ \E s \in Scripts : Begin(s) \/ ScriptDies(s)
    \/ ReadRouting \/ ReadMx \/ ReadRules \/ Enable \/ RefuseToEnable \/ EnsureRule
    \/ Classify \/ (\E r \in Theirs : RemoveTheirs(r)) \/ CountRemoved
    \/ ReadApex \/ DisableRouting \/ (\E r \in Theirs : AddTheirs(r)) \/ AddedAll
    \/ (\E r \in Cloudflares : RemoveCloudflares(r)) \/ CheckApex
    \/ Reassert

MailSpec == MailInit /\ [][MailNext]_mailVars

-----------------------------------------------------------------------------
(***************************************************************************)
(* Property.                                                               *)
(***************************************************************************)

EndsZero(s) == Running(s) /\ script'[s].phase = "exit0"

\* A run that no other overlapped and that ends 0 has done what it says of the
\* zone, whatever state it found: the reply address is routed, the provider's
\* records are gone, or the provider's records are all there is.  Half of a
\* provider's records, both providers' or a rule behind a service that is off
\* is never reported as done (email_routing.py:232, inbound_switch.py:142,
\* restore_inbound.py:247).
ZeroMeansDone ==
    [][\A s \in Scripts : EndsZero(s) /\ script[s].alone =>
            CASE s = "provision" -> routing' /\ rule'
              [] s = "switch" -> mx' \cap Theirs = {}
              [] s = "restore" -> mx' = Theirs]_mailVars
=============================================================================
