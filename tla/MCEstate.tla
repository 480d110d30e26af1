------------------------------ MODULE MCEstate ------------------------------
(* Instance for TLC of the components that share no state with any other:  *)
(* the scripts a workflow runs, the agent's sandbox, the wallet signer and  *)
(* the warmer's hits.                                                      *)
(* `part` is the one whose behaviours a behaviour of the run follows; the  *)
(* others stay as they were found.                                         *)
EXTENDS AssetMirror, InboundMail, EnvSync, TokenPolicy, AgentSandbox, WalletSigner, CdnHits

VARIABLE part

CONSTANTS c1, c2, f1, f2, g1, s1, s2, s3, w1, absent, malformed

\* The sandbox: a consent that verifies and one that does not, one contact a day.
MCChannelsOf ==
    [c \in {c1, c2} |-> IF c = c1 THEN {"voice", "sms"} ELSE {"voice", "email"}]
MCCeilingOf == [c \in {c1, c2} |-> 1]

\* The mirrors: a film of two takes beside one of a single take, and one that the
\* studio resolves to another file of the same archive item.
MCRendered == <<f1, f2>>
MCResolved == <<g1>>
MCMaxVersion == [f \in {f1, f2, g1} |-> CASE f = f1 -> 2 [] f = f2 -> 1 [] f = g1 -> 2]
MCStampOf == [x \in {f1, f2, g1} \X (1 .. 2) |-> IF x[1] = g1 THEN 1 ELSE x[2]]

\* The signer: a mandate of the worker's own under the default, none of its own
\* and no seed, and one that does not parse.
MCEnv(cap, max, seed) ==
    [caps |-> [w \in {w1} |-> cap], max |-> max, seed |-> seed, platform |-> ~ seed]
MCEnvs == {MCEnv(5, 20, TRUE), MCEnv(absent, 5, FALSE), MCEnv(malformed, 5, TRUE)}
\* Mandates in tenths of a dollar, rounded half up to the asset's atomic unit.
MCCapAtomic == [c \in {5, 20} |-> [d \in 0 .. 2 |-> (c * 10 ^ d + 5) \div 10]]


\* The secrets: runs that meet at one target, and one with nothing to write.
MCAskedOf ==
    [s \in {s1, s2, s3} |-> CASE s = s1 -> <<"production", "preview">>
                              [] s = s2 -> <<"preview">>
                              [] s = s3 -> <<"production">>]

\* The token: with nothing, with half of the groups, and with a group on the
\* wrong resource beside a denial.
MCPolicy(effect, resource, groups) ==
    [effect |-> effect, resource |-> resource, groups |-> groups]
MCFound ==
    {<<>>,
     <<MCPolicy("allow", "account", {"R2"}), MCPolicy("allow", "zone", {"Rules"})>>,
     <<MCPolicy("allow", "account", {"Rules"}), MCPolicy("deny", "account", {"Addresses"})>>}

estateVars ==
    <<mirrorVars, mailVars, syncVars, policyVars, sandboxVars, walletVars, hitVars, part>>

Parts == {"mirror", "mail", "sync", "policy", "sandbox", "wallet", "hits"}

\* What the idle parts rest in: one state each.
MailRests == ~ routing /\ mx = {} /\ ~ rule /\ ~ destination
WalletRests == env = MCEnv(5, 20, TRUE)
SyncRests == rows = {}
PolicyRests == policies = <<>>

EstateInit ==
    /\ MirrorInit /\ MailInit /\ SyncInit /\ PolicyInit /\ SandboxInit /\ WalletInit /\ HitsInit
    /\ part \in Parts
    /\ part = "mail" \/ MailRests
    /\ part = "sync" \/ SyncRests
    /\ part = "policy" \/ PolicyRests
    /\ part = "wallet" \/ WalletRests

EstateNext ==
    /\ part' = part
    /\ \/ /\ part = "mirror" /\ MirrorNext
          /\ UNCHANGED <<mailVars, syncVars, policyVars, sandboxVars, walletVars, hitVars>>
       \/ /\ part = "mail" /\ MailNext
          /\ UNCHANGED <<mirrorVars, syncVars, policyVars, sandboxVars, walletVars, hitVars>>
       \/ /\ part = "sync" /\ SyncNext
          /\ UNCHANGED <<mirrorVars, mailVars, policyVars, sandboxVars, walletVars, hitVars>>
       \/ /\ part = "policy" /\ PolicyNext
          /\ UNCHANGED <<mirrorVars, mailVars, syncVars, sandboxVars, walletVars, hitVars>>
       \/ /\ part = "sandbox" /\ SandboxNext
          /\ UNCHANGED <<mirrorVars, mailVars, syncVars, policyVars, walletVars, hitVars>>
       \/ /\ part = "wallet" /\ WalletNext
          /\ UNCHANGED <<mirrorVars, mailVars, syncVars, policyVars, sandboxVars, hitVars>>
       \/ /\ part = "hits" /\ HitsNext
          /\ UNCHANGED <<mirrorVars, mailVars, syncVars, policyVars, sandboxVars, walletVars>>

EstateSpec == EstateInit /\ [][EstateNext]_estateVars
=============================================================================
