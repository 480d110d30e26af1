---------------------------- MODULE WalletSigner ----------------------------
(***************************************************************************)
(* The wallet signer: workers/wallet-signer/src/index.mjs.                 *)
(*                                                                         *)
(* A POST asks for a payment; the Worker resolves the account that is to   *)
(* pay, builds an authorization that is valid for ten minutes, holds its   *)
(* value against the mandate of the worker named and signs it.  It keeps   *)
(* nothing: the mandates and the keys are its environment, which a deploy  *)
(* replaces, and an authorization it has signed can be settled until it    *)
(* is too old, whatever has been deployed since.                           *)
(*                                                                         *)
(* A request reads one environment and shares nothing else, so it is one   *)
(* step.  Amounts are in the asset's atomic units, mandates in dollars:    *)
(* the mandate is scaled by the decimals that the REQUEST says its asset   *)
(* has, and by those of USDC when it says nothing.  Keys, signatures and   *)
(* the encoding of the header are left out.  GET only reports.             *)
(***************************************************************************)
EXTENDS Integers, FiniteSets

CONSTANTS
    Workers,        \* the workers a request may name
    NoWorker,       \* a request that names none
    Platform,       \* the account of WALLET_PRIVATE_KEY
    NoAccount,      \* no account resolves
    Absent,         \* a worker that is not listed, a variable that is not set
    Malformed,      \* empty, or not a number of at least 0
    Unlimited,      \* no mandate
    Amounts,        \* the amounts of requests, in atomic units
    Caps,           \* the mandates, in dollars
    Decimals,       \* the decimals a request may claim for its asset
    NotANumber,     \* a claim that Number() makes nothing finite of
    UsdcDecimals,   \* 6
    CapAtomic,      \* mandate |-> decimals |-> Math.round(capUsd * 10 ** decimals)
    Validity,       \* how long an authorization can be settled: 600 s
    Envs,           \* the environments deployed
    MaxSigned,      \* bound on the authorizations signed
    MaxTime         \* bound on the clock

Raw == Caps \cup {Absent, Malformed}

\* WALLET_WORKER_CAPS, WALLET_MAX_USD, and which of the two keys are set.
Env == [caps : [Workers -> Raw], max : Raw, seed : BOOLEAN, platform : BOOLEAN]

ASSUME WalletAssumption ==
    /\ NoWorker \notin Workers
    /\ {Platform, NoAccount} \cap Workers = {} /\ Platform # NoAccount
    /\ Amounts \subseteq Nat
    /\ {Absent, Malformed, Unlimited} \cap Caps = {}
    /\ Validity \in Nat \ {0}
    /\ Envs \subseteq Env

\* More decimals never make less of a mandate.
ASSUME ScaleAssumption ==
    /\ Decimals \subseteq Int /\ UsdcDecimals \in Decimals
    /\ {Absent, NotANumber} \cap Decimals = {}
    /\ CapAtomic \in [Caps -> [Decimals -> Nat]]
    /\ \A c \in Caps, d, e \in Decimals : d <= e => CapAtomic[c][d] <= CapAtomic[c][e]

VARIABLES
    clock,      \* seconds, in units of which Validity is a few
    env,        \* the environment of the Worker that now answers
    signed,     \* the authorizations signed
    settled,    \* those settled, with the time they were
    inForce     \* history: <<time, environment>> of all that answered

walletVars == <<clock, env, signed, settled, inForce>>

WalletInit ==
    /\ clock = 0
    /\ env \in Envs
    /\ signed = {}
    /\ settled = {}
    /\ inForce = {<<0, env>>}

(***************************************************************************)
(* The mandate and the account.                                            *)
(***************************************************************************)

\* A worker that is listed has its own raw value, even one that does not parse.
RawCap(e, w) == IF w \in Workers /\ e.caps[w] # Absent THEN e.caps[w] ELSE e.max

CapUsdFor(e, w) == IF RawCap(e, w) \in Caps THEN RawCap(e, w) ELSE Unlimited

\* requirements.extra.decimals, the caller's word for it.
Claims == Decimals \cup {Absent, NotANumber}

DecimalsOf(claim) == IF claim = Absent THEN UsdcDecimals ELSE claim

\* Decimals that are no number throw, where there is a mandate to scale.
WithinCap(value, cap, decimals) ==
    cap # Unlimited => decimals \in Decimals /\ value <= CapAtomic[cap][decimals]

ResolveAccount(e, w) ==
    IF w \in Workers /\ e.seed THEN w
    ELSE IF e.platform THEN Platform ELSE NoAccount

\* The decimals are history: the authorization that is signed does not hold them.
BuildAuthorization(e, w, value, claim) ==
    [worker |-> w, from |-> ResolveAccount(e, w), value |-> value,
     validBefore |-> clock + Validity, decimals |-> DecimalsOf(claim)]

(***************************************************************************)
(* POST /, and what becomes of what it answers.                            *)
(***************************************************************************)

\* Mutant: the default mandate for everyone.
PostOnDefault(w, value, claim) ==
    LET authorization == BuildAuthorization(env, w, value, claim) IN
    /\ Cardinality(signed) < MaxSigned
    /\ authorization.from # NoAccount
    /\ WithinCap(value, CapUsdFor(env, NoWorker), authorization.decimals)
    /\ signed' = signed \cup {authorization}
    /\ UNCHANGED <<clock, env, settled, inForce>>

Post(w, value, claim) ==
    LET authorization == BuildAuthorization(env, w, value, claim) IN
    /\ Cardinality(signed) < MaxSigned
    /\ authorization.from # NoAccount
    /\ WithinCap(value, CapUsdFor(env, w), authorization.decimals)
    /\ signed' = signed \cup {authorization}
    /\ UNCHANGED <<clock, env, settled, inForce>>

\* The chain takes an authorization before the time it names, and once.
Settle(p) ==
    /\ p \in signed
    /\ clock < p.validBefore
    /\ \A s \in settled : s.payment # p
    /\ settled' = settled \cup {[payment |-> p, at |-> clock]}
    /\ UNCHANGED <<clock, env, signed, inForce>>

Deploy(e) ==
    /\ e # env
    /\ env' = e
    /\ inForce' = inForce \cup {<<clock, e>>}
    /\ UNCHANGED <<clock, signed, settled>>

ClockTicks ==
    /\ clock < MaxTime
    /\ clock' = clock + 1
    /\ inForce' = inForce \cup {<<clock + 1, env>>}
    /\ UNCHANGED <<env, signed, settled>>

WalletNext ==
    \/ \E w \in Workers \cup {NoWorker}, v \in Amounts, claim \in Claims :
           Post(w, v, claim)
    \/ \E p \in signed : Settle(p)
    \/ \E e \in Envs : Deploy(e)
    \/ ClockTicks

WalletSpec == WalletInit /\ [][WalletNext]_walletVars

-----------------------------------------------------------------------------
(***************************************************************************)
(* Property.                                                               *)
(***************************************************************************)

\* What environment e asks of payment p: the account of its worker, and a value
\* within the mandate of that worker at the decimals claimed for the asset, so at
\* those of USDC too where no more than those were claimed.
Mandates(e, p) ==
    LET cap == CapUsdFor(e, p.worker) IN
    /\ p.from = ResolveAccount(e, p.worker)
    /\ WithinCap(p.value, cap, p.decimals)
    /\ p.decimals \in Decimals /\ p.decimals <= UsdcDecimals =>
           WithinCap(p.value, cap, UsdcDecimals)

\* A payment that is settled was drawn on the account that was its worker's,
\* and was within that worker's mandate, at some moment of the ten minutes
\* before: a mandate that is lowered, or a seed that is set, binds every
\* payment once those are over (index.mjs:87, :190).  The scale of the mandate
\* is the request's own word, though: one that claims more decimals than USDC
\* has is held to a larger amount, where the comment at :184 promises the
\* founder's.
SettledWasMandated ==
    \A s \in settled : \E f \in inForce :
        f[1] \in s.at - Validity + 1 .. s.at /\ Mandates(f[2], s.payment)
=============================================================================
