---------------------------- MODULE EstateProofs ----------------------------
(* Machine-checked proofs about components that share no state with any other: *)
(* WalletSigner, TokenPolicy, EnvSync, InboundMail, AgentSandbox and           *)
(* AssetMirror.  Each theorem is about the specification of its own component. *)
EXTENDS WalletSigner, TokenPolicy, EnvSync, InboundMail, AgentSandbox, AssetMirror,
        FiniteSetTheorems, TLAPS

(***************************************************************************)
(* The wallet signer.                                                      *)
(***************************************************************************)

Account == Workers \cup {Platform, NoAccount}

Payment == [worker : Workers \cup {NoWorker}, from : Account, value : Amounts,
            validBefore : Nat, decimals : Decimals \cup {NotANumber}]

WalletTypeOK ==
    /\ clock \in Nat
    /\ env \in Env
    /\ signed \subseteq Payment
    /\ settled \subseteq [payment : Payment, at : Nat]
    /\ inForce \subseteq Nat \X Env

\* Whatever has been deployed since, an authorization was signed under an
\* environment in force a Validity before it ends.
SignedWasMandated ==
    \A p \in signed : \E f \in inForce :
        f[1] <= clock /\ p.validBefore = f[1] + Validity /\ Mandates(f[2], p)

WalletInv ==
    /\ WalletTypeOK
    /\ <<clock, env>> \in inForce
    /\ SignedWasMandated
    /\ SettledWasMandated

LEMMA WalletInitInv == WalletInit => WalletInv
BY WalletAssumption
   DEF WalletInit, WalletInv, WalletTypeOK, SignedWasMandated, SettledWasMandated

\* A mandate is not held to more for fewer decimals.
LEMMA ScaleIsMonotone ==
    ASSUME NEW v \in Nat, NEW e, NEW w, NEW d \in Decimals, d <= UsdcDecimals,
           WithinCap(v, CapUsdFor(e, w), d)
    PROVE  WithinCap(v, CapUsdFor(e, w), UsdcDecimals)
<1> DEFINE cap == CapUsdFor(e, w)
<1>1. cap \in Caps \/ cap = Unlimited
  BY DEF CapUsdFor
<1> HIDE DEF cap
<1>2. CASE cap \in Caps
  <2>1. /\ CapAtomic[cap][d] <= CapAtomic[cap][UsdcDecimals]
        /\ CapAtomic[cap][d] \in Nat /\ CapAtomic[cap][UsdcDecimals] \in Nat
    BY <1>2, ScaleAssumption
  <2>2. v <= CapAtomic[cap][d]
    BY <1>2, WalletAssumption DEF WithinCap, cap
  <2>3. v <= CapAtomic[cap][UsdcDecimals]
    BY <2>1, <2>2
  <2>4. QED
    BY <2>3, ScaleAssumption DEF WithinCap, cap
<1>3. CASE cap = Unlimited
  BY <1>3 DEF WithinCap, cap
<1>4. QED
  BY <1>1, <1>2, <1>3

LEMMA PostKeepsWalletInv ==
    ASSUME WalletInv, NEW w \in Workers \cup {NoWorker}, NEW v \in Amounts,
           NEW claim \in Claims, Post(w, v, claim)
    PROVE  WalletInv'
<1> DEFINE p == BuildAuthorization(env, w, v, claim)
<1> USE DEF WalletInv
<1>1. ResolveAccount(env, w) \in Account
  BY DEF ResolveAccount, Account
<1>2. p \in Payment
  <2>1. DecimalsOf(claim) \in Decimals \cup {NotANumber}
    BY ScaleAssumption DEF Claims, DecimalsOf
  <2>2. QED
    BY <1>1, <2>1, WalletAssumption DEF BuildAuthorization, Payment, WalletTypeOK
<1>3. signed' = signed \cup {p} /\ UNCHANGED <<clock, env, settled, inForce>>
  BY DEF Post
<1>4. WalletTypeOK'
  BY <1>2, <1>3 DEF WalletTypeOK
<1>5. p.validBefore = clock + Validity /\ Mandates(env, p)
  <2>1. /\ p.validBefore = clock + Validity /\ p.from = ResolveAccount(env, w)
        /\ p.worker = w /\ p.value = v /\ WithinCap(v, CapUsdFor(env, w), p.decimals)
    BY DEF Post, BuildAuthorization
  <2>2. v \in Nat
    BY WalletAssumption
  <2> HIDE DEF p
  <2>3. QED
    BY <2>1, <2>2, ScaleIsMonotone DEF Mandates
<1>6. SignedWasMandated'
  <2>1. \E f \in inForce : f[1] <= clock /\ p.validBefore = f[1] + Validity /\ Mandates(f[2], p)
    <3>1. <<clock, env>>[1] <= clock
      BY DEF WalletTypeOK
    <3>2. QED
      BY <1>5, <3>1
  <2> HIDE DEF p
  <2>2. QED
    BY <1>3, <2>1 DEF SignedWasMandated
<1>7. SettledWasMandated'
  BY <1>3 DEF SettledWasMandated
<1>8. QED
  BY <1>3, <1>4, <1>6, <1>7

LEMMA SettleKeepsWalletInv ==
    ASSUME WalletInv, NEW p \in signed, Settle(p)
    PROVE  WalletInv'
<1> USE DEF WalletInv
<1> DEFINE s == [payment |-> p, at |-> clock]
<1>1. settled' = settled \cup {s} /\ UNCHANGED <<clock, env, signed, inForce>>
  BY DEF Settle
<1>2. WalletTypeOK'
  BY <1>1 DEF WalletTypeOK
<1>3. SignedWasMandated'
  BY <1>1 DEF SignedWasMandated
<1>4. PICK f \in inForce :
         f[1] <= clock /\ p.validBefore = f[1] + Validity /\ Mandates(f[2], p)
  BY DEF SignedWasMandated
<1>5. f[1] \in clock - Validity + 1 .. clock
  <2>1. f[1] \in Nat /\ clock \in Nat /\ Validity \in Nat
    BY WalletAssumption DEF WalletTypeOK
  <2>2. clock < f[1] + Validity
    BY <1>4 DEF Settle
  <2>3. QED
    BY <1>4, <2>1, <2>2
<1>6. SettledWasMandated'
  BY <1>1, <1>4, <1>5 DEF SettledWasMandated
<1>7. QED
  BY <1>1, <1>2, <1>3, <1>6

\* A deploy and the clock only add to what was in force.
LEMMA LaterIsMandated ==
    ASSUME WalletInv, clock' \in Nat, clock <= clock', env' \in Env,
           inForce' = inForce \cup {<<clock', env'>>}, UNCHANGED <<signed, settled>>
    PROVE  WalletInv'
<1> USE DEF WalletInv
<1>1. WalletTypeOK'
  BY DEF WalletTypeOK
<1>2. SignedWasMandated'
  <2> SUFFICES ASSUME NEW p \in signed
               PROVE  \E f \in inForce' :
                          f[1] <= clock' /\ p.validBefore = f[1] + Validity /\ Mandates(f[2], p)
    BY DEF SignedWasMandated
  <2>1. PICK f \in inForce :
           f[1] <= clock /\ p.validBefore = f[1] + Validity /\ Mandates(f[2], p)
    BY DEF SignedWasMandated
  <2>2. f[1] <= clock'
    BY <2>1 DEF WalletTypeOK
  <2>3. QED
    BY <2>1, <2>2
<1>3. SettledWasMandated'
  BY DEF SettledWasMandated
<1>4. QED
  BY <1>1, <1>2, <1>3

LEMMA WalletNextInv == WalletInv /\ [WalletNext]_walletVars => WalletInv'
<1> SUFFICES ASSUME WalletInv, [WalletNext]_walletVars
             PROVE  WalletInv'
  OBVIOUS
<1>1. ASSUME NEW w \in Workers \cup {NoWorker}, NEW v \in Amounts, NEW claim \in Claims,
             Post(w, v, claim)
      PROVE  WalletInv'
  BY <1>1, PostKeepsWalletInv
<1>2. ASSUME NEW p \in signed, Settle(p)
      PROVE  WalletInv'
  BY <1>2, SettleKeepsWalletInv
<1>3. ASSUME NEW e \in Envs, Deploy(e)
      PROVE  WalletInv'
  BY <1>3, LaterIsMandated, WalletAssumption DEF Deploy, WalletInv, WalletTypeOK
<1>4. CASE ClockTicks
  BY <1>4, LaterIsMandated DEF ClockTicks, WalletInv, WalletTypeOK
<1>5. CASE UNCHANGED walletVars
  BY <1>5 DEF walletVars, WalletInv, WalletTypeOK, SignedWasMandated, SettledWasMandated
<1>6. QED
  BY <1>1, <1>2, <1>3, <1>4, <1>5 DEF WalletNext

\* A payment that settles was within a mandate, at the decimals its request claimed,
\* and drawn on an account, in force at some moment of its validity before: for any
\* workers, mandates, scales, deploys and number of payments (index.mjs:87, :188).
THEOREM SettledPaymentsWereMandated == WalletSpec => []SettledWasMandated
<1>1. WalletInv => SettledWasMandated
  BY DEF WalletInv
<1>2. QED
  BY WalletInitInv, WalletNextInv, <1>1, PTL DEF WalletSpec
(***************************************************************************)
(* The deploy token.                                                       *)
(***************************************************************************)

Grant == [phase : {"idle", "catalogue", "before", "putting", "after", "exit0", "exit1"},
          seen : Seq(Policy), offered : SUBSET Want, before : SUBSET Capabilities,
          edited : BOOLEAN]

\* Unless somebody edited the token since the run read it, it has what the run
\* read until the run puts the merged list, and that list from then on.
SeenIsThere ==
    ~ grant.edited =>
        /\ grant.phase \in {"catalogue", "before", "putting"} => policies = grant.seen
        /\ grant.phase = "after" => policies = Merged(grant.seen, grant.offered)

PolicyInv == policies \in Seq(Policy) /\ grant \in Grant /\ SeenIsThere

LEMMA MissingIsPolicies ==
    ASSUME NEW groups \in SUBSET Want, NEW list, NEW r \in Resources
    PROVE  Missing(list, groups, r) \in Seq(Policy)
<1>1. SplitByScope(groups, r) \in SUBSET Groups
  BY PolicyAssumption DEF SplitByScope
<1> DEFINE new == [effect |-> "allow", resource |-> r, groups |-> SplitByScope(groups, r)]
<1>2. new \in Policy
  BY <1>1 DEF Policy
<1>3. Missing(list, groups, r) \in {<<>>, <<new>>}
  BY DEF Missing
<1>4. <<>> \in Seq(Policy) /\ <<new>> \in Seq(Policy)
  BY <1>2
<1>5. QED
  BY <1>3, <1>4

LEMMA MergedIsPolicies ==
    ASSUME NEW list \in Seq(Policy), NEW groups \in SUBSET Want
    PROVE  /\ Merged(list, groups) \in Seq(Policy)
           /\ Len(list) <= Len(Merged(list, groups))
           /\ \A i \in 1 .. Len(list) : Merged(list, groups)[i] = list[i]
<1>1. /\ Missing(list, groups, "account") \in Seq(Policy)
      /\ Missing(list, groups, "zone") \in Seq(Policy)
  BY MissingIsPolicies DEF Resources
<1>2. QED
  BY <1>1 DEF Merged

\* What is put back begins with what was read.
LEMMA MergedBegins ==
    ASSUME NEW list \in Seq(Policy), NEW groups \in SUBSET Want
    PROVE  IsPrefix(list, list) /\ IsPrefix(list, Merged(list, groups))
<1> DEFINE m == Merged(list, groups)
<1>1. m \in Seq(Policy) /\ Len(list) <= Len(m) /\ \A i \in 1 .. Len(list) : m[i] = list[i]
  BY MergedIsPolicies
<1> HIDE DEF m
<1>2. SubSeq(list, 1, Len(list)) = SubSeq(m, 1, Len(list))
  BY <1>1
<1>3. QED
  BY <1>1, <1>2 DEF IsPrefix, m

AllowedBy(list, g) ==
    \E i \in DOMAIN list :
        /\ list[i].effect = "allow"
        /\ list[i].resource = OwnResource(g)
        /\ g \in list[i].groups

LEMMA InItsScope ==
    ASSUME NEW groups \in SUBSET Want, NEW g \in groups
    PROVE  g \in SplitByScope(groups, OwnResource(g)) /\ OwnResource(g) \in Resources
BY DEF SplitByScope, OwnResource, Resources

LEMMA GrantedAllows ==
    ASSUME NEW list, NEW groups \in SUBSET Want, NEW g \in groups,
           Allows(list, SplitByScope(groups, OwnResource(g)), OwnResource(g))
    PROVE  AllowedBy(list, g)
BY InItsScope DEF Allows, AllowedBy

\* The merged list allows every group on its own resource.
LEMMA MergedAllows ==
    ASSUME NEW list \in Seq(Policy), NEW groups \in SUBSET Want, NEW g \in groups
    PROVE  AllowedBy(Merged(list, groups), g)
<1> DEFINE r == OwnResource(g)
           new == [effect |-> "allow", resource |-> r, groups |-> SplitByScope(groups, r)]
           m == Merged(list, groups)
<1>1. /\ g \in SplitByScope(groups, r) /\ r \in {"account", "zone"}
  BY InItsScope DEF Resources
<1>2. /\ m \in Seq(Policy) /\ Len(list) <= Len(m)
      /\ \A i \in 1 .. Len(list) : m[i] = list[i]
  BY MergedIsPolicies
<1>3. CASE Allows(list, SplitByScope(groups, r), r)
  <2>1. PICK i \in DOMAIN list :
           list[i].effect = "allow" /\ list[i].resource = r /\ g \in list[i].groups
    BY <1>3, GrantedAllows DEF AllowedBy
  <2>2. i \in DOMAIN m /\ m[i] = list[i]
    BY <1>2, <2>1
  <2>3. QED
    BY <2>1, <2>2 DEF AllowedBy
<1>4. CASE ~ Allows(list, SplitByScope(groups, r), r)
  <2>1. Missing(list, groups, r) = <<new>>
    BY <1>4 DEF Missing
  <2>2. /\ Missing(list, groups, "account") \in Seq(Policy)
        /\ Missing(list, groups, "zone") \in Seq(Policy)
    BY MissingIsPolicies DEF Resources
  <2>3. \E i \in DOMAIN m : m[i] = new
    <3> HIDE DEF new, r
    <3> DEFINE a == Missing(list, groups, "account")
               z == Missing(list, groups, "zone")
    <3> HIDE DEF a, z
    <3>1. m = list \o a \o z /\ a \in Seq(Policy) /\ z \in Seq(Policy)
      BY <2>2 DEF Merged, a, z
    <3>2. CASE r = "account"
      <4>1. a = <<new>>
        BY <2>1, <3>2 DEF a
      <4>2. Len(list) + 1 \in DOMAIN m /\ m[Len(list) + 1] = new
        BY <3>1, <4>1
      <4>3. QED
        BY <4>2
    <3>3. CASE r = "zone"
      <4>1. z = <<new>>
        BY <2>1, <3>3 DEF z
      <4>2. Len(m) \in DOMAIN m /\ m[Len(m)] = new
        BY <3>1, <4>1
      <4>3. QED
        BY <4>2
    <3>4. QED
      BY <1>1, <3>2, <3>3
  <2>4. QED
    BY <1>1, <2>3 DEF AllowedBy
<1>5. QED
  BY <1>3, <1>4

LEMMA PolicyInitInv == PolicyInit => PolicyInv
BY PolicyAssumption DEF PolicyInit, PolicyInv, SeenIsThere, NoGrant, Grant

LEMMA PolicyNextInv == PolicyInv /\ [PolicyNext]_policyVars => PolicyInv'
<1> SUFFICES ASSUME PolicyInv, [PolicyNext]_policyVars
             PROVE  PolicyInv'
  OBVIOUS
<1> USE DEF PolicyInv, SeenIsThere
<1>1. CASE ReadPolicies
  BY <1>1 DEF ReadPolicies, NoGrant, Grant
<1>2. CASE ReadCatalogue
  <2>1. PICK offered \in SUBSET Want, phase \in {"exit0", "before"} :
           /\ grant.phase = "catalogue" /\ policies' = policies
           /\ grant' = [grant EXCEPT !.offered = offered, !.phase = phase]
    BY <1>2 DEF ReadCatalogue
  <2>2. /\ grant' \in Grant /\ grant'.phase = phase /\ grant'.seen = grant.seen
        /\ grant'.edited = grant.edited
    BY <2>1 DEF Grant
  <2>3. QED
    BY <2>1, <2>2
<1>3. CASE ProbeBefore
  BY <1>3 DEF ProbeBefore, Grant
<1>4. CASE PutPolicies
  <2>1. grant.seen \in Seq(Policy) /\ grant.offered \in SUBSET Want
    BY DEF Grant
  <2>2. policies' \in Seq(Policy)
    BY <1>4, <2>1, MergedIsPolicies DEF PutPolicies
  <2>3. grant' \in Grant /\ SeenIsThere'
    BY <1>4 DEF PutPolicies, Grant
  <2>4. QED
    BY <2>2, <2>3
<1>5. CASE ProbeAfter
  BY <1>5 DEF ProbeAfter, Grant
<1>6. CASE GrantFails
  BY <1>6 DEF GrantFails, Grant
<1>7. CASE DashboardEdit
  <2>1. ASSUME NEW list \in Found, NEW i \in DOMAIN list
        PROVE  Append(policies, list[i]) \in Seq(Policy)
    <3>1. list \in Seq(Policy)
      BY PolicyAssumption
    <3>2. list[i] \in Policy
      BY <3>1
    <3>3. QED
      BY <3>2
  <2>2. ASSUME NEW i \in DOMAIN policies
        PROVE  RemoveAt(policies, i) \in Seq(Policy)
    BY <2>2 DEF RemoveAt
  <2>3. policies' \in Seq(Policy)
    BY <1>7, <2>1, <2>2 DEF DashboardEdit
  <2>4. grant' = [grant EXCEPT !.edited = Granting]
    BY <1>7 DEF DashboardEdit
  <2>5. Granting \in BOOLEAN
    BY DEF Granting
  <2>6. grant' \in Grant /\ grant'.edited = Granting /\ grant'.phase = grant.phase
    BY <2>4, <2>5 DEF Grant
  <2>7. QED
    BY <2>3, <2>6 DEF Granting
<1>8. CASE UNCHANGED policyVars
  BY <1>8 DEF policyVars
<1>9. QED
  BY <1>1, <1>2, <1>3, <1>4, <1>5, <1>6, <1>7, <1>8 DEF PolicyNext

\* A grant that nobody interferes with loses no policy it read, and ends 0 only
\* with every group the account offers named by an allowing policy on its own
\* resource: for any groups, and whatever list the token was found with
\* (grant_email_permissions.py:100, :168).
THEOREM GrantsOnlyAdd == PolicySpec => GrantOnlyAdds
<1> DEFINE A == Granting /\ ~ grant'.edited =>
        /\ IsPrefix(grant.seen, policies')
        /\ grant'.phase = "exit0" => \A g \in grant'.offered : AllowedBy(policies', g)
<1>1. ASSUME PolicyInv, [PolicyNext]_policyVars
      PROVE  A \/ UNCHANGED policyVars
  <2> SUFFICES ASSUME Granting, ~ grant'.edited, PolicyNext
               PROVE  A
    BY <1>1
  <2> USE <1>1 DEF PolicyInv
  <2>0. grant.seen \in Seq(Policy) /\ grant.offered \in SUBSET Want
    BY DEF Grant
  <2>1. CASE ReadPolicies
    BY <2>1 DEF ReadPolicies
  <2>2. CASE ReadCatalogue
    <3>1. /\ policies' = policies /\ ~ grant.edited /\ grant.phase = "catalogue"
          /\ grant'.offered \in SUBSET Want
          /\ grant'.phase = "exit0" => AlreadyGranted(grant.seen, grant'.offered)
      BY <2>2 DEF ReadCatalogue, Grant
    <3>2. policies = grant.seen
      BY <3>1 DEF SeenIsThere
    <3>3. ASSUME grant'.phase = "exit0", NEW g \in grant'.offered
          PROVE  AllowedBy(policies, g)
      BY <3>1, <3>2, <3>3, InItsScope, GrantedAllows DEF AlreadyGranted
    <3>4. QED
      BY <2>0, <3>1, <3>2, <3>3, MergedBegins
  <2>3. CASE ProbeBefore
    <3>1. policies' = policies /\ ~ grant.edited /\ grant.phase = "before"
      BY <2>3 DEF ProbeBefore, Grant
    <3>2. policies = grant.seen /\ grant'.phase # "exit0"
      BY <2>3, <3>1 DEF ProbeBefore, Grant, SeenIsThere
    <3>3. QED
      BY <2>0, <3>1, <3>2, MergedBegins
  <2>4. CASE PutPolicies
    <3>1. /\ policies' = Merged(grant.seen, grant.offered)
          /\ ~ grant.edited /\ grant.phase = "putting" /\ grant'.phase # "exit0"
      BY <2>4 DEF PutPolicies, Grant
    <3>2. policies = grant.seen
      BY <3>1 DEF SeenIsThere
    <3>3. QED
      BY <2>0, <3>1, <3>2, MergedBegins
  <2>5. CASE ProbeAfter
    <3>1. /\ policies' = policies /\ ~ grant.edited /\ grant.phase = "after"
          /\ grant'.offered = grant.offered
      BY <2>5 DEF ProbeAfter, Grant
    <3>2. policies = Merged(grant.seen, grant.offered)
      BY <3>1 DEF SeenIsThere
    <3>3. QED
      BY <2>0, <3>1, <3>2, MergedAllows, MergedBegins
  <2>6. CASE GrantFails
    <3>1. policies' = policies /\ ~ grant.edited /\ grant'.phase = "exit1"
      BY <2>6 DEF GrantFails, Grant
    <3>2. policies = grant.seen \/ policies = Merged(grant.seen, grant.offered)
      BY <3>1 DEF SeenIsThere, Granting
    <3>3. QED
      BY <2>0, <3>1, <3>2, MergedBegins
  <2>7. CASE DashboardEdit
    BY <2>7 DEF DashboardEdit, Grant
  <2>8. QED
    BY <2>1, <2>2, <2>3, <2>4, <2>5, <2>6, <2>7 DEF PolicyNext
<1>2. QED
  BY PolicyInitInv, PolicyNextInv, <1>1, PTL DEF PolicySpec, GrantOnlyAdds, AllowedBy

(***************************************************************************)
(* The Vercel environment.                                                 *)
(***************************************************************************)

Row == [by : Syncs \cup {"hand"}, covers : SUBSET Targets]

SyncRun == [phase : {"idle", "listing", "deleting", "exit0", "exit1"},
            listed : SUBSET Row, at : Nat \ {0}, todo : SUBSET Row,
            failed : BOOLEAN, alone : BOOLEAN]

LonersAreAlone ==
    \A s, p \in Syncs : s # p /\ Syncing(s) /\ Syncing(p) => ~ sync[s].alone

\* At a target asked there is the row of the run, and no other.
Written(R, s, n) ==
    LET row == RowOf(s, AskedOf[s][n]) IN
    row \in R /\ \A r \in R : AskedOf[s][n] \in r.covers => r = row

\* A run has no row before it has listed them, deletes what it listed at the target
\* at hand, and, when no other overlaps it, has added nothing but its own rows,
\* has one at each target behind it unless it failed, and left the rows of other
\* targets alone.
RunTells(s) ==
    /\ sync[s].phase \in {"idle", "listing"} => \A r \in rows : r.by # s
    /\ sync[s].phase = "listing" => sync[s].at = 1
    /\ sync[s].phase = "deleting" =>
        /\ sync[s].at <= Len(AskedOf[s])
        /\ \A r \in sync[s].listed : r.by # s
        /\ sync[s].todo \subseteq SeenAt(s, sync[s].listed, sync[s].at)
        /\ sync[s].alone =>
            /\ \A r \in rows : \/ r \in sync[s].listed
                              \/ \E n \in 1 .. sync[s].at - 1 : r = RowOf(s, AskedOf[s][n])
            /\ sync[s].failed = FALSE => \A n \in 1 .. sync[s].at - 1 : Written(rows, s, n)
            /\ \A r \in sync[s].listed :
                   r.covers \cap Range(AskedOf[s]) = {} => r \in rows

SyncInv ==
    /\ rows \subseteq Row /\ sync \in [Syncs -> SyncRun]
    /\ LonersAreAlone
    /\ \A s \in Syncs : RunTells(s)

LEMMA AskedAreSome == \A s \in Syncs : Len(AskedOf[s]) \in Nat /\ 1 <= Len(AskedOf[s])
<1> SUFFICES ASSUME NEW s \in Syncs
             PROVE  Len(AskedOf[s]) \in Nat /\ 1 <= Len(AskedOf[s])
  OBVIOUS
<1>1. AskedOf[s] \in Seq(Targets) /\ AskedOf[s] # <<>>
  BY SyncAssumption
<1>2. QED
  BY <1>1

LEMMA AskedAreTargets ==
    \A s \in Syncs : \A n \in 1 .. Len(AskedOf[s]) :
        AskedOf[s][n] \in Targets /\ AskedOf[s][n] \in Range(AskedOf[s])
<1> SUFFICES ASSUME NEW s \in Syncs, NEW n \in 1 .. Len(AskedOf[s])
             PROVE  AskedOf[s][n] \in Targets /\ AskedOf[s][n] \in Range(AskedOf[s])
  OBVIOUS
<1>1. AskedOf[s] \in Seq(Targets)
  BY SyncAssumption
<1>2. QED
  BY <1>1 DEF Range

LEMMA AskedHavePlaces ==
    \A s \in Syncs : \A t \in Range(AskedOf[s]) :
        \E n \in 1 .. Len(AskedOf[s]) : AskedOf[s][n] = t
<1> SUFFICES ASSUME NEW s \in Syncs, NEW t \in Range(AskedOf[s])
             PROVE  \E n \in 1 .. Len(AskedOf[s]) : AskedOf[s][n] = t
  OBVIOUS
<1>1. AskedOf[s] \in Seq(Targets)
  BY SyncAssumption
<1>2. QED
  BY <1>1 DEF Range

LEMMA SyncInitInv == SyncInit => SyncInv
<1> SUFFICES ASSUME SyncInit PROVE SyncInv
  OBVIOUS
<1>1. \A r \in rows : r \in Row /\ r.by = "hand"
  BY DEF SyncInit, ByHand, Row
<1>2. sync \in [Syncs -> SyncRun] /\ \A s \in Syncs : sync[s].phase = "idle"
  BY DEF SyncInit, NotBegun, SyncRun
<1>3. QED
  BY <1>1, <1>2, SyncAssumption DEF SyncInv, LonersAreAlone, Syncing, RunTells

\* A step of a run under way that keeps its own account true keeps the others'.
LEMMA RunKeepsSyncInv ==
    ASSUME SyncInv, NEW p \in Syncs, Syncing(p), NEW new \in SyncRun,
           new.alone = sync[p].alone, sync' = [sync EXCEPT ![p] = new],
           rows' \subseteq Row, \A r \in rows' \ rows : r.by = p, RunTells(p)'
    PROVE  SyncInv'
<1> USE DEF SyncInv
<1>1. sync' \in [Syncs -> SyncRun] /\ \A s \in Syncs \ {p} : sync'[s] = sync[s]
  OBVIOUS
<1>2. sync'[p] = new
  OBVIOUS
<1>3. LonersAreAlone'
  BY <1>1, <1>2 DEF LonersAreAlone, Syncing
<1>4. ASSUME NEW s \in Syncs \ {p} PROVE RunTells(s)'
  <2>1. Syncing(s) => ~ sync[s].alone
    BY DEF LonersAreAlone
  <2>2. QED
    BY <1>1, <2>1 DEF RunTells, Syncing, SeenAt
<1>5. QED
  BY <1>1, <1>3, <1>4

LEMMA BeginKeepsSyncInv ==
    ASSUME SyncInv, NEW p \in Syncs, BeginSync(p)
    PROVE  SyncInv'
<1> USE DEF SyncInv
<1> DEFINE free == \A o \in Syncs : ~ Syncing(o)
           new == [NotBegun EXCEPT !.phase = "listing", !.alone = free]
           still(s) == sync[s].alone /\ ~ Syncing(s)
<1>1. rows' = rows /\ sync[p].phase = "idle"
  BY DEF BeginSync
<1>2. free \in BOOLEAN /\ \A s \in Syncs : still(s) \in BOOLEAN
  OBVIOUS
<1>3. sync'[p] = new
  BY DEF BeginSync
<1>4. ASSUME NEW s \in Syncs \ {p}
      PROVE  sync'[s] = [sync[s] EXCEPT !.alone = still(s)]
  BY DEF BeginSync
<1>5. free => \A o \in Syncs : ~ Syncing(o)
  OBVIOUS
<1>6. \A s \in Syncs : still(s) => ~ Syncing(s)
  OBVIOUS
<1> HIDE DEF free, still
<1>7. NotBegun \in SyncRun /\ NotBegun.at = 1
  BY DEF NotBegun, SyncRun
<1>8. new \in SyncRun /\ new.phase = "listing" /\ new.at = 1 /\ new.alone = free
  BY <1>2, <1>7 DEF SyncRun
<1> HIDE DEF new
<1>9. sync' \in [Syncs -> SyncRun]
  <2>1. ASSUME NEW s \in Syncs PROVE sync'[s] \in SyncRun
    <3>1. CASE s = p
      BY <1>3, <1>8, <3>1
    <3>2. CASE s # p
      <4>1. sync[s] \in SyncRun
        OBVIOUS
      <4>2. [sync[s] EXCEPT !.alone = still(s)] \in SyncRun
        BY <1>2, <4>1 DEF SyncRun
      <4>3. QED
        BY <1>4, <3>2, <4>2
    <3>3. QED
      BY <3>1, <3>2
  <2>2. DOMAIN sync' = Syncs /\ sync' = [s \in Syncs |-> sync'[s]]
    BY DEF BeginSync
  <2>3. QED
    BY <2>1, <2>2
<1>10. ASSUME NEW s \in Syncs \ {p}
      PROVE  /\ sync'[s].phase = sync[s].phase /\ sync'[s].at = sync[s].at
             /\ sync'[s].listed = sync[s].listed /\ sync'[s].todo = sync[s].todo
             /\ sync'[s].failed = sync[s].failed
             /\ sync'[s].alone => ~ Syncing(s)
  <2>1. sync[s] \in SyncRun
    OBVIOUS
  <2>2. DOMAIN sync[s] = {"phase", "listed", "at", "todo", "failed", "alone"}
    BY <2>1 DEF SyncRun
  <2>3. QED
    BY <1>4, <1>6, <2>2
<1>11. LonersAreAlone'
  BY <1>5, <1>8, <1>3, <1>10 DEF LonersAreAlone, Syncing
<1>12. ASSUME NEW s \in Syncs PROVE RunTells(s)'
  <2>1. CASE s = p
    BY <1>1, <1>8, <1>3, <2>1 DEF RunTells
  <2>2. CASE s # p
    BY <1>1, <1>10, <2>2 DEF RunTells, Syncing, SeenAt
  <2>3. QED
    BY <2>1, <2>2
<1>13. QED
  BY <1>1, <1>9, <1>11, <1>12

LEMMA ListKeepsSyncInv ==
    ASSUME SyncInv, NEW s \in Syncs, ListRows(s)
    PROVE  SyncInv'
<1> USE DEF SyncInv
<1> DEFINE new == [sync[s] EXCEPT !.phase = IF s \in HasValue THEN "deleting" ELSE "exit0",
                                  !.listed = rows, !.todo = SeenAt(s, rows, 1)]
<1>1. rows' = rows /\ sync' = [sync EXCEPT ![s] = new] /\ sync[s].phase = "listing"
  BY DEF ListRows
<1>2. SeenAt(s, rows, 1) \in SUBSET Row
  BY DEF SeenAt
<1>3. /\ new \in SyncRun /\ new.phase \in {"deleting", "exit0"} /\ new.listed = rows
      /\ new.at = 1 /\ new.todo = SeenAt(s, rows, 1) /\ new.alone = sync[s].alone
  <2>1. sync[s] \in SyncRun /\ sync[s].at = 1
    BY <1>1 DEF RunTells
  <2>2. QED
    BY <1>1, <1>2, <2>1 DEF SyncRun
<1> HIDE DEF new
<1>4. sync'[s] = new
  BY <1>1
<1>5. \A r \in rows : r.by # s
  BY <1>1 DEF RunTells
<1>6. RunTells(s)'
  <2>1. 1 <= Len(AskedOf[s])
    BY AskedAreSome
  <2>2. QED
    BY <1>1, <1>3, <1>4, <1>5, <2>1 DEF RunTells
<1>7. QED
  BY <1>1, <1>3, <1>6, RunKeepsSyncInv DEF Syncing

LEMMA DeleteKeepsSyncInv ==
    ASSUME SyncInv, NEW s \in Syncs, NEW d \in sync[s].todo, DeleteRow(s, d)
    PROVE  SyncInv'
<1> USE DEF SyncInv
<1> DEFINE new == [sync[s] EXCEPT !.todo = @ \ {d}]
<1>1. /\ rows' \in {rows, rows \ {d}} /\ sync' = [sync EXCEPT ![s] = new]
      /\ sync[s].phase = "deleting"
  BY DEF DeleteRow
<1>2. /\ new \in SyncRun /\ new.phase = "deleting" /\ new.listed = sync[s].listed
      /\ new.at = sync[s].at /\ new.todo = sync[s].todo \ {d}
      /\ new.failed = sync[s].failed /\ new.alone = sync[s].alone
  BY <1>1 DEF SyncRun
<1> HIDE DEF new
<1>3. sync'[s] = new
  BY <1>1
<1>4. /\ d.by # s
      /\ d.covers \cap Range(AskedOf[s]) # {}
  <2>1. /\ d \in sync[s].listed /\ AskedOf[s][sync[s].at] \in d.covers /\ d.by # s
        /\ sync[s].at \in 1 .. Len(AskedOf[s])
    <3>1. /\ d \in SeenAt(s, sync[s].listed, sync[s].at)
          /\ sync[s].at <= Len(AskedOf[s]) /\ \A r \in sync[s].listed : r.by # s
      BY <1>1 DEF RunTells
    <3>2. sync[s].at \in Nat \ {0}
      BY DEF SyncRun
    <3>3. Len(AskedOf[s]) \in Nat
      BY AskedAreSome
    <3>4. QED
      BY <3>1, <3>2, <3>3 DEF SeenAt
  <2>2. QED
    BY <2>1, AskedAreTargets
<1>5. RunTells(s)'
  <2>1. ASSUME NEW n, Written(rows, s, n) PROVE Written(rows', s, n)
    BY <1>1, <1>4, <2>1 DEF Written, RowOf
  <2>2. \A r \in sync[s].listed : r.covers \cap Range(AskedOf[s]) = {} /\ r \in rows => r \in rows'
    BY <1>1, <1>4
  <2>3. QED
    BY <1>1, <1>2, <1>3, <2>1, <2>2 DEF RunTells, SeenAt
<1>6. QED
  BY <1>1, <1>2, <1>5, RunKeepsSyncInv DEF Syncing

\* A create puts a row at the target at hand or counts as failed, and the run is
\* done, or on to the next one.
LEMMA CreateTells ==
    ASSUME SyncInv, NEW s \in Syncs, CreateRow(s)
    PROVE  /\ rows \subseteq rows' /\ rows' \subseteq Row
           /\ \A r \in rows' \ rows : r = RowOf(s, AskedOf[s][sync[s].at])
           /\ \A r \in rows' \ rows : r.by = s
           /\ sync[s].phase = "deleting" /\ sync[s].at \in 1 .. Len(AskedOf[s])
           /\ \/ Written(rows', s, sync[s].at) /\ GoesOn(s, FALSE)
              \/ GoesOn(s, TRUE)
<1> USE DEF SyncInv
<1> DEFINE n == sync[s].at
           row == RowOf(s, AskedOf[s][n])
<1>1. sync[s].phase = "deleting" /\ n \in 1 .. Len(AskedOf[s])
  <2>1. n <= Len(AskedOf[s]) /\ sync[s].phase = "deleting"
    BY DEF CreateRow, RunTells
  <2>2. n \in Nat \ {0}
    BY DEF SyncRun
  <2>3. Len(AskedOf[s]) \in Nat
    BY AskedAreSome
  <2>4. QED
    BY <2>1, <2>2, <2>3
<1>2. row \in Row /\ row.by = s /\ AskedOf[s][n] \in row.covers
  BY <1>1, AskedAreTargets DEF RowOf, Row
<1>3. CASE /\ \A r \in rows : AskedOf[s][n] \notin r.covers
           /\ rows' = rows \cup {row} /\ (GoesOn(s, FALSE) \/ GoesOn(s, TRUE))
  BY <1>1, <1>2, <1>3 DEF Written
<1>4. CASE rows' = rows /\ GoesOn(s, TRUE)
  BY <1>1, <1>4
<1>5. QED
  BY <1>3, <1>4 DEF CreateRow

LEMMA RunFields ==
    ASSUME NEW run \in SyncRun
    PROVE  /\ DOMAIN run = {"phase", "listed", "at", "todo", "failed", "alone"}
           /\ run.phase \in {"idle", "listing", "deleting", "exit0", "exit1"}
           /\ run.listed \in SUBSET Row /\ run.at \in Nat \ {0} /\ run.todo \in SUBSET Row
           /\ run.failed \in BOOLEAN /\ run.alone \in BOOLEAN
BY DEF SyncRun

\* The run after a create: nothing is forgotten of its failures.
LEMMA OnwardTells ==
    ASSUME SyncInv, NEW s \in Syncs, sync[s].phase = "deleting", NEW f \in BOOLEAN
    PROVE  LET new == Onward(s, f) IN
           /\ new \in SyncRun
           /\ new.alone = sync[s].alone /\ new.listed = sync[s].listed
           /\ sync[s].at < Len(AskedOf[s]) =>
                /\ new.phase = "deleting" /\ new.at = sync[s].at + 1
                /\ new.todo = SeenAt(s, sync[s].listed, new.at)
                /\ new.failed = FALSE => f = FALSE /\ sync[s].failed = FALSE
           /\ ~ sync[s].at < Len(AskedOf[s]) =>
                /\ new.phase \in {"exit0", "exit1"}
                /\ new.phase = "exit0" => f = FALSE /\ sync[s].failed = FALSE
<1> DEFINE n == sync[s].at
           b == sync[s].failed \/ f
           run == [sync[s] EXCEPT !.failed = b]
           seen == SeenAt(s, run.listed, n + 1)
           end == IF run.failed THEN "exit1" ELSE "exit0"
           on == [run EXCEPT !.at = n + 1, !.todo = seen]
           done == [run EXCEPT !.phase = end]
<1>1. Onward(s, f) = IF n < Len(AskedOf[s]) THEN on ELSE done
  BY DEF Onward
<1>2. sync[s] \in SyncRun
  BY DEF SyncInv
<1>3. sync[s].failed \in BOOLEAN
  BY <1>2, RunFields
<1>4. b \in BOOLEAN /\ (b = FALSE => f = FALSE /\ sync[s].failed = FALSE)
  BY <1>3
<1> HIDE DEF b
<1>5. run \in SyncRun
  BY <1>2, <1>4 DEF SyncRun
<1>6. /\ run.alone = sync[s].alone /\ run.listed = sync[s].listed /\ run.failed = b
      /\ run.phase = "deleting" /\ run.at = n
  BY <1>2, RunFields
<1> HIDE DEF run
<1>7. n \in Nat \ {0} /\ n + 1 \in Nat \ {0} /\ seen \in SUBSET Row
  BY <1>5, <1>6, RunFields DEF SeenAt
<1>8. end \in {"exit0", "exit1"} /\ (end = "exit0" => b = FALSE)
  BY <1>4, <1>6
<1> HIDE DEF seen, end
<1>9. on \in SyncRun /\ done \in SyncRun
  BY <1>5, <1>7, <1>8 DEF SyncRun
<1>10. /\ on.alone = run.alone /\ on.listed = run.listed /\ on.phase = run.phase
       /\ on.failed = run.failed /\ on.at = n + 1 /\ on.todo = seen
       /\ done.alone = run.alone /\ done.listed = run.listed /\ done.phase = end
  BY <1>5, RunFields
<1> HIDE DEF on, done
<1>11. seen = SeenAt(s, sync[s].listed, n + 1)
  BY <1>6 DEF seen
<1>12. QED
  BY <1>1, <1>4, <1>6, <1>8, <1>9, <1>10, <1>11

LEMMA CreateKeepsSyncInv ==
    ASSUME SyncInv, NEW s \in Syncs, CreateRow(s)
    PROVE  SyncInv'
<1> USE DEF SyncInv
<1> DEFINE n == sync[s].at
<1>1. /\ rows \subseteq rows' /\ rows' \subseteq Row
      /\ \A r \in rows' \ rows : r.by = s /\ r = RowOf(s, AskedOf[s][n])
      /\ sync[s].phase = "deleting"
  BY CreateTells
<1>2. PICK new \in SyncRun :
        /\ sync' = [sync EXCEPT ![s] = new]
        /\ new.alone = sync[s].alone /\ new.listed = sync[s].listed
        /\ n < Len(AskedOf[s]) =>
             /\ new.phase = "deleting" /\ new.at = n + 1
             /\ new.todo = SeenAt(s, sync[s].listed, new.at)
             /\ new.failed = FALSE => sync[s].failed = FALSE /\ Written(rows', s, n)
        /\ ~ n < Len(AskedOf[s]) => new.phase \in {"exit0", "exit1"}
  <2>1. CASE Written(rows', s, n) /\ GoesOn(s, FALSE)
    BY <1>1, <2>1, OnwardTells DEF GoesOn
  <2>2. CASE GoesOn(s, TRUE)
    BY <1>1, <2>2, OnwardTells DEF GoesOn
  <2>3. QED
    BY <2>1, <2>2, CreateTells
<1>3. n \in Nat \ {0} /\ Len(AskedOf[s]) \in Nat /\ sync'[s] = new
  BY <1>2, AskedAreSome DEF SyncRun
<1>4. ASSUME NEW m, Written(rows, s, m) PROVE Written(rows', s, m)
  BY <1>1, <1>4 DEF Written, RowOf
<1>5. CASE n < Len(AskedOf[s])
  <2>1. ASSUME new.failed = FALSE, new.alone, NEW m \in 1 .. n
        PROVE  Written(rows', s, m)
    <3>1. CASE m = n
      BY <1>2, <1>5, <2>1, <3>1
    <3>2. CASE m \in 1 .. n - 1
      BY <1>1, <1>2, <1>4, <1>5, <2>1, <3>2 DEF RunTells
    <3>3. QED
      BY <1>3, <2>1, <3>1, <3>2
  <2>2. new.at - 1 = n /\ new.at <= Len(AskedOf[s])
    BY <1>2, <1>3, <1>5
  <2>3. /\ \A r \in new.listed : r.by # s
        /\ new.alone => \A r \in new.listed :
              r.covers \cap Range(AskedOf[s]) = {} => r \in rows'
    BY <1>1, <1>2 DEF RunTells
  <2>4. ASSUME new.alone, NEW r \in rows'
        PROVE  r \in new.listed \/ \E m \in 1 .. n : r = RowOf(s, AskedOf[s][m])
    <3>1. CASE r \in rows
      <4>0. sync[s].alone /\ new.listed = sync[s].listed /\ sync[s].phase = "deleting"
        BY <1>1, <1>2, <2>4
      <4>1. r \in new.listed \/ \E m \in 1 .. n - 1 : r = RowOf(s, AskedOf[s][m])
        BY <3>1, <4>0 DEF RunTells
      <4>2. 1 .. n - 1 \subseteq 1 .. n
        BY <1>3
      <4>3. QED
        BY <4>1, <4>2
    <3>2. CASE r \notin rows
      BY <1>1, <1>3, <3>2
    <3>3. QED
      BY <3>1, <3>2
  <2>5. RunTells(s)'
    <3>1. /\ sync'[s] = new /\ new.phase = "deleting" /\ new.at - 1 = n
          /\ new.at <= Len(AskedOf[s])
          /\ new.todo \subseteq SeenAt(s, new.listed, new.at)
      BY <1>2, <1>3, <1>5, <2>2
    <3>2. ASSUME new.alone
          PROVE  \A r \in rows' : \/ r \in new.listed
                                 \/ \E m \in 1 .. new.at - 1 : r = RowOf(s, AskedOf[s][m])
      BY <2>2, <2>4, <3>2
    <3>3. ASSUME new.alone, new.failed = FALSE
          PROVE  \A m \in 1 .. new.at - 1 : Written(rows', s, m)
      BY <2>1, <2>2, <3>3
    <3>4. /\ sync'[s].phase \notin {"idle", "listing"}
          /\ sync'[s].at <= Len(AskedOf[s])
          /\ \A r \in sync'[s].listed : r.by # s
          /\ sync'[s].todo \subseteq SeenAt(s, sync'[s].listed, sync'[s].at)
      BY <2>3, <3>1
    <3>5. sync'[s].alone =>
            /\ \A r \in rows' : \/ r \in sync'[s].listed
                               \/ \E m \in 1 .. sync'[s].at - 1 : r = RowOf(s, AskedOf[s][m])
            /\ sync'[s].failed = FALSE =>
                   \A m \in 1 .. sync'[s].at - 1 : Written(rows', s, m)
            /\ \A r \in sync'[s].listed :
                   r.covers \cap Range(AskedOf[s]) = {} => r \in rows'
      BY <2>3, <3>1, <3>2, <3>3
    <3>6. QED
      BY <3>4, <3>5 DEF RunTells, SeenAt
  <2>6. QED
    BY <1>1, <1>2, <2>5, RunKeepsSyncInv DEF Syncing
<1>6. CASE ~ n < Len(AskedOf[s])
  <2>1. RunTells(s)'
    BY <1>2, <1>3, <1>6 DEF RunTells
  <2>2. QED
    BY <1>1, <1>2, <2>1, RunKeepsSyncInv DEF Syncing
<1>7. QED
  BY <1>5, <1>6

LEMMA DyingKeepsSyncInv ==
    ASSUME SyncInv, NEW s \in Syncs, SyncDies(s)
    PROVE  SyncInv'
<1> DEFINE new == [sync[s] EXCEPT !.phase = "exit1"]
<1>1. rows' = rows /\ sync' = [sync EXCEPT ![s] = new] /\ Syncing(s)
  BY DEF SyncDies
<1>2. new \in SyncRun /\ new.phase = "exit1" /\ new.alone = sync[s].alone
  BY DEF SyncInv, SyncRun
<1> HIDE DEF new
<1>3. RunTells(s)'
  BY <1>1, <1>2 DEF SyncInv, RunTells
<1>4. QED
  BY <1>1, <1>2, <1>3, RunKeepsSyncInv DEF SyncInv

LEMMA SyncNextInv == SyncInv /\ [SyncNext]_syncVars => SyncInv'
<1> SUFFICES ASSUME SyncInv, [SyncNext]_syncVars
             PROVE  SyncInv'
  OBVIOUS
<1>1. CASE UNCHANGED syncVars
  BY <1>1 DEF syncVars, SyncInv, LonersAreAlone, Syncing, RunTells, Written, SeenAt
<1>2. CASE SyncNext
  BY <1>2, BeginKeepsSyncInv, ListKeepsSyncInv, DeleteKeepsSyncInv, CreateKeepsSyncInv,
     DyingKeepsSyncInv DEF SyncNext
<1>3. QED
  BY <1>1, <1>2

\* A run of the sync that no other overlapped and that ends 0 leaves one row of its
\* own at every target asked and, of the rows it listed, exactly those that touch no
\* target asked: for any targets, any rows found, those over several targets
\* included, and any number of runs (vercel_env_sync.py:198, :208).
THEOREM GreenSyncsAreDone == SyncSpec => GreenIsSynced
<1> DEFINE A(s) ==
        Syncing(s) /\ sync'[s].phase = "exit0" /\ sync[s].alone =>
            rows' = {r \in sync[s].listed : r.covers \cap Range(AskedOf[s]) = {}}
                        \cup {RowOf(s, t) : t \in Range(AskedOf[s])}
<1>1. ASSUME SyncInv, [SyncNext]_syncVars
      PROVE  (\A s \in HasValue : A(s)) \/ UNCHANGED syncVars
  <2> SUFFICES ASSUME SyncNext, NEW s \in HasValue,
                      Syncing(s), sync'[s].phase = "exit0", sync[s].alone
               PROVE  A(s)
    BY <1>1
  <2> USE <1>1 DEF SyncInv
  <2>1. s \in Syncs /\ sync[s] \in SyncRun
    BY SyncAssumption
  <2>2. CreateRow(s)
    <3>1. sync[s].phase # "exit0" /\ sync[s].phase # "idle"
      BY DEF Syncing
    <3>2. ASSUME NEW p \in Syncs, NEW new \in SyncRun, new.phase # "exit0",
                 sync' = [sync EXCEPT ![p] = new]
          PROVE  FALSE
      BY <2>1, <3>1, <3>2
    <3>3. ASSUME NEW p \in Syncs, BeginSync(p) PROVE FALSE
      <4>1. sync'[s].phase \in {"listing", sync[s].phase}
        BY <2>1, <3>3 DEF BeginSync, NotBegun, SyncRun
      <4>2. QED
        BY <3>1, <4>1
    <3>4. ASSUME NEW p \in Syncs, ListRows(p) PROVE FALSE
      <4>1. p = s => sync'[s].phase = "deleting"
        BY <2>1, <3>4 DEF ListRows, SyncRun
      <4>2. p # s => sync'[s] = sync[s]
        BY <2>1, <3>4 DEF ListRows
      <4>3. QED
        BY <3>1, <4>1, <4>2
    <3>5. ASSUME NEW p \in Syncs, SyncDies(p) PROVE FALSE
      <4>1. p = s => sync'[s].phase = "exit1"
        BY <2>1, <3>5 DEF SyncDies, SyncRun
      <4>2. p # s => sync'[s] = sync[s]
        BY <2>1, <3>5 DEF SyncDies
      <4>3. QED
        BY <3>1, <4>1, <4>2
    <3>6. ASSUME NEW p \in Syncs, NEW r \in sync[p].todo, DeleteRow(p, r) PROVE FALSE
      <4>1. sync'[s].phase = sync[s].phase
        BY <2>1, <3>6 DEF DeleteRow, SyncRun
      <4>2. QED
        BY <3>1, <4>1
    <3>7. ASSUME NEW p \in Syncs, CreateRow(p), p # s PROVE FALSE
      <4>0. GoesOn(p, FALSE) \/ GoesOn(p, TRUE)
        BY <3>7, CreateTells
      <4>1. sync'[s] = sync[s]
        BY <2>1, <3>7, <4>0 DEF GoesOn
      <4>2. QED
        BY <3>1, <4>1
    <3>8. QED
      BY <3>3, <3>4, <3>5, <3>6, <3>7 DEF SyncNext
  <2>3. rows \subseteq rows' /\ sync[s].phase = "deleting"
    BY <2>1, <2>2, CreateTells
  <2>4. /\ ~ sync[s].at < Len(AskedOf[s]) /\ sync[s].failed = FALSE
        /\ Written(rows', s, sync[s].at)
    <3>1. CASE Written(rows', s, sync[s].at) /\ GoesOn(s, FALSE)
      BY <2>1, <2>3, <3>1, OnwardTells DEF GoesOn
    <3>2. CASE GoesOn(s, TRUE)
      BY <2>1, <2>3, <3>2, OnwardTells DEF GoesOn
    <3>3. QED
      BY <2>1, <2>2, <3>1, <3>2, CreateTells
  <2>6. sync[s].at = Len(AskedOf[s])
    <3>1. sync[s].at <= Len(AskedOf[s])
      BY <2>1, <2>3 DEF RunTells
    <3>2. sync[s].at \in Nat
      BY <2>1 DEF SyncRun
    <3>3. Len(AskedOf[s]) \in Nat
      BY <2>1, AskedAreSome
    <3>4. QED
      BY <2>4, <3>1, <3>2, <3>3
  <2>7. \A n \in 1 .. Len(AskedOf[s]) : Written(rows', s, n)
    <3> SUFFICES ASSUME NEW n \in 1 .. Len(AskedOf[s]) PROVE Written(rows', s, n)
      OBVIOUS
    <3>1. CASE n = sync[s].at
      BY <2>4, <3>1
    <3>2. CASE n \in 1 .. sync[s].at - 1
      <4>1. Written(rows, s, n)
        BY <2>1, <2>3, <2>4, <3>2 DEF RunTells
      <4>2. \A r \in rows' \ rows : r = RowOf(s, AskedOf[s][sync[s].at])
        BY <2>1, <2>2, CreateTells
      <4>3. QED
        BY <2>3, <4>1, <4>2 DEF Written, RowOf
    <3>3. QED
      BY <2>1, <2>6, <3>1, <3>2, AskedAreSome
  <2>8. QED
    <3> DEFINE asked == Range(AskedOf[s])
    <3>1. ASSUME NEW t \in asked
          PROVE  RowOf(s, t) \in rows' /\ \A r \in rows' : t \in r.covers => r = RowOf(s, t)
      <4>1. PICK n \in 1 .. Len(AskedOf[s]) : AskedOf[s][n] = t
        BY <2>1, <3>1, AskedHavePlaces
      <4>2. Written(rows', s, n)
        BY <2>7
      <4>3. QED
        BY <4>1, <4>2 DEF Written
    <3>2. \A r \in sync[s].listed : r.covers \cap asked = {} => r \in rows'
      BY <2>1, <2>3 DEF RunTells
    <3>3. ASSUME NEW r \in rows', r.covers \cap asked = {}
          PROVE  r \in sync[s].listed
      <4>1. r \in sync[s].listed \/ \E n \in 1 .. Len(AskedOf[s]) : r = RowOf(s, AskedOf[s][n])
        <5>1. CASE r \in rows
          <6>1. \/ r \in sync[s].listed
                \/ \E n \in 1 .. sync[s].at - 1 : r = RowOf(s, AskedOf[s][n])
            BY <2>1, <2>3, <5>1 DEF RunTells
          <6>2. 1 .. sync[s].at - 1 \subseteq 1 .. Len(AskedOf[s])
            BY <2>1, <2>6, AskedAreSome
          <6>3. QED
            BY <6>1, <6>2
        <5>2. CASE r \notin rows
          BY <2>1, <2>2, <5>2, CreateTells
        <5>3. QED
          BY <5>1, <5>2
      <4>2. ASSUME NEW n \in 1 .. Len(AskedOf[s]), r = RowOf(s, AskedOf[s][n]) PROVE FALSE
        <5>1. AskedOf[s][n] \in asked
          BY <2>1, AskedAreTargets
        <5>2. AskedOf[s][n] \in r.covers
          BY <4>2 DEF RowOf
        <5>3. QED
          BY <3>3, <5>1, <5>2
      <4>3. QED
        BY <4>1, <4>2
    <3>4. \A t \in asked : RowOf(s, t).covers = {t}
      BY DEF RowOf
    <3> HIDE DEF asked
    <3>5. rows' = {r \in sync[s].listed : r.covers \cap asked = {}}
                      \cup {RowOf(s, t) : t \in asked}
      <4>1. ASSUME NEW r \in rows'
            PROVE  r \in {q \in sync[s].listed : q.covers \cap asked = {}}
                          \cup {RowOf(s, t) : t \in asked}
        BY <3>1, <3>3
      <4>2. QED
        BY <3>1, <3>2, <4>1
    <3>6. QED
      BY <3>5 DEF asked
<1>2. QED
  BY SyncInitInv, SyncNextInv, <1>1, PTL DEF SyncSpec, GreenIsSynced

(***************************************************************************)
(* The mail of a zone.                                                     *)
(***************************************************************************)

Records == Theirs \cup Cloudflares \cup Others

ScriptPhases == {"exit", "exit0", "reading", "readingMx", "readingRules", "enabling",
                 "ensuring", "removing", "disabling", "adding"}

ScriptRun == [phase : ScriptPhases, enabled : BOOLEAN, hosts : SUBSET Records,
              ruled : BOOLEAN, todo : SUBSET Records, failed : BOOLEAN, alone : BOOLEAN]

MailTypeOK ==
    /\ routing \in BOOLEAN /\ mx \subseteq Records
    /\ rule \in BOOLEAN /\ destination \in BOOLEAN
    /\ script \in [Scripts -> ScriptRun]

ScriptsAreAlone ==
    \A s, t \in Scripts : s # t /\ Running(s) /\ Running(t) => script[s].alone = FALSE

\* What a provision believes of the zone is so while it is alone; a rule stays.
ProvisionKnows ==
    /\ Running("provision") /\ script["provision"].alone = TRUE
       /\ script["provision"].enabled = TRUE => routing = TRUE
    /\ script["provision"].ruled = TRUE => rule = TRUE

\* While a switch is alone and nothing failed, what is there of the provider it has
\* still to remove.
SwitchKnows ==
    At("switch", "removing") /\ script["switch"].alone = TRUE
    /\ script["switch"].failed = FALSE => mx \cap Theirs \subseteq script["switch"].todo

MailInv == MailTypeOK /\ ScriptsAreAlone /\ ProvisionKnows /\ SwitchKnows

LEMMA NoScriptIsOne ==
    /\ NoScript \in ScriptRun /\ NoScript.phase = "exit" /\ NoScript.enabled = FALSE
    /\ NoScript.ruled = FALSE
    /\ [NoScript EXCEPT !.phase = "exit0"] \in ScriptRun
    /\ [NoScript EXCEPT !.phase = "exit0"].phase = "exit0"
    /\ [NoScript EXCEPT !.phase = "exit0"].enabled = FALSE
    /\ [NoScript EXCEPT !.phase = "exit0"].ruled = FALSE
BY DEF NoScript, ScriptRun, ScriptPhases

LEMMA MailInitInv == MailInit => MailInv
<1> SUFFICES ASSUME MailInit PROVE MailInv
  OBVIOUS
<1>1. /\ routing \in BOOLEAN /\ mx \subseteq Records
      /\ rule \in BOOLEAN /\ destination \in BOOLEAN
      /\ script = [s \in Scripts |-> NoScript]
  BY DEF MailInit, Records
<1>2. QED
  BY <1>1, NoScriptIsOne
     DEF MailInv, MailTypeOK, ScriptsAreAlone, ProvisionKnows, SwitchKnows, Running, At, Scripts

\* A step of one script that is under way keeps the invariant when what it knows
\* stays so, and what it does to the zone keeps a rule that is there.
LEMMA ScriptKeepsMailInv ==
    ASSUME MailInv, NEW s \in Scripts, Running(s), NEW new \in ScriptRun,
           Goes(s, new), new.phase \in {"exit", "exit0"} \/ new.alone = script[s].alone,
           routing' \in BOOLEAN, mx' \subseteq Records,
           rule' \in BOOLEAN, rule = TRUE => rule' = TRUE, destination' = destination,
           s = "provision" => ProvisionKnows',
           s = "switch" => SwitchKnows'
    PROVE  MailInv'
<1> USE DEF MailInv, MailTypeOK
<1>1. script' \in [Scripts -> ScriptRun] /\ script'[s] = new
      /\ \A t \in Scripts \ {s} : script'[t] = script[t]
  BY DEF Goes
<1>2. ScriptsAreAlone'
  BY <1>1 DEF ScriptsAreAlone, Running
<1>3. \A t \in Scripts \ {s} : Running(t) => script[t].alone = FALSE
  BY DEF ScriptsAreAlone
<1>4. ProvisionKnows'
  BY <1>1, <1>3 DEF ProvisionKnows, Running, Scripts
<1>5. SwitchKnows'
  BY <1>1, <1>3 DEF SwitchKnows, Running, At, Scripts
<1>6. QED
  BY <1>1, <1>2, <1>4, <1>5

LEMMA BeginKeepsMailInv ==
    ASSUME MailInv, NEW s \in Scripts, Begin(s)
    PROVE  MailInv'
<1> USE DEF MailInv, MailTypeOK
<1> DEFINE free == ~ \E o \in Scripts : Running(o)
           still(t) == script[t].alone /\ ~ Running(t)
           new == [NoScript EXCEPT !.phase = "reading", !.alone = free]
<1>1. /\ UNCHANGED <<routing, mx, rule, destination>> /\ ~ Running(s)
      /\ script'[s] = new
      /\ \A t \in Scripts \ {s} : script'[t] = [script[t] EXCEPT !.alone = still(t)]
      /\ script' = [t \in Scripts |-> script'[t]]
  BY DEF Begin
<1>2. free \in BOOLEAN /\ \A t \in Scripts : still(t) \in BOOLEAN
  OBVIOUS
<1>3. /\ free = TRUE => \A o \in Scripts : ~ Running(o)
      /\ \A t \in Scripts : still(t) = TRUE => ~ Running(t)
  OBVIOUS
<1> HIDE DEF free, still
<1>4. /\ new \in ScriptRun /\ new.phase = "reading" /\ new.alone = free
      /\ new.enabled = FALSE /\ new.ruled = FALSE
  BY <1>2, NoScriptIsOne DEF ScriptRun, ScriptPhases
<1> HIDE DEF new
<1>5. ASSUME NEW t \in Scripts \ {s}
      PROVE  /\ script'[t] \in ScriptRun /\ script'[t].phase = script[t].phase
             /\ script'[t].enabled = script[t].enabled /\ script'[t].ruled = script[t].ruled
             /\ script'[t].failed = script[t].failed /\ script'[t].todo = script[t].todo
             /\ script'[t].alone = still(t)
  <2>1. script[t] \in ScriptRun /\ script'[t] = [script[t] EXCEPT !.alone = still(t)]
    BY <1>1
  <2>2. QED
    BY <1>2, <2>1 DEF ScriptRun
<1>6. script' \in [Scripts -> ScriptRun]
  BY <1>1, <1>4, <1>5
<1>7. ScriptsAreAlone'
  BY <1>1, <1>3, <1>4, <1>5 DEF ScriptsAreAlone, Running
<1>8. ProvisionKnows'
  BY <1>1, <1>3, <1>4, <1>5 DEF ProvisionKnows, Running, Scripts
<1>9. SwitchKnows'
  BY <1>1, <1>3, <1>4, <1>5 DEF SwitchKnows, Running, At, Scripts
<1>10. QED
  BY <1>1, <1>6, <1>7, <1>8, <1>9

LEMMA EndKeepsMailInv ==
    ASSUME MailInv, NEW s \in Scripts, Running(s), Ends0(s) \/ EndsNot0(s),
           UNCHANGED <<routing, mx, destination>>, rule' \in BOOLEAN, rule = TRUE => rule' = TRUE
    PROVE  MailInv'
<1>1. PICK new \in ScriptRun :
        /\ Goes(s, new) /\ new.phase \in {"exit", "exit0"}
        /\ new.enabled = FALSE /\ new.ruled = FALSE
  BY NoScriptIsOne DEF Ends0, EndsNot0
<1>2. script'[s] = new
  BY <1>1 DEF Goes, MailInv, MailTypeOK
<1>3. s = "provision" => ProvisionKnows'
  BY <1>1, <1>2 DEF ProvisionKnows
<1>4. s = "switch" => SwitchKnows'
  BY <1>1, <1>2 DEF SwitchKnows, At
<1>5. QED
  BY <1>1, <1>3, <1>4, ScriptKeepsMailInv DEF MailInv, MailTypeOK

LEMMA MailNextInv == MailInv /\ [MailNext]_mailVars => MailInv'
<1> SUFFICES ASSUME MailInv, [MailNext]_mailVars
             PROVE  MailInv'
  OBVIOUS
<1> USE DEF MailInv, MailTypeOK
<1>0. "provision" \in Scripts /\ "switch" \in Scripts /\ "restore" \in Scripts
  BY DEF Scripts
<1>1. ASSUME NEW s \in Scripts, Begin(s) PROVE MailInv'
  BY <1>1, BeginKeepsMailInv
<1>2. ASSUME NEW s \in Scripts, ScriptDies(s) PROVE MailInv'
  BY <1>2, EndKeepsMailInv DEF ScriptDies, ZoneKept
<1>3. CASE ReadRouting
  <2> DEFINE new == [script["provision"] EXCEPT !.phase = "readingMx", !.enabled = routing]
  <2>1. /\ Goes("provision", new) /\ ZoneKept /\ Running("provision")
    BY <1>3 DEF ReadRouting, At, Running
  <2>2. /\ new \in ScriptRun /\ new.enabled = routing
        /\ new.alone = script["provision"].alone /\ new.ruled = script["provision"].ruled
    BY <1>0 DEF ScriptRun, ScriptPhases
  <2> HIDE DEF new
  <2>3. ProvisionKnows'
    BY <1>0, <2>1, <2>2 DEF ProvisionKnows, Goes, ZoneKept
  <2>4. QED
    BY <1>0, <2>1, <2>2, <2>3, ScriptKeepsMailInv DEF ZoneKept
<1>4. CASE ReadMx
  <2> DEFINE new == [script["provision"] EXCEPT !.phase = "readingRules", !.hosts = mx]
  <2>1. /\ Goes("provision", new) /\ ZoneKept /\ Running("provision")
    BY <1>4 DEF ReadMx, At, Running
  <2>2. /\ new \in ScriptRun /\ new.enabled = script["provision"].enabled
        /\ new.alone = script["provision"].alone /\ new.ruled = script["provision"].ruled
    BY <1>0 DEF ScriptRun, ScriptPhases
  <2> HIDE DEF new
  <2>3. ProvisionKnows'
    BY <1>0, <2>1, <2>2 DEF ProvisionKnows, Goes, ZoneKept
  <2>4. QED
    BY <1>0, <2>1, <2>2, <2>3, ScriptKeepsMailInv DEF ZoneKept
<1>5. CASE ReadRules
  <2>1. PICK found \in {rule, FALSE}, next \in {"enabling", "ensuring"} :
          Goes("provision", [script["provision"] EXCEPT !.ruled = found, !.phase = next])
    BY <1>5 DEF ReadRules
  <2> DEFINE new == [script["provision"] EXCEPT !.ruled = found, !.phase = next]
  <2>2. /\ Goes("provision", new) /\ ZoneKept /\ Running("provision")
    BY <1>5, <2>1 DEF ReadRules, At, Running
  <2>3. /\ new \in ScriptRun /\ new.enabled = script["provision"].enabled
        /\ new.alone = script["provision"].alone /\ new.ruled = found
    BY <1>0 DEF ScriptRun, ScriptPhases
  <2> HIDE DEF new
  <2>4. ProvisionKnows'
    BY <1>0, <2>2, <2>3 DEF ProvisionKnows, Goes, ZoneKept
  <2>5. QED
    BY <1>0, <2>2, <2>3, <2>4, ScriptKeepsMailInv DEF ZoneKept
<1>6. CASE Enable
  <2> DEFINE new == [script["provision"] EXCEPT !.phase = "ensuring", !.enabled = TRUE,
                                                !.hosts = {}]
  <2>1. /\ Goes("provision", new) /\ Running("provision")
        /\ routing' = TRUE /\ mx' = Cloudflares /\ UNCHANGED <<rule, destination>>
    BY <1>6 DEF Enable, At, Running
  <2>2. /\ new \in ScriptRun
        /\ new.alone = script["provision"].alone /\ new.ruled = script["provision"].ruled
    BY <1>0 DEF ScriptRun, ScriptPhases
  <2> HIDE DEF new
  <2>3. ProvisionKnows'
    BY <1>0, <2>1, <2>2 DEF ProvisionKnows, Goes
  <2>4. QED
    BY <1>0, <2>1, <2>2, <2>3, ScriptKeepsMailInv DEF Records
<1>7. CASE RefuseToEnable
  BY <1>0, <1>7, EndKeepsMailInv DEF RefuseToEnable, ZoneKept, At, Running
<1>8. CASE EnsureRule
  BY <1>0, <1>8, EndKeepsMailInv DEF EnsureRule, Verdict, At, Running
<1>9. CASE Classify
  <2>1. CASE Goes("switch", [script["switch"] EXCEPT !.phase = "removing", !.todo = mx \cap Theirs])
    <3> DEFINE new == [script["switch"] EXCEPT !.phase = "removing", !.todo = mx \cap Theirs]
    <3>1. Goes("switch", new) /\ ZoneKept /\ Running("switch")
      BY <1>9, <2>1 DEF Classify, At, Running
    <3>2. /\ new \in ScriptRun /\ new.todo = mx \cap Theirs
          /\ new.alone = script["switch"].alone
      BY <1>0 DEF ScriptRun, ScriptPhases
    <3> HIDE DEF new
    <3>3. SwitchKnows'
      BY <1>0, <3>1, <3>2 DEF SwitchKnows, Goes, ZoneKept
    <3>4. QED
      BY <1>0, <3>1, <3>2, <3>3, ScriptKeepsMailInv DEF ZoneKept
  <2>2. CASE Ends0("switch") \/ EndsNot0("switch")
    BY <1>0, <1>9, <2>2, EndKeepsMailInv DEF Classify, ZoneKept, At, Running
  <2>3. QED
    BY <1>9, <2>1, <2>2 DEF Classify
<1>10. ASSUME NEW r \in Theirs, RemoveTheirs(r) PROVE MailInv'
  <2> DEFINE removed == [script["switch"] EXCEPT !.todo = @ \ {r}]
             failed == [script["switch"] EXCEPT !.todo = @ \ {r}, !.failed = TRUE]
  <2>1. /\ At("switch", "removing") /\ Running("switch") /\ UNCHANGED <<routing, rule, destination>>
        /\ \/ mx' = mx \ {r} /\ Goes("switch", removed)
           \/ mx' = mx /\ Goes("switch", failed)
    BY <1>10 DEF RemoveTheirs, At, Running
  <2>2. /\ removed \in ScriptRun /\ removed.todo = script["switch"].todo \ {r}
        /\ removed.alone = script["switch"].alone /\ removed.failed = script["switch"].failed
        /\ removed.phase = script["switch"].phase
        /\ failed \in ScriptRun /\ failed.failed = TRUE /\ failed.alone = script["switch"].alone
    BY <1>0 DEF ScriptRun, ScriptPhases
  <2> HIDE DEF removed, failed
  <2>3. SwitchKnows'
    BY <1>0, <2>1, <2>2 DEF SwitchKnows, Goes, At
  <2>4. QED
    BY <1>0, <2>1, <2>2, <2>3, ScriptKeepsMailInv
<1>11. CASE CountRemoved
  BY <1>0, <1>11, EndKeepsMailInv DEF CountRemoved, ZoneKept, At, Running
<1>12. CASE ReadApex
  <2> DEFINE new == [script["restore"] EXCEPT !.phase = "disabling", !.hosts = mx]
  <2>1. new \in ScriptRun /\ new.alone = script["restore"].alone
    BY <1>0 DEF ScriptRun, ScriptPhases
  <2>2. Running("restore") /\ ZoneKept /\ (Goes("restore", new) \/ EndsNot0("restore"))
    BY <1>12 DEF ReadApex, At, Running
  <2> HIDE DEF new
  <2>3. QED
    BY <1>0, <2>1, <2>2, ScriptKeepsMailInv, EndKeepsMailInv DEF ZoneKept
<1>13. CASE DisableRouting
  <2> DEFINE new == [script["restore"] EXCEPT !.phase = "adding",
                                              !.todo = Theirs \ script["restore"].hosts]
  <2>1. new \in ScriptRun /\ new.alone = script["restore"].alone
    BY <1>0 DEF ScriptRun, ScriptPhases, Records
  <2>2. /\ Running("restore") /\ Goes("restore", new) /\ routing' \in {routing, FALSE}
        /\ UNCHANGED <<mx, rule, destination>>
    BY <1>13 DEF DisableRouting, At, Running
  <2> HIDE DEF new
  <2>3. QED
    BY <1>0, <2>1, <2>2, ScriptKeepsMailInv
<1>14. ASSUME NEW r \in Theirs, AddTheirs(r) PROVE MailInv'
  <2> DEFINE new == [script["restore"] EXCEPT !.todo = @ \ {r}]
  <2>1. new \in ScriptRun /\ new.alone = script["restore"].alone
    BY <1>0 DEF ScriptRun, ScriptPhases
  <2>2. /\ Running("restore") /\ Goes("restore", new) /\ mx' = mx \cup {r}
        /\ UNCHANGED <<routing, rule, destination>>
    BY <1>14 DEF AddTheirs, At, Running
  <2> HIDE DEF new
  <2>3. QED
    BY <1>0, <2>1, <2>2, ScriptKeepsMailInv DEF Records
<1>15. CASE AddedAll
  <2> DEFINE new == [script["restore"] EXCEPT !.phase = "removing",
                                    !.todo = script["restore"].hosts \cap Cloudflares]
  <2>1. new \in ScriptRun /\ new.alone = script["restore"].alone
    BY <1>0 DEF ScriptRun, ScriptPhases
  <2>2. Running("restore") /\ Goes("restore", new) /\ ZoneKept
    BY <1>15 DEF AddedAll, At, Running
  <2> HIDE DEF new
  <2>3. QED
    BY <1>0, <2>1, <2>2, ScriptKeepsMailInv DEF ZoneKept
<1>16. ASSUME NEW r \in Cloudflares, RemoveCloudflares(r) PROVE MailInv'
  <2> DEFINE new == [script["restore"] EXCEPT !.todo = @ \ {r}]
  <2>1. new \in ScriptRun /\ new.alone = script["restore"].alone
    BY <1>0 DEF ScriptRun, ScriptPhases
  <2>2. /\ Running("restore") /\ Goes("restore", new) /\ mx' = mx \ {r}
        /\ UNCHANGED <<routing, rule, destination>>
    BY <1>16 DEF RemoveCloudflares, At, Running
  <2> HIDE DEF new
  <2>3. QED
    BY <1>0, <2>1, <2>2, ScriptKeepsMailInv
<1>17. CASE CheckApex
  BY <1>0, <1>17, EndKeepsMailInv DEF CheckApex, ZoneKept, At, Running
<1>18. CASE Reassert
  BY <1>18, MailAssumption
     DEF Reassert, Records, ScriptsAreAlone, ProvisionKnows, SwitchKnows, Running, At
<1>19. CASE UNCHANGED mailVars
  BY <1>19 DEF mailVars, ScriptsAreAlone, ProvisionKnows, SwitchKnows, Running, At
<1>20. QED
  BY <1>1, <1>2, <1>3, <1>4, <1>5, <1>6, <1>7, <1>8, <1>9, <1>10, <1>11, <1>12, <1>13,
     <1>14, <1>15, <1>16, <1>17, <1>18, <1>19 DEF MailNext

ScriptFields == {"phase", "enabled", "hosts", "ruled", "todo", "failed", "alone"}

\* A step of a script touches no other, and a script that begins is under way.
LEMMA OnlyItEnds ==
    ASSUME MailInv, MailNext, NEW s \in Scripts, EndsZero(s)
    PROVE  \/ s = "provision" /\ EnsureRule
           \/ s = "switch" /\ (Classify \/ CountRemoved)
           \/ s = "restore" /\ CheckApex
<1> USE DEF MailInv, MailTypeOK
<1>1. Running(s) /\ script[s].phase # "exit0" /\ script'[s].phase = "exit0"
  BY DEF EndsZero, Running
<1>2. ASSUME NEW t \in Scripts, NEW new \in ScriptRun, Goes(t, new), new.phase # "exit0"
      PROVE  FALSE
  BY <1>1, <1>2 DEF Goes
<1>3. ASSUME NEW t \in Scripts, NEW new, Goes(t, new), s # t PROVE FALSE
  BY <1>1, <1>3 DEF Goes
<1>4. ASSUME NEW t \in Scripts, EndsNot0(t) PROVE FALSE
  BY <1>2, <1>4, NoScriptIsOne DEF EndsNot0
<1>5. /\ DOMAIN script["provision"] = ScriptFields /\ DOMAIN script["switch"] = ScriptFields
      /\ DOMAIN script["restore"] = ScriptFields
      /\ {"phase", "enabled", "hosts", "ruled", "todo", "failed"} \subseteq ScriptFields
  BY DEF ScriptRun, ScriptFields, Scripts
<1>6. ASSUME NEW t \in Scripts, Begin(t) PROVE FALSE
  <2>1. CASE t = s
    BY <1>1, <1>6, <2>1 DEF Begin
  <2>2. CASE t # s
    <3>1. script[s] \in ScriptRun /\ script'[s].phase = script[s].phase
      BY <1>6, <2>2 DEF Begin, ScriptRun
    <3>2. QED
      BY <1>1, <3>1
  <2>3. QED
    BY <2>1, <2>2
<1>7. "provision" \in Scripts /\ "switch" \in Scripts /\ "restore" \in Scripts
  BY DEF Scripts
<1>8. ASSUME NEW t \in Scripts, NEW new,
             script' = [script EXCEPT ![t] = new], t # s \/ new.phase # "exit0"
      PROVE  FALSE
  BY <1>1, <1>8
<1>9. ~ ReadRouting
  <2> SUFFICES ASSUME ReadRouting PROVE FALSE
    OBVIOUS
  <2> DEFINE new == [script["provision"] EXCEPT !.phase = "readingMx", !.enabled = routing]
  <2>1. new.phase = "readingMx"
    BY <1>5 DEF ReadRouting, At
  <2>2. script' = [script EXCEPT !["provision"] = new]
    BY DEF ReadRouting, Goes
  <2> HIDE DEF new
  <2>3. QED
    BY <1>7, <1>8, <2>1, <2>2
<1>10. ~ ReadMx
  <2> SUFFICES ASSUME ReadMx PROVE FALSE
    OBVIOUS
  <2> DEFINE new == [script["provision"] EXCEPT !.phase = "readingRules", !.hosts = mx]
  <2>1. new.phase = "readingRules"
    BY <1>5 DEF ReadMx, At
  <2>2. script' = [script EXCEPT !["provision"] = new]
    BY DEF ReadMx, Goes
  <2> HIDE DEF new
  <2>3. QED
    BY <1>7, <1>8, <2>1, <2>2
<1>11. ~ ReadRules
  <2> SUFFICES ASSUME ReadRules PROVE FALSE
    OBVIOUS
  <2>1. PICK found \in {rule, FALSE}, next \in {"enabling", "ensuring"} :
          Goes("provision", [script["provision"] EXCEPT !.ruled = found, !.phase = next])
    BY DEF ReadRules
  <2> DEFINE new == [script["provision"] EXCEPT !.ruled = found, !.phase = next]
  <2>2. new.phase = next
    BY <1>5
  <2>3. script' = [script EXCEPT !["provision"] = new]
    BY <2>1 DEF Goes
  <2> HIDE DEF new
  <2>4. QED
    BY <1>7, <1>8, <2>2, <2>3
<1>12. ~ Enable
  <2> SUFFICES ASSUME Enable PROVE FALSE
    OBVIOUS
  <2> DEFINE new == [script["provision"] EXCEPT !.phase = "ensuring", !.enabled = TRUE, !.hosts = {}]
  <2>1. new.phase = "ensuring"
    BY <1>5 DEF Enable, At
  <2>2. script' = [script EXCEPT !["provision"] = new]
    BY DEF Enable, Goes
  <2> HIDE DEF new
  <2>3. QED
    BY <1>7, <1>8, <2>1, <2>2
<1>13. ~ ReadApex
  <2> SUFFICES ASSUME ReadApex PROVE FALSE
    OBVIOUS
  <2> DEFINE new == [script["restore"] EXCEPT !.phase = "disabling", !.hosts = mx]
  <2>1. new.phase = "disabling"
    BY <1>5
  <2>2. EndsNot0("restore") \/ script' = [script EXCEPT !["restore"] = new]
    BY DEF ReadApex, Goes
  <2> HIDE DEF new
  <2>3. QED
    BY <1>4, <1>7, <1>8, <2>1, <2>2
<1>14. ~ DisableRouting
  <2> SUFFICES ASSUME DisableRouting PROVE FALSE
    OBVIOUS
  <2> DEFINE new == [script["restore"] EXCEPT !.phase = "adding", !.todo = Theirs \ script["restore"].hosts]
  <2>1. new.phase = "adding"
    BY <1>5 DEF DisableRouting, At
  <2>2. script' = [script EXCEPT !["restore"] = new]
    BY DEF DisableRouting, Goes
  <2> HIDE DEF new
  <2>3. QED
    BY <1>7, <1>8, <2>1, <2>2
<1>15. ~ AddedAll
  <2> SUFFICES ASSUME AddedAll PROVE FALSE
    OBVIOUS
  <2> DEFINE new == [script["restore"] EXCEPT !.phase = "removing", !.todo = script["restore"].hosts \cap Cloudflares]
  <2>1. new.phase = "removing"
    BY <1>5 DEF AddedAll, At
  <2>2. script' = [script EXCEPT !["restore"] = new]
    BY DEF AddedAll, Goes
  <2> HIDE DEF new
  <2>3. QED
    BY <1>7, <1>8, <2>1, <2>2
<1>16. ASSUME NEW r \in Theirs, AddTheirs(r) PROVE FALSE
  <2> DEFINE new == [script["restore"] EXCEPT !.todo = @ \ {r}]
  <2>1. new.phase = "adding"
    BY <1>5, <1>7, <1>16 DEF AddTheirs, At
  <2>2. script' = [script EXCEPT !["restore"] = new]
    BY <1>16 DEF AddTheirs, Goes
  <2> HIDE DEF new
  <2>3. QED
    BY <1>7, <1>8, <2>1, <2>2
<1>17. ASSUME NEW r \in Cloudflares, RemoveCloudflares(r) PROVE FALSE
  <2> DEFINE new == [script["restore"] EXCEPT !.todo = @ \ {r}]
  <2>1. new.phase = "removing"
    BY <1>5, <1>7, <1>17 DEF RemoveCloudflares, At
  <2>2. script' = [script EXCEPT !["restore"] = new]
    BY <1>17 DEF RemoveCloudflares, Goes
  <2> HIDE DEF new
  <2>3. QED
    BY <1>7, <1>8, <2>1, <2>2
<1>18. ASSUME NEW r \in Theirs, RemoveTheirs(r) PROVE FALSE
  <2> DEFINE removed == [script["switch"] EXCEPT !.todo = @ \ {r}]
             failed == [script["switch"] EXCEPT !.todo = @ \ {r}, !.failed = TRUE]
  <2>1. removed.phase = "removing" /\ failed.phase = "removing"
    BY <1>5, <1>7, <1>18 DEF RemoveTheirs, At
  <2>2. \/ script' = [script EXCEPT !["switch"] = removed]
        \/ script' = [script EXCEPT !["switch"] = failed]
    BY <1>18 DEF RemoveTheirs, Goes
  <2> HIDE DEF removed, failed
  <2>3. QED
    BY <1>7, <1>8, <2>1, <2>2
<1>19. ~ Reassert
  BY <1>1 DEF Reassert
<1>20. ~ RefuseToEnable /\ \A t \in Scripts : ~ ScriptDies(t)
  BY <1>4, <1>7 DEF RefuseToEnable, ScriptDies
<1>21. EnsureRule => s = "provision"
  BY <1>3, <1>7 DEF EnsureRule, Verdict, Ends0, EndsNot0
<1>22. Classify \/ CountRemoved => s = "switch"
  BY <1>3, <1>7 DEF Classify, CountRemoved, Ends0, EndsNot0
<1>23. CheckApex => s = "restore"
  BY <1>3, <1>7 DEF CheckApex, Ends0, EndsNot0
<1>24. QED
  BY <1>6, <1>9, <1>10, <1>11, <1>12, <1>13, <1>14, <1>15, <1>16, <1>17, <1>18, <1>19, <1>20, <1>21,
     <1>22, <1>23 DEF MailNext

\* A script that no other overlapped and that ends 0 has done what it says of the
\* zone: for any records of any providers, and whatever state it found
\* (email_routing.py:232, inbound_switch.py:142, restore_inbound.py:247).
THEOREM ZeroIsDone == MailSpec => ZeroMeansDone
<1> DEFINE A(s) == EndsZero(s) /\ script[s].alone =>
            CASE s = "provision" -> routing' /\ rule'
              [] s = "switch" -> mx' \cap Theirs = {}
              [] s = "restore" -> mx' = Theirs
<1>1. ASSUME MailInv, [MailNext]_mailVars
      PROVE  (\A s \in Scripts : A(s)) \/ UNCHANGED mailVars
  <2> SUFFICES ASSUME MailNext, NEW s \in Scripts, EndsZero(s), script[s].alone
               PROVE  A(s)
    BY <1>1
  <2> USE <1>1 DEF MailInv, MailTypeOK
  <2>0. script[s] \in ScriptRun /\ script[s].alone = TRUE
    BY DEF ScriptRun
  <2>1. CASE s = "provision" /\ EnsureRule
    <3>1. script["provision"].enabled = TRUE \/ script'["provision"] = NoScript
      BY <2>1 DEF EnsureRule, Verdict, EndsNot0, Goes, ScriptRun
    <3>2. script["provision"].enabled = TRUE
      BY <2>1, <3>1, NoScriptIsOne DEF EndsZero
    <3>3. routing' = routing /\ routing = TRUE
      BY <2>0, <2>1, <3>2 DEF ProvisionKnows, EnsureRule, EndsZero
    <3>4. rule' = TRUE
      <4>1. CASE script["provision"].ruled
        BY <2>0, <2>1, <4>1 DEF EnsureRule, ProvisionKnows, ScriptRun
      <4>2. CASE ~ script["provision"].ruled
        <5>1. destination \/ script'["provision"] = NoScript
          BY <2>1, <4>2 DEF EnsureRule, EndsNot0, Goes
        <5>2. destination
          BY <2>1, <5>1, NoScriptIsOne DEF EndsZero
        <5>3. QED
          BY <2>1, <4>2, <5>2 DEF EnsureRule
      <4>3. QED
        BY <4>1, <4>2
    <3>5. QED
      BY <2>1, <3>3, <3>4
  <2>2. CASE s = "switch" /\ (Classify \/ CountRemoved)
    <3>1. mx' = mx
      BY <2>2 DEF Classify, CountRemoved, ZoneKept
    <3>2. mx \cap Theirs = {}
      <4>1. CASE Classify
        <5> DEFINE new == [script["switch"] EXCEPT !.phase = "removing", !.todo = mx \cap Theirs]
        <5>0. new.phase = "removing"
          BY <2>0, <2>2 DEF ScriptRun
        <5>1. \/ mx \cap Theirs = {}
              \/ script'["switch"].phase \in {"exit", "removing"}
          BY <2>2, <4>1, <5>0, NoScriptIsOne DEF Classify, EndsNot0, Goes
        <5>2. QED
          BY <2>2, <5>1 DEF EndsZero
      <4>2. CASE CountRemoved
        <5>1. \/ script["switch"].failed = FALSE
              \/ script'["switch"].phase = "exit"
          BY <2>0, <2>2, <4>2, NoScriptIsOne DEF CountRemoved, EndsNot0, Goes, ScriptRun
        <5>2. script["switch"].failed = FALSE
          BY <2>2, <5>1 DEF EndsZero
        <5>3. QED
          BY <2>0, <2>2, <4>2, <5>2 DEF CountRemoved, SwitchKnows
      <4>3. QED
        BY <2>2, <4>1, <4>2
    <3>3. QED
      BY <2>2, <3>1, <3>2
  <2>3. CASE s = "restore" /\ CheckApex
    <3>1. mx = Theirs \/ script'["restore"].phase = "exit"
      BY <2>3, NoScriptIsOne DEF CheckApex, EndsNot0, Goes
    <3>2. mx' = mx
      BY <2>3 DEF CheckApex, ZoneKept
    <3>3. QED
      BY <2>3, <3>1, <3>2 DEF EndsZero
  <2>4. QED
    BY <2>1, <2>2, <2>3, OnlyItEnds
<1>2. QED
  BY MailInitInv, MailNextInv, <1>1, PTL DEF MailSpec, ZeroMeansDone

(***************************************************************************)
(* The agent's sandbox.                                                    *)
(***************************************************************************)

\* Among the attempts `at`, a contact of the consent c on the channel ch was
\* permitted, and has been made.
Permitted(at, c, ch) ==
    /\ c \in Verified
    /\ ch \in ChannelsOf[c]
    /\ \E b \in Contacts :
            /\ at[b].phase # "unmade" /\ at[b].phase # "read"
            /\ at[b].allowed
            /\ at[b].consent = c
            /\ at[b].channel = ch

\* An isolate reaches something only if its own consent and channel were permitted.
IsolatesAreAgreed ==
    \A id \in DOMAIN isolate : \A h \in isolate[id] :
        h \in EgressByChannel(id[2]) /\ Permitted(attempt, id[1], id[2])

ReachedWasPermitted ==
    \A r \in reached :
        /\ r[1] \in Contacts
        /\ attempt[r[1]].phase = "over"
        /\ r[2] \in EgressByChannel(attempt[r[1]].channel)
        /\ Permitted(attempt, attempt[r[1]].consent, attempt[r[1]].channel)

AttemptsHaveShape ==
    /\ attempt = [a \in Contacts |-> attempt[a]]
    /\ \A a \in Contacts :
        DOMAIN attempt[a] = {"phase", "consent", "channel", "standing", "hour",
                             "contactsToday", "allowed", "alone"}

SandboxInv ==
    /\ AttemptsHaveShape
    /\ IsolatesAreAgreed
    /\ ReachedWasPermitted

LEMMA SandboxInitInv == SandboxInit => SandboxInv
BY DEF SandboxInit, SandboxInv, AttemptsHaveShape, Unmade, IsolatesAreAgreed, ReachedWasPermitted

\* What the invariant rests on: an attempt that is past being read is not read
\* again, so what was permitted stays so.
Lasting ==
    /\ AttemptsHaveShape'
    /\ \A a \in Contacts : attempt[a].phase \notin {"unmade", "read"} =>
        /\ attempt'[a].phase \notin {"unmade", "read"}
        /\ attempt'[a].allowed = attempt[a].allowed
        /\ attempt'[a].consent = attempt[a].consent
        /\ attempt'[a].channel = attempt[a].channel
        /\ attempt[a].phase = "over" => attempt'[a].phase = "over"

LEMMA PermittedLasts ==
    ASSUME Lasting, NEW c, NEW ch, Permitted(attempt, c, ch)
    PROVE  Permitted(attempt', c, ch)
BY DEF Lasting, Permitted

LEMMA ReachedLasts ==
    ASSUME Lasting, ReachedWasPermitted, reached' = reached
    PROVE  ReachedWasPermitted'
BY PermittedLasts DEF Lasting, ReachedWasPermitted

LEMMA AgreedLasts ==
    ASSUME Lasting, IsolatesAreAgreed, DOMAIN isolate' \subseteq DOMAIN isolate,
           \A id \in DOMAIN isolate' : isolate'[id] = isolate[id]
    PROVE  IsolatesAreAgreed'
BY PermittedLasts DEF IsolatesAreAgreed

LEMMA ReadIsLasting ==
    ASSUME SandboxInv, NEW a \in Contacts, NEW c \in Consents, NEW ch \in Channels,
           ReadSituation(a, c, ch)
    PROVE  Lasting
<1>1. \A b \in Contacts \ {a} : attempt'[b] = [attempt[b] EXCEPT !.alone = @ /\ ~ UnderWay(b)]
  BY DEF ReadSituation
<1>2. /\ attempt' = [b \in Contacts |-> attempt'[b]]
      /\ attempt[a].phase = "unmade"
  BY DEF ReadSituation
<1>3. DOMAIN attempt'[a] = DOMAIN Unmade
  BY DEF ReadSituation, Unmade
<1>4. QED
  BY <1>1, <1>2, <1>3 DEF Lasting, SandboxInv, AttemptsHaveShape, Unmade

LEMMA ReadKeepsSandboxInv ==
    ASSUME SandboxInv, NEW a \in Contacts, NEW c \in Consents, NEW ch \in Channels,
           ReadSituation(a, c, ch)
    PROVE  SandboxInv'
BY ReadIsLasting, ReachedLasts, AgreedLasts DEF SandboxInv, Lasting, ReadSituation

LEMMA MintKeepsSandboxInv ==
    ASSUME SandboxInv, NEW a \in Contacts, MintAgent(a)
    PROVE  SandboxInv'
<1> DEFINE s == attempt[a]
           id == IsolateId(s)
<1>1. Lasting
  BY DEF Lasting, MintAgent, SandboxInv, AttemptsHaveShape
<1>2. ReachedWasPermitted'
  BY <1>1, ReachedLasts DEF SandboxInv, MintAgent
<1>3. MayContact(s) => Permitted(attempt', s.consent, s.channel)
  BY DEF MayContact, Permitted, MintAgent, SandboxInv, AttemptsHaveShape
<1>4. IsolatesAreAgreed'
  <2>1. CASE id \in DOMAIN isolate
    BY <1>1, <2>1, AgreedLasts DEF MintAgent, Composed, SandboxInv
  <2>2. CASE id \notin DOMAIN isolate
    <3>1. isolate' = [i \in DOMAIN isolate \cup {id} |->
                         IF i = id THEN HostsFor(s) ELSE isolate[i]]
      BY <2>2 DEF MintAgent, Composed
    <3> SUFFICES ASSUME NEW i \in DOMAIN isolate \cup {id}, NEW h \in isolate'[i]
                 PROVE  h \in EgressByChannel(i[2]) /\ Permitted(attempt', i[1], i[2])
      BY <3>1 DEF IsolatesAreAgreed
    <3>2. CASE i = id
      <4>1. h \in HostsFor(s)
        BY <3>1, <3>2
      <4>2. MayContact(s) /\ h \in EgressByChannel(s.channel)
        BY <4>1 DEF HostsFor
      <4>3. i[1] = s.consent /\ i[2] = s.channel
        BY <3>2 DEF IsolateId
      <4>4. QED
        BY <1>3, <4>2, <4>3
    <3>3. CASE i # id
      <4>1. i \in DOMAIN isolate /\ h \in isolate[i]
        BY <3>1, <3>3
      <4>2. h \in EgressByChannel(i[2]) /\ Permitted(attempt, i[1], i[2])
        BY <4>1 DEF SandboxInv, IsolatesAreAgreed
      <4>3. QED
        BY <1>1, <4>2, PermittedLasts
    <3>4. QED
      BY <3>2, <3>3
  <2>3. QED
    BY <2>1, <2>2
<1>5. QED
  BY <1>1, <1>2, <1>4 DEF SandboxInv, Lasting

LEMMA AskKeepsSandboxInv ==
    ASSUME SandboxInv, NEW a \in Contacts, NEW h \in Hosts, Ask(a, h)
    PROVE  SandboxInv'
<1> DEFINE s == attempt[a]
<1>1. Lasting
  BY DEF Lasting, Ask, SandboxInv, AttemptsHaveShape
<1>2. IsolatesAreAgreed'
  BY <1>1, AgreedLasts DEF Ask, SandboxInv
<1>3. ReachedWasPermitted'
  <2> SUFFICES ASSUME NEW r \in reached'
               PROVE  /\ r[1] \in Contacts
                      /\ attempt'[r[1]].phase = "over"
                      /\ r[2] \in EgressByChannel(attempt'[r[1]].channel)
                      /\ Permitted(attempt', attempt'[r[1]].consent, attempt'[r[1]].channel)
    BY DEF ReachedWasPermitted
  <2>1. CASE r \in reached
    <3>1. /\ r[1] \in Contacts
          /\ attempt[r[1]].phase = "over"
          /\ r[2] \in EgressByChannel(attempt[r[1]].channel)
          /\ Permitted(attempt, attempt[r[1]].consent, attempt[r[1]].channel)
      BY <2>1 DEF SandboxInv, ReachedWasPermitted
    <3>2. Permitted(attempt', attempt[r[1]].consent, attempt[r[1]].channel)
      BY <1>1, <3>1, PermittedLasts DEF Lasting
    <3>3. QED
      BY <1>1, <3>1, <3>2, PermittedLasts DEF Lasting
  <2>2. CASE r \notin reached
    <3>1. r = <<a, h>> /\ h \in isolate[IsolateId(s)] /\ IsolateId(s) \in DOMAIN isolate
      BY <2>2 DEF Ask
    <3>2. h \in EgressByChannel(s.channel) /\ Permitted(attempt, s.consent, s.channel)
      BY <3>1 DEF SandboxInv, IsolatesAreAgreed, IsolateId
    <3>3. /\ attempt'[a].phase = "over"
          /\ attempt'[a].channel = s.channel /\ attempt'[a].consent = s.consent
      BY DEF Ask, SandboxInv, AttemptsHaveShape
    <3>4. Permitted(attempt', s.consent, s.channel)
      BY <1>1, <3>2, PermittedLasts
    <3>5. QED
      BY <3>1, <3>2, <3>3, <3>4
  <2>3. QED
    BY <2>1, <2>2
<1>4. QED
  BY <1>1, <1>2, <1>3 DEF SandboxInv, Lasting

LEMMA SandboxNextInv == SandboxInv /\ [SandboxNext]_sandboxVars => SandboxInv'
<1> SUFFICES ASSUME SandboxInv, [SandboxNext]_sandboxVars
             PROVE  SandboxInv'
  OBVIOUS
<1>1. ASSUME NEW a \in Contacts, NEW c \in Consents, NEW ch \in Channels,
             ReadSituation(a, c, ch)
      PROVE  SandboxInv'
  BY <1>1, ReadKeepsSandboxInv
<1>2. ASSUME NEW a \in Contacts, MintAgent(a)
      PROVE  SandboxInv'
  BY <1>2, MintKeepsSandboxInv
<1>3. ASSUME NEW a \in Contacts, NEW h \in Hosts, Ask(a, h)
      PROVE  SandboxInv'
  BY <1>3, AskKeepsSandboxInv
<1>4. ASSUME NEW a \in Contacts, Abandon(a)
      PROVE  SandboxInv'
  <2>1. Lasting
    BY <1>4 DEF Lasting, Abandon, SandboxInv, AttemptsHaveShape
  <2>2. QED
    BY <1>4, <2>1, ReachedLasts, AgreedLasts DEF Abandon, SandboxInv, Lasting
<1>5. ASSUME UNCHANGED <<attempt, reached>>, DOMAIN isolate' \subseteq DOMAIN isolate,
             \A id \in DOMAIN isolate' : isolate'[id] = isolate[id]
      PROVE  SandboxInv'
  <2>1. Lasting
    BY <1>5 DEF Lasting, SandboxInv, AttemptsHaveShape
  <2>2. QED
    BY <1>5, <2>1, ReachedLasts, AgreedLasts DEF SandboxInv, Lasting
<1>6. ASSUME NEW id \in DOMAIN isolate, Evict(id)
      PROVE  SandboxInv'
  BY <1>5, <1>6 DEF Evict
<1>7. CASE HourPasses \/ (\E c \in Consents : Ends(c)) \/ UNCHANGED sandboxVars
  BY <1>5, <1>7 DEF HourPasses, Ends, sandboxVars
<1>8. QED
  BY <1>1, <1>2, <1>3, <1>4, <1>6, <1>7 DEF SandboxNext

\* Whatever callers run, allowed or not, on isolates cold or warm, reaches only
\* what the same person agreed to on the same channel: for any consents, any
\* contacts and any evictions (agentSandbox.mjs:134, :164, :212).
THEOREM ReachWasPermitted == SandboxSpec => []ReachWasAgreed
<1>1. SandboxInv => ReachWasAgreed
  BY DEF SandboxInv, ReachedWasPermitted, Permitted, ReachWasAgreed
<1>2. QED
  BY SandboxInitInv, SandboxNextInv, <1>1, PTL DEF SandboxSpec

(***************************************************************************)
(* The ceiling.                                                            *)
(***************************************************************************)

Turns == \A a \in Contacts : attempt[a].alone

Obedient == Turns /\ \A r \in reached : attempt[r[1]].allowed

With(c) == {r \in reached : attempt[r[1]].consent = c}

\* Callers that take turns and obey decide on a count that is still true when
\* their agent runs.
CountsAreTrue ==
    /\ \A a \in Contacts :
        /\ UnderWay(a) => /\ attempt[a].consent \in Consents
                          /\ attempt[a].contactsToday = ContactsWith(attempt[a].consent)
        /\ attempt[a].phase = "minted" /\ attempt[a].allowed =>
               attempt[a].contactsToday < CeilingOf[attempt[a].consent]
    /\ \A c \in Consents : ContactsWith(c) <= CeilingOf[c]

TurnsInv ==
    /\ IsFiniteSet(reached)
    /\ \A a \in Contacts : attempt[a].phase = "unmade" => attempt[a].alone
    /\ Turns => \A a, b \in Contacts : UnderWay(a) /\ UnderWay(b) => a = b
    /\ Obedient => CountsAreTrue

LEMMA TurnsInitInv == SandboxInit => TurnsInv
<1> SUFFICES ASSUME SandboxInit PROVE TurnsInv
  OBVIOUS
<1>1. reached = {} /\ IsFiniteSet({}) /\ Cardinality({}) = 0
  BY FS_EmptySet DEF SandboxInit
<1>2. \A a \in Contacts : attempt[a].phase = "unmade" /\ attempt[a].alone
  BY DEF SandboxInit, Unmade
<1>3. \A c \in Consents : ContactsWith(c) = 0
  <2> SUFFICES ASSUME NEW c \in Consents PROVE ContactsWith(c) = 0
    OBVIOUS
  <2>1. {r \in reached : attempt[r[1]].consent = c} = {}
    BY <1>1
  <2>2. QED
    BY <1>1, <2>1 DEF ContactsWith
<1>4. CountsAreTrue
  BY <1>2, <1>3, SandboxAssumption DEF CountsAreTrue, UnderWay
<1>5. QED
  BY <1>1, <1>2, <1>4 DEF TurnsInv, UnderWay

\* Who was reached stays counted with the same consent.
LEMMA ReachedStayCounted ==
    ASSUME Lasting, SandboxInv, NEW c
    PROVE  {r \in reached : attempt'[r[1]].consent = c} = With(c)
BY DEF Lasting, SandboxInv, ReachedWasPermitted, With

LEMMA CountsLast ==
    ASSUME Lasting, SandboxInv, reached' = reached, NEW c
    PROVE  ContactsWith(c)' = ContactsWith(c)
<1>1. {r \in reached' : attempt'[r[1]].consent = c} = {r \in reached : attempt[r[1]].consent = c}
  BY ReachedStayCounted DEF With
<1>2. QED
  BY <1>1 DEF ContactsWith

\* Who is not obedient does not become so.
LEMMA ObedienceIsLost ==
    ASSUME Lasting, SandboxInv, TurnsInv, reached \subseteq reached',
           \A a \in Contacts : attempt'[a].alone => attempt[a].alone \/ attempt[a].phase = "unmade",
           Obedient'
    PROVE  Obedient
<1>1. Turns
  BY DEF Obedient, Turns, TurnsInv
<1>2. \A r \in reached : attempt[r[1]].allowed
  BY DEF Obedient, Lasting, SandboxInv, ReachedWasPermitted
<1>3. QED
  BY <1>1, <1>2 DEF Obedient

LEMMA ReadKeepsTurns ==
    ASSUME SandboxInv, TurnsInv, Lasting, NEW a \in Contacts, NEW c \in Consents,
           NEW ch \in Channels, ReadSituation(a, c, ch)
    PROVE  TurnsInv'
<1>1. \A b \in Contacts \ {a} : attempt'[b] = [attempt[b] EXCEPT !.alone = @ /\ ~ UnderWay(b)]
  BY DEF ReadSituation
<1>2. \A b \in Contacts \ {a} :
        /\ attempt'[b].phase = attempt[b].phase
        /\ attempt'[b].consent = attempt[b].consent
        /\ attempt'[b].contactsToday = attempt[b].contactsToday
        /\ attempt'[b].allowed = attempt[b].allowed
        /\ attempt'[b].alone <=> (attempt[b].alone /\ ~ UnderWay(b))
  BY <1>1 DEF SandboxInv, AttemptsHaveShape
<1>3. /\ attempt[a].phase = "unmade"
      /\ attempt'[a].phase = "read" /\ attempt'[a].consent = c
      /\ attempt'[a].contactsToday = ContactsWith(c)
  BY DEF ReadSituation, Unmade
<1>4. reached' = reached
  BY DEF ReadSituation
<1>5. Turns' => \A b \in Contacts \ {a} : ~ UnderWay(b)'
  BY <1>2 DEF Turns, UnderWay
<1>6. \A b \in Contacts : attempt'[b].alone => attempt[b].alone \/ attempt[b].phase = "unmade"
  BY <1>2, <1>3
<1>7. ASSUME Obedient' PROVE CountsAreTrue'
  <2>1. CountsAreTrue /\ \A b \in Contacts \ {a} : ~ UnderWay(b)'
    BY <1>4, <1>5, <1>6, <1>7, ObedienceIsLost DEF TurnsInv, Obedient
  <2>2. \A d : ContactsWith(d)' = ContactsWith(d)
    BY <1>4, CountsLast
  <2>3. \A b \in Contacts \ {a} : attempt'[b].phase # "minted"
    BY <2>1 DEF UnderWay
  <2>4. QED
    BY <1>3, <2>1, <2>2, <2>3 DEF CountsAreTrue
<1>8. \A b \in Contacts : attempt'[b].phase = "unmade" => attempt'[b].alone
  BY <1>2, <1>3 DEF TurnsInv, UnderWay
<1>9. Turns' => \A b, d \in Contacts : UnderWay(b)' /\ UnderWay(d)' => b = d
  BY <1>5
<1>10. QED
  BY <1>4, <1>7, <1>8, <1>9 DEF TurnsInv

LEMMA MintKeepsTurns ==
    ASSUME SandboxInv, TurnsInv, Lasting, NEW a \in Contacts, MintAgent(a)
    PROVE  TurnsInv'
<1>1. /\ attempt[a].phase = "read" /\ attempt'[a].phase = "minted"
      /\ attempt'[a].allowed = MayContact(attempt[a])
      /\ attempt'[a].consent = attempt[a].consent
      /\ attempt'[a].contactsToday = attempt[a].contactsToday
      /\ attempt'[a].alone = attempt[a].alone
      /\ \A b \in Contacts \ {a} : attempt'[b] = attempt[b]
      /\ reached' = reached
  BY DEF MintAgent, SandboxInv, AttemptsHaveShape
<1>2. \A b \in Contacts : UnderWay(b)' = UnderWay(b) /\ attempt'[b].alone = attempt[b].alone
  BY <1>1 DEF UnderWay
<1>3. ASSUME Obedient' PROVE CountsAreTrue'
  <2>1. CountsAreTrue
    BY <1>1, <1>2, <1>3, ObedienceIsLost DEF TurnsInv
  <2>2. \A d : ContactsWith(d)' = ContactsWith(d)
    BY <1>1, CountsLast
  <2>3. attempt'[a].allowed => attempt[a].contactsToday < CeilingOf[attempt[a].consent]
    BY <1>1 DEF MayContact, BelowCeiling
  <2>4. QED
    BY <1>1, <1>2, <2>1, <2>2, <2>3 DEF CountsAreTrue
<1>4. QED
  BY <1>1, <1>2, <1>3 DEF TurnsInv, Turns

\* An agent runs: it reaches a host more at most, and is not under way any longer.
LEMMA RunKeepsTurns ==
    ASSUME SandboxInv, TurnsInv, Lasting, NEW a \in Contacts,
           attempt[a].phase = "minted",
           attempt' = [attempt EXCEPT ![a].phase = "over"],
           NEW h \in Hosts, reached' = reached \/ reached' = reached \cup {<<a, h>>}
    PROVE  TurnsInv'
<1>1. /\ attempt'[a].phase = "over"
      /\ attempt'[a].allowed = attempt[a].allowed
      /\ attempt'[a].consent = attempt[a].consent
      /\ attempt'[a].alone = attempt[a].alone
      /\ \A b \in Contacts \ {a} : attempt'[b] = attempt[b]
  BY DEF SandboxInv, AttemptsHaveShape
<1>2. /\ \A b \in Contacts : attempt'[b].alone = attempt[b].alone
      /\ \A b \in Contacts \ {a} : UnderWay(b)' = UnderWay(b)
      /\ UnderWay(a) /\ ~ UnderWay(a)'
  BY <1>1 DEF UnderWay
<1>3. IsFiniteSet(reached')
  BY FS_AddElement DEF TurnsInv
<1>4. ASSUME Obedient' PROVE CountsAreTrue'
  <2>1. Obedient /\ CountsAreTrue
    BY <1>2, <1>4, ObedienceIsLost DEF TurnsInv
  <2>2. \A b \in Contacts \ {a} : ~ UnderWay(b)
    BY <1>2, <2>1 DEF TurnsInv, Obedient
  <2>3. ASSUME NEW c \in Consents PROVE ContactsWith(c)' <= CeilingOf[c]
    <3>1. CeilingOf[c] \in Nat /\ ContactsWith(c) <= CeilingOf[c]
      BY <2>1, SandboxAssumption DEF CountsAreTrue
    <3>2. ContactsWith(c)' = Cardinality({r \in reached' : attempt'[r[1]].consent = c})
      BY DEF ContactsWith
    <3>3. {r \in reached : attempt'[r[1]].consent = c} = With(c)
      BY ReachedStayCounted
    <3>4. IsFiniteSet(With(c)) /\ ContactsWith(c) = Cardinality(With(c))
      BY FS_Subset DEF TurnsInv, ContactsWith, With
    <3>5. CASE reached' = reached \/ attempt[a].consent # c
      <4>1. {r \in reached' : attempt'[r[1]].consent = c} = With(c)
        BY <1>1, <3>3, <3>5
      <4>2. QED
        BY <3>1, <3>2, <3>4, <4>1
    <3>6. CASE reached' = reached \cup {<<a, h>>} /\ attempt[a].consent = c
      <4>1. {r \in reached' : attempt'[r[1]].consent = c} = With(c) \cup {<<a, h>>}
        BY <1>1, <3>3, <3>6
      <4>2. attempt[a].allowed
        <5>1. <<a, h>> \in reached' /\ <<a, h>>[1] = a
          BY <3>6
        <5>2. attempt'[<<a, h>>[1]].allowed
          BY <1>4, <5>1 DEF Obedient
        <5>3. QED
          BY <1>1, <5>1, <5>2
      <4>3. ContactsWith(c) < CeilingOf[c]
        BY <1>2, <2>1, <3>6, <4>2 DEF CountsAreTrue
      <4>4. \/ Cardinality(With(c) \cup {<<a, h>>}) = Cardinality(With(c))
            \/ Cardinality(With(c) \cup {<<a, h>>}) = Cardinality(With(c)) + 1
        BY <3>4, FS_AddElement
      <4>5. Cardinality(With(c)) \in Nat
        BY <3>4, FS_CardinalityType
      <4>6. Cardinality(With(c) \cup {<<a, h>>}) <= CeilingOf[c]
        BY <3>1, <3>4, <4>3, <4>4, <4>5
      <4>7. QED
        BY <3>2, <4>1, <4>6
    <3>7. QED
      BY <3>5, <3>6
  <2>4. \A b \in Contacts : ~ UnderWay(b)'
    BY <1>2, <2>2
  <2>5. \A b \in Contacts : attempt'[b].phase # "minted"
    BY <2>4 DEF UnderWay
  <2>6. QED
    BY <2>3, <2>4, <2>5 DEF CountsAreTrue
<1>5. QED
  BY <1>1, <1>2, <1>3, <1>4 DEF TurnsInv, Turns

LEMMA TurnsNextInv == SandboxInv /\ TurnsInv /\ [SandboxNext]_sandboxVars => TurnsInv'
<1> SUFFICES ASSUME SandboxInv, TurnsInv, [SandboxNext]_sandboxVars
             PROVE  TurnsInv'
  OBVIOUS
<1>1. ASSUME UNCHANGED <<attempt, reached>>
      PROVE  TurnsInv'
  BY <1>1 DEF TurnsInv, Turns, Obedient, CountsAreTrue, ContactsWith, UnderWay
<1>2. ASSUME NEW a \in Contacts, NEW c \in Consents, NEW ch \in Channels,
             ReadSituation(a, c, ch)
      PROVE  TurnsInv'
  BY <1>2, ReadIsLasting, ReadKeepsTurns
<1>3. ASSUME NEW a \in Contacts, MintAgent(a)
      PROVE  TurnsInv'
  <2>1. Lasting
    BY <1>3 DEF Lasting, MintAgent, SandboxInv, AttemptsHaveShape
  <2>2. QED
    BY <1>3, <2>1, MintKeepsTurns
<1>4. ASSUME NEW a \in Contacts, Abandon(a) \/ \E h \in Hosts : Ask(a, h)
      PROVE  TurnsInv'
  <2>1. Lasting
    BY <1>4 DEF Lasting, Ask, Abandon, SandboxInv, AttemptsHaveShape
  <2>2. /\ attempt[a].phase = "minted"
        /\ attempt' = [attempt EXCEPT ![a].phase = "over"]
    BY <1>4 DEF Ask, Abandon
  <2>3. PICK h \in Hosts : reached' = reached \/ reached' = reached \cup {<<a, h>>}
    BY <1>4 DEF Ask, Abandon, Hosts
  <2>4. QED
    BY <2>1, <2>2, <2>3, RunKeepsTurns
<1>5. QED
  BY <1>1, <1>2, <1>3, <1>4
     DEF SandboxNext, HourPasses, Ends, Evict, sandboxVars

\* Callers that take turns and run only what they were allowed keep to the number of
\* contacts a day that each record says, however many they are (consent.mjs:103).
THEOREM CeilingsAreKept == SandboxSpec => []TurnsKeepTheCeiling
<1>1. TurnsInv => TurnsKeepTheCeiling
  BY DEF TurnsInv, TurnsKeepTheCeiling, Obedient, Turns, CountsAreTrue
<1>2. SandboxInit => SandboxInv /\ TurnsInv
  BY SandboxInitInv, TurnsInitInv
<1>3. SandboxInv /\ TurnsInv /\ [SandboxNext]_sandboxVars => (SandboxInv /\ TurnsInv)'
  BY SandboxNextInv, TurnsNextInv
<1>4. QED
  BY <1>1, <1>2, <1>3, PTL DEF SandboxSpec

(***************************************************************************)
(* The asset mirrors.                                                      *)
(***************************************************************************)

Versions == [Films -> Nat]

\* Which films a mirror takes.
FilmsOf(k) == Range(KeysOf[k])

JobPhases == Ended \cup {"hosting", "describing", "verifying", "pushing", "rebasing"}

Job == [phase : JobPhases, seen : Versions, films : Versions, at : Nat \ {0},
        failed : SUBSET Films, behind : BOOLEAN, attempt : Nat]

MirrorTypeOK ==
    /\ version \in Versions /\ bucket \in Versions /\ studio \in Versions
    /\ job \in [Mirrors -> Job]

\* What a clone's films.json says of the mirror's own films was uploaded, nothing
\* was uploaded that is newer than the newest version, and while an entry waits for
\* its poster the film it is for is up.
ClonesNameUploaded ==
    \A k \in Mirrors :
        /\ \A f \in FilmsOf(k) : job[k].films[f] <= bucket[f]
        /\ job[k].phase = "describing" =>
            /\ job[k].at <= Len(KeysOf[k])
            /\ Seen(k) <= bucket[Film(k)]

\* A run has seen what is at least what the bucket holds, since one run at a time
\* uploads a film.
SeenIsNewest ==
    \A k \in Mirrors : \A f \in FilmsOf(k) :
        /\ bucket[f] <= version[f]
        /\ job[k].phase \notin Ended => bucket[f] <= job[k].seen[f] /\ job[k].seen[f] <= version[f]

MirrorInv == MirrorTypeOK /\ ClonesNameUploaded /\ SeenIsNewest /\ StudioNamesUploaded

\* The two mirrors have their own films, and every film is of one.
LEMMA MirrorsShareNone ==
    /\ Films = FilmsOf("ai") \cup FilmsOf("pd")
    /\ FilmsOf("ai") \cap FilmsOf("pd") = {}
    /\ \A k \in Mirrors : FilmsOf(k) \subseteq Films
BY MirrorAssumption DEF Films, FilmsOf, KeysOf, Mirrors

LEMMA NothingIsZero ==
    /\ None \in Versions
    /\ NoJob \in Job
    /\ NoJob.phase \in Ended
    /\ NoJob.films = None
BY DEF None, Versions, NoJob, Job, JobPhases, Ended

LEMMA MirrorInitInv == MirrorInit => MirrorInv
<1> SUFFICES ASSUME MirrorInit PROVE MirrorInv
  OBVIOUS
<1>1. MirrorTypeOK
  BY NothingIsZero DEF MirrorInit, MirrorTypeOK, Versions
<1>2. ClonesNameUploaded
  BY MirrorsShareNone DEF MirrorInit, ClonesNameUploaded, NoJob, None
<1>3. SeenIsNewest
  BY MirrorsShareNone DEF MirrorInit, SeenIsNewest, NoJob, None, Ended
<1>4. StudioNamesUploaded
  BY DEF MirrorInit, StudioNamesUploaded, None
<1>5. QED
  BY <1>1, <1>2, <1>3, <1>4 DEF MirrorInv

(***************************************************************************)
(* Steps of one mirror's job that leave the stores alone.                  *)
(***************************************************************************)

\* The film in hand is one of the mirror's own.
LEMMA InHand ==
    ASSUME MirrorTypeOK, NEW k \in Mirrors, job[k].at <= Len(KeysOf[k])
    PROVE  Film(k) \in FilmsOf(k) /\ Film(k) \in Films
<1>1. KeysOf[k] \in Seq(Films)
  BY MirrorAssumption DEF KeysOf, Mirrors
<1>2. job[k].at \in DOMAIN KeysOf[k]
  BY <1>1 DEF MirrorTypeOK, Job
<1>3. QED
  BY <1>1, <1>2 DEF Film, FilmsOf, Range

\* What a job may become without a call that changes a store.
Moves(k, new) ==
    /\ new \in Job
    /\ job' = [job EXCEPT ![k] = new]
    /\ UNCHANGED <<version, bucket, studio>>

LEMMA MovesKeepInv ==
    ASSUME MirrorInv, NEW k \in Mirrors, NEW new, Moves(k, new),
           \A f \in FilmsOf(k) : new.films[f] <= bucket[f],
           new.phase # "describing",
           new.phase \notin Ended =>
               \A f \in FilmsOf(k) : bucket[f] <= new.seen[f] /\ new.seen[f] <= version[f]
    PROVE  MirrorInv'
<1> USE DEF MirrorInv
<1>1. job'[k] = new /\ \A j \in Mirrors \ {k} : job'[j] = job[j]
  BY DEF Moves, MirrorTypeOK
<1>2. MirrorTypeOK'
  BY DEF Moves, MirrorTypeOK
<1>3. ClonesNameUploaded'
  BY <1>1 DEF Moves, ClonesNameUploaded, Seen, Film
<1>4. SeenIsNewest'
  BY <1>1 DEF Moves, SeenIsNewest
<1>5. StudioNamesUploaded'
  BY DEF Moves, StudioNamesUploaded
<1>6. QED
  BY <1>2, <1>3, <1>4, <1>5

\* A job that ends, or goes on with the clone it has.
LEMMA ToKeepsInv ==
    ASSUME MirrorInv, NEW k \in Mirrors, job[k].phase \notin Ended,
           NEW phase \in JobPhases, phase # "describing",
           To(k, phase), UNCHANGED <<version, bucket, studio>>
    PROVE  MirrorInv'
<1> DEFINE new == IF phase \in Ended THEN [NoJob EXCEPT !.phase = phase]
                  ELSE [job[k] EXCEPT !.phase = phase]
<1>1. job[k] \in Job
  BY DEF MirrorInv, MirrorTypeOK
<1>2. new \in Job /\ new.phase = phase
  BY <1>1, NothingIsZero DEF Job
<1>3. phase \in Ended => new.films = None
  BY NothingIsZero DEF NoJob
<1>4. phase \notin Ended => new.films = job[k].films /\ new.seen = job[k].seen
  BY <1>1 DEF Job
<1>5. Moves(k, new)
  BY <1>2 DEF To, Moves
<1> HIDE DEF new
<1>6. \A f \in FilmsOf(k) : new.films[f] <= bucket[f]
  BY <1>3, <1>4, MirrorsShareNone
     DEF MirrorInv, ClonesNameUploaded, MirrorTypeOK, Versions, None
<1>7. QED
  BY <1>2, <1>4, <1>5, <1>6, MovesKeepInv DEF MirrorInv, SeenIsNewest

\* The other jobs are told of a commit on the branch.
LEMMA BehindKeeps ==
    ASSUME MirrorTypeOK, NEW k
    PROVE  /\ BehindBut(k) \in [Mirrors -> Job]
           /\ \A j \in Mirrors :
                /\ BehindBut(k)[j].phase = job[j].phase
                /\ BehindBut(k)[j].films = job[j].films
                /\ BehindBut(k)[j].seen = job[j].seen
                /\ BehindBut(k)[j].at = job[j].at
                /\ BehindBut(k)[j].failed = job[j].failed
<1>1. \A j \in Mirrors : job[j] \in Job
  BY DEF MirrorTypeOK
<1>2. QED
  BY <1>1 DEF BehindBut, Job

\* News of the branch, or of a version, changes no clone.
LEMMA NewsKeepsInv ==
    ASSUME MirrorInv, UNCHANGED <<bucket, studio>>,
           version' \in Versions, \A f \in Films : version[f] <= version'[f],
           job' = BehindBut("nobody") \/ job' = job
    PROVE  MirrorInv'
<1> USE DEF MirrorInv
<1>1. /\ job' \in [Mirrors -> Job]
      /\ \A j \in Mirrors :
            /\ job'[j].phase = job[j].phase /\ job'[j].films = job[j].films
            /\ job'[j].seen = job[j].seen /\ job'[j].at = job[j].at
  BY BehindKeeps DEF MirrorTypeOK
<1>2. MirrorTypeOK'
  BY <1>1 DEF MirrorTypeOK
<1>3. ClonesNameUploaded'
  BY <1>1 DEF ClonesNameUploaded, Seen, Film
<1>4. SeenIsNewest'
  <2> SUFFICES ASSUME NEW k \in Mirrors, NEW f \in FilmsOf(k)
               PROVE  /\ bucket[f] <= version'[f]
                      /\ job'[k].phase \notin Ended =>
                            bucket[f] <= job'[k].seen[f] /\ job'[k].seen[f] <= version'[f]
    BY DEF SeenIsNewest
  <2>1. f \in Films /\ bucket[f] \in Nat /\ version[f] \in Nat /\ version'[f] \in Nat
        /\ job[k].seen[f] \in Nat
    BY MirrorsShareNone DEF MirrorTypeOK, Versions, Job
  <2>2. QED
    BY <1>1, <2>1 DEF SeenIsNewest
<1>5. StudioNamesUploaded'
  BY DEF StudioNamesUploaded
<1>6. QED
  BY <1>2, <1>3, <1>4, <1>5

(***************************************************************************)
(* The script's steps.                                                     *)
(***************************************************************************)

LEMMA StartKeepsInv ==
    ASSUME MirrorInv, NEW k \in Mirrors, StartMirror(k)
    PROVE  MirrorInv'
<1> DEFINE new == [NoJob EXCEPT !.phase = "hosting", !.seen = version, !.films = studio]
<1>1. /\ new \in Job /\ new.phase = "hosting" /\ new.seen = version /\ new.films = studio
  BY NothingIsZero DEF MirrorInv, MirrorTypeOK, Job, JobPhases, NoJob
<1>2. Moves(k, new)
  BY <1>1 DEF StartMirror, Moves
<1> HIDE DEF new
<1>3. \A f \in FilmsOf(k) : new.films[f] <= bucket[f] /\ bucket[f] <= new.seen[f]
                            /\ new.seen[f] <= version[f]
  <2> SUFFICES ASSUME NEW f \in FilmsOf(k)
               PROVE  studio[f] <= bucket[f] /\ bucket[f] <= version[f] /\ version[f] <= version[f]
    BY <1>1
  <2>1. f \in Films /\ version[f] \in Nat
    BY MirrorsShareNone DEF MirrorInv, MirrorTypeOK, Versions
  <2>2. QED
    BY <2>1 DEF MirrorInv, StudioNamesUploaded, SeenIsNewest
<1>4. QED
  BY <1>1, <1>2, <1>3, MovesKeepInv

LEMMA PassKeepsInv ==
    ASSUME MirrorInv, NEW k \in Mirrors, SkipFilm(k) \/ FailFilm(k)
    PROVE  MirrorInv'
<1> DEFINE new == [job[k] EXCEPT !.phase = "hosting", !.at = @ + 1,
                                 !.failed = IF SkipFilm(k) THEN @ ELSE @ \cup {Film(k)}]
<1>1. job[k] \in Job
  BY DEF MirrorInv, MirrorTypeOK
<1>2. Film(k) \in Films
  BY InHand DEF MirrorInv, ClonesNameUploaded, SkipFilm, FailFilm, Looping
<1>3. /\ new \in Job /\ new.phase = "hosting"
      /\ new.films = job[k].films /\ new.seen = job[k].seen
  <2>1. /\ "hosting" \in JobPhases
        /\ job[k].at + 1 \in Nat \ {0}
        /\ job[k].failed \cup {Film(k)} \in SUBSET Films
    BY <1>1, <1>2 DEF Job, JobPhases
  <2>2. QED
    BY <1>1, <2>1 DEF Job
<1>4. Moves(k, new)
  <2>1. CASE SkipFilm(k)
    BY <1>1, <1>3, <2>1 DEF Moves, SkipFilm, Looping, Job
  <2>2. CASE ~ SkipFilm(k)
    BY <1>3, <2>2 DEF Moves, FailFilm
  <2>3. QED
    BY <2>1, <2>2
<1>5. job[k].phase \notin Ended
  BY DEF SkipFilm, FailFilm, Looping, Ended
<1> HIDE DEF new
<1>6. QED
  BY <1>3, <1>4, <1>5, MovesKeepInv DEF MirrorInv, ClonesNameUploaded, SeenIsNewest

\* An entry is made of a film that is up.
LEMMA EntryIsUploaded ==
    ASSUME MirrorTypeOK, NEW k \in Mirrors, job[k].at <= Len(KeysOf[k])
    PROVE  /\ WithEntry(k) \in Job
           /\ WithEntry(k).phase = "hosting" /\ WithEntry(k).seen = job[k].seen
           /\ \A f \in Films :
                WithEntry(k).films[f] = IF f = Film(k) THEN Seen(k) ELSE job[k].films[f]
<1>1. job[k] \in Job /\ Film(k) \in Films
  BY InHand DEF MirrorTypeOK
<1>2. Seen(k) \in Nat
  BY <1>1 DEF Seen, Job, Versions
<1>3. /\ "hosting" \in JobPhases
      /\ job[k].at + 1 \in Nat \ {0}
      /\ [job[k].films EXCEPT ![Film(k)] = Seen(k)] \in Versions
  BY <1>1, <1>2 DEF Job, JobPhases, Versions
<1>4. WithEntry(k) = [job[k] EXCEPT !.phase = "hosting", !.at = @ + 1,
                                    !.films = [@ EXCEPT ![Film(k)] = Seen(k)]]
  BY DEF WithEntry
<1>5. /\ WithEntry(k) \in Job
      /\ WithEntry(k).phase = "hosting" /\ WithEntry(k).seen = job[k].seen
      /\ WithEntry(k).films = [job[k].films EXCEPT ![Film(k)] = Seen(k)]
  BY <1>1, <1>3, <1>4 DEF Job
<1>6. QED
  BY <1>1, <1>5 DEF Job, Versions

LEMMA DescribeKeepsInv ==
    ASSUME MirrorInv, NEW k \in Mirrors, DescribeFilm(k)
    PROVE  MirrorInv'
<1> DEFINE new == WithEntry(k)
<1>1. job[k].at <= Len(KeysOf[k]) /\ Seen(k) <= bucket[Film(k)]
  BY DEF DescribeFilm, MirrorInv, ClonesNameUploaded
<1>2. /\ new \in Job /\ new.phase = "hosting" /\ new.seen = job[k].seen
      /\ \A f \in Films : new.films[f] = IF f = Film(k) THEN Seen(k) ELSE job[k].films[f]
  BY <1>1, EntryIsUploaded DEF MirrorInv
<1>3. Moves(k, new)
  BY <1>2 DEF DescribeFilm, Moves
<1> HIDE DEF new
<1>4. \A f \in FilmsOf(k) : new.films[f] <= bucket[f]
  BY <1>1, <1>2, MirrorsShareNone DEF MirrorInv, ClonesNameUploaded
<1>5. QED
  BY <1>2, <1>3, <1>4, MovesKeepInv DEF DescribeFilm, MirrorInv, SeenIsNewest, Ended

LEMMA UploadKeepsInv ==
    ASSUME MirrorInv, NEW k \in Mirrors, UploadFilm(k)
    PROVE  MirrorInv'
<1> DEFINE f0 == Film(k)
           v == Seen(k)
           new == IF k = "pd" THEN WithEntry(k) ELSE [job[k] EXCEPT !.phase = "describing"]
<1> USE DEF MirrorInv
<1>1. job[k] \in Job /\ job[k].at <= Len(KeysOf[k]) /\ job[k].phase = "hosting"
  BY DEF UploadFilm, Looping, MirrorTypeOK
<1>2. f0 \in FilmsOf(k) /\ f0 \in Films
  BY <1>1, InHand
<1>3. v \in Nat /\ bucket[f0] <= v /\ v <= version[f0]
  BY <1>1, <1>2 DEF SeenIsNewest, Seen, Job, Versions, Ended
<1>4. bucket' \in Versions /\ \A f \in Films : bucket'[f] = IF f = f0 THEN v ELSE bucket[f]
  BY <1>2, <1>3 DEF UploadFilm, MirrorTypeOK, Versions
<1>5. \A f \in Films : bucket[f] <= bucket'[f]
  BY <1>3, <1>4 DEF MirrorTypeOK, Versions
<1>6. /\ new \in Job /\ new.phase \in {"hosting", "describing"} /\ new.seen = job[k].seen
      /\ new.phase = "describing" => new.at = job[k].at
      /\ \A f \in Films : new.films[f] = job[k].films[f] \/ (f = f0 /\ new.films[f] = v)
  <2>1. CASE k = "pd"
    BY <1>1, <2>1, EntryIsUploaded
  <2>2. CASE k # "pd"
    BY <1>1, <2>2 DEF Job, JobPhases
  <2>3. QED
    BY <2>1, <2>2
<1>7. job' = [job EXCEPT ![k] = new] /\ UNCHANGED <<version, studio>>
  BY DEF UploadFilm
<1> HIDE DEF new
<1>8. job'[k] = new /\ \A j \in Mirrors \ {k} : job'[j] = job[j]
  BY <1>7 DEF MirrorTypeOK
<1>9. MirrorTypeOK'
  BY <1>4, <1>6, <1>7 DEF MirrorTypeOK
<1>10. \A j \in Mirrors \ {k} : \A f \in FilmsOf(j) : f \in Films /\ f # f0
  BY <1>2, MirrorsShareNone DEF Mirrors
<1>11. ClonesNameUploaded'
  <2>1. ASSUME NEW f \in FilmsOf(k) PROVE new.films[f] <= bucket'[f]
    <3>1. f \in Films /\ job[k].films[f] \in Nat /\ bucket[f] \in Nat /\ bucket'[f] \in Nat
      BY <1>1, <1>4, MirrorsShareNone DEF Job, Versions, MirrorTypeOK
    <3>2. job[k].films[f] <= bucket[f]
      BY DEF ClonesNameUploaded
    <3>3. QED
      BY <1>3, <1>4, <1>5, <1>6, <3>1, <3>2
  <2>2. new.phase = "describing" =>
           /\ new.at <= Len(KeysOf[k])
           /\ Seen(k)' <= bucket'[Film(k)']
    <3>1. new.phase = "describing" => Film(k)' = f0 /\ Seen(k)' = v
      BY <1>6, <1>8 DEF Film, Seen
    <3>2. QED
      BY <1>1, <1>2, <1>3, <1>4, <1>6, <3>1
  <2>3. ASSUME NEW j \in Mirrors \ {k}
        PROVE  /\ \A f \in FilmsOf(j) : job'[j].films[f] <= bucket'[f]
               /\ job'[j].phase = "describing" =>
                    /\ job'[j].at <= Len(KeysOf[j])
                    /\ Seen(j)' <= bucket'[Film(j)']
    <3>1. Film(j)' = Film(j) /\ Seen(j)' = Seen(j)
      BY <1>8 DEF Film, Seen
    <3>2. job[j].phase = "describing" => Film(j) \in FilmsOf(j)
      BY InHand DEF ClonesNameUploaded
    <3>3. QED
      BY <1>4, <1>8, <1>10, <3>1, <3>2 DEF ClonesNameUploaded
  <2>4. QED
    BY <1>8, <2>1, <2>2, <2>3 DEF ClonesNameUploaded
<1>12. SeenIsNewest'
  <2>1. ASSUME NEW f \in FilmsOf(k)
        PROVE  bucket'[f] <= version[f] /\ bucket'[f] <= new.seen[f] /\ new.seen[f] <= version[f]
    <3>1. f \in Films
      BY MirrorsShareNone
    <3>2. bucket[f] <= version[f] /\ bucket[f] <= job[k].seen[f] /\ job[k].seen[f] <= version[f]
      BY <1>1 DEF SeenIsNewest, Ended
    <3>3. v = job[k].seen[f0]
      BY DEF Seen
    <3>4. QED
      BY <1>3, <1>4, <1>6, <3>1, <3>2, <3>3
  <2>2. QED
    BY <1>4, <1>7, <1>8, <1>10, <2>1 DEF SeenIsNewest
<1>13. StudioNamesUploaded'
  BY <1>4, <1>5, <1>7 DEF StudioNamesUploaded, MirrorTypeOK, Versions
<1>14. QED
  BY <1>9, <1>11, <1>12, <1>13

(***************************************************************************)
(* The workflow's steps.                                                   *)
(***************************************************************************)

LEMMA PushKeepsInv ==
    ASSUME MirrorInv, NEW k \in Mirrors, Push(k)
    PROVE  MirrorInv'
<1> USE DEF MirrorInv
<1> DEFINE gone == [NoJob EXCEPT !.phase = "green"]
<1>1. gone \in Job /\ gone.phase \in Ended /\ gone.phase # "describing" /\ gone.films = None
  BY NothingIsZero DEF Job, JobPhases, Ended, NoJob
<1>2. job' = [BehindBut(k) EXCEPT ![k] = gone] /\ UNCHANGED <<version, bucket>>
  BY DEF Push
<1> HIDE DEF gone
<1>3. /\ job' \in [Mirrors -> Job] /\ job'[k] = gone
      /\ \A j \in Mirrors \ {k} :
            /\ job'[j].phase = job[j].phase /\ job'[j].films = job[j].films
            /\ job'[j].seen = job[j].seen /\ job'[j].at = job[j].at
  BY <1>1, <1>2, BehindKeeps
<1>4. \A f \in Films : studio'[f] = IF f \in FilmsOf(k) THEN job[k].films[f] ELSE studio[f]
  BY DEF Push, FilmsOf
<1>5. MirrorTypeOK'
  <2>1. studio' \in Versions
    BY DEF Push, MirrorTypeOK, Versions, Job
  <2>2. QED
    BY <1>2, <1>3, <2>1 DEF MirrorTypeOK
<1>6. ClonesNameUploaded'
  <2>1. \A f \in FilmsOf(k) : gone.films[f] <= bucket[f]
    BY <1>1, MirrorsShareNone DEF None, MirrorTypeOK, Versions
  <2>2. QED
    BY <1>1, <1>2, <1>3, <2>1 DEF ClonesNameUploaded, Seen, Film
<1>7. SeenIsNewest'
  BY <1>1, <1>2, <1>3 DEF SeenIsNewest
<1>8. StudioNamesUploaded'
  BY <1>2, <1>4 DEF StudioNamesUploaded, ClonesNameUploaded
<1>9. QED
  BY <1>5, <1>6, <1>7, <1>8

LEMMA RebaseKeepsInv ==
    ASSUME MirrorInv, NEW k \in Mirrors, Rebase(k)
    PROVE  MirrorInv'
<1>1. PICK behind \in {FALSE, job[k].behind} :
         job' = [job EXCEPT ![k].phase = "pushing", ![k].attempt = @ + 1, ![k].behind = behind]
  BY DEF Rebase
<1> DEFINE new == [job[k] EXCEPT !.phase = "pushing", !.attempt = @ + 1, !.behind = behind]
<1>2. job[k] \in Job
  BY DEF MirrorInv, MirrorTypeOK
<1>3. /\ new \in Job /\ new.phase = "pushing"
      /\ new.films = job[k].films /\ new.seen = job[k].seen
  <2>1. "pushing" \in JobPhases /\ job[k].attempt + 1 \in Nat
    BY <1>2 DEF Job, JobPhases
  <2>2. job[k].behind \in BOOLEAN
    BY <1>2 DEF Job
  <2>3. behind \in BOOLEAN
    BY <2>2, Zenon
  <2>4. QED
    BY <1>2, <2>1, <2>3 DEF Job
<1>4. Moves(k, new)
  BY <1>1, <1>3 DEF Moves, Rebase
<1> HIDE DEF new
<1>5. QED
  BY <1>3, <1>4, MovesKeepInv DEF Rebase, MirrorInv, ClonesNameUploaded, SeenIsNewest, Ended

LEMMA MirrorNextInv == MirrorInv /\ [MirrorNext]_mirrorVars => MirrorInv'
<1> SUFFICES ASSUME MirrorInv, [MirrorNext]_mirrorVars
             PROVE  MirrorInv'
  OBVIOUS
<1>1. ASSUME NEW k \in Mirrors, FinishFilms(k) \/ Verify(k) \/ PushFails(k) \/ JobDies(k)
      PROVE  MirrorInv'
  BY <1>1, ToKeepsInv DEF FinishFilms, Verify, PushFails, JobDies, JobPhases, Ended
<1>2. ASSUME NEW k \in Mirrors,
             \/ StartMirror(k) \/ SkipFilm(k) \/ FailFilm(k) \/ UploadFilm(k)
             \/ DescribeFilm(k) \/ Push(k) \/ Rebase(k)
      PROVE  MirrorInv'
  BY <1>2, StartKeepsInv, PassKeepsInv, UploadKeepsInv, DescribeKeepsInv, PushKeepsInv,
     RebaseKeepsInv
<1>3. ASSUME NEW f \in Films, NewVersion(f)
      PROVE  MirrorInv'
  BY <1>3, NewsKeepsInv DEF NewVersion, MirrorInv, MirrorTypeOK, Versions
<1>4. CASE OthersPush
  BY <1>4, NewsKeepsInv DEF OthersPush, MirrorInv, MirrorTypeOK, Versions
<1>5. CASE UNCHANGED mirrorVars
  BY <1>5, NewsKeepsInv DEF mirrorVars, MirrorInv, MirrorTypeOK, Versions
<1>6. QED
  BY <1>1, <1>2, <1>3, <1>4, <1>5 DEF MirrorNext

\* The studio never tells of a version that was not uploaded, whatever fails, dies or
\* is pushed again: for any films, versions and number of attempts
\* (mirror_ai_films.mjs:166, mirror_public_domain.mjs:128).
THEOREM StudioIsUploaded == MirrorSpec => []StudioNamesUploaded
<1>1. MirrorInv => StudioNamesUploaded
  BY DEF MirrorInv
<1>2. QED
  BY MirrorInitInv, MirrorNextInv, <1>1, PTL DEF MirrorSpec

(***************************************************************************)
(* What a green run has shown.                                             *)
(***************************************************************************)

Late == {"verifying", "pushing", "rebasing"}

\* The clone of the run j has an entry of the stamp it saw, or the run has reported f.
Told(j, f) ==
    f \notin j.failed /\ j.seen[f] # 0 =>
        j.films[f] # 0 /\ Stamp(f, j.films[f]) = Stamp(f, j.seen[f])

\* It has told of every film that it is done with.
TellsAll(k, j) ==
    /\ \A i \in 1 .. Len(KeysOf[k]) : i < j.at => Told(j, KeysOf[k][i])
    /\ j.phase \in Late => j.at > Len(KeysOf[k])

RunsTellAll == \A k \in Mirrors : job[k].phase \notin Ended => TellsAll(k, job[k])

LEMMA JobTells ==
    ASSUME MirrorTypeOK, RunsTellAll, NEW k \in Mirrors, NEW new,
           job' = [job EXCEPT ![k] = new],
           new.phase \in Ended \/ TellsAll(k, new)
    PROVE  RunsTellAll'
<1>1. job'[k] = new /\ \A j \in Mirrors \ {k} : job'[j] = job[j]
  BY DEF MirrorTypeOK
<1>2. QED
  BY <1>1 DEF RunsTellAll

\* A job that ends, or goes on with the clone it has.
LEMMA ToTells ==
    ASSUME MirrorTypeOK, RunsTellAll, NEW k \in Mirrors, job[k].phase \notin Ended,
           NEW phase, To(k, phase),
           phase \in Late => job[k].at > Len(KeysOf[k])
    PROVE  RunsTellAll'
<1> DEFINE new == IF phase \in Ended THEN [NoJob EXCEPT !.phase = phase]
                  ELSE [job[k] EXCEPT !.phase = phase]
<1>1. job[k] \in Job
  BY DEF MirrorTypeOK
<1>2. phase \in Ended => new.phase \in Ended
  BY DEF NoJob
<1>3. phase \notin Ended => TellsAll(k, new)
  <2> SUFFICES ASSUME phase \notin Ended PROVE TellsAll(k, new)
    OBVIOUS
  <2>1. /\ new.phase = phase /\ new.at = job[k].at /\ new.seen = job[k].seen
        /\ new.films = job[k].films /\ new.failed = job[k].failed
    BY <1>1 DEF Job
  <2> HIDE DEF new
  <2>2. QED
    BY <2>1 DEF RunsTellAll, TellsAll, Told
<1>4. job' = [job EXCEPT ![k] = new]
  BY DEF To
<1> HIDE DEF new
<1>5. QED
  BY <1>2, <1>3, <1>4, JobTells

\* A run passes to the next film when it has told of the one in hand.
LEMMA NextFilmTells ==
    ASSUME MirrorTypeOK, RunsTellAll, NEW k \in Mirrors, NEW new,
           job' = [job EXCEPT ![k] = new],
           job[k].phase \in {"hosting", "describing"}, new.phase = "hosting",
           new.at = job[k].at + 1, new.seen = job[k].seen,
           Told(new, Film(k)),
           \A f \in FilmsOf(k) : f # Film(k) =>
               /\ new.films[f] = job[k].films[f]
               /\ f \in job[k].failed => f \in new.failed
    PROVE  RunsTellAll'
<1>1. job[k].at \in Nat /\ job[k].phase \notin Ended
  BY DEF MirrorTypeOK, Job, Ended
<1>2. KeysOf[k] \in Seq(Films)
  BY MirrorAssumption DEF KeysOf, Mirrors
<1>3. ASSUME NEW i \in 1 .. Len(KeysOf[k]), i < new.at
      PROVE  Told(new, KeysOf[k][i])
  <2>1. CASE KeysOf[k][i] = Film(k)
    BY <2>1
  <2>2. CASE KeysOf[k][i] # Film(k)
    <3>1. i # job[k].at
      BY <2>2 DEF Film
    <3>2. i < job[k].at
      BY <1>1, <1>3, <3>1
    <3>3. Told(job[k], KeysOf[k][i])
      BY <1>1, <3>2 DEF RunsTellAll, TellsAll
    <3>4. KeysOf[k][i] \in FilmsOf(k)
      BY <1>2 DEF FilmsOf, Range
    <3>5. QED
      BY <2>2, <3>3, <3>4 DEF Told
  <2>3. QED
    BY <2>1, <2>2
<1>4. TellsAll(k, new)
  BY <1>3 DEF TellsAll, Late
<1>5. QED
  BY <1>4, JobTells

LEMMA PassTells ==
    ASSUME MirrorInv, RunsTellAll, NEW k \in Mirrors, SkipFilm(k) \/ FailFilm(k)
    PROVE  RunsTellAll'
<1> DEFINE new == [job[k] EXCEPT !.phase = "hosting", !.at = @ + 1,
                                 !.failed = IF SkipFilm(k) THEN @ ELSE @ \cup {Film(k)}]
<1>1. job[k] \in Job /\ MirrorTypeOK
  BY DEF MirrorInv, MirrorTypeOK
<1>2. job[k].phase \in {"hosting", "describing"}
  BY DEF SkipFilm, FailFilm, Looping
<1>3. /\ new.phase = "hosting" /\ new.at = job[k].at + 1
      /\ new.films = job[k].films /\ new.seen = job[k].seen
      /\ new.failed = IF SkipFilm(k) THEN job[k].failed ELSE job[k].failed \cup {Film(k)}
  BY <1>1 DEF Job
<1>4. job' = [job EXCEPT ![k] = new]
  <2>1. CASE SkipFilm(k)
    BY <1>1, <2>1 DEF SkipFilm, Looping, Job
  <2>2. CASE ~ SkipFilm(k)
    BY <2>2 DEF FailFilm
  <2>3. QED
    BY <2>1, <2>2
<1> HIDE DEF new
<1>5. Told(new, Film(k))
  <2>1. CASE SkipFilm(k)
    BY <1>3, <2>1 DEF Told, SkipFilm, AlreadyHosted, Seen, Entry
  <2>2. CASE ~ SkipFilm(k)
    BY <1>3, <2>2 DEF Told
  <2>3. QED
    BY <2>1, <2>2
<1>6. \A f \in FilmsOf(k) : f \in job[k].failed => f \in new.failed
  BY <1>3
<1>7. QED
  BY <1>1, <1>2, <1>3, <1>4, <1>5, <1>6, NextFilmTells

LEMMA EntryTells ==
    ASSUME MirrorInv, RunsTellAll, NEW k \in Mirrors,
           job[k].phase \in {"hosting", "describing"}, job[k].at <= Len(KeysOf[k]),
           job' = [job EXCEPT ![k] = WithEntry(k)]
    PROVE  RunsTellAll'
<1> DEFINE new == WithEntry(k)
<1>1. job[k] \in Job /\ MirrorTypeOK
  BY DEF MirrorInv, MirrorTypeOK
<1>2. new.at = job[k].at + 1 /\ new.failed = job[k].failed
  BY <1>1 DEF WithEntry, Job
<1>3. /\ new.phase = "hosting" /\ new.seen = job[k].seen
      /\ \A f \in Films : new.films[f] = IF f = Film(k) THEN Seen(k) ELSE job[k].films[f]
  BY <1>1, EntryIsUploaded
<1> HIDE DEF new
<1>4. Film(k) \in Films
  BY <1>1, InHand
<1>5. Told(new, Film(k))
  BY <1>3, <1>4 DEF Told, Seen
<1>6. \A f \in FilmsOf(k) : f # Film(k) =>
        new.films[f] = job[k].films[f] /\ (f \in job[k].failed => f \in new.failed)
  BY <1>2, <1>3, MirrorsShareNone
<1>7. job' = [job EXCEPT ![k] = new]
  BY DEF new
<1>8. QED
  BY <1>1, <1>2, <1>3, <1>5, <1>6, <1>7, NextFilmTells

LEMMA UploadTells ==
    ASSUME MirrorInv, RunsTellAll, NEW k \in Mirrors, UploadFilm(k) \/ DescribeFilm(k)
    PROVE  RunsTellAll'
<1>1. CASE k = "pd" \/ DescribeFilm(k)
  BY <1>1, EntryTells DEF UploadFilm, DescribeFilm, Looping, MirrorInv, ClonesNameUploaded
<1>2. CASE k # "pd" /\ ~ DescribeFilm(k)
  <2>1. To(k, "describing") /\ job[k].phase = "hosting"
    BY <1>2 DEF UploadFilm, Looping, To, Ended
  <2>2. QED
    BY <2>1, ToTells DEF MirrorInv, Ended, Late
<1>3. QED
  BY <1>1, <1>2

LEMMA StartTells ==
    ASSUME MirrorInv, RunsTellAll, NEW k \in Mirrors, StartMirror(k)
    PROVE  RunsTellAll'
<1> DEFINE new == [NoJob EXCEPT !.phase = "hosting", !.seen = version, !.films = studio]
<1>1. new.phase = "hosting" /\ new.at = 1
  BY DEF NoJob
<1>2. job' = [job EXCEPT ![k] = new]
  BY DEF StartMirror
<1> HIDE DEF new
<1>3. TellsAll(k, new)
  BY <1>1 DEF TellsAll, Late
<1>4. QED
  BY <1>2, <1>3, JobTells DEF MirrorInv

LEMMA RebaseTells ==
    ASSUME MirrorInv, RunsTellAll, NEW k \in Mirrors, Rebase(k)
    PROVE  RunsTellAll'
<1>1. PICK behind \in {FALSE, job[k].behind} :
         job' = [job EXCEPT ![k].phase = "pushing", ![k].attempt = @ + 1, ![k].behind = behind]
  BY DEF Rebase
<1> DEFINE new == [job[k] EXCEPT !.phase = "pushing", !.attempt = @ + 1, !.behind = behind]
<1>2. job[k] \in Job /\ job[k].phase = "rebasing" /\ MirrorTypeOK
  BY DEF MirrorInv, MirrorTypeOK, Rebase
<1>3. /\ new.phase = "pushing" /\ new.at = job[k].at /\ new.seen = job[k].seen
      /\ new.films = job[k].films /\ new.failed = job[k].failed
  BY <1>2 DEF Job
<1>4. job' = [job EXCEPT ![k] = new]
  BY <1>1
<1> HIDE DEF new
<1>5. TellsAll(k, new)
  BY <1>2, <1>3 DEF RunsTellAll, TellsAll, Told, Late, Ended
<1>6. QED
  BY <1>2, <1>4, <1>5, JobTells

\* News of the branch changes nothing that a run tells of.
LEMMA BehindTells ==
    ASSUME MirrorTypeOK, RunsTellAll, NEW k, NEW j \in Mirrors, job[j].phase \notin Ended
    PROVE  TellsAll(j, BehindBut(k)[j])
<1>1. TellsAll(j, job[j])
  BY DEF RunsTellAll
<1> DEFINE new == BehindBut(k)[j]
<1>2. /\ new.phase = job[j].phase /\ new.at = job[j].at /\ new.seen = job[j].seen
      /\ new.films = job[j].films /\ new.failed = job[j].failed
  BY BehindKeeps
<1> HIDE DEF new
<1>3. TellsAll(j, new)
  BY <1>1, <1>2 DEF TellsAll, Told
<1>4. QED
  BY <1>3 DEF new

LEMMA NewsTells ==
    ASSUME MirrorTypeOK, RunsTellAll, job' = BehindBut("nobody") \/ job' = job
    PROVE  RunsTellAll'
BY BehindKeeps, BehindTells DEF RunsTellAll

LEMMA PushTells ==
    ASSUME MirrorInv, RunsTellAll, NEW k \in Mirrors, Push(k)
    PROVE  RunsTellAll'
<1>1. MirrorTypeOK /\ BehindBut(k) \in [Mirrors -> Job]
  BY BehindKeeps DEF MirrorInv
<1>2. /\ job'[k].phase \in Ended
      /\ \A j \in Mirrors \ {k} : job'[j] = BehindBut(k)[j]
  BY <1>1 DEF Push, NoJob, Ended
<1>3. QED
  BY <1>1, <1>2, BehindKeeps, BehindTells DEF RunsTellAll

LEMMA RunsTellNext == MirrorInv /\ RunsTellAll /\ [MirrorNext]_mirrorVars => RunsTellAll'
<1> SUFFICES ASSUME MirrorInv, RunsTellAll, [MirrorNext]_mirrorVars
             PROVE  RunsTellAll'
  OBVIOUS
<1>1. MirrorTypeOK /\ \A k \in Mirrors : job[k].at \in Nat /\ Len(KeysOf[k]) \in Nat
  <2>1. \A k \in Mirrors : KeysOf[k] \in Seq(Films)
    BY MirrorAssumption DEF KeysOf, Mirrors
  <2>2. QED
    BY <2>1 DEF MirrorInv, MirrorTypeOK, Job
<1>2. ASSUME NEW k \in Mirrors, FinishFilms(k) \/ JobDies(k)
      PROVE  RunsTellAll'
  BY <1>1, <1>2, ToTells DEF FinishFilms, JobDies, Ended, Late
<1>3. ASSUME NEW k \in Mirrors, Verify(k) \/ PushFails(k)
      PROVE  RunsTellAll'
  <2>1. job[k].phase \in Late /\ job[k].phase \notin Ended
    BY <1>3 DEF Verify, PushFails, Late, Ended
  <2>2. job[k].at > Len(KeysOf[k])
    BY <2>1 DEF RunsTellAll, TellsAll
  <2>3. QED
    BY <1>1, <1>3, <2>1, <2>2, ToTells DEF Verify, PushFails
<1>4. ASSUME NEW k \in Mirrors,
             \/ StartMirror(k) \/ SkipFilm(k) \/ FailFilm(k) \/ UploadFilm(k)
             \/ DescribeFilm(k) \/ Push(k) \/ Rebase(k)
      PROVE  RunsTellAll'
  BY <1>4, StartTells, PassTells, UploadTells, PushTells, RebaseTells
<1>5. CASE (\E f \in Films : NewVersion(f)) \/ OthersPush \/ UNCHANGED mirrorVars
  BY <1>1, <1>5, NewsTells DEF NewVersion, OthersPush, mirrorVars
<1>6. QED
  BY <1>2, <1>3, <1>4, <1>5 DEF MirrorNext

\* Only a comparison and a push turn a run green.
LEMMA GreenByTwo ==
    ASSUME MirrorInv, [MirrorNext]_mirrorVars, NEW k \in Mirrors,
           job'[k].phase = "green", job[k].phase # "green"
    PROVE  \/ Verify(k) /\ Unchanged(k)
           \/ Push(k)
<1>1. job \in [Mirrors -> Job]
  BY DEF MirrorInv, MirrorTypeOK
<1>2. ASSUME NEW j \in Mirrors, NEW new, job' = [job EXCEPT ![j] = new], j # k \/ new.phase # "green"
      PROVE  FALSE
  BY <1>1, <1>2
<1>3. ASSUME NEW j \in Mirrors, NEW phase, To(j, phase), j # k \/ phase # "green"
      PROVE  FALSE
  BY <1>1, <1>3 DEF To, NoJob, Job
<1>4. ~ \E j \in Mirrors : FinishFilms(j) \/ PushFails(j) \/ JobDies(j)
  BY <1>3 DEF FinishFilms, PushFails, JobDies
<1>5. ~ \E j \in Mirrors : StartMirror(j) \/ SkipFilm(j) \/ FailFilm(j) \/ Rebase(j)
  <2>1. ~ \E j \in Mirrors : StartMirror(j)
    BY <1>1 DEF StartMirror, NoJob
  <2>2. ~ \E j \in Mirrors : SkipFilm(j)
    BY <1>1 DEF SkipFilm, Looping, Job
  <2>3. ~ \E j \in Mirrors : FailFilm(j)
    BY <1>1 DEF FailFilm, Job
  <2>4. ASSUME NEW j \in Mirrors, Rebase(j) PROVE FALSE
    <3>1. PICK behind : job' = [job EXCEPT ![j].phase = "pushing", ![j].attempt = @ + 1,
                                           ![j].behind = behind]
      BY <2>4 DEF Rebase
    <3> DEFINE new == [job[j] EXCEPT !.phase = "pushing", !.attempt = @ + 1, !.behind = behind]
    <3>2. job' = [job EXCEPT ![j] = new] /\ new.phase = "pushing"
      BY <1>1, <3>1 DEF Job
    <3> HIDE DEF new
    <3>3. QED
      BY <1>2, <3>2
  <2>5. QED
    BY <2>1, <2>2, <2>3, <2>4
<1>6. ~ \E j \in Mirrors : UploadFilm(j) \/ DescribeFilm(j)
  BY <1>1 DEF UploadFilm, DescribeFilm, WithEntry, Looping, Job
<1>7. job' # job /\ job' # BehindBut("nobody")
  BY BehindKeeps DEF MirrorInv
<1>8. ~ (\E f \in Films : NewVersion(f)) /\ ~ OthersPush /\ ~ UNCHANGED mirrorVars
  BY <1>7 DEF NewVersion, OthersPush, mirrorVars
<1>9. PICK j \in Mirrors : Verify(j) \/ Push(j)
  BY <1>4, <1>5, <1>6, <1>8 DEF MirrorNext
<1>10. CASE Push(j)
  <2>1. j # k => job'[k] = BehindBut(j)[k]
    BY <1>10, BehindKeeps DEF Push, MirrorInv
  <2>2. QED
    BY <1>10, <2>1, BehindKeeps DEF MirrorInv
<1>11. CASE Verify(j)
  BY <1>3, <1>11 DEF Verify
<1>12. QED
  BY <1>9, <1>10, <1>11

LEMMA GreenTells ==
    ASSUME MirrorInv, RunsTellAll, [MirrorNext]_mirrorVars, NEW k \in Mirrors,
           job'[k].phase = "green", job[k].phase # "green",
           NEW f \in Range(KeysOf[k]) \ job[k].failed, job[k].seen[f] # 0
    PROVE  studio'[f] # 0 /\ Stamp(f, studio'[f]) = Stamp(f, job[k].seen[f])
<1>1. (Verify(k) /\ Unchanged(k)) \/ Push(k)
  BY GreenByTwo
<1>2. job[k].phase \in Late /\ job[k].phase \notin Ended
  BY <1>1 DEF Verify, Push, Late, Ended
<1>3. f \in Films
  BY MirrorsShareNone DEF FilmsOf
<1>4. studio'[f] = job[k].films[f]
  BY <1>1, <1>3 DEF Verify, Unchanged, Push
<1>5. KeysOf[k] \in Seq(Films)
  BY MirrorAssumption DEF KeysOf, Mirrors
<1>6. PICK i \in 1 .. Len(KeysOf[k]) : f = KeysOf[k][i]
  BY <1>5 DEF Range
<1>7. job[k].at \in Nat /\ job[k].at > Len(KeysOf[k])
  BY <1>2 DEF RunsTellAll, TellsAll, MirrorInv, MirrorTypeOK, Job
<1>8. Told(job[k], f)
  BY <1>2, <1>5, <1>6, <1>7 DEF RunsTellAll, TellsAll
<1>9. QED
  BY <1>4, <1>8 DEF Told

\* A run that ends green left no film behind that it saw and did not report: not to a
\* rejected push, a rebase or a diff taken for nothing to do, with any number of films
\* and attempts (git_push_retry.sh:51, mirror_public_domain.mjs:194).
THEOREM GreenRunsShow == MirrorSpec => GreenIsShown
<1> DEFINE Shows ==
        \A k \in Mirrors : job'[k].phase = "green" /\ job[k].phase # "green" =>
            \A f \in Range(KeysOf[k]) \ job[k].failed :
                job[k].seen[f] # 0 =>
                    /\ studio'[f] # 0
                    /\ Stamp(f, studio'[f]) = Stamp(f, job[k].seen[f])
<1>1. MirrorInit => MirrorInv /\ RunsTellAll
  BY MirrorInitInv DEF MirrorInit, RunsTellAll, NoJob, Ended
<1>2. MirrorInv /\ RunsTellAll /\ [MirrorNext]_mirrorVars => (MirrorInv /\ RunsTellAll)'
  BY MirrorNextInv, RunsTellNext
<1>3. MirrorInv /\ RunsTellAll /\ [MirrorNext]_mirrorVars => [Shows]_mirrorVars
  BY GreenTells
<1>4. QED
  BY <1>1, <1>2, <1>3, PTL DEF MirrorSpec, GreenIsShown
==============================================================================
