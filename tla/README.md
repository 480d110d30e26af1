# Formal models of cloudflare-automation

TLA+ models of the code of this repository that keeps state: the Workers under
`workers/`, the CDN warmer under `api/_cdn-warmer/`, and the operator scripts
under `scripts/` that change something. Each module is translated from the source, and the
`map` of `PROJECT.json` names the lines every definition stands for. TLC checks
small instances; TLAPS proves the most important safety properties for every
value of the constants.

To check one run: `tlc -workers 2 -config <file>.cfg <module>.tla`, with the
pairs of the table under "Runs". To check the proofs: `tlapm <Module>Proofs.tla`.

## 1. Inventory

### What the system is

| part | source | state | operations |
|---|---|---|---|
| site-host | `workers/site-host/src/{index,visibility,notFound}.mjs` | R2 `ontold-sites`: `sites/<slug>/index.html`, `sites/<slug>/versions/<ts>.html`, subpages and assets, `visibility/<slug>`, `domains/<host>`, `leads/<slug>/<ts>` | publish a site, a page, an asset; serve; set visibility; sitemap; map and unmap a domain; record and read leads |
| MCP publish | `workers/mcp/src/tools.mjs` | the same bucket | `publish` |
| MCP protocol, `generate` | `workers/mcp/src/{index,protocol,tools}.mjs` | KV `RATE` (`mcp:`, `mcp-generate:` windows); GitHub's queue of workflow runs | POST /mcp of one call or a batch; `generate`, `status`, and the pure tools |
| MCP notify | `workers/mcp/src/{notify,notifyTicket,notifyAuth,mailMessage}.mjs` | R2 `PROVENANCE` under `notify/tickets/` | POST /notify, /notify/ticket, /notify/ready |
| provenance store | `workers/mcp/src/{provenance,provenanceRoutes}.mjs`, `api/_provenanceStore.py` | R2 `PROVENANCE` under `provenance/`; KV `RATE` under `nonce:` | put, get, issue a nonce, list |
| agents | `workers/mcp/src/{consent,agentSandbox}.mjs`, `api/_consent.py` | a cache of isolates; the caller's count of contacts | decide a contact, mint an isolate |
| CDN warmer | `api/_cdn-warmer/src/warmer.ts` | KV `DERIVE_LOG`, `WARM_LOG`, `HIT_LOG` | POST /derive-variant, /derive-result, /record-hit; the cron's run; GET /warm-now |
| wallet signer | `workers/wallet-signer/src/index.mjs` | none (keys derive from one seed) | sign an authorization under a cap |
| bearer secrets | `api/_secrets.py`, `workers/mcp/src/notifyAuth.mjs`, scripts | the environment | derive and accept |
| mail of a zone | `scripts/{email_routing,inbound_switch,restore_inbound}.py` | the zone's MX records and routing rules | enable routing, switch, restore |
| token policies | `scripts/grant_email_permissions.py`, `scripts/mint_*.mjs` | one API token's policy list; short-lived tokens | grant, mint, burn |
| Vercel environment | `scripts/vercel_env_sync.py` | the project's environment rows | sync a name over targets |
| site repositories | `scripts/publish_site_repo.mjs` | files, branch and tags of one repository | publish a version |
| film mirrors | `scripts/{mirror_ai_films,mirror_public_domain}.mjs`, `scripts/git_push_retry.sh` and their workflows | R2 objects of films; the studio branch's `films.json` | mirror, commit, push with rebase |
| the rest | audits, `unhost_brief_films.mjs`, `brand.mjs`, `landing.mjs`, workflows | files and reports | sequential I/O, pure text, declarations |

### How the parts meet

* site-host and the MCP `publish` write the **same keys** of `ontold-sites`,
  with no lock and with opposite ideas of history: site-host puts the *new* page
  under `versions/` before it goes live, the MCP copies the *old* one when it
  is told to overwrite.
* A visit to a site reads visibility, candidate keys and perhaps a listing, one
  await after the other, while both of them write.
* The MCP protocol counts in the KV namespace `RATE`, which also holds the
  provenance nonces. KV is eventually consistent: a read may be behind.
* `generate` reaches GitHub Actions over HTTP; its answer may be lost. The run
  it starts later posts to the warmer and to /notify/ready.
* The warmer's three logs are shared by the cron's run, by GET /warm-now (which
  may run at the same time), and by the posts. Its writes ride `ctx.waitUntil`.
* A customer's domain is one R2 object that every request of site-host on a
  foreign host reads, and /__domain rewrites.
* The scripts each read a service, decide, and then make one call after another:
  three scripts over one zone's mail; two mirrors over one branch; runs of the
  Vercel sync and of a site's repository that nothing keeps apart.
* The sandbox meets its callers only through a warm isolate kept by id, the signer
  its deploys only through authorizations signed before them.

### What is hard in it

Everything is a handler that awaits a store with no transaction. So: check
and write apart (`publish`, `put`, `withinLimit`, ticket redemption, the stamp
of a derive); handlers of the same key in flight together; a Worker that dies
between two puts; reads that are behind; writes that land late or never;
answers that are lost; queues and listings that are cut. `PROJECT.json` lists
these hazards at their lines with the properties that would catch each going
wrong.

### What makes each part correct

* **publishing**: what site-host puts live has its copy in the history,
  whatever crashes, until a page is put at the path of that copy; `unchanged` is
  said only of a page that has one; without `overwrite` a live page is replaced
  only after a race; a replaced page is kept whenever the code claims to keep it.
* **serving**: an answer is right for *some moment of the visit*, of the page
  and of the visibility; a site live throughout is never reported missing;
  a page that is served says whether it is unlisted; the sitemap offers what was
  public and omits nothing that was, as far as its listings reach.
* **spending**: no caller is refused on another's account or out of another
  window; the cap holds in the windows where it can; with nowhere to count
  nothing is spent.
* **notify**: a ticket mails once and only while fresh; a route with no
  secret sends and stores nothing.
* **provenance**: nothing stored is overwritten; only the holder of a key lists
  it; a nonce lists once; a listing misses nothing.
* **warming**: a stamp means the output was warmed; a finished render is
  eventually warmed; the canonical list stays warm; nothing is warmed twice
  within the hysteresis by orderly runs; an entry is predicted exactly when its
  hits of the last hours are enough, as far as counting without locks allows.
* **domains and leads**: a request works on a site its host meant while it was
  in flight; an answered lead is kept and only its site's inbox shows it.
* **site repositories**: a run left alone tags what it published; tags are never
  lost and leave no gap.
* **mirrors**: the studio never tells of a film that was not uploaded; a green
  run left nothing out that it did not report.
* **the sandbox**: an isolate reaches only hosts that the same person agreed to on
  the same channel; callers who take turns and obey keep to a day's ceiling.
* **the signer**: a payment that settles was within a mandate in force shortly
  before, at the scale its request named for the asset.
* **mail, secrets, token**: a run that exits 0 did what it says, whatever it found
  and whatever failed on the way; a grant removes and reorders nothing.

## 2. Modules

| module | models | state → code |
|---|---|---|
| `SitePublish` | PUT /__publish with its page lane, and the MCP `publish`, of one slug | `index`, `versions`, `subpages` are R2 keys; `req` holds the locals of each request between awaits; `clock` is `Date.now()`; `writes` and `paged` (the version keys the page lane wrote last) are history |
| `SiteServe` (extends it) | GET of a page, asset or missing address; PUT /__visibility; the sitemap | `visibility` is `visibility/<slug>`; `visit`, `crawl` are the locals of a reader; `Ahead` is how many keys of other sites a listing meets first; `moments` is history: the states of the site since the reader arrived |
| `McpSpend` | POST /mcp of `generate` calls | `used` is `RATE`, `edge` what a read behind returns; `check` is one call of `withinLimit` and the call behind it; `queued` is GitHub's queue; `admitted`, `serial` are history |
| `McpNotify` | the three /notify routes | `tickets` is R2, a ticket its `createdAt`; `request` the locals; `mailed` what the mail binding took; `shared` is history: tickets that two redemptions held at once |
| `RecordStore` | abstract: what the provenance store promises | `stored`, and per listing `base` and `answer` |
| `Provenance` (implements it) | put, issueNonce, listRecords | `stored` is R2, `issuedTo` and `edge` are KV; `writer`, `lister` the locals; `contested`, `base`, `loose`, `minted` are history |
| `CdnWarmer` | the derive posts, the runs, their worker loops, the writes left to `waitUntil` | `derive`, `warmLog` are KV; `derivePuts`, `marks`, `warmPuts` are writes under way; `tick` a run's locals; the rest is history and bounds |
| `CdnHits` | POST /record-hit and the predictor of a run | `buckets` is `HIT_LOG`; `hit` and `predictor` the locals of a post and of a run; `entangled` is history: buckets that posts held together or that lie ahead of the clock |
| `SiteInbox` | /__domain, /__lead, /__leads, and the host resolution of every other lane | `domains`, `leads` are R2 keys; `req` the locals; `attached`, `meant` are history: what a host was told to mean |
| `SiteRepo` | `publish_site_repo.mjs` for one site | `template`, `live`, `archive` are repositories with a tree and the trees of their tags; `run` the locals of a run |
| `AssetMirror` | the two mirrors with their workflows, and `git_push_retry.sh` | `version` is what there is to mirror, `bucket` R2, `studio` the branch's `films.json`; `job` the runner with its clone |
| `InboundMail` | `email_routing.py`, `inbound_switch.py`, `restore_inbound.py` over one zone | `routing`, `mx`, `rule`, `destination` are the zone; `script` the locals |
| `EnvSync` | `vercel_env_sync.py --apply` for one name | `rows` are the project's rows of it; `sync` the locals |
| `TokenPolicy` | `grant_email_permissions.py --apply` | `policies` is the token's list; `grant` the locals; `edits` bounds the dashboard |
| `AgentSandbox` | `mayContact`, `mintAgent`, the outbound proxy | `warm` is the Loader's cache; `attempt` the locals of a caller and its mint; `reached` is history |
| `WalletSigner` | a signature from mandate to settlement | `env` is the deployed environment; `signed`, `settled` authorizations; `CapAtomic` is a cap in an asset's atomic units; `inForce` is history, as are the decimals an authorization keeps |
| `*Proofs` | theorems about the module they are named after; `SiteServeProofs` also about `SitePublish`, `CdnWarmerProofs` also about `CdnHits`, `EstateProofs` about `WalletSigner`, `TokenPolicy`, `EnvSync`, `InboundMail`, `AgentSandbox` and `AssetMirror` | |
| `MC*` | instances for TLC | |

Conventions. An action is the stretch of a handler from one await to the next,
with every early return on the way as an action of its own. A request that may
have died is `crashed`, `gone` or not `alive`: the runtime may stop a Worker,
and a binding may throw, at any await. History variables never guard an action;
they serve the properties. A definition introduced by a comment "Mutant:" is a
variant with a plausible bug; the property paired with it in `PROJECT.json`
fails when it replaces the definition, which shows that the property depends
on that definition.

### Abstractions worth knowing

* One slug: sites share no key, so `SitePublish` has one.
  A page stands for its own SHA-256 (no collisions).
* A path under `/__publish/` may be `versions/<digits>`, so the page lane writes
  version keys too (`HostPutVersionPage`), at any stamp of the instance. A stamp that no
  publish takes is one of them, and stands for all others. Such a key may also be visited
  as a page of the site; visits of the model are of other paths.
* The sitemap's listings are one page each of the keys of all sites. How many keys of
  other sites come before this one's is any number of `Ahead`, chosen anew for each
  listing; past the limit the listing is `cut`, and says nothing of this site.
* What a subpath holds is told apart only as far as serving does: by its extension
  (`Assets`), and by whether it is stored as text/html (`Files` are not).
* All refusals before the first await on a store are one action (`Reject`,
  `Refuse`, `Unverified`), since they change nothing.
* `SitePublish.TakeDown` removes the live page by hand: no code does, but
  `notFound.mjs` has an answer (410) for its result, and R2 allows it.
* An MCP overwrite reads the page and stamps its copy in one step: no other
  await separates the two. site-host stamps after an awaited hash, so
  `HostStamp` is a step of its own.
* `McpSpend` takes the *minute* when the check reads. The code computes it right
  before that await. The general window and the render window are one kind of
  check with two limits, as in the code.
* `McpNotify` identifies an address with the ticket that holds it. An
  unreadable ticket is as good as an expired one, as in `isFresh`.
* `Provenance` orders ids by number; R2 lists keys in order, a cursor naming
  the last one returned. R2 is strongly consistent. An Ed25519 signature is a
  Boolean: it proves the key or it does not. Two different records of one key
  need a forged id.
* `CdnWarmer` takes KV at its best (a landed write is read by all) and counts
  time as what is left of the hysteresis. The hit predictor may name any sequence
  of the popular entries; `CdnHits` says which it names. The listing of derives
  reads the keys at one moment and the records one after the other, as the code
  does.
* `SiteInbox`: what a request does once it has resolved its host, other than with
  leads, is the other modules' affair: it has `reached` the site. A domain is
  mapped to any slug a site could have, published or not, as in the code.
* `SiteRepo` gives every file the content of the run that wrote it. A version's
  badge goes with the README that names it. A repository renamed aside frees its
  name at once; GitHub's redirects from an old name are not modelled.
* `AssetMirror`: a cut, its poster and the sources tried end in one outcome, done
  or failed. A runner that dies takes its clone along. People push to the branch.
* `InboundMail`: Cloudflare's side is external: it refuses to enable routing
  beside another provider's MX, puts its own records, and may put them back while
  routing is on. Any call may fail, at which each script goes on as it does.
* `EnvSync`: one name, since rows of two names never meet; Vercel refuses a row
  over a target that has one.
* `TokenPolicy`: what a probe of the token reaches is anything at all.
* `AgentSandbox`: a caller may run what it was handed whether or not it is
  allowed, since `mintAgent` hands out an isolate either way; an isolate may
  ask for any host, as the code supposes of model-authored code.
* `WalletSigner`: a cap is in dollars, an amount in the asset's atomic units, and
  `CapAtomic` rounds the one to the other at the decimals that the *request* claims, USDC's
  if it claims none. Of the scale only its monotonicity in the decimals is assumed. Decimals
  that are no number throw where there is a cap, and sign nothing. The
  keys themselves are left out. An authorization is settled by somebody else,
  at any moment of its validity.

## 3. Runs

| run | cfg | what it shows | bounds |
|---|---|---|---|
| `publish` | MCSitePublish.cfg | history and collision promises | 2 site-host (or pages of the page lane) and 1 MCP publish, 2 pages, 3 timestamps |
| `serve` | SiteServe.cfg | a reader is told what was true during the reading | 1 publisher of each kind, 1 reader, 1 subpage and 1 file, listing of 1; a sitemap's listing of 1, with 0 or 1 keys ahead |
| `inbox` | SiteInbox.cfg | leads go to, and are shown to, the site their host meant | 2 customers and the apex, 1 domain, 3 leads, 1 inbox; listing of 2, answer of 1, 3 moments |
| `site_repo` | SiteRepo.cfg | what a tag records, and which tags there are | 3 publishes (1 with a spec, 1 with media, 2 that recreate), 2 at a time, a page of 2 tags |
| `estate` | Estate.cfg | the components that share nothing with any other | see below |
| `spend` | SpendWindows.cfg | who may be refused, when the caps hold, fail-closed spend | 2 POSTs of at most 2 renders, both limits 1, 2 minutes, reads behind |
| `notify` | Notify.cfg | how often, until when and for whom a ticket mails | 4 requests, 2 ids, lifetime 2, clock to 2 |
| `provenance` | Provenance.cfg | `Provenance` implements `RecordStore`; nonces and ownership | 2 stores of 3 records (two contend), 2 listings, 1 nonce, 1 id a page |
| `warmer_runs` | WarmerRuns.cfg | hysteresis across two runs | 1 entry from three sources, 1 derive, 2 runs, 3 posts, 1 fault |
| `warmer_liveness` | WarmerLiveness.cfg | stamps, and progress under fairness | 2 entries (1 unreachable), 2 derives, 4 posts, 1 fault |
| `taken_by_page` | TakenByPage.cfg | a page at the path `index` takes a live slug (violation) | 2 site-host requests |
| `generation_cap` | SpendCap.cfg | one POST starts two renders under a cap of one (violation) | 1 POST of 2, no read behind |

`estate` follows one of seven components in each of its behaviours: `MCEstate`
chooses its `part` in the initial state and only that one moves. They share no
variable and no store, so a behaviour of all is an interleaving of behaviours of
each, and a property that reads one component's variables holds of the
interleaving when it holds of the component. Their states then add up instead of
multiplying.

| part | property | bounds |
|---|---|---|
| mirror | `StudioNamesUploaded`, `GreenIsShown` | 2 rendered films (of 2 takes and of 1), 1 archive film whose 2 versions have one stamp; 2 attempts to push |
| mail | `ZeroMeansDone` | 2 records of the provider, 1 of Cloudflare, 1 of a third; the three scripts, each as often as it likes |
| sync | `GreenIsSynced` | 3 runs over 3 targets, two of them meeting at one, one with no value; any rows found |
| policy | `GrantOnlyAdds` | 3 groups of two scopes, 3 lists the token may be found with, 1 edit in the dashboard |
| sandbox | `ReachWasAgreed`, `TurnsKeepTheCeiling` | 2 consents (1 verifies) of two channels each, a ceiling of 1, 2 contacts |
| wallet | `SettledWasMandated` | 1 worker and the platform, amounts and caps of 5 and 20 (tenths of a dollar), 3 environments, claims of 0, 1, 2 decimals, none, or no number; validity 2, 1 signature, clock to 3 |
| hits | `PredictionIsEarned` | 3 hits of 1 entry, threshold 2, hours of 2 moments, times named an hour off, a listing of 2 buckets |

Why the bounds are enough. Every interaction the properties speak of is of two
requests (a race, an overlap, a shared stamp), and a third is there where a
bystander matters: the MCP publish between two of site-host, a third redemption
of one ticket. Caps are 1 and limits 1 or 2 so that reaching them takes few
steps and passing them is possible; clocks reach just past the boundary (a
ticket of no age, half its lifetime and all of it; two rate windows; as many
timestamps as requests that take one, so that they may collide and may not).
In `spend` one POST of two items and another beside it give three checks of one
render bucket. In `provenance` a page of one id makes every listing of two ids
span two pages, with stores in between. In `inbox` the third lead makes an inbox
hold more than a listing, and a listing more than an answer. In `site_repo` the
third publish follows two that overlapped, and a page of two tags is passed by the
third; a lone run's tag is claimed free only while the versions have no gap and fit
one page. In `estate` an hour of two moments lets a bucket expire between two hours;
two attempts to push are one that is rejected and one more; one signature is enough,
since no authorization reads another; with decimals of 0 to 2 the scale of a claim may
shrink the mandate tenfold and stretch it tenfold. In `serve` a listing of one key is cut
by one that comes before. `ServeView` drops from the states what no step
of `SiteServe` and no property of that run reads: the overwrite flags and the history of
the publishes. `MaxFaults` and
`MaxPosts` bound what a temporal counterexample would need finitely often anyway.

The runs check the properties above and no type invariants: those of the modules
with proofs are part of what is proved for every instance, those of the others
(`TypeOK`, `ServeTypeOK`) are there to be checked while a module is changed.

Where a passing run says `CHECK_DEADLOCK FALSE`, every request of the instance
has been answered or died and the clock is at its bound; the system waits for
requests the instance does not have.

### Fairness

Only `warmer_liveness` assumes any. The cron trigger fires every ten minutes
(weak fairness of `Start(Cron)`), the runtime carries on a run that it started
(`Run(t)`), the writes and stamps of `ctx.waitUntil` to `DERIVE_LOG` are
carried out or lost, and time passes (`Elapse`). Nothing obliges a post, a fault,
/warm-now or a write to `WARM_LOG`; faults are finitely many (`MaxFaults`), without
which an aborted run after another would excuse the code from everything.

### Where comments promise more than the code keeps

The two violation runs each quote the line they refute (`findings`). Others
met on the way are stated as what *is* true, in the properties above:

* `index.mjs` has a publish take a live slug only deliberately; two publishes
  that both find no page both put, and nobody is told (`ClobberNeedsRace` says
  exactly when).
* `index.mjs:26-29` has every prior publish in the history. A PUT of a page to
  `/__publish/versions/<ts>` passes `normalisePage` (`:298-312`) and writes over the copy
  (`:660-664`), so a live page, or one answered `unchanged`, may be left with none
  (`WrittenOver` in the properties of the history).
* A page published by the MCP or by the page lane is not in the history when
  site-host replaces it (`ReplacedIsKept` names these exceptions); a page that
  both Workers handled may be there twice.
* A Worker that dies between the two puts leaves history of a page that was
  never live, so the address reads as *gone* though it never served it; a slug
  only the MCP ever published and that was taken down reads as *free*.
* A visit that overlaps a change to private may still show the page
  (`AnswerMatchesVisibility` allows any moment of the visit).
* `visibility.mjs` and `index.mjs:820-825` keep an unlisted site out of indexes by a tag
  in its pages. What it holds that is not text/html goes out as that of a public site
  does, with no header in its place (`AnswerMatchesVisibility` excepts it).
* `index.mjs:183-185` and `:750-751` have the sitemap miss no site, however many there
  are. Both listings (`:755-756`) stop at 1000 keys and follow no cursor: past that a
  public site is left out, and a hidden one is offered to crawlers (`cut` in
  `SitemapMissesNone` and `SitemapOffersPublic`).
* The stamp of a derive re-reads the record, so a post meanwhile is stamped too
  (`raced` in `WarmedIsServed`); two runs that overlap warm an entry twice
  (`orderly`); a late report overwrites a later one.
* `notifyTicket.mjs` says a ticket cannot be replayed; two redemptions that
  overlap both mail (`shared`). An expired ticket nobody redeems stays in the
  bucket; and a 410 tells it from an id that never existed.
* `provenance.mjs` says nothing is overwritten and a nonce is single use; two
  different records put at one free key at once overwrite (`contested`), and a
  nonce read twice before its delete, or behind it, lists twice (`loose`).
* site-host looks for the history of a missing page among the first four keys
  under the slug (`index.mjs:809`); a slug that keeps four subpages or assets
  before `versions/` reads as *broken*, though `site-host.test.mjs:1183` has
  a former site told from one that never was.
* `warmer.ts:27` has the canonical list always warm; `buildQueue` cuts the queue
  at `:289` with pending derives first, so enough of those cut it off for as
  long as they last (`CanonicalStaysWarm` assumes a queue with room).
* A dispatch whose answer is lost is reported as a fault with nothing charged
  (`protocol.mjs:115`, `tools.mjs:124`) although the run may be queued.
* `GET /__leads` lists 1000 keys in key order, the oldest; past that the newest
  leads are not shown (`InboxShowsNewest`). Two leads of one site in one
  millisecond are one (`LeadIsKept`).
* `publish_site_repo.mjs` says every publish is tagged. It counts one page of
  100 tags: past it the number stands still and the tag is taken. A listing that
  fails counts as none. Overlapping runs take the same number, and one fails to
  tag. A publish without a spec leaves an older `site.spec.json` in its tag.
* `agentSandbox.mjs:117` and `consent.test.mjs:121` have a caller who forgets to
  look at `allowed` place no call. The Loader answers by id: a refused attempt
  is handed an isolate that an allowed one warmed, with its reach, and an
  allowed one may get what a refusal composed. `ReachWasAgreed` is what remains:
  the same person agreed on the same channel. An `sms` isolate may reach
  `rest.nexmo.com` only, while the module it runs calls `api.nexmo.com`.
* The count of contacts is the caller's: two that decide together both find room
  (`TurnsKeepTheCeiling`).
* The signer's cap stops "a runaway worker draining its address" (`index.mjs:44`),
  but binds one authorization at a time, with no total kept; a cap that is empty or
  does not parse is no cap.
* The signer says that even a compromised caller cannot move more than the founder
  authorised (`wallet-signer/src/index.mjs:184-186`). The decimals that turn the cap's
  dollars into units are the caller's (`:188`): each one more makes the cap ten times
  as much of the same asset.
  `SettledWasMandated` promises only what is left: a mandate at the scale claimed.
* `mirror_public_domain.mjs:62` has a different file re-cut, but the stamp is the
  archive identifier alone. A film re-resolved from A to B and back after a run
  that died past its upload keeps B's bytes under A's entry. `mirror_ai_films.mjs`
  fails a film over its poster, "a nicety".
* `email_routing.py` counts a rule that is disabled as there; `restore_inbound.py`
  goes on when disabling routing fails, and may exit 0 with it on. Scripts of one
  zone that overlap may each exit 0 over a zone that is neither's (`alone`).
* `vercel_env_sync.py` replaces a row as a whole (`:193-201`): with `--target preview` a
  row of preview and production goes, production is left with no value, and the run exits
  0. `GreenIsSynced` says so: the rows of an asked target go, whatever else they cover, and
  all others stay. Two runs that overlap may delete each other's rows and each exit 0.
* `grant_email_permissions.py` puts back what it read: an edit in the dashboard
  meanwhile is lost. It ends 0 "when the token ends up able to do the job" (`:242`), also
  over a group the catalogue does not offer, which it reports; over a denial it kept, which
  may outweigh what it granted; and, run again, over a grant that is stored and had no
  effect (`:289-291`). `GrantOnlyAdds` promises that each group offered is allowed by
  a policy, behind all that was there.
* `recordHit` loses all but one of the hits it handles together. Hits of an id
  with a colon are counted and never predicted. The time of a hit is the caller's
  word, and one to come may expire before its hour is over.

## 4. Proofs

Eight modules hold proofs, of every safety property that a passing run checks, in all
fifteen modules of the code: for any sets of requests, films, records, entries or
consents and for any limits, from each module's named assumption (bounds are naturals,
sets that should be disjoint are, the "nothing" values are not values; for `CdnHits`, that
the posts are finitely many, without which their number means nothing; for `WalletSigner` a
second, that more decimals never make less of a mandate). Each proof has the
same shape: `Init => IInv`; a lemma per action, or per group of actions that touch the
same variables, that the action preserves `IInv`; `IInv` implies each property, or each
step from it satisfies the action property; and a last temporal step. The theorems about
the modules of `estate` are about each component's own specification (`MirrorSpec`, `SandboxSpec`,
`WalletSpec`, `PolicySpec`, `SyncSpec`, `MailSpec`), which the part of `MCEstate`
follows.

`StoreIsImplemented` is the refinement: every behaviour of `Provenance` is one of
`RecordStore`. Finding a key empty is `Contest`, writing it is `Write` or a stutter,
asking for a listing is `Begin`, its last page is `Answer`, and every other step is
a stutter. `ServingOnlyReads` is a simpler one: a behaviour of `SiteServe`, which adds
readers and visibility to `SitePublish`, is one of `SitePublish`, so that what is proved
of publishing holds while the site is served.

The properties are not inductive alone. What each `IInv` adds:

* **SitePublish**: `CopiesKept`, a version key belongs to the request that
  stamped it, so with distinct stamps the copy stays what its owner put there, unless the
  key is among those the page lane wrote last (`paged`);
  `MarkedByHost`, a live page with a sha is that of a completed site-host
  publish; `SeenIsCurrent`, until somebody else's write lands, what a request
  saw of the index differs from it only by a takedown. `LiveIsVersioned` and
  `UnchangedIsVersioned` follow from the first two, `ClobberNeedsRace` from the
  third, `ReplacedIsKept` from the first and third.
* **SiteServe**: `NowWitnessed`, the present is among the moments of every reader that
  is busy, from which each read enters as a moment of its own; `VisitSound`, what a visit
  saw of visibility and page was so at some moment of it, and `FindsOrLists`, it asks for
  the history only when it found nothing; `CrawlSound`, the same of what a sitemap's
  listings said of the site, if they reached it; `HistoryHeld`, the key under `versions/`
  that a host publish past its first put took holds a page, its own, a later one's or one
  of the page lane, whence an address with none was never hosted.
* **McpSpend**: `CountedIsAdmitted` and `SeenIsAdmitted`, no counter or reading
  of one is ever above what was let through, however stale, whence no refusal
  is unearned; `SerialIsExact`, while the checks of a bucket take turns its
  counter is exact and so is what the one under way has read, whence the cap;
  `SpendersAreMetered`, with nowhere to count no render gets past its check;
  `CallsFollow`, no call of a body starts before its POST is through.
* **McpNotify**: `IdsAreMinted` (an id is minted once and redeemed only when
  issued), `KindsHavePhases` (who can be where, with which secret),
  `TakersAreShared` (of a ticket no two redemptions shared, at most one ever
  took it up), `SentWasFresh`.
* **SiteInbox**: `HostsMeanWhatIsHeld`, what a request's host meant since it
  arrived includes what it means now; `KeysAreTheLeads`, R2 holds exactly the stored
  leads, each under its own site and stamp; `ShownIsStored`. For
  `InboxShowsNewest`, `WantedAreRead`: what an inbox ought to show is shown already
  or is among the keys it has still to read, since a listing that takes them all
  takes the latest, and what is stored stays.
* **Provenance**: `WritersKnow` and `WritersContend`, a key found empty is still
  empty or was contended for; `NoncesAreMinted` and `ListersAreOwners`, whoever is
  past the check of a nonce holds the key it was issued to, and two such share a
  nonce only when it is loose; `ListingsAreWhole`, up to its cursor a listing has all
  that was there when it began.
* **AgentSandbox**: `IsolatesAreAgreed`, a warm isolate reaches only what somebody
  who was allowed agreed to on its channel. For `TurnsKeepTheCeiling`,
  `CountsAreTrue`: while callers take turns and obey, the count each decides on is
  still true when its agent runs.
* **AssetMirror**: `ClonesNameUploaded`, what any clone tells of its own films is in
  the bucket; `SeenIsNewest`. For `GreenIsShown`, `RunsTellAll`: behind its place a
  run has told of every film or reported it, through each rebase.
* **WalletSigner**: `SignedWasMandated`, the same of what is signed and not settled. That
  what passed at no more decimals than the mandate's passes at the mandate's is
  `ScaleIsMonotone`, from `ScaleAssumption`.
* **TokenPolicy**: `SeenIsThere`, with no edit in between the token has what the run
  read, and then what it put back, which begins with what it read.
* **EnvSync**: `RunTells`, the rows under a run that is alone are of those it found or its
  own; every one it found that covers no asked target is still there; and behind its place,
  while nothing has failed, its own row is the only one at each target; `LonersAreAlone`.
* **InboundMail**: `ProvisionKnows` and `SwitchKnows`, what a script that is alone
  believes of routing, and has left to remove, is so; `ScriptsAreAlone`.

* **SiteRepo**: `IdsFollow`, the second repository of a name exists only once the first
  was archived; `RunFollows`, the repository that a run knows is there or was archived, and
  its number is at most one past those taken; `RunRecords`, what a run that nobody
  overlapped and no call refused has written so far still stands, file by file;
  `AloneIsAlone`. `NothingIsDeleted` and `VersionsAreDense` follow step by step from the
  first two, `AloneIsRecorded` from the last two.
* **CdnWarmer**: `WorkIsShared`, no entry is twice among the queue, the checks and the
  HEADs of a run, whatever the number of its workers; `OrderKept`, while the runs are
  orderly only one is on, and the log knows every HEAD but those whose write is under way,
  which are of entries the run is through with, whence the hysteresis; `StampsFollow`,
  a stamp on its way was earned, as was one to be put once its run ends. That a queue
  has no entry twice is a fact about `Cut`, which numbers entries by rank: the proof
  shows that ranks in a finite set of numbers have no gap (`RankOnto`) by taking the
  least counterexample, where an induction would have been out of reach.
* **CdnHits**: `NoneInvented`, no bucket, no post and no run has ever counted more than has
  landed; `NoneLost`, a bucket that posts held one at a time, none ahead of its hour,
  counts all that landed and outlives the hours that look at it; `DueIsCounted`, what a
  run has counted of an entry is at least what had landed when it listed the buckets, less
  those it has still to read.

A proof also found a mistake of the model. `AloneIsRecorded` once said that the number a
lone run took is free whenever versions fit one page; it was not inductive, and TLC then
showed why: a run that counted in a repository renamed since leaves a gap in the new one,
behind which a lone run counts to a number that is taken. With pages of one tag the case
was out of the run's bounds. The property now asks for versions with no gap, and the run
has pages of two.

Only model-checked are the two liveness properties, `DoneIsWarmed` and
`CanonicalStaysWarm`: liveness under fairness is out of the prover's reach. The
strengthenings of `SiteRepo`, `CdnWarmer` and `CdnHits` were checked by TLC as invariants
of the instances of `site_repo`, `warmer_runs` and the hits of `estate` before they were
proved; the runs do not repeat it. The proof modules and those they extend declare no
recursive operator.

## 5. Not modelled

* **Pure text and layout**: `brand.mjs`, `landing.mjs`, `brief.mjs`,
  `vocabulary.mjs`, `mailMessage.mjs`, `robots.txt`, `llms.txt`. No state.
* **Pure I/O**: `audit_zone.py`, `bump_actions.py`, the mail reports,
  `fetch_brief_assets.mjs`, `unhost_brief_films.mjs`, `provision-r2.sh`. One
  reader, or one run by hand with no writer to meet.
* **Mints**: `mint_scoped_cf_token.mjs` and `mint_app_token.mjs` make one token by
  one call, and it expires by itself.
* **Workflows**: declarations that call the scripts. The steps around the mirrors
  are in `AssetMirror`; which runs may overlap is in each script's module.
* **Cryptography**: SHA-256, Ed25519, BIP-32 derivation and EIP-712 signing are
  taken as what they promise.
* **Of the modelled parts**: regions of the warmer, the MCP tools other than
  `publish` and `generate`, GET of one provenance record (a single read), the
  Python twins of the store and of consent, the lineage walk of
  `api/_provenance.py`, dry runs and reporting modes of the scripts, the limit of
  1000 on the listing of derives.

## 6. Plan

What is left, in this order.

1. The verdict of `mail_estate.py` and the lineage walk of `api/_provenance.py`:
   pure operators, checked against reference definitions.
2. The listing limit of the derives in `CdnWarmer`.
3. An abstract specification of the warm log, which `CdnWarmer` would implement while its
   runs are orderly, as `Provenance` does `RecordStore`.
