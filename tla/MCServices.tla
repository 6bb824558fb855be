----------------------------- MODULE MCServices -----------------------------
(* A small instance of each service around the runs: the realm's session,   *)
(* the webhooks, the accounts and the catalogue.  They share no state, so a  *)
(* behaviour is a behaviour of one of them, its part, while the variables of *)
(* the others keep the value "off".                                         *)
EXTENDS RealmSession

CONSTANTS
    Parts, r1, r2, r4, f1,
    Hooks, Sources, Global, Events, Final, RETRY_DELAYS, MaxEvents,
    Users, Clients, Vendors, Keys, MaxRequests,
    Products, Sites, Minting, MaxVersion, MaxEdits

\* Two runs of one firing, and one started by hand.
RunsOfAJob == [r \in Run |-> IF r = r4 THEN NoFiring ELSE f1]

VARIABLES
    part,
    hook, source, plan, task, post, log, spawned,
    user, used, key, grant, asks, call, peak,
    product, row, article, bump, run, edits, settled, adrift, deleted

realmVars == vars
hooksVars == <<hook, source, plan, task, post, log, spawned>>
accountsVars == <<user, used, key, grant, asks, call, peak>>
catalogueVars == <<product, row, article, bump, run, edits, settled, adrift,
    deleted>>
serviceVars ==
    <<part, realmVars, hooksVars, accountsVars, catalogueVars>>

ASSUME DeliveriesAssumption == RETRY_DELAYS \in Nat
ASSUME VersionsAssumption == MaxVersion \in Nat

Hook == INSTANCE WebhookDelivery
Access == INSTANCE Accounts
Shelf == INSTANCE Catalogue
-----------------------------------------------------------------------------
ServicesInit ==
    /\ part \in Parts
    /\ IF part = "realm" THEN Init
       ELSE /\ clock = "off" /\ realm = "off" /\ created = "off" /\ phase = "off"
            /\ spent = "off" /\ lane = "off" /\ human = "off" /\ logins = "off"
            /\ calls = "off"
    /\ IF part = "hooks" THEN Hook!Init
       ELSE /\ hook = "off" /\ source = "off" /\ plan = "off" /\ task = "off"
            /\ post = "off" /\ log = "off" /\ spawned = "off"
    /\ IF part = "accounts" THEN Access!Init
       ELSE /\ user = "off" /\ used = "off" /\ key = "off" /\ grant = "off"
            /\ asks = "off" /\ call = "off" /\ peak = "off"
    /\ IF part = "catalogue" THEN Shelf!Init
       ELSE /\ product = "off" /\ row = "off" /\ article = "off" /\ bump = "off"
            /\ run = "off" /\ edits = "off" /\ settled = "off" /\ adrift = "off"
            /\ deleted = "off"

ServicesNext ==
    /\ UNCHANGED part
    /\ IF part = "realm" THEN Next ELSE UNCHANGED realmVars
    /\ IF part = "hooks" THEN Hook!Next ELSE UNCHANGED hooksVars
    /\ IF part = "accounts" THEN Access!Next ELSE UNCHANGED accountsVars
    /\ IF part = "catalogue" THEN Shelf!Next ELSE UNCHANGED catalogueVars

ServicesSpec == ServicesInit /\ [][ServicesNext]_serviceVars
-----------------------------------------------------------------------------
\* The runs of one firing log in again only after the floor of a login that went well
\* (realm_manager.py, the just-in-time login).
SiblingsDoNotRepeat == part = "realm" => CommittedLoginIsSpent

\* The counters of a webhook agree with its delivery log (webhook_dispatcher.py,
\* deliveries in parallel, each a transaction of its own).
CountersMatchLog == part = "hooks" => Hook!CountersMatchLog

\* Keys and grants give what their user was entitled to (routes/auth.py, over demotions,
\* deletions and rotations between a check and its commit).
RightsWereHeld == part = "accounts" => Access!RightsWereHeld

\* A run scrapes the release its product is at, after a bump that nobody raced
\* (routes/products.py and the plan that firecrawl.py makes of the URL).
RunScrapesItsVersion == part = "catalogue" => Shelf!RunScrapesItsVersion

\* A page is one article over all its releases (versioning.py and the lookup by key).
OneIdentity == part = "catalogue" => Shelf!OneIdentity
=============================================================================
