------------------------------ MODULE MCCompany ------------------------------
(***************************************************************************)
(* Tenancy, SecondFactor, ChannelAssets, TenantSettings, Pagination and    *)
(* RateLimit for TLC.  They share no row: a behaviour runs one of them,    *)
(* named by part, and the others rest in their initial states.  Tenancy    *)
(* runs with the invitations of one company and with the registrations of  *)
(* three; SecondFactor with one company and two secrets, and with a choice *)
(* of two companies.                                                       *)
(***************************************************************************)
EXTENDS Naturals, TLC

CONSTANTS
  ana, eva, t1, t2, t3, inbox, ads, s1, s2, NoOne,
  Requests,
  Emails, Founded, Founders, Invitations,
  Memberships, Secrets, NCodes, MaxPasswords,
  Owners, Externals, AdAccounts, States, Found, MaxRows, MaxRefs, MaxFaults,
  Hours, Policies, MaxWindows, MaxPuts,
  Items, Times, Limit, MaxChanges,
  Clients, Paths, AuthPaths, Exempt, AuthLimit, PathLimit, Window, MaxTime, MaxRequests

VARIABLES
  part,
  user, tenant, plain, member, outbox, invite, tenancyReq,
  password, mfa_enabled, secret, drawn, codes, challenge, sess, factorReq, proved, spent,
  oauth, row, store, refs, cb, closing, faults, exchanged, undone, forgotten,
  settings, settingsReq, puts, audited, crossed,
  rows, cursor, at, got, changes, steady,
  now, events, served

TenancyOf(p) == INSTANCE Tenancy WITH
  Tenants <- Founded[p], Founder <- Founders[p], MaxInvites <- Invitations[p],
  req <- tenancyReq
FactorOf(p) == INSTANCE SecondFactor WITH
  Companies <- Memberships[p], MaxSecrets <- Secrets[p], req <- factorReq
Asset == INSTANCE ChannelAssets WITH Tenants <- Owners, Callbacks <- Requests
Settings == INSTANCE TenantSettings WITH row <- settings, req <- settingsReq
List == INSTANCE Pagination
Rate == INSTANCE RateLimit

ASSUME CompanyAssumption ==
  /\ \A p \in {"invite", "register"} : TenancyOf(p)!TenancyAssumption
  /\ \A p \in {"factor", "choice"} : FactorOf(p)!FactorAssumption
  /\ Asset!AssetAssumption
  /\ Settings!SettingsAssumption /\ List!PageAssumption /\ Rate!LimitAssumption

tenancyVars  == <<user, tenant, plain, member, outbox, invite, tenancyReq>>
factorVars   == <<password, mfa_enabled, secret, drawn, codes, challenge, sess, factorReq,
                  proved, spent>>
assetVars    == <<oauth, row, store, refs, cb, closing, faults, exchanged, undone, forgotten>>
settingsVars == <<settings, settingsReq, puts, audited, crossed>>
listVars     == <<rows, cursor, at, got, changes, steady>>
rateVars     == <<now, events, served>>
vars == <<part, tenancyVars, factorVars, assetVars, settingsVars, listVars, rateVars>>

Init ==
  /\ part \in {"invite", "register", "factor", "choice", "asset", "settings", "list", "rate"}
  /\ IF part = "register" THEN TenancyOf("register")!Init ELSE TenancyOf("invite")!Init
  /\ IF part = "choice" THEN FactorOf("choice")!Init ELSE FactorOf("factor")!Init
  /\ Asset!Init /\ Settings!Init /\ Rate!Init
  /\ List!Init /\ (part # "list" => rows = {})

\* The settings a request may bring, worked out once.
Payloads == Settings!Payloads

SettingsNext ==
  \E r \in Requests :
    \/ Settings!GetSettings(r) \/ Settings!Commit(r) \/ Settings!Collide(r)
    \/ \E p \in Payloads : Settings!PutSettings(r, p)

Next ==
  \/ /\ \E p \in {"invite", "register"} : part = p /\ TenancyOf(p)!Next
     /\ UNCHANGED <<part, factorVars, assetVars, settingsVars, listVars, rateVars>>
  \/ /\ \E p \in {"factor", "choice"} : part = p /\ FactorOf(p)!Next
     /\ UNCHANGED <<part, tenancyVars, assetVars, settingsVars, listVars, rateVars>>
  \/ /\ part = "asset" /\ Asset!Next
     /\ UNCHANGED <<part, tenancyVars, factorVars, settingsVars, listVars, rateVars>>
  \/ /\ part = "settings" /\ SettingsNext
     /\ UNCHANGED <<part, tenancyVars, factorVars, assetVars, listVars, rateVars>>
  \/ /\ part = "list" /\ List!Next
     /\ UNCHANGED <<part, tenancyVars, factorVars, assetVars, settingsVars, rateVars>>
  \/ /\ part = "rate" /\ Rate!Next
     /\ UNCHANGED <<part, tenancyVars, factorVars, assetVars, settingsVars, listVars>>

Spec == Init /\ [][Next]_vars

\* Companies, who registers them, and invitations, by the part that runs: one
\* company that invites; ana registers t1 and t3, eva registers t2.
FoundedOf == [invite |-> {t1}, register |-> {t1, t2, t3}]
FoundersOf ==
  [invite   |-> [t \in {t1} |-> ana],
   register |-> [t \in {t1, t2, t3} |-> IF t = t2 THEN eva ELSE ana]]
InvitationsOf == [invite |-> 3, register |-> 1]

\* What Meta may return for the assets of one authorisation.
Discoveries == {<<ads, inbox>>, <<inbox, inbox>>}

\* Memberships and secrets of the user, by the part that runs.
MembershipsOf == [factor |-> 1, choice |-> 2]
SecretsOf == [factor |-> 2, choice |-> 1]

Symmetry == Permutations(Requests)

-----------------------------------------------------------------------------
\* A registration leaves a company whole or not at all; an invited member holds
\* the role of exactly one accepted invitation; two open invitations of one
\* person come from requests that overlapped; a settled invitation stays so.
TenancySafety ==
  /\ [](\A p \in {"invite", "register"} :
         part = p => /\ TenancyOf(p)!TypeOK /\ TenancyOf(p)!NoPartialCompany
                     /\ TenancyOf(p)!MemberByOneInvitation
                     /\ TenancyOf(p)!OpenTogetherOverlapped)
  /\ [][TenancyOf("invite")!SettledIsFinal]_vars

\* A recovery code is accepted once, the factor in force is one the user has
\* proved to hold, a session without a factor goes back to a time when MFA was
\* off, and every session that is active after a reset was issued after it.
FactorSafety ==
  \A p \in {"factor", "choice"} :
    part = p => /\ FactorOf(p)!TypeOK /\ FactorOf(p)!RecoveryCodeOnce
                /\ FactorOf(p)!FactorIsProved /\ FactorOf(p)!FactorlessWasOff
                /\ FactorOf(p)!SessionsPostdateReset

\* Inbound events never find two owners of an asset, an OAuth state is exchanged
\* once, a connected asset has its credential unless a restart or a failed
\* request took it, and a disconnected one comes back only with a new credential.
AssetSafety ==
  /\ [](/\ Asset!TypeOK /\ Asset!RouteUnambiguous
        /\ Asset!StateUsedOnce /\ Asset!CredentialPresent)
  /\ [][Asset!ReconnectionIsFresh]_vars

\* No moment is in two windows of the stored day, and the stored settings are
\* those of the last audit event unless two replacements crossed.
SettingsSafety == Settings!TypeOK /\ Settings!HoursDisjoint /\ Settings!StoredAsAudited

\* The pages give the rows in order, none twice, and skip no row that was there
\* all the time.
PagesComplete == List!TypeOK /\ List!PagesInOrder /\ List!NothingSkipped

\* A request is refused exactly when its window is full.
WindowExact == Rate!TypeOK /\ Rate!WindowExact
=============================================================================
