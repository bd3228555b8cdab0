-------------------------------- MODULE SignIn --------------------------------
(***************************************************************************)
(* Signing in: AuthController, AuthService, the state tokens, the identity *)
(* adapters of GitHub and Slack and the browser's useAuthSession.  One     *)
(* person, with one address, signs in from several tabs of one browser;    *)
(* the tabs share the state cookies and the account, each has its own      *)
(* session storage.                                                        *)
(***************************************************************************)
EXTENDS Naturals, Sequences

CONSTANTS
  None,
  Tabs,
  Pages,        \* pages a developer may sign in from and return to
  MaxStates     \* bound: state tokens issued

VARIABLES
  tab,          \* per tab: where its sign-in is, and what it carries
  remembered,   \* per tab: the page its session storage holds
  cookie,       \* the state cookies: the number of the token, or None
  issued,       \* state tokens issued so far
  latest,       \* per cookie: the number of the last token issued for it
  lapsed,       \* tokens older than ten minutes
  installed,    \* the person can reach an installation of the GitHub App
  account,      \* per kind: None, "unnamed" (invited) or "named"
  identities,     \* per kind: its identity rows, each TRUE if it records an installation
  raced         \* tabs whose sign-in overlapped another's write

signInVars == <<tab, remembered, cookie, issued, latest, lapsed, installed, account, identities, raced>>

Cookies == {"authorization", "installation", "slack"}
Kinds == {"developer", "pm"}
Idle == [at |-> "idle", kind |-> "developer", cookie |-> None, token |-> 0, via |-> FALSE,
         page |-> None, listed |-> FALSE, row |-> 0, known |-> FALSE]

\* The cookie holds the token the tab comes back with.
Matches(t) == cookie[tab[t].cookie] = tab[t].token
Startable == {"idle", "authorizing", "refused", "failed", "broken"}

Init ==
  /\ tab = [t \in Tabs |-> Idle]
  /\ remembered = [t \in Tabs |-> None]
  /\ cookie = [c \in Cookies |-> None]
  /\ issued = 0
  /\ latest = [c \in Cookies |-> 0]
  /\ lapsed = {}
  /\ installed \in BOOLEAN
  /\ account = [k \in Kinds |-> None]
  /\ identities = [k \in Kinds |-> <<>>]
  /\ raced = {}

At(t, stage) == tab' = [tab EXCEPT ![t].at = stage]

\* A token is issued and becomes the value of its cookie: issue and serializeStateCookie.
Issue(c, cookies) ==
  /\ issued < MaxStates
  /\ issued' = issued + 1
  /\ latest' = [latest EXCEPT ![c] = issued + 1]
  /\ cookie' = [cookies EXCEPT ![c] = issued + 1]
-----------------------------------------------------------------------------
(***************************************************************************)
(* The browser.                                                            *)
(***************************************************************************)

\* rememberDeveloperAgentReturn: what an earlier attempt left is removed first.
Remember(t, page) == remembered' = [remembered EXCEPT ![t] = page]

\* GitHub's button, on the page of an agent's code, of a project's setup, or any other.
StartDeveloper(t) ==
  /\ tab[t].at \in Startable
  /\ \E page \in Pages \cup {None} :
       /\ Remember(t, page)
       /\ tab' = [tab EXCEPT ![t] = [Idle EXCEPT !.at = "authorizing", !.page = page,
                                      !.cookie = "authorization", !.token = issued + 1]]
  /\ Issue("authorization", cookie)
  /\ UNCHANGED <<lapsed, installed, account, identities, raced>>

\* Slack's button: nothing is remembered, nor forgotten.
StartPm(t) ==
  /\ tab[t].at \in Startable
  /\ tab' = [tab EXCEPT ![t] = [Idle EXCEPT !.at = "authorizing", !.kind = "pm",
                                    !.cookie = "slack", !.token = issued + 1]]
  /\ Issue("slack", cookie)
  /\ UNCHANGED <<remembered, lapsed, installed, account, identities, raced>>

\* A token of a provider, posted directly: nothing is listed for it.
PostToken(t) ==
  /\ tab[t].at = "idle"
  /\ \E k \in Kinds : tab' = [tab EXCEPT ![t].at = "lookup", ![t].kind = k]
  /\ raced' = raced \ {t}
  /\ UNCHANGED <<remembered, cookie, issued, latest, lapsed, installed, account, identities>>

\* The session arrives in the address: it is stored, and the page remembered is restored.
Arrive(t) ==
  /\ tab[t].at = "signed"
  /\ tab' = [tab EXCEPT ![t] = [Idle EXCEPT !.at = IF remembered[t] = tab[t].page \/ tab[t].kind = "pm"
                                                   THEN "home" ELSE "astray"]]
  /\ remembered' = [remembered EXCEPT ![t] = None]
  /\ UNCHANGED <<cookie, issued, latest, lapsed, installed, account, identities, raced>>
-----------------------------------------------------------------------------
(***************************************************************************)
(* The callbacks.                                                          *)
(***************************************************************************)
\* Mutant of Clear: the cookie is cleared whatever it holds.
ClearAlways(t) == cookie' = [cookie EXCEPT ![tab[t].cookie] = None]

\* assertStateCookie, then clearStateCookie: another tab's cookie is left alone.
Clear(t) ==
  cookie' = IF Matches(t) THEN [cookie EXCEPT ![tab[t].cookie] = None] ELSE cookie

\* finishDeveloperAuth and finishPmAuth: the state must be the cookie's, and not have lapsed.
Callback(t) ==
  /\ tab[t].at = "authorizing"
  /\ Clear(t)
  /\ At(t, IF Matches(t) /\ tab[t].token \notin lapsed
           THEN "identifying" ELSE "refused")
  /\ UNCHANGED <<remembered, issued, latest, lapsed, installed, account, identities, raced>>

\* getDeveloperIdentity of a code: the installations are listed; the one the person came
\* back with must be among them, and without any the App is to be installed first.
IdentifyDeveloper(t) ==
  /\ tab[t].at = "identifying" /\ tab[t].kind = "developer"
  /\ tab' = [tab EXCEPT ![t].listed = TRUE,
                        ![t].at = IF installed THEN "lookup" ELSE IF tab[t].via THEN "failed" ELSE "install"]
  /\ raced' = raced \ {t}
  /\ UNCHANGED <<remembered, cookie, issued, latest, lapsed, installed, account, identities>>

\* getPmIdentity of a code.
IdentifyPm(t) ==
  /\ tab[t].at = "identifying" /\ tab[t].kind = "pm"
  /\ At(t, "lookup")
  /\ raced' = raced \ {t}
  /\ UNCHANGED <<remembered, cookie, issued, latest, lapsed, installed, account, identities>>

\* A provider refuses the code or the token.
FailIdentify(t) ==
  /\ tab[t].at = "identifying"
  /\ At(t, "failed")
  /\ UNCHANGED <<remembered, cookie, issued, latest, lapsed, installed, account, identities, raced>>

\* installDeveloperApp.
Install(t) ==
  /\ tab[t].at = "install"
  /\ tab' = [tab EXCEPT ![t].at = "installing",
                        ![t].cookie = "installation", ![t].token = issued + 1]
  /\ Issue("installation", cookie)
  /\ UNCHANGED <<remembered, lapsed, installed, account, identities, raced>>

\* The person installs the App, and continueDeveloperAuth authorizes once more.
ContinueDeveloper(t) ==
  /\ tab[t].at = "installing"
  /\ installed' = TRUE
  /\ IF Matches(t) /\ tab[t].token \notin lapsed
       THEN /\ tab' = [tab EXCEPT ![t].at = "authorizing", ![t].via = TRUE,
                               ![t].cookie = "authorization", ![t].token = issued + 1]
            /\ Issue("authorization", [cookie EXCEPT !["installation"] = None])
       ELSE /\ At(t, "refused")
            /\ UNCHANGED <<cookie, issued, latest>>
  /\ UNCHANGED <<remembered, lapsed, account, identities, raced>>

\* verify: a token is refused once it is ten minutes old, and its cookie expires with it
\* (a token no cookie holds is refused whatever its age).
Lapse ==
  /\ \E n \in {cookie[c] : c \in Cookies} \ {None} :
       /\ lapsed' = lapsed \cup {n}
       /\ cookie' = [c \in Cookies |-> IF cookie[c] = n THEN None ELSE cookie[c]]
  /\ UNCHANGED <<tab, remembered, issued, latest, installed, account, identities, raced>>

\* The person removes the App.
Uninstall ==
  /\ installed' = FALSE
  /\ UNCHANGED <<tab, remembered, cookie, issued, latest, lapsed, account, identities, raced>>
-----------------------------------------------------------------------------
(***************************************************************************)
(* AuthService.authenticate, one database call at a time.                  *)
(***************************************************************************)
\* A write of one tab overtakes the others of its kind that are being authenticated.
Overtake(t) ==
  raced' = raced \cup {o \in Tabs \ {t} : tab[o].kind = tab[t].kind /\ tab[o].at \in {"update", "email", "create", "link"}}

\* findByProviderIdentity, with the metadata it returns.
FindIdentity(t) ==
  /\ tab[t].at = "lookup"
  /\ IF identities[tab[t].kind] # <<>>
       THEN \E i \in DOMAIN identities[tab[t].kind] :
              tab' = [tab EXCEPT ![t].at = "update", ![t].row = i, ![t].known = identities[tab[t].kind][i]]
       ELSE At(t, "email")
  /\ UNCHANGED <<remembered, cookie, issued, latest, lapsed, installed, account, identities, raced>>

\* The metadata read before, and what this sign-in found.
Merged(t) == tab[t].known \/ tab[t].listed

\* updateMetadata, and syncUserProfile of the identity's user.
UpdateIdentity(t) ==
  /\ tab[t].at = "update"
  /\ identities' = [identities EXCEPT ![tab[t].kind][tab[t].row] = Merged(t)]
  /\ account' = [account EXCEPT ![tab[t].kind] = "named"]
  /\ At(t, "signed")
  /\ Overtake(t)
  /\ UNCHANGED <<remembered, cookie, issued, latest, lapsed, installed>>

\* findByEmail: an account invited by its address is the person's.
FindByEmail(t) ==
  /\ tab[t].at = "email"
  /\ At(t, IF account[tab[t].kind] # None THEN "link" ELSE "create")
  /\ UNCHANGED <<remembered, cookie, issued, latest, lapsed, installed, account, identities, raced>>

\* UsersRepository.create: address and kind are unique.
CreateUser(t) ==
  /\ tab[t].at = "create"
  /\ IF account[tab[t].kind] = None
       THEN /\ account' = [account EXCEPT ![tab[t].kind] = "named"]
            /\ At(t, "link")
            /\ Overtake(t)
       ELSE /\ At(t, "broken")
            /\ UNCHANGED <<account, raced>>
  /\ UNCHANGED <<remembered, cookie, issued, latest, lapsed, installed, identities>>

\* ExternalIdentitiesRepository.create: a Slack identity is unique; a GitHub identity has
\* no team, and the unique index admits another.
CreateIdentity(t) ==
  /\ tab[t].at = "link"
  /\ IF tab[t].kind = "pm" /\ identities["pm"] # <<>>
       THEN /\ At(t, "broken")
            /\ UNCHANGED <<account, identities, raced>>
       ELSE /\ account' = [account EXCEPT ![tab[t].kind] = "named"]
            /\ identities' = [identities EXCEPT ![tab[t].kind] = Append(@, tab[t].listed)]
            /\ At(t, "signed")
            /\ Overtake(t)
  /\ UNCHANGED <<remembered, cookie, issued, latest, lapsed, installed>>

\* A developer shares a project or a session with the person's address: ensurePmUser.
Invite ==
  /\ account["pm"] = None
  /\ account' = [account EXCEPT !["pm"] = "unnamed"]
  /\ raced' = raced \cup {t \in Tabs : tab[t].kind = "pm" /\ tab[t].at \in {"email", "create"}}
  /\ UNCHANGED <<tab, remembered, cookie, issued, latest, lapsed, installed, identities>>
-----------------------------------------------------------------------------
Next ==
  \/ \E t \in Tabs :
       \/ StartDeveloper(t) \/ StartPm(t) \/ PostToken(t) \/ Arrive(t)
       \/ Callback(t) \/ IdentifyDeveloper(t) \/ IdentifyPm(t) \/ FailIdentify(t)
       \/ Install(t) \/ ContinueDeveloper(t)
       \/ FindIdentity(t) \/ UpdateIdentity(t) \/ FindByEmail(t) \/ CreateUser(t) \/ CreateIdentity(t)
  \/ Lapse \/ Uninstall \/ Invite

Spec == Init /\ [][Next]_signInVars
-----------------------------------------------------------------------------
(***************************************************************************)
(* Properties.                                                             *)
(***************************************************************************)
\* Of the tabs that sign in at once the last one to start is let through: a state is
\* turned away only when it has lapsed or a later one was issued for its cookie
\* (the callbacks of the other tabs leave the cookie alone).
LastTabIsLetIn ==
  \A t \in Tabs : tab[t].at = "refused" =>
    tab[t].token \in lapsed \/ tab[t].token # latest[tab[t].cookie]

\* A developer comes back to the page the sign-in was started from, whatever an
\* abandoned attempt left in the tab and through the installation of the App.
ReturnsWhereItStarted == \A t \in Tabs : tab[t].at # "astray"

\* Signing in fails in the database only when another sign-in or an invitation wrote
\* the account in the meantime: an invited person is never locked out.
OnlyRacesFail == \A t \in Tabs : tab[t].at = "broken" => t \in raced

\* An installation an identity records is forgotten only by a sign-in that read the
\* identity before another wrote it.
InstallationStep ==
  \A k \in Kinds : \A i \in DOMAIN identities[k] :
    identities[k][i] /\ ~identities'[k][i] => \E t \in raced : tab[t].at = "update" /\ tab[t].row = i
-----------------------------------------------------------------------------
(***************************************************************************)
(* What the proofs rest on.                                                *)
(***************************************************************************)
Stages == {"idle", "authorizing", "refused", "identifying", "failed", "install", "installing", "lookup",
           "update", "email", "create", "link", "signed", "broken", "home", "astray"}
TabStates ==
  [at : Stages, kind : Kinds, cookie : {None} \cup Cookies, token : Nat, via : BOOLEAN,
   page : {None} \cup Pages, listed : BOOLEAN, row : Nat, known : BOOLEAN]

Domains ==
  /\ tab \in [Tabs -> TabStates]
  /\ remembered \in [Tabs -> {None} \cup Pages]
  /\ issued \in Nat
  /\ cookie \in [Cookies -> {None} \cup Nat]
  /\ latest \in [Cookies -> Nat]
  /\ account \in [Kinds -> {None, "unnamed", "named"}]
  /\ identities \in [Kinds -> Seq(BOOLEAN)]

\* A tab on its way has a token of its own, and the last one issued for its cookie is still in it.
Away(s) == s.at \in {"authorizing", "installing"}
Holds(s, cookies, last, old) == Away(s) /\ s.token = last[s.cookie] /\ s.token \notin old => cookies[s.cookie] = s.token

TokensAreOwn ==
  /\ \A t \in Tabs :
       /\ tab[t].token <= issued
       /\ Away(tab[t]) \/ tab[t].at = "refused" => tab[t].cookie \in Cookies
       /\ tab[t].at = "installing" => tab[t].cookie = "installation"
       /\ Holds(tab[t], cookie, latest, lapsed)
  /\ \A t, o \in Tabs : Away(tab[t]) /\ Away(tab[o]) /\ t # o => tab[t].token # tab[o].token
  /\ LastTabIsLetIn

\* A developer's tab remembers the page it started from until it is back.
PagesAreRemembered ==
  \A t \in Tabs :
    /\ tab[t].at # "astray"
    /\ tab[t].at = "idle" => tab[t].kind = "developer"
    /\ tab[t].at = "home" \/ tab[t].kind = "pm" \/ remembered[t] = tab[t].page

\* What a tab that nobody overtook has read of the account is still so.
Stands(s, accounts, rows) ==
  /\ s.at # "broken"
  /\ s.at = "create" => accounts[s.kind] = None
  /\ s.at \in {"email", "create", "link"} => rows[s.kind] = <<>>
  /\ s.at = "update" => s.row \in DOMAIN rows[s.kind] /\ s.known = rows[s.kind][s.row]

ReadsStand == \A t \in Tabs \ raced : Stands(tab[t], account, identities)
=============================================================================
