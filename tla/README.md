# A verification project for login-server

The login server is the web front end of a Cloud Foundry UAA: it shows the
login page, checks passwords with LDAP, creates accounts and their resources
on a first login, forwards OAuth requests to the UAA, lets users manage their
approvals, and gives out autologin codes. It is a Spring MVC application: every
request runs on a servlet thread of its own, the beans are singletons that all
threads share, and no class of the repository uses a lock. All paths below
are relative to `src/src/main/java/org/cloudfoundry/identity/uaa/login/`, but for the pages
and scripts, which are under `src/src/main/webapp/`.

## 1. Inventory

| Component | State it keeps | Operations | Modules |
|---|---|---|---|
| `DefaultAutologinCodeStore` | map `codes`, delay queue `expiryQueue`, `flushTimestamp` | `getUser`, `storeUser`, `flush` | `AutologinStore`, `CodeLifecycle` |
| `AutologinController`, `AutologinAuthenticationManager` | none (they share the store) | `generateAutologinCode`, `authenticate` | `Autologin` |
| `ClientInfoAuthenticationFilter` | none | `doFilter` | `Autologin` |
| `RemoteUaaAuthenticationManager`, `rest/CCHelper` | none of their own; the accounts of the UAA, the resources of the Cloud Controller | `authenticate`, `addCCUser`, `addUserToOrgAndSpace` | `Provisioning`, `AccountProvisioning`, `Login` |
| `rest/LdapAuthHelper` | fields `env` and `ctx` | `authenticate` | `LdapContext`, `Login` |
| `RemoteUaaController` | session attribute `cookie` | `startAuthorization`, `approveOrDeny`, `sundry`, `prompts` | `UaaProxy` |
| `ProfileController` | none; the approvals of the UAA | `get`, `post` | `Approvals` |
| `login.jsp`, `placeholder.js` | the fields of the form: value, type, data attributes | the handlers of the ready, focus, blur and submit events and of a timer | `LoginForm` |
| `HomeController`, `AnalyticsInterceptor`, beans, JSON mapper, XML, other pages | none | rendering, wiring | not modelled |

How they interact:

* The login form and the `/authenticate`-style endpoints call
  `RemoteUaaAuthenticationManager.authenticate`, which calls `LdapAuthHelper`,
  then the UAA, and on a first login the UAA's `/Users` and, through
  `CCHelper`, the Cloud Controller. These are blocking calls from the servlet
  thread. The two remote systems are the only memory of what has been done.
* `AutologinController` authenticates a user the same way and calls
  `storeUser`; the filter in front of `/oauth/authorize` calls `getUser`
  through `AutologinAuthenticationManager`. Both sides share one store.
* `RemoteUaaController` forwards a browser's request to the UAA. The cookie the
  UAA answers with is kept in the browser's HTTP session until the user has
  answered the confirmation page.
* `ProfileController` reads and writes the list of approvals as a whole.
* `login.jsp` sends the name and the password of the user to the login. In
  browsers without placeholders its script writes hints into the fields, and
  takes them out again before anything is sent.

What is hard about it:

* *Interleavings.* `getUser`, `storeUser` and `flush` are sequences of accesses
  to three concurrent collections, each atomic, the sequence not. The fields of
  `LdapAuthHelper` are plain fields.
* *Partial failure and lost replies.* A first login makes up to six remote
  calls without a transaction, and each may take effect and not be answered.
* *Stale copies.* Spring MVC copies the session attribute into each request and
  back; an update of approvals writes back a list it has read before.
* *Events in any order.* The handlers of `placeholder.js` can tell a hint from a
  text by its value only, and run whenever the user, the page or the timer says.
* *Time.* Codes expire while calls are at work on them, and the guard of
  `flush` compares times the wrong way round.

The correctness properties per component are those of section 4; the hazards
they are for are listed, with their lines, in `PROJECT.json`.

## 2. The modules

**`AutologinStore`** models `DefaultAutologinCodeStore` at the grain of one
access to a shared object per step. `pc[t]` is the statement thread *t* is about
to execute; `held[t]` is the local `TokenExpiry`; `request[t]` is the argument.
`getUser` is `GetUser`, the flush steps, `Take` (line 66), `CheckDelay` (71, 76)
and one of `Discard`, `Unqueue`, `PutBack`; `storeUser` is `StoreUser`, the
flush steps, `Generate`, `Enqueue` (91), `Publish` (92). `flush` is `FlushCheck`
(98), `FlushStamp` (99) and a loop of `FlushPoll` and `FlushDrop` (101, 102).
The clock is a counter that ticks between any two steps; the validity period
and the flush interval keep their relation (the interval is twice the period).
A user identifies an entry because the controller makes a new `Authentication`
for each stored code. The generator may draw a code again (`Generate`): nothing
in the code prevents it, so the promises to the holder of a code are about
entries whose own code no other entry was given (`OnlyEntry`), beside others
that do share one.

**`CodeLifecycle`** is what the callers of the store rely on: a ticket is fresh,
available, claimed by one call at a time, and gone; a one-time ticket is used at
most once, and what is gone stays gone. `AutologinStore` defines the refinement
mapping (`TicketStatus`).

**`Provisioning`** models `authenticate` with the calls of `CCHelper`: one remote
call and the computation after it per step. `pc[t]` names the next call,
`created[t]` says that the `ScimUser` has an id, `answer[t]` is the last status
of `/authenticate`. Each call may take effect, take effect without its reply
arriving, be refused with a status below 500 (the error handlers let those
pass) or fail with an exception. Whether the OAuth2 template of `/Users` throws
on a refusal or returns is left open, so both are outcomes.
`SwitchAccount` is an administrator of the UAA who deactivates or reactivates
an account. **`AccountProvisioning`** is the abstract view: per user a level
from 0 to 4 (account, organization, domain, space) that only the one login that
created the account may raise, one at a time.

**`LdapContext`** models `LdapAuthHelper`: every access to the fields `env` and
`ctx` is a step, from `NewEnv` (33) to `Reconnect` (90). The context remembers
which principal and credentials have been added to it; `Binds` is what the LDAP
server may answer. `User` are the emails that the helper is called with,
`Entry` the entries of the directory, `matches` the entries that the filter of
an email matches: the email goes into the filter as it is (55), so it may be any
of them. A search that ends early has found some of those, and joins the DNs of
all it has found (`Joins`, 64 to 74). Neither the helper nor the form login refuses
an empty password, or goes without a bind when nothing was found, so both are
modelled (`Empty`). `Vouched` is what the properties say of a verdict.

**`Login`** composes the two: it extends `Provisioning` and instantiates
`LdapContext`. A login enters the helper with its password (`Submit`), takes the
helper's steps (`AskLdap`), and `Judge` goes on with the verdict the helper has
computed, where `Provisioning` alone lets every verdict happen (`CheckLdap`).
`VerdictsAreCovered` is the refinement: `Login` implements `Provisioning`.

**`Autologin`** extends `AutologinStore` with the code around it. A request to
`/autologin` passes the filter (`AskClientInfo`), then the controller
(`GenerateAutologinCode`: the login, and the call of `storeUser`); a request
with a code is `FollowLink`, the call of `getUser` by the authentication
manager. Inside the store a thread takes the steps of `AutologinStore`
(`StoreStep`), and what follows the return of the method is part of its last
step: the client gets the code and sends it on, or the browser gets its session
or is refused. `task[t]` and `who[t]` say what a thread is in the store for;
`links` and `session` belong to the browsers.

**`LoginForm`** models the form of `login.jsp` with `placeholder.js`, one event per
step. `Created`, `Focused`, `Blurred`, `Submitted` and `Updated` are the five
handlers as functions of a field; the actions are the events that call them,
plus what the user does. A text is a sequence of words, and a hint is one word,
which the user can also type. `typed` is what the user means a field to hold.
`incident` names the two ways in which the script loses the thread: a field is
*surprised* when its handlers come after its focus or its text, or its hint
changes; *stopped* when the form was sent and the user goes on with the page.
The kinds of browser (with placeholders; unable to change the type of an input;
reporting a focus late) are chosen at the start. The caret, the CSS class of a
hint and the key handlers, which `hideOnFocus` keeps from being installed, are
left out.

**`UaaProxy`** models the handlers of `RemoteUaaController` and the cookie. A
request is three steps: `Receive` (the session attribute is copied into the
model), the call of the UAA (`StartAuthorization`, `Passthru` or `Prompts`) and
`End` (copied back, or removed after `setComplete`). A handler that throws
copies nothing back. `page[s]` is the cookie behind the confirmation page the
browser shows, `sent[t]` the cookies on the thread's request to the UAA, `jar`
what the HttpClient behind the rest templates remembers, `giver` for whom the
UAA gave out a cookie. The requests of the sessions in `Overlapping` may overlap
with each other, those of the others come one after the other, and requests of
different sessions always overlap. Headers and bodies that no property is about are left
out. `Fail` stands for all the ways in which a handler throws.

**`Approvals`** models `ProfileController`: what a POST to /profile does, for any
parameters, since `post` checks them against nothing. An update reads (`Fetch`),
marks (`Marked`) and writes (`Put`) the list of all approvals; the text that
`checkedScopes` is searched for (110, 111) is `Key`, the parts of both names one
after the other, so that two approvals may have one key. `deleted` records
approvals that were deleted and not granted since, but for those that an update
under way had already read (`Pending`); `revoked` those that were denied or
deleted and not granted or asked for since, but for those that another update
under way was asking for (`AskedBeside`). The forms of `approvals.jsp` are not
in the model: they send to `approvals` (line 170; the script at 108 to
`approvals/delete`), which from /profile is an address without a handler, so at
this commit the buttons of the page do not reach `post`; a client that sends to
/profile itself does.

**`MC*`** modules add the symmetry sets for TLC. **`*Proofs`** modules hold the
theorems about the module of their name. Definitions that start with a comment "Mutant
of" are deliberate faults: alternatives to the definition after them,
used to show that the properties notice such a fault. No specification uses
them.

## 3. External parts

The following are not code of the repository and are modelled from how it uses
them: the UAA and Cloud Controller (accept, refuse with a status, lose a reply,
fail), JNDI and LDAP (a bind with a name and a password succeeds for an entry
with its own password only, so for joined DNs never; a bind without a name or
without a password is anonymous or unauthenticated in the sense of RFC 4513,
and succeeds or fails as the server likes, which an anonymous search needs
anyway; any bind may fail), Spring MVC's session attributes (copied in before the handler,
copied back or removed after it returns, without a session lock, since no bean
sets `synchronizeOnSession`), the code generator, the clients of `/autologin`
(they send a link to the browser of the person they have named, and to no
other), the browsers and their users, and whatever else on the page may change a
hint (`ChangeHint`; `login.jsp` itself changes none). Accounts are created only
by this server; every account is active and has the empty default password
until an administrator of the UAA changes that.

## 4. What is checked

All bounds are in the `.cfg` files.

| Run | Bounds | Properties and what they show |
|---|---|---|
| `one_time_codes` | 2 threads, 2 users, 2 codes, clock to 2, period 1; fair threads | `OneTimeUse`: no interleaving leaves a used code where another `getUser` could find it. `LiveEntriesAreQueued`: what can be redeemed can also be collected. `ImplementsLifecycle`: the store implements `CodeLifecycle`. `ClaimsAreSettled`: a code taken out of the map is dealt with. |
| `reusable_codes` | 2 threads, 3 users, 2 codes, clock to 3, period 1; reusable codes | `FlushNeverResumes`: once the last flush is older than the interval, expired codes are never collected again (the guard in line 98 is inverted). `NoLostCode`: between `remove` and `put`, and beside flushes that remove by code, no live code gets lost that was not drawn again itself. `LiveEntriesAreQueued`, `ImplementsLifecycle` for this flag. |
| `autologin` | 2 threads, 2 people, 3 users, 2 codes, clock to 2, period 1; one-time codes | `SessionIsOwn`: what getUser returns reaches the session of the person the code was made for, unless that code was drawn again. `OneSessionPerCode`: also when a link is followed twice at once. `FreshLinkWorks`: a link that has not expired, and whose own code was not drawn again, is refused only to a second follower. `AutologinTypeOK`: a thread in the store is there for the request it began with. |
| `login` | 2 threads, 1 user, 1 entry that its name matches or not, 2 passwords and the empty one | `LoneLoginIsOwn`: a login whose call of the helper ran beside no other goes on, and creates anything, only with the password of the entry found for its name, or on the server's answer to a bind without a password or a name, whatever other logins have left in the helper or are doing at the UAA. `VerdictsAreCovered`: with the helper as it is, logins implement `Provisioning`. `OneProvisioner`, `FirstLoginIsComplete`, `NothingIsRepaired` (a first login that stopped half-way is final: the user is let in from then on and the missing resources are never created), `ImplementsProvisioning`. |
| `refusal_means_unauthorized` (violated) | 2 threads, 1 user | After the second `/authenticate` the code looks at the first response (line 231), which was 401. |
| `ldap_context` | 2 threads, 2 emails that match any of 2 entries, 2 passwords and the empty one | `LoneVerdictIsOwn`: a call that ran beside no other returns true for an entry of its own search and that entry's password only, or for a bind without a password or a name, whatever earlier calls have left in the fields. |
| `shared_context` (violated) | the same | `VerdictIsOwn` for overlapping calls: they bind each other's context. |
| `uaa_proxy` | 3 threads, 2 sessions, of which one sends overlapping requests, 2 cookies | `ApprovalMatchesPage`: the session that sends one request at a time approves what its page shows, `CookieGoneUnlessOverlap`: and has no cookie afterwards, whatever the other does. `SessionsDoNotMix`: of both. |
| `cookie_comes_back` (violated) | 1 session, overlapping requests | `CookieGoneAfterApproval`: a request that overlaps the approval writes the cookie back. |
| `approvals` | 2 tabs, 2 clients, 2 scopes, 3 approvals of which 2 have one key; overlapping requests and grants | `DeletedStaysDeleted`: an update does not bring back what another request deleted, unless it had read it before. `RevokedStaysRevoked`: and, whatever it had read, it brings nothing back into force that was denied or deleted since, unless it asks for its key. |
| `shared_key` (violated) | 1 tab, the same approvals | `ChosenAreRevoked`: an update leaves an approval in force that was not checked, because its key is that of one that was. |
| `login_form` | 2 fields, 2 hints, 2 words of which one is a hint, texts of at most 2 words, all kinds of browser | `TypedIsKept`: no order of events erases what was typed. `SubmittedIsTyped`: the form sends that and no hint. `HintHiddenOnFocus`: a field in use does not hold its hint. `PasswordMasked`: a password field shown as text holds no password. Each names its exceptions: texts that are hints, and the incidents. |

The violated runs are disagreements between the code and a comment or message
of the code; `PROJECT.json` quotes them under "findings".

*Why the bounds are enough.* The races of the store are between two calls over
one code, with the flush of a third party done by either of them; three users
on two codes let one code be drawn again, while its old entry is still queued,
beside another that lives on (`one_time_codes`, whose properties do not tell
codes apart, has two). The same holds with browsers and clients around the
store: two people and three links, each of which may be followed twice. A clock to 2 lets a code expire and the next one too; it reaches 3 where the
flush interval of 2 has to pass and a store has to follow. In
`Login` two threads are two concurrent first logins, of one user, because two
users share nothing but the helper: `ldap_context` has two users in it, and the
proofs have any number. The second password is a wrong one. A form has two
fields as the default prompts have; a text of two words holds a hint and a word,
or two words of which the first or the second looks like a hint, and handlers
compare whole values only. In
`UaaProxy` two cookies let a session start a flow again after a first cookie, or
each session have one; three threads are two overlapping requests of the one
session beside a request of the other. In `Approvals` the two approvals with one
key belong to different clients, the third shares its client with one of them
and its scope with the other. Two entries make an email match none, one or
several. Constants that
bound: `MaxTime`, `MaxLength` (of a text), and `Cookie`, of which the UAA gives each out once; a store is
called with each member of `User` once; `openings` counts to two.

*Deadlock* is checked everywhere: requests can always arrive, so no run
switches it off.

*Overlap.* In `UaaProxy` the promises about pages are made to browsers that send
one request after the other, the sessions outside `Overlapping`; the sessions in
it are their environment, and what overlapping requests break for themselves is
shown by `cookie_comes_back`. In `Approvals` everything overlaps. Two tabs that
update and delete at once can still lose one of the two, because the UAA offers
no conditional write and the code asks for none: what comes back is then denied,
unless the update asks for it, which is `RevokedStaysRevoked`.

*Fairness.* Only `ClaimsAreSettled` (run `one_time_codes`) needs it: weak fairness of each thread's
`Step`. A thread inside `getUser` or `storeUser` never blocks (the map, the
queue and the timestamp have no operation that waits for another thread's
progress, `poll` returns at once), so the JVM's scheduling suffices. Nothing
obliges anybody to call the store or the clock to move. The remote calls of
the other modules have no timeouts, so no fairness is assumed there and no
liveness claimed.

## 5. What is proved

For every value of the constants:

* `AutologinStoreProofs`: `TypeCorrectness`, `LiveEntriesStayQueued`,
  `OneTimeCodesAreUsedOnce`, `NoCodeIsLost`, `StaleFlushNeverResumes`,
  `StoreImplementsLifecycle`, `GoneCodesStayGone`.
* `AutologinProofs`: `AutologinUsesTheStore`, `AutologinKeepsTheStore`,
  `AutologinTypeCorrectness`, `LinksLogInTheirPerson`, `LinksOpenOneSession`,
  `FreshLinksWork`.
* `ProvisioningProofs`: `TypeCorrectness`, `OneLoginProvisions`,
  `FirstLoginsAreComplete`, `NothingIsEverRepaired`,
  `LoginsImplementProvisioning`.
* `LdapContextProofs`: `TypeCorrectness`, `LoneVerdictsAreOwn`.
* `LoginProofs`: `LoginsImplementOpenVerdicts`, `LoginsKeepProvisioning`,
  `LoneLoginsAreOwn`.
* `UaaProxyProofs`: `TypeCorrectness`, `SessionsNeverMix`, `ApprovalsMatchPages`,
  `CookiesAreGone`.
* `ApprovalsProofs`: `TypeCorrectness`, `DeletedApprovalsStayAway`,
  `RevokedApprovalsStayRevoked`.
* `LoginFormProofs`: `TypeCorrectness`, `TypedTextStays`, `FocusHidesHints`,
  `FormsSendWhatWasTyped`, `PasswordsAreMasked`.

The only assumptions are the named ones of the modules (`StoreAssumption`,
`AutologinAssumption`, `ProvisioningAssumption`, `LdapAssumption`,
`LoginAssumption`, `UaaProxyAssumption`, `ApprovalsAssumption`,
`FormAssumption`): the constants have their types, the period is positive, and
things of different kinds, `Null` and `None` among them, are different. TLC
evaluates each of them in a passing run. No theorem assumes more: that a code
was not drawn again, or that a session sends one request at a time, is a
condition on the entry or the session a property is about, in the property; so
is that a bind had a password and a name.

*The store.* None of the properties is inductive: that a redeemed entry is
nowhere depends on it having been in one place before. The strengthening is
*ownership*: an entry that a thread has built and not published, or taken out
of the map, is in no other thread's hands and in no slot of the map, entries are
found only under their own code, no two entries carry one user, and entries in
the queue are accounted for. `OwnershipInvariance` proves it; the one-time use
of a code follows because the thread that returns the user is the only one
with the entry. `LiveEntriesAreQueued` needs that the queue is written before
the map and that a flush polls expired entries only. `NoLostCode` is proved
entry by entry: a code that no other entry has now was no other's before
(`OnlyEntryBefore`), so the entry under it that `FlushDrop` removes, `PutBack`
overwrites or `Discard` forgets is the polled, put or claimed one, and the
first and the last have expired (`StepKeeps`). `StaleFlushNeverResumes` is an action property: no step
leads out of `FlushDead`. `StoreImplementsLifecycle` adds `IssuedOnce` (what is
in the map or in the hands of a `getUser` was issued, and a user is issued
once), from which a user is in one slot, or in one thread's hands, and not in
both; then `Take` is a claim, `Discard` and `Unqueue` settle it, `PutBack` and
`Publish` offer a ticket in place of the one whose slot they overwrite,
`FlushDrop` drops one, and every other step is a stutter. `GoneCodesStayGone`
is proved of the life cycle and carried over to the store by the refinement.

*Provisioning.* The strengthening says that the account exists as soon as a
thread holds its id, that two threads that hold ids for one user cannot both be
provisioning, and that a thread at a given call has made the resources before
it. `NothingIsRepaired` follows because only a thread with an id gets past
`CreateOrg`, and an id is given only with the account. For
`LoginsImplementProvisioning` a step is a `Create`, an `Advance` or a `Close`
of the user of the thread that takes it, or a stutter: since one thread
provisions a user, its end closes the user.

*Autologin.* Every step of `AutologinNext` is a step of the store or leaves it
alone, so what is proved of the store holds under autologin
(`AutologinUsesTheStore`), and the proofs are about the callers only. The
strengthening says that the code in a link is that of an issued entry for the
person of the link, that a getUser call holds an entry of the code it was asked
for, and that what has opened a session is redeemed. If the code of the link was
given to no other entry, the entry a call returns is then the one of the link. One session per code is
`OneTimeUse` put to work: what is being returned was not returned before, so it
has opened nothing. `FreshLinksWork` follows from `NoLostCode`: a fresh code that
is not in the map is redeemed or in other hands.

*The helper.* A call that is marked as not overlapped is the only one that runs,
so the context it binds is the one it opened, with the name its own search has
found (`FoundIsOwn`) and its own password (`ContextIsOwn`). Of the binds with a
password and a name the server accepts those of an entry with its password. In `Login` the strengthening `Coupled` says that a login is in
the helper exactly while its call runs, and `Verified` that whatever it does
afterwards it does after a verdict of true. The calls of the helper in `Login`
are a behaviour of `LdapContext`, so `LoneVerdictsAreOwn` is used as it stands.

*The proxy.* `CookiesAreOwn` says that sessions, models and requests hold only
what the UAA gave out for their session, and that the client remembers nothing;
it holds for overlapping requests too. The rest is about the sessions that send
one request at a time (`Careful`): there the model of a request is the session's
cookie, and the cookie behind the page is in the session, or in the model of the
start that got it. A step of another session touches none of this.

*Approvals.* No update under way has read what counts as deleted
(`DeletedIsNotPending`): a read sees that it is gone, and a delete counts only
what no such update holds. No update under way asks for the key of what counts
as revoked (`RevokedIsNotAskedFor`): one that does takes it off the record when
it arrives, and what others are asking for is not put on it. A step that starts
no update keeps both (`QuietStep`). Nothing is used of the keys.

*The form.* The core is a lemma about the handlers: each replaces nothing but an
empty value or a hint (`Spares`). The strengthening says what a field holds
while its handlers are not attached (`Plain`), that the handlers know the hint of
a field that was not surprised (`Current`), that such a field holds what was
typed or, out of use, its hint (`Honest`), and that a password field shown as
text without incident is out of use (`Masked`).

Only model-checked: liveness (`ClaimsAreSettled`), whose fairness and ENABLED the
prover does not handle. That the runs expecting a violation find one is shown by their
traces.

## 6. What is not modelled

* `HomeController` and `AnalyticsInterceptor` put constants into views.
* The forms of `approvals.jsp`, which no handler receives (section 2).
* What an LDAP server makes of a bind without a password or without a name, and
  of a filter with characters that have a meaning in it: both are left open, and
  listed as hazards.
* The beans are records; `CustomObjectMapper` configures JSON.
* `UsernamePasswordExtractingAuthenticationManager` is not used by the
  configuration.
* The XML, the other pages and the tests have no behaviour of their own; they
  were read to find which objects are shared and what is expected.
* `jquery.js` is vendored: `LoginForm` models what `login.jsp` and
  `placeholder.js` get from it (the ready event and its order).
* Headers and bodies in `RemoteUaaController` and the text of messages, except
  for the messages that properties are about.
* The two spellings of a name, with and without the mail suffix. The login
  cuts the suffix off; `AutologinController` stores the name as it was written,
  so a code for a suffixed name opens a session under another name than the
  login form (docs/Login-APIs.md, "Autologin", step 6, promises the same). It is
  listed as a hazard; the models name people.
* Timeouts: no rest template has one, so a call of the models may never return.

## 7. Plan

Done, in this order: `AutologinStore` with `CodeLifecycle`; `Provisioning` with
`AccountProvisioning`; `UaaProxy`; `Approvals`; `LdapContext`; `LoginForm`;
`Login`; `Autologin`; the proofs about each of them.

Left: an abstract view of an authorization flow (page, approval, end) that the
sessions of `UaaProxy` outside `Overlapping` implement, with its proof. And,
should the code change to promise it: a conditional write of approvals, a flush
that removes entries and not codes, and a timeout of the remote calls with what
a login does after it.
