--------------------------- MODULE AccountConnect ---------------------------
(***************************************************************************)
(* How an account gets a session (api/routes/accounts.py): the operator    *)
(* logs in in a browser that a request keeps watching for minutes, or      *)
(* confirms a login made in an AdsPower profile.  Logins on one account    *)
(* run concurrently and without a lock, beside publications that count     *)
(* what they met; each writes columns and metadata of the row in           *)
(* statements of its own (database/database.py).                           *)
(***************************************************************************)
EXTENDS FiniteSets

CONSTANTS
  Logins,       \* concurrent requests and publications on the account
  VerifyLogin   \* ADSPOWER_VERIFY_AFTER_LOGIN

VARIABLES
  account,      \* columns: status, valid, login; metadata: provider, manual
  request,      \* where each request is, and what it has read
  screen,         \* what the platform shows in the account's browser
  warned,       \* whether the last that was learnt of the login is a block
  lifted        \* whether a recount that a block had overtaken has undone it

connectVars == <<account, request, screen, warned, lifted>>

Chromes == {"playwright", "real_chrome"}
ConnectProviders == Chromes \cup {"adspower_manual"}
Waiting == [at |-> "none", provider |-> "none", manual |-> "none", status |-> "none"]

ConnectInit ==
  /\ \E p \in ConnectProviders :
       account = [status |-> "healthy", valid |-> FALSE, login |-> FALSE,
                  provider |-> p, manual |-> "none"]
  /\ request = [r \in Logins |-> Waiting]
  /\ screen = "out"
  /\ warned = FALSE
  /\ lifted = FALSE

At(r, place) == request[r].at = place
Returns(r) == request' = [request EXCEPT ![r] = Waiting]
GoesTo(r, place) == request' = [request EXCEPT ![r].at = place]

\* The request has read the row.
Reads(r, place) ==
  request' = [request EXCEPT ![r] = [Waiting EXCEPT !.at = place, !.provider = account.provider,
                                                    !.manual = account.manual]]

\* can_publish of AccountResponse.from_row
CanPublish(a) == a.status = "healthy" /\ a.valid

-----------------------------------------------------------------------------
(* connect_account                                                         *)

Connect(r) ==
  /\ At(r, "none")
  /\ Reads(r, IF account.provider \in Chromes THEN "polling" ELSE "opening")
  /\ UNCHANGED <<account, screen, warned, lifted>>

\* patch_account_metadata: the other keys stay.
Patched(a, provider, manual) == [a EXCEPT !.provider = provider, !.manual = manual]

\* _open_adspower_manual_login, once the profile is started.
ProfileOpens(r) ==
  /\ At(r, "opening")
  /\ account' = Patched(account, "adspower_manual", "browser_opened")
  /\ Returns(r)
  /\ UNCHANGED <<screen, warned, lifted>>

SeesLogin(r) ==
  /\ At(r, "polling") /\ screen = "in"
  /\ GoesTo(r, "saving")
  /\ UNCHANGED <<account, screen, warned, lifted>>

\* Mutant: a session that was saved makes the account healthy.
LoggedInHeals(a) == [a EXCEPT !.valid = TRUE, !.login = TRUE, !.status = "healthy"]

\* save_account_session
LoggedIn(a) == [a EXCEPT !.valid = TRUE, !.login = TRUE]

SavesSession(r) ==
  /\ At(r, "saving")
  /\ account' = LoggedIn(account)
  /\ GoesTo(r, "storing")
  /\ UNCHANGED <<screen, warned, lifted>>

\* The provider the request began with is written with the profile's path.
StoresProfile(r) ==
  /\ At(r, "storing")
  /\ account' = IF request[r].provider = "real_chrome"
                THEN Patched(account, "real_chrome", account.manual) ELSE account
  /\ Returns(r)
  /\ UNCHANGED <<screen, warned, lifted>>

\* record_login_diagnostic, as _raise_login_block calls it: the session stays valid.
Diagnosed(a) == [a EXCEPT !.status = "limited"]

\* _raise_login_block, of a login that is watched and of one being verified.  A
\* recount that has read the status is overtaken.
SeesBlock(r) ==
  /\ At(r, "polling") \/ At(r, "verifying")
  /\ screen = "blocked"
  /\ account' = Diagnosed(account)
  /\ warned' = TRUE /\ lifted' = FALSE
  /\ request' = [q \in Logins |->
       IF q = r THEN Waiting
       ELSE IF At(q, "recounting") THEN [request[q] EXCEPT !.at = "overtaken"] ELSE request[q]]
  /\ UNCHANGED screen

\* The deadline, a closed window, an error of the browser or of AdsPower.
RequestFails(r) ==
  /\ ~At(r, "none")
  /\ Returns(r)
  /\ UNCHANGED <<account, screen, warned, lifted>>

-----------------------------------------------------------------------------
(* confirm_manual_login                                                    *)

Confirm(r) ==
  /\ At(r, "none") /\ account.provider = "adspower_manual"
  /\ Reads(r, IF VerifyLogin THEN "verifying" ELSE "marking")
  /\ UNCHANGED <<account, screen, warned, lifted>>

\* The cookies may be unreadable; then no session is saved here.
VerifySucceeds(r) ==
  /\ At(r, "verifying") /\ screen = "in"
  /\ account' \in {LoggedIn(account), account}
  /\ GoesTo(r, "marking")
  /\ UNCHANGED <<screen, warned, lifted>>

VerifyFails(r) ==
  /\ At(r, "verifying") /\ screen = "out"
  /\ account' = Patched(account, account.provider, "verification_failed")
  /\ Returns(r)
  /\ UNCHANGED <<screen, warned, lifted>>

\* mark_account_manual_login_confirmed: healthy, whatever it was.
MarksConfirmed(r) ==
  /\ At(r, "marking")
  /\ account' = [status |-> "healthy", valid |-> TRUE, login |-> TRUE, provider |-> "adspower_manual",
                 manual |-> "connected_by_confirmation"]
  /\ warned' = FALSE
  /\ Returns(r)
  /\ UNCHANGED <<screen, lifted>>

-----------------------------------------------------------------------------
(* update_account, check_account_health; the publisher; the platform       *)

PatchReads(r) ==
  /\ At(r, "none")
  /\ Reads(r, "patching")
  /\ UNCHANGED <<account, screen, warned, lifted>>

\* The whole metadata is written, as it was read but for the new provider.
PatchWrites(r) ==
  /\ At(r, "patching")
  /\ \E p \in ConnectProviders :
       account' = [account EXCEPT !.provider = p, !.manual = request[r].manual]
  /\ Returns(r)
  /\ UNCHANGED <<screen, warned, lifted>>

OperatorSets ==
  /\ \E s \in {"healthy", "limited", "banned"} :
       /\ account' = [account EXCEPT !.status = s]
       /\ warned' = (warned /\ s # "healthy")
  /\ UNCHANGED <<request, screen, lifted>>

\* A publication counts a success, a failure, a captcha or a redirect (the last
\* two end the session's validity) and reads the counts and the status; neither
\* is in a transaction with the write that follows.
RecountReads(r) ==
  /\ At(r, "none")
  /\ account' \in {account, [account EXCEPT !.valid = FALSE]}
  /\ request' = [request EXCEPT ![r] = [Waiting EXCEPT !.at = "recounting", !.status = account.status]]
  /\ UNCHANGED <<screen, warned, lifted>>

\* The status that was read, or a worse one when the score has crossed a limit.
Escalated(s) == IF s = "healthy" THEN {"healthy", "limited", "banned"} ELSE {s, "banned"}

RecountWrites(r) ==
  /\ At(r, "recounting") \/ At(r, "overtaken")
  /\ \E s \in Escalated(request[r].status) : account' = [account EXCEPT !.status = s]
  /\ lifted' = (lifted \/ (warned /\ At(r, "overtaken")))
  /\ Returns(r)
  /\ UNCHANGED <<screen, warned>>

\* invalidate_account_session
PublisherIsLoggedOut ==
  /\ screen = "out" /\ account.valid
  /\ account' = [account EXCEPT !.valid = FALSE]
  /\ UNCHANGED <<request, screen, warned, lifted>>

PageTurns ==
  /\ screen' \in {"out", "in", "blocked"} \ {screen}
  /\ UNCHANGED <<account, request, warned, lifted>>

ConnectNext ==
  \/ \E r \in Logins :
       \/ Connect(r) \/ ProfileOpens(r) \/ SeesLogin(r) \/ SavesSession(r) \/ StoresProfile(r)
       \/ SeesBlock(r) \/ RequestFails(r)
       \/ Confirm(r) \/ VerifySucceeds(r) \/ VerifyFails(r) \/ MarksConfirmed(r)
       \/ PatchReads(r) \/ PatchWrites(r) \/ RecountReads(r) \/ RecountWrites(r)
  \/ OperatorSets \/ PublisherIsLoggedOut \/ PageTurns

ConnectSpec == ConnectInit /\ [][ConnectNext]_connectVars

-----------------------------------------------------------------------------
(* Properties                                                              *)

\* Once a request has met a rate limit, a captcha or a checkpoint, the account
\* is not offered for publishing before the operator confirms a login or
\* declares the account healthy, even when a request that was already watching
\* the browser sees the login succeed and saves its session.  Only a publication
\* that had read the status before the block may write it back afterwards; one
\* that reads it later never makes the account healthy.
BlockIsRespected == warned => lifted \/ ~CanPublish(account)
=============================================================================
