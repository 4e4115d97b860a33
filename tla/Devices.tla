------------------------------ MODULE Devices ------------------------------
(***************************************************************************)
(* What the TikTok tasks of a process share without a lock: the one        *)
(* Android device of core/mobile_tiktok_provider.py, and the one page of   *)
(* each account's AdsPower profile (core/browser_providers.py), which      *)
(* every task of the account attaches to.  A screen shows one thing; a     *)
(* task that uses it acts on whatever is showing.                          *)
(***************************************************************************)
EXTENDS Naturals, Sequences, FiniteSets

CONSTANTS
  Phone,      \* the Android device
  Pages,      \* the shared page of each AdsPower profile
  Things,     \* what a screen can show
  Blank       \* what a screen shows before anybody has used it

Screens == Pages \cup {Phone}

VARIABLES
  showing,    \* what each screen shows
  users,      \* the tasks that are using each screen
  loaded,     \* what each user's screen has shown since it began
  crossed,    \* users whose session another one's has touched
  saving,     \* videos the TikTok app is saving, oldest first
  gallery     \* media files on the device, oldest first

deviceVars == <<showing, users, loaded, crossed, saving, gallery>>

DevicesInit(tasks) ==
  /\ showing = [s \in Screens |-> Blank]
  /\ users = [s \in Screens |-> {}]
  /\ loaded = [u \in tasks |-> {}]
  /\ crossed = {}
  /\ saving = <<>> /\ gallery = <<>>

\* `am start -d url` on the device, page.goto in the profile's page.
Opens(s, w, u) ==
  /\ showing' = [showing EXCEPT ![s] = w]
  /\ users' = [users EXCEPT ![s] = @ \cup {u}]
  /\ loaded' = [v \in DOMAIN loaded |->
       IF v = u /\ u \notin users[s] THEN {w}
       ELSE IF v \in users[s] THEN loaded[v] \cup {w} ELSE loaded[v]]
  /\ crossed' = IF users[s] \subseteq {u} THEN crossed ELSE crossed \cup users[s] \cup {u}
  /\ UNCHANGED <<saving, gallery>>

\* page.on("response") before the page.goto: what the page showed may still be
\* loading, and is heard as well.
ListensAndOpens(s, w, u) ==
  LET heard == {showing[s]} \ {Blank} IN
  /\ showing' = [showing EXCEPT ![s] = w]
  /\ users' = [users EXCEPT ![s] = @ \cup {u}]
  /\ loaded' = [v \in DOMAIN loaded |->
       IF v = u THEN heard \cup {w} ELSE IF v \in users[s] THEN loaded[v] \cup {w} ELSE loaded[v]]
  /\ crossed' = IF users[s] \subseteq {u} /\ heard \subseteq {w} THEN crossed ELSE crossed \cup users[s] \cup {u}
  /\ UNCHANGED <<saving, gallery>>

\* The end of a session.  The profile's page stays open, the app too.
Closes(s, u) ==
  /\ users' = [users EXCEPT ![s] = @ \ {u}]
  /\ loaded' = [loaded EXCEPT ![u] = {}]
  /\ crossed' = crossed \ {u}
  /\ UNCHANGED <<showing, saving, gallery>>

\* The files are listed; a save that is under way lands after the listing.
ListFiles(u) ==
  /\ crossed' = IF saving = <<>> THEN crossed ELSE crossed \cup {u}
  /\ UNCHANGED <<showing, users, loaded, saving, gallery>>

\* A tap on Save: the app begins to save what it shows.
TapSave ==
  /\ saving' = Append(saving, showing[Phone])
  /\ UNCHANGED <<showing, users, loaded, crossed, gallery>>

\* The app finishes a save, or never does.
SaveLands ==
  /\ saving # <<>>
  /\ saving' = Tail(saving)
  /\ gallery' = Append(gallery, Head(saving))
  /\ UNCHANGED <<showing, users, loaded, crossed>>

SaveIsLost ==
  /\ saving # <<>>
  /\ saving' = Tail(saving)
  /\ UNCHANGED <<showing, users, loaded, crossed, gallery>>

\* The newest file that was not there when `before` files were.
HasNewFile(before) == Len(gallery) > before
NewestFile == gallery[Len(gallery)]

\* What the network responses and the DOM of a page can offer a user.
Offered(u) == loaded[u]
=============================================================================
