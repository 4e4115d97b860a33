--------------------------- MODULE VideoDownload ---------------------------
(***************************************************************************)
(* download_videos_handler (workers/handlers/tiktok/download_videos.py):   *)
(* the selected videos of a job, one after the other, each by the          *)
(* attempts its route allows (the account's browser page, yt-dlp, yt-dlp   *)
(* with the account's cookies, the phone), and what the failures add up    *)
(* to.                                                                     *)
(***************************************************************************)
EXTENDS Devices

CONSTANTS
  Downloads,        \* download tasks
  Selected,         \* their selected_videos: Seq of [video, app, url]
  PageOf,           \* the page of their account's profile, or NoAccount
  NoAccount,
  Providers         \* values of TIKTOK_DOWNLOAD_PROVIDER

ASSUME DownloadAssumption ==
  /\ Phone \notin Pages /\ NoAccount \notin Pages
  /\ PageOf \in [Downloads -> Pages \cup {NoAccount}]
  /\ Providers \subseteq {"auto", "web_only", "ytdlp_only", "browser_first", "mobile_first"}

VARIABLES
  env,        \* TIKTOK_DOWNLOAD_PROVIDER, TIKTOK_MOBILE_FALLBACK_ENABLED
  stage,      \* where a handler stands
  index,      \* the video it is at
  kinds,      \* failure kinds of the attempts at that video
  asked,      \* how often the phone was asked for it
  before,     \* files on the device before the tap
  cookies,    \* the account's cookies: "untried", "exported", "refused"
  jar,        \* handlers whose temporary cookie directory exists
  got,        \* video_paths, as <<wanted, content, undisturbed>>
  failed      \* failed_downloads, as <<wanted, permanent>>

jobVars == <<stage, index, kinds, asked, before, cookies, jar, got, failed>>
downloadVars == <<env, jobVars>>

Kinds == {"app_only_gate", "tiktok_web_403", "audio_only", "device_unavailable",
          "stopped", "transient"}
Permanent == Kinds \ {"transient"}
Ended == {"idle", "done", "fatal", "retry", "cancelled"}

Video(d) == Selected[d][index[d]]
Wanted(d) == Video(d).video

\* Providers of a video: _effective_download_provider, and the switch to the
\* phone once the gate has been seen.
Route(d) ==
  IF Video(d).app /\ env.provider \in {"auto", "browser_first"} THEN "mobile_first"
  ELSE IF env.provider = "auto" THEN "browser_first" ELSE env.provider

Rerouted(d, k) ==
  IF "app_only_gate" \in k /\ env.mobile THEN "mobile_first" ELSE Route(d)

MayTryPhone(d, k, times) ==
  /\ times = 0
  /\ \/ Rerouted(d, k) = "mobile_first"
     \/ Video(d).app
     \/ /\ env.mobile /\ Rerouted(d, k) = "browser_first"
        /\ k \cap {"app_only_gate", "tiktok_web_403", "audio_only"} # {}
     \/ "app_only_gate" \in k

AfterPhone(d, k) == IF MayTryPhone(d, k, 1) THEN "fallback" ELSE "settle"
AfterYtdlp(d, k) == IF MayTryPhone(d, k, asked[d]) THEN "fallback" ELSE "settle"
AfterBrowser(d, k) ==
  IF Rerouted(d, k) \in {"browser_first", "ytdlp_only"} /\ "app_only_gate" \notin k
  THEN "ytdlp" ELSE AfterYtdlp(d, k)
AfterRouting(d, k) ==
  CASE Route(d) = "mobile_first" -> "phone"
    [] Route(d) \in {"web_only", "browser_first"} -> "browser"
    [] OTHER -> AfterBrowser(d, k)

DownloadInit ==
  /\ env \in [provider : Providers, mobile : BOOLEAN]
  /\ stage = [d \in Downloads |-> "idle"]
  /\ index = [d \in Downloads |-> 1]
  /\ kinds = [d \in Downloads |-> {}]
  /\ asked = [d \in Downloads |-> 0]
  /\ before = [d \in Downloads |-> 0]
  /\ cookies = [d \in Downloads |-> "untried"]
  /\ jar = {}
  /\ got = [d \in Downloads |-> <<>>]
  /\ failed = [d \in Downloads |-> <<>>]

Stands(d, places) == stage[d] \in places
MovesTo(d, place) == stage' = [stage EXCEPT ![d] = place]

-----------------------------------------------------------------------------
\* The loop: a row without a url is passed over, an app-only video starts
\* with the gate among its errors.
RouteVideo(d) ==
  /\ Stands(d, {"idle", "next"}) /\ index[d] <= Len(Selected[d])
  /\ LET gate == IF Video(d).app THEN {"app_only_gate"} ELSE {} IN
     IF Video(d).url
     THEN /\ MovesTo(d, AfterRouting(d, gate))
          /\ kinds' = [kinds EXCEPT ![d] = gate]
          /\ UNCHANGED index
     ELSE /\ MovesTo(d, "next")
          /\ index' = [index EXCEPT ![d] = @ + 1]
          /\ UNCHANGED kinds
  /\ UNCHANGED <<env, asked, before, cookies, jar, got, failed, deviceVars>>

\* An attempt fails with a kind, and the next one its route allows follows.
\* Only mobile_* kinds and the browser's own end up as "stopped".
FailsWith(d, k, place) ==
  /\ kinds' = [kinds EXCEPT ![d] = k]
  /\ MovesTo(d, place)
  /\ UNCHANGED <<env, index, jar, got, failed>>

\* The next video, with nothing of this one's left.
Follows(d) ==
  /\ index' = [index EXCEPT ![d] = @ + 1]
  /\ kinds' = [kinds EXCEPT ![d] = {}]
  /\ asked' = [asked EXCEPT ![d] = 0]
  /\ before' = [before EXCEPT ![d] = 0]
  /\ MovesTo(d, "next")
  /\ UNCHANGED <<env, cookies, jar>>

Succeeds(d, content) ==
  /\ got' = [got EXCEPT ![d] = Append(@, <<Wanted(d), content, d \notin crossed>>)]
  /\ Follows(d)
  /\ UNCHANGED failed

\* Browser capture: not without an account and its open profile; then the
\* page is sent to the video and the media it loads are fetched.
BrowserOpens(d) ==
  /\ Stands(d, {"browser"})
  /\ \/ /\ PageOf[d] \in Pages
        /\ ListensAndOpens(PageOf[d], Wanted(d), d)
        /\ MovesTo(d, "capturing")
        /\ UNCHANGED <<env, index, kinds, asked, before, cookies, jar, got, failed>>
     \/ \E k \in {"transient", "stopped"} :
          /\ LET ks == kinds[d] \cup {k} IN FailsWith(d, ks, AfterBrowser(d, ks))
          /\ UNCHANGED <<asked, before, cookies, deviceVars>>

BrowserCaptures(d) ==
  /\ Stands(d, {"capturing"})
  /\ Closes(PageOf[d], d)
  /\ \/ \E w \in Offered(d) : Succeeds(d, w)
     \/ \E k \in {"app_only_gate", "stopped", "transient"} :
          /\ LET ks == kinds[d] \cup {k} IN FailsWith(d, ks, AfterBrowser(d, ks))
          /\ UNCHANGED <<asked, before, cookies>>

\* yt-dlp, once without and once with the account's cookies.
RunYtdlp(d) ==
  /\ Stands(d, {"ytdlp", "cookies"})
  /\ \/ Succeeds(d, Wanted(d))
     \/ \E k \in {"tiktok_web_403", "audio_only", "transient"} :
          LET ks == kinds[d] \cup {k} IN
          /\ FailsWith(d, ks,
               IF stage[d] = "cookies" \/ PageOf[d] = NoAccount \/ k = "tiktok_web_403"
                  \/ cookies[d] = "refused"
               THEN AfterYtdlp(d, ks)
               ELSE IF cookies[d] = "exported" THEN "cookies" ELSE "export")
          /\ UNCHANGED <<asked, before, cookies>>
  /\ UNCHANGED deviceVars

\* The cookies are exported once per run of the handler.
ExportCookies(d) ==
  /\ Stands(d, {"export"})
  /\ jar' = jar \cup {d}
  /\ \/ cookies' = [cookies EXCEPT ![d] = "exported"] /\ MovesTo(d, "cookies")
     \/ cookies' = [cookies EXCEPT ![d] = "refused"] /\ MovesTo(d, AfterYtdlp(d, kinds[d]))
  /\ UNCHANGED <<env, index, kinds, asked, before, got, failed, deviceVars>>

\* The phone: refused when disabled or absent, else the video is opened.
PhoneOpens(d) ==
  /\ Stands(d, {"phone", "fallback"})
  /\ asked' = [asked EXCEPT ![d] = @ + 1]
  /\ \/ /\ env.mobile
        /\ Opens(Phone, Wanted(d), d)
        /\ MovesTo(d, "opened")
        /\ UNCHANGED <<env, index, kinds, before, cookies, jar, got, failed>>
     \/ \E k \in IF env.mobile THEN {"device_unavailable", "transient"} ELSE {"stopped"} :
          /\ LET ks == kinds[d] \cup {k} IN FailsWith(d, ks, AfterPhone(d, ks))
          /\ UNCHANGED <<before, cookies, deviceVars>>

\* _pull_new_saved_video: the files are listed, and some awaits later Save is
\* found and tapped.
PhoneLists(d) ==
  /\ Stands(d, {"opened"})
  /\ ListFiles(d)
  /\ before' = [before EXCEPT ![d] = Len(gallery)]
  /\ MovesTo(d, "listed")
  /\ UNCHANGED <<env, index, kinds, asked, cookies, jar, got, failed>>

PhoneTapsSave(d) ==
  /\ Stands(d, {"listed"})
  /\ TapSave
  /\ MovesTo(d, "saving")
  /\ UNCHANGED <<env, index, kinds, asked, before, cookies, jar, got, failed>>

\* Mutant: takes the newest file, new or not.
PhonePullsAny(d) ==
  /\ Stands(d, {"saving"}) /\ HasNewFile(0)
  /\ Succeeds(d, NewestFile)
  /\ Closes(Phone, d)

PhonePulls(d) ==
  /\ Stands(d, {"saving"}) /\ HasNewFile(before[d])
  /\ Succeeds(d, NewestFile)
  /\ Closes(Phone, d)

AtPhone == {"opened", "listed", "saving"}

\* Verification, login, no Save button, no new file before the deadline, or
\* no video stream in it.
PhoneStops(d) ==
  /\ Stands(d, AtPhone)
  /\ \E k \in {"stopped", "transient"} :
       LET ks == kinds[d] \cup {k} IN FailsWith(d, ks, AfterPhone(d, ks))
  /\ before' = [before EXCEPT ![d] = 0]
  /\ Closes(Phone, d)
  /\ UNCHANGED <<asked, cookies>>

\* No attempt is left: the video has failed.
Settles(d) ==
  /\ Stands(d, {"settle"})
  /\ failed' = [failed EXCEPT ![d] = Append(@, <<Wanted(d), kinds[d] \cap Permanent # {}>>)]
  /\ Follows(d)
  /\ UNCHANGED <<got, deviceVars>>

\* _all_failures_are_permanent_download_failures, which the two more precise
\* messages before it imply.
Hopeless(d) ==
  /\ failed[d] # <<>>
  /\ \A i \in DOMAIN failed[d] : failed[d][i][2]

DownloadEnds(d) ==
  /\ Stands(d, {"next"}) /\ index[d] > Len(Selected[d])
  /\ jar' = jar \ {d}
  /\ MovesTo(d, IF got[d] # <<>> THEN "done" ELSE IF Hopeless(d) THEN "fatal" ELSE "retry")
  /\ cookies' = [cookies EXCEPT ![d] = "untried"]
  /\ UNCHANGED <<env, index, kinds, asked, before, got, failed, deviceVars>>

\* TASK_TIMEOUT or a shutdown cancels the handler; the profile's browser is
\* let go, a save that was tapped goes on.
DownloadCancelled(d) ==
  /\ stage[d] \notin Ended
  /\ MovesTo(d, "cancelled")
  /\ jar' = jar \ {d}
  /\ CASE stage[d] = "capturing" -> Closes(PageOf[d], d)
       [] stage[d] \in AtPhone -> Closes(Phone, d)
       [] OTHER -> UNCHANGED deviceVars
  /\ index' = [index EXCEPT ![d] = 1]
  /\ kinds' = [kinds EXCEPT ![d] = {}]
  /\ asked' = [asked EXCEPT ![d] = 0]
  /\ before' = [before EXCEPT ![d] = 0]
  /\ cookies' = [cookies EXCEPT ![d] = "untried"]
  /\ got' = [got EXCEPT ![d] = <<>>]
  /\ failed' = [failed EXCEPT ![d] = <<>>]
  /\ UNCHANGED env

DownloadStep(d) ==
  \/ RouteVideo(d) \/ BrowserOpens(d) \/ BrowserCaptures(d) \/ RunYtdlp(d)
  \/ ExportCookies(d) \/ PhoneOpens(d) \/ PhoneLists(d) \/ PhoneTapsSave(d) \/ PhonePulls(d)
  \/ PhoneStops(d) \/ Settles(d) \/ DownloadEnds(d)

\* The TikTok app of the device, on its own.
AppActs == (SaveLands \/ SaveIsLost) /\ UNCHANGED downloadVars

-----------------------------------------------------------------------------
(* Properties                                                              *)

\* The file filed under a video is that video, whichever attempt brought it,
\* unless another task used the same page or the phone during the attempt, an
\* earlier save was still under way when the files were listed, or the page
\* still showed something else when the listener was attached to it.
RightVideo ==
  \A d \in Downloads : \A i \in DOMAIN got[d] : got[d][i][3] => got[d][i][2] = got[d][i][1]
=============================================================================
