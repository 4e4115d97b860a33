----------------------------- MODULE MediaFiles -----------------------------
(***************************************************************************)
(* The files one video leaves in a job's downloads directory               *)
(* (workers/handlers/tiktok/download_videos.py), all named video_NN, and   *)
(* the verdicts its attempts draw from them.  Which attempts a video gets  *)
(* is VideoDownload's: here any may be passed over, in their order.  A     *)
(* cancelled handler leaves its yt-dlp process behind.                     *)
(***************************************************************************)
EXTENDS Naturals, FiniteSets

CONSTANTS
  MaxOffers,      \* media urls the page offers
  MaxRuns         \* runs of the handler (bound)

VARIABLES
  files,      \* what is on disk under each name
  attempt,       \* where the handler stands
  offers,     \* browser candidates left to fetch
  verdicts,   \* the failure kinds of attempt_errors
  filed,      \* video_paths: the name that was returned, or "none"
  orphan,     \* a cancelled run's yt-dlp is still at work
  runs

mediaFileVars == <<files, attempt, offers, verdicts, filed, orphan, runs>>

FileNames == {"mp4", "webm", "m4a", "part", "invalid"}
Bodies == {"video", "sound", "tiny", "junk"}
Attempt == <<"clean", "browser", "fetching", "ytdlp", "cookies", "phone", "opened", "tapped", "settle">>
Rank(s) == CHOOSE n \in DOMAIN Attempt : Attempt[n] = s
\* The attempts that can follow one that did not bring a file.
Following(s) == {t \in {"browser", "ytdlp", "cookies", "phone", "settle"} : Rank(t) > Rank(s)}

PermanentKinds == {"app_only_gate", "audio_only", "tiktok_web_403", "verification_required",
  "mobile_verification_required", "mobile_login_required", "mobile_save_no_new_file",
  "mobile_invalid_video_stream", "mobile_download_not_available", "mobile_device_unavailable",
  "mobile_fallback_disabled",
  "browser_media_not_found", "browser_download_failed"}

On(name) == files[name] # "none"

MediaFilesInit ==
  /\ files = [n \in FileNames |-> "none"]
  /\ attempt = "off" /\ offers = 0 /\ verdicts = {} /\ filed = "none"
  /\ orphan = FALSE /\ runs = 0

-----------------------------------------------------------------------------
(* Cleaning and marking: each operation on a file may be refused by the    *)
(* operating system, and the handler goes on.                              *)

\* _remove_existing_attempt_files, before the attempts at a video.
Cleans ==
  /\ attempt = "off" /\ runs < MaxRuns
  /\ runs' = runs + 1
  /\ \E kept \in SUBSET {n \in FileNames : On(n)} :
       files' = [n \in FileNames |-> IF n \in kept THEN files[n] ELSE "none"]
  /\ verdicts' = {} /\ filed' = "none"
  /\ \E s \in Following("clean") : attempt' = s
  /\ UNCHANGED <<offers, orphan>>

\* _mark_invalid_download: renamed over an older .invalid, else unlinked,
\* else left.
MarkedInvalid(fs, how) ==
  CASE fs["mp4"] = "none" -> fs
    [] how = "renamed" -> [fs EXCEPT !["invalid"] = "junk", !["mp4"] = "none"]
    [] how = "unlinked" -> [fs EXCEPT !["mp4"] = "none", !["invalid"] = "none"]
    [] OTHER -> fs

Marks(fs) ==
  \E how \in {"renamed", "unlinked", "left"} : files' = MarkedInvalid(fs, how)

\* An attempt is over without a file.
Fails(kind) ==
  /\ verdicts' = verdicts \cup {kind}
  /\ \E s \in Following(attempt) : attempt' = s

Files(name) == filed' = name /\ attempt' = "settle" /\ UNCHANGED verdicts

\* ffprobe's answer: the streams of the file, or no answer.
HasVideo(body) == body \in {"video", "tiny"}
Probed(body) == CASE HasVideo(body) -> "video" [] body = "sound" -> "no_video" [] OTHER -> "probe_failed"

-----------------------------------------------------------------------------
(* The browser                                                             *)

\* The page shows the video, the gate, a verification, or no media url; the
\* urls of the network and of the DOM are deduplicated, eight are kept.
BrowserShows ==
  /\ attempt = "browser"
  /\ \/ \E n \in 1..MaxOffers : offers' = n /\ attempt' = "fetching" /\ UNCHANGED verdicts
     \/ \E k \in {"app_only_gate", "verification_required", "browser_media_not_found",
                  "browser_capture_failed", "browser_account_missing"} :
          Fails(k) /\ UNCHANGED offers
  /\ UNCHANGED <<files, filed, orphan, runs>>

\* What comes of a url: the answer to the context's request when it is whole,
\* else the page's own fetch when that one is accepted or the request was not.
Answers == [ok : BOOLEAN, body : Bodies]
Whole(a) == a.ok /\ a.body \in {"video", "sound"}
Fetched(request, fetch) ==
  IF Whole(request) \/ (request.ok /\ ~fetch.ok) THEN request ELSE fetch

\* The file is written over what is there; one that is too small or shows no
\* video is marked, and so is whatever is there when anything raises.
FetchCandidate ==
  /\ attempt = "fetching" /\ offers > 0
  /\ offers' = offers - 1
  /\ \/ \E request, fetch \in Answers :
          LET a == Fetched(request, fetch)
              written == [files EXCEPT !["mp4"] = a.body] IN
          CASE ~a.ok -> UNCHANGED <<files, filed, attempt, verdicts>>
            [] a.ok /\ a.body = "video" -> files' = written /\ Files("mp4")
            [] OTHER -> Marks(written) /\ UNCHANGED <<filed, attempt, verdicts>>
     \/ \E b \in Bodies : Marks([files EXCEPT !["mp4"] = b]) /\ UNCHANGED <<filed, attempt, verdicts>>
     \/ Marks(files) /\ UNCHANGED <<filed, attempt, verdicts>>
  /\ UNCHANGED <<orphan, runs>>

BrowserGivesUp ==
  /\ attempt = "fetching" /\ offers = 0
  /\ Fails("browser_download_failed")
  /\ UNCHANGED <<files, offers, filed, orphan, runs>>

-----------------------------------------------------------------------------
(* yt-dlp                                                                  *)

\* What a yt-dlp process leaves: merged into mp4 when it can, else the
\* container or the sound it got; a failed one may leave parts.
Produces(fs) ==
  {fs} \cup {[fs EXCEPT ![n] = b] : n \in {"mp4", "webm"}, b \in {"video", "sound"}}
       \cup {[fs EXCEPT !["m4a"] = "sound"]}

\* _find_downloaded_file: an mp4 first, whoever wrote it.
Found(fs) == CASE fs["mp4"] # "none" -> "mp4" [] fs["webm"] # "none" -> "webm" [] OTHER -> "none"

YtdlpVerdict(fs) ==
  CASE Found(fs) = "none" -> IF fs["m4a"] # "none" THEN "audio_only" ELSE "missing_output"
    [] Probed(fs[Found(fs)]) = "video" -> "ok"
    [] Probed(fs[Found(fs)]) = "no_video" -> "audio_only"
    [] OTHER -> "probe_failed"

YtdlpEnds ==
  /\ attempt \in {"ytdlp", "cookies"}
  /\ \/ \E fs \in Produces(files) :
          /\ files' = fs
          /\ IF YtdlpVerdict(fs) = "ok" THEN Files(Found(fs)) ELSE Fails(YtdlpVerdict(fs)) /\ UNCHANGED filed
     \/ \E fs \in {files, [files EXCEPT !["part"] = "junk"]}, k \in {"tiktok_web_403", "yt_dlp_error"} :
          files' = fs /\ Fails(k) /\ UNCHANGED filed
  /\ UNCHANGED <<offers, orphan, runs>>

\* TASK_TIMEOUT, a shutdown or a crash: run_subprocess kills its process only
\* for its own timeout.  A new run follows in the same directory.
HandlerCancelled ==
  /\ attempt \notin {"off", "settle", "over"}
  /\ orphan' = (orphan \/ attempt \in {"ytdlp", "cookies"})
  /\ attempt' = "off" /\ offers' = 0 /\ verdicts' = {}
  /\ UNCHANGED <<files, filed, runs>>

OrphanEnds ==
  /\ orphan
  /\ orphan' = FALSE
  /\ \E fs \in Produces(files) :
       files' = fs
  /\ UNCHANGED <<attempt, offers, verdicts, filed, runs>>

-----------------------------------------------------------------------------
(* The phone: a screen is read by uiautomator, and one that cannot be read *)
(* asks for nothing and shows nothing.                                     *)

Uis == {"verification", "login", "save", "menu", "plain", "unreadable"}
Asks(ui) == ui \in {"verification", "login"}
AskedKind(ui) == IF ui = "verification" THEN "mobile_verification_required" ELSE "mobile_login_required"

PhoneShows ==
  /\ attempt = "phone"
  /\ \/ \E k \in {"mobile_fallback_disabled", "mobile_device_unavailable", "mobile_open_failed"} : Fails(k)
     \/ \E ui \in Uis :
          IF Asks(ui) THEN Fails(AskedKind(ui)) ELSE attempt' = "opened" /\ UNCHANGED verdicts
  /\ UNCHANGED <<files, offers, filed, orphan, runs>>

\* Save is looked for on the screen, then behind Share or More; what the app
\* asks for there counts as no Save.
PhoneTaps ==
  /\ attempt = "opened"
  /\ \E ui, under \in Uis :
       CASE Asks(ui) -> Fails(AskedKind(ui))
         [] ui = "save" \/ (ui = "menu" /\ under = "save") -> attempt' = "tapped" /\ UNCHANGED verdicts
         [] OTHER -> Fails("mobile_download_not_available")
  /\ UNCHANGED <<files, offers, filed, orphan, runs>>

\* A new file whose size has settled replaces video_NN.mp4; the provider
\* marks one without video, the handler refuses one that is too small.
PhoneFiles ==
  /\ attempt = "tapped"
  /\ \/ \E k \in {"mobile_save_no_new_file", "mobile_download_not_available"} :
          Fails(k) /\ UNCHANGED <<files, filed>>
     \/ \E b \in Bodies : LET pulled == [files EXCEPT !["mp4"] = b] IN
          CASE b = "video" -> files' = pulled /\ Files("mp4")
            [] b = "tiny" -> files' = pulled /\ Fails("mobile_invalid_video_stream") /\ UNCHANGED filed
            [] OTHER -> Marks(pulled) /\ Fails("mobile_invalid_video_stream") /\ UNCHANGED filed
  /\ UNCHANGED <<offers, orphan, runs>>

-----------------------------------------------------------------------------

\* The handler is over: its video is filed, it failed for good, or it asks
\* to run again.
Permanently == verdicts \cap PermanentKinds # {}
MediaSettles ==
  /\ attempt = "settle"
  /\ attempt' = IF filed = "none" /\ ~Permanently THEN "off" ELSE "over"
  /\ UNCHANGED <<files, offers, verdicts, filed, orphan, runs>>

MediaFilesNext ==
  \/ Cleans \/ BrowserShows \/ FetchCandidate \/ BrowserGivesUp \/ YtdlpEnds
  \/ HandlerCancelled \/ OrphanEnds \/ PhoneShows \/ PhoneTaps \/ PhoneFiles \/ MediaSettles
=============================================================================
