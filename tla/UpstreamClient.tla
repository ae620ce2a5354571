--------------------------- MODULE UpstreamClient ---------------------------
(***************************************************************************)
(* internal/client: programs of one user sign in to the upstream, sharing  *)
(* the token cache file, and one of them reads the catalog, the playlists  *)
(* of its lectures and a segment.  Every answer may redirect, and every    *)
(* link comes from the upstream: it may point to any origin and carry the  *)
(* bearer or a signature of its own.                                       *)
(*                                                                         *)
(* A token is a number in the order of issue.  A URL is what the origin    *)
(* policy sees of it: its origin, where it carries the bearer, and whether *)
(* it is signed.  Bodies, names and durations are left out.  net/http may  *)
(* or may not copy the Authorization header again when a redirect comes    *)
(* back to where the request began.  Production code sets no CheckRedirect *)
(* hook of its own.                                                        *)
(***************************************************************************)
EXTENDS Integers, Sequences, FiniteSets

CONSTANTS
  Programs,           \* processes of one user
  Reader,             \* the one that goes on to the catalog
  Links,              \* the URLs the upstream may hand out
  Configured,         \* the origins of cfg.MediaOrigins
  Scopes,             \* lists of institutes a catalog answer may hold, 0: omitted
  MaxRedirects,       \* defaultMaxRedirects
  MaxTokens,          \* bound: tokens issued
  MaxUcTroubles       \* bound: failures, expiries and kills

VARIABLES
  accepted,   \* the tokens the upstream accepts
  issued,     \* how many it has issued
  cache,      \* the content of the token cache file
  temp,       \* what each program has in its temporary file
  stored,     \* the token each program read from the cache
  token,      \* Client.token and cfg.Token
  stage,      \* where each program stands
  vouched,    \* history: the upstream has vouched for the program's token
  answer,     \* what the command of each program ended with
  call,    \* the request of the reader
  listed,    \* the institutes GetLectures returned
  scope,      \* the lectures' institutes after ResolveLectureScope
  found,      \* what the segments of each lecture so far are relative to
  lost,       \* some lecture had streams, but none of the wanted quality
  ucTroubles

Tokens == 1..MaxTokens
NoToken == 0
Torn == -1

Insecure == {"plain"}       \* remote HTTP
NoURL == [origin |-> "none", bearer |-> "no", signed |-> FALSE]
NoCall == [kind |-> "none"]
Base == [origin |-> "api", bearer |-> "no", signed |-> FALSE]   \* validateAndCanonicalizeBaseURL

ASSUME UpstreamAssumption ==
  /\ Reader \in Programs
  /\ Links \subseteq [origin : STRING, bearer : {"no", "query", "path"}, signed : BOOLEAN]
  /\ Configured \subseteq STRING /\ "plain" \notin Configured
  /\ Scopes \subseteq Seq(Nat)
  /\ {MaxRedirects, MaxTokens, MaxUcTroubles} \subseteq Nat

ucVars == <<accepted, issued, cache, temp, stored, token, stage, vouched, answer, call,
            listed, scope, found, lost, ucTroubles>>
signingIn == <<accepted, issued, cache, temp, stored, token, vouched>>
catalog == <<listed, scope, found, lost>>

UcInit ==
  /\ accepted = {} /\ issued = 0 /\ cache = NoToken
  /\ temp = [p \in Programs |-> NoToken]
  /\ stored = [p \in Programs |-> NoToken]
  /\ token = [p \in Programs |-> NoToken]
  /\ stage = [p \in Programs |-> "start"]
  /\ vouched = [p \in Programs |-> FALSE]
  /\ answer = [p \in Programs |-> "none"]
  /\ call = NoCall
  /\ listed = <<>> /\ scope = <<>> /\ found = <<>> /\ lost = FALSE
  /\ ucTroubles = 0

UcTrouble == ucTroubles < MaxUcTroubles /\ ucTroubles' = ucTroubles + 1

Ends(p, result) == stage' = [stage EXCEPT ![p] = "over"] /\ answer' = [answer EXCEPT ![p] = result]
GoesTo(p, place) == stage' = [stage EXCEPT ![p] = place] /\ UNCHANGED answer

---------------------------------------------------------------------------
(* Signing in: LoginAndSetToken. *)

ReadTokenCache(p) ==
  /\ stage[p] = "start"
  /\ \/ /\ cache \in Tokens
        /\ stored' = [stored EXCEPT ![p] = cache]
        /\ GoesTo(p, "validating") /\ UNCHANGED ucTroubles
     \/ /\ cache \in Tokens => UcTrouble      \* unreadable, or not private
        /\ cache \notin Tokens => UNCHANGED ucTroubles
        /\ GoesTo(p, "login") /\ UNCHANGED stored
  /\ UNCHANGED <<accepted, issued, cache, temp, token, vouched, call, catalog>>

(* setActiveToken. *)
SetActiveToken(p, t) ==
  /\ token' = [token EXCEPT ![p] = t]
  /\ vouched' = [vouched EXCEPT ![p] = t \in accepted']

(* Wrong variant: the cached token is used without asking the upstream. *)
TrustStoredToken(p, valid) == valid /\ UNCHANGED ucTroubles

(* user/profile with the stored token, following no redirect: anything but a
   200 is no. *)
ValidateStoredToken(p, valid) ==
  /\ valid => stored[p] \in accepted
  /\ IF ~valid /\ stored[p] \in accepted THEN UcTrouble ELSE UNCHANGED ucTroubles

TryStoredToken(p) ==
  /\ stage[p] = "validating" /\ UNCHANGED accepted
  /\ \E valid \in BOOLEAN :
       /\ ValidateStoredToken(p, valid)
       /\ IF valid THEN SetActiveToken(p, stored[p]) /\ GoesTo(p, "ready")
          ELSE GoesTo(p, "login") /\ UNCHANGED <<token, vouched>>
  /\ stored' = [stored EXCEPT ![p] = NoToken]
  /\ UNCHANGED <<issued, cache, temp, call, catalog>>

(* The answer to auth/signin; the token is active before it is written. *)
Login(p) ==
  /\ stage[p] = "login"
  /\ \/ /\ issued < MaxTokens
        /\ issued' = issued + 1 /\ accepted' = accepted \cup {issued'}
        /\ SetActiveToken(p, issued') /\ GoesTo(p, "creating") /\ UNCHANGED ucTroubles
     \/ /\ IF issued < MaxTokens THEN UcTrouble ELSE UNCHANGED ucTroubles
        /\ \E result \in {"auth", "failed"} : Ends(p, result)
        /\ UNCHANGED <<accepted, issued, token, vouched>>
  /\ UNCHANGED <<cache, temp, stored, call, catalog>>

WriteUnchanged == UNCHANGED <<accepted, issued, stored, token, vouched, call, catalog>>

CreateTokenCacheTemp(p) ==
  /\ stage[p] = "creating"
  /\ \/ temp' = [temp EXCEPT ![p] = Torn] /\ GoesTo(p, "writing") /\ UNCHANGED ucTroubles
     \/ UcTrouble /\ Ends(p, "failed") /\ UNCHANGED temp
  /\ UNCHANGED cache /\ WriteUnchanged

(* Wrong variant: the file is renamed before its bytes are complete. *)
WriteTokenCacheUnsynced(p) ==
  /\ stage[p] = "writing"
  /\ \/ GoesTo(p, "publishing") /\ UNCHANGED <<temp, ucTroubles>>
     \/ temp' = [temp EXCEPT ![p] = token[p]] /\ GoesTo(p, "publishing") /\ UNCHANGED ucTroubles
  /\ UNCHANGED cache /\ WriteUnchanged

(* Write, Sync and Close of the temporary file; it is removed on a failure. *)
WriteTokenCache(p) ==
  /\ stage[p] = "writing"
  /\ \/ temp' = [temp EXCEPT ![p] = token[p]] /\ GoesTo(p, "publishing") /\ UNCHANGED ucTroubles
     \/ UcTrouble /\ temp' = [temp EXCEPT ![p] = NoToken] /\ Ends(p, "failed")
  /\ UNCHANGED cache /\ WriteUnchanged

PublishTokenCache(p) ==
  /\ stage[p] = "publishing"
  /\ temp' = [temp EXCEPT ![p] = NoToken]
  /\ \/ cache' = temp[p] /\ GoesTo(p, "ready") /\ UNCHANGED ucTroubles
     \/ UcTrouble /\ Ends(p, "failed") /\ UNCHANGED cache
  /\ WriteUnchanged

---------------------------------------------------------------------------
(* Requests: GetAuthorizedWithTokenForOrigins and its redirects. *)

(* newBaseURLPolicy: the catalog trusts the base URL alone. *)
Policy(kind) == IF kind \in {"subjects", "lectures"} THEN {"api"} ELSE {"api"} \cup Configured

Allows(kind, origin) == origin \in Policy(kind)

(* Wrong variant: every credential-named parameter goes, a signature as well. *)
StripEveryCredential(url) == [url EXCEPT !.bearer = IF @ = "query" THEN "no" ELSE @, !.signed = FALSE]

(* Only the parameters that carry the bearer are removed. *)
StripBearerQuery(url) == [url EXCEPT !.bearer = IF @ = "query" THEN "no" ELSE @]

Carries(r) == r.header \/ r.url.bearer # "no"

(* Wrong variant: the bearer goes wherever the link points. *)
BeginAnywhere(kind, url) ==
  IF url.origin \in Insecure THEN Ends(Reader, "failed") /\ UNCHANGED call
  ELSE /\ call' = [kind |-> kind, initial |-> url.origin, url |-> url, given |-> url.signed,
                     header |-> TRUE, withheld |-> FALSE, hops |-> 0]
       /\ GoesTo(Reader, "asking")

(* validateRedirectCredentialBoundary, for a URL whose query has been freed. *)
Leaks(url) == url.bearer = "path"

(* The first request: with the bearer to an origin of the policy, without it
   elsewhere, and not at all when the link cannot be freed of it. *)
Begin(kind, url) ==
  LET allowed == Allows(kind, url.origin)
      sentURL == IF allowed THEN url ELSE StripBearerQuery(url)
  IN IF url.origin \in Insecure \/ (~allowed /\ Leaks(sentURL))
     THEN Ends(Reader, "failed") /\ UNCHANGED call
     ELSE /\ call' = [kind |-> kind, initial |-> url.origin, url |-> sentURL, given |-> url.signed,
                        header |-> allowed, withheld |-> ~allowed, hops |-> 0]
          /\ GoesTo(Reader, "asking")

(* validateMediaRedirect: HTTPS, and the origin of the request or one of the policy. *)
RedirectAllowed(r, url) ==
  /\ r.hops < MaxRedirects
  /\ url.origin \notin Insecure
  /\ url.origin = r.initial \/ Allows(r.kind, url.origin)

(* Wrong variant: the credentials stay on every redirect the policy allows. *)
KeepOnAllowed(r, url) == Allows(r.kind, r.initial)

(* The bearer stays only on the origin where the request was authorized. *)
KeepCredentials(r, url) == Allows(r.kind, r.initial) /\ url.origin = r.initial

Waiting == stage[Reader] = "asking" /\ UNCHANGED <<signingIn, catalog>>

(* handleMediaRedirect. *)
Redirect ==
  /\ Waiting /\ UNCHANGED ucTroubles
  /\ \E link \in Links :
       LET keep == KeepCredentials(call, link)
           next == IF keep THEN link ELSE StripBearerQuery(link)
       IN IF ~RedirectAllowed(call, link) \/ Leaks(next)
          THEN Ends(Reader, "failed") /\ UNCHANGED call
          ELSE /\ \E copied \in {call.header, ~call.withheld} :
                    call' = [call EXCEPT !.url = next, !.given = link.signed,
                                               !.header = keep /\ copied, !.hops = @ + 1]
               /\ UNCHANGED <<stage, answer>>

(* Wrong variant: a refusal without the bearer is reported as a failed login. *)
AnyRefusal(r, status) == IF status = "unauthorized" THEN "auth" ELSE "failed"

(* unconfiguredOriginRefusal, and the status checks of the callers. *)
Refusal(r, status) ==
  CASE r.withheld /\ status \in {"unauthorized", "forbidden"} -> "origin"
    [] ~r.withheld /\ status = "unauthorized" -> "auth"
    [] OTHER -> "failed"

(* The upstream refuses a token it does not accept; other refusals, broken
   bodies and lost connections are troubles. *)
RefusedToken == call.header /\ call.url.origin = "api" /\ token[Reader] \notin accepted

RequestFails ==
  /\ Waiting /\ UNCHANGED call
  /\ \E status \in {"unauthorized", "forbidden", "broken"} :
       /\ IF RefusedToken THEN status = "unauthorized" /\ UNCHANGED ucTroubles ELSE UcTrouble
       /\ Ends(Reader, Refusal(call, status))

---------------------------------------------------------------------------
(* The reader: courses, lectures, their institutes, playlists, a segment. *)

Succeeds(kind) ==
  /\ stage[Reader] = "asking" /\ call.kind = kind /\ ~RefusedToken
  /\ UNCHANGED <<signingIn, ucTroubles>>

Unasked == UNCHANGED <<signingIn, catalog, ucTroubles>>

GetLectures == stage[Reader] = "ready" /\ Begin("lectures", Base) /\ Unasked

LecturesListed ==
  /\ Succeeds("lectures") /\ call' = NoCall
  /\ listed' \in Scopes
  /\ GoesTo(Reader, "scoping") /\ UNCHANGED <<scope, found, lost>>

Institutes(list) == {list[i] : i \in DOMAIN list} \ {0}
Filled(list, institute) == [i \in DOMAIN list |-> IF list[i] = 0 THEN institute ELSE list[i]]

(* Wrong variant: the first institute stands for all of them. *)
FirstInstitute(institutes) == IF institutes = {} THEN 0 ELSE CHOOSE i \in institutes : \A j \in institutes : i <= j

(* uniqueInstituteID: 0 for none, -1 when ambiguous. *)
UniqueInstitute(institutes) ==
  CASE institutes = {} -> 0
    [] Cardinality(institutes) = 1 -> CHOOSE i \in institutes : TRUE
    [] OTHER -> -1

(* ResolveLectureScope, which asks the catalog only for institutes that no
   lecture names. *)
ResolveLectureScope ==
  /\ stage[Reader] = "scoping" /\ UNCHANGED <<signingIn, listed, found, lost, ucTroubles>>
  /\ LET institute == UniqueInstitute(Institutes(listed)) IN
       \/ /\ institute = -1 /\ Ends(Reader, "failed") /\ UNCHANGED <<call, scope>>
       \/ /\ institute = 0 /\ listed # <<>>
          /\ GoesTo(Reader, "courses") /\ UNCHANGED <<call, scope>>
       \/ /\ institute > 0 \/ listed = <<>>
          /\ scope' = Filled(listed, institute)
          /\ GoesTo(Reader, "streams") /\ UNCHANGED call

GetCourses == stage[Reader] = "courses" /\ Begin("subjects", Base) /\ Unasked

InstituteFromCatalog ==
  /\ Succeeds("subjects") /\ call' = NoCall
  /\ UNCHANGED <<listed, found, lost>>
  /\ \E courses \in Scopes :
       LET institute == UniqueInstitute(Institutes(courses)) IN
       IF institute > 0 THEN scope' = Filled(listed, institute) /\ GoesTo(Reader, "streams")
       ELSE Ends(Reader, "failed") /\ UNCHANGED scope

(* The lecture GetPlaylists is at. *)
Current == Len(found) + 1

GetStreamInfos ==
  /\ stage[Reader] = "streams" /\ Current <= Len(scope)
  /\ Begin("streams", [Base EXCEPT !.bearer = "query"]) /\ Unasked

(* The next lecture of GetPlaylists; segments of this one are relative to url. *)
NextLectureAt(url) == found' = Append(found, url) /\ call' = NoCall /\ GoesTo(Reader, "streams")

(* SelectStreamByQuality: no stream at all, none of the quality, or a link. *)
StreamInfos ==
  /\ Succeeds("streams") /\ UNCHANGED <<listed, scope>>
  /\ \/ NextLectureAt(NoURL) /\ UNCHANGED lost
     \/ NextLectureAt(NoURL) /\ lost' = TRUE
     \/ \E link \in Links : Begin("playlist", link) /\ UNCHANGED <<found, lost>>

(* A relative reference keeps the path of the URL that answered, not its query. *)
Relative(url) == [url EXCEPT !.bearer = IF @ = "query" THEN "no" ELSE @, !.signed = FALSE]

Playlist ==
  /\ Succeeds("playlist") /\ NextLectureAt(Relative(call.url))
  /\ UNCHANGED <<listed, scope, lost>>

Parsed == {i \in DOMAIN found : found[i] # NoURL}

(* GetPlaylists returns; a download goes on to the segments. *)
PlaylistsReturned ==
  /\ stage[Reader] = "streams" /\ Current > Len(scope)
  /\ IF Parsed = {} THEN Ends(Reader, IF lost THEN "quality" ELSE "nothing")
     ELSE GoesTo(Reader, "segments")
  /\ UNCHANGED <<signingIn, catalog, call, ucTroubles>>

GetSegment ==
  /\ stage[Reader] = "segments"
  /\ \E url \in {found[i] : i \in Parsed} \cup Links : Begin("segment", url)
  /\ Unasked

Segment == Succeeds("segment") /\ UNCHANGED <<call, catalog>> /\ Ends(Reader, "ok")

---------------------------------------------------------------------------
(* The upstream drops a token; a program is killed, or started again. *)

Expire ==
  /\ \E t \in accepted : accepted' = accepted \ {t}
  /\ UcTrouble
  /\ UNCHANGED <<issued, cache, temp, stored, token, stage, vouched, answer, call, catalog>>

KillProgram(p) ==
  /\ stage[p] # "over" /\ UcTrouble
  /\ stage' = [stage EXCEPT ![p] = "start"]
  /\ temp' = [temp EXCEPT ![p] = NoToken]      \* the next one has a name of its own
  /\ token' = [token EXCEPT ![p] = NoToken] /\ vouched' = [vouched EXCEPT ![p] = FALSE]
  /\ stored' = [stored EXCEPT ![p] = NoToken]
  /\ IF p = Reader
     THEN call' = NoCall /\ listed' = <<>> /\ scope' = <<>> /\ found' = <<>> /\ lost' = FALSE
     ELSE UNCHANGED <<call, catalog>>
  /\ UNCHANGED <<accepted, issued, cache, answer>>

(* A program that only signs in. *)
SignedIn(p) ==
  /\ p # Reader /\ stage[p] = "ready" /\ Ends(p, "ok")
  /\ UNCHANGED <<signingIn, catalog, call, ucTroubles>>

Reads ==
  \/ GetLectures \/ LecturesListed \/ ResolveLectureScope \/ GetCourses \/ InstituteFromCatalog
  \/ GetStreamInfos \/ StreamInfos \/ Playlist \/ PlaylistsReturned
  \/ GetSegment \/ Segment \/ Redirect \/ RequestFails

UcProgress ==
  \/ Reads
  \/ \E p \in Programs :
       \/ ReadTokenCache(p) \/ TryStoredToken(p) \/ Login(p)
       \/ CreateTokenCacheTemp(p) \/ WriteTokenCache(p) \/ PublishTokenCache(p) \/ SignedIn(p)

UcNext == UcProgress \/ Expire \/ \E p \in Programs : KillProgram(p)

---------------------------------------------------------------------------
(* The bearer leaves the program only for an origin its policy names, and
   only for the one the request began at, whatever the upstream links and
   redirects to and however often. *)
BearerStays ==
  stage[Reader] = "asking" /\ Carries(call) =>
    call.url.origin = call.initial /\ Allows(call.kind, call.initial)

(* A signed link is asked for as it was signed (a change of the query would
   invalidate it), also where the bearer is withheld. *)
SignaturesKept == stage[Reader] = "asking" => call.url.signed = call.given

(* "Sign in again" is said only of a request that was sent with the login, and
   "configure this origin" only of an origin that is not configured. *)
RefusalsExplained ==
  stage[Reader] = "over" /\ call # NoCall =>
    /\ answer[Reader] = "auth" => ~call.withheld
    /\ answer[Reader] = "origin" => ~Allows(call.kind, call.initial)

(* No program reads half a token, and none goes on with a token the upstream
   has not vouched for in this very run. *)
CacheWhole == cache # Torn
SignedInTruly == \A p \in Programs : stage[p] \notin {"start", "validating", "login", "over"} => vouched[p]

(* The lectures handed on belong to one institute, and to the one they named. *)
ScopeComplete ==
  /\ Cardinality(Institutes(scope)) <= 1
  /\ \A i \in DOMAIN scope : scope[i] > 0 /\ listed[i] \in {0, scope[i]}

UcSafe == BearerStays /\ SignaturesKept /\ RefusalsExplained /\ CacheWhole /\ SignedInTruly /\ ScopeComplete

UcEnded == \A p \in Programs : stage[p] = "over"
=============================================================================
