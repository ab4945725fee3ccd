------------------------------- MODULE DocsPage -------------------------------
(***************************************************************************)
(* The documentation page: the files of DOCS_DIR that the documentation    *)
(* routes serve, the browser's cache under the Cache-Control of each       *)
(* route, a build that copies new files while pages load, and the page     *)
(* itself until it shows its specification.  Every route has its own       *)
(* lifetime, so a page may be made of several releases.                    *)
(***************************************************************************)
EXTENDS Naturals

CONSTANTS
    Hosts,        \* the names under which the server can be reached
    MaxAge,       \* max-age of the vendored files, in ticks
    MaxRelease,   \* bound: releases of the documentation
    BundleQuery,  \* the ?v= that the page of a release asks the bundle with
    Rank,         \* in which order copy_directory comes upon the files
    Waiting, Lost \* of a part: not there yet, not to be had

Scripts == {"swagger-ui-bundle.js", "swagger-initializer.js"}
Assets == Scripts \cup {"swagger-ui.css", "todod-swagger.css"}
Vendored == {"swagger-ui.css", "swagger-ui-bundle.js"}
Files == Assets \cup {"swagger.html", "openapi.json"}

Releases == 1..MaxRelease

ASSUME DocsAssumption ==
    /\ MaxAge \in Nat \ {0} /\ MaxRelease \in Nat \ {0}
    /\ BundleQuery \in [Releases -> STRING]
    /\ Rank \in [Files -> Nat]
    /\ Waiting # Lost /\ Waiting \notin Nat /\ Lost \notin Nat

(* What a file has inside: the release it is of, or nothing usable: it is  *)
(* not there (404) or only a part of it is.                                *)
Contents == Releases \cup {0}

VARIABLES
    docsDir,   \* the contents of the files the server serves
    release,   \* the release that is installed or being installed
    quiet,     \* ticks since it was installed, up to MaxAge
    cache,     \* the browser's copies that may be reused, by URL
    stage,     \* of the page: none, html, assets, spec, shown, broken
    host,      \* window.location.origin; copies are kept by origin
    parts,     \* what the page got of each file
    opened,    \* history: release and quiet when it was opened
    early      \* history: was the release's bundle asked for before it was there?

server == <<docsDir, release, quiet>>
page == <<stage, host, parts, opened>>
vars == <<server, cache, page, early>>

Miss == [content |-> 0, left |-> 0]
Entry == [content : Contents, left : 1..MaxAge] \cup {Miss}
Queries == {BundleQuery[r] : r \in Releases} \cup {"none"}
Urls == [file : Files, query : Queries]

NothingYet == [f \in Files |-> Waiting]

Init ==
    /\ docsDir = [f \in Files |-> 1] /\ release = 1 /\ quiet = MaxAge
    /\ cache = [u \in Urls |-> Miss]
    /\ stage = "none" /\ host \in Hosts /\ parts = NothingYet
    /\ opened = [release |-> 1, quiet |-> MaxAge] /\ early = FALSE

Installed == \A f \in Files : docsDir[f] = release

(* A build starts: todod_docs copies the directory, file by file.          *)
NewRelease ==
    /\ Installed /\ release < MaxRelease
    /\ release' = release + 1 /\ quiet' = 0 /\ early' = FALSE
    /\ UNCHANGED <<docsDir, cache, page>>

(* A file is removed before it is written anew.                            *)
Remove(f) ==
    /\ docsDir[f] \notin {0, release}
    /\ \A g \in Files : Rank[g] < Rank[f] => docsDir[g] = release
    /\ docsDir' = [docsDir EXCEPT ![f] = 0]
    /\ UNCHANGED <<release, quiet, cache, page, early>>

Write(f) ==
    /\ docsDir[f] = 0
    /\ docsDir' = [docsDir EXCEPT ![f] = release]
    /\ UNCHANGED <<release, quiet, cache, page, early>>

(* Time passes: copies age, and go when they are max-age old.              *)
Older(entry) ==
    IF entry.left <= 1 THEN Miss ELSE [entry EXCEPT !.left = @ - 1]

Tick ==
    /\ cache' = [u \in Urls |-> Older(cache[u])]
    /\ quiet' = IF Installed /\ quiet < MaxAge THEN quiet + 1 ELSE quiet
    /\ UNCHANGED <<docsDir, release, page, early>>
-----------------------------------------------------------------------------
InitializerKept(f) ==                                             \* mutant
    IF f \in {"swagger-initializer.js", "swagger-ui-bundle.js"} THEN "max-age" ELSE "no-store"

(* The Cache-Control of each route.  no-cache asks for a revalidation, and *)
(* Crow sends no validator: like no-store, it fetches the file anew.       *)
CacheControl(f) ==
    CASE f \in {"swagger.html", "openapi.json"} -> "no-store"
      [] f \in Vendored -> "max-age"
      [] f \in {"todod-swagger.css", "swagger-initializer.js"} -> "no-cache"

(* The URL swagger.html refers to the file by; only one has a version.     *)
Unversioned(f) == [file |-> f, query |-> "none"]                  \* mutant
Url(f) ==
    [file |-> f,
     query |-> IF f = "swagger-ui-bundle.js" THEN BundleQuery[parts["swagger.html"]]
               ELSE "none"]

Get(f, content) == parts' = [parts EXCEPT ![f] = content]

(* The new page is out, the bundle it names is not: the server answers its *)
(* URL with an old one, or with a 404.                                     *)
TooEarly(f) ==
    /\ f = "swagger-ui-bundle.js" /\ docsDir[f] # release
    /\ Url(f).query = BundleQuery[release]

KeptTooLong(f) ==                                                 \* mutant
    /\ Get(f, docsDir[f])
    /\ cache' = IF CacheControl(f) = "max-age"
                THEN [cache EXCEPT ![Url(f)] = [content |-> docsDir[f], left |-> MaxAge + 1]]
                ELSE cache
    /\ early' = (early \/ TooEarly(f))

(* serveFile adds Cache-Control before it looks for the file: a 404 for a  *)
(* vendored file may be reused for as long as the file.                    *)
FromServer(f) ==
    /\ Get(f, docsDir[f])
    /\ cache' = IF CacheControl(f) = "max-age"
                THEN [cache EXCEPT ![Url(f)] = [content |-> docsDir[f], left |-> MaxAge]]
                ELSE cache
    /\ early' = (early \/ TooEarly(f))

FromCache(f) ==
    /\ cache[Url(f)] # Miss
    /\ Get(f, cache[Url(f)].content)
    /\ UNCHANGED <<cache, early>>

(* The server cannot be reached, or the connection breaks.                 *)
Fails(f) == Get(f, Lost) /\ UNCHANGED <<cache, early>>

Fetch(f) == parts[f] = Waiting /\ (FromServer(f) \/ FromCache(f) \/ Fails(f))
Usable(f) == parts[f] \in Releases
-----------------------------------------------------------------------------
(* The user opens or reloads the page.                                     *)
Open ==
    /\ stage' = "html" /\ parts' = NothingYet
    /\ opened' = [release |-> IF Installed THEN release ELSE 0, quiet |-> quiet]
    /\ UNCHANGED <<server, cache, host, early>>

GetPage ==
    /\ stage = "html"
    /\ Fetch("swagger.html")
    /\ stage' = IF parts'["swagger.html"] \in Releases THEN "assets" ELSE "broken"
    /\ UNCHANGED <<server, host, opened>>

GetAsset ==
    /\ stage = "assets"
    /\ \E f \in Assets : Fetch(f)
    /\ UNCHANGED <<server, stage, host, opened>>

(* The load event comes after every file of the page, found or not; it     *)
(* needs the handler the initializer registers and the bundle's function.  *)
Load ==
    /\ stage = "assets"
    /\ \A f \in Assets : parts[f] # Waiting
    /\ stage' = IF \A f \in Scripts : Usable(f) THEN "spec" ELSE "broken"
    /\ UNCHANGED <<server, cache, host, parts, opened, early>>

(* new URL(target, window.location.origin)                                 *)
Resolve(target) == IF target = "relative" THEN host ELSE target

FixedTarget == CHOOSE h \in Hosts : TRUE                          \* mutant
SpecTarget == Resolve("relative")

(* requestInterceptor                                                      *)
Intercept(target) == Resolve(target)

(* connect-src 'self'                                                      *)
Admitted(target) == target = host

(* SwaggerUIBundle fetches the specification; with it the page is shown.   *)
(* What the policy does not admit the browser does not even try to fetch.  *)
GetSpec ==
    /\ stage = "spec"
    /\ IF Admitted(Intercept(SpecTarget))
       THEN Fetch("openapi.json") ELSE UNCHANGED <<cache, parts, early>>
    /\ stage' = IF parts'["openapi.json"] \in Releases THEN "shown" ELSE "broken"
    /\ UNCHANGED <<server, host, opened>>

Build == NewRelease \/ \E f \in Files : Remove(f) \/ Write(f)
Browse == Open \/ GetPage \/ GetAsset \/ Load \/ GetSpec

Next == Build \/ Tick \/ Browse

Spec == Init /\ [][Next]_vars
-----------------------------------------------------------------------------
TypeOK ==
    /\ docsDir \in [Files -> Contents]
    /\ release \in Releases
    /\ quiet \in 0..MaxAge
    /\ cache \in [Urls -> Entry]
    /\ stage \in {"none", "html", "assets", "spec", "shown", "broken"}
    /\ host \in Hosts
    /\ parts \in [Files -> Contents \cup {Waiting, Lost}]
    /\ opened \in [release : Releases \cup {0}, quiet : 0..MaxAge]
    /\ early \in BOOLEAN

(* Was the page opened with the present release completely installed?      *)
OpenedOnRelease == opened.release = release
OfRelease(f) == parts[f] \in {Waiting, Lost, release}

(* A page opened on an installed release shows its specification, and runs *)
(* its initializer and style sheet, whatever the browser saw before: only  *)
(* the two vendored files may be of another release.                       *)
OwnPartsAreCurrent ==
    OpenedOnRelease => \A f \in Files \ Vendored : OfRelease(f)

(* Once the release has been installed for max-age, every page is of one   *)
(* release: no old copy survives, not even one fetched while the build was *)
(* replacing files, of a file that was just missing or of an old bundle    *)
(* under the new page's URL.                                               *)
OneReleaseAfterMaxAge ==
    OpenedOnRelease /\ opened.quiet = MaxAge => \A f \in Files : OfRelease(f)

(* Such a page is broken only if the server could not be reached: the      *)
(* initializer, the policy of its answers and the routes agree.            *)
BreaksOnlyWhenLost ==
    stage = "broken" /\ OpenedOnRelease /\ opened.quiet = MaxAge =>
        \E f \in Files : parts[f] = Lost

(* The release asks for the bundle with a version no earlier release used. *)
NewVersion == \A r \in Releases : r < release => BundleQuery[r] # BundleQuery[release]

(* What the ?v= of swagger.html is for: a page opened on a release that    *)
(* changed it never runs an old bundle, however recently the browser       *)
(* stored one, unless it asked for the new one while the build was still   *)
(* copying: the order of the copies is the one gap.                        *)
VersionProtectsBundle ==
    OpenedOnRelease /\ NewVersion /\ ~early => OfRelease("swagger-ui-bundle.js")
=============================================================================
