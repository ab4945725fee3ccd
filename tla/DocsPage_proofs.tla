---------------------------- MODULE DocsPage_proofs ----------------------------
(***************************************************************************)
(* Proofs about DocsPage, for every lifetime, every number of releases,    *)
(* every order of copying and every choice of bundle versions.             *)
(***************************************************************************)
EXTENDS DocsPage, TLAPS

(* Only the vendored files are kept, and a copy that is not of the release *)
(* was fetched before the release was installed: it has to go by the time  *)
(* the release has been installed for MaxAge.                              *)
CacheInv ==
    /\ ~Installed => quiet = 0
    /\ \A u \in Urls : CacheControl(u.file) # "max-age" => cache[u] = Miss
    /\ \A u \in Urls : cache[u] # Miss /\ cache[u].content # release
                          => cache[u].left + quiet <= MaxAge

(* A page opened on the release finds it installed until the next one.     *)
PageInv ==
    /\ opened.release <= release
    /\ OpenedOnRelease => Installed /\ opened.quiet <= quiet
    /\ stage = "assets" => parts["swagger.html"] \in Releases

(* The browser knows the bundle under the URLs of the releases so far only;*)
(* what it stored under a new one is the new bundle, if not asked too early*)
BundleInv ==
    /\ \A f \in Files : docsDir[f] <= release
    /\ parts["swagger.html"] \in Releases => parts["swagger.html"] <= release
    /\ \A u \in Urls : u.file = "swagger-ui-bundle.js" /\ cache[u] # Miss =>
          \E r \in Releases : r <= release /\ u.query = BundleQuery[r]
    /\ NewVersion /\ ~early =>
          \A u \in Urls : /\ u.file = "swagger-ui-bundle.js" /\ cache[u] # Miss
                         /\ u.query = BundleQuery[release]
                         => cache[u].content = release

Inv ==
    /\ TypeOK /\ CacheInv /\ PageInv /\ BundleInv
    /\ OwnPartsAreCurrent /\ OneReleaseAfterMaxAge
    /\ BreaksOnlyWhenLost /\ VersionProtectsBundle

LEMMA Constants ==
    /\ MaxAge \in Nat \ {0} /\ MaxRelease \in Nat \ {0}
    /\ 1 \in Releases /\ Releases \subseteq Nat \ {0}
    /\ Waiting # Lost /\ Waiting \notin Contents /\ Lost \notin Contents
    /\ Miss \in Entry /\ Miss.left = 0
    /\ NothingYet \in [Files -> {Waiting}] /\ \A f \in Files : NothingYet[f] = Waiting
    /\ Waiting \notin Releases /\ Lost \notin Releases
    /\ "none" \in Queries /\ \A r \in Releases : BundleQuery[r] \in Queries
BY DocsAssumption DEF Releases, Contents, Entry, Miss, Queries, NothingYet

LEMMA FilesOf ==
    /\ Scripts \subseteq Assets /\ Assets \subseteq Files
    /\ "swagger.html" \in Files /\ "openapi.json" \in Files
    /\ "swagger.html" \notin Assets
    /\ \A f \in Files \ Vendored : CacheControl(f) # "max-age"
BY DEF Scripts, Assets, Files, Vendored, CacheControl

LEMMA InitInv == Init => Inv
<1> SUFFICES ASSUME Init PROVE Inv
    OBVIOUS
<1>1. TypeOK
    <2>1. /\ docsDir \in [Files -> Contents] /\ cache \in [Urls -> Entry]
          /\ parts \in [Files -> Contents \cup {Waiting, Lost}]
        BY Constants DEF Init, Contents
    <2>2. /\ release \in Releases /\ quiet \in 0..MaxAge /\ host \in Hosts
        BY Constants DEF Init
    <2>3. opened \in [release : Releases \cup {0}, quiet : 0..MaxAge]
        BY Constants DEF Init
    <2>4. stage \in {"none", "html", "assets", "spec", "shown", "broken"} /\ early \in BOOLEAN
        BY DEF Init
    <2> QED
        BY <2>1, <2>2, <2>3, <2>4 DEF TypeOK
<1>2. CacheInv
    BY Constants DEF Init, CacheInv, Installed
<1>3. PageInv
    BY Constants DEF Init, PageInv, Installed, OpenedOnRelease
<1>4. BundleInv
    <2>1. parts["swagger.html"] \notin Releases
        BY Constants, FilesOf DEF Init
    <2>2. release = 1 /\ \A f \in Files : docsDir[f] = 1
        BY DEF Init
    <2>3. \A u \in Urls : cache[u] = Miss
        BY DEF Init
    <2> QED
        BY <2>1, <2>2, <2>3 DEF BundleInv
<1>5. \A f \in Files : OfRelease(f)
    BY Constants DEF Init, OfRelease
<1>6. OwnPartsAreCurrent /\ OneReleaseAfterMaxAge /\ VersionProtectsBundle
    BY <1>5, FilesOf DEF OwnPartsAreCurrent, OneReleaseAfterMaxAge, VersionProtectsBundle, Scripts
<1>7. BreaksOnlyWhenLost
    BY DEF Init, BreaksOnlyWhenLost
<1> QED
    BY <1>1, <1>2, <1>3, <1>4, <1>6, <1>7 DEF Inv

LEMMA NewReleaseInv == Inv /\ NewRelease => Inv'
<1> SUFFICES ASSUME Inv, NewRelease PROVE Inv'
    OBVIOUS
<1>1. TypeOK'
    <2>1. release' \in Releases
        BY Constants DEF Inv, TypeOK, NewRelease, Releases
    <2>2. quiet' \in 0..MaxAge
        BY Constants DEF NewRelease
    <2>3. early' \in BOOLEAN
        BY DEF NewRelease
    <2> QED
        BY <2>1, <2>2, <2>3 DEF Inv, TypeOK, NewRelease, page
<1>2. ~OpenedOnRelease' /\ opened'.release <= release'
    BY Constants DEF Inv, TypeOK, PageInv, NewRelease, page, OpenedOnRelease, Releases
<1>3. CacheInv'
    <2>1. \A u \in Urls : cache[u] # Miss => cache[u].left <= MaxAge
        BY Constants DEF Inv, TypeOK, Entry
    <2> QED
        BY <2>1, Constants DEF Inv, TypeOK, CacheInv, NewRelease, Entry
<1>4. BundleInv'
    <2>1. \A r \in Releases : r <= release => r < release'
        BY Constants DEF Inv, TypeOK, NewRelease, Releases
    <2>2. \A f \in Files : docsDir[f] <= release'
        BY Constants DEF Inv, TypeOK, BundleInv, NewRelease, Contents, Releases
    <2>3. parts["swagger.html"] \in Releases => parts["swagger.html"] <= release'
        BY <2>1, Constants DEF Inv, TypeOK, BundleInv, NewRelease, Releases
    <2>4. \A u \in Urls : u.file = "swagger-ui-bundle.js" /\ cache[u] # Miss =>
             \E r \in Releases : r < release' /\ u.query = BundleQuery[r]
        BY <2>1 DEF Inv, BundleInv
    <2>5. \A r \in Releases : r < release' => r <= release'
        BY Constants DEF Inv, TypeOK, NewRelease, Releases
    <2> QED
        BY <2>2, <2>3, <2>4, <2>5 DEF BundleInv, NewVersion, NewRelease, page
<1> QED
    BY <1>1, <1>2, <1>3, <1>4
       DEF Inv, NewRelease, page, PageInv, OwnPartsAreCurrent, OneReleaseAfterMaxAge,
           BreaksOnlyWhenLost, VersionProtectsBundle

(* While files are replaced no page counts as opened on the release.       *)
LEMMA CopyInv ==
    ASSUME Inv, NEW f \in Files, Remove(f) \/ Write(f)
    PROVE  Inv'
<1>1. /\ docsDir[f] # release /\ quiet = 0 /\ ~OpenedOnRelease
      /\ release' = release /\ quiet' = quiet /\ cache' = cache /\ UNCHANGED page /\ early' = early
    BY Constants DEF Inv, TypeOK, CacheInv, PageInv, Remove, Write, Installed
<1>2. TypeOK'
    BY <1>1 DEF Inv, TypeOK, Remove, Write, Contents, page
<1>3. CacheInv'
    BY <1>1 DEF Inv, CacheInv
<1>4. BundleInv'
    <2>1. \A g \in Files : docsDir'[g] \in {docsDir[g], 0, release}
        BY DEF Inv, TypeOK, Remove, Write
    <2> QED
        BY <1>1, <2>1, Constants DEF Inv, TypeOK, BundleInv, NewVersion, page, Releases
<1> QED
    BY <1>1, <1>2, <1>3, <1>4
       DEF Inv, page, PageInv, OwnPartsAreCurrent, OneReleaseAfterMaxAge, BreaksOnlyWhenLost,
           VersionProtectsBundle, OpenedOnRelease

LEMMA OlderEntry ==
    ASSUME NEW entry \in Entry
    PROVE  /\ Older(entry) \in Entry
           /\ Older(entry) # Miss => /\ Older(entry).content = entry.content
                                     /\ Older(entry).left = entry.left - 1
                                     /\ entry # Miss
BY Constants DEF Entry, Older, Miss

LEMMA TickInv == Inv /\ Tick => Inv'
<1> SUFFICES ASSUME Inv, Tick PROVE Inv'
    OBVIOUS
<1>1. /\ docsDir' = docsDir /\ release' = release /\ UNCHANGED page /\ early' = early
      /\ quiet' \in 0..MaxAge /\ quiet' <= quiet + 1 /\ quiet <= quiet'
      /\ ~Installed => quiet' = quiet
    BY Constants DEF Inv, TypeOK, Tick
<1>2. \A u \in Urls : cache[u] \in Entry /\ cache'[u] = Older(cache[u])
    BY DEF Inv, TypeOK, Tick
<1>3. TypeOK'
    <2>1. cache' \in [Urls -> Entry]
        BY <1>2, OlderEntry DEF Tick
    <2> QED
        BY <1>1, <2>1 DEF Inv, TypeOK, page
<1>4. CacheInv'
    <2>1. \A u \in Urls : CacheControl(u.file) # "max-age" => cache'[u] = Miss
        BY <1>2, OlderEntry DEF Inv, CacheInv
    <2>2. ASSUME NEW u \in Urls, cache'[u] # Miss, cache'[u].content # release
          PROVE  cache'[u].left + quiet' <= MaxAge
        <3>1. /\ cache[u] # Miss /\ cache[u].content # release
              /\ cache'[u].left = cache[u].left - 1
            BY <1>2, <2>2, OlderEntry
        <3>2. cache[u].left + quiet <= MaxAge /\ cache[u].left \in Nat
            BY <1>2, <3>1, Constants DEF Inv, CacheInv, Entry
        <3> QED
            BY <1>1, <3>1, <3>2, Constants DEF Inv, TypeOK
    <2>3. ~Installed' => quiet' = 0
        BY <1>1 DEF Inv, CacheInv, Installed
    <2> QED
        BY <1>1, <2>1, <2>2, <2>3 DEF CacheInv
<1>5. PageInv'
    BY <1>1, Constants DEF Inv, TypeOK, PageInv, OpenedOnRelease, Installed, page
<1>6. BundleInv'
    <2>1. \A u \in Urls : cache'[u] # Miss => cache[u] # Miss /\ cache'[u].content = cache[u].content
        BY <1>2, OlderEntry
    <2> QED
        BY <1>1, <2>1 DEF Inv, BundleInv, NewVersion, page
<1> QED
    BY <1>1, <1>3, <1>4, <1>5, <1>6
       DEF Inv, page, NewVersion, OwnPartsAreCurrent, OneReleaseAfterMaxAge, BreaksOnlyWhenLost,
           VersionProtectsBundle, OpenedOnRelease, OfRelease

LEMMA OpenInv == Inv /\ Open => Inv'
<1> SUFFICES ASSUME Inv, Open PROVE Inv'
    OBVIOUS
<1>1. TypeOK'
    BY Constants DEF Inv, TypeOK, Open, server, NothingYet
<1>2. CacheInv'
    BY DEF Inv, CacheInv, Open, server, Installed
<1>3. PageInv'
    BY Constants DEF Inv, TypeOK, PageInv, Open, server, Installed, OpenedOnRelease
<1>4. BundleInv'
    <2>1. parts'["swagger.html"] \notin Releases
        BY Constants, FilesOf DEF Open
    <2> QED
        BY <2>1 DEF Inv, BundleInv, NewVersion, Open, server
<1>5. \A f \in Files : OfRelease(f)'
    BY Constants DEF Open, OfRelease
<1>6. (OwnPartsAreCurrent /\ OneReleaseAfterMaxAge /\ VersionProtectsBundle)'
    BY <1>5, FilesOf DEF OwnPartsAreCurrent, OneReleaseAfterMaxAge, VersionProtectsBundle, Scripts
<1>7. BreaksOnlyWhenLost'
    BY DEF Open, BreaksOnlyWhenLost
<1> QED
    BY <1>1, <1>2, <1>3, <1>4, <1>6, <1>7 DEF Inv

(* What one fetch does to the cache and to the parts of the page.          *)
LEMMA FetchInv ==
    ASSUME Inv, NEW f \in Files, Fetch(f), UNCHANGED server, UNCHANGED opened,
           stage = "assets" \/ f # "swagger-ui-bundle.js"
    PROVE  /\ cache' \in [Urls -> Entry] /\ CacheInv'
           /\ parts' \in [Files -> Contents \cup {Waiting, Lost}]
           /\ parts'[f] # Waiting
           /\ \A g \in Files \ {f} : parts'[g] = parts[g]
           /\ OwnPartsAreCurrent' /\ OneReleaseAfterMaxAge'
           /\ early' \in BOOLEAN /\ BundleInv' /\ VersionProtectsBundle'
<1>1. Url(f) \in Urls /\ Url(f).file = f
    BY Constants DEF Url, Urls, Inv, PageInv
<1>2. PICK content \in Contents \cup {Lost} : Get(f, content)
    <2>1. docsDir[f] \in Contents
        BY DEF Inv, TypeOK
    <2>2. cache[Url(f)].content \in Contents
        BY <1>1, Constants DEF Inv, TypeOK, Entry, Miss, Contents
    <2> QED
        BY <2>1, <2>2 DEF Fetch, FromServer, FromCache, Fails
<1>3. /\ parts' \in [Files -> Contents \cup {Waiting, Lost}]
      /\ parts'[f] = content /\ parts'[f] # Waiting
      /\ \A g \in Files \ {f} : parts'[g] = parts[g]
    BY <1>2, Constants DEF Inv, TypeOK, Get
<1>4. cache' \in [Urls -> Entry] /\ CacheInv'
    <2>1. CASE cache' = cache
        BY <2>1 DEF Inv, TypeOK, CacheInv, server, Installed
    <2>2. CASE CacheControl(f) = "max-age"
               /\ cache' = [cache EXCEPT ![Url(f)] = [content |-> docsDir[f], left |-> MaxAge]]
        <3>1. [content |-> docsDir[f], left |-> MaxAge] \in Entry
            BY Constants DEF Inv, TypeOK, Entry
        <3>2. docsDir[f] # release => quiet = 0
            BY DEF Inv, CacheInv, Installed
        <3>3. cache' \in [Urls -> Entry]
            BY <2>2, <3>1 DEF Inv, TypeOK
        <3>4. \A u \in Urls : CacheControl(u.file) # "max-age" => cache'[u] = Miss
            BY <1>1, <2>2 DEF Inv, TypeOK, CacheInv
        <3>5. \A u \in Urls : cache'[u] # Miss /\ cache'[u].content # release
                                 => cache'[u].left + quiet <= MaxAge
            BY <1>1, <2>2, <3>2, Constants DEF Inv, TypeOK, CacheInv
        <3> QED
            BY <3>3, <3>4, <3>5 DEF Inv, CacheInv, server, Installed
    <2> QED
        BY <2>1, <2>2 DEF Fetch, FromServer, FromCache, Fails
<1>5. release' = release /\ opened' = opened
    BY DEF server
<1>6. ASSUME OpenedOnRelease, CacheControl(f) # "max-age" \/ opened.quiet = MaxAge
      PROVE  content \in {Lost, release}
    <2>1. docsDir[f] = release /\ opened.quiet <= quiet
        BY <1>6 DEF Inv, PageInv, Installed
    <2>2. ASSUME cache[Url(f)] # Miss
          PROVE  cache[Url(f)].content = release
        <3>1. quiet = MaxAge
            BY <1>1, <1>6, <2>1, <2>2, Constants DEF Inv, TypeOK, CacheInv
        <3>2. cache[Url(f)].left \in Nat \ {0}
            BY <1>1, <2>2, Constants DEF Inv, TypeOK, Entry
        <3> QED
            BY <1>1, <2>2, <3>1, <3>2, Constants DEF Inv, CacheInv
    <2> QED
        BY <1>2, <1>3, <2>1, <2>2 DEF Inv, TypeOK, Fetch, FromServer, FromCache, Fails, Get
<1>7. OwnPartsAreCurrent'
    BY <1>3, <1>5, <1>6, FilesOf DEF Inv, OwnPartsAreCurrent, OpenedOnRelease, OfRelease
<1>8. OneReleaseAfterMaxAge'
    BY <1>3, <1>5, <1>6 DEF Inv, OneReleaseAfterMaxAge, OpenedOnRelease, OfRelease
<1>9. early' \in BOOLEAN /\ (early => early')
    BY DEF Fetch, FromServer, FromCache, Fails, TooEarly, Inv, TypeOK
<1>10. BundleInv'
    <2>1. parts'["swagger.html"] \in Releases => parts'["swagger.html"] <= release
        <3>1. CASE f # "swagger.html"
            BY <1>3, <3>1, FilesOf DEF Inv, BundleInv
        <3>2. CASE f = "swagger.html"
            <4>1. cache[Url(f)] = Miss
                <5>1. CacheControl(f) # "max-age"
                    BY <3>2, FilesOf DEF Vendored
                <5> QED
                    BY <1>1, <5>1 DEF Inv, CacheInv
            <4>2. parts'[f] \in {docsDir[f], Lost}
                BY <4>1 DEF Fetch, FromServer, FromCache, Fails, Get, Inv, TypeOK
            <4> QED
                BY <3>2, <4>2, Constants DEF Inv, BundleInv, Contents
        <3> QED
            BY <3>1, <3>2
    <2>2. CASE cache' = cache
        BY <1>5, <1>9, <2>1, <2>2 DEF Inv, BundleInv, NewVersion, server
    <2>3. CASE /\ cache' = [cache EXCEPT ![Url(f)] = [content |-> docsDir[f], left |-> MaxAge]]
               /\ early' = (early \/ TooEarly(f))
        <3>1. \A u \in Urls : cache'[u] = IF u = Url(f) THEN [content |-> docsDir[f], left |-> MaxAge]
                                         ELSE cache[u]
            BY <2>3 DEF Inv, TypeOK
        <3>2. CASE f # "swagger-ui-bundle.js"
            <4>1. \A u \in Urls : u.file = "swagger-ui-bundle.js" => cache'[u] = cache[u]
                BY <1>1, <3>1, <3>2
            <4> QED
                BY <1>5, <1>9, <2>1, <4>1 DEF Inv, BundleInv, NewVersion, server
        <3>3. CASE f = "swagger-ui-bundle.js"
            <4> DEFINE h == parts["swagger.html"]
            <4>1. h \in Releases /\ h <= release /\ Url(f).query = BundleQuery[h]
                BY <3>3 DEF Inv, PageInv, BundleInv, Url
            <4>2. ~early' /\ Url(f).query = BundleQuery[release] => docsDir[f] = release
                BY <2>3, <3>3 DEF TooEarly
            <4>3. \A u \in Urls : u.file = "swagger-ui-bundle.js" /\ cache'[u] # Miss =>
                     \E r \in Releases : r <= release /\ u.query = BundleQuery[r]
                BY <3>1, <4>1 DEF Inv, BundleInv
            <4>4. ASSUME NewVersion, ~early', NEW u \in Urls, u.file = "swagger-ui-bundle.js",
                         cache'[u] # Miss, u.query = BundleQuery[release]
                  PROVE  cache'[u].content = release
                BY <1>9, <3>1, <4>2, <4>4 DEF Inv, BundleInv
            <4> QED
                BY <1>5, <2>1, <4>3, <4>4 DEF Inv, BundleInv, NewVersion, server
        <3> QED
            BY <3>2, <3>3
    <2> QED
        BY <2>2, <2>3 DEF Fetch, FromServer, FromCache, Fails
<1>11. VersionProtectsBundle'
    <2> SUFFICES ASSUME OpenedOnRelease, NewVersion, ~early'
                 PROVE  OfRelease("swagger-ui-bundle.js")'
        BY <1>5 DEF VersionProtectsBundle, OpenedOnRelease, NewVersion
    <2>1. CASE f # "swagger-ui-bundle.js"
        BY <1>3, <1>5, <1>9, <2>1, FilesOf DEF Inv, VersionProtectsBundle, OfRelease, Scripts
    <2>2. CASE f = "swagger-ui-bundle.js"
        <3>1. parts["swagger.html"] = release
            BY <2>2, Constants, FilesOf
               DEF Inv, OwnPartsAreCurrent, OfRelease, PageInv, Contents, Vendored
        <3>2. Url(f).query = BundleQuery[release]
            BY <2>2, <3>1 DEF Url
        <3>3. cache[Url(f)] # Miss => cache[Url(f)].content = release
            BY <1>1, <1>9, <2>2, <3>2 DEF Inv, BundleInv
        <3>4. docsDir[f] = release
            BY DEF Inv, PageInv, Installed
        <3>5. parts'[f] \in {release, Lost}
            BY <3>3, <3>4 DEF Fetch, FromServer, FromCache, Fails, Get, Inv, TypeOK
        <3> QED
            BY <1>5, <2>2, <3>5 DEF OfRelease
    <2> QED
        BY <2>1, <2>2
<1> QED
    BY <1>3, <1>4, <1>7, <1>8, <1>9, <1>10, <1>11

(* On a page of one release a file that is there but not usable was lost.  *)
LEMMA NotUsable ==
    ASSUME Inv, OneReleaseAfterMaxAge', UNCHANGED server, UNCHANGED opened,
           opened.quiet = MaxAge, OpenedOnRelease,
           NEW f \in Files, parts'[f] # Waiting, parts'[f] \notin Releases
    PROVE  parts'[f] = Lost
BY DEF OneReleaseAfterMaxAge, OpenedOnRelease, OfRelease, server, Inv, TypeOK

LEMMA Unchanged ==
    ASSUME Inv, UNCHANGED server, UNCHANGED opened
    PROVE  /\ opened'.release <= release'
           /\ OpenedOnRelease' => OpenedOnRelease /\ Installed' /\ opened'.quiet <= quiet'
BY DEF Inv, PageInv, OpenedOnRelease, Installed, server

LEMMA GetPageInv == Inv /\ GetPage => Inv'
<1> SUFFICES ASSUME Inv, GetPage PROVE Inv'
    OBVIOUS
<1>1. /\ Fetch("swagger.html") /\ UNCHANGED server /\ UNCHANGED opened
      /\ host' = host
      /\ stage' = IF parts'["swagger.html"] \in Releases THEN "assets" ELSE "broken"
    BY DEF GetPage
<1>2. /\ cache' \in [Urls -> Entry] /\ CacheInv'
      /\ parts' \in [Files -> Contents \cup {Waiting, Lost}]
      /\ parts'["swagger.html"] # Waiting
      /\ OwnPartsAreCurrent' /\ OneReleaseAfterMaxAge'
      /\ early' \in BOOLEAN /\ BundleInv' /\ VersionProtectsBundle'
    BY <1>1, FilesOf, FetchInv
<1>3. TypeOK'
    BY <1>1, <1>2 DEF Inv, TypeOK, server
<1>4. PageInv'
    BY <1>1, Unchanged DEF PageInv
<1>5. BreaksOnlyWhenLost'
    BY <1>1, <1>2, FilesOf, Unchanged, NotUsable DEF BreaksOnlyWhenLost
<1> QED
    BY <1>2, <1>3, <1>4, <1>5 DEF Inv

LEMMA GetAssetInv == Inv /\ GetAsset => Inv'
<1> SUFFICES ASSUME Inv, GetAsset PROVE Inv'
    OBVIOUS
<1>1. /\ stage = "assets" /\ stage' = stage /\ UNCHANGED server /\ UNCHANGED opened
      /\ host' = host
    BY DEF GetAsset
<1>2. PICK f \in Assets : Fetch(f)
    BY DEF GetAsset
<1>3. /\ cache' \in [Urls -> Entry] /\ CacheInv'
      /\ parts' \in [Files -> Contents \cup {Waiting, Lost}]
      /\ \A g \in Files \ {f} : parts'[g] = parts[g]
      /\ OwnPartsAreCurrent' /\ OneReleaseAfterMaxAge'
      /\ early' \in BOOLEAN /\ BundleInv' /\ VersionProtectsBundle'
    BY <1>1, <1>2, FilesOf, FetchInv
<1>4. TypeOK'
    BY <1>1, <1>3 DEF Inv, TypeOK, server
<1>5. PageInv'
    BY <1>1, <1>3, FilesOf, Unchanged DEF PageInv, Inv
<1> QED
    BY <1>1, <1>3, <1>4, <1>5 DEF Inv, BreaksOnlyWhenLost

LEMMA LoadInv == Inv /\ Load => Inv'
<1> SUFFICES ASSUME Inv, Load PROVE Inv'
    OBVIOUS
<1>1. /\ UNCHANGED server /\ UNCHANGED opened /\ UNCHANGED <<cache, host, parts, early>>
      /\ stage' = IF \A f \in Scripts : Usable(f) THEN "spec" ELSE "broken"
      /\ \A f \in Assets : parts[f] # Waiting
    BY DEF Load
<1>2. TypeOK'
    BY <1>1 DEF Inv, TypeOK, server
<1>3. CacheInv'
    BY <1>1 DEF Inv, CacheInv, server, Installed
<1>4. PageInv'
    BY <1>1, Unchanged DEF PageInv
<1>5. OwnPartsAreCurrent' /\ OneReleaseAfterMaxAge' /\ BundleInv' /\ VersionProtectsBundle'
    BY <1>1 DEF Inv, server, OwnPartsAreCurrent, OneReleaseAfterMaxAge, OpenedOnRelease, OfRelease,
                BundleInv, NewVersion, VersionProtectsBundle
<1>6. BreaksOnlyWhenLost'
    <2> SUFFICES ASSUME stage' = "broken", OpenedOnRelease', opened'.quiet = MaxAge
                 PROVE  \E f \in Files : parts'[f] = Lost
        BY DEF BreaksOnlyWhenLost
    <2>1. PICK f \in Scripts : parts[f] \notin Releases
        BY <1>1 DEF Usable
    <2> QED
        BY <1>1, <1>5, <2>1, FilesOf, Unchanged, NotUsable
<1> QED
    BY <1>2, <1>3, <1>4, <1>5, <1>6 DEF Inv

LEMMA GetSpecInv == Inv /\ GetSpec => Inv'
<1> SUFFICES ASSUME Inv, GetSpec PROVE Inv'
    OBVIOUS
<1>1. host \in Hosts
    BY DEF Inv, TypeOK
<1>2. Intercept(SpecTarget) = host /\ Admitted(Intercept(SpecTarget))
    BY DEF Intercept, SpecTarget, Resolve, Admitted
<1>3. /\ Fetch("openapi.json") /\ UNCHANGED server /\ UNCHANGED opened
      /\ host' = host
      /\ stage' = IF parts'["openapi.json"] \in Releases THEN "shown" ELSE "broken"
    BY <1>2 DEF GetSpec
<1>4. /\ cache' \in [Urls -> Entry] /\ CacheInv'
      /\ parts' \in [Files -> Contents \cup {Waiting, Lost}]
      /\ parts'["openapi.json"] # Waiting
      /\ OwnPartsAreCurrent' /\ OneReleaseAfterMaxAge'
      /\ early' \in BOOLEAN /\ BundleInv' /\ VersionProtectsBundle'
    BY <1>3, FilesOf, FetchInv
<1>5. TypeOK'
    BY <1>1, <1>3, <1>4 DEF Inv, TypeOK, server
<1>6. PageInv'
    BY <1>3, Unchanged DEF PageInv
<1>7. BreaksOnlyWhenLost'
    BY <1>3, <1>4, FilesOf, Unchanged, NotUsable DEF BreaksOnlyWhenLost
<1> QED
    BY <1>4, <1>5, <1>6, <1>7 DEF Inv

LEMMA StutterInv == Inv /\ UNCHANGED vars => Inv'
BY DEF Inv, vars, server, page, TypeOK, CacheInv, PageInv, BundleInv, NewVersion, Installed, OwnPartsAreCurrent,
       OneReleaseAfterMaxAge, BreaksOnlyWhenLost, VersionProtectsBundle, OpenedOnRelease, OfRelease

LEMMA Invariance == Spec => []Inv
<1>1. Inv /\ [Next]_vars => Inv'
    BY NewReleaseInv, CopyInv, TickInv, OpenInv, GetPageInv, GetAssetInv, LoadInv, GetSpecInv,
       StutterInv
       DEF Next, Build, Browse
<1> QED
    BY <1>1, InitInv, PTL DEF Spec

(* Every copy in the cache expires by max-age at the latest, and every part*)
(* of a page is of a release that was built, missing, lost or awaited.     *)
THEOREM TypeCorrect == Spec => []TypeOK
<1>1. Inv => TypeOK
    BY DEF Inv
<1> QED
    BY <1>1, Invariance, PTL

(* A page opened on an installed release has that release's specification, *)
(* initializer and own style sheet.                                        *)
THEOREM OwnPartsCurrent == Spec => []OwnPartsAreCurrent
<1>1. Inv => OwnPartsAreCurrent
    BY DEF Inv
<1> QED
    BY <1>1, Invariance, PTL

(* A release installed for max-age is the only one a page can be made of.  *)
THEOREM OneRelease == Spec => []OneReleaseAfterMaxAge
<1>1. Inv => OneReleaseAfterMaxAge
    BY DEF Inv
<1> QED
    BY <1>1, Invariance, PTL

(* After that, a page breaks only when the server cannot be reached.       *)
THEOREM BreaksWhenLost == Spec => []BreaksOnlyWhenLost
<1>1. Inv => BreaksOnlyWhenLost
    BY DEF Inv
<1> QED
    BY <1>1, Invariance, PTL

(* A page of an installed release whose bundle has a new version runs that *)
(* bundle, unless the browser asked for it while it was being copied.      *)
THEOREM NewBundleRuns == Spec => []VersionProtectsBundle
<1>1. Inv => VersionProtectsBundle
    BY DEF Inv
<1> QED
    BY <1>1, Invariance, PTL
=============================================================================
