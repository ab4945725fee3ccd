------------------------------ MODULE MCDocsPage ------------------------------
(***************************************************************************)
(* DocsPage with two releases: the second changes the bundle's version,    *)
(* and its page is copied before its bundle.                               *)
(***************************************************************************)
EXTENDS DocsPage, Sequences

Versions == <<"v1", "v2">>

Walk == <<"swagger.html", "openapi.json", "swagger-ui.css", "swagger-ui-bundle.js",
          "swagger-initializer.js", "todod-swagger.css">>
RankInWalk == [f \in Files |-> CHOOSE i \in DOMAIN Walk : Walk[i] = f]
=============================================================================
