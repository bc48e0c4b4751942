----------------------------- MODULE IragRoutes -----------------------------
(***************************************************************************)
(* A request on its way down the chain of its route: what each provider in *)
(* turn is asked (irag/service.go).  Two switches have to agree for it,    *)
(* routeSpecForPath, which serves the path and names the chain, and        *)
(* upstreamPathAndQuery, which knows what each of them calls it; a         *)
(* provider passed the gateway's own path answers 404, which the gateway   *)
(* counts against its breaker.  Here every provider fails; IragGateway has *)
(* what becomes of a request whose provider does not.                      *)
(***************************************************************************)
EXTENDS IragRouteBook

upstreamRules ==
    << <<{}, {"/v1/ai/text/"}, "ai text">>, <<{"/v1/ai/generate", "/v1/ai/image"}, {}, "ai picture">>,
       <<{}, {"/v1/ai/image/"}, "ai image">>, <<{}, {"/v1/ai/process/", "/v1/i2i/"}, "ai process">>,
       <<{}, {"/v1/ai/"}, "ai direct">>, <<{}, {"/v1/youtube/"}, "youtube">>,
       <<{"/v1/llm/chatgpt/completions"}, {}, "llm">>, <<{}, {"/v1/download/"}, "download">>,
       <<{}, {"/v1/search/"}, "search">>, <<{}, {"/v1/stalk/"}, "stalk">>, <<{}, {"/v1/bmkg/"}, "bmkg">>,
       <<{}, {"/v1/anime/"}, "anime">>, <<{}, {"/v1/manga/"}, "manga">>,
       <<{"/v1/otakudesu"}, {"/v1/otakudesu/"}, "otakudesu">>, <<{"/v1/komiku"}, {"/v1/komiku/"}, "komiku">>,
       <<{}, {"/v1/film/", "/v1/drama/", "/v1/lk21"}, "film">>, <<{"/v1/novel"}, {"/v1/novel/"}, "novel">>,
       <<{}, {"/v1/news/"}, "news">>, <<{}, {"/v1/weebs/"}, "weebs">>, <<{}, {"/v1/misc/"}, "misc">>,
       <<{}, {"/v1/media/"}, "media">>, <<{"/v1/upload"}, {"/v1/upload/"}, "upload">>,
       <<{}, {"/v1/dramabox"}, "dramabox">>, <<{}, {"/v1/tools/cctv", "/v1/bsw/cctv"}, "cctv">>,
       <<{"/v1/utility/upscale"}, {}, "tools">>, <<{"/v1/server-info"}, {}, "server-info">>,
       <<{}, {"/v1/game/"}, "game">>, <<{}, {"/v1/tools/"}, "tools">>, <<{}, {"/v1/islamic/"}, "islamic">> >>

upstreamPathAndQuery(path, provider, query) ==
    LET family == routeFamily(upstreamRules, path)
    IN  CASE family = "ai text" -> aiTextUpstream(path, provider, query)
          [] family = "ai picture" /\ provider = "kanata" ->
                 Sent("/ai/" \o After(path, "/v1/ai/"), buildAIImageQuery(query))
          [] family = "ai image" -> aiImageUpstream(path, provider, query)
          [] family = "ai process" -> aiProcessUpstream(path, provider, query)
          [] family = "ai direct" -> aiDirectUpstreamPathAndQuery(After(path, "/v1/ai/"), provider, query)
          [] family = "youtube" -> youtubeUpstreamPathAndQuery(path, provider, query)
          [] family = "llm" -> llmUpstreamPathAndQuery(path, provider, query)
          [] family = "download" -> downloadUpstreamPathAndQuery(path, provider, query)
          [] family = "search" -> searchUpstreamPathAndQuery(path, provider, query)
          [] family = "stalk" -> stalkUpstreamPathAndQuery(path, provider, query)
          [] family = "bmkg" /\ provider = "kanata" -> bmkgUpstreamPathAndQuery(path, query)
          [] family = "anime" -> animeUpstreamPathAndQuery(path, provider, query)
          [] family = "manga" -> mangaUpstreamPathAndQuery(path, provider, query)
          [] family = "otakudesu" -> animeUpstreamPathAndQuery(otakudesuAliasPath(path), provider, query)
          [] family = "komiku" -> mangaUpstreamPathAndQuery(komikuAliasPath(path), provider, query)
          [] family = "film" -> filmUpstreamPathAndQuery(path, provider, query)
          [] family = "novel" -> novelUpstreamPathAndQuery(path, provider, query)
          [] family = "news" -> newsUpstreamPathAndQuery(path, provider, query)
          [] family = "weebs" -> weebsUpstreamPathAndQuery(path, provider, query)
          [] family = "misc" -> miscUpstreamPathAndQuery(path, provider, query)
          [] family = "media" -> mediaUpstreamPathAndQuery(path, provider, query)
          [] family = "upload" -> uploadUpstreamPathAndQuery(path, provider, query)
          [] family = "dramabox" -> dramaboxUpstreamPathAndQuery(path, provider, query)
          [] family = "cctv" -> cctvUpstreamPathAndQuery(path, provider, query)
          [] family = "server-info" -> serverInfoUpstreamPathAndQuery(path, provider, query)
          [] family = "game" -> gameUpstreamPathAndQuery(path, provider, query)
          [] family = "tools" -> toolsUpstreamPathAndQuery(path, provider, query)
          [] family = "islamic" /\ provider = "ytdlp" -> ytdlpIslamicPathAndQuery(path, query)
          [] OTHER -> PassedOn(path, query)

------------------------------------------------------------------------------
(* A request gives what its route needs under one name, or nothing at all. *)
TheValue == "it"

Asking(name) == IF name = "" THEN NoQuery ELSE [n \in {name} |-> TheValue]

------------------------------------------------------------------------------
(* asking is the request, turn the place in its chain of the provider to be *)
(* asked next, lastSent what the one before was asked, knew whether one of  *)
(* them had a case for the route.                                           *)
VARIABLES asking, turn, lastSent, knew

routeVars == <<asking, turn, lastSent, knew>>

NoAsk == [path |-> "", name |-> "", usual |-> ""]
NothingSent == PassedOn("", NoQuery) @@ [to |-> "nobody"]

chain == routeSpecForPath(asking.path)

RouteInit == /\ asking \in Asks
             /\ turn = 1
             /\ lastSent = NothingSent
             /\ knew = FALSE

AskProvider ==
    /\ turn <= Len(chain)
    /\ lastSent' = upstreamPathAndQuery(asking.path, chain[turn], Asking(asking.name)) @@ [to |-> chain[turn]]
    /\ knew' = (knew \/ lastSent'.own)
    /\ turn' = turn + 1
    /\ UNCHANGED asking

\* The chain is exhausted; the caller tries again.
AskAgain ==
    /\ turn > Len(chain)
    /\ turn' = 1 /\ lastSent' = NothingSent /\ knew' = FALSE
    /\ UNCHANGED asking

RouteNext == AskProvider \/ AskAgain

RouteSpec == RouteInit /\ [][RouteNext]_routeVars

------------------------------------------------------------------------------
(* Under which names a provider was given the value the caller gave. *)
Carried(s) == {n \in DOMAIN s.query : s.query[n] = TheValue}
                  \cup (IF HasSuffix(s.path, "/" \o TheValue) THEN {"path"} ELSE {})

\* The names the case of one provider reads what the route needs from and
\* that of another does not: routes, names, and the providers it is lost on.
LostNames ==
    { <<{"/v1/search/weather"}, {"city"}, {"nexure"}>>,
      <<{"/v1/search/jadwal-sholat", "/v1/search/sholat"}, {"kota", "city"}, {"nexure"}>>,
      <<{"/v1/search/weather", "/v1/search/jadwal-sholat", "/v1/search/sholat"}, {"ask", "text"}, {"ryzumi"}>>,
      <<Under("/v1/search/", titledSlugs), {"title"}, {"nexure", "kanata"}>>,
      <<{"/v1/search/mahasiswa", "/v1/search/pddikti"}, {"name"}, {"nexure"}>>,
      <<{"/v1/search/lens"}, {"image_url", "imgUrl"}, {"nexure"}>>,
      <<{"/v1/youtube/download"}, {"itag"}, {"chocomilk"}>> }

(***************************************************************************)
(* However far the fallback goes, a provider that knows the route is given *)
(* what the caller gave under every name it would have had for the usual   *)
(* one, but for the names listed, with which it is not: each provider's    *)
(* query is built by code of its own, out of lists of names of its own,    *)
(* and a caller who is answered by one of them cannot know that the next   *)
(* one in the chain would be asked for nothing.                            *)
(***************************************************************************)
QuestionCarried ==
    lastSent.own /\ asking.name # "" =>
        LET usual == upstreamPathAndQuery(asking.path, lastSent.to, Asking(asking.usual))
            lost == \E gap \in LostNames :
                        asking.path \in gap[1] /\ asking.name \in gap[2] /\ lastSent.to \in gap[3]
        IN  Carried(usual) # {} /\ (Carried(usual) \subseteq Carried(lastSent) <=> ~lost)

\* Routes served that no provider of their chain has a case for.
NobodysRoutes ==
    {"/v1/media", "/v1/weebs/character", "/v1/weebs/info"}
        \cup Under("/v1/islamic/", {"khutbah", "khutbah/detail", "sholat/1", "sholat/city/x"})
        \cup Under("/v1/tools/", {"satudata", "tv", "tempmail", "tinyurl", "shortlink/bypass"})

(***************************************************************************)
(* A request that has been through its whole chain has met a provider that *)
(* knows its route: routeSpecForPath sends nobody to strangers alone, but  *)
(* for the routes listed, where it does.                                   *)
(***************************************************************************)
KnownToSomeone ==
    turn > Len(chain) /\ asking # NoAsk => (knew <=> asking.path \notin NobodysRoutes)

\* The texts the documents name both ways.
documentedTexts == {"ai4chat", "copilot", "deepseek", "gemini", "gpt", "perplexity", "webpilot", "z-ai", "meta",
                    "claila"}

\* The routes that stand for another one.
AliasPaths ==
    {<<"/v1/otakudesu" \o a, "/v1/anime" \o b>> :
        <<a, b>> \in {<<"", "/home">>, <<"/genre", "/genres">>, <<"/lengkap/x", "/full/x">>,
                      <<"/animebygenre/x", "/genre/x">>}
                     \cup {<<same, same>> : same \in {"/home", "/schedule", "/genres", "/nonce", "/search", "/iframe",
                                "/genre/x", "/full/x", "/detail/x", "/episode/x", "/batch/x"}}}
    \cup {<<"/v1/komiku" \o a, "/v1/manga" \o b>> :
        <<a, b>> \in {<<"", "/latest">>, <<"/home", "/latest">>, <<"/latest", "/latest">>,
                      <<"/search", "/search">>, <<"/detail/x", "/detail/x">>, <<"/chapter/x", "/chapter/x">>}}
    \cup {<<"/v1/i2i/" \o s, "/v1/ai/process/" \o s>> : s \in processSlugs \cup {"faceswap"}}
    \cup {<<"/v1/ai/" \o s, "/v1/ai/text/" \o s>> : s \in documentedTexts}
    \cup {<<"/v1/ai/" \o s, "/v1/ai/image/" \o s>> : s \in imageSlugs}
    \cup {<<"/v1/ai/v2/gpt", "/v1/ai/text/gpt-v2">>, <<"/v1/bsw/cctv", "/v1/tools/cctv">>,
          <<"/v1/bsw/cctv/search", "/v1/tools/cctv/search">>, <<"/v1/server-info", "/v1/misc/server-info">>,
          <<"/v1/tools/upscale", "/v1/utility/upscale">>, <<"/v1/novel", "/v1/novel/home">>,
          <<"/v1/drama/home", "/v1/film/home">>, <<"/v1/drama/search", "/v1/film/search">>,
          <<"/v1/drama/detail/x", "/v1/film/detail/x">>, <<"/v1/bsw/cctv/all", "/v1/tools/cctv/all">>,
          <<"/v1/bsw/cctv/detail/x", "/v1/tools/cctv/detail/x">>,
          <<"/v1/tools/dramabox/search", "/v1/dramabox/search">>, <<"/v1/tools/dramabox", "/v1/dramabox">>,
          <<"/v1/novel/hot", "/v1/novel/hot-search">>}

(***************************************************************************)
(* An alias is its route: every provider that knows it is asked what it    *)
(* would be asked for the route it stands for, the documents' "maps to the *)
(* same surface", although another switch, and often another table, serves *)
(* it.                                                                     *)
(***************************************************************************)
AliasesAlike ==
    \A pair \in AliasPaths :
        pair[1] = asking.path /\ turn > 1 =>
            LET other == upstreamPathAndQuery(pair[2], lastSent.to, Asking(asking.name))
            IN  other.own \/ lastSent.own => other.path = lastSent.path /\ other.query = lastSent.query

(***************************************************************************)
(* Both: no route but those listed is sent to strangers alone, and an      *)
(* alias is never asked otherwise than its route.                          *)
(***************************************************************************)
RoutesKnown == KnownToSomeone /\ AliasesAlike
=============================================================================
